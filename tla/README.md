# Airline reservation system: TLA+ models and proofs

The program is a desktop application: one ImGui window in which a clerk selects
a flight, sees its seat map, books, changes and cancels seats, and searches for
flights with the Amadeus service. Flights and bookings are in a SQLite file,
`flights.db`, in the working directory, which any number of running instances
can have open. Its own code is about 2100 lines of C++ under
`src/AirlineReservationSystem/Source`; paths below are relative to that
directory. Nearly all other lines of the repository are vendored copies of
SQLite, ImGui, GLFW and curl, which are modelled only as far as this code uses
them.

## Inventory

| Part | Code | State | Operations |
|---|---|---|---|
| Seat map | `Core/SeatMap` | cabin size; for each seat: available, name, email, maximum load | construct, `IsSeatAvailable`, `BookSeat`, `CancelBooking`, `LoadFromFlightInformation`, JSON load and save |
| Flight | `Core/Flight` | id, route, times, a seat map | delegates to the seat map; `GenerateSeatCode` |
| Booking tables | `Core/PersistenceManager` | one table `Booking<flightId>` per flight, without a key | `InsertBookingData`, `DeleteBookingData`, `GetBookingsInfo`, `CountEntriesInTable` |
| Flights table | `Core/PersistenceManager` | one row per flight, with its cabin size | `CreateFlightsTable`, two `InsertFlight`, `GetFlightsInfo` |
| Booking session | `Application.cpp` | `activeFlight`, `activeSeatMap`, `g_SelectedRowCol`, `g_LogBuf` | the panes Seat Map, Select Flight, Create Bookings, Manage Bookings, Log Window |
| Frames | `Application.cpp` | the text buffers the panes share, `flightId`, the widget ids | the order of the panes in a frame |
| Amadeus search | `Application.cpp`, `Core/AmadeusInterface` | two dates, the calendars, an access token, `availableFlights.json` | pick dates, search |
| GUI wrapper | `Gui/GuiApp` | window, swap chain, run flag | set-up, frame loop, swap chain rebuild, clean-up |
| Date and time | `Util/Util` | none | `DatetimeToInt`, `IntToDatetime`, `OpenFileWithDefaultApp` |

How they interact. Everything in one instance runs on one thread, inside a
frame: `GuiApp::Run` calls `GUIMain`, which draws the panes in a fixed order and
acts on the button that was pressed. A seat map is a copy of a booking table,
made when the flight is selected and never refreshed. Book and Update change the
copy and then write *all* its named seats back, each in a transaction of its
own; Delete clears the seat in the copy and deletes the row. Instances share
nothing but the file and see each other only through SQLite's locks, with a busy
timeout of 0.

What is hard about it:

* other instances write between the load of a map and a booking on it, and
  between the transactions of one save;
* a call fails, or the process ends, between two transactions of a save, or
  between the change in memory and the change in the file;
* the check-then-insert of `InsertBookingData` is all that keeps a seat from
  having two rows, and `LoadFromFlightInformation` indexes the vectors with what
  the rows say, unchecked;
* the selected seat outlives the flight it was selected in;
* the GPU lags behind the thread that draws, and a frame can be abandoned when
  it holds part of what it needs;
* the interface is drawn anew in every frame, and what a press does depends on
  what the panes before it in that frame have written to the buffers they share,
  and on widget ids that are not unique;
* seat codes and times go through integers too narrow for some of their values;
* errors are reported as values the callers do not look at.

What makes the parts correct: the file never has two rows for a seat, a row for
no seat, or a row without a name; a copy differs from the file only where there
is a reason (a failure, another instance); the log tells the truth; a booking
goes away only when it is deleted; a save ends; a search asks for what is on
display, and what it writes is the answer or the beginning of it. `PROJECT.json` lists the hazards line by line, with the properties that
would catch each.

## The modules

| Module | Models | |
|---|---|---|
| `BookingRows` | one booking table as a set of rows, and the SQL statements on it | operators |
| `SeatMapOps` | class `SeatMap`, as operators on a record of its members | operators |
| `BookingStore` | what the booking tables promise: a seat has at most one named passenger, and bookings change one seat at a time | abstract specification |
| `Reservation` | instances of the program on one file; a step is one transaction, or the part of a frame between two | specification |
| `BookingTxn` | one table and the processes on it, call by call under SQLite's file locks | specification |
| `AmadeusSearch` | the search pane and the client behind it | specification |
| `GuiFrame` | the panes of one instance, frame by frame, with mouse, keyboard and text fields | specification |
| `FlightDisplay` | the flights table, and what a frame shows of it: times and seat codes | specification |
| `FrameLoop` | the main loop of `GuiApp` and its swap chain | specification |
| `MCReservation`, `MCBookingTxn`, `MCAmadeusSearch`, `MCGuiFrame`, `MCFlightDisplay` | instances for TLC | |
| `SeatMapProofs` | lemmas on the operators of `BookingRows` and `SeatMapOps` | proofs |
| `ReservationProofs`, `CoherenceProofs`, `BookingTxnProofs`, `GuiFrameProofs`, `FlightDisplayProofs`, `FrameLoopProofs`, `AmadeusSearchProofs` | theorems on the specifications | proofs |

`Reservation` and `BookingTxn` are two levels of one thing. `Reservation` takes
the transaction of a seat as one step; `BookingTxn` shows why it may: it opens
the transaction up into BEGIN, SELECT, UPDATE or INSERT, and the steps of
COMMIT, and shows that what the SELECT found is still so at the COMMIT. Both
implement `BookingStore`. `GuiFrame` looks at the same panes from the other side:
its tables are functions from seats to bookings, with no failures and no other
instance, and it opens up the frame, in which `Reservation` takes a press of a
button as given. It implements `BookingStore` too (`Contents` extends its tables to
places outside the cabin, which stay free). What `Reservation` assumes of it, that `Update` finds the
details of the selected seat in its fields, is `OnlyBookAndDeleteWrite` there.

### State and actions of Reservation

| Variable | In the program |
|---|---|
| `status[p]` | not running, idle between frames, in the save of a Book (`creating`) or an Update (`updating`), ended by an exception, or past undefined behaviour |
| `activeFlight[p]`, `seatMap[p]`, `selected[p]` | `activeFlight`, `*activeSeatMap`, `g_SelectedRowCol` |
| `todo[p]` | the iterations that the two loops of `InsertBookingData` have left |
| `log[p]` | the last message in `g_LogBuf` |
| `bookings[t]` | the rows of table `t` in `flights.db` |
| `faults` | how many calls have failed, for the bound `MaxFaults` |
| `stale[p]` | history: the seats on which the map of `p` may differ from the file, because a call of `p` failed there or another instance has written there since |

The buttons are `ClickSeat`, `SelectFlight`, `Book`, `BookRefused`, `Update`,
`Delete` and `ClearLog`; `SaveSeat` and `FinishSave` are the loop of
`InsertBookingData`. Failures are actions of their own: the count of a table
fails and ends the program (`FrameFails`, `SelectFlightFails`), the SELECT fails
half way (`SelectFlightTruncated`), a seat is rolled back and skipped
(`SaveSeatFails`), the rollback itself throws (`SaveSeatTerminates`), the DELETE
is swallowed (`DeleteFails`), the process is killed (`Crash`).

Abstractions. Name, email and maximum load are one value `details`, since every
statement writes them together; what matters is whether the name is empty
(`Unnamed`). SQLite's rowid is kept, because the table has no other key. The
text the user types in Manage Bookings never gets to the Update button, because
`SeatMapGUI` refills the fields in every frame before that pane is drawn:
`Update` books the details the seat already has (shown in `GuiFrame`). Any
listed flight can be selected, although the Select buttons share an id: with the
mouse only the first one can, with the keyboard the last one stays. The flights
table does not change while instances run, as in the program, where nothing but
disabled test code writes it.

### BookingTxn

`lock[p]` is the level of SQLite's rollback-journal lock: none, SHARED, RESERVED,
PENDING, EXCLUSIVE. SQLite is third-party code and its rules are taken as
external: a reader needs that nobody has PENDING or more, a writer that nobody
else has RESERVED or more, a COMMIT that nobody else has any lock. A call that
does not get its lock fails at once, `Busy`, and is rolled back. `checkQuery` is
still open when it has found a row, so that its SHARED lock outlasts the COMMIT
(`Close`).

### AmadeusSearch

`date` has the two dates; `popup` is the calendar that is open and `held` the
list entry the mouse button went down on. ImGui knows a widget by its label, and
the rule for a label that occurs twice decides what a mouse button that comes up over
an entry does (`MouseUp`): the first entry with the label that the button went down on
is pressed if the mouse is over it then, even if the button went down on another entry
(`IsFirst`, external). So a button that goes down on the day 4 and comes up over the
month 4 sets the month, and one that comes up over the day 4 sets nothing.

A search blocks the frame, but it is not one step: `Search` asks for a token and for
the offers, and gets an answer with offers, a refusal, or nothing that parses, which
ends the program; `OpenFile` empties `availableFlights.json`, or cannot open it; the
write succeeds, or fails and nobody notices; and the process can end (`Ends`) at any
of these points, with as much of the answer in the file as the stream had flushed.
`due` and `cut` are history: the answer that the file was last opened for, and whether
its write was cut short.

### GuiFrame

The state is one record, `ui`, which `GUIMain` threads through the panes in the
order the code calls them: `Header`, `SeatMapGUI`, `CreateBookings`,
`ManageBookings`, `SelectFlight`. Each pane is an operator from the state it finds
to the state it leaves, as each is a function on the globals. `Activate` is what
ImGui does at the ends of a frame. `updateBuf` is the global buffers, which
`SeatMapGUI` refills and `ManageBookings` edits; `createBuf` the static ones of
`CreateBookings`, which hide them. `flightId` is the id the frame began with, from
which the ids of the Select buttons are made.

ImGui is external, and its rules are taken from how it treats a button and a text
field: a press is the mouse button going down on a widget in one frame and up on it
in a later one; of widgets with one id the first that is drawn takes the release,
while a press with the keyboard reaches all of them; an active text field writes
its text to the buffer in every frame, and one that is activated takes its text from
the buffer and is the active one from then on, also for the panes that come later in
the same frame: ImGui has one text under edit, which the field that was active before
must not write to its own buffer. `typed` and `pressed` are history, for the properties.

Abstractions: a frame has at most one event, since ImGui spreads events out over
frames; all panes are on the screen, since a tab in front of a pane only takes
presses away; the three text fields of a pane, which are always used together, are
one. The Amadeus pane shares no state with the others and has its own module.

### FlightDisplay

`flights` is the table, which another process may create and extend at any time;
`at` is the place in a frame, which draws the seats of the active flight one by one
(`seat`, `drawn`), computing each code in a loop (`procRow`, `zs`), and then lists
the flights (`screen`). Before the list comes a COUNT, and whenever that fails, because
there is no table, another process is writing or the file cannot be read, the program
ends (`ListFails`). A seat code is the number of its Zs, its last letter and its
column, which is what tells the strings apart.

A time is a reading of the local clock, in units since 1970 began there, or
`Unreadable`. `mktime` and `localtime` are external: the first is told by the
zeroed `tm` that there is no daylight saving, the second adds it for times in
`Summer`, and neither has times before 1970 (the program is built for Windows). What
`put_time` does with a null pointer is undefined; as it reads through it, the program
ends. Departure and arrival time are treated alike and are one field.
`IntLimit` and `UShortLimit` are 2^31 and 2^16 in the program.

### FrameLoop

`pc` is the place in `GuiApp::Run`, `FrameRender` and `FramePresent`; `rebuild`,
`frame` and `sem` are `g_SwapChainRebuild`, `FrameIndex` and `SemaphoreIndex`.
`image`, `fence` and `signalled` are what the driver knows of the images, their
fences and the semaphores, and `queue` the submissions the GPU has not completed.
Vulkan is external and taken to do the least it must: any image that is not
acquired may be given next, submissions to one queue complete in order, acquire
and present may be refused as out of date or suboptimal at any time, and a
suboptimal acquire has nevertheless acquired. `m_Function` is `GUIMain`, which may
clear `m_Run` or throw. The size of the window changes only in `glfwPollEvents`,
and the driver gives as many images to a rebuilt swap chain as to the first
(`SemaphoreIndex` is not reset).

## The runs

Each `.cfg` is one run; `PROJECT.json` says what it shows. All finish within two
minutes on two workers.

| Run | Instance | Checks |
|---|---|---|
| `session` | one instance; flights with cabins 1x2 and 2x1 and one without a table; two named passengers and an empty name; one failing call | `TypeOK`, `NoOutOfBoundsLoad`, `OneRowPerSeat`, `StoredRowsValid`, `SessionCoherent`, `NamedReportsAreTrue`, `OnlyStaleSeatsAreLost`, `StoreSpec`; under fairness `SaveFinishes` |
| `two_sessions` | two instances, two spellings of one flight id that share a table, one failing call | `OneRowPerSeat`, `SessionCoherent`, `OnlyStaleSeatsAreLost` |
| `transactions` | three processes, two seats of one row, fairness | `DecisionStillRight`, `NoDuplicateRows`, `StoreSpec`, `OperationEnds` |
| `search` | labels that make a day of two digits, a day that is also a month, 29 February and both kinds of century; two answers with offers | `DayPicksAreValid`, `ReleaseSetsOneField`, `FileHasLastAnswer` |
| `panes` | two flights with cabins 1x2 and 1x1, two named passengers and an empty name, every event of mouse and keyboard | `TypeOK`, `DisplayIsStored`, `OnlyBookAndDeleteWrite`, `SelectionIsPressed`, `StoreSpec` |
| `display` | two flights, cabins 30x1 and 2x2, an unsigned short of 94 values and an int of 32, fairness | `TypeOK`, `SeatCodesDiffer`, `ListedOnce`, `ShownTimesAreStored`, `StopsAtBadTimesOnly`, `FrameEnds` |
| `frame_loop` | three images, fairness | `TypeOK`, `CleanStart`, `CommandPoolIdle`, `SetInUseIsOldest`, `OnlyDrawnImagesAreShown`, `FrameEnds`, `CloseEnds`, `RebuildHappens` |

Five runs show where the program does not do what its own text says; the
`findings` of `PROJECT.json` quote the lines:

| Run | What happens |
|---|---|
| `blank_name` | a booking without a name is announced as created and never stored |
| `fresh_database` | on a file without a flights table the error value of `CountEntriesInTable` ends the program in its first frame |
| `double_booking` | a second instance books a seat that is already sold, and its save overwrites the booking |
| `update_text` | what is typed in Manage Bookings is overwritten before the Update button is pressed, so Update changes nothing |
| `search_dates` | the arrival date is sent as the departure date |

`double_booking` and `blank_name` have a counterpart among the passing runs:
`OnlyStaleSeatsAreLost` and `NamedReportsAreTrue` say that the two cases they
show are the only ones. Four other properties have to allow for what the code gets
wrong, and say how far it goes:

* `DayPicksAreValid` speaks of the moment the day is picked: a month or year picked
  after it can leave a date that does not exist (30 February).
* `ReleaseSetsOneField`: no release of the mouse ever sets a day from 1 to 12, and one
  over a month can set it though the button went down on a day.
* `FileHasLastAnswer`: a write that fails, or the end of the process during it, leaves
  the beginning of an answer or nothing, and the offers that were there are gone.
* `SetInUseIsOldest`: "Now we can use the next set of semaphores" (`Gui/GuiApp.cpp:329`)
  does not hold when the GPU is as many submissions behind as there are images. The set
  then goes to `vkAcquireNextImageKHR` (249) while a submission that waits for its
  semaphore is outstanding, which Vulkan does not permit; the wait for a fence comes
  only after it (259).

`StopsAtBadTimesOnly` says which rows of the flights table end the instances that list
them, once the flights have been counted: those with a time that an int cannot say,
among them the error value of `DatetimeToInt`, which nobody looks at.

Bounds. Two seats are enough for one to be in the wrong row or column, for a
save to have a first and a second transaction, and for a statement that forgets
a column to touch a seat it should not; two cabins of different shape make the
selected seat fall outside the new one, in either dimension. Two passengers tell
an overwritten booking from a kept one (`transactions` takes one, since there an
UPDATE and an INSERT differ by the row they leave). One failing call can fall between any
two others; more faults only combine cases that the proofs cover anyway. Two
instances suffice for every race on one table; `transactions` takes three, so
that a reader stands in the way of two writers. Three images are one more than
the program asks for, and let them come back out of order. In `panes` the second
seat of one cabin is outside the other, and two Select buttons are enough to share an
id; two texts that differ tell where a field was filled from. In `display` a cabin of
30 rows passes the 26 letters, and an unsigned short of 94 values, 0 to 93, wraps
within it, so that codes with and without a Z and codes after the wrap are compared;
the times fall in both seasons, on the last one of an int, just beyond it, and further
beyond than its size. Symmetry is used on instances and
passengers only, and not in runs that check liveness. `two_sessions` identifies
states that differ in the log only (`WithoutLog`), which no action reads and none
of its properties mentions; `search` follows up what a search leads to only
when the dates are the first ones (`DatesOrAnswers`): nothing in the calendars depends
on answers and files, and nothing in the writing of the file on dates. Two answers tell
what is left of an older one from the last.

Fairness. `SaveFinishes` assumes that an instance in the save loop goes on
(`WF` of `SaveStep`): the loop runs to its end inside one frame, waits for
nothing, and a crash or failure also ends it. `FrameEnds` of `display` assumes that a
frame that has begun goes on, for the same reason. `OperationEnds` assumes that a
process in the middle of a transaction makes its next call; it needs no fairness
of locks, because a call that finds its lock taken fails. `frame_loop` assumes
that the thread goes on when it can and that the GPU completes what it was given,
but not that the driver ever refuses anything, so that a call that waits for an
image is not saved by a refusal; that `GUIMain` returns is part of it, and a
search that never gets an answer would break it.

## What is proved

The theorems hold for every number of instances, flights, tables, passengers,
every cabin size and any number of failing calls. Every invariant and every action
property that a passing run checks is proved.

`ReservationProofs`:

* `TypeCorrect`, `LoadsInBounds`, `SeatsUnique`, `RowsValid`: the invariants
  `TypeOK`, `NoOutOfBoundsLoad`, `OneRowPerSeat` and `StoredRowsValid`. They are
  proved together, with `SaveInv`, as one inductive invariant: that a load stays
  inside the vectors rests on the rows being inside the cabin; that rests on the
  save loop writing only seats of the map, and on the map having the dimensions
  of the flight on display (`TypeOK`); that a flight is only ever on display
  with an existing table, and that what is left of a save are named seats of the
  map on display, is `SaveInv`.
* `ImplementsStore`: every step is a step of `BookingStore` or leaves it
  unchanged. A row to be deleted is of the cabin, by `StoredRowsValid`, even
  when the selected seat is not.

`CoherenceProofs`, on top of it, for any number of instances:

* `MapsAgree`, `ReportsTrue` and `LossesAreStale`: `SessionCoherent`,
  `NamedReportsAreTrue` and `OnlyStaleSeatsAreLost`. The invariant `CInv` adds two
  things for each instance. `Coherent`: a seat that is not stale has in the table
  what the map says, or, if a save has yet to write it, at most that. `LogOfMap`:
  what the last message says of the selected seat is true of the *map*; with
  `Coherent` it is then true of the file. The weaker half of `Coherent` is what makes
  a save harmless: it writes every named seat of the map, and where the seat is not
  stale the row it finds already has the details it writes (`SameRowStays`). `Update`
  keeps it because it clears a seat and books it again as it was (`RebookedSeat`).

`BookingTxnProofs`:

* `RowsApart`, `DecisionsHold`: `NoDuplicateRows` and `DecisionStillRight`. The
  invariant adds `LockInv`, which locks a process has at each call and whom they
  exclude, and `SnapshotInv`, that what a process has read or computed in its
  transaction is what it would read or compute now. Nobody else can be between
  a SELECT and a COMMIT when a process has the EXCLUSIVE lock, so no COMMIT makes
  another's snapshot wrong.
* `ImplementsStore`: a COMMIT is a Put or a Remove; nothing else is visible.

`GuiFrameProofs`, for every list of flights and every text that can be typed:

* `TypeCorrect`, `DisplayStored`, `BookAndDeleteWrite`, `SelectionPressed` and
  `PanesImplementStore`: the invariants, the action properties and the refinement of
  `panes`. Each pane has a lemma that says what it does to the state it is given
  (`HeaderStep`, `SeatMapStep`, `CreateStep`, `ManageStep`, `SelectStep`,
  `ActivateStep`), and `FrameStep` follows the invariant through them in the order of
  `GUIMain`. The invariant has three parts. `StateOK`: the types, and that the tables
  hold bookings with a name only, so that a flight shows after a load exactly what its
  table says. `Displays`: the map shows the table of the active flight. `CreateOK`:
  the fields of Create Bookings have what was last typed in them, and the text the
  active field is about to write back is the same; without it a field could bring back
  an older text in the frame in which Book is pressed.
* Why Update writes nothing: its button is pressed only in a frame whose event is on
  it, so no seat was pressed in that frame and no text field is active
  (`PressedButton`, `WidgetsDiffer`). Either some seat is taken, and then `SeatMapGUI`
  has just filled the fields with the selected seat (`Filled`), or the selected seat
  is outside the cabin; either way clearing and booking it leaves the map as it was
  (`RebookedSeat`), and saving a map that is on display already changes no table
  (`SavedAgain`).
* Why one of the pressed Select buttons is the last (`LastPressed`): the mouse presses
  the first of the list only, the keyboard all of them, since they have one id.

`AmadeusSearchProofs`, for all labels:

* `PickedDaysExist` and `ReleaseSets`: the action properties of `search`. The invariant adds `HeldIsOffered`: while the mouse button is down, the
  entry it went down on is offered by the calendar that is open, because nothing
  changes the date on display between the down and the up. `DaysAreReal` compares
  `DaysInMonth` with the Gregorian calendar for every month and year that can be
  picked; a press that sets month and day at once sets both to at most 12, which every
  month has (`PressedDate`). `FirstOfItsLabel` says which entries can be pressed with
  the mouse: all but the days that the months hide.
* `FileKept`: `FileHasLastAnswer`, for all answers. The
  invariant `FileInv` adds that from the opening of the file to the end of the write the
  answer on hand is the one that is due, and that a process which ended there has cut
  the write.

`FlightDisplayProofs`, for integers of any width:

* `TypeCorrect`, `CodesDiffer`, `FlightsListedOnce`, `TimesShown` and
  `StopsAtBadTimes`: the invariants and action properties of `display`. While a code
  is computed, what is left of the row and 26 for every Z add up to
  `(row + 65) % UShortLimit` (`CodeInv`), which tells all rows below `UShortLimit`
  apart, whichever letters come out; `DrawnInv` says the same of the codes that were
  drawn. `KeyInv` is the primary key of the flights table, which `INSERT OR REPLACE`
  keeps. That times come back as they were stored rests on `Narrow` being the
  identity on what an int can say.

`FrameLoopProofs`, for swap chains of any number of images:

* `TypeCorrect`, `FramesStartClean`, `CommandPoolsAreIdle`,
  `SetsInUseAreOldest` and `ScreenShowsDrawnImages`: the invariants and the
  action property of `frame_loop`. `FencesInv` says that outstanding submissions
  are of different frames, all with their fences unsignalled; `HeldInv`, what the
  program holds of the swap chain at each place of the loop; `SetsInv`, that the
  outstanding submissions used the sets of semaphores just before the current
  one. When a frame is recorded, it and the outstanding submissions are of
  different images, so there are fewer of them than images (`RoomForOne`, by the
  pigeonhole principle), and none of them is as far back as the current set. Before the
  wait for the fence there can be as many as images, and then the oldest is.

`SeatMapProofs` has the lemmas on the statements and on the operations of the seat
map, which four of these modules share: `UpsertEffect` (a transaction changes the seat
it is for and no other) and `UpsertKeepsUnique` carry the proofs about tables;
`LoadedSeat`, `BookedSeat`, `CancelledSeat` and `RebookedSeat`, what an operation does
to each seat of the map, those about what is on display.

Assumptions, each named in the module that declares the constant:
`DetailsAssumption` (the triple of empty strings is one without a name),
`FlightsAssumption` (types), `SharedTableAssumption` (flights that have the same
table have the same cabin: SQLite folds the case of table names, and nothing in
the program checks this), `SeatAssumption`, `TriedAssumption`,
`ImageCountAssumption` (at least two images, as `SetupVulkanWindow` asserts),
`ListedAssumption` (types, and that no flight is listed twice, which is `ListedOnce` of
`display`), `WidgetAssumption` (no text field is `NoWidget`), `DisplayAssumption` (types; an unsigned short has the letter A, 65; a cabin
has at least one row and one column and no more than an unsigned short counts).

Only model-checked: the liveness properties (`SaveFinishes`, `OperationEnds`,
`FrameEnds`, `CloseEnds`, `RebuildHappens`), since liveness under fairness is out of
the prover's reach. The five runs that end in a violation show behaviours, and have
nothing to prove.

## Not modelled

* `SaveToJSON` and `LoadFromJSON` of the seat map, which nothing calls any more, and
  `CreateBookingTable`, which only disabled test code calls: which booking tables
  exist is a constant.
* The `DatetimeToInt` that takes four numbers, which nothing calls, and
  `OpenFileWithDefaultApp`, whose call of the system is commented out.
* Of the GUI wrapper: the choice of device and formats, the upload of the font,
  and the windows that ImGui itself opens and draws.
* The text of messages, so also that the log line of a selection names the flight
  before it (`Application.cpp:339`) and that of an update prints the row for the column
  (383).
* About and Help, which only show text; printing to the console.
* Third-party code (SQLite, SQLiteCpp, ImGui, GLFW, curl, fmt), the generated
  font, the author's unused libraries, and `Core/Experimental`, which is not in
  the build.

## Plan

Every safety property of the runs is proved. What remains worth proving:

1. that a step of `Reservation` which is a press of a button does to one instance
   what the frame of `GuiFrame` does in which that button is pressed;
2. the safety half of `OperationEnds` and `SaveFinishes`: that the measures which
   make the loops end (`todo`, the calls of a transaction) go down in each step.
