----------------------------- MODULE Reservation ----------------------------
(***************************************************************************)
(* The booking core of the application: instances of the program           *)
(* (Application.cpp), each with its active flight and that flight's seat   *)
(* map in memory, on one flights.db (PersistenceManager.cpp).              *)
(*                                                                         *)
(* The instances are separate processes and meet only in the file.  A step *)
(* is what no other process can see the middle of: one SQLite transaction, *)
(* or the part of a frame between two of them.  InsertBookingData rewrites *)
(* the whole seat map with one transaction per seat, so saving is a phase  *)
(* of several steps.                                                       *)
(***************************************************************************)
EXTENDS SeatMapOps

CONSTANTS
    Procs,               \* the running instances of the program
    Typed,               \* what the users put in the fields of Create Bookings
    Flights,             \* the rows of the flights table, by flightId
    NoFlight,            \* activeFlight = nullptr
    Rows, Cols,          \* the cabin of each flight
    TableName,           \* "Booking" + flightId, as SQLite identifies tables
    Tables,              \* the booking tables that exist in the file
    FlightsTableExists,  \* whether the file has a flights table at all
    MaxFaults            \* bound: how many database calls may fail

ASSUME FlightsAssumption ==
    /\ NoFlight \notin Flights
    /\ Typed \subseteq Details
    /\ Rows \in [Flights -> Nat] /\ Cols \in [Flights -> Nat]
    /\ DOMAIN TableName = Flights
    /\ FlightsTableExists \in BOOLEAN
    /\ MaxFaults \in Nat

\* SQLite folds the case of table names, so two flights can have one table;
\* LoadFromFlightInformation indexes without a check and relies on their
\* cabins being alike.
ASSUME SharedTableAssumption ==
    \A f, g \in Flights : TableName[f] = TableName[g] =>
        Rows[f] = Rows[g] /\ Cols[f] = Cols[g]

VARIABLES
    status,        \* status[p]: what the instance is doing
    activeFlight,  \* the flight on display, or NoFlight
    seatMap,       \* *activeSeatMap
    selected,      \* g_SelectedRowCol
    todo,          \* the seats InsertBookingData has yet to write
    log,           \* the last message put in g_LogBuf
    bookings,      \* flights.db: the rows of every booking table
    faults,        \* how many database calls have failed
    stale          \* history: the seats on which the map of p may differ from
                   \* the table, after a failed call or another's write

memory == <<activeFlight, seatMap, selected, todo, log>>
vars == <<status, memory, bookings, faults, stale>>

Saving == {"creating", "updating"}
Statuses == {"closed", "idle", "terminated", "undefined"} \cup Saving
Messages == {"", "Selected seat", "Flight Selected", "Booking Created!",
             "Error Booking!", "Booking Updated!", "Booking Deleted!"}

Named == Details \ Unnamed
Seats(f) == (0 .. Rows[f] - 1) \X (0 .. Cols[f] - 1)
NoMap == Construct(0, 0)

\* (mutant) The table name without the flight's id.
AnyTable(f) == CHOOSE t \in Tables : TRUE

\* GenerateBookingTableName, and the name SeatMap::LoadFromFlightInformation
\* builds for itself.
BookingTable(f) == TableName[f]

SelRow(p) == selected[p][1]
SelCol(p) == selected[p][2]

Init ==
    /\ status = [p \in Procs |-> "closed"]
    /\ activeFlight = [p \in Procs |-> NoFlight]
    /\ seatMap = [p \in Procs |-> NoMap]
    /\ selected = [p \in Procs |-> <<0, 0>>]
    /\ todo = [p \in Procs |-> {}]
    /\ log = [p \in Procs |-> ""]
    /\ bookings = [t \in Tables |-> {}]
    /\ faults = 0
    /\ stale = [p \in Procs |-> {}]

-----------------------------------------------------------------------------
(* Faults: a database call fails because cause holds, or for a reason of its *)
(* own (SQLITE_BUSY, a full disk), which is counted.                         *)

Fault(cause) ==
    /\ cause \/ faults < MaxFaults
    /\ faults' = IF cause THEN faults ELSE faults + 1

\* The process is gone, and its memory with it.
Stop(p, how) ==
    /\ status' = [status EXCEPT ![p] = how]
    /\ activeFlight' = [activeFlight EXCEPT ![p] = NoFlight]
    /\ seatMap' = [seatMap EXCEPT ![p] = NoMap]
    /\ selected' = [selected EXCEPT ![p] = <<0, 0>>]
    /\ todo' = [todo EXCEPT ![p] = {}]
    /\ log' = [log EXCEPT ![p] = ""]
    /\ stale' = [stale EXCEPT ![p] = {}]

\* p wrote seat s of table t: p's map agrees with it, the others may not.
WroteSeat(p, t, s) ==
    stale' = [q \in Procs |->
        IF q = p THEN stale[q] \ {s}
        ELSE IF activeFlight[q] # NoFlight /\ BookingTable(activeFlight[q]) = t
             THEN stale[q] \cup {s} ELSE stale[q]]

-----------------------------------------------------------------------------
(* The life of a process.                                                    *)

Launch(p) ==
    /\ status[p] \in {"closed", "terminated"}
    /\ status' = [status EXCEPT ![p] = "idle"]
    /\ UNCHANGED <<memory, bookings, faults, stale>>

Exit(p) ==
    /\ status[p] = "idle"
    /\ Stop(p, "closed")
    /\ UNCHANGED <<bookings, faults>>

\* The process is killed between two transactions of a save.
Crash(p) ==
    /\ status[p] \in Saving
    /\ Stop(p, "closed")
    /\ UNCHANGED <<bookings, faults>>

\* SelectFlight lists the flights in every frame.  When the count fails,
\* CountEntriesInTable returns (size_t)-1, the reserve of GetFlightsInfo throws
\* outside its try block, and nothing up to main catches it.
FrameFails(p) ==
    /\ status[p] = "idle"
    /\ Fault(~FlightsTableExists)
    /\ Stop(p, "terminated")
    /\ UNCHANGED bookings

-----------------------------------------------------------------------------
(* The Seat Map and Select Flight panes.                                     *)

\* A click on a seat button of the map on display.
ClickSeat(p) ==
    /\ status[p] = "idle" /\ activeFlight[p] # NoFlight
    /\ \E r \in DOMAIN seatMap[p].m_SeatMap :
       \E c \in DOMAIN seatMap[p].m_SeatMap[r] :
          selected' = [selected EXCEPT ![p] = <<r, c>>]
    /\ log' = [log EXCEPT ![p] = "Selected seat"]
    /\ UNCHANGED <<status, activeFlight, seatMap, todo, bookings, faults, stale>>

\* The Clear button of the log window.
ClearLog(p) ==
    /\ status[p] = "idle"
    /\ log' = [log EXCEPT ![p] = ""]
    /\ UNCHANGED <<status, activeFlight, seatMap, selected, todo, bookings, faults, stale>>

\* A new Flight replaces the active one, and loads the rows the SELECT gave.
\* g_SelectedRowCol keeps its value, even outside the new cabin.
LoadFlight(p, f, rows) ==
    LET new == Construct(Rows[f], Cols[f]) IN
    /\ status' = [status EXCEPT ![p] =
           IF LoadIsDefined(new, rows) THEN "idle" ELSE "undefined"]
    /\ activeFlight' = [activeFlight EXCEPT ![p] = f]
    /\ seatMap' = [seatMap EXCEPT ![p] =
           LoadFromFlightInformation(new, Rows[f], Cols[f], rows)]
    /\ log' = [log EXCEPT ![p] = "Flight Selected"]
    /\ stale' = [stale EXCEPT ![p] =
           {<<b.row, b.col>> : b \in bookings[BookingTable(f)] \ rows}]
    /\ UNCHANGED <<selected, todo, bookings>>

SelectFlight(p, f) ==
    /\ status[p] = "idle" /\ FlightsTableExists
    /\ BookingTable(f) \in Tables
    /\ LoadFlight(p, f, bookings[BookingTable(f)])
    /\ UNCHANGED faults

\* The count succeeds and the SELECT then fails: GetBookingsInfo catches the
\* exception and returns the rows it has got so far.
SelectFlightTruncated(p, f) ==
    /\ status[p] = "idle" /\ FlightsTableExists
    /\ BookingTable(f) \in Tables
    /\ Fault(FALSE)
    /\ \E rows \in SUBSET bookings[BookingTable(f)] : LoadFlight(p, f, rows)

\* The count itself fails: as in FrameFails, but in GetBookingsInfo.
SelectFlightFails(p, f) ==
    /\ status[p] = "idle" /\ FlightsTableExists
    /\ Fault(BookingTable(f) \notin Tables)
    /\ Stop(p, "terminated")
    /\ UNCHANGED bookings

-----------------------------------------------------------------------------
(* InsertBookingData: one transaction for every seat with a non-empty name,  *)
(* row by row.                                                               *)

\* (mutant) The loop over the columns ends one too early.
NamedSeatsButLast(sm) ==
    {s \in (0 .. sm.m_Rows - 1) \X (0 .. sm.m_Cols - 2) :
        sm.m_Details[s[1]][s[2]] \notin Unnamed}

\* (mutant) The test for a non-empty name is dropped.
AllSeats(sm) == (0 .. sm.m_Rows - 1) \X (0 .. sm.m_Cols - 1)

NamedSeats(sm) ==
    {s \in (0 .. sm.m_Rows - 1) \X (0 .. sm.m_Cols - 1) :
        sm.m_Details[s[1]][s[2]] \notin Unnamed}

NotAfter(s, t) == s[1] < t[1] \/ (s[1] = t[1] /\ s[2] <= t[2])

\* The seat the two loops reach next.
IsNext(p, s) == s \in todo[p] /\ \A t \in todo[p] : NotAfter(s, t)

StartSaving(p, phase, sm) ==
    /\ status' = [status EXCEPT ![p] = phase]
    /\ seatMap' = [seatMap EXCEPT ![p] = sm]
    /\ todo' = [todo EXCEPT ![p] = NamedSeats(sm)]

\* (mutant) The loop does not move on from the seat it has written.
SaveSeatAgain(p) ==
    LET t == BookingTable(activeFlight[p]) IN
    /\ status[p] \in Saving
    /\ \E s \in todo[p] :
        /\ IsNext(p, s)
        /\ bookings' = [bookings EXCEPT ![t] =
               UpsertBooking(@, s[1], s[2], seatMap[p].m_Details[s[1]][s[2]])]
        /\ WroteSeat(p, t, s)
    /\ UNCHANGED <<status, memory, faults>>

\* The transaction of one seat commits.
SaveSeat(p) ==
    LET t == BookingTable(activeFlight[p]) IN
    /\ status[p] \in Saving
    /\ \E s \in todo[p] :
        /\ IsNext(p, s)
        /\ bookings' = [bookings EXCEPT ![t] =
               UpsertBooking(@, s[1], s[2], seatMap[p].m_Details[s[1]][s[2]])]
        /\ todo' = [todo EXCEPT ![p] = @ \ {s}]
        /\ WroteSeat(p, t, s)
    /\ UNCHANGED <<status, activeFlight, seatMap, selected, log, faults>>

\* It fails and is rolled back; the loop goes on with the next seat.
SaveSeatFails(p) ==
    /\ status[p] \in Saving
    /\ Fault(FALSE)
    /\ \E s \in todo[p] :
        /\ IsNext(p, s)
        /\ todo' = [todo EXCEPT ![p] = @ \ {s}]
        /\ stale' = [stale EXCEPT ![p] = @ \cup {s}]
    /\ UNCHANGED <<status, activeFlight, seatMap, selected, log, bookings>>

\* It fails and SQLite has already rolled it back: the rollback in the catch
\* block throws in its turn, and that ends the process.
SaveSeatTerminates(p) ==
    /\ status[p] \in Saving /\ todo[p] # {}
    /\ Fault(FALSE)
    /\ Stop(p, "terminated")
    /\ UNCHANGED bookings

\* InsertBookingData returns to the button that called it.
FinishSave(p) ==
    /\ status[p] \in Saving /\ todo[p] = {}
    /\ log' = [log EXCEPT ![p] =
           IF status[p] = "creating" THEN "Booking Created!" ELSE "Booking Updated!"]
    /\ status' = [status EXCEPT ![p] = "idle"]
    /\ UNCHANGED <<activeFlight, seatMap, selected, todo, bookings, faults, stale>>

-----------------------------------------------------------------------------
(* The Create Bookings and Manage Bookings panes.                            *)

\* The Book button, with d in the three text fields.
Book(p, d) ==
    LET sm == seatMap[p] IN
    /\ status[p] = "idle" /\ activeFlight[p] # NoFlight
    /\ IsSeatAvailable(sm, SelRow(p), SelCol(p))
    /\ StartSaving(p, "creating", BookSeat(sm, SelRow(p), SelCol(p), d))
    /\ UNCHANGED <<activeFlight, selected, log, bookings, faults, stale>>

BookRefused(p) ==
    /\ status[p] = "idle" /\ activeFlight[p] # NoFlight
    /\ ~IsSeatAvailable(seatMap[p], SelRow(p), SelCol(p))
    /\ log' = [log EXCEPT ![p] = "Error Booking!"]
    /\ UNCHANGED <<status, activeFlight, seatMap, selected, todo, bookings,
                   faults, stale>>

\* Manage Bookings offers its buttons for a taken seat, and also for a selected
\* seat that is outside the cabin.
CanManage(p) ==
    /\ status[p] = "idle" /\ activeFlight[p] # NoFlight
    /\ ~IsSeatAvailable(seatMap[p], SelRow(p), SelCol(p))

\* The Update button.  In the frame of the click SeatMapGUI has already filled
\* the update fields with the details of the selected seat.
Update(p) ==
    LET sm == seatMap[p]
        fields == GetDetails(sm, SelRow(p), SelCol(p))
    IN
    /\ CanManage(p)
    /\ StartSaving(p, "updating",
           BookSeat(CancelBooking(sm, SelRow(p), SelCol(p)),
                    SelRow(p), SelCol(p), fields))
    /\ UNCHANGED <<activeFlight, selected, log, bookings, faults, stale>>

\* (mutant) The Delete button without CancelBooking.
DeleteRowOnly(p) ==
    LET t == BookingTable(activeFlight[p]) IN
    /\ CanManage(p)
    /\ bookings' = [bookings EXCEPT ![t] = DeleteRows(@, SelRow(p), SelCol(p))]
    /\ log' = [log EXCEPT ![p] = "Booking Deleted!"]
    /\ WroteSeat(p, t, selected[p])
    /\ UNCHANGED <<status, activeFlight, seatMap, selected, todo, faults>>

\* The Delete button: clear the seat in memory, then DELETE its row.
Delete(p) ==
    LET t == BookingTable(activeFlight[p]) IN
    /\ CanManage(p)
    /\ seatMap' = [seatMap EXCEPT ![p] = CancelBooking(@, SelRow(p), SelCol(p))]
    /\ bookings' = [bookings EXCEPT ![t] = DeleteRows(@, SelRow(p), SelCol(p))]
    /\ log' = [log EXCEPT ![p] = "Booking Deleted!"]
    /\ WroteSeat(p, t, selected[p])
    /\ UNCHANGED <<status, activeFlight, selected, todo, faults>>

\* The DELETE fails and DeleteBookingData swallows the exception.
DeleteFails(p) ==
    /\ CanManage(p)
    /\ Fault(FALSE)
    /\ seatMap' = [seatMap EXCEPT ![p] = CancelBooking(@, SelRow(p), SelCol(p))]
    /\ log' = [log EXCEPT ![p] = "Booking Deleted!"]
    /\ stale' = [stale EXCEPT ![p] = @ \cup {selected[p]}]
    /\ UNCHANGED <<status, activeFlight, selected, todo, bookings>>

-----------------------------------------------------------------------------
SaveStep(p) == SaveSeat(p) \/ FinishSave(p)

Process(p) ==
    \/ Launch(p) \/ Exit(p) \/ Crash(p) \/ FrameFails(p)
    \/ ClickSeat(p) \/ ClearLog(p)
    \/ \E f \in Flights :
          SelectFlight(p, f) \/ SelectFlightTruncated(p, f) \/ SelectFlightFails(p, f)
    \/ SaveStep(p) \/ SaveSeatFails(p) \/ SaveSeatTerminates(p)
    \/ \E d \in Typed : Book(p, d)
    \/ BookRefused(p) \/ Update(p) \/ Delete(p) \/ DeleteFails(p)

Next == \E p \in Procs : Process(p)

Spec == Init /\ [][Next]_vars

\* The save loop runs to its end inside one frame: nothing else of the process
\* can hold it up.
FairSpec == Spec /\ \A p \in Procs : WF_vars(SaveStep(p))
-----------------------------------------------------------------------------
(* Properties.                                                               *)

CabinRows(p) == IF activeFlight[p] = NoFlight THEN 0 ELSE Rows[activeFlight[p]]
CabinCols(p) == IF activeFlight[p] = NoFlight THEN 0 ELSE Cols[activeFlight[p]]

\* The type invariant: in particular the vectors of a seat map have the
\* dimensions of the flight on display, and a table is a finite set of rows.
TypeOK ==
    /\ status \in [Procs -> Statuses]
    /\ activeFlight \in [Procs -> Flights \cup {NoFlight}]
    /\ seatMap = [p \in Procs |-> seatMap[p]]
    /\ \A p \in Procs : seatMap[p] \in SeatMaps(CabinRows(p), CabinCols(p))
    /\ selected \in [Procs -> Nat \X Nat]
    /\ todo \in [Procs -> SUBSET (Nat \X Nat)]
    /\ log \in [Procs -> Messages]
    /\ bookings \in [Tables -> SUBSET Records(Details)]
    /\ \A t \in Tables : IsFiniteSet(bookings[t])
    /\ faults \in Nat
    /\ stale \in [Procs -> SUBSET (Nat \X Nat)]

\* No sequence of selections, bookings and deletions of any number of
\* instances, with the selected seat of one flight carried over to another,
\* leaves a row in a table that the unchecked indexing of
\* SeatMap::LoadFromFlightInformation (SeatMap.cpp:78-81) would write through.
NoOutOfBoundsLoad == \A p \in Procs : status[p] # "undefined"

\* A booking table has no key, and yet never two rows for one seat: the
\* check-then-insert of InsertBookingData keeps the rows apart, also when an
\* earlier save was cut short, failed half way, or raced with another instance.
OneRowPerSeat == \A t \in Tables : UniqueSeats(bookings[t])

\* Whatever was clicked and whatever failed, the file holds rows only for seats
\* of the cabin of every flight that has the table, and only under a name.
StoredRowsValid ==
    \A f \in Flights : BookingTable(f) \in Tables =>
        /\ WithinCabin(bookings[BookingTable(f)], Rows[f], Cols[f])
        /\ \A b \in bookings[BookingTable(f)] : b.details \in Named

\* A flight is on display only after its table was read, only then is anything
\* saved, and a save has only named seats of that flight before it.
SaveInv ==
    \A p \in Procs :
        /\ activeFlight[p] # NoFlight => BookingTable(activeFlight[p]) \in Tables
        /\ status[p] \in Saving => activeFlight[p] # NoFlight
        /\ todo[p] \subseteq NamedSeats(seatMap[p])
        /\ status[p] \notin Saving => todo[p] = {}

\* The table says of seat s what the map sm says: the row a named booking
\* should have, and no row otherwise.
Agrees(sm, rows, s) ==
    LET d == sm.m_Details[s[1]][s[2]] IN
    IF sm.m_SeatMap[s[1]][s[2]] \/ d \in Unnamed
    THEN At(rows, s[1], s[2]) = {}
    ELSE DetailsAt(rows, s[1], s[2]) = {d}

\* The map on display and the table differ only on the seats a save in progress
\* has not reached, and on those where a call failed or another instance wrote
\* since the last write of this one.  Whatever is clicked, nothing else drifts.
SessionCoherent ==
    \A p \in Procs : activeFlight[p] # NoFlight =>
        \A s \in Seats(activeFlight[p]) \ (stale[p] \cup todo[p]) :
            Agrees(seatMap[p], bookings[BookingTable(activeFlight[p])], s)

\* What the log window last said of the selected seat is true of the file,
\* unless a failed call or another instance intervened: a created booking is
\* stored (Application.cpp:433), a deleted one is gone, a refused one was for a
\* seat the file has taken (or for none of the cabin).
ReportIsTrue(p) ==
    LET rows == At(bookings[BookingTable(activeFlight[p])], SelRow(p), SelCol(p))
    IN  /\ log[p] = "Booking Created!" => rows # {}
        /\ log[p] = "Booking Deleted!" => rows = {}
        /\ log[p] = "Error Booking!" =>
              (selected[p] \in Seats(activeFlight[p]) => rows # {})

ReportsAreTrue ==
    \A p \in Procs :
        status[p] = "idle" /\ selected[p] \notin stale[p] => ReportIsTrue(p)

\* With the one exception: the selected seat is taken without a name.
NamedReportsAreTrue ==
    \A p \in Procs :
        status[p] = "idle" /\ selected[p] \notin stale[p] =>
            \/ ReportIsTrue(p)
            \/ /\ selected[p] \in Seats(activeFlight[p])
               /\ ~IsSeatAvailable(seatMap[p], SelRow(p), SelCol(p))
               /\ GetDetails(seatMap[p], SelRow(p), SelCol(p)) \in Unnamed

\* A stored booking disappears or changes by the Delete of its own seat only
\* (Application.cpp:386-392).
BookingsSurvive ==
    [][\A t \in Tables : \A b \in bookings[t] :
          b \in bookings'[t] \/ \E p \in Procs :
              Delete(p) /\ selected[p] = <<b.row, b.col>>]_vars

\* ... or by a save of an instance whose map of that very seat is out of date.
\* Booking another seat, switching flights and saving the whole map again, also
\* after a failure and among the saves of others, never costs a booking.
OnlyStaleSeatsAreLost ==
    [][\A t \in Tables : \A b \in bookings[t] :
          b \in bookings'[t] \/ \E p \in Procs :
              \/ Delete(p) /\ selected[p] = <<b.row, b.col>>
              \/ SaveStep(p) /\ <<b.row, b.col>> \in stale[p]]_vars

\* No error of the database ends the program: CountEntriesInTable announces a
\* negative value "to indicate an error" (PersistenceManager.cpp:193).
ErrorsAreHandled == \A p \in Procs : status[p] # "terminated"

\* InsertBookingData returns, whatever fails on the way: the interface never
\* stays in the middle of a save.
SaveFinishes ==
    \A p \in Procs : status[p] \in Saving ~> status[p] \notin Saving

-----------------------------------------------------------------------------
(* The tables as BookingStore sees them: a free seat is {}, a booked one {d}. *)

SeatsOfFlights == UNION {Seats(f) : f \in Flights}
Passengers == {{d} : d \in Named}
Contents == [t \in Tables |-> [s \in SeatsOfFlights |->
                DetailsAt(bookings[t], s[1], s[2])]]

Store == INSTANCE BookingStore WITH
    Seat <- SeatsOfFlights, Named <- Passengers, Free <- {}, store <- Contents

\* Every step of every instance, failures and crashes included, is a step of
\* the abstract store: a save is a Put of one seat, a delete a Remove, and
\* everything else leaves the stored bookings as they are.
StoreSpec == Store!Spec
=============================================================================
