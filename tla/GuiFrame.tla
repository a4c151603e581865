------------------------------ MODULE GuiFrame ------------------------------
(***************************************************************************)
(* The panes of one instance (GUIMain, Application.cpp), frame by frame.   *)
(*                                                                         *)
(* The interface is drawn anew in every frame, by functions called in a    *)
(* fixed order that share global buffers, the selected seat and flightId,  *)
(* the id of the flight that was active when the frame began.  An input    *)
(* event reaches a widget when it is drawn: what a press does depends on   *)
(* what the panes before it in the same frame have done.                   *)
(*                                                                         *)
(* A step is one frame with at most one event: ImGui hands the events out  *)
(* so that the mouse button never goes down and up in one frame.  All      *)
(* panes are on the screen, as they are when they are not docked; a tab in *)
(* front of them only keeps the user from pressing what is behind it.      *)
(* The booking tables do what BookingStore promises, and no call fails.    *)
(* The text fields of a pane, which are used together, are one field.      *)
(***************************************************************************)
EXTENDS SeatMapOps, Sequences

CONSTANTS
    Listed,      \* the flights, as SELECT * FROM flights lists them
    Rows, Cols,  \* the cabin of each flight
    NoFlight,    \* activeFlight = nullptr
    Typed,       \* what the user types
    NoText,      \* the user has not typed
    NoWidget     \* the pointer is over no widget; no widget is active

Flights == {Listed[i] : i \in DOMAIN Listed}
Seats(f) == (0 .. Rows[f] - 1) \X (0 .. Cols[f] - 1)

ASSUME ListedAssumption ==
    /\ Listed \in Seq(Flights)
    /\ \A i, j \in DOMAIN Listed : Listed[i] = Listed[j] => i = j
    /\ NoFlight \notin Flights
    /\ Rows \in [Flights -> Nat] /\ Cols \in [Flights -> Nat]
    /\ Typed \subseteq Details /\ NoText \notin Details

VARIABLE
    ui   \* the program's globals, the tables, and what ImGui remembers:
         \*   activeFlight, seatMap, selected  as in Reservation
         \*   store      what the booking table of each flight says of each seat
         \*   flightId   the flight the frame began with
         \*   updateBuf  passengerBuffer, emailBuffer and maxLoadBuffer
         \*   createBuf  the static buffers of CreateBookings
         \*   active     ImGui's ActiveId
         \*   edit       the text of the active field; initial, what it was at first
         \*   held       whether the mouse button is down
         \* and, as history,
         \*   pressed    the buttons the last frame found pressed
         \*   typed      what was last typed in the fields of each pane, in those
         \*              of Manage Bookings for the seat on display

-----------------------------------------------------------------------------
(* Widgets and events.                                                       *)

Button(name) == [name |-> name, of |-> NoFlight]
SeatButton(s) == [name |-> "Seat", of |-> s]
SelectButton(f) == [name |-> "Select", of |-> f]

CreateField == Button("Create field")
UpdateField == Button("Update field")
Fields == {CreateField, UpdateField}

ASSUME WidgetAssumption == NoWidget \notin Fields

\* Manage Bookings has something to manage (ManageBookings): a taken seat, or a
\* selected seat that is outside the cabin.
CanManage(s) ==
    /\ s.activeFlight # NoFlight
    /\ ~IsSeatAvailable(s.seatMap, s.selected[1], s.selected[2])

\* The widgets that a frame beginning in s draws.
Widgets(s) ==
    {SelectButton(f) : f \in Flights} \cup
    (IF s.activeFlight = NoFlight THEN {}
     ELSE {SeatButton(p) : p \in Seats(s.activeFlight)}
          \cup {CreateField, Button("Book")}) \cup
    (IF CanManage(s) THEN {UpdateField, Button("Update"), Button("Delete")} ELSE {})

\* What ImGui knows a widget by: a button of SelectFlight is labelled with
\* flightId, the id of the active flight and not that of its own.
Id(s, w) == IF w.name = "Select" THEN SelectButton(s.flightId) ELSE w

\* Of the widgets with the id of w, w is drawn first.
IsFirst(s, w) == w.name = "Select" => w.of = Listed[1]

Event(kind, w, d) == [kind |-> kind, on |-> w, text |-> d]

\* The events of a frame that begins in s: none, the mouse button goes down or
\* up somewhere, the keyboard activates a widget, the user types in a field or
\* leaves it with Enter or Escape.
Events(s) ==
    {Event("none", NoWidget, Blank)}
    \cup {Event(IF s.held THEN "up" ELSE "down", w, Blank) :
            w \in Widgets(s) \cup {NoWidget}}
    \cup {Event("nav", w, Blank) :
            w \in IF s.held \/ s.active # NoWidget THEN {} ELSE Widgets(s)}
    \cup (IF s.active \in Fields
          THEN {Event("type", NoWidget, d) : d \in Typed}
               \cup {Event("enter", NoWidget, Blank), Event("escape", NoWidget, Blank)}
          ELSE {})

\* ImGui::Button returns true: the mouse button came up over w, which it went
\* down on, and no widget with the same id was drawn before; or the keyboard
\* activated the id of w.
IsPressed(s, e, w) ==
    \/ e.kind = "up" /\ e.on = w /\ s.active = Id(s, w) /\ IsFirst(s, w)
    \/ e.kind = "nav" /\ Id(s, e.on) = Id(s, w)

Press(s, w) == [s EXCEPT !.pressed = @ \cup {w}]

\* ImGui::InputText on the buffer buf: the active field writes its text to the
\* buffer in every frame; one that is activated takes its text from it, and the
\* fields drawn after it find it active.
InputText(s, e, w, buf) ==
    CASE s.active # w -> buf
      [] s.active = w /\ e.kind = "type" -> e.text
      [] s.active = w /\ e.kind = "escape" -> s.initial
      [] OTHER -> s.edit

IsActivated(s, e, w) == s.active # w /\ e.kind \in {"down", "nav"} /\ e.on = w

EditText(s, e, w, buf) ==
    IF s.active = w \/ IsActivated(s, e, w) THEN InputText(s, e, w, buf) ELSE s.edit

InitialText(s, e, w, buf) == IF IsActivated(s, e, w) THEN buf ELSE s.initial

LastTyped(s, e, w, old) ==
    IF s.active = w /\ e.kind \in {"type", "escape"} THEN InputText(s, e, w, old) ELSE old

\* NewFrame and EndFrame of ImGui: who is active for the next frame.
Activate(s, e) ==
    [s EXCEPT
        !.held = (e.kind = "down") \/ (@ /\ e.kind # "up"),
        !.active =
            CASE e.kind = "down" /\ e.on # NoWidget -> Id(s, e.on)
              [] e.kind = "nav" /\ e.on \in Fields -> e.on
              [] e.kind \in {"none", "type"} \/ (e.kind = "up" /\ @ \in Fields) -> @
              [] OTHER -> NoWidget]

-----------------------------------------------------------------------------
(* The panes, in the order GUIMain calls them.                               *)

\* The top of GUIMain.
Header(s) ==
    [s EXCEPT !.flightId = IF s.activeFlight # NoFlight THEN s.activeFlight ELSE @,
              !.pressed = {}]

Taken(sm) == {p \in (0 .. sm.m_Rows - 1) \X (0 .. sm.m_Cols - 1) :
                 ~sm.m_SeatMap[p[1]][p[2]]}

\* The loop of SeatMapGUI comes to seat t after it has come to seat p.
After(t, p) == t[1] > p[1] \/ (t[1] = p[1] /\ t[2] > p[2])

\* (mutant) Only a seat with a name is copied to the update fields.
RefilledIfNamed(s, now) ==
    LET d == GetDetails(s.seatMap, now[1], now[2])
    IN  IF Taken(s.seatMap) = {} \/ d \in Unnamed THEN s.updateBuf ELSE d

\* What the loop leaves in the update fields: every taken seat it comes to has
\* them refilled from the seat that is selected at that moment, which a press
\* changes from s.selected to now.
Refilled(s, now) ==
    LET last == IF \E t \in Taken(s.seatMap) : After(t, now) THEN now ELSE s.selected
    IN  IF Taken(s.seatMap) = {} THEN s.updateBuf
        ELSE GetDetails(s.seatMap, last[1], last[2])

SeatMapGUI(s, e) ==
    LET hit == {p \in Seats(s.activeFlight) : IsPressed(s, e, SeatButton(p))}
        now == IF hit = {} THEN s.selected ELSE CHOOSE p \in hit : TRUE
    IN  IF s.activeFlight = NoFlight THEN s
        ELSE [s EXCEPT !.selected = now,
                       !.updateBuf = Refilled(s, now),
                       !.typed.update = IF hit = {} THEN @ ELSE NoText,
                       !.pressed = @ \cup {SeatButton(p) : p \in hit}]

\* InsertBookingData: every seat with a name is put in the table.
Save(s) ==
    [s EXCEPT !.store[s.activeFlight] = [p \in DOMAIN @ |->
        IF s.seatMap.m_Details[p[1]][p[2]] \notin Unnamed
        THEN s.seatMap.m_Details[p[1]][p[2]] ELSE @[p]]]

CreateFields(s, e) ==
    [s EXCEPT !.active = IF IsActivated(s, e, CreateField) THEN CreateField ELSE @,
              !.createBuf = InputText(s, e, CreateField, @),
              !.edit = EditText(s, e, CreateField, s.createBuf),
              !.initial = InitialText(s, e, CreateField, s.createBuf),
              !.typed.create = LastTyped(s, e, CreateField, @)]

\* The Book button, with what the fields of the pane have.
Book(s) ==
    IF IsSeatAvailable(s.seatMap, s.selected[1], s.selected[2])
    THEN Save([s EXCEPT !.seatMap = BookSeat(@, s.selected[1], s.selected[2], s.createBuf)])
    ELSE s

CreateBookings(s, e) ==
    LET f == CreateFields(s, e)
    IN  IF s.activeFlight = NoFlight THEN s
        ELSE IF IsPressed(f, e, Button("Book")) THEN Press(Book(f), Button("Book"))
        ELSE f

UpdateFields(s, e) ==
    [s EXCEPT !.active = IF IsActivated(s, e, UpdateField) THEN UpdateField ELSE @,
              !.updateBuf = InputText(s, e, UpdateField, @),
              !.edit = EditText(s, e, UpdateField, s.updateBuf),
              !.initial = InitialText(s, e, UpdateField, s.updateBuf),
              !.typed.update = LastTyped(s, e, UpdateField, @)]

\* The Update button: cancel the seat and book it again with what the fields have.
Update(s) ==
    LET r == s.selected[1]
        c == s.selected[2]
    IN  Save([s EXCEPT !.seatMap = BookSeat(CancelBooking(@, r, c), r, c, s.updateBuf),
                       !.typed.update = NoText])

\* (mutant) The row is deleted and the seat kept.
DeleteRowOnly(s) ==
    [s EXCEPT !.typed.update = NoText,
              !.store[s.activeFlight] = [p \in DOMAIN @ |->
                  IF p = s.selected THEN Blank ELSE @[p]]]

\* The Delete button: clear the seat, then DELETE its row.
Delete(s) ==
    LET r == s.selected[1]
        c == s.selected[2]
    IN  [s EXCEPT !.seatMap = CancelBooking(@, r, c),
                  !.typed.update = NoText,
                  !.store[s.activeFlight] = [p \in DOMAIN @ |->
                      IF p = s.selected THEN Blank ELSE @[p]]]

ManageBookings(s, e) ==
    LET f == UpdateFields(s, e)
    IN  IF ~CanManage(s) THEN s
        ELSE IF IsPressed(f, e, Button("Update")) THEN Press(Update(f), Button("Update"))
        ELSE IF IsPressed(f, e, Button("Delete")) THEN Press(Delete(f), Button("Delete"))
        ELSE f

\* The rows of a flight's booking table.
RowsOf(s, f) ==
    {[rowid |-> 0, row |-> p[1], col |-> p[2], details |-> s.store[f][p]] :
        p \in {q \in Seats(f) : s.store[f][q] # Blank}}

\* (mutant) The flight is loaded into the seat map of the last one.
LoadIntoOldMap(s, f) ==
    [s EXCEPT !.activeFlight = f,
              !.seatMap = LoadFromFlightInformation(@, Rows[f], Cols[f], RowsOf(s, f)),
              !.typed.update = NoText]

\* A new Flight replaces the active one.
LoadFlight(s, f) ==
    [s EXCEPT !.activeFlight = f,
              !.seatMap = LoadFromFlightInformation(Construct(Rows[f], Cols[f]),
                                                    Rows[f], Cols[f], RowsOf(s, f)),
              !.typed.update = NoText]

\* (mutant) The flight of the last button of the list is loaded.
SelectFlightLast(s, e) ==
    LET hit == {i \in DOMAIN Listed : IsPressed(s, e, SelectButton(Listed[i]))}
        new == LoadFlight(s, Listed[Len(Listed)])
    IN  IF hit = {} THEN s
        ELSE [new EXCEPT !.pressed = @ \cup {SelectButton(Listed[i]) : i \in hit}]

\* Every button that is pressed loads its flight, so the last of them stays.
SelectFlight(s, e) ==
    LET hit == {i \in DOMAIN Listed : IsPressed(s, e, SelectButton(Listed[i]))}
        new == LoadFlight(s, Listed[CHOOSE i \in hit : \A j \in hit : j <= i])
    IN  IF hit = {} THEN s
        ELSE [new EXCEPT !.pressed = @ \cup {SelectButton(Listed[i]) : i \in hit}]

GUIMain(s, e) ==
    Activate(SelectFlight(ManageBookings(CreateBookings(SeatMapGUI(Header(s), e), e),
                                         e), e), e)

-----------------------------------------------------------------------------
Init ==
    ui = [activeFlight |-> NoFlight, seatMap |-> Construct(0, 0), selected |-> <<0, 0>>,
          store |-> [f \in Flights |-> [p \in Seats(f) |-> Blank]],
          flightId |-> NoFlight, updateBuf |-> Blank, createBuf |-> Blank,
          active |-> NoWidget, held |-> FALSE, edit |-> Blank, initial |-> Blank,
          pressed |-> {}, typed |-> [create |-> Blank, update |-> NoText]]

Frame(e) == ui' = GUIMain(ui, e)

Next == \E e \in Events(ui) : Frame(e)

Spec == Init /\ [][Next]_ui

-----------------------------------------------------------------------------
(* Properties.                                                               *)

CabinRows(s) == IF s.activeFlight = NoFlight THEN 0 ELSE Rows[s.activeFlight]
CabinCols(s) == IF s.activeFlight = NoFlight THEN 0 ELSE Cols[s.activeFlight]

\* The type invariant: in particular the map on display has the dimensions of
\* the active flight.
TypeOK ==
    /\ ui.activeFlight \in Flights \cup {NoFlight}
    /\ ui.flightId \in Flights \cup {NoFlight}
    /\ ui.seatMap \in SeatMaps(CabinRows(ui), CabinCols(ui))
    /\ ui.selected \in Nat \X Nat
    /\ DOMAIN ui.store = Flights
    /\ \A f \in Flights : ui.store[f] \in [Seats(f) -> Details]
    /\ {ui.updateBuf, ui.createBuf, ui.edit, ui.initial} \subseteq Details
    /\ ui.typed \in [create : Details, update : Details \cup {NoText}]
    /\ ui.held \in BOOLEAN

\* The text of a booking that has a name.
Stored(d) == IF d \in Unnamed THEN Blank ELSE d

\* Between two frames the map on display is what the table of the active flight
\* says, but for bookings without a name, and a seat that is shown as available
\* has no passenger: this survives any order of the panes' effects in a frame,
\* and any seat or flight the buffers were filled from (Application.cpp:265-448).
DisplayIsStored ==
    ui.activeFlight # NoFlight =>
        \A p \in Seats(ui.activeFlight) :
            LET d == GetDetails(ui.seatMap, p[1], p[2])
            IN  /\ ui.store[ui.activeFlight][p] = Stored(d)
                /\ ui.seatMap.m_SeatMap[p[1]][p[2]] => d = Blank

\* The tables of all flights change by Book and Delete only, and only in the
\* seat that is selected of the flight on display.  The Update button, which
\* clears the seat and books it again from buffers that other seats and other
\* flights have been shown in, never puts a text where it does not belong
\* (Application.cpp:275-282, 376-381).
OnlyBookAndDeleteWrite ==
    [][\A f \in Flights : \A p \in Seats(f) :
          ui'.store[f][p] # ui.store[f][p] =>
              /\ f = ui.activeFlight /\ p = ui.selected
              /\ \/ Button("Book") \in ui'.pressed /\ ui'.store[f][p] = ui.typed.create
                 \/ Button("Delete") \in ui'.pressed /\ ui'.store[f][p] = Blank]_ui

\* The flight on display changes only to one whose Select button is pressed, and
\* the map is then that of its own table, whatever the ids of the buttons are
\* (Application.cpp:330-341).
SelectionIsPressed ==
    [][ui'.activeFlight # ui.activeFlight =>
          /\ SelectButton(ui'.activeFlight) \in ui'.pressed
          /\ \A p \in Seats(ui'.activeFlight) :
                GetDetails(ui'.seatMap, p[1], p[2]) = ui'.store[ui'.activeFlight][p]]_ui

\* The tables as BookingStore sees them: a place outside the cabin of a flight is
\* free for ever.
Places == UNION {Seats(f) : f \in Flights}

Contents ==
    [f \in Flights |-> [p \in Places |-> IF p \in Seats(f) THEN ui.store[f][p] ELSE Blank]]

Store == INSTANCE BookingStore
    WITH Tables <- Flights, Seat <- Places, Named <- Details \ Unnamed, Free <- Blank,
         store <- Contents

\* A frame changes at most one seat of one table, whatever the user does in it:
\* the Save that ends Book and Update goes over every seat of the map, and still
\* writes nothing but the seat that was booked (Application.cpp:380, 432).
StoreSpec == Store!Spec

\* "Manage them (update or delete) via the Manage Bookings Menu"
\* (Application.cpp:82): Update gives the seat what was typed for it.
UpdateTakesTyped ==
    [][Button("Update") \in ui'.pressed /\ ui.typed.update # NoText
       /\ ui.selected \in Seats(ui.activeFlight)
          => GetDetails(ui'.seatMap, ui.selected[1], ui.selected[2]) = ui.typed.update]_ui
=============================================================================
