--------------------------- MODULE GuiFrameProofs ---------------------------
(***************************************************************************)
(* The properties of GuiFrame, for every list of flights, every cabin and  *)
(* every text that can be typed.  A frame is a composition of panes: each  *)
(* pane has a lemma that says what it does to the state it is given, and   *)
(* the inductive invariant of the frame is followed from pane to pane.     *)
(***************************************************************************)
EXTENDS GuiFrame, SeatMapProofs

-----------------------------------------------------------------------------
(* The inductive invariant, as a predicate on a state in or between frames.  *)

\* What a table can say of a seat.
Bookings == (Details \ Unnamed) \cup {Blank}

\* The record has its fields, and nothing else.
Shape(s) ==
    s = [activeFlight |-> s.activeFlight, seatMap |-> s.seatMap, selected |-> s.selected,
         store |-> s.store, flightId |-> s.flightId, updateBuf |-> s.updateBuf,
         createBuf |-> s.createBuf, active |-> s.active, held |-> s.held,
         edit |-> s.edit, initial |-> s.initial, pressed |-> s.pressed, typed |-> s.typed]

\* The tables hold named bookings only: no frame stores a booking without a name.
TablesOK(store) ==
    /\ store = [f \in Flights |-> store[f]]
    /\ \A f \in Flights : store[f] \in [Seats(f) -> Bookings]

\* The types of the fields.
StateOK(s) ==
    /\ Shape(s)
    /\ s.activeFlight \in Flights \cup {NoFlight}
    /\ s.flightId \in Flights \cup {NoFlight}
    /\ s.seatMap \in SeatMaps(CabinRows(s), CabinCols(s))
    /\ s.selected \in Nat \X Nat
    /\ TablesOK(s.store)
    /\ s.updateBuf \in Details /\ s.createBuf \in Details
    /\ s.edit \in Details /\ s.initial \in Details
    /\ s.typed \in [create : Details, update : Details \cup {NoText}]
    /\ s.held \in BOOLEAN

\* A map of nr rows and nc columns shows what a table says.
Shows(sm, table, nr, nc) ==
    \A i \in 0 .. nr - 1, j \in 0 .. nc - 1 :
        /\ table[<<i, j>>] = Stored(sm.m_Details[i][j])
        /\ sm.m_SeatMap[i][j] => sm.m_Details[i][j] = Blank

\* The map on display shows the table of the active flight.
Displays(s) ==
    s.activeFlight # NoFlight =>
        Shows(s.seatMap, s.store[s.activeFlight], Rows[s.activeFlight], Cols[s.activeFlight])

\* The fields of Create Bookings have what was last typed in them, and the text
\* that the active one is about to write back is the same.
CreateOK(s) ==
    /\ s.createBuf = s.typed.create
    /\ s.active = CreateField => s.edit = s.createBuf

IInv == StateOK(ui) /\ Displays(ui) /\ CreateOK(ui)

-----------------------------------------------------------------------------
(* Widgets and events.                                                       *)

\* No button is a field, a seat or another button.
LEMMA WidgetsDiffer ==
    /\ CreateField # UpdateField /\ NoWidget # CreateField /\ NoWidget # UpdateField
    /\ Button("Book") # CreateField /\ Button("Book") # UpdateField
    /\ Button("Update") # CreateField /\ Button("Update") # UpdateField
    /\ Button("Delete") # CreateField /\ Button("Delete") # UpdateField
    /\ Button("Book") # Button("Update") /\ Button("Book") # Button("Delete")
    /\ \A p : SeatButton(p) # Button("Book") /\ SeatButton(p) # Button("Update")
             /\ SeatButton(p) # Button("Delete")
BY WidgetAssumption DEF CreateField, UpdateField, Button, SeatButton, Fields

\* An event has a text that can be typed; the keyboard activates a widget only
\* when none is active; and the fields of Create Bookings are on the screen only
\* when a flight is on display.
LEMMA EventFacts ==
    ASSUME NEW s, NEW e \in Events(s)
    PROVE  /\ e.text \in Details
           /\ e.kind = "nav" => s.active = NoWidget
           /\ e.on = CreateField => s.activeFlight # NoFlight
<1>1. \A k, w, d : Event(k, w, d).kind = k /\ Event(k, w, d).on = w /\ Event(k, w, d).text = d
  BY DEF Event
<1>2. CreateField \in Widgets(s) \cup {NoWidget} => s.activeFlight # NoFlight
  <2> SUFFICES ASSUME s.activeFlight = NoFlight, CreateField \in Widgets(s) PROVE FALSE
    BY WidgetsDiffer
  <2>1. CreateField \in {SelectButton(f) : f \in Flights}
    BY DEF Widgets, CanManage
  <2> QED
    BY <2>1 DEF CreateField, Button, SelectButton
<1>3. Blank \in Details /\ Typed \subseteq Details
  BY DetailsAssumption, ListedAssumption
<1>4. /\ e.on \in Widgets(s) \cup {NoWidget}
      /\ e.text \in {Blank} \cup Typed
      /\ e.kind = "nav" => s.active = NoWidget
  BY <1>1 DEF Events
<1> QED
  BY <1>2, <1>3, <1>4

\* The event is on w, and w is the active widget or the keyboard presses it.
PressedBy(s, e, w) == e.on = w /\ ((e.kind = "up" /\ s.active = w) \/ e.kind = "nav")

\* Only the event on a button presses it, and the button is then the active
\* widget, or no widget is.
LEMMA PressedButton ==
    ASSUME NEW s, NEW e
    PROVE  /\ IsPressed(s, e, Button("Book")) => PressedBy(s, e, Button("Book"))
           /\ IsPressed(s, e, Button("Update")) => PressedBy(s, e, Button("Update"))
           /\ IsPressed(s, e, Button("Delete")) => PressedBy(s, e, Button("Delete"))
BY DEF IsPressed, PressedBy, Id, Button, SelectButton

\* The same of a seat.
LEMMA PressedSeat ==
    ASSUME NEW s, NEW e, NEW p, IsPressed(s, e, SeatButton(p))
    PROVE  e.on = SeatButton(p)
BY DEF IsPressed, Id, SeatButton, SelectButton

-----------------------------------------------------------------------------
(* What the panes leave alone.                                               *)

\* The flight on display, its map and the tables.
SameData(new, s) ==
    new.activeFlight = s.activeFlight /\ new.seatMap = s.seatMap /\ new.store = s.store

\* What CreateOK speaks of.
SameCreate(new, s) ==
    /\ new.createBuf = s.createBuf /\ new.typed.create = s.typed.create
    /\ new.active = s.active /\ new.edit = s.edit

\* When a seat of the map is taken, the update fields have the selected seat.
Filled(s) ==
    Taken(s.seatMap) # {} => s.updateBuf = GetDetails(s.seatMap, s.selected[1], s.selected[2])

LEMMA CabinType ==
    ASSUME NEW s, s.activeFlight \in Flights \cup {NoFlight}
    PROVE  CabinRows(s) \in Nat /\ CabinCols(s) \in Nat
BY ListedAssumption DEF CabinRows, CabinCols

\* The top of GUIMain refreshes flightId only.
LEMMA HeaderStep ==
    ASSUME NEW s, StateOK(s), NEW new, new = Header(s)
    PROVE  /\ StateOK(new) /\ SameData(new, s) /\ SameCreate(new, s)
           /\ new.selected = s.selected
<1>1. /\ Shape(new) /\ SameData(new, s) /\ SameCreate(new, s)
      /\ new.selected = s.selected /\ new.updateBuf = s.updateBuf
      /\ new.initial = s.initial /\ new.held = s.held /\ new.typed = s.typed
      /\ new.flightId = IF s.activeFlight # NoFlight THEN s.activeFlight ELSE s.flightId
  BY DEF StateOK, Shape, Header, SameData, SameCreate
<1> QED
  BY <1>1 DEF StateOK, SameData, SameCreate, CabinRows, CabinCols

\* The seat map changes the selected seat only when a seat is pressed; otherwise it
\* leaves the update fields with that seat.
LEMMA SeatMapStep ==
    ASSUME NEW s, StateOK(s), NEW e, NEW new, new = SeatMapGUI(s, e)
    PROVE  /\ StateOK(new) /\ SameData(new, s) /\ SameCreate(new, s)
           /\ (\A p : e.on # SeatButton(p)) =>
                 /\ new.selected = s.selected
                 /\ s.activeFlight # NoFlight => Filled(new)
<1> DEFINE hit == {p \in Seats(s.activeFlight) : IsPressed(s, e, SeatButton(p))}
           now == IF hit = {} THEN s.selected ELSE CHOOSE p \in hit : TRUE
<1>1. CASE s.activeFlight = NoFlight
  BY <1>1 DEF SeatMapGUI, SameData, SameCreate, StateOK, SeatMapGUI
<1>2. CASE s.activeFlight # NoFlight
  <2>1. now \in Nat \X Nat
    <3>1. hit # {} => (CHOOSE p \in hit : TRUE) \in hit
      OBVIOUS
    <3>2. hit \subseteq Nat \X Nat
      BY ListedAssumption, <1>2 DEF Seats, StateOK
    <3> QED
      BY <3>1, <3>2 DEF StateOK
  <2>2. (\A p : e.on # SeatButton(p)) => hit = {}
    BY PressedSeat
  <2>3. now # s.selected => hit # {}
    OBVIOUS
  <2> HIDE DEF now, hit
  <2>4. Refilled(s, now) \in Details
    <3>1. GetDetails(s.seatMap, now[1], now[2]) \in Details
      BY <2>1, GetDetailsType, CabinType DEF StateOK
    <3>2. GetDetails(s.seatMap, s.selected[1], s.selected[2]) \in Details
      BY GetDetailsType, CabinType DEF StateOK
    <3> QED
      BY <3>1, <3>2 DEF Refilled, StateOK
  <2>5. new = [s EXCEPT !.selected = now, !.updateBuf = Refilled(s, now),
                        !.typed.update = IF hit = {} THEN @ ELSE NoText,
                        !.pressed = @ \cup {SeatButton(p) : p \in hit}]
    BY <1>2 DEF SeatMapGUI, now, hit
  <2>6. /\ Shape(new) /\ SameData(new, s) /\ SameCreate(new, s)
        /\ new.selected = now /\ new.updateBuf = Refilled(s, now)
        /\ new.initial = s.initial /\ new.held = s.held /\ new.flightId = s.flightId
        /\ new.typed \in [create : Details, update : Details \cup {NoText}]
    <3>1. PICK t : t = [s.typed EXCEPT !.update = IF hit = {} THEN @ ELSE NoText]
      OBVIOUS
    <3>2. /\ t \in [create : Details, update : Details \cup {NoText}]
          /\ t.create = s.typed.create
      BY <3>1 DEF StateOK
    <3>3. new = [s EXCEPT !.selected = now, !.updateBuf = Refilled(s, now), !.typed = t,
                          !.pressed = @ \cup {SeatButton(p) : p \in hit}]
      BY <2>5, <3>1 DEF StateOK, Shape
    <3> QED
      BY <3>2, <3>3 DEF StateOK, Shape, SameData, SameCreate
  <2>7. StateOK(new)
    BY <2>1, <2>4, <2>6 DEF StateOK, SameData, SameCreate, CabinRows, CabinCols
  <2>8. hit = {} => now = s.selected
    BY DEF now
  <2>9. hit = {} => Filled(new)
    BY <2>6, <2>8 DEF Filled, Refilled, SameData
  <2> QED
    BY <2>2, <2>6, <2>7, <2>8, <2>9
<1> QED
  BY <1>1, <1>2

-----------------------------------------------------------------------------
(* Writing to the tables.                                                    *)

\* Everything but the map on display and the tables.
SameControl(new, s) ==
    /\ new.activeFlight = s.activeFlight /\ new.selected = s.selected
    /\ new.flightId = s.flightId /\ new.updateBuf = s.updateBuf /\ new.pressed = s.pressed
    /\ new.held = s.held /\ new.initial = s.initial /\ SameCreate(new, s)

\* Of the tables only the active flight's has changed, there only in the selected
\* seat, which now has d.
OneSeat(new, s, d) ==
    \A f \in Flights : \A p \in Seats(f) :
        new.store[f][p] # s.store[f][p] =>
            f = s.activeFlight /\ p = s.selected /\ new.store[f][p] = d

\* The table t is old after the map sm has been saved in it.
SavedTable(t, old, sm, nr, nc) ==
    \A i \in 0 .. nr - 1, j \in 0 .. nc - 1 :
        t[<<i, j>>] = IF sm.m_Details[i][j] \notin Unnamed
                      THEN sm.m_Details[i][j] ELSE old[<<i, j>>]

\* The seats of a map that have a name are put in the table of the flight, and
\* nothing else changes.
LEMMA SaveStep ==
    ASSUME NEW s, StateOK(s), s.activeFlight # NoFlight, NEW new, new = Save(s)
    PROVE  /\ StateOK(new) /\ SameControl(new, s) /\ new.typed = s.typed
           /\ new.seatMap = s.seatMap
           /\ \A f \in Flights : f # s.activeFlight => new.store[f] = s.store[f]
           /\ SavedTable(new.store[s.activeFlight], s.store[s.activeFlight], s.seatMap,
                         Rows[s.activeFlight], Cols[s.activeFlight])
<1>1. PICK a : a = s.activeFlight
  OBVIOUS
<1>2. a \in Flights /\ Rows[a] \in Nat /\ Cols[a] \in Nat
  BY <1>1, ListedAssumption DEF StateOK
<1>3. PICK old : old = s.store[a]
  OBVIOUS
<1>4. old \in [Seats(a) -> Bookings]
  BY <1>2, <1>3 DEF StateOK, TablesOK
<1>5. PICK d : d = s.seatMap.m_Details
  OBVIOUS
<1>6. \A p \in Seats(a) : d[p[1]][p[2]] \in Details
  <2>1. d \in [0 .. Rows[a] - 1 -> [0 .. Cols[a] - 1 -> Details]]
    BY <1>1, <1>2, <1>5 DEF StateOK, SeatMaps, CabinRows, CabinCols
  <2> QED
    BY <1>2, <2>1 DEF Seats
<1>7. PICK t : t = [p \in Seats(a) |-> IF d[p[1]][p[2]] \notin Unnamed
                                      THEN d[p[1]][p[2]] ELSE old[p]]
  OBVIOUS
<1>8. t \in [Seats(a) -> Bookings]
  BY <1>4, <1>6, <1>7 DEF Bookings
<1>9. PICK st : st = [s.store EXCEPT ![a] = t]
  OBVIOUS
<1>10. /\ TablesOK(st) /\ st[a] = t
       /\ \A f \in Flights : f # a => st[f] = s.store[f]
  BY <1>2, <1>8, <1>9 DEF StateOK, TablesOK
<1>11. new = [s EXCEPT !.store = st]
  <2>1. new = [s EXCEPT !.store[a] = [p \in DOMAIN @ |-> IF d[p[1]][p[2]] \notin Unnamed
                                                       THEN d[p[1]][p[2]] ELSE @[p]]]
    BY <1>1, <1>5 DEF Save
  <2>2. DOMAIN old = Seats(a)
    BY <1>4
  <2>3. [p \in DOMAIN old |-> IF d[p[1]][p[2]] \notin Unnamed
                              THEN d[p[1]][p[2]] ELSE old[p]] = t
    BY <1>7, <2>2
  <2> QED
    BY <1>3, <1>9, <2>1, <2>3 DEF StateOK, Shape
<1>12. /\ Shape(new) /\ SameControl(new, s) /\ new.typed = s.typed
       /\ new.seatMap = s.seatMap /\ new.store = st
  BY <1>11 DEF StateOK, Shape, SameControl, SameCreate
<1>13. StateOK(new)
  BY <1>10, <1>12 DEF StateOK, SameControl, SameCreate, CabinRows, CabinCols
<1>14. SavedTable(t, old, s.seatMap, Rows[a], Cols[a])
  <2>1. \A i \in 0 .. Rows[a] - 1, j \in 0 .. Cols[a] - 1 :
          <<i, j>> \in Seats(a) /\ <<i, j>>[1] = i /\ <<i, j>>[2] = j
    BY DEF Seats
  <2> QED
    BY <1>5, <1>7, <2>1 DEF SavedTable
<1> QED
  BY <1>1, <1>3, <1>10, <1>12, <1>13, <1>14

\* The table t differs from old in one place at most, where it has d.
OnlyAt(t, old, nr, nc, r, c, d) ==
    \A i \in 0 .. nr - 1, j \in 0 .. nc - 1 :
        t[<<i, j>>] # old[<<i, j>>] => i = r /\ j = c /\ t[<<i, j>>] = d

\* Saving a map that differs in a new booking from one that was on display: the map
\* is on display again, and only that seat has changed in the table.
LEMMA SavedBooking ==
    ASSUME NEW nr, NEW nc, NEW sm, NEW m, NEW old, NEW t, NEW d,
           NEW r \in 0 .. nr - 1, NEW c \in 0 .. nc - 1,
           Shows(sm, old, nr, nc), sm.m_Details[r][c] = Blank,
           Booked(m, sm, nr, nc, r, c, d), SavedTable(t, old, m, nr, nc)
    PROVE  Shows(m, t, nr, nc) /\ OnlyAt(t, old, nr, nc, r, c, d)
<1>1. old[<<r, c>>] = Blank
  BY DetailsAssumption DEF Shows, Stored
<1>2. t[<<r, c>>] = Stored(d) /\ ~m.m_SeatMap[r][c] /\ m.m_Details[r][c] = d
  BY <1>1 DEF SavedTable, Booked, Stored
<1>3. ASSUME NEW i \in 0 .. nr - 1, NEW j \in 0 .. nc - 1, ~(i = r /\ j = c)
      PROVE  /\ t[<<i, j>>] = old[<<i, j>>]
             /\ m.m_Details[i][j] = sm.m_Details[i][j]
             /\ m.m_SeatMap[i][j] <=> sm.m_SeatMap[i][j]
  BY <1>3 DEF SavedTable, Booked, Shows, Stored
<1>4. Stored(d) # Blank => Stored(d) = d
  BY DEF Stored
<1> QED
  BY <1>1, <1>2, <1>3, <1>4 DEF Shows, OnlyAt

\* Saving a map that is on display already writes nothing.
LEMMA SavedAgain ==
    ASSUME NEW nr, NEW nc, NEW sm, NEW m, NEW old, NEW t,
           Shows(sm, old, nr, nc), SameSeats(m, sm, nr, nc), SavedTable(t, old, m, nr, nc)
    PROVE  /\ Shows(m, t, nr, nc)
           /\ \A i \in 0 .. nr - 1, j \in 0 .. nc - 1 : t[<<i, j>>] = old[<<i, j>>]
<1>1. ASSUME NEW i \in 0 .. nr - 1, NEW j \in 0 .. nc - 1
      PROVE  /\ t[<<i, j>>] = old[<<i, j>>]
             /\ m.m_Details[i][j] = sm.m_Details[i][j]
             /\ m.m_SeatMap[i][j] <=> sm.m_SeatMap[i][j]
  BY DEF SavedTable, SameSeats, Shows, Stored
<1> QED
  BY <1>1 DEF Shows

\* SaveStep for a state in which the map on display has just been edited.
LEMMA EditAndSave ==
    ASSUME NEW s, StateOK(s), s.activeFlight # NoFlight,
           NEW m, m \in SeatMaps(CabinRows(s), CabinCols(s)),
           NEW new, new = Save([s EXCEPT !.seatMap = m])
    PROVE  /\ StateOK(new) /\ SameControl(new, s) /\ new.typed = s.typed
           /\ new.seatMap = m
           /\ \A f \in Flights : f # s.activeFlight => new.store[f] = s.store[f]
           /\ SavedTable(new.store[s.activeFlight], s.store[s.activeFlight], m,
                         Rows[s.activeFlight], Cols[s.activeFlight])
<1>1. PICK mid : mid = [s EXCEPT !.seatMap = m]
  OBVIOUS
<1>2. /\ Shape(mid) /\ SameControl(mid, s) /\ mid.typed = s.typed
      /\ mid.seatMap = m /\ mid.store = s.store
  BY <1>1 DEF StateOK, Shape, SameControl, SameCreate
<1>3. StateOK(mid)
  BY <1>2 DEF StateOK, SameControl, SameCreate, CabinRows, CabinCols
<1>4. new = Save(mid) /\ mid.activeFlight # NoFlight
  BY <1>1, <1>2 DEF SameControl
<1>5. /\ StateOK(new) /\ SameControl(new, mid) /\ new.typed = mid.typed
      /\ new.seatMap = mid.seatMap
      /\ \A f \in Flights : f # mid.activeFlight => new.store[f] = mid.store[f]
      /\ SavedTable(new.store[mid.activeFlight], mid.store[mid.activeFlight], mid.seatMap,
                    Rows[mid.activeFlight], Cols[mid.activeFlight])
  BY <1>3, <1>4, SaveStep
<1> QED
  BY <1>2, <1>5 DEF SameControl, SameCreate

\* Book: the map and the table have the new booking and are as they were elsewhere.
LEMMA BookStep ==
    ASSUME NEW s, StateOK(s), s.activeFlight # NoFlight, Displays(s), NEW new, new = Book(s)
    PROVE  /\ StateOK(new) /\ SameControl(new, s) /\ new.typed = s.typed
           /\ Displays(new) /\ OneSeat(new, s, s.createBuf)
<1>1. PICK a, nr, nc, r, c, sm, d :
        /\ a = s.activeFlight /\ nr = Rows[a] /\ nc = Cols[a]
        /\ r = s.selected[1] /\ c = s.selected[2] /\ sm = s.seatMap /\ d = s.createBuf
  OBVIOUS
<1>2. /\ a \in Flights /\ nr \in Nat /\ nc \in Nat /\ r \in Nat /\ c \in Nat
      /\ d \in Details /\ s.selected = <<r, c>>
      /\ CabinRows(s) = nr /\ CabinCols(s) = nc /\ sm \in SeatMaps(nr, nc)
  BY <1>1, ListedAssumption DEF StateOK, CabinRows, CabinCols
<1>3. CASE ~IsSeatAvailable(sm, r, c)
  <2>1. new = s
    BY <1>1, <1>3 DEF Book
  <2> QED
    BY <2>1 DEF SameControl, SameCreate, OneSeat
<1>4. CASE IsSeatAvailable(sm, r, c)
  <2>1. PICK m : m = BookSeat(sm, r, c, d)
    OBVIOUS
  <2>2. m \in SeatMaps(nr, nc)
    BY <1>2, <2>1, BookSeatType
  <2>3. /\ r \in 0 .. nr - 1 /\ c \in 0 .. nc - 1 /\ sm.m_SeatMap[r][c]
        /\ Booked(m, sm, nr, nc, r, c, d)
    BY <1>2, <1>4, <2>1, BookedSeat
  <2>4. new = Save([s EXCEPT !.seatMap = m])
    BY <1>1, <1>4, <2>1 DEF Book
  <2>5. PICK old, t : old = s.store[a] /\ t = new.store[a]
    OBVIOUS
  <2>6. /\ StateOK(new) /\ SameControl(new, s) /\ new.typed = s.typed /\ new.seatMap = m
        /\ \A f \in Flights : f # a => new.store[f] = s.store[f]
        /\ SavedTable(t, old, m, nr, nc)
    BY <1>1, <1>2, <2>2, <2>4, <2>5, EditAndSave
  <2>7. Shows(sm, old, nr, nc) /\ sm.m_Details[r][c] = Blank
    BY <1>1, <2>3, <2>5 DEF Displays, Shows
  <2>8. Shows(m, t, nr, nc) /\ OnlyAt(t, old, nr, nc, r, c, d)
    BY <2>3, <2>6, <2>7, SavedBooking
  <2>9. Displays(new)
    BY <1>1, <2>5, <2>6, <2>8 DEF Displays, SameControl
  <2>10. OneSeat(new, s, d)
    <3> SUFFICES ASSUME NEW f \in Flights, NEW p \in Seats(f),
                        new.store[f][p] # s.store[f][p]
                 PROVE  f = a /\ p = s.selected /\ new.store[f][p] = d
      BY <1>1 DEF OneSeat
    <3>1. f = a
      BY <2>6
    <3>2. PICK i \in 0 .. nr - 1, j \in 0 .. nc - 1 : p = <<i, j>>
      BY <1>1, <3>1 DEF Seats
    <3> QED
      BY <1>2, <2>5, <2>8, <3>1, <3>2 DEF OnlyAt
  <2> QED
    BY <1>1, <2>6, <2>9, <2>10
<1> QED
  BY <1>3, <1>4

-----------------------------------------------------------------------------
(* The fields.                                                               *)

\* A field has a text, whatever the event.
LEMMA InputTextType ==
    ASSUME NEW s, StateOK(s), NEW e, e.text \in Details, NEW w, NEW buf \in Details
    PROVE  /\ InputText(s, e, w, buf) \in Details
           /\ EditText(s, e, w, buf) \in Details
           /\ InitialText(s, e, w, buf) \in Details
           /\ s.active # w => InputText(s, e, w, buf) = buf
<1>1. InputText(s, e, w, buf) \in Details
  BY DEF InputText, StateOK
<1>2. s.active # w => InputText(s, e, w, buf) = buf
  BY DEF InputText
<1> QED
  BY <1>1, <1>2 DEF EditText, InitialText, StateOK

\* The fields of Create Bookings keep to what was typed in them, and change
\* nothing when they are not active.
LEMMA CreateFieldsStep ==
    ASSUME NEW s, StateOK(s), NEW e, e.text \in Details, NEW new, new = CreateFields(s, e)
    PROVE  /\ StateOK(new) /\ SameData(new, s)
           /\ new.selected = s.selected /\ new.updateBuf = s.updateBuf
           /\ new.pressed = s.pressed
           /\ new.active = IF IsActivated(s, e, CreateField) THEN CreateField ELSE s.active
           /\ s.active # CreateField =>
                 new.createBuf = s.createBuf /\ new.typed.create = s.typed.create
           /\ CreateOK(s) => CreateOK(new)
<1>1. PICK b, ed, i, c :
        /\ b = InputText(s, e, CreateField, s.createBuf)
        /\ ed = EditText(s, e, CreateField, s.createBuf)
        /\ i = InitialText(s, e, CreateField, s.createBuf)
        /\ c = LastTyped(s, e, CreateField, s.typed.create)
  OBVIOUS
<1>2. s.createBuf \in Details /\ s.typed.create \in Details
  BY DEF StateOK
<1>3. b \in Details /\ ed \in Details /\ i \in Details /\ c \in Details
  <2>1. InputText(s, e, CreateField, s.typed.create) \in Details
    BY <1>2, InputTextType
  <2> QED
    BY <1>1, <1>2, <2>1, InputTextType DEF LastTyped
<1>4. s.active # CreateField => b = s.createBuf /\ c = s.typed.create
  BY <1>1 DEF InputText, LastTyped
<1>5. PICK t : t = [s.typed EXCEPT !.create = c]
  OBVIOUS
<1>6. t \in [create : Details, update : Details \cup {NoText}] /\ t.create = c
  BY <1>3, <1>5 DEF StateOK
<1>7. PICK act : act = IF IsActivated(s, e, CreateField) THEN CreateField ELSE s.active
  OBVIOUS
<1>8. new = [s EXCEPT !.active = act, !.createBuf = b, !.edit = ed, !.initial = i,
                      !.typed = t]
  BY <1>1, <1>5, <1>7 DEF CreateFields, StateOK, Shape
<1>9. /\ Shape(new) /\ SameData(new, s)
      /\ new.selected = s.selected /\ new.updateBuf = s.updateBuf
      /\ new.pressed = s.pressed /\ new.held = s.held /\ new.flightId = s.flightId
      /\ new.active = act /\ new.createBuf = b /\ new.edit = ed /\ new.initial = i
      /\ new.typed = t
  BY <1>8 DEF StateOK, Shape, SameData
<1>10. StateOK(new)
  BY <1>3, <1>6, <1>9 DEF StateOK, SameData, CabinRows, CabinCols
<1>11. ASSUME CreateOK(s) PROVE b = c /\ (act = CreateField => ed = b)
  <2>1. s.active = CreateField /\ e.kind \in {"type", "escape"} => b = c
    BY <1>1 DEF InputText, LastTyped
  <2>2. ~(s.active = CreateField /\ e.kind \in {"type", "escape"}) => b = c
    BY <1>1, <1>11 DEF InputText, LastTyped, CreateOK
  <2>3. act = CreateField => ed = b
    BY <1>1, <1>7 DEF EditText
  <2> QED
    BY <2>1, <2>2, <2>3
<1>12. CreateOK(s) => CreateOK(new)
  BY <1>6, <1>9, <1>11 DEF CreateOK
<1> QED
  BY <1>4, <1>6, <1>7, <1>9, <1>10, <1>12

\* The fields of Manage Bookings do not touch those of Create Bookings, nor the
\* map and the tables.
LEMMA UpdateFieldsStep ==
    ASSUME NEW s, StateOK(s), NEW e, e.text \in Details, NEW new, new = UpdateFields(s, e)
    PROVE  /\ StateOK(new) /\ SameData(new, s)
           /\ new.selected = s.selected /\ new.pressed = s.pressed
           /\ new.active = IF IsActivated(s, e, UpdateField) THEN UpdateField ELSE s.active
           /\ s.active # UpdateField => new.updateBuf = s.updateBuf
           /\ new.typed.create = s.typed.create
           /\ CreateOK(s) => CreateOK(new)
<1>1. PICK b, ed, i, u :
        /\ b = InputText(s, e, UpdateField, s.updateBuf)
        /\ ed = EditText(s, e, UpdateField, s.updateBuf)
        /\ i = InitialText(s, e, UpdateField, s.updateBuf)
        /\ u = LastTyped(s, e, UpdateField, s.typed.update)
  OBVIOUS
<1>2. s.updateBuf \in Details /\ s.typed.update \in Details \cup {NoText}
  BY DEF StateOK
<1>3. b \in Details /\ ed \in Details /\ i \in Details
  BY <1>1, <1>2, InputTextType
<1>4. u \in Details \cup {NoText}
  BY <1>1, <1>2 DEF LastTyped, InputText, StateOK
<1>5. PICK t : t = [s.typed EXCEPT !.update = u]
  OBVIOUS
<1>6. /\ t \in [create : Details, update : Details \cup {NoText}]
      /\ t.create = s.typed.create
  BY <1>4, <1>5 DEF StateOK
<1>7. PICK act : act = IF IsActivated(s, e, UpdateField) THEN UpdateField ELSE s.active
  OBVIOUS
<1>8. new = [s EXCEPT !.active = act, !.updateBuf = b, !.edit = ed, !.initial = i,
                      !.typed = t]
  BY <1>1, <1>5, <1>7 DEF UpdateFields, StateOK, Shape
<1>9. /\ Shape(new) /\ SameData(new, s)
      /\ new.selected = s.selected /\ new.createBuf = s.createBuf
      /\ new.pressed = s.pressed /\ new.held = s.held /\ new.flightId = s.flightId
      /\ new.active = act /\ new.updateBuf = b /\ new.edit = ed /\ new.initial = i
      /\ new.typed = t
  BY <1>8 DEF StateOK, Shape, SameData
<1>10. StateOK(new)
  BY <1>3, <1>6, <1>9 DEF StateOK, SameData, CabinRows, CabinCols
<1>11. CreateField # UpdateField
  BY DEF CreateField, UpdateField, Button
<1>12. act = CreateField => s.active = CreateField /\ ed = s.edit
  BY <1>1, <1>7, <1>11 DEF EditText
<1>13. CreateOK(s) => CreateOK(new)
  BY <1>6, <1>9, <1>12 DEF CreateOK
<1>14. s.active # UpdateField => b = s.updateBuf
  BY <1>1 DEF InputText
<1> QED
  BY <1>6, <1>7, <1>9, <1>10, <1>13, <1>14

\* The history variable pressed is not read by the panes.
LEMMA PressStep ==
    ASSUME NEW s, StateOK(s), NEW w, NEW new, new = Press(s, w)
    PROVE  /\ StateOK(new) /\ SameData(new, s) /\ SameCreate(new, s)
           /\ new.selected = s.selected /\ new.updateBuf = s.updateBuf
           /\ new.pressed = s.pressed \cup {w}
<1>1. /\ Shape(new) /\ SameData(new, s) /\ SameCreate(new, s)
      /\ new.selected = s.selected /\ new.updateBuf = s.updateBuf
      /\ new.flightId = s.flightId /\ new.held = s.held /\ new.initial = s.initial
      /\ new.typed = s.typed /\ new.pressed = s.pressed \cup {w}
  BY DEF Press, StateOK, Shape, SameData, SameCreate
<1> QED
  BY <1>1 DEF StateOK, SameData, SameCreate, CabinRows, CabinCols

-----------------------------------------------------------------------------
(* The panes that write.                                                     *)

\* What a pane does that may write d to the selected seat when its button w is
\* pressed: the rest of the tables is as it was, and the map still shows them.
Wrote(new, s, w, d) ==
    new.store = s.store \/ (w \in new.pressed /\ OneSeat(new, s, d))

\* Create Bookings writes what was typed in its own fields.
LEMMA CreateStep ==
    ASSUME NEW s, StateOK(s), Displays(s), CreateOK(s), NEW e, e.text \in Details,
           e.kind = "nav" => s.active = NoWidget, NEW new, new = CreateBookings(s, e)
    PROVE  /\ StateOK(new) /\ Displays(new) /\ CreateOK(new)
           /\ new.activeFlight = s.activeFlight /\ new.selected = s.selected
           /\ new.updateBuf = s.updateBuf
           /\ e.on # Button("Book") => SameData(new, s)
           /\ new.active = IF s.activeFlight # NoFlight /\ IsActivated(s, e, CreateField)
                           THEN CreateField ELSE s.active
           /\ Wrote(new, s, Button("Book"), s.typed.create)
<1>1. CASE s.activeFlight = NoFlight
  <2>1. new = s
    BY <1>1 DEF CreateBookings
  <2> QED
    BY <1>1, <2>1 DEF SameData, Wrote
<1>2. CASE s.activeFlight # NoFlight
  <2>1. PICK f : f = CreateFields(s, e)
    OBVIOUS
  <2>2. /\ StateOK(f) /\ SameData(f, s)
        /\ f.selected = s.selected /\ f.updateBuf = s.updateBuf
        /\ f.active = IF IsActivated(s, e, CreateField) THEN CreateField ELSE s.active
        /\ s.active # CreateField =>
              f.createBuf = s.createBuf /\ f.typed.create = s.typed.create
        /\ CreateOK(f)
    BY <2>1, CreateFieldsStep
  <2>3. Displays(f) /\ f.activeFlight # NoFlight
    BY <1>2, <2>2 DEF SameData, Displays
  <2>4. CASE ~IsPressed(f, e, Button("Book"))
    <3>1. new = f
      BY <1>2, <2>1, <2>4 DEF CreateBookings
    <3> QED
      BY <1>2, <2>2, <2>3, <3>1 DEF SameData, Wrote
  <2>5. CASE IsPressed(f, e, Button("Book"))
    <3>1. PressedBy(f, e, Button("Book")) /\ e.on = Button("Book")
      BY <2>5, PressedButton DEF PressedBy
    <3>2. s.active # CreateField
      BY <2>2, <3>1, WidgetsDiffer DEF PressedBy, IsActivated
    <3>3. PICK b : b = Book(f)
      OBVIOUS
    <3>4. /\ StateOK(b) /\ SameControl(b, f) /\ b.typed = f.typed
          /\ Displays(b) /\ OneSeat(b, f, f.createBuf)
      BY <2>2, <2>3, <3>3, BookStep
    <3>5. new = Press(b, Button("Book"))
      BY <1>2, <2>1, <2>5, <3>3 DEF CreateBookings
    <3>6. /\ StateOK(new) /\ SameData(new, b) /\ SameCreate(new, b)
          /\ new.selected = b.selected /\ new.updateBuf = b.updateBuf
          /\ new.pressed = b.pressed \cup {Button("Book")}
      BY <3>4, <3>5, PressStep
    <3>7. Displays(new)
      BY <3>4, <3>6 DEF Displays, SameData
    <3>8. CreateOK(new)
      BY <2>2, <3>4, <3>6 DEF CreateOK, SameCreate, SameControl
    <3>9. OneSeat(new, s, s.typed.create)
      <4>1. f.createBuf = s.typed.create
        BY <2>2, <3>2 DEF CreateOK
      <4> QED
        BY <2>2, <3>4, <3>6, <4>1 DEF OneSeat, SameData
    <3> QED
      BY <1>2, <2>2, <3>1, <3>4, <3>6, <3>7, <3>8, <3>9
         DEF Wrote, SameData, SameControl, SameCreate
  <2> QED
    BY <2>4, <2>5
<1> QED
  BY <1>1, <1>2

\* Update: the fields have the seat's own text, or the seat is outside the cabin, so
\* that clearing and booking it again changes neither the map nor a table.
LEMMA UpdateStep ==
    ASSUME NEW s, StateOK(s), s.activeFlight # NoFlight, Displays(s), CanManage(s), Filled(s),
           NEW new, new = Update(s)
    PROVE  /\ StateOK(new) /\ Displays(new) /\ new.store = s.store
           /\ new.activeFlight = s.activeFlight /\ new.selected = s.selected
           /\ new.pressed = s.pressed /\ SameCreate(new, s)
<1>1. PICK a, nr, nc, r, c, sm, d :
        /\ a = s.activeFlight /\ nr = Rows[a] /\ nc = Cols[a]
        /\ r = s.selected[1] /\ c = s.selected[2] /\ sm = s.seatMap /\ d = s.updateBuf
  OBVIOUS
<1>2. /\ a \in Flights /\ nr \in Nat /\ nc \in Nat /\ r \in Nat /\ c \in Nat
      /\ d \in Details /\ s.selected = <<r, c>>
      /\ CabinRows(s) = nr /\ CabinCols(s) = nc /\ sm \in SeatMaps(nr, nc)
  BY <1>1, ListedAssumption DEF StateOK, CabinRows, CabinCols
<1>3. ~IsSeatAvailable(sm, r, c)
  BY <1>1 DEF CanManage
<1>4. PICK m : m = BookSeat(CancelBooking(sm, r, c), r, c, d)
  OBVIOUS
<1>5. m \in SeatMaps(nr, nc) /\ SameSeats(m, sm, nr, nc)
  <2>1. CASE Taken(sm) # {}
    <3>1. d = GetDetails(sm, r, c)
      BY <1>1, <2>1 DEF Filled
    <3> QED
      BY <1>2, <1>3, <1>4, <3>1, RebookedSeat
  <2>2. CASE Taken(sm) = {}
    <3>1. ~IsSeat(sm, r, c)
      <4> SUFFICES ASSUME IsSeat(sm, r, c) PROVE FALSE
        OBVIOUS
      <4>1. <<r, c>> \in (0 .. sm.m_Rows - 1) \X (0 .. sm.m_Cols - 1)
        BY <1>2 DEF IsSeat, SeatMaps
      <4>2. ~sm.m_SeatMap[r][c]
        BY <1>3 DEF IsSeatAvailable
      <4> QED
        BY <2>2, <4>1, <4>2 DEF Taken
    <3>2. CancelBooking(sm, r, c) = sm
      BY <3>1 DEF CancelBooking
    <3>3. m = sm
      BY <1>4, <3>1, <3>2 DEF BookSeat, IsSeatAvailable
    <3> QED
      BY <1>2, <3>3 DEF SameSeats
  <2> QED
    BY <2>1, <2>2
<1>6. PICK mid : mid = [s EXCEPT !.typed.update = NoText]
  OBVIOUS
<1>7. /\ StateOK(mid) /\ SameData(mid, s) /\ SameCreate(mid, s)
      /\ mid.selected = s.selected /\ mid.pressed = s.pressed
  <2>1. PICK t : t = [s.typed EXCEPT !.update = NoText]
    OBVIOUS
  <2>2. /\ t \in [create : Details, update : Details \cup {NoText}]
        /\ t.create = s.typed.create
    BY <2>1 DEF StateOK
  <2>3. mid = [s EXCEPT !.typed = t]
    BY <1>6, <2>1 DEF StateOK, Shape
  <2>4. /\ Shape(mid) /\ SameData(mid, s) /\ SameCreate(mid, s) /\ mid.typed = t
        /\ mid.selected = s.selected /\ mid.updateBuf = s.updateBuf
        /\ mid.flightId = s.flightId /\ mid.held = s.held /\ mid.initial = s.initial
        /\ mid.pressed = s.pressed
    BY <2>2, <2>3 DEF StateOK, Shape, SameData, SameCreate
  <2> QED
    BY <2>2, <2>4 DEF StateOK, SameData, SameCreate, CabinRows, CabinCols
<1>8. new = Save([mid EXCEPT !.seatMap = m])
  <2>1. [s EXCEPT !.seatMap = BookSeat(CancelBooking(@, r, c), r, c, s.updateBuf),
                  !.typed.update = NoText]
          = [mid EXCEPT !.seatMap = m]
    BY <1>1, <1>4, <1>6 DEF StateOK, Shape
  <2> QED
    BY <1>1, <2>1 DEF Update
<1>9. PICK old, t : old = s.store[a] /\ t = new.store[a]
  OBVIOUS
<1>10. /\ mid.activeFlight = a /\ mid.activeFlight # NoFlight /\ mid.store = s.store
       /\ m \in SeatMaps(CabinRows(mid), CabinCols(mid))
  BY <1>1, <1>2, <1>5, <1>7 DEF SameData, CabinRows, CabinCols
<1>11. /\ StateOK(new) /\ SameControl(new, mid) /\ new.typed = mid.typed
       /\ new.seatMap = m
       /\ \A f \in Flights : f # a => new.store[f] = s.store[f]
       /\ SavedTable(t, old, m, nr, nc)
  BY <1>1, <1>7, <1>8, <1>9, <1>10, EditAndSave
<1>12. Shows(sm, old, nr, nc)
  BY <1>1, <1>9 DEF Displays
<1>13. /\ Shows(m, t, nr, nc)
       /\ \A i \in 0 .. nr - 1, j \in 0 .. nc - 1 : t[<<i, j>>] = old[<<i, j>>]
  BY <1>5, <1>11, <1>12, SavedAgain
<1>14. Displays(new)
  BY <1>1, <1>7, <1>9, <1>11, <1>13 DEF Displays, SameControl, SameData
<1>15. t = old
  <2>1. t \in [Seats(a) -> Bookings] /\ old \in [Seats(a) -> Bookings]
    BY <1>2, <1>9, <1>11 DEF StateOK, TablesOK
  <2>2. \A p \in Seats(a) : t[p] = old[p]
    BY <1>1, <1>13 DEF Seats
  <2> QED
    BY <2>1, <2>2
<1>16. new.store = s.store
  <2>1. TablesOK(new.store) /\ TablesOK(s.store)
    BY <1>11 DEF StateOK
  <2>2. \A f \in Flights : new.store[f] = s.store[f]
    BY <1>9, <1>11, <1>15
  <2> QED
    BY <2>1, <2>2 DEF TablesOK
<1> QED
  BY <1>7, <1>11, <1>14, <1>16 DEF SameControl, SameCreate, SameData

\* Delete: the selected seat has no booking any more, on display and in the table.
LEMMA DeleteStep ==
    ASSUME NEW s, StateOK(s), s.activeFlight # NoFlight, Displays(s), NEW new, new = Delete(s)
    PROVE  /\ StateOK(new) /\ Displays(new) /\ OneSeat(new, s, Blank)
           /\ new.activeFlight = s.activeFlight /\ new.selected = s.selected
           /\ new.pressed = s.pressed /\ SameCreate(new, s)
<1>1. PICK a, nr, nc, r, c, sm, old :
        /\ a = s.activeFlight /\ nr = Rows[a] /\ nc = Cols[a] /\ old = s.store[a]
        /\ r = s.selected[1] /\ c = s.selected[2] /\ sm = s.seatMap
  OBVIOUS
<1>2. /\ a \in Flights /\ nr \in Nat /\ nc \in Nat /\ r \in Nat /\ c \in Nat
      /\ s.selected = <<r, c>> /\ old \in [Seats(a) -> Bookings]
      /\ CabinRows(s) = nr /\ CabinCols(s) = nc /\ sm \in SeatMaps(nr, nc)
  BY <1>1, ListedAssumption DEF StateOK, TablesOK, CabinRows, CabinCols
<1>3. PICK m : m = CancelBooking(sm, r, c)
  OBVIOUS
<1>4. m \in SeatMaps(nr, nc)
  BY <1>2, <1>3, CancelBookingType
<1>5. PICK t : t = [p \in Seats(a) |-> IF p = s.selected THEN Blank ELSE old[p]]
  OBVIOUS
<1>6. t \in [Seats(a) -> Bookings]
  BY <1>2, <1>5 DEF Bookings
<1>7. Shows(sm, old, nr, nc)
  BY <1>1 DEF Displays
<1>8. \A i \in 0 .. nr - 1, j \in 0 .. nc - 1 :
         t[<<i, j>>] = IF i = r /\ j = c THEN Blank ELSE old[<<i, j>>]
  BY <1>1, <1>2, <1>5 DEF Seats
<1>9. Shows(m, t, nr, nc)
  <2>1. CASE IsSeat(sm, r, c)
    <3>1. r \in 0 .. nr - 1 /\ c \in 0 .. nc - 1
      BY <1>2, <2>1 DEF IsSeat, SeatMaps
    <3>2. Cleared(m, sm, nr, nc, r, c)
      BY <1>2, <1>3, <3>1, CancelledSeat
    <3>3. Stored(Blank) = Blank
      BY DEF Stored
    <3>4. ASSUME NEW i \in 0 .. nr - 1, NEW j \in 0 .. nc - 1
          PROVE  /\ t[<<i, j>>] = Stored(m.m_Details[i][j])
                 /\ m.m_SeatMap[i][j] => m.m_Details[i][j] = Blank
      <4>1. CASE i = r /\ j = c
        BY <1>8, <3>2, <3>3, <4>1 DEF Cleared
      <4>2. CASE ~(i = r /\ j = c)
        BY <1>7, <1>8, <3>2, <4>2 DEF Cleared, Shows
      <4> QED
        BY <4>1, <4>2
    <3> QED
      BY <3>4 DEF Shows
  <2>2. CASE ~IsSeat(sm, r, c)
    <3>1. m = sm
      BY <1>3, <2>2 DEF CancelBooking
    <3>2. ~(r \in 0 .. nr - 1 /\ c \in 0 .. nc - 1)
      BY <1>2, <2>2 DEF IsSeat, SeatMaps
    <3> QED
      BY <1>7, <1>8, <3>1, <3>2 DEF Shows
  <2> QED
    BY <2>1, <2>2
<1>10. PICK st, ty : /\ st = [s.store EXCEPT ![a] = t]
                     /\ ty = [s.typed EXCEPT !.update = NoText]
  OBVIOUS
<1>11. /\ TablesOK(st) /\ st[a] = t /\ \A f \in Flights : f # a => st[f] = s.store[f]
  BY <1>2, <1>6, <1>10 DEF StateOK, TablesOK
<1>12. /\ ty \in [create : Details, update : Details \cup {NoText}]
       /\ ty.create = s.typed.create
  BY <1>10 DEF StateOK
<1>13. new = [s EXCEPT !.seatMap = m, !.typed = ty, !.store = st]
  <2>1. new = [s EXCEPT !.seatMap = m, !.typed.update = NoText,
                        !.store[a] = [p \in DOMAIN @ |->
                                        IF p = s.selected THEN Blank ELSE @[p]]]
    BY <1>1, <1>3 DEF Delete
  <2>2. [p \in DOMAIN old |-> IF p = s.selected THEN Blank ELSE old[p]] = t
    BY <1>2, <1>5
  <2> QED
    BY <1>1, <1>10, <2>1, <2>2 DEF StateOK, Shape
<1>14. /\ Shape(new) /\ new.seatMap = m /\ new.store = st /\ new.typed = ty
       /\ new.activeFlight = a /\ new.selected = s.selected /\ new.flightId = s.flightId
       /\ new.updateBuf = s.updateBuf /\ new.createBuf = s.createBuf
       /\ new.active = s.active /\ new.held = s.held /\ new.edit = s.edit
       /\ new.initial = s.initial /\ new.pressed = s.pressed
  BY <1>1, <1>13 DEF StateOK, Shape
<1>15. StateOK(new)
  BY <1>1, <1>2, <1>4, <1>11, <1>12, <1>14 DEF StateOK, CabinRows, CabinCols
<1>16. Displays(new)
  BY <1>1, <1>9, <1>11, <1>14 DEF Displays
<1>17. OneSeat(new, s, Blank)
  <2> SUFFICES ASSUME NEW f \in Flights, NEW p \in Seats(f), new.store[f][p] # s.store[f][p]
               PROVE  f = a /\ p = s.selected /\ new.store[f][p] = Blank
    BY <1>1 DEF OneSeat
  <2>1. f = a
    BY <1>11, <1>14
  <2> QED
    BY <1>1, <1>5, <1>11, <1>14, <2>1
<1> QED
  BY <1>1, <1>12, <1>14, <1>15, <1>16, <1>17 DEF SameCreate

\* Manage Bookings: Update writes nothing to the tables, Delete frees the seat.
LEMMA ManageStep ==
    ASSUME NEW s, StateOK(s), Displays(s), CreateOK(s), NEW e, e.text \in Details,
           e.kind = "nav" => s.active # UpdateField,
           e.on = Button("Update") /\ s.activeFlight # NoFlight => Filled(s),
           NEW new, new = ManageBookings(s, e)
    PROVE  /\ StateOK(new) /\ Displays(new) /\ CreateOK(new)
           /\ new.activeFlight = s.activeFlight /\ new.selected = s.selected
           /\ new.active = s.active \/ (e.on = UpdateField /\ new.active = UpdateField)
           /\ s.pressed \subseteq new.pressed
           /\ e.on # Button("Delete") => new.store = s.store
           /\ Wrote(new, s, Button("Delete"), Blank)
<1>1. CASE ~CanManage(s)
  <2>1. new = s
    BY <1>1 DEF ManageBookings
  <2> QED
    BY <2>1 DEF Wrote
<1>2. CASE CanManage(s)
  <2>1. PICK f : f = UpdateFields(s, e)
    OBVIOUS
  <2>2. /\ StateOK(f) /\ SameData(f, s) /\ f.selected = s.selected /\ f.pressed = s.pressed
        /\ f.active = IF IsActivated(s, e, UpdateField) THEN UpdateField ELSE s.active
        /\ s.active # UpdateField => f.updateBuf = s.updateBuf
        /\ CreateOK(f)
    BY <2>1, UpdateFieldsStep
  <2>3. Displays(f) /\ s.activeFlight # NoFlight /\ f.activeFlight # NoFlight /\ CanManage(f)
    BY <1>2, <2>2 DEF SameData, Displays, CanManage
  <2>4. f.active = s.active \/ (e.on = UpdateField /\ f.active = UpdateField)
    BY <2>2 DEF IsActivated
  <2>5. CASE IsPressed(f, e, Button("Update"))
    <3>1. PressedBy(f, e, Button("Update")) /\ e.on = Button("Update")
      BY <2>5, PressedButton DEF PressedBy
    <3>2. s.active # UpdateField
      BY <2>2, <3>1, WidgetsDiffer DEF PressedBy, IsActivated
    <3>3. Filled(f)
      BY <2>2, <2>3, <3>1, <3>2 DEF Filled, SameData
    <3>4. PICK b : b = Update(f)
      OBVIOUS
    <3>5. /\ StateOK(b) /\ Displays(b) /\ b.store = f.store
          /\ b.activeFlight = f.activeFlight /\ b.selected = f.selected
          /\ b.pressed = f.pressed /\ SameCreate(b, f)
      BY <2>2, <2>3, <3>3, <3>4, UpdateStep
    <3>6. new = Press(b, Button("Update"))
      BY <1>2, <2>1, <2>5, <3>4 DEF ManageBookings
    <3>7. /\ StateOK(new) /\ SameData(new, b) /\ SameCreate(new, b)
          /\ new.selected = b.selected /\ new.pressed = b.pressed \cup {Button("Update")}
      BY <3>5, <3>6, PressStep
    <3>8. Displays(new) /\ CreateOK(new)
      BY <2>2, <3>5, <3>7 DEF Displays, CreateOK, SameData, SameCreate
    <3>9. s.pressed \subseteq new.pressed
      BY <2>2, <3>5, <3>7
    <3> QED
      BY <2>2, <2>4, <3>5, <3>7, <3>8, <3>9 DEF SameData, SameCreate, Wrote
  <2>6. CASE ~IsPressed(f, e, Button("Update")) /\ IsPressed(f, e, Button("Delete"))
    <3>1. PICK b : b = Delete(f)
      OBVIOUS
    <3>2. /\ StateOK(b) /\ Displays(b) /\ OneSeat(b, f, Blank)
          /\ b.activeFlight = f.activeFlight /\ b.selected = f.selected
          /\ b.pressed = f.pressed /\ SameCreate(b, f)
      BY <2>2, <2>3, <3>1, DeleteStep
    <3>3. new = Press(b, Button("Delete"))
      BY <1>2, <2>1, <2>6, <3>1 DEF ManageBookings
    <3>4. /\ StateOK(new) /\ SameData(new, b) /\ SameCreate(new, b)
          /\ new.selected = b.selected /\ new.pressed = b.pressed \cup {Button("Delete")}
      BY <3>2, <3>3, PressStep
    <3>5. Displays(new) /\ CreateOK(new)
      BY <2>2, <3>2, <3>4 DEF Displays, CreateOK, SameData, SameCreate
    <3>6. s.pressed \subseteq new.pressed /\ Button("Delete") \in new.pressed
      BY <2>2, <3>2, <3>4
    <3>7. OneSeat(new, s, Blank)
      BY <2>2, <3>2, <3>4 DEF OneSeat, SameData
    <3>8. e.on = Button("Delete")
      BY <2>6, PressedButton DEF PressedBy
    <3> QED
      BY <2>2, <2>4, <3>2, <3>4, <3>5, <3>6, <3>7, <3>8 DEF SameData, SameCreate, Wrote
  <2>7. CASE ~IsPressed(f, e, Button("Update")) /\ ~IsPressed(f, e, Button("Delete"))
    <3>1. new = f
      BY <1>2, <2>1, <2>7 DEF ManageBookings
    <3> QED
      BY <2>2, <2>3, <2>4, <3>1 DEF SameData, Wrote
  <2> QED
    BY <2>5, <2>6, <2>7
<1> QED
  BY <1>1, <1>2

-----------------------------------------------------------------------------
(* Selecting a flight.                                                       *)

\* The rows of a table are valid: one for each seat that is booked, in the cabin.
LEMMA RowsOfTable ==
    ASSUME NEW s, TablesOK(s.store), NEW f \in Flights, NEW rows, rows = RowsOf(s, f)
    PROVE  /\ rows \in SUBSET Records(Details) /\ UniqueSeats(rows)
           /\ WithinCabin(rows, Rows[f], Cols[f])
           /\ \A i \in 0 .. Rows[f] - 1, j \in 0 .. Cols[f] - 1 :
                 IF s.store[f][<<i, j>>] = Blank THEN At(rows, i, j) = {}
                 ELSE \E b \in At(rows, i, j) : b.details = s.store[f][<<i, j>>]
<1>1. PICK t : t = s.store[f]
  OBVIOUS
<1>2. t \in [Seats(f) -> Bookings] /\ Rows[f] \in Nat /\ Cols[f] \in Nat
  BY <1>1, ListedAssumption DEF TablesOK
<1>3. Bookings \subseteq Details
  BY DetailsAssumption DEF Bookings
<1>4. \A b \in rows : \E p \in Seats(f) :
         /\ t[p] # Blank
         /\ b = [rowid |-> 0, row |-> p[1], col |-> p[2], details |-> t[p]]
  BY <1>1 DEF RowsOf
<1>5. \A p \in Seats(f) : t[p] # Blank =>
         [rowid |-> 0, row |-> p[1], col |-> p[2], details |-> t[p]] \in rows
  BY <1>1 DEF RowsOf
<1>6. ASSUME NEW b \in rows
      PROVE  /\ b \in Records(Details)
             /\ b.row \in 0 .. Rows[f] - 1 /\ b.col \in 0 .. Cols[f] - 1
             /\ t[<<b.row, b.col>>] # Blank
             /\ b = [rowid |-> 0, row |-> b.row, col |-> b.col,
                     details |-> t[<<b.row, b.col>>]]
  <2>1. PICK p \in Seats(f) :
          /\ t[p] # Blank
          /\ b = [rowid |-> 0, row |-> p[1], col |-> p[2], details |-> t[p]]
    BY <1>4
  <2>2. /\ p[1] \in 0 .. Rows[f] - 1 /\ p[2] \in 0 .. Cols[f] - 1 /\ p = <<p[1], p[2]>>
        /\ t[p] \in Details
    BY <1>2, <1>3 DEF Seats
  <2> QED
    BY <1>2, <2>1, <2>2 DEF Records
<1>7. UniqueSeats(rows) /\ WithinCabin(rows, Rows[f], Cols[f])
  BY <1>6 DEF UniqueSeats, WithinCabin
<1>8. ASSUME NEW i \in 0 .. Rows[f] - 1, NEW j \in 0 .. Cols[f] - 1
      PROVE  IF t[<<i, j>>] = Blank THEN At(rows, i, j) = {}
             ELSE \E b \in At(rows, i, j) : b.details = t[<<i, j>>]
  <2>1. CASE t[<<i, j>>] = Blank
    BY <1>6, <2>1 DEF At
  <2>2. CASE t[<<i, j>>] # Blank
    <3>1. <<i, j>> \in Seats(f) /\ <<i, j>>[1] = i /\ <<i, j>>[2] = j
      BY DEF Seats
    <3>2. [rowid |-> 0, row |-> i, col |-> j, details |-> t[<<i, j>>]] \in rows
      BY <1>5, <2>2, <3>1
    <3> QED
      BY <2>2, <3>2 DEF At
  <2> QED
    BY <2>1, <2>2
<1> QED
  BY <1>1, <1>6, <1>7, <1>8

\* A map has the bookings of a table, seat by seat.
Loaded(m, t, nr, nc) ==
    \A i \in 0 .. nr - 1, j \in 0 .. nc - 1 :
        /\ m.m_Details[i][j] = t[<<i, j>>]
        /\ m.m_SeatMap[i][j] => t[<<i, j>>] = Blank

\* A flight that is loaded into a new map shows what its table says.
LEMMA LoadStep ==
    ASSUME NEW s, TablesOK(s.store), NEW f \in Flights, NEW m,
           m = LoadFromFlightInformation(Construct(Rows[f], Cols[f]), Rows[f], Cols[f],
                                         RowsOf(s, f))
    PROVE  /\ m \in SeatMaps(Rows[f], Cols[f])
           /\ Loaded(m, s.store[f], Rows[f], Cols[f])
           /\ Shows(m, s.store[f], Rows[f], Cols[f])
<1>1. PICK nr, nc, rows, t : /\ nr = Rows[f] /\ nc = Cols[f] /\ rows = RowsOf(s, f)
                             /\ t = s.store[f]
  OBVIOUS
<1>2. nr \in Nat /\ nc \in Nat /\ t \in [Seats(f) -> Bookings]
  BY <1>1, ListedAssumption DEF TablesOK
<1>3. /\ rows \in SUBSET Records(Details) /\ UniqueSeats(rows)
      /\ WithinCabin(rows, nr, nc)
      /\ \A i \in 0 .. nr - 1, j \in 0 .. nc - 1 :
            IF t[<<i, j>>] = Blank THEN At(rows, i, j) = {}
            ELSE \E b \in At(rows, i, j) : b.details = t[<<i, j>>]
  BY <1>1, RowsOfTable
<1>4. m = LoadFromFlightInformation(Construct(nr, nc), nr, nc, rows)
  BY <1>1
<1>5. m \in SeatMaps(nr, nc)
  BY <1>2, <1>3, <1>4, LoadType
<1>6. ASSUME NEW i \in 0 .. nr - 1, NEW j \in 0 .. nc - 1
      PROVE  /\ m.m_Details[i][j] = t[<<i, j>>]
             /\ m.m_SeatMap[i][j] => t[<<i, j>>] = Blank
  <2>1. SaysOf(m, rows, i, j)
    BY <1>2, <1>4, LoadedSeat
  <2>2. CASE t[<<i, j>>] = Blank
    BY <1>3, <2>1, <2>2 DEF SaysOf
  <2>3. CASE t[<<i, j>>] # Blank
    <3>1. PICK b \in At(rows, i, j) : b.details = t[<<i, j>>]
      BY <1>3, <2>3
    <3>2. LastRow(rows, i, j) = b
      BY <1>3, <3>1, LastRowIsTheRow
    <3> QED
      BY <2>1, <3>1, <3>2 DEF SaysOf
  <2> QED
    BY <2>2, <2>3
<1>7. Loaded(m, t, nr, nc)
  BY <1>6 DEF Loaded
<1>8. Shows(m, t, nr, nc)
  <2>1. \A i \in 0 .. nr - 1, j \in 0 .. nc - 1 : <<i, j>> \in Seats(f)
    BY <1>1 DEF Seats
  <2>2. \A d \in Bookings : Stored(d) = d
    BY DEF Bookings, Stored
  <2> QED
    BY <1>2, <1>7, <2>1, <2>2 DEF Shows, Loaded
<1> QED
  BY <1>1, <1>5, <1>7, <1>8

\* The mouse presses the first Select button only, the keyboard all of them: either
\* way one of the pressed buttons is the last.
LEMMA LastPressed ==
    ASSUME NEW s, NEW e, NEW hit, hit # {},
           hit = {i \in DOMAIN Listed : IsPressed(s, e, SelectButton(Listed[i]))}
    PROVE  (CHOOSE i \in hit : \A j \in hit : j <= i) \in hit
<1>1. DOMAIN Listed = 1 .. Len(Listed) /\ Len(Listed) \in Nat
  BY ListedAssumption
<1>2. \A f : SelectButton(f).name = "Select" /\ SelectButton(f).of = f
  BY DEF SelectButton
<1>3. PICK k \in hit : TRUE
  OBVIOUS
<1>4. CASE e.kind = "up"
  <2>1. \A i \in hit : Listed[i] = Listed[1]
    BY <1>2, <1>4 DEF IsPressed, IsFirst
  <2>2. 1 \in DOMAIN Listed
    BY <1>1, <1>3
  <2>3. \A i \in hit : i = 1
    BY <2>1, <2>2, ListedAssumption
  <2>4. 1 \in hit /\ \A j \in hit : j <= 1
    BY <1>3, <2>3
  <2> QED
    BY <2>4
<1>5. CASE e.kind # "up"
  <2>1. e.kind = "nav" /\ Id(s, e.on) = SelectButton(s.flightId)
    BY <1>2, <1>3, <1>5 DEF IsPressed, Id
  <2>2. \A i \in DOMAIN Listed : IsPressed(s, e, SelectButton(Listed[i]))
    BY <1>2, <2>1 DEF IsPressed, Id
  <2>3. hit = 1 .. Len(Listed)
    BY <1>1, <2>2
  <2>4. Len(Listed) \in hit /\ \A j \in hit : j <= Len(Listed)
    BY <1>1, <1>3, <2>3
  <2> QED
    BY <2>4
<1> QED
  BY <1>4, <1>5

\* Selecting changes no table; the flight it changes to has its button pressed and
\* is loaded from its own table.
LEMMA SelectStep ==
    ASSUME NEW s, StateOK(s), Displays(s), NEW e, NEW new, new = SelectFlight(s, e)
    PROVE  /\ StateOK(new) /\ Displays(new) /\ new.store = s.store /\ SameCreate(new, s)
           /\ s.pressed \subseteq new.pressed
           /\ new.activeFlight # s.activeFlight =>
                 /\ new.activeFlight \in Flights
                 /\ SelectButton(new.activeFlight) \in new.pressed
                 /\ Loaded(new.seatMap, new.store[new.activeFlight],
                           Rows[new.activeFlight], Cols[new.activeFlight])
<1>1. PICK hit : hit = {i \in DOMAIN Listed : IsPressed(s, e, SelectButton(Listed[i]))}
  OBVIOUS
<1>2. CASE hit = {}
  <2>1. new = s
    BY <1>1, <1>2 DEF SelectFlight
  <2> QED
    BY <2>1 DEF SameCreate
<1>3. CASE hit # {}
  <2>1. PICK k : k = CHOOSE i \in hit : \A j \in hit : j <= i
    OBVIOUS
  <2>2. k \in hit
    BY <1>1, <1>3, <2>1, LastPressed
  <2>3. PICK f : f = Listed[k]
    OBVIOUS
  <2>4. f \in Flights /\ f # NoFlight
    BY <1>1, <2>2, <2>3, ListedAssumption DEF Flights
  <2>5. PICK m : m = LoadFromFlightInformation(Construct(Rows[f], Cols[f]),
                                               Rows[f], Cols[f], RowsOf(s, f))
    OBVIOUS
  <2>6. /\ m \in SeatMaps(Rows[f], Cols[f])
        /\ Loaded(m, s.store[f], Rows[f], Cols[f])
        /\ Shows(m, s.store[f], Rows[f], Cols[f])
    BY <2>4, <2>5, LoadStep DEF StateOK
  <2>7. PICK t, buttons : /\ t = [s.typed EXCEPT !.update = NoText]
                          /\ buttons = {SelectButton(Listed[i]) : i \in hit}
    OBVIOUS
  <2>8. /\ t \in [create : Details, update : Details \cup {NoText}]
        /\ t.create = s.typed.create /\ SelectButton(f) \in buttons
    BY <2>2, <2>3, <2>7 DEF StateOK
  <2>9. new = [s EXCEPT !.activeFlight = f, !.seatMap = m, !.typed = t,
                        !.pressed = @ \cup buttons]
    <3>1. PICK load : load = LoadFlight(s, f)
      OBVIOUS
    <3>2. load = [s EXCEPT !.activeFlight = f, !.seatMap = m, !.typed = t]
      BY <2>5, <2>7, <3>1 DEF LoadFlight, StateOK, Shape
    <3>3. new = [load EXCEPT !.pressed = @ \cup buttons]
      BY <1>1, <1>3, <2>1, <2>3, <2>7, <3>1 DEF SelectFlight
    <3> QED
      BY <3>2, <3>3 DEF StateOK, Shape
  <2>10. /\ Shape(new) /\ new.activeFlight = f /\ new.seatMap = m /\ new.store = s.store
         /\ new.typed = t /\ new.pressed = s.pressed \cup buttons
         /\ new.selected = s.selected /\ new.flightId = s.flightId
         /\ new.updateBuf = s.updateBuf /\ new.createBuf = s.createBuf
         /\ new.active = s.active /\ new.held = s.held /\ new.edit = s.edit
         /\ new.initial = s.initial
    BY <2>9 DEF StateOK, Shape
  <2>11. StateOK(new)
    BY <2>4, <2>6, <2>8, <2>10 DEF StateOK, CabinRows, CabinCols
  <2>12. Displays(new)
    BY <2>6, <2>10 DEF Displays
  <2> QED
    BY <2>4, <2>6, <2>8, <2>10, <2>11, <2>12 DEF SameCreate
<1> QED
  BY <1>2, <1>3

-----------------------------------------------------------------------------
(* The frame.                                                                *)

\* The event activates the fields of Create Bookings.
OnCreateField(e) == e.kind \in {"down", "nav"} /\ e.on = CreateField

\* ImGui's own state changes between frames; a field of Create Bookings becomes
\* active only by an event on it.
LEMMA ActivateStep ==
    ASSUME NEW s, StateOK(s), NEW e, NEW new, new = Activate(s, e)
    PROVE  /\ StateOK(new) /\ SameData(new, s) /\ new.pressed = s.pressed
           /\ new.createBuf = s.createBuf /\ new.edit = s.edit
           /\ new.typed = s.typed
           /\ new.active = CreateField => s.active = CreateField \/ OnCreateField(e)
<1>1. PICK h, act :
        /\ h = ((e.kind = "down") \/ (s.held /\ e.kind # "up"))
        /\ act = CASE e.kind = "down" /\ e.on # NoWidget -> Id(s, e.on)
                   [] e.kind = "nav" /\ e.on \in Fields -> e.on
                   [] e.kind \in {"none", "type"} \/ (e.kind = "up" /\ s.active \in Fields)
                        -> s.active
                   [] OTHER -> NoWidget
  OBVIOUS
<1>2. h \in BOOLEAN
  BY <1>1
<1>3. Id(s, e.on) = CreateField => e.on = CreateField
  BY DEF Id, SelectButton, CreateField, Button
<1>4. act = CreateField => s.active = CreateField \/ OnCreateField(e)
  BY <1>1, <1>3, WidgetsDiffer DEF OnCreateField
<1>5. new = [s EXCEPT !.held = h, !.active = act]
  BY <1>1 DEF Activate, StateOK, Shape
<1>6. /\ Shape(new) /\ SameData(new, s) /\ new.held = h /\ new.active = act
      /\ new.pressed = s.pressed /\ new.selected = s.selected
      /\ new.flightId = s.flightId /\ new.updateBuf = s.updateBuf
      /\ new.createBuf = s.createBuf /\ new.edit = s.edit /\ new.initial = s.initial
      /\ new.typed = s.typed
  BY <1>5 DEF StateOK, Shape, SameData
<1>7. StateOK(new)
  BY <1>2, <1>6 DEF StateOK, SameData, CabinRows, CabinCols
<1> QED
  BY <1>4, <1>6, <1>7

\* What a frame that takes s to new may write: nothing, what was typed in Create
\* Bookings when Book is pressed, or Blank when Delete is, in the selected seat.
Writes(new, s) ==
    \A f \in Flights : \A p \in Seats(f) :
        new.store[f][p] # s.store[f][p] =>
            /\ f = s.activeFlight /\ p = s.selected
            /\ \/ Button("Book") \in new.pressed /\ new.store[f][p] = s.typed.create
               \/ Button("Delete") \in new.pressed /\ new.store[f][p] = Blank

\* The flight a frame changes to has its button pressed and its own table loaded.
Selects(new, s) ==
    new.activeFlight # s.activeFlight =>
        /\ new.activeFlight \in Flights
        /\ SelectButton(new.activeFlight) \in new.pressed
        /\ Loaded(new.seatMap, new.store[new.activeFlight],
                  Rows[new.activeFlight], Cols[new.activeFlight])

\* The panes one after the other: a frame keeps the invariant.
LEMMA FrameStep ==
    ASSUME NEW s, StateOK(s), Displays(s), CreateOK(s), NEW e \in Events(s),
           NEW new, new = GUIMain(s, e)
    PROVE  StateOK(new) /\ Displays(new) /\ CreateOK(new) /\ Writes(new, s) /\ Selects(new, s)
<1>1. PICK s1, s2, s3, s4, s5 :
        /\ s1 = Header(s) /\ s2 = SeatMapGUI(s1, e) /\ s3 = CreateBookings(s2, e)
        /\ s4 = ManageBookings(s3, e) /\ s5 = SelectFlight(s4, e)
  OBVIOUS
<1>2. new = Activate(s5, e)
  BY <1>1 DEF GUIMain
<1>3. /\ e.text \in Details
      /\ e.kind = "nav" => s.active = NoWidget
      /\ e.on = CreateField => s.activeFlight # NoFlight
  BY EventFacts
<1>4. /\ StateOK(s1) /\ SameData(s1, s) /\ SameCreate(s1, s) /\ s1.selected = s.selected
  BY <1>1, HeaderStep
<1>5. /\ StateOK(s2) /\ SameData(s2, s1) /\ SameCreate(s2, s1)
      /\ (\A p : e.on # SeatButton(p)) =>
            /\ s2.selected = s1.selected
            /\ s1.activeFlight # NoFlight => Filled(s2)
  BY <1>1, <1>4, SeatMapStep
<1>6. /\ SameData(s2, s) /\ SameCreate(s2, s) /\ Displays(s2) /\ CreateOK(s2)
  BY <1>4, <1>5 DEF SameData, SameCreate, Displays, CreateOK
<1>7. /\ StateOK(s3) /\ Displays(s3) /\ CreateOK(s3)
      /\ s3.activeFlight = s2.activeFlight /\ s3.selected = s2.selected
      /\ s3.updateBuf = s2.updateBuf
      /\ e.on # Button("Book") => SameData(s3, s2)
      /\ s3.active = IF s2.activeFlight # NoFlight /\ IsActivated(s2, e, CreateField)
                     THEN CreateField ELSE s2.active
      /\ Wrote(s3, s2, Button("Book"), s2.typed.create)
  <2>1. e.kind = "nav" => s2.active = NoWidget
    BY <1>3, <1>6 DEF SameCreate
  <2> QED
    BY <1>1, <1>3, <1>5, <1>6, <2>1, CreateStep
<1>8. e.on = Button("Update") /\ s3.activeFlight # NoFlight => Filled(s3)
  <2> SUFFICES ASSUME e.on = Button("Update"), s3.activeFlight # NoFlight PROVE Filled(s3)
    OBVIOUS
  <2>1. Filled(s2) /\ SameData(s3, s2)
    BY <1>4, <1>5, <1>7, WidgetsDiffer DEF SameData
  <2> QED
    BY <1>7, <2>1 DEF Filled, SameData
<1>9. e.kind = "nav" => s3.active # UpdateField
  BY <1>3, <1>6, <1>7, WidgetsDiffer DEF SameCreate
<1>10. /\ StateOK(s4) /\ Displays(s4) /\ CreateOK(s4)
       /\ s4.activeFlight = s3.activeFlight /\ s4.selected = s3.selected
       /\ s4.active = s3.active \/ (e.on = UpdateField /\ s4.active = UpdateField)
       /\ s3.pressed \subseteq s4.pressed
       /\ e.on # Button("Delete") => s4.store = s3.store
       /\ Wrote(s4, s3, Button("Delete"), Blank)
  BY <1>1, <1>3, <1>7, <1>8, <1>9, ManageStep
<1>11. /\ StateOK(s5) /\ Displays(s5) /\ s5.store = s4.store /\ SameCreate(s5, s4)
       /\ s4.pressed \subseteq s5.pressed
       /\ s5.activeFlight # s4.activeFlight =>
             /\ s5.activeFlight \in Flights
             /\ SelectButton(s5.activeFlight) \in s5.pressed
             /\ Loaded(s5.seatMap, s5.store[s5.activeFlight],
                       Rows[s5.activeFlight], Cols[s5.activeFlight])
  BY <1>1, <1>10, SelectStep
<1>12. /\ StateOK(new) /\ SameData(new, s5) /\ new.pressed = s5.pressed
       /\ new.createBuf = s5.createBuf /\ new.edit = s5.edit /\ new.typed = s5.typed
       /\ new.active = CreateField => s5.active = CreateField \/ OnCreateField(e)
  BY <1>2, <1>11, ActivateStep
<1>13. Displays(new)
  BY <1>11, <1>12 DEF Displays, SameData
<1>14. CreateOK(new)
  <2>1. OnCreateField(e) => s5.active = CreateField
    <3> SUFFICES ASSUME OnCreateField(e) PROVE s5.active = CreateField
      OBVIOUS
    <3>1. s2.activeFlight # NoFlight
      BY <1>3, <1>6 DEF SameData, OnCreateField
    <3>2. s3.active = CreateField
      BY <1>7, <3>1 DEF IsActivated, OnCreateField
    <3> QED
      BY <1>10, <1>11, <3>2, WidgetsDiffer DEF SameCreate, OnCreateField
  <2>2. CreateOK(s5)
    BY <1>10, <1>11 DEF CreateOK, SameCreate
  <2> QED
    BY <1>12, <2>1, <2>2 DEF CreateOK
<1>15. Selects(new, s)
  BY <1>6, <1>7, <1>10, <1>11, <1>12 DEF Selects, SameData
<1>16. Writes(new, s)
  <2>1. new.store = s4.store /\ s4.pressed \subseteq new.pressed
    BY <1>11, <1>12 DEF SameData
  <2>2. s2.store = s.store /\ s2.activeFlight = s.activeFlight
        /\ s2.typed.create = s.typed.create
    BY <1>6 DEF SameData, SameCreate
  <2>3. CASE e.on = Button("Book")
    <3>1. s2.selected = s.selected
      BY <1>4, <1>5, <2>3, WidgetsDiffer
    <3>2. s4.store = s3.store
      BY <1>10, <2>3, WidgetsDiffer
    <3> QED
      BY <1>7, <1>10, <2>1, <2>2, <3>1, <3>2 DEF Writes, Wrote, OneSeat
  <2>4. CASE e.on = Button("Delete")
    <3>1. s3.selected = s.selected
      BY <1>4, <1>5, <1>7, <2>4, WidgetsDiffer
    <3>2. s3.store = s.store /\ s3.activeFlight = s.activeFlight
      BY <1>7, <2>2, <2>4, WidgetsDiffer DEF SameData
    <3> QED
      BY <1>10, <2>1, <3>1, <3>2 DEF Writes, Wrote, OneSeat
  <2>5. CASE e.on # Button("Book") /\ e.on # Button("Delete")
    <3>1. new.store = s.store
      BY <1>7, <1>10, <2>1, <2>2, <2>5 DEF SameData
    <3> QED
      BY <3>1 DEF Writes
  <2> QED
    BY <2>3, <2>4, <2>5
<1> QED
  BY <1>12, <1>13, <1>14, <1>15, <1>16

-----------------------------------------------------------------------------
(* The theorems.                                                             *)

LEMMA InitIInv == Init => IInv
<1> SUFFICES ASSUME Init PROVE IInv
  OBVIOUS
<1>1. /\ Shape(ui) /\ ui.activeFlight = NoFlight /\ ui.seatMap = Construct(0, 0)
      /\ ui.selected = <<0, 0>> /\ ui.flightId = NoFlight
      /\ ui.store = [f \in Flights |-> [p \in Seats(f) |-> Blank]]
      /\ ui.updateBuf = Blank /\ ui.createBuf = Blank /\ ui.edit = Blank
      /\ ui.initial = Blank /\ ui.held = FALSE /\ ui.active = NoWidget
      /\ ui.typed = [create |-> Blank, update |-> NoText]
  BY DEF Init, Shape
<1>2. TablesOK(ui.store)
  BY <1>1 DEF TablesOK, Bookings
<1>3. Construct(0, 0) \in SeatMaps(0, 0)
  BY ConstructType
<1>4. StateOK(ui)
  <2>1. ui.seatMap \in SeatMaps(CabinRows(ui), CabinCols(ui))
    BY <1>1, <1>3 DEF CabinRows, CabinCols
  <2>2. ui.typed \in [create : Details, update : Details \cup {NoText}]
    BY <1>1, DetailsAssumption
  <2>3. ui.selected \in Nat \X Nat
    BY <1>1
  <2>4. ui.held \in BOOLEAN
    BY <1>1
  <2> QED
    BY <1>1, <1>2, <2>1, <2>2, <2>3, <2>4, DetailsAssumption DEF StateOK
<1>5. CreateOK(ui)
  BY <1>1, WidgetsDiffer DEF CreateOK
<1> QED
  BY <1>1, <1>4, <1>5 DEF IInv, Displays

LEMMA StepIInv ==
    ASSUME IInv, Next
    PROVE  IInv' /\ Writes(ui', ui) /\ Selects(ui', ui)
<1>1. PICK e \in Events(ui) : ui' = GUIMain(ui, e)
  BY DEF Next, Frame
<1>2. /\ StateOK(ui') /\ Displays(ui') /\ CreateOK(ui')
      /\ Writes(ui', ui) /\ Selects(ui', ui)
  BY <1>1, FrameStep DEF IInv
<1> QED
  BY <1>2 DEF IInv, StateOK, Displays, CreateOK, Shape, CabinRows, CabinCols

\* The inductive invariant holds in every behaviour.
LEMMA Invariant == Spec => []IInv
<1>1. IInv /\ UNCHANGED ui => IInv'
  BY DEF IInv, StateOK, Displays, CreateOK, Shape, CabinRows, CabinCols
<1>2. IInv /\ [Next]_ui => IInv'
  BY <1>1, StepIInv
<1> QED
  BY InitIInv, <1>2, PTL DEF Spec

\* In every frame the globals, the tables and the buffers have their types; the map
\* on display always has the dimensions of the active flight, although the selected
\* seat may be outside it.
THEOREM TypeCorrect == Spec => []TypeOK
<1>1. IInv => TypeOK
  <2> SUFFICES ASSUME IInv PROVE TypeOK
    OBVIOUS
  <2>1. StateOK(ui)
    BY DEF IInv
  <2>2. Bookings \subseteq Details
    BY DetailsAssumption DEF Bookings
  <2>3. DOMAIN ui.store = Flights /\ \A f \in Flights : ui.store[f] \in [Seats(f) -> Details]
    BY <2>1, <2>2 DEF StateOK, TablesOK
  <2> QED
    BY <2>1, <2>3 DEF StateOK, TypeOK
<1> QED
  BY <1>1, Invariant, PTL

\* A seat of a flight has the details that the getters return, in a map of its cabin.
LEMMA DetailsOfSeat ==
    ASSUME NEW f \in Flights, NEW sm \in SeatMaps(Rows[f], Cols[f]), NEW p \in Seats(f)
    PROVE  /\ p[1] \in 0 .. Rows[f] - 1 /\ p[2] \in 0 .. Cols[f] - 1 /\ p = <<p[1], p[2]>>
           /\ GetDetails(sm, p[1], p[2]) = sm.m_Details[p[1]][p[2]]
<1>1. Rows[f] \in Nat /\ Cols[f] \in Nat
  BY ListedAssumption
<1>2. p[1] \in 0 .. Rows[f] - 1 /\ p[2] \in 0 .. Cols[f] - 1 /\ p = <<p[1], p[2]>>
  BY <1>1 DEF Seats
<1>3. IsSeat(sm, p[1], p[2])
  BY <1>1, <1>2 DEF IsSeat, SeatMaps
<1> QED
  BY <1>2, <1>3 DEF GetDetails

\* The map on display agrees with the table of the active flight after every frame,
\* whatever seats and flights the shared buffers were filled from
\* (Application.cpp:265-448).
THEOREM DisplayStored == Spec => []DisplayIsStored
<1>1. IInv => DisplayIsStored
  <2> SUFFICES ASSUME IInv, ui.activeFlight # NoFlight, NEW p \in Seats(ui.activeFlight)
               PROVE  LET d == GetDetails(ui.seatMap, p[1], p[2])
                      IN  /\ ui.store[ui.activeFlight][p] = Stored(d)
                          /\ ui.seatMap.m_SeatMap[p[1]][p[2]] => d = Blank
    BY DEF DisplayIsStored
  <2>1. PICK a, sm, t, nr, nc :
          /\ a = ui.activeFlight /\ sm = ui.seatMap /\ t = ui.store[a]
          /\ nr = Rows[a] /\ nc = Cols[a]
    OBVIOUS
  <2>2. a \in Flights /\ sm \in SeatMaps(Rows[a], Cols[a]) /\ Shows(sm, t, nr, nc)
    BY <2>1 DEF IInv, StateOK, Displays, CabinRows, CabinCols
  <2>3. /\ p[1] \in 0 .. nr - 1 /\ p[2] \in 0 .. nc - 1 /\ p = <<p[1], p[2]>>
        /\ GetDetails(sm, p[1], p[2]) = sm.m_Details[p[1]][p[2]]
    BY <2>1, <2>2, DetailsOfSeat
  <2>4. t[p] = Stored(sm.m_Details[p[1]][p[2]])
    BY <2>2, <2>3 DEF Shows
  <2>5. sm.m_SeatMap[p[1]][p[2]] => sm.m_Details[p[1]][p[2]] = Blank
    BY <2>2, <2>3 DEF Shows
  <2> QED
    BY <2>1, <2>3, <2>4, <2>5
<1> QED
  BY <1>1, Invariant, PTL

\* The tables change by Book and Delete only, in the selected seat of the flight on
\* display; Update, which books a seat again from shared buffers, never changes one
\* (Application.cpp:275-282, 376-381).
THEOREM BookAndDeleteWrite == Spec => OnlyBookAndDeleteWrite
<1>1. IInv /\ [Next]_ui => [Writes(ui', ui)]_ui
  BY StepIInv
<1>2. Spec => [][Writes(ui', ui)]_ui
  BY <1>1, Invariant, PTL DEF Spec
<1> QED
  BY <1>2 DEF OnlyBookAndDeleteWrite, Writes

\* The flight on display changes only to one whose Select button was pressed, and is
\* then loaded from its own table, although all Select buttons have the same id
\* (Application.cpp:330-341).
THEOREM SelectionPressed == Spec => SelectionIsPressed
<1> DEFINE A == ui'.activeFlight # ui.activeFlight =>
                  /\ SelectButton(ui'.activeFlight) \in ui'.pressed
                  /\ \A p \in Seats(ui'.activeFlight) :
                        GetDetails(ui'.seatMap, p[1], p[2])
                          = ui'.store[ui'.activeFlight][p]
<1>1. ASSUME IInv, Next PROVE A
  <2> SUFFICES ASSUME ui'.activeFlight # ui.activeFlight, NEW p \in Seats(ui'.activeFlight)
               PROVE  /\ SelectButton(ui'.activeFlight) \in ui'.pressed
                      /\ GetDetails(ui'.seatMap, p[1], p[2]) = ui'.store[ui'.activeFlight][p]
    BY <1>1, StepIInv DEF Selects
  <2>1. PICK a, sm, t, nr, nc :
          /\ a = ui'.activeFlight /\ sm = ui'.seatMap /\ t = ui'.store[a]
          /\ nr = Rows[a] /\ nc = Cols[a]
    OBVIOUS
  <2>2. /\ a \in Flights /\ Loaded(sm, t, nr, nc) /\ SelectButton(a) \in ui'.pressed
    BY <1>1, <2>1, StepIInv DEF Selects
  <2>3. sm \in SeatMaps(Rows[a], Cols[a])
    BY <1>1, <2>1, <2>2, StepIInv, ListedAssumption DEF IInv, StateOK, CabinRows, CabinCols
  <2>4. /\ p[1] \in 0 .. nr - 1 /\ p[2] \in 0 .. nc - 1 /\ p = <<p[1], p[2]>>
        /\ GetDetails(sm, p[1], p[2]) = sm.m_Details[p[1]][p[2]]
    BY <2>1, <2>2, <2>3, DetailsOfSeat
  <2>5. sm.m_Details[p[1]][p[2]] = t[p]
    BY <2>2, <2>4 DEF Loaded
  <2> QED
    BY <2>1, <2>2, <2>4, <2>5
<1> HIDE DEF A
<1>2. IInv /\ [Next]_ui => [A]_ui
  BY <1>1
<1>3. Spec => [][A]_ui
  BY <1>2, Invariant, PTL DEF Spec
<1> QED
  BY <1>3 DEF SelectionIsPressed, A

\* The tables as BookingStore sees them: a total function, also outside the cabins.
LEMMA ContentsType ==
    ASSUME IInv
    PROVE  /\ Contents \in [Flights -> [Places -> Bookings]]
           /\ \A f \in Flights : \A p \in Places :
                 Contents[f][p] = IF p \in Seats(f) THEN ui.store[f][p] ELSE Blank
<1>1. \A f \in Flights : ui.store[f] \in [Seats(f) -> Bookings]
  BY DEF IInv, StateOK, TablesOK
<1>2. \A f \in Flights : \A p \in Places :
         (IF p \in Seats(f) THEN ui.store[f][p] ELSE Blank) \in Bookings
  BY <1>1 DEF Bookings
<1> QED
  BY <1>2 DEF Contents

\* A frame puts one booking, removes one, or leaves the tables alone, as the
\* BookingStore that the other modules implement: the panes and the transactions
\* agree on what a table is (Application.cpp:380, 389, 432).
THEOREM PanesImplementStore == Spec => StoreSpec
<1>1. Init => Store!Init
  <2> SUFFICES ASSUME Init PROVE Contents = [f \in Flights |-> [p \in Places |-> Blank]]
    BY DEF Store!Init
  <2>1. \A f \in Flights : \A p \in Seats(f) : ui.store[f][p] = Blank
    BY DEF Init
  <2> QED
    BY <2>1 DEF Contents
<1>2. ASSUME IInv, Next PROVE Store!Next \/ Contents' = Contents
  <2>1. IInv' /\ Writes(ui', ui)
    BY <1>2, StepIInv
  <2>2. PICK C : C = Contents
    OBVIOUS
  <2>3. PICK D : D = Contents'
    OBVIOUS
  <2>4. /\ C \in [Flights -> [Places -> Bookings]]
        /\ \A f \in Flights : \A p \in Places :
              C[f][p] = IF p \in Seats(f) THEN ui.store[f][p] ELSE Blank
    BY <1>2, <2>2, ContentsType
  <2>5. /\ D \in [Flights -> [Places -> Bookings]]
        /\ \A f \in Flights : \A p \in Places :
              D[f][p] = IF p \in Seats(f) THEN ui'.store[f][p] ELSE Blank
    <3>1. (/\ Contents \in [Flights -> [Places -> Bookings]]
           /\ \A f \in Flights : \A p \in Places :
                 Contents[f][p] = IF p \in Seats(f) THEN ui.store[f][p] ELSE Blank)'
      BY <2>1, ContentsType, PTL
    <3> QED
      BY <2>3, <3>1
  <2>6. CASE C = D
    BY <2>2, <2>3, <2>6
  <2>7. CASE C # D
    <3>1. PICK f \in Flights, p \in Places : C[f][p] # D[f][p]
      BY <2>4, <2>5, <2>7
    <3>2. \A g \in Flights, q \in Places : C[g][q] # D[g][q] => g = f /\ q = p
      BY <2>1, <2>4, <2>5, <3>1 DEF Writes
    <3>3. PICK d : d = D[f][p]
      OBVIOUS
    <3>4. d \in Bookings
      BY <2>5, <3>3
    <3>5. D = [C EXCEPT ![f][p] = d]
      BY <2>4, <2>5, <3>2, <3>3
    <3>6. CASE d \in Details \ Unnamed
      <4>1. Store!Put(f, p, d)
        BY <2>2, <2>3, <3>5 DEF Store!Put
      <4> QED
        BY <3>6, <4>1 DEF Store!Next
    <3>7. CASE d = Blank
      <4>1. Store!Remove(f, p)
        BY <2>2, <2>3, <3>5, <3>7 DEF Store!Remove
      <4> QED
        BY <4>1 DEF Store!Next
    <3> QED
      BY <3>4, <3>6, <3>7 DEF Bookings
  <2> QED
    BY <2>6, <2>7
<1>3. UNCHANGED ui => Contents' = Contents
  BY DEF Contents
<1>4. IInv /\ [Next]_ui => [Store!Next]_Contents
  BY <1>2, <1>3
<1> QED
  BY <1>1, <1>4, Invariant, PTL DEF Spec, StoreSpec, Store!Spec
=============================================================================
