-------------------------- MODULE CoherenceProofs --------------------------
(***************************************************************************)
(* What the maps on display, the tables and the log say of each other, for *)
(* any number of instances and failures.                                   *)
(***************************************************************************)
EXTENDS ReservationProofs

\* What a table holds for a seat, given what the map sm says of it: what it should
\* hold, if no save has yet to write the seat and nothing has gone wrong there; at
\* most that, if a save has yet to write it.  A free seat has no passenger.
SeatCoherent(sm, held, s, pending, drifted) ==
    LET free == sm.m_SeatMap[s[1]][s[2]]
        d == sm.m_Details[s[1]][s[2]]
    IN  /\ free => d = Blank
        /\ ~drifted /\ ~pending => held = IF free \/ d \in Unnamed THEN {} ELSE {d}
        /\ ~drifted /\ pending => held \subseteq {d}

Coherent(q) ==
    activeFlight[q] # NoFlight =>
        \A s \in Seats(activeFlight[q]) :
            SeatCoherent(seatMap[q],
                         DetailsAt(bookings[BookingTable(activeFlight[q])], s[1], s[2]),
                         s, s \in todo[q], s \in stale[q])

\* The selected seat is one of the flight on display, and taken.
TakenSeat(q) ==
    /\ activeFlight[q] # NoFlight
    /\ selected[q] \in Seats(activeFlight[q])
    /\ ~IsSeatAvailable(seatMap[q], SelRow(q), SelCol(q))

\* What the last message says of the map.
LogOfMap(q) ==
    /\ status[q] \in {"closed", "terminated"} => log[q] = ""
    /\ status[q] = "creating" => TakenSeat(q)
    /\ status[q] = "idle" =>
        /\ log[q] = "Booking Created!" => TakenSeat(q)
        /\ log[q] = "Booking Deleted!" =>
              /\ activeFlight[q] # NoFlight
              /\ selected[q] \in Seats(activeFlight[q]) =>
                    IsSeatAvailable(seatMap[q], SelRow(q), SelCol(q))
        /\ log[q] = "Error Booking!" =>
              /\ activeFlight[q] # NoFlight
              /\ ~IsSeatAvailable(seatMap[q], SelRow(q), SelCol(q))

\* The inductive invariant.
CInv == IInv /\ \A q \in Procs : Coherent(q) /\ LogOfMap(q)

-----------------------------------------------------------------------------
(* Lemmas.                                                                   *)

\* A step of one instance leaves the memory of the others alone.
LEMMA OthersKeepTheirMemory ==
    ASSUME IInv, NEW p \in Procs, Process(p), NEW q \in Procs, q # p
    PROVE  /\ status'[q] = status[q] /\ activeFlight'[q] = activeFlight[q]
           /\ seatMap'[q] = seatMap[q] /\ selected'[q] = selected[q]
           /\ todo'[q] = todo[q] /\ log'[q] = log[q]
<1> USE DEF IInv, TypeOK
<1>1. CASE Exit(p) \/ Crash(p) \/ FrameFails(p) \/ SaveSeatTerminates(p)
           \/ \E f \in Flights : SelectFlightFails(p, f)
  BY <1>1 DEF Exit, Crash, FrameFails, SaveSeatTerminates, SelectFlightFails, Stop
<1>2. CASE \E f \in Flights : SelectFlight(p, f) \/ SelectFlightTruncated(p, f)
  BY <1>2 DEF SelectFlight, SelectFlightTruncated, LoadFlight
<1>3. CASE SaveStep(p) \/ SaveSeatFails(p)
  BY <1>3 DEF SaveStep, SaveSeat, FinishSave, SaveSeatFails
<1>4. CASE (\E d \in Typed : Book(p, d)) \/ Update(p)
  BY <1>4 DEF Book, Update, StartSaving
<1>5. CASE Delete(p) \/ DeleteFails(p)
  BY <1>5 DEF Delete, DeleteFails
<1>6. CASE Launch(p) \/ ClickSeat(p) \/ ClearLog(p) \/ BookRefused(p)
  BY <1>6 DEF Launch, ClickSeat, ClearLog, BookRefused, memory
<1> QED
  BY <1>1, <1>2, <1>3, <1>4, <1>5, <1>6 DEF Process

\* An instance whose map and save stay as they are stays coherent, as long as the
\* seats that others write become stale.
LEMMA KeepsCoherent ==
    ASSUME NEW q \in Procs, Coherent(q),
           activeFlight'[q] = activeFlight[q], seatMap'[q] = seatMap[q],
           todo'[q] = todo[q],
           activeFlight[q] # NoFlight =>
              \A s \in Seats(activeFlight[q]) : s \notin stale'[q] =>
                  /\ s \notin stale[q]
                  /\ DetailsAt(bookings'[BookingTable(activeFlight[q])], s[1], s[2])
                       = DetailsAt(bookings[BookingTable(activeFlight[q])], s[1], s[2])
    PROVE  Coherent(q)'
<1> SUFFICES ASSUME activeFlight[q] # NoFlight, NEW s \in Seats(activeFlight[q])
             PROVE  SeatCoherent(seatMap[q],
                       DetailsAt(bookings'[BookingTable(activeFlight[q])], s[1], s[2]),
                       s, s \in todo[q], s \in stale'[q])
  BY DEF Coherent, BookingTable, Seats
<1>1. SeatCoherent(seatMap[q],
          DetailsAt(bookings[BookingTable(activeFlight[q])], s[1], s[2]),
          s, s \in todo[q], s \in stale[q])
  BY DEF Coherent
<1> QED
  BY <1>1 DEF SeatCoherent

\* What the log says of a map that did not change stays true.
LEMMA KeepsLogOfMap ==
    ASSUME NEW q \in Procs, LogOfMap(q),
           activeFlight'[q] = activeFlight[q], seatMap'[q] = seatMap[q],
           selected'[q] = selected[q], status'[q] = status[q], log'[q] = log[q]
    PROVE  LogOfMap(q)'
BY DEF LogOfMap, TakenSeat, SelRow, SelCol, Seats

\* A step that writes no table and makes no seat fresh keeps the others coherent.
LEMMA OthersCoherent ==
    ASSUME CInv, NEW p \in Procs, Process(p), NEW q \in Procs, q # p,
           stale[q] \subseteq stale'[q],
           activeFlight[q] # NoFlight =>
              \A s \in Seats(activeFlight[q]) : s \notin stale'[q] =>
                  DetailsAt(bookings'[BookingTable(activeFlight[q])], s[1], s[2])
                    = DetailsAt(bookings[BookingTable(activeFlight[q])], s[1], s[2])
    PROVE  Coherent(q)' /\ LogOfMap(q)'
<1>1. IInv /\ Coherent(q) /\ LogOfMap(q)
  BY DEF CInv
<1> QED
  BY <1>1, OthersKeepTheirMemory, KeepsCoherent, KeepsLogOfMap

\* The seats of a flight on display.
LEMMA FlightSeats ==
    ASSUME IInv, NEW q \in Procs, activeFlight[q] # NoFlight
    PROVE  /\ activeFlight[q] \in Flights
           /\ BookingTable(activeFlight[q]) \in Tables
           /\ Rows[activeFlight[q]] \in Nat /\ Cols[activeFlight[q]] \in Nat
           /\ seatMap[q] \in SeatMaps(Rows[activeFlight[q]], Cols[activeFlight[q]])
           /\ \A s \in Seats(activeFlight[q]) :
                 /\ s = <<s[1], s[2]>>
                 /\ s[1] \in 0 .. Rows[activeFlight[q]] - 1
                 /\ s[2] \in 0 .. Cols[activeFlight[q]] - 1
                 /\ IsSeat(seatMap[q], s[1], s[2])
<1>1. activeFlight[q] \in Flights /\ BookingTable(activeFlight[q]) \in Tables
  BY DEF IInv, TypeOK, SaveInv
<1>2. Rows[activeFlight[q]] \in Nat /\ Cols[activeFlight[q]] \in Nat
  BY <1>1, FlightsAssumption
<1>3. seatMap[q] \in SeatMaps(Rows[activeFlight[q]], Cols[activeFlight[q]])
  BY DEF IInv, TypeOK, CabinRows, CabinCols
<1>4. ASSUME NEW s \in Seats(activeFlight[q])
      PROVE  /\ s = <<s[1], s[2]>>
             /\ s[1] \in 0 .. Rows[activeFlight[q]] - 1
             /\ s[2] \in 0 .. Cols[activeFlight[q]] - 1
             /\ IsSeat(seatMap[q], s[1], s[2])
  <2>1. /\ s = <<s[1], s[2]>>
        /\ s[1] \in 0 .. Rows[activeFlight[q]] - 1
        /\ s[2] \in 0 .. Cols[activeFlight[q]] - 1
    BY DEF Seats
  <2>2. /\ seatMap[q].m_Rows = Rows[activeFlight[q]]
        /\ seatMap[q].m_Cols = Cols[activeFlight[q]]
    BY <1>3 DEF SeatMaps
  <2> QED
    BY <1>2, <2>1, <2>2 DEF IsSeat
<1> QED
  BY <1>1, <1>2, <1>3, <1>4

-----------------------------------------------------------------------------
(* The actions.                                                              *)

\* Messages, selections and the end of a save touch neither map nor table.
LEMMA QuietKeepsCInv ==
    ASSUME CInv, NEW p \in Procs, Process(p),
           Launch(p) \/ ClickSeat(p) \/ ClearLog(p) \/ BookRefused(p) \/ FinishSave(p)
    PROVE  \A q \in Procs : Coherent(q)' /\ LogOfMap(q)'
<1>1. /\ UNCHANGED <<activeFlight, seatMap, todo, bookings, stale>>
  BY DEF Launch, ClickSeat, ClearLog, BookRefused, FinishSave, memory
<1>2. \A q \in Procs \ {p} : Coherent(q)' /\ LogOfMap(q)'
  BY <1>1, OthersCoherent
<1>3. Coherent(p)'
  BY <1>1, KeepsCoherent DEF CInv
<1>4. LogOfMap(p)'
  <2> USE DEF CInv, IInv, TypeOK
  <2>1. CASE Launch(p)
    BY <2>1 DEF Launch, LogOfMap, memory
  <2>2. CASE ClickSeat(p) \/ ClearLog(p)
    BY <2>2 DEF ClickSeat, ClearLog, LogOfMap
  <2>3. CASE BookRefused(p)
    BY <2>3 DEF BookRefused, LogOfMap, SelRow, SelCol
  <2>4. CASE FinishSave(p)
    BY <2>4 DEF FinishSave, LogOfMap, TakenSeat, SelRow, SelCol, Seats
  <2> QED
    BY <2>1, <2>2, <2>3, <2>4
<1> QED
  BY <1>2, <1>3, <1>4

\* A process that has ended displays nothing.
LEMMA StopKeepsCInv ==
    ASSUME CInv, NEW p \in Procs, Process(p), NEW how \in {"closed", "terminated"},
           Stop(p, how), UNCHANGED bookings
    PROVE  \A q \in Procs : Coherent(q)' /\ LogOfMap(q)'
<1>1. \A q \in Procs \ {p} : stale'[q] = stale[q]
  BY DEF Stop, CInv, IInv, TypeOK
<1>2. \A q \in Procs \ {p} : Coherent(q)' /\ LogOfMap(q)'
  BY <1>1, OthersCoherent
<1>3. Coherent(p)' /\ LogOfMap(p)'
  BY DEF Stop, CInv, IInv, TypeOK, Coherent, LogOfMap
<1> QED
  BY <1>2, <1>3

\* A load agrees with the table but for the rows that did not come, which are of
\* stale seats.
LEMMA LoadKeepsCInv ==
    ASSUME CInv, NEW p \in Procs, Process(p), NEW f \in Flights, BookingTable(f) \in Tables,
           NEW rows \in SUBSET bookings[BookingTable(f)], LoadFlight(p, f, rows)
    PROVE  \A q \in Procs : Coherent(q)' /\ LogOfMap(q)'
<1> DEFINE t == BookingTable(f)
           sm == LoadFromFlightInformation(Construct(Rows[f], Cols[f]), Rows[f], Cols[f], rows)
<1>1. /\ activeFlight'[p] = f /\ seatMap'[p] = sm
      /\ log'[p] = "Flight Selected" /\ status'[p] \in {"idle", "undefined"}
      /\ stale'[p] = {<<b.row, b.col>> : b \in bookings[t] \ rows}
      /\ \A q \in Procs \ {p} : stale'[q] = stale[q]
      /\ UNCHANGED <<todo, bookings>>
  BY DEF LoadFlight, CInv, IInv, TypeOK
<1>2. \A q \in Procs \ {p} : Coherent(q)' /\ LogOfMap(q)'
  BY <1>1, OthersCoherent
<1>3. /\ bookings[t] \in SUBSET Records(Details) /\ UniqueSeats(bookings[t])
      /\ \A b \in bookings[t] : b.details \in Named
  BY DEF CInv, IInv, TypeOK, OneRowPerSeat, StoredRowsValid
<1>4. Rows[f] \in Nat /\ Cols[f] \in Nat
  BY FlightsAssumption
<1>5. ASSUME NEW s \in Seats(f)
      PROVE  SeatCoherent(sm, DetailsAt(bookings[t], s[1], s[2]), s,
                          s \in todo[p], s \in stale'[p])
  <2>1. s = <<s[1], s[2]>> /\ s[1] \in 0 .. Rows[f] - 1 /\ s[2] \in 0 .. Cols[f] - 1
    BY DEF Seats
  <2>2. SaysOf(sm, rows, s[1], s[2])
    BY <1>4, <2>1, LoadedSeat
  <2> HIDE DEF sm
  <2>3. s \notin stale'[p] => At(bookings[t], s[1], s[2]) = At(rows, s[1], s[2])
    BY <1>1, <2>1 DEF At
  <2>4. CASE At(rows, s[1], s[2]) = {}
    BY <2>2, <2>3, <2>4, DetailsAssumption DEF SeatCoherent, DetailsAt, SaysOf
  <2>5. CASE At(rows, s[1], s[2]) # {}
    <3>1. PICK b \in At(rows, s[1], s[2]) : TRUE
      BY <2>5
    <3>2. rows \in SUBSET Records(Details) /\ UniqueSeats(rows)
      BY <1>3 DEF UniqueSeats
    <3>3. LastRow(rows, s[1], s[2]) = b
      BY <3>1, <3>2, LastRowIsTheRow
    <3>4. At(rows, s[1], s[2]) = {b}
      BY <3>1, <3>2 DEF At, UniqueSeats
    <3>5. b.details \in Named
      BY <1>3, <3>1 DEF At
    <3>6. DetailsAt(rows, s[1], s[2]) = {b.details}
      BY <3>4 DEF DetailsAt
    <3>7. s \notin stale'[p] => DetailsAt(bookings[t], s[1], s[2]) = {b.details}
      BY <2>3, <3>6 DEF DetailsAt
    <3> QED
      BY <2>2, <2>5, <3>3, <3>5, <3>7 DEF SeatCoherent, Named, SaysOf
  <2> QED
    BY <2>4, <2>5
<1>6. Coherent(p)'
  BY <1>1, <1>5 DEF Coherent, BookingTable, Seats
<1>7. LogOfMap(p)'
  BY <1>1 DEF LogOfMap
<1> QED
  BY <1>2, <1>6, <1>7

\* What a press of Book or Update leaves is coherent if the new map has a passenger
\* only where the table has the same or none.
LEMMA SavingKeepsCInv ==
    ASSUME CInv, NEW p \in Procs, Process(p), activeFlight[p] # NoFlight,
           NEW sm \in SeatMaps(Rows[activeFlight[p]], Cols[activeFlight[p]]),
           NEW phase, StartSaving(p, phase, sm),
           UNCHANGED <<activeFlight, bookings, stale>>,
           \A s \in Seats(activeFlight[p]) :
               LET d == sm.m_Details[s[1]][s[2]]
                   held == DetailsAt(bookings[BookingTable(activeFlight[p])], s[1], s[2])
               IN  /\ sm.m_SeatMap[s[1]][s[2]] => d = Blank
                   /\ s \notin stale[p] => held \subseteq {d} /\ (d \in Unnamed => held = {})
    PROVE  /\ \A q \in Procs : Coherent(q)'
           /\ \A q \in Procs \ {p} : LogOfMap(q)'
<1> DEFINE f == activeFlight[p]
<1>1. /\ seatMap'[p] = sm /\ todo'[p] = NamedSeats(sm)
  BY DEF StartSaving, CInv, IInv, TypeOK
<1>2. \A q \in Procs \ {p} : Coherent(q)' /\ LogOfMap(q)'
  BY OthersCoherent
<1>3. sm.m_Rows = Rows[f] /\ sm.m_Cols = Cols[f]
  BY DEF SeatMaps
<1>4. ASSUME NEW s \in Seats(f)
      PROVE  SeatCoherent(sm, DetailsAt(bookings[BookingTable(f)], s[1], s[2]), s,
                          s \in todo'[p], s \in stale[p])
  <2>1. s \in todo'[p] <=> sm.m_Details[s[1]][s[2]] \notin Unnamed
    BY <1>1, <1>3 DEF NamedSeats, Seats
  <2> QED
    BY <2>1, DetailsAssumption DEF SeatCoherent
<1>5. Coherent(p)'
  BY <1>1, <1>4 DEF Coherent, BookingTable, Seats
<1> QED
  BY <1>2, <1>5

\* What an idle instance knows of its seats.
LEMMA IdleSeat ==
    ASSUME CInv, NEW p \in Procs, status[p] = "idle", activeFlight[p] # NoFlight,
           NEW s \in Seats(activeFlight[p])
    PROVE  SeatCoherent(seatMap[p],
               DetailsAt(bookings[BookingTable(activeFlight[p])], s[1], s[2]), s,
               FALSE, s \in stale[p])
<1>1. todo[p] = {}
  BY DEF CInv, IInv, SaveInv, Saving
<1>2. SeatCoherent(seatMap[p],
          DetailsAt(bookings[BookingTable(activeFlight[p])], s[1], s[2]), s,
          s \in todo[p], s \in stale[p])
  BY DEF CInv, Coherent
<1> QED
  BY <1>1, <1>2 DEF SeatCoherent

\* A booking is only made on a seat that is free in the map, which the table agrees
\* on if the seat is not stale.
LEMMA BookKeepsCInv ==
    ASSUME CInv, NEW p \in Procs, Process(p), NEW d \in Typed, Book(p, d)
    PROVE  \A q \in Procs : Coherent(q)' /\ LogOfMap(q)'
<1> DEFINE f == activeFlight[p]
           r == SelRow(p)
           c == SelCol(p)
           sm == BookSeat(seatMap[p], r, c, d)
<1>1. /\ status[p] = "idle" /\ f # NoFlight /\ IsSeatAvailable(seatMap[p], r, c)
      /\ StartSaving(p, "creating", sm)
      /\ UNCHANGED <<activeFlight, selected, log, bookings, faults, stale>>
  BY DEF Book
<1>2. /\ f \in Flights /\ Rows[f] \in Nat /\ Cols[f] \in Nat
      /\ seatMap[p] \in SeatMaps(Rows[f], Cols[f])
      /\ \A s \in Seats(f) : s = <<s[1], s[2]>> /\ s[1] \in 0 .. Rows[f] - 1
                                                /\ s[2] \in 0 .. Cols[f] - 1
  BY <1>1, FlightSeats DEF CInv
<1>3. /\ selected[p] = <<r, c>> /\ r \in Nat /\ c \in Nat
  BY DEF CInv, IInv, TypeOK, SelRow, SelCol
<1>4. /\ r \in 0 .. Rows[f] - 1 /\ c \in 0 .. Cols[f] - 1 /\ seatMap[p].m_SeatMap[r][c]
      /\ sm \in SeatMaps(Rows[f], Cols[f])
      /\ Booked(sm, seatMap[p], Rows[f], Cols[f], r, c, d)
  <2> HIDE DEF r, c, f
  <2>1. d \in Details
    BY FlightsAssumption
  <2> QED
    BY <1>1, <1>2, <1>3, <2>1, BookSeatType, BookedSeat
<1> HIDE DEF r, c, f, sm
<1>6. ASSUME NEW s \in Seats(f)
      PROVE  LET e == sm.m_Details[s[1]][s[2]]
                 held == DetailsAt(bookings[BookingTable(f)], s[1], s[2])
             IN  /\ sm.m_SeatMap[s[1]][s[2]] => e = Blank
                 /\ s \notin stale[p] => held \subseteq {e} /\ (e \in Unnamed => held = {})
  <2>1. SeatCoherent(seatMap[p], DetailsAt(bookings[BookingTable(f)], s[1], s[2]), s,
                     FALSE, s \in stale[p])
    BY <1>1, IdleSeat DEF f
  <2> QED
    BY <1>2, <1>4, <2>1, DetailsAssumption DEF SeatCoherent, Booked
<1>7. (\A q \in Procs : Coherent(q)') /\ (\A q \in Procs \ {p} : LogOfMap(q)')
  BY <1>1, <1>4, <1>6, SavingKeepsCInv DEF f
<1>8. LogOfMap(p)'
  <2>1. /\ status'[p] = "creating" /\ seatMap'[p] = sm
        /\ activeFlight'[p] = f /\ selected'[p] = <<r, c>>
    BY <1>1, <1>3 DEF StartSaving, CInv, IInv, TypeOK, f
  <2>2. <<r, c>> \in Seats(f)
    BY <1>4 DEF Seats
  <2>3. ~IsSeatAvailable(sm, r, c)
    BY <1>4 DEF IsSeatAvailable, Booked
  <2> QED
    BY <1>1, <2>1, <2>2, <2>3 DEF LogOfMap, TakenSeat, SelRow, SelCol, Seats
<1> QED
  BY <1>7, <1>8

\* Update changes nothing in the map.
LEMMA UpdateKeepsCInv ==
    ASSUME CInv, NEW p \in Procs, Process(p), Update(p)
    PROVE  \A q \in Procs : Coherent(q)' /\ LogOfMap(q)'
<1> DEFINE f == activeFlight[p]
           r == SelRow(p)
           c == SelCol(p)
           old == seatMap[p]
           sm == BookSeat(CancelBooking(old, r, c), r, c, GetDetails(old, r, c))
<1>1. /\ status[p] = "idle" /\ f # NoFlight /\ ~IsSeatAvailable(old, r, c)
      /\ StartSaving(p, "updating", sm)
      /\ UNCHANGED <<activeFlight, selected, log, bookings, faults, stale>>
  BY DEF Update, CanManage
<1>2. /\ f \in Flights /\ Rows[f] \in Nat /\ Cols[f] \in Nat
      /\ old \in SeatMaps(Rows[f], Cols[f])
      /\ \A s \in Seats(f) : s = <<s[1], s[2]>> /\ s[1] \in 0 .. Rows[f] - 1
                                                /\ s[2] \in 0 .. Cols[f] - 1
  BY <1>1, FlightSeats DEF CInv
<1>3. r \in Nat /\ c \in Nat
  BY DEF CInv, IInv, TypeOK, SelRow, SelCol
<1> HIDE DEF r, c, f, old
<1>4. sm \in SeatMaps(Rows[f], Cols[f]) /\ SameSeats(sm, old, Rows[f], Cols[f])
  BY <1>1, <1>2, <1>3, RebookedSeat
<1> HIDE DEF sm
<1>5. ASSUME NEW s \in Seats(f)
      PROVE  LET e == sm.m_Details[s[1]][s[2]]
                 held == DetailsAt(bookings[BookingTable(f)], s[1], s[2])
             IN  /\ sm.m_SeatMap[s[1]][s[2]] => e = Blank
                 /\ s \notin stale[p] => held \subseteq {e} /\ (e \in Unnamed => held = {})
  <2>1. SeatCoherent(old, DetailsAt(bookings[BookingTable(f)], s[1], s[2]), s,
                     FALSE, s \in stale[p])
    BY <1>1, IdleSeat DEF f, old
  <2> QED
    BY <1>2, <1>4, <2>1, DetailsAssumption DEF SeatCoherent, SameSeats
<1>6. (\A q \in Procs : Coherent(q)') /\ (\A q \in Procs \ {p} : LogOfMap(q)')
  BY <1>1, <1>4, <1>5, SavingKeepsCInv DEF f
<1>7. LogOfMap(p)'
  <2>1. status'[p] = "updating"
    BY <1>1 DEF StartSaving, CInv, IInv, TypeOK
  <2> QED
    BY <2>1 DEF LogOfMap
<1> QED
  BY <1>6, <1>7

\* A write of one seat makes it stale for the others that display the table, and
\* leaves them everything else.
LEMMA WriteKeepsOthers ==
    ASSUME CInv, NEW p \in Procs, Process(p), NEW t, NEW s, WroteSeat(p, t, s),
           \A u \in Tables : \A i, j : ~(u = t /\ <<i, j>> = s) =>
               DetailsAt(bookings'[u], i, j) = DetailsAt(bookings[u], i, j)
    PROVE  \A q \in Procs \ {p} : Coherent(q)' /\ LogOfMap(q)'
<1> SUFFICES ASSUME NEW q \in Procs \ {p}
             PROVE  Coherent(q)' /\ LogOfMap(q)'
  OBVIOUS
<1>1. stale'[q] = IF activeFlight[q] # NoFlight /\ BookingTable(activeFlight[q]) = t
                  THEN stale[q] \cup {s} ELSE stale[q]
  BY DEF WroteSeat
<1>2. ASSUME activeFlight[q] # NoFlight, NEW x \in Seats(activeFlight[q]), x \notin stale'[q]
      PROVE  DetailsAt(bookings'[BookingTable(activeFlight[q])], x[1], x[2])
               = DetailsAt(bookings[BookingTable(activeFlight[q])], x[1], x[2])
  <2>1. BookingTable(activeFlight[q]) \in Tables /\ x = <<x[1], x[2]>>
    BY <1>2, FlightSeats DEF CInv
  <2>2. ~(BookingTable(activeFlight[q]) = t /\ <<x[1], x[2]>> = s)
    BY <1>1, <1>2, <2>1
  <2> QED
    BY <2>1, <2>2
<1> QED
  BY <1>1, <1>2, OthersCoherent

\* The transaction of a seat brings the table to what the map says of the seat.
LEMMA SaveSeatKeepsCInv ==
    ASSUME CInv, NEW p \in Procs, Process(p), SaveSeat(p)
    PROVE  \A q \in Procs : Coherent(q)' /\ LogOfMap(q)'
<1> DEFINE f == activeFlight[p]
           t == BookingTable(f)
<1>1. PICK s \in todo[p] :
        /\ bookings' = [bookings EXCEPT ![t] =
               UpsertBooking(@, s[1], s[2], seatMap[p].m_Details[s[1]][s[2]])]
        /\ todo' = [todo EXCEPT ![p] = @ \ {s}]
        /\ WroteSeat(p, t, s)
  BY DEF SaveSeat
<1>2. /\ status[p] \in Saving
      /\ UNCHANGED <<status, activeFlight, seatMap, selected, log, faults>>
  BY DEF SaveSeat
<1> DEFINE r == s[1]
           c == s[2]
           d == seatMap[p].m_Details[r][c]
<1>3. /\ f \in Flights /\ t \in Tables /\ s = <<r, c>> /\ d \in Named
      /\ r \in 0 .. Rows[f] - 1 /\ c \in 0 .. Cols[f] - 1
  BY <1>2, TodoFacts DEF CInv
<1>4. /\ r \in Nat /\ c \in Nat /\ d \in Details
      /\ bookings[t] \in SUBSET Records(Details)
  BY <1>3, FlightsAssumption DEF CInv, IInv, TypeOK, Named
<1>5. /\ bookings' = [bookings EXCEPT ![t] = UpsertBooking(bookings[t], r, c, d)]
      /\ bookings = [u \in Tables |-> bookings[u]]
  BY <1>1 DEF CInv, IInv, TypeOK
<1> HIDE DEF r, c, d, t
<1>6. \A i, j : DetailsAt(bookings'[t], i, j)
                  = IF i = r /\ j = c THEN {d} ELSE DetailsAt(bookings[t], i, j)
  <2>1. PICK rows : rows = bookings[t]
    OBVIOUS
  <2>2. ASSUME NEW i, NEW j
        PROVE  DetailsAt(UpsertBooking(rows, r, c, d), i, j)
                 = IF i = r /\ j = c THEN {d} ELSE DetailsAt(rows, i, j)
    <3>1. r \in Nat /\ c \in Nat /\ d \in Details /\ rows \in SUBSET Records(Details)
      BY <1>4, <2>1
    <3> QED
      BY <3>1, UpsertEffect
  <2>3. bookings'[t] = UpsertBooking(rows, r, c, d)
    BY <1>3, <1>5, <2>1
  <2> QED
    BY <2>1, <2>2, <2>3
<1>7. \A u \in Tables : \A i, j : ~(u = t /\ <<i, j>> = s) =>
          DetailsAt(bookings'[u], i, j) = DetailsAt(bookings[u], i, j)
  <2> SUFFICES ASSUME NEW u \in Tables, NEW i, NEW j, ~(u = t /\ <<i, j>> = s)
               PROVE  DetailsAt(bookings'[u], i, j) = DetailsAt(bookings[u], i, j)
    OBVIOUS
  <2>1. CASE u # t
    BY <1>5, <2>1
  <2>2. CASE u = t
    BY <1>3, <1>6, <2>2
  <2> QED
    BY <2>1, <2>2
<1>8. \A q \in Procs \ {p} : Coherent(q)' /\ LogOfMap(q)'
  BY <1>1, <1>7, WriteKeepsOthers DEF t
<1>9. Coherent(p)'
  <2>1. /\ activeFlight'[p] = f /\ f # NoFlight /\ seatMap'[p] = seatMap[p]
        /\ todo'[p] = todo[p] \ {s} /\ stale'[p] = stale[p] \ {s}
    BY <1>1, <1>2, <1>3, FlightsAssumption DEF WroteSeat, CInv, IInv, TypeOK, t
  <2>2. ASSUME NEW x \in Seats(f)
        PROVE  SeatCoherent(seatMap[p], DetailsAt(bookings'[t], x[1], x[2]), x,
                            x \in todo'[p], x \in stale'[p])
    <3>1. x = <<x[1], x[2]>>
      BY DEF Seats
    <3>2. SeatCoherent(seatMap[p], DetailsAt(bookings[t], x[1], x[2]), x,
                       x \in todo[p], x \in stale[p])
      BY <2>1 DEF CInv, Coherent, t
    <3>3. CASE x = s
      <4>1. x[1] = r /\ x[2] = c /\ DetailsAt(bookings'[t], x[1], x[2]) = {d}
        BY <1>6, <3>3 DEF r, c
      <4>2. seatMap[p].m_Details[x[1]][x[2]] = d /\ ~seatMap[p].m_SeatMap[x[1]][x[2]]
        BY <1>3, <3>2, <4>1, DetailsAssumption DEF SeatCoherent, Named, d
      <4> QED
        BY <1>3, <2>1, <3>3, <4>1, <4>2 DEF SeatCoherent, Named
    <3>4. CASE x # s
      <4>1. DetailsAt(bookings'[t], x[1], x[2]) = DetailsAt(bookings[t], x[1], x[2])
        BY <1>3, <1>7, <3>1, <3>4
      <4> QED
        BY <2>1, <3>2, <3>4, <4>1 DEF SeatCoherent
    <3> QED
      BY <3>3, <3>4
  <2> QED
    BY <2>1, <2>2 DEF Coherent, BookingTable, Seats, t
<1>10. LogOfMap(p)'
  BY <1>2, KeepsLogOfMap DEF CInv
<1> QED
  BY <1>8, <1>9, <1>10

\* A seat that could not be written is stale from then on.
LEMMA SaveSeatFailsKeepsCInv ==
    ASSUME CInv, NEW p \in Procs, Process(p), SaveSeatFails(p)
    PROVE  \A q \in Procs : Coherent(q)' /\ LogOfMap(q)'
<1>1. PICK s \in todo[p] : /\ todo' = [todo EXCEPT ![p] = @ \ {s}]
                           /\ stale' = [stale EXCEPT ![p] = @ \cup {s}]
  BY DEF SaveSeatFails
<1>2. UNCHANGED <<status, activeFlight, seatMap, selected, log, bookings>>
  BY DEF SaveSeatFails
<1>3. /\ todo'[p] = todo[p] \ {s} /\ stale'[p] = stale[p] \cup {s}
      /\ \A q \in Procs \ {p} : stale'[q] = stale[q]
  BY <1>1 DEF CInv, IInv, TypeOK
<1>4. \A q \in Procs \ {p} : Coherent(q)' /\ LogOfMap(q)'
  BY <1>2, <1>3, OthersCoherent
<1>5. Coherent(p)'
  <2> SUFFICES ASSUME activeFlight[p] # NoFlight, NEW x \in Seats(activeFlight[p])
               PROVE  SeatCoherent(seatMap[p],
                         DetailsAt(bookings[BookingTable(activeFlight[p])], x[1], x[2]),
                         x, x \in todo'[p], x \in stale'[p])
    BY <1>2 DEF Coherent, BookingTable, Seats
  <2>1. SeatCoherent(seatMap[p],
            DetailsAt(bookings[BookingTable(activeFlight[p])], x[1], x[2]),
            x, x \in todo[p], x \in stale[p])
    BY DEF CInv, Coherent
  <2> QED
    BY <1>3, <2>1 DEF SeatCoherent
<1>6. LogOfMap(p)'
  BY <1>2, KeepsLogOfMap DEF CInv
<1> QED
  BY <1>4, <1>5, <1>6

\* The Delete button clears the selected seat in the map, if it is one of the cabin,
\* and no other.
LEMMA DeletedSeat ==
    ASSUME CInv, NEW p \in Procs, CanManage(p)
    PROVE  LET f == activeFlight[p]
               sm == CancelBooking(seatMap[p], SelRow(p), SelCol(p))
           IN  \A s \in Seats(f) :
                 IF s = selected[p]
                 THEN sm.m_SeatMap[s[1]][s[2]] /\ sm.m_Details[s[1]][s[2]] = Blank
                 ELSE /\ sm.m_SeatMap[s[1]][s[2]] <=> seatMap[p].m_SeatMap[s[1]][s[2]]
                      /\ sm.m_Details[s[1]][s[2]] = seatMap[p].m_Details[s[1]][s[2]]
<1> DEFINE f == activeFlight[p]
           r == SelRow(p)
           c == SelCol(p)
           sm == CancelBooking(seatMap[p], r, c)
<1>1. /\ f # NoFlight /\ Rows[f] \in Nat /\ Cols[f] \in Nat
      /\ seatMap[p] \in SeatMaps(Rows[f], Cols[f])
      /\ \A s \in Seats(f) : s = <<s[1], s[2]>> /\ s[1] \in 0 .. Rows[f] - 1
                                                /\ s[2] \in 0 .. Cols[f] - 1
  BY FlightSeats DEF CanManage, CInv
<1>2. selected[p] = <<r, c>> /\ r \in Nat /\ c \in Nat
  BY DEF CInv, IInv, TypeOK, SelRow, SelCol
<1> HIDE DEF r, c, f
<1>3. CASE IsSeat(seatMap[p], r, c)
  <2>1. r \in 0 .. Rows[f] - 1 /\ c \in 0 .. Cols[f] - 1
    BY <1>1, <1>2, <1>3 DEF IsSeat, SeatMaps
  <2>2. Cleared(sm, seatMap[p], Rows[f], Cols[f], r, c)
    BY <1>1, <2>1, CancelledSeat
  <2> HIDE DEF sm
  <2>3. \A s \in Seats(f) :
          IF s = selected[p]
          THEN sm.m_SeatMap[s[1]][s[2]] /\ sm.m_Details[s[1]][s[2]] = Blank
          ELSE /\ sm.m_SeatMap[s[1]][s[2]] <=> seatMap[p].m_SeatMap[s[1]][s[2]]
               /\ sm.m_Details[s[1]][s[2]] = seatMap[p].m_Details[s[1]][s[2]]
    BY <1>1, <1>2, <2>2 DEF Cleared
  <2> QED
    BY <2>3 DEF sm, f, r, c
<1>4. CASE ~IsSeat(seatMap[p], r, c)
  <2>1. sm = seatMap[p]
    BY <1>4 DEF CancelBooking
  <2>2. \A s \in Seats(f) : s # selected[p]
    BY <1>1, <1>2, <1>4 DEF IsSeat, SeatMaps
  <2> HIDE DEF sm
  <2>3. \A s \in Seats(f) :
          IF s = selected[p]
          THEN sm.m_SeatMap[s[1]][s[2]] /\ sm.m_Details[s[1]][s[2]] = Blank
          ELSE /\ sm.m_SeatMap[s[1]][s[2]] <=> seatMap[p].m_SeatMap[s[1]][s[2]]
               /\ sm.m_Details[s[1]][s[2]] = seatMap[p].m_Details[s[1]][s[2]]
    BY <2>1, <2>2
  <2> QED
    BY <2>3 DEF sm, f, r, c
<1> QED
  BY <1>3, <1>4

\* The seat is free in the map, and its row gone or the seat stale.
LEMMA DeleteKeepsCInv ==
    ASSUME CInv, NEW p \in Procs, Process(p), Delete(p) \/ DeleteFails(p)
    PROVE  \A q \in Procs : Coherent(q)' /\ LogOfMap(q)'
<1> DEFINE f == activeFlight[p]
           t == BookingTable(f)
           sel == selected[p]
           sm == CancelBooking(seatMap[p], SelRow(p), SelCol(p))
<1>1. /\ CanManage(p) /\ f # NoFlight /\ status[p] = "idle"
      /\ seatMap' = [seatMap EXCEPT ![p] = sm]
      /\ log' = [log EXCEPT ![p] = "Booking Deleted!"]
      /\ UNCHANGED <<status, activeFlight, selected, todo>>
  BY DEF Delete, DeleteFails, CanManage
<1>2. /\ f \in Flights /\ t \in Tables
      /\ seatMap[p] \in SeatMaps(Rows[f], Cols[f])
      /\ sm \in SeatMaps(Rows[f], Cols[f])
      /\ \A s \in Seats(f) : /\ s = <<s[1], s[2]>> /\ s[1] \in 0 .. Rows[f] - 1
                             /\ s[2] \in 0 .. Cols[f] - 1
  BY <1>1, FlightSeats, CancelSelectedType DEF CInv, CabinRows, CabinCols
<1>3. \A s \in Seats(f) :
          IF s = sel
          THEN sm.m_SeatMap[s[1]][s[2]] /\ sm.m_Details[s[1]][s[2]] = Blank
          ELSE /\ sm.m_SeatMap[s[1]][s[2]] <=> seatMap[p].m_SeatMap[s[1]][s[2]]
               /\ sm.m_Details[s[1]][s[2]] = seatMap[p].m_Details[s[1]][s[2]]
  BY <1>1, DeletedSeat
<1>4. sel = <<SelRow(p), SelCol(p)>>
  BY DEF CInv, IInv, TypeOK, SelRow, SelCol
<1> HIDE DEF sm
<1>5. /\ seatMap'[p] = sm /\ log'[p] = "Booking Deleted!" /\ status'[p] = "idle"
      /\ activeFlight'[p] = f /\ selected'[p] = sel /\ todo'[p] = todo[p]
  BY <1>1 DEF CInv, IInv, TypeOK
<1>6. \A u \in Tables : \A i, j :
          DetailsAt(bookings'[u], i, j)
            = IF Delete(p) /\ u = t /\ <<i, j>> = sel THEN {} ELSE DetailsAt(bookings[u], i, j)
  <2>1. CASE Delete(p)
    <3>1. bookings' = [bookings EXCEPT ![t] = DeleteRows(bookings[t], SelRow(p), SelCol(p))]
      BY <2>1 DEF Delete
    <3> SUFFICES ASSUME NEW u \in Tables, NEW i, NEW j
                 PROVE  DetailsAt(bookings'[u], i, j)
                          = IF u = t /\ <<i, j>> = sel THEN {} ELSE DetailsAt(bookings[u], i, j)
      BY <2>1
    <3>2. bookings'[u] = IF u = t THEN DeleteRows(bookings[t], SelRow(p), SelCol(p))
                                  ELSE bookings[u]
      BY <1>2, <3>1 DEF CInv, IInv, TypeOK
    <3>3. <<i, j>> = sel <=> i = SelRow(p) /\ j = SelCol(p)
      BY <1>4
    <3>4. CASE u = t
      <4>1. PICK rows, r, c : rows = bookings[t] /\ r = SelRow(p) /\ c = SelCol(p)
        OBVIOUS
      <4>2. DetailsAt(DeleteRows(rows, r, c), i, j)
              = IF i = r /\ j = c THEN {} ELSE DetailsAt(rows, i, j)
        BY DeleteEffect
      <4> QED
        BY <3>2, <3>3, <3>4, <4>1, <4>2
    <3>5. CASE u # t
      BY <3>2, <3>5
    <3> QED
      BY <3>4, <3>5
  <2>2. CASE DeleteFails(p) /\ ~Delete(p)
    BY <2>2 DEF DeleteFails
  <2> QED
    BY <2>1, <2>2
<1>7. \A q \in Procs \ {p} : Coherent(q)' /\ LogOfMap(q)'
  <2>1. CASE Delete(p)
    <3>1. WroteSeat(p, t, sel)
      BY <2>1 DEF Delete
    <3> QED
      BY <1>6, <3>1, WriteKeepsOthers
  <2>2. CASE DeleteFails(p)
    <3>1. /\ bookings' = bookings
          /\ \A q \in Procs \ {p} : stale'[q] = stale[q]
      BY <2>2 DEF DeleteFails, CInv, IInv, TypeOK
    <3> QED
      BY <3>1, OthersCoherent
  <2> QED
    BY <2>1, <2>2
<1>8. Coherent(p)'
  <2>1. \A s \in Seats(f) : s # sel => (s \in stale'[p] <=> s \in stale[p])
    <3>1. CASE Delete(p)
      <4>1. stale'[p] = stale[p] \ {sel}
        BY <3>1 DEF Delete, WroteSeat
      <4> QED
        BY <4>1
    <3>2. CASE DeleteFails(p)
      <4>1. stale'[p] = stale[p] \cup {sel}
        BY <3>2 DEF DeleteFails, CInv, IInv, TypeOK
      <4> QED
        BY <4>1
    <3> QED
      BY <3>1, <3>2
  <2>2. ~Delete(p) => sel \in stale'[p]
    BY DEF DeleteFails, CInv, IInv, TypeOK
  <2>3. todo[p] = {}
    BY <1>1 DEF CInv, IInv, SaveInv, Saving
  <2>4. ASSUME NEW s \in Seats(f)
        PROVE  SeatCoherent(sm, DetailsAt(bookings'[t], s[1], s[2]), s,
                            s \in todo'[p], s \in stale'[p])
    <3>1. SeatCoherent(seatMap[p], DetailsAt(bookings[t], s[1], s[2]), s,
                       FALSE, s \in stale[p])
      BY <1>1, IdleSeat
    <3>2. CASE s = sel
      <4>1. s \notin stale'[p] => DetailsAt(bookings'[t], s[1], s[2]) = {}
        BY <1>2, <1>6, <2>2, <3>2
      <4> QED
        BY <1>3, <1>5, <2>3, <3>2, <4>1 DEF SeatCoherent
    <3>3. CASE s # sel
      <4>1. DetailsAt(bookings'[t], s[1], s[2]) = DetailsAt(bookings[t], s[1], s[2])
        BY <1>2, <1>6, <3>3
      <4> QED
        BY <1>3, <1>5, <2>1, <2>3, <3>1, <3>3, <4>1 DEF SeatCoherent
    <3> QED
      BY <3>2, <3>3
  <2> QED
    BY <1>5, <2>4 DEF Coherent, BookingTable, Seats
<1>9. LogOfMap(p)'
  <2>1. sel \in Seats(f) => IsSeatAvailable(sm, SelRow(p), SelCol(p))
    <3> SUFFICES ASSUME sel \in Seats(f)
                 PROVE  IsSeatAvailable(sm, SelRow(p), SelCol(p))
      OBVIOUS
    <3>1. IsSeat(sm, sel[1], sel[2])
      BY <1>2, FlightsAssumption DEF IsSeat, SeatMaps
    <3> QED
      BY <1>3, <3>1 DEF IsSeatAvailable, SelRow, SelCol
  <2> QED
    BY <1>1, <1>5, <2>1 DEF LogOfMap, SelRow, SelCol, Seats
<1> QED
  BY <1>7, <1>8, <1>9

\* Every step of an instance preserves the invariant.
LEMMA ProcessKeepsCInv ==
    ASSUME CInv, NEW p \in Procs, Process(p)
    PROVE  CInv'
<1>1. IInv'
  BY ProcessKeepsIInv DEF CInv
<1>2. \A q \in Procs : Coherent(q)' /\ LogOfMap(q)'
  <2>1. CASE Launch(p) \/ ClickSeat(p) \/ ClearLog(p) \/ BookRefused(p) \/ FinishSave(p)
    BY <2>1, QuietKeepsCInv
  <2>2. CASE Exit(p) \/ Crash(p)
    BY <2>2, StopKeepsCInv DEF Exit, Crash
  <2>3. CASE FrameFails(p) \/ SaveSeatTerminates(p)
    BY <2>3, StopKeepsCInv DEF FrameFails, SaveSeatTerminates
  <2>4. ASSUME NEW f \in Flights, SelectFlightFails(p, f)
        PROVE  \A q \in Procs : Coherent(q)' /\ LogOfMap(q)'
    BY <2>4, StopKeepsCInv DEF SelectFlightFails
  <2>5. ASSUME NEW f \in Flights, SelectFlight(p, f) \/ SelectFlightTruncated(p, f)
        PROVE  \A q \in Procs : Coherent(q)' /\ LogOfMap(q)'
    <3>1. BookingTable(f) \in Tables
      BY <2>5 DEF SelectFlight, SelectFlightTruncated
    <3>2. PICK rows \in SUBSET bookings[BookingTable(f)] : LoadFlight(p, f, rows)
      BY <2>5 DEF SelectFlight, SelectFlightTruncated
    <3> QED
      BY <3>1, <3>2, LoadKeepsCInv
  <2>6. CASE SaveSeat(p)
    BY <2>6, SaveSeatKeepsCInv
  <2>7. CASE SaveSeatFails(p)
    BY <2>7, SaveSeatFailsKeepsCInv
  <2>8. CASE \E d \in Typed : Book(p, d)
    BY <2>8, BookKeepsCInv
  <2>9. CASE Update(p)
    BY <2>9, UpdateKeepsCInv
  <2>10. CASE Delete(p) \/ DeleteFails(p)
    BY <2>10, DeleteKeepsCInv
  <2> QED
    BY <2>1, <2>2, <2>3, <2>4, <2>5, <2>6, <2>7, <2>8, <2>9, <2>10 DEF Process, SaveStep
<1> QED
  BY <1>1, <1>2 DEF CInv

\* A step that changes nothing keeps the invariant.
LEMMA StutterKeepsCInv ==
    ASSUME CInv, UNCHANGED vars
    PROVE  CInv'
<1>1. IInv'
  BY StutterKeepsIInv DEF CInv
<1>2. \A q \in Procs : Coherent(q)' /\ LogOfMap(q)'
  BY KeepsCoherent, KeepsLogOfMap DEF CInv, vars, memory
<1> QED
  BY <1>1, <1>2 DEF CInv

\* The invariant holds of every behaviour.
THEOREM Coherence == Spec => []CInv
<1>1. Init => CInv
  BY InitIInv DEF Init, CInv, Coherent, LogOfMap
<1>2. CInv /\ [Next]_vars => CInv'
  BY ProcessKeepsCInv, StutterKeepsCInv DEF Next
<1> QED
  BY <1>1, <1>2, PTL DEF Spec

-----------------------------------------------------------------------------
(* What follows from it.                                                     *)

\* No details, no row.
LEMMA NoDetailsNoRow ==
    ASSUME NEW rows, NEW r, NEW c
    PROVE  DetailsAt(rows, r, c) = {} <=> At(rows, r, c) = {}
BY DEF DetailsAt

\* The map on display and the table differ only where a save is under way, a call
\* has failed or another instance has written.
THEOREM MapsAgree == Spec => []SessionCoherent
<1>1. CInv => SessionCoherent
  <2> SUFFICES ASSUME CInv, NEW p \in Procs, activeFlight[p] # NoFlight,
                      NEW s \in Seats(activeFlight[p]) \ (stale[p] \cup todo[p])
               PROVE  Agrees(seatMap[p], bookings[BookingTable(activeFlight[p])], s)
    BY DEF SessionCoherent
  <2>1. SeatCoherent(seatMap[p],
            DetailsAt(bookings[BookingTable(activeFlight[p])], s[1], s[2]), s,
            s \in todo[p], s \in stale[p])
    BY DEF CInv, Coherent
  <2> QED
    BY <2>1, NoDetailsNoRow DEF SeatCoherent, Agrees
<1> QED
  BY <1>1, Coherence, PTL

\* What the log window says of the selected seat is true of the file, unless a call
\* failed, another instance wrote the seat, or the seat is taken without a name.
THEOREM ReportsTrue == Spec => []NamedReportsAreTrue
<1>1. CInv => NamedReportsAreTrue
  <2> SUFFICES ASSUME CInv, NEW p \in Procs, status[p] = "idle",
                      selected[p] \notin stale[p],
                      ~(/\ selected[p] \in Seats(activeFlight[p])
                        /\ ~IsSeatAvailable(seatMap[p], SelRow(p), SelCol(p))
                        /\ GetDetails(seatMap[p], SelRow(p), SelCol(p)) \in Unnamed)
               PROVE  ReportIsTrue(p)
    BY DEF NamedReportsAreTrue
  <2> DEFINE f == activeFlight[p]
             r == SelRow(p)
             c == SelCol(p)
             rows == bookings[BookingTable(f)]
  <2>1. LogOfMap(p) /\ selected[p] = <<r, c>>
    BY DEF CInv, IInv, TypeOK, SelRow, SelCol
  <2>2. ASSUME f # NoFlight, selected[p] \in Seats(f)
        PROVE  At(rows, r, c) = {} <=> IsSeatAvailable(seatMap[p], r, c)
    <3>1. SeatCoherent(seatMap[p], DetailsAt(rows, r, c), selected[p], FALSE, FALSE)
      <4>1. SeatCoherent(seatMap[p], DetailsAt(rows, r, c), selected[p], FALSE,
                         selected[p] \in stale[p])
        BY <2>2, IdleSeat DEF SelRow, SelCol
      <4> QED
        BY <4>1 DEF SeatCoherent
    <3>2. IsSeat(seatMap[p], r, c)
      BY <2>2, FlightSeats DEF CInv, SelRow, SelCol
    <3>3. IsSeatAvailable(seatMap[p], r, c) <=> seatMap[p].m_SeatMap[r][c]
      BY <3>2 DEF IsSeatAvailable
    <3>4. GetDetails(seatMap[p], r, c) = seatMap[p].m_Details[r][c]
      BY <3>2 DEF GetDetails
    <3>5. DetailsAt(rows, r, c) = {} <=> seatMap[p].m_SeatMap[r][c]
      BY <2>2, <3>1, <3>3, <3>4 DEF SeatCoherent, SelRow, SelCol
    <3> QED
      BY <3>3, <3>5, NoDetailsNoRow
  <2>3. ASSUME f # NoFlight, selected[p] \notin Seats(f)
        PROVE  At(rows, r, c) = {}
    <3>1. f \in Flights /\ WithinCabin(rows, Rows[f], Cols[f])
      BY <2>3 DEF CInv, IInv, TypeOK, SaveInv, StoredRowsValid
    <3> QED
      BY <2>1, <2>3, <3>1 DEF At, WithinCabin, Seats
  <2>4. CASE log[p] = "Booking Created!"
    <3>1. TakenSeat(p)
      BY <2>1, <2>4 DEF LogOfMap
    <3> QED
      BY <2>2, <2>4, <3>1 DEF TakenSeat, ReportIsTrue
  <2>5. CASE log[p] = "Booking Deleted!"
    <3>1. f # NoFlight /\ (selected[p] \in Seats(f) => IsSeatAvailable(seatMap[p], r, c))
      BY <2>1, <2>5 DEF LogOfMap
    <3> QED
      BY <2>2, <2>3, <2>5, <3>1 DEF ReportIsTrue
  <2>6. CASE log[p] = "Error Booking!"
    <3>1. f # NoFlight /\ ~IsSeatAvailable(seatMap[p], r, c)
      BY <2>1, <2>6 DEF LogOfMap
    <3> QED
      BY <2>2, <2>6, <3>1 DEF ReportIsTrue
  <2>7. CASE log[p] \notin {"Booking Created!", "Booking Deleted!", "Error Booking!"}
    BY <2>7 DEF ReportIsTrue
  <2> QED
    BY <2>4, <2>5, <2>6, <2>7
<1> QED
  BY <1>1, Coherence, PTL

\* A transaction that writes what the seat already holds leaves its row alone.
LEMMA SameRowStays ==
    ASSUME NEW rows \in SUBSET Records(Details), NEW b \in rows, NEW r, NEW c, NEW d,
           b.row = r /\ b.col = c => b.details = d
    PROVE  b \in UpsertBooking(rows, r, c, d)
<1>1. CASE At(rows, r, c) = {}
  BY <1>1 DEF UpsertBooking, InsertRow
<1>2. CASE At(rows, r, c) # {}
  <2>1. b.row = r /\ b.col = c => [b EXCEPT !.details = d] = b
    BY DEF Records
  <2> QED
    BY <1>2, <2>1 DEF UpsertBooking, UpdateRows
<1> QED
  BY <1>1, <1>2

\* A stored booking is lost only by the Delete of its seat, or by a save of an
\* instance whose map of that very seat is out of date.
THEOREM LossesAreStale == Spec => OnlyStaleSeatsAreLost
<1> DEFINE Kept == \A t \in Tables : \A b \in bookings[t] :
                b \in bookings'[t] \/ \E p \in Procs :
                    \/ Delete(p) /\ selected[p] = <<b.row, b.col>>
                    \/ SaveStep(p) /\ <<b.row, b.col>> \in stale[p]
<1>1. CInv /\ [Next]_vars => [Kept]_vars
  <2> SUFFICES ASSUME CInv, NEW p \in Procs, Process(p), NEW u \in Tables,
                      NEW b \in bookings[u], b \notin bookings'[u]
               PROVE  \/ Delete(p) /\ selected[p] = <<b.row, b.col>>
                      \/ SaveStep(p) /\ <<b.row, b.col>> \in stale[p]
    BY DEF Next
  <2> DEFINE t == BookingTable(activeFlight[p])
  <2>1. SaveSeat(p) \/ Delete(p)
    BY DEF Process, SaveStep, Launch, Exit, Crash, FrameFails, ClickSeat, ClearLog,
           SelectFlight, SelectFlightTruncated, SelectFlightFails, LoadFlight, FinishSave,
           SaveSeatFails, SaveSeatTerminates, Book, BookRefused, Update, DeleteFails
  <2>2. bookings[u] \in SUBSET Records(Details) /\ bookings = [v \in Tables |-> bookings[v]]
    BY DEF CInv, IInv, TypeOK
  <2>3. CASE Delete(p)
    <3>1. bookings' = [bookings EXCEPT ![t] = DeleteRows(bookings[t], SelRow(p), SelCol(p))]
      BY <2>3 DEF Delete
    <3>2. u = t /\ b.row = SelRow(p) /\ b.col = SelCol(p)
      BY <2>2, <3>1 DEF DeleteRows, At
    <3>3. selected[p] = <<SelRow(p), SelCol(p)>>
      BY DEF CInv, IInv, TypeOK, SelRow, SelCol
    <3> QED
      BY <2>3, <3>2, <3>3
  <2>4. CASE SaveSeat(p)
    <3>1. PICK s \in todo[p] : bookings' = [bookings EXCEPT ![t] =
               UpsertBooking(@, s[1], s[2], seatMap[p].m_Details[s[1]][s[2]])]
      BY <2>4 DEF SaveSeat
    <3> DEFINE d == seatMap[p].m_Details[s[1]][s[2]]
    <3>2. /\ activeFlight[p] \in Flights /\ activeFlight[p] # NoFlight /\ t \in Tables
          /\ s = <<s[1], s[2]>> /\ s \in Seats(activeFlight[p])
      BY <2>4, TodoFacts, FlightsAssumption DEF SaveSeat, CInv, Seats
    <3>3. SeatCoherent(seatMap[p], DetailsAt(bookings[t], s[1], s[2]), s, TRUE, s \in stale[p])
      <4>1. SeatCoherent(seatMap[p], DetailsAt(bookings[t], s[1], s[2]), s,
                         s \in todo[p], s \in stale[p])
        BY <3>2 DEF CInv, Coherent
      <4> QED
        BY <4>1 DEF SeatCoherent
    <3> HIDE DEF t, d
    <3>4. u = t /\ b \notin UpsertBooking(bookings[t], s[1], s[2], d)
      BY <2>2, <3>1, <3>2 DEF d
    <3>5. b.row = s[1] /\ b.col = s[2] /\ b.details # d
      BY <2>2, <3>4, SameRowStays
    <3>6. b.details \in DetailsAt(bookings[t], s[1], s[2])
      BY <3>4, <3>5 DEF DetailsAt, At
    <3>7. s \in stale[p]
      BY <3>3, <3>5, <3>6 DEF SeatCoherent, d
    <3> QED
      BY <2>4, <3>2, <3>5, <3>7 DEF SaveStep
  <2> QED
    BY <2>1, <2>3, <2>4
<1> QED
  BY <1>1, Coherence, PTL DEF Spec, OnlyStaleSeatsAreLost
=============================================================================
