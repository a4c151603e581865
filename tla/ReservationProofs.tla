-------------------------- MODULE ReservationProofs -------------------------
(***************************************************************************)
(* The safety of Reservation for any number of instances, flights, tables, *)
(* cabin sizes and failures.                                               *)
(***************************************************************************)
EXTENDS Reservation, SeatMapProofs

\* The inductive invariant.  TypeOK alone is not inductive: that a load gives a
\* well-formed map needs the rows to be apart and inside the cabin, and that the
\* rows stay inside the cabin needs to know what a save has yet to write.
IInv == TypeOK /\ NoOutOfBoundsLoad /\ OneRowPerSeat /\ StoredRowsValid /\ SaveInv

\* The map of an instance without a flight has no seats.
LEMMA NoMapType == NoMap \in SeatMaps(0, 0)
BY ConstructType DEF NoMap

\* The program starts in the invariant: empty tables, no process running.
LEMMA InitIInv == Init => IInv
<1> SUFFICES ASSUME Init PROVE IInv
  OBVIOUS
<1> USE DEF Init
<1>1. TypeOK
  <2>1. \A p \in Procs : seatMap[p] \in SeatMaps(CabinRows(p), CabinCols(p))
    BY NoMapType DEF CabinRows, CabinCols
  <2>2. \A t \in Tables : IsFiniteSet(bookings[t])
    BY FS_EmptySet
  <2> QED
    BY <2>1, <2>2 DEF TypeOK, Statuses, Messages
<1>2. NoOutOfBoundsLoad
  BY DEF NoOutOfBoundsLoad
<1>3. OneRowPerSeat
  BY DEF OneRowPerSeat, UniqueSeats
<1>4. StoredRowsValid
  BY DEF StoredRowsValid, WithinCabin
<1>5. SaveInv
  BY DEF SaveInv, Saving
<1> QED
  BY <1>1, <1>2, <1>3, <1>4, <1>5 DEF IInv

\* A process that goes away takes nothing with it but its own memory.
LEMMA StopKeepsIInv ==
    ASSUME IInv, NEW p \in Procs, NEW how \in {"closed", "terminated"},
           Stop(p, how), UNCHANGED bookings, faults' \in Nat
    PROVE  IInv'
<1> USE DEF IInv, Stop
<1>1. TypeOK'
  <2>1. \A q \in Procs : seatMap'[q] \in SeatMaps(CabinRows(q)', CabinCols(q)')
    BY NoMapType DEF TypeOK, CabinRows, CabinCols
  <2>2. seatMap' = [q \in Procs |-> seatMap'[q]]
    BY DEF TypeOK
  <2>3. status' \in [Procs -> Statuses] /\ log' \in [Procs -> Messages]
    BY DEF TypeOK, Statuses, Messages
  <2>4. /\ activeFlight' \in [Procs -> Flights \cup {NoFlight}]
        /\ selected' \in [Procs -> Nat \X Nat]
        /\ todo' \in [Procs -> SUBSET (Nat \X Nat)]
        /\ stale' \in [Procs -> SUBSET (Nat \X Nat)]
    BY DEF TypeOK
  <2> QED
    BY <2>1, <2>2, <2>3, <2>4 DEF TypeOK
<1>2. NoOutOfBoundsLoad'
  BY DEF NoOutOfBoundsLoad, TypeOK
<1>3. OneRowPerSeat' /\ StoredRowsValid'
  BY DEF OneRowPerSeat, StoredRowsValid
<1>4. SaveInv'
  BY DEF SaveInv, TypeOK, Saving
<1> QED
  BY <1>1, <1>2, <1>3, <1>4

\* Selecting a flight: the load is defined and gives a map of the new cabin,
\* whichever of the rows the SELECT delivers.
LEMMA LoadKeepsIInv ==
    ASSUME IInv, NEW p \in Procs, NEW f \in Flights, BookingTable(f) \in Tables,
           NEW rows \in SUBSET bookings[BookingTable(f)],
           status[p] = "idle", LoadFlight(p, f, rows), faults' \in Nat
    PROVE  IInv'
<1> DEFINE t == BookingTable(f)
           new == Construct(Rows[f], Cols[f])
           sm == LoadFromFlightInformation(new, Rows[f], Cols[f], rows)
<1>1. Rows[f] \in Nat /\ Cols[f] \in Nat /\ NoFlight # f
  BY FlightsAssumption
<1>2. /\ bookings[t] \in SUBSET Records(Details) /\ IsFiniteSet(bookings[t])
      /\ UniqueSeats(bookings[t]) /\ WithinCabin(bookings[t], Rows[f], Cols[f])
  BY DEF IInv, TypeOK, OneRowPerSeat, StoredRowsValid
<1>3. rows \in SUBSET Records(Details) /\ UniqueSeats(rows)
      /\ WithinCabin(rows, Rows[f], Cols[f])
  BY <1>2, SubsetKeepsRows DEF WithinCabin
<1>4. LoadIsDefined(new, rows) /\ sm \in SeatMaps(Rows[f], Cols[f])
  BY <1>1, <1>3, LoadType
<1> HIDE DEF sm, new
<1>5. /\ status' = [status EXCEPT ![p] = "idle"]
      /\ activeFlight' = [activeFlight EXCEPT ![p] = f]
      /\ seatMap' = [seatMap EXCEPT ![p] = sm]
      /\ log' = [log EXCEPT ![p] = "Flight Selected"]
      /\ stale' = [stale EXCEPT ![p] = {<<b.row, b.col>> : b \in bookings[t] \ rows}]
      /\ UNCHANGED <<selected, todo, bookings>>
  BY <1>4 DEF LoadFlight, sm, new
<1>6. TypeOK'
  <2>1. \A q \in Procs : seatMap'[q] \in SeatMaps(CabinRows(q)', CabinCols(q)')
    BY <1>1, <1>4, <1>5 DEF IInv, TypeOK, CabinRows, CabinCols
  <2>2. seatMap' = [q \in Procs |-> seatMap'[q]]
    BY <1>5 DEF IInv, TypeOK
  <2>3. {<<b.row, b.col>> : b \in bookings[t] \ rows} \in SUBSET (Nat \X Nat)
    BY <1>2 DEF Records
  <2>4. stale' \in [Procs -> SUBSET (Nat \X Nat)]
    BY <1>5, <2>3 DEF IInv, TypeOK
  <2>5. status' \in [Procs -> Statuses] /\ log' \in [Procs -> Messages]
    BY <1>5 DEF IInv, TypeOK, Statuses, Messages
  <2>6. activeFlight' \in [Procs -> Flights \cup {NoFlight}]
    BY <1>5 DEF IInv, TypeOK
  <2> QED
    BY <1>5, <2>1, <2>2, <2>4, <2>5, <2>6 DEF IInv, TypeOK
<1>7. NoOutOfBoundsLoad'
  BY <1>5 DEF IInv, TypeOK, NoOutOfBoundsLoad
<1>8. OneRowPerSeat' /\ StoredRowsValid'
  BY <1>5 DEF IInv, OneRowPerSeat, StoredRowsValid
<1>9. SaveInv'
  BY <1>1, <1>5 DEF IInv, SaveInv, TypeOK, Saving
<1> QED
  BY <1>6, <1>7, <1>8, <1>9 DEF IInv

\* The part of a Book or Update before the first transaction.
LEMMA StartSavingKeepsIInv ==
    ASSUME IInv, NEW p \in Procs, NEW phase \in Saving,
           activeFlight[p] # NoFlight,
           NEW sm \in SeatMaps(CabinRows(p), CabinCols(p)),
           StartSaving(p, phase, sm),
           UNCHANGED <<activeFlight, selected, log, bookings, faults, stale>>
    PROVE  IInv'
<1> USE DEF IInv, StartSaving
<1>1. activeFlight[p] \in Flights /\ CabinRows(p) \in Nat /\ CabinCols(p) \in Nat
  BY FlightsAssumption DEF TypeOK, CabinRows, CabinCols
<1>2. NamedSeats(sm) \in SUBSET (Nat \X Nat)
  BY <1>1 DEF NamedSeats, SeatMaps
<1>3. TypeOK'
  <2>1. \A q \in Procs : seatMap'[q] \in SeatMaps(CabinRows(q)', CabinCols(q)')
    BY DEF TypeOK, CabinRows, CabinCols
  <2>2. seatMap' = [q \in Procs |-> seatMap'[q]]
    BY DEF TypeOK
  <2>3. todo' \in [Procs -> SUBSET (Nat \X Nat)]
    BY <1>2 DEF TypeOK
  <2>4. status' \in [Procs -> Statuses]
    BY DEF TypeOK, Statuses
  <2> QED
    BY <2>1, <2>2, <2>3, <2>4 DEF TypeOK
<1>4. NoOutOfBoundsLoad'
  BY DEF NoOutOfBoundsLoad, TypeOK, Saving
<1>5. OneRowPerSeat' /\ StoredRowsValid'
  BY DEF OneRowPerSeat, StoredRowsValid
<1>6. SaveInv'
  BY DEF SaveInv, TypeOK
<1> QED
  BY <1>3, <1>4, <1>5, <1>6

\* The other instances learn of a write only by having a stale seat more.
LEMMA WroteSeatType ==
    ASSUME TypeOK, NEW p \in Procs, NEW t, NEW s \in Nat \X Nat, WroteSeat(p, t, s)
    PROVE  stale' \in [Procs -> SUBSET (Nat \X Nat)]
BY DEF TypeOK, WroteSeat

\* What the save loop knows of the seat it is about to write.
LEMMA TodoFacts ==
    ASSUME IInv, NEW p \in Procs, status[p] \in Saving, NEW s \in todo[p]
    PROVE  LET f == activeFlight[p] IN
           /\ f \in Flights /\ BookingTable(f) \in Tables
           /\ s[1] \in 0 .. Rows[f] - 1 /\ s[2] \in 0 .. Cols[f] - 1
           /\ s = <<s[1], s[2]>>
           /\ seatMap[p].m_Details[s[1]][s[2]] \in Named
<1> DEFINE f == activeFlight[p]
<1>1. f # NoFlight /\ s \in NamedSeats(seatMap[p]) /\ BookingTable(f) \in Tables
  BY DEF IInv, SaveInv
<1>2. f \in Flights
  BY <1>1 DEF IInv, TypeOK
<1>3. seatMap[p] \in SeatMaps(Rows[f], Cols[f])
  BY <1>1 DEF IInv, TypeOK, CabinRows, CabinCols
<1>4. Rows[f] \in Nat /\ Cols[f] \in Nat
  BY <1>2, FlightsAssumption
<1> HIDE DEF f
<1>5. /\ s \in (0 .. Rows[f] - 1) \X (0 .. Cols[f] - 1)
      /\ seatMap[p].m_Details[s[1]][s[2]] \notin Unnamed
  BY <1>1, <1>3 DEF NamedSeats, SeatMaps
<1>6. seatMap[p].m_Details[s[1]][s[2]] \in Details
  BY <1>3, <1>4, <1>5 DEF SeatMaps
<1> QED
  BY <1>1, <1>2, <1>5, <1>6 DEF f, Named

\* The transaction of a seat writes a named row inside the cabin of every flight
\* that has the table, and leaves one row per seat.
LEMMA SaveSeatKeepsIInv ==
    ASSUME IInv, NEW p \in Procs, SaveSeat(p)
    PROVE  IInv'
<1> DEFINE f == activeFlight[p]
           t == BookingTable(f)
<1>1. PICK s \in todo[p] :
        /\ bookings' = [bookings EXCEPT ![t] =
               UpsertBooking(@, s[1], s[2], seatMap[p].m_Details[s[1]][s[2]])]
        /\ todo' = [todo EXCEPT ![p] = @ \ {s}]
        /\ WroteSeat(p, t, s)
  BY DEF SaveSeat
<1>2. status[p] \in Saving
      /\ UNCHANGED <<status, activeFlight, seatMap, selected, log, faults>>
  BY DEF SaveSeat
<1> DEFINE r == s[1]
           c == s[2]
           d == seatMap[p].m_Details[r][c]
           rows == UpsertBooking(bookings[t], r, c, d)
<1>3. /\ f \in Flights /\ t \in Tables
      /\ r \in 0 .. Rows[f] - 1 /\ c \in 0 .. Cols[f] - 1
      /\ s = <<r, c>> /\ d \in Named
  BY <1>2, TodoFacts
<1>4. Rows[f] \in Nat /\ Cols[f] \in Nat
  BY <1>3, FlightsAssumption
<1>5. r \in Nat /\ c \in Nat /\ d \in Details
  BY <1>3, <1>4 DEF Named
<1>6. /\ bookings[t] \in SUBSET Records(Details) /\ IsFiniteSet(bookings[t])
      /\ UniqueSeats(bookings[t])
  BY <1>3 DEF IInv, TypeOK, OneRowPerSeat
<1>7. bookings' = [bookings EXCEPT ![t] = rows]
  BY <1>1
<1> HIDE DEF f, t, r, c, d
<1>8. /\ rows \in SUBSET Records(Details) /\ IsFiniteSet(rows) /\ UniqueSeats(rows)
  BY <1>5, <1>6, UpsertType, UpsertKeepsUnique
<1>9. ASSUME NEW g \in Flights, BookingTable(g) = t
      PROVE  /\ WithinCabin(rows, Rows[g], Cols[g])
             /\ \A b \in rows : b.details \in Named
  <2>1. /\ WithinCabin(bookings[t], Rows[g], Cols[g])
        /\ \A b \in bookings[t] : b.details \in Named
    BY <1>3, <1>9 DEF IInv, StoredRowsValid
  <2>2. Rows[g] = Rows[f] /\ Cols[g] = Cols[f]
    BY <1>3, <1>9, SharedTableAssumption DEF t, BookingTable
  <2>3. WithinCabin(rows, Rows[g], Cols[g])
    BY <1>3, <1>4, <1>5, <1>6, <2>1, <2>2, UpsertWithinCabin
  <2>4. \A b \in rows : b.details \in Named
    BY <1>3, <1>6, <2>1 DEF UpsertBooking, UpdateRows, InsertRow, Records
  <2> QED
    BY <2>3, <2>4
<1> HIDE DEF rows
<1>10. TypeOK'
  <2>1. stale' \in [Procs -> SUBSET (Nat \X Nat)]
    BY <1>1, <1>3, <1>5, WroteSeatType DEF IInv
  <2>2. todo' \in [Procs -> SUBSET (Nat \X Nat)]
    BY <1>1 DEF IInv, TypeOK
  <2>3. /\ bookings' \in [Tables -> SUBSET Records(Details)]
        /\ \A u \in Tables : IsFiniteSet(bookings'[u])
    BY <1>7, <1>8 DEF IInv, TypeOK
  <2>4. \A q \in Procs : seatMap'[q] \in SeatMaps(CabinRows(q)', CabinCols(q)')
    BY <1>2 DEF IInv, TypeOK, CabinRows, CabinCols
  <2> QED
    BY <1>2, <2>1, <2>2, <2>3, <2>4 DEF IInv, TypeOK
<1>11. NoOutOfBoundsLoad'
  BY <1>2 DEF IInv, NoOutOfBoundsLoad
<1>12. OneRowPerSeat'
  BY <1>7, <1>8 DEF IInv, TypeOK, OneRowPerSeat
<1>13. StoredRowsValid'
  <2> SUFFICES ASSUME NEW g \in Flights, BookingTable(g) \in Tables
               PROVE  /\ WithinCabin(bookings'[BookingTable(g)], Rows[g], Cols[g])
                      /\ \A b \in bookings'[BookingTable(g)] : b.details \in Named
    BY DEF StoredRowsValid, BookingTable
  <2>1. CASE BookingTable(g) = t
    BY <1>3, <1>7, <1>9, <2>1 DEF IInv, TypeOK
  <2>2. CASE BookingTable(g) # t
    BY <1>7, <2>2 DEF IInv, TypeOK, StoredRowsValid
  <2> QED
    BY <2>1, <2>2
<1>14. SaveInv'
  BY <1>1, <1>2 DEF IInv, TypeOK, SaveInv, BookingTable
<1> QED
  BY <1>10, <1>11, <1>12, <1>13, <1>14 DEF IInv

\* CancelBooking on the selected seat, in the cabin or not, keeps the map whole.
LEMMA CancelSelectedType ==
    ASSUME IInv, NEW p \in Procs
    PROVE  /\ CancelBooking(seatMap[p], SelRow(p), SelCol(p))
                \in SeatMaps(CabinRows(p), CabinCols(p))
           /\ SelRow(p) \in Nat /\ SelCol(p) \in Nat
           /\ CabinRows(p) \in Nat /\ CabinCols(p) \in Nat
<1>1. SelRow(p) \in Nat /\ SelCol(p) \in Nat
  BY DEF IInv, TypeOK, SelRow, SelCol
<1>2. CabinRows(p) \in Nat /\ CabinCols(p) \in Nat
  BY FlightsAssumption DEF IInv, TypeOK, CabinRows, CabinCols
<1>3. seatMap[p] \in SeatMaps(CabinRows(p), CabinCols(p))
  BY DEF IInv, TypeOK
<1> QED
  BY <1>1, <1>2, <1>3, CancelBookingType

\* The Delete button only ever removes rows.
LEMMA DeleteKeepsIInv ==
    ASSUME IInv, NEW p \in Procs, Delete(p) \/ DeleteFails(p)
    PROVE  IInv'
<1> DEFINE t == BookingTable(activeFlight[p])
           sm == CancelBooking(seatMap[p], SelRow(p), SelCol(p))
<1>1. /\ seatMap' = [seatMap EXCEPT ![p] = sm]
      /\ log' = [log EXCEPT ![p] = "Booking Deleted!"]
      /\ UNCHANGED <<status, activeFlight, selected, todo>>
      /\ status[p] = "idle"
  BY DEF Delete, DeleteFails, CanManage
<1>2. sm \in SeatMaps(CabinRows(p), CabinCols(p))
  BY CancelSelectedType
<1>3. /\ \A u \in Tables : bookings'[u] \in SUBSET bookings[u]
      /\ bookings' = [u \in Tables |-> bookings'[u]]
  <2>1. CASE Delete(p)
    <3>1. bookings' = [bookings EXCEPT ![t] = DeleteRows(@, SelRow(p), SelCol(p))]
      BY <2>1 DEF Delete
    <3>2. DeleteRows(bookings[t], SelRow(p), SelCol(p)) \in SUBSET bookings[t]
      BY DEF DeleteRows
    <3> HIDE DEF t
    <3> QED
      BY <3>1, <3>2 DEF IInv, TypeOK
  <2>2. CASE DeleteFails(p)
    <3>1. bookings' = bookings
      BY <2>2 DEF DeleteFails
    <3> QED
      BY <3>1 DEF IInv, TypeOK
  <2> QED
    BY <2>1, <2>2
<1>4. faults' \in Nat
  <2>1. faults \in Nat
    BY DEF IInv, TypeOK
  <2>2. faults' = faults \/ Fault(FALSE)
    BY DEF Delete, DeleteFails
  <2> QED
    BY <2>1, <2>2 DEF Fault
<1>5. stale' \in [Procs -> SUBSET (Nat \X Nat)]
  <2>1. selected[p] \in Nat \X Nat /\ stale \in [Procs -> SUBSET (Nat \X Nat)]
    BY DEF IInv, TypeOK
  <2>2. CASE Delete(p)
    BY <2>1, <2>2, WroteSeatType DEF Delete, IInv
  <2>3. CASE DeleteFails(p)
    <3>1. stale' = [stale EXCEPT ![p] = @ \cup {selected[p]}]
      BY <2>3 DEF DeleteFails
    <3> QED
      BY <2>1, <3>1
  <2> QED
    BY <2>2, <2>3
<1> HIDE DEF sm
<1>6. TypeOK'
  <2>1. \A q \in Procs : seatMap'[q] \in SeatMaps(CabinRows(q)', CabinCols(q)')
    BY <1>1, <1>2 DEF IInv, TypeOK, CabinRows, CabinCols
  <2>2. seatMap' = [q \in Procs |-> seatMap'[q]]
    BY <1>1 DEF IInv, TypeOK
  <2>3. \A u \in Tables : bookings'[u] \in SUBSET Records(Details)
                           /\ IsFiniteSet(bookings'[u])
    BY <1>3, SubsetKeepsRows DEF IInv, TypeOK, OneRowPerSeat
  <2>4. bookings' \in [Tables -> SUBSET Records(Details)]
    BY <1>3, <2>3
  <2>5. log' \in [Procs -> Messages]
    BY <1>1 DEF IInv, TypeOK, Messages
  <2> QED
    BY <1>1, <1>4, <1>5, <2>1, <2>2, <2>3, <2>4, <2>5 DEF IInv, TypeOK
<1>7. NoOutOfBoundsLoad'
  BY <1>1 DEF IInv, NoOutOfBoundsLoad
<1>8. OneRowPerSeat'
  BY <1>3, SubsetKeepsRows DEF IInv, TypeOK, OneRowPerSeat
<1>9. StoredRowsValid'
  BY <1>3 DEF IInv, StoredRowsValid, WithinCabin, BookingTable
<1>10. SaveInv'
  BY <1>1 DEF IInv, TypeOK, SaveInv, Saving, BookingTable
<1> QED
  BY <1>6, <1>7, <1>8, <1>9, <1>10 DEF IInv

\* The steps that leave the maps, the tables and the flights as they are.
LEMMA QuietKeepsIInv ==
    ASSUME IInv, UNCHANGED <<activeFlight, seatMap, bookings>>,
           status' \in [Procs -> Statuses], log' \in [Procs -> Messages],
           selected' \in [Procs -> Nat \X Nat],
           todo' \in [Procs -> SUBSET (Nat \X Nat)],
           stale' \in [Procs -> SUBSET (Nat \X Nat)], faults' \in Nat,
           \A q \in Procs :
              /\ status'[q] = status[q] \/ (status'[q] = "idle" /\ todo'[q] = {})
              /\ todo'[q] \subseteq todo[q]
    PROVE  IInv'
<1>1. TypeOK'
  BY DEF IInv, TypeOK, CabinRows, CabinCols
<1>2. NoOutOfBoundsLoad'
  BY DEF IInv, NoOutOfBoundsLoad
<1>3. OneRowPerSeat' /\ StoredRowsValid'
  BY DEF IInv, OneRowPerSeat, StoredRowsValid
<1>4. SaveInv'
  BY DEF IInv, SaveInv, Saving
<1> QED
  BY <1>1, <1>2, <1>3, <1>4 DEF IInv

\* A failed call is one more fault; a failure with a cause of its own is none.
LEMMA FaultType ==
    ASSUME IInv, NEW cause \in BOOLEAN, Fault(cause)
    PROVE  faults' \in Nat
<1>1. faults \in Nat
  BY DEF IInv, TypeOK
<1> QED
  BY <1>1 DEF Fault

\* Every step of an instance preserves the invariant.
LEMMA ProcessKeepsIInv ==
    ASSUME IInv, NEW p \in Procs, Process(p)
    PROVE  IInv'
<1>1. CASE Launch(p)
  <2>1. status' \in [Procs -> Statuses]
    BY <1>1 DEF Launch, IInv, TypeOK, Statuses
  <2>2. todo[p] = {}
    BY <1>1 DEF Launch, IInv, SaveInv, Saving
  <2> QED
    BY <1>1, <2>1, <2>2, QuietKeepsIInv DEF Launch, memory, IInv, TypeOK
<1>2. CASE Exit(p) \/ Crash(p)
  BY <1>2, StopKeepsIInv DEF Exit, Crash, IInv, TypeOK
<1>3. CASE FrameFails(p)
  <2>1. faults' \in Nat
    BY <1>3, FaultType DEF FrameFails
  <2> QED
    BY <1>3, <2>1, StopKeepsIInv DEF FrameFails
<1>4. CASE ClickSeat(p)
  <2>1. CabinRows(p) \in Nat /\ CabinCols(p) \in Nat
        /\ seatMap[p] \in SeatMaps(CabinRows(p), CabinCols(p))
    BY CancelSelectedType DEF IInv, TypeOK
  <2>2. PICK r \in DOMAIN seatMap[p].m_SeatMap :
          \E c \in DOMAIN seatMap[p].m_SeatMap[r] :
             selected' = [selected EXCEPT ![p] = <<r, c>>]
    BY <1>4 DEF ClickSeat
  <2>3. r \in Nat /\ DOMAIN seatMap[p].m_SeatMap[r] \subseteq Nat
    BY <2>1, <2>2 DEF SeatMaps
  <2>4. selected' \in [Procs -> Nat \X Nat]
    BY <2>2, <2>3 DEF IInv, TypeOK
  <2>5. log' \in [Procs -> Messages]
    BY <1>4 DEF ClickSeat, IInv, TypeOK, Messages
  <2> QED
    BY <1>4, <2>4, <2>5, QuietKeepsIInv DEF ClickSeat, IInv, TypeOK
<1>5. ASSUME NEW f \in Flights, SelectFlight(p, f)
      PROVE  IInv'
  BY <1>5, LoadKeepsIInv DEF SelectFlight, IInv, TypeOK
<1>6. ASSUME NEW f \in Flights, SelectFlightTruncated(p, f)
      PROVE  IInv'
  <2>1. faults' \in Nat
    BY <1>6, FaultType DEF SelectFlightTruncated
  <2> QED
    BY <1>6, <2>1, LoadKeepsIInv DEF SelectFlightTruncated
<1>7. ASSUME NEW f \in Flights, SelectFlightFails(p, f)
      PROVE  IInv'
  <2>1. faults' \in Nat
    BY <1>7, FaultType DEF SelectFlightFails
  <2> QED
    BY <1>7, <2>1, StopKeepsIInv DEF SelectFlightFails
<1>8. CASE SaveSeat(p)
  BY <1>8, SaveSeatKeepsIInv
<1>9. CASE FinishSave(p)
  <2>1. status' \in [Procs -> Statuses] /\ log' \in [Procs -> Messages]
    BY <1>9 DEF FinishSave, IInv, TypeOK, Statuses, Messages
  <2> QED
    BY <1>9, <2>1, QuietKeepsIInv DEF FinishSave, IInv, TypeOK
<1>10. CASE SaveSeatFails(p)
  <2>1. faults' \in Nat
    BY <1>10, FaultType DEF SaveSeatFails
  <2>2. PICK s \in todo[p] : /\ todo' = [todo EXCEPT ![p] = @ \ {s}]
                             /\ stale' = [stale EXCEPT ![p] = @ \cup {s}]
    BY <1>10 DEF SaveSeatFails
  <2>3. /\ todo' \in [Procs -> SUBSET (Nat \X Nat)]
        /\ stale' \in [Procs -> SUBSET (Nat \X Nat)]
        /\ \A q \in Procs : todo'[q] \subseteq todo[q]
    BY <2>2 DEF IInv, TypeOK
  <2> QED
    BY <1>10, <2>1, <2>3, QuietKeepsIInv DEF SaveSeatFails, IInv, TypeOK
<1>11. CASE SaveSeatTerminates(p)
  <2>1. faults' \in Nat
    BY <1>11, FaultType DEF SaveSeatTerminates
  <2> QED
    BY <1>11, <2>1, StopKeepsIInv DEF SaveSeatTerminates
<1>12. ASSUME NEW d \in Typed, Book(p, d)
       PROVE  IInv'
  <2>1. BookSeat(seatMap[p], SelRow(p), SelCol(p), d)
          \in SeatMaps(CabinRows(p), CabinCols(p))
    BY CancelSelectedType, BookSeatType, FlightsAssumption DEF IInv, TypeOK
  <2> QED
    BY <1>12, <2>1, StartSavingKeepsIInv DEF Book, Saving
<1>13. CASE BookRefused(p)
  <2>1. log' \in [Procs -> Messages]
    BY <1>13 DEF BookRefused, IInv, TypeOK, Messages
  <2> QED
    BY <1>13, <2>1, QuietKeepsIInv DEF BookRefused, IInv, TypeOK
<1>14. CASE Update(p)
  <2> DEFINE fields == GetDetails(seatMap[p], SelRow(p), SelCol(p))
             cleared == CancelBooking(seatMap[p], SelRow(p), SelCol(p))
  <2>1. fields \in Details
    BY CancelSelectedType, GetDetailsType DEF IInv, TypeOK
  <2>2. cleared \in SeatMaps(CabinRows(p), CabinCols(p))
    BY CancelSelectedType
  <2>3. BookSeat(cleared, SelRow(p), SelCol(p), fields)
          \in SeatMaps(CabinRows(p), CabinCols(p))
    <3> HIDE DEF fields, cleared
    <3> QED
      BY <2>1, <2>2, CancelSelectedType, BookSeatType
  <2> QED
    BY <1>14, <2>3, StartSavingKeepsIInv DEF Update, CanManage, Saving
<1>15. CASE Delete(p) \/ DeleteFails(p)
  BY <1>15, DeleteKeepsIInv
<1>16. CASE ClearLog(p)
  <2>1. log' \in [Procs -> Messages]
    BY <1>16 DEF ClearLog, IInv, TypeOK, Messages
  <2> QED
    BY <1>16, <2>1, QuietKeepsIInv DEF ClearLog, IInv, TypeOK
<1> QED
  BY <1>1, <1>2, <1>3, <1>4, <1>5, <1>6, <1>7, <1>8, <1>9, <1>10, <1>11, <1>12,
     <1>13, <1>14, <1>15, <1>16 DEF Process, SaveStep

\* A step that changes nothing keeps the invariant.
LEMMA StutterKeepsIInv ==
    ASSUME IInv, UNCHANGED vars
    PROVE  IInv'
BY QuietKeepsIInv DEF vars, memory, IInv, TypeOK

\* The invariant holds of every behaviour, for any number of instances, flights,
\* cabin sizes and failing calls.
THEOREM Invariance == Spec => []IInv
<1>1. IInv /\ [Next]_vars => IInv'
  BY ProcessKeepsIInv, StutterKeepsIInv DEF Next
<1> QED
  BY InitIInv, <1>1, PTL DEF Spec

\* Type correctness of the program's memory and of the file.
THEOREM TypeCorrect == Spec => []TypeOK
<1>1. IInv => TypeOK
  BY DEF IInv
<1> QED
  BY Invariance, <1>1, PTL

\* The unchecked indexing of SeatMap::LoadFromFlightInformation never leaves the
\* vectors: no run of any number of instances writes a row outside the cabin.
THEOREM LoadsInBounds == Spec => []NoOutOfBoundsLoad
<1>1. IInv => NoOutOfBoundsLoad
  BY DEF IInv
<1> QED
  BY Invariance, <1>1, PTL

\* No seat has two rows, in a table without a key, however the transactions of
\* the instances interleave and whichever of them fail.
THEOREM SeatsUnique == Spec => []OneRowPerSeat
<1>1. IInv => OneRowPerSeat
  BY DEF IInv
<1> QED
  BY Invariance, <1>1, PTL

\* The file holds rows only for seats of the cabin, and only under a name.
THEOREM RowsValid == Spec => []StoredRowsValid
<1>1. IInv => StoredRowsValid
  BY DEF IInv
<1> QED
  BY Invariance, <1>1, PTL

-----------------------------------------------------------------------------
(* Reservation implements BookingStore.                                      *)

\* The steps that change a table, SaveSeat and Delete, change one seat of it: a
\* Put or a Remove of the abstract store.
LEMMA StoreStep ==
    ASSUME IInv, NEW p \in Procs, Process(p), bookings' # bookings
    PROVE  Store!Next
<1> DEFINE f == activeFlight[p]
           t == BookingTable(f)
<1>1. SaveSeat(p) \/ Delete(p)
  BY DEF Process, SaveStep, Launch, Exit, Crash, FrameFails, ClickSeat, ClearLog, SelectFlight,
         SelectFlightTruncated, SelectFlightFails, LoadFlight, FinishSave,
         SaveSeatFails, SaveSeatTerminates, Book, BookRefused, Update, DeleteFails
<1>2. CASE SaveSeat(p)
  <2>1. PICK s \in todo[p] : bookings' = [bookings EXCEPT ![t] =
               UpsertBooking(@, s[1], s[2], seatMap[p].m_Details[s[1]][s[2]])]
    BY <1>2 DEF SaveSeat
  <2> DEFINE d == seatMap[p].m_Details[s[1]][s[2]]
  <2>2. /\ f \in Flights /\ t \in Tables
        /\ s[1] \in 0 .. Rows[f] - 1 /\ s[2] \in 0 .. Cols[f] - 1
        /\ s = <<s[1], s[2]>> /\ d \in Named
    BY <1>2, TodoFacts DEF SaveSeat
  <2>3. s \in SeatsOfFlights
    BY <2>2 DEF SeatsOfFlights, Seats
  <2>4. s[1] \in Nat /\ s[2] \in Nat /\ d \in Details
        /\ bookings[t] \in SUBSET Records(Details)
    BY <2>2, FlightsAssumption DEF Named, IInv, TypeOK
  <2> HIDE DEF d, t
  <2>5. ASSUME NEW u \in Tables, NEW q \in SeatsOfFlights
        PROVE  DetailsAt(bookings'[u], q[1], q[2])
                 = IF u = t /\ q = s THEN {d} ELSE DetailsAt(bookings[u], q[1], q[2])
    <3>1. CASE u # t
      BY <2>1, <3>1 DEF IInv, TypeOK
    <3>2. CASE u = t
      <4>1. bookings'[t] = UpsertBooking(bookings[t], s[1], s[2], d)
        BY <2>1, <2>2 DEF IInv, TypeOK, d
      <4>2. q[1] = s[1] /\ q[2] = s[2] <=> q = s
        BY <2>2 DEF SeatsOfFlights, Seats
      <4>3. DetailsAt(UpsertBooking(bookings[t], s[1], s[2], d), q[1], q[2])
              = IF q[1] = s[1] /\ q[2] = s[2]
                THEN {d} ELSE DetailsAt(bookings[t], q[1], q[2])
        <5> DEFINE r == s[1]
                   c == s[2]
                   i == q[1]
                   j == q[2]
                   rows == bookings[t]
        <5>1. r \in Nat /\ c \in Nat /\ d \in Details /\ rows \in SUBSET Records(Details)
          BY <2>4
        <5> HIDE DEF r, c, i, j, rows
        <5>2. DetailsAt(UpsertBooking(rows, r, c, d), i, j)
                = IF i = r /\ j = c THEN {d} ELSE DetailsAt(rows, i, j)
          BY <5>1, UpsertEffect
        <5> QED
          BY <5>2 DEF r, c, i, j, rows
      <4> QED
        BY <3>2, <4>1, <4>2, <4>3
    <3> QED
      BY <3>1, <3>2
  <2>6. Contents' = [Contents EXCEPT ![t][s] = {d}]
    BY <2>2, <2>3, <2>5 DEF Contents
  <2>7. {d} \in Passengers
    BY <2>2 DEF Passengers
  <2> QED
    BY <2>2, <2>3, <2>6, <2>7 DEF Store!Next, Store!Put
<1>3. CASE Delete(p)
  <2> DEFINE s == selected[p]
  <2>1. bookings' = [bookings EXCEPT ![t] = DeleteRows(@, s[1], s[2])]
    BY <1>3 DEF Delete, SelRow, SelCol
  <2>2. t \in Tables
    BY <1>3 DEF Delete, CanManage, IInv, SaveInv
  <2>3. s \in Nat \X Nat
    BY DEF IInv, TypeOK
  <2> HIDE DEF s, t
  <2>4. PICK b \in bookings[t] : b.row = s[1] /\ b.col = s[2]
    BY <2>1, <2>2 DEF DeleteRows, At, IInv, TypeOK
  <2>5. s \in SeatsOfFlights
    <3>1. /\ f \in Flights
          /\ WithinCabin(bookings[t], Rows[f], Cols[f])
      BY <1>3, <2>2 DEF Delete, CanManage, IInv, TypeOK, StoredRowsValid, t
    <3>2. s[1] \in 0 .. Rows[f] - 1 /\ s[2] \in 0 .. Cols[f] - 1
      BY <2>4, <3>1 DEF WithinCabin
    <3> QED
      BY <2>3, <3>1, <3>2 DEF SeatsOfFlights, Seats
  <2>6. ASSUME NEW u \in Tables, NEW q \in SeatsOfFlights
        PROVE  DetailsAt(bookings'[u], q[1], q[2])
                 = IF u = t /\ q = s THEN {} ELSE DetailsAt(bookings[u], q[1], q[2])
    <3>1. q[1] = s[1] /\ q[2] = s[2] <=> q = s
      BY <2>3 DEF SeatsOfFlights, Seats
    <3>2. bookings'[u] = IF u = t THEN DeleteRows(bookings[t], s[1], s[2])
                                  ELSE bookings[u]
      BY <2>1 DEF IInv, TypeOK
    <3> QED
      BY <3>1, <3>2 DEF DetailsAt, At, DeleteRows
  <2>7. Contents' = [Contents EXCEPT ![t][s] = {}]
    BY <2>2, <2>5, <2>6 DEF Contents
  <2> QED
    BY <2>2, <2>5, <2>7 DEF Store!Next, Store!Remove
<1> QED
  BY <1>1, <1>2, <1>3

\* The detailed specification implements the abstract store: whatever the
\* instances do and whichever calls fail, the file changes by whole bookings,
\* one seat at a time.
THEOREM ImplementsStore == Spec => StoreSpec
<1>1. Init => Store!Init
  <2> SUFFICES ASSUME Init
               PROVE  Contents = [t \in Tables |-> [s \in SeatsOfFlights |-> {}]]
    BY DEF Store!Init
  <2>1. \A t \in Tables : \A r, c : DetailsAt(bookings[t], r, c) = {}
    BY DEF Init, DetailsAt, At
  <2> QED
    BY <2>1 DEF Contents
<1>2. IInv /\ [Next]_vars => [Store!Next]_Contents
  <2> SUFFICES ASSUME IInv, [Next]_vars, bookings' # bookings
               PROVE  Store!Next
    BY DEF Contents
  <2> QED
    BY StoreStep DEF Next, vars
<1> QED
  BY Invariance, <1>1, <1>2, PTL DEF Spec, StoreSpec, Store!Spec
=============================================================================
