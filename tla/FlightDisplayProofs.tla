------------------------ MODULE FlightDisplayProofs ------------------------
(***************************************************************************)
(* What FlightDisplay keeps for all tables, cabins, clocks and widths of   *)
(* the integers.                                                           *)
(***************************************************************************)
EXTENDS FlightDisplay, TLAPS

FlightRow == [flightId : Flights, time : Texts, cabin : Cabins]
ListEntry == [flightId : Flights, cabin : Cabins, time : Int \cup {Nothing}]

\* The primary key does its work, and the list has at most what the table has.
KeyInv ==
    /\ flights # NoTable =>
           \A i, j \in DOMAIN flights : flights[i].flightId = flights[j].flightId => i = j
    /\ screen \in Seq(ListEntry)

\* The row that a code of so many Zs and that last letter counts from 65.
Counted(n, letter) == letter + 26 * n

\* The loops of SeatMapGUI are at a seat of the cabin on display, and what
\* GenerateSeatCode has made of its row and what is left of it belong together.
CodeInv ==
    /\ at \in {"seat", "code"} => cabin \in Cabins /\ seat \in Seats(cabin)
    /\ at = "code" => Counted(zs, procRow) = (seat[1] + 65) % UShortLimit

\* So they do in every code that was drawn.
DrawnInv ==
    /\ drawn \subseteq [seat : (0 .. UShortLimit - 1) \X Nat,
                        code : [zs : Nat, letter : Nat, col : Nat]]
    /\ \A d \in drawn :
          /\ d.code.col = d.seat[2]
          /\ Counted(d.code.zs, d.code.letter) = (d.seat[1] + 65) % UShortLimit

\* The inductive invariant.
IInv == TypeOK /\ KeyInv /\ ListedOnce /\ CodeInv /\ DrawnInv

-----------------------------------------------------------------------------
(* Lemmas.                                                                   *)

\* The remainder of a number below twice the modulus.
LEMMA ModOnce ==
    ASSUME NEW m \in Nat \ {0}, NEW x \in 0 .. 2 * m - 1
    PROVE  x % m = IF x < m THEN x ELSE x - m
<1>1. CASE x < m
  BY <1>1, SMT
<1>2. CASE x >= m
  <2>1. (x - m) % m = x - m
    BY <1>2, SMT
  <2>2. x % m = (x - m) % m
    BY <1>2, SMT
  <2> QED
    BY <1>2, <2>1, <2>2, SMT
<1> QED
  BY <1>1, <1>2, SMT

\* row + 65 in an unsigned short tells the rows apart (Flight.cpp:29).
LEMMA RowsApart ==
    ASSUME NEW a \in 0 .. UShortLimit - 1, NEW b \in 0 .. UShortLimit - 1,
           (a + 65) % UShortLimit = (b + 65) % UShortLimit
    PROVE  a = b
<1>1. /\ UShortLimit \in Nat \ {0}
      /\ a + 65 \in 0 .. 2 * UShortLimit - 1
      /\ b + 65 \in 0 .. 2 * UShortLimit - 1
  BY DisplayAssumption, SMT
<1>2. \A x \in 0 .. 2 * UShortLimit - 1 :
          x % UShortLimit = IF x < UShortLimit THEN x ELSE x - UShortLimit
  BY <1>1, ModOnce
<1>3. PICK x \in 0 .. 2 * UShortLimit - 1 : x = a + 65
  BY <1>1
<1>4. PICK y \in 0 .. 2 * UShortLimit - 1 : y = b + 65
  BY <1>1
<1>5. x % UShortLimit = y % UShortLimit
  BY <1>3, <1>4
<1> QED
  BY <1>1, <1>2, <1>3, <1>4, <1>5, SMT

\* row + 65 is an unsigned short again.
LEMMA UShort ==
    ASSUME NEW a \in 0 .. UShortLimit - 1
    PROVE  (a + 65) % UShortLimit \in 0 .. UShortLimit - 1
BY DisplayAssumption, SMT

\* static_cast<int> keeps what an int can say (Util.cpp:31).
LEMMA NarrowKeeps ==
    ASSUME NEW t \in Int, t >= 0, t < IntLimit
    PROVE  Narrow(t) = t
<1>1. PICK m \in Nat \ {0} : m = 2 * IntLimit
  BY DisplayAssumption, SMT
<1>2. PICK x \in 0 .. 2 * m - 1 : x = t + IntLimit
  BY <1>1, DisplayAssumption, SMT
<1>3. x % m = x
  <2>1. x < m
    BY <1>1, <1>2, DisplayAssumption, SMT
  <2> QED
    BY <2>1, ModOnce
<1>4. Narrow(t) = (x % m) - IntLimit
  BY <1>1, <1>2 DEF Narrow
<1> QED
  BY <1>2, <1>3, <1>4, DisplayAssumption, SMT

\* What the list shows of a row is an entry of the list.
LEMMA ShownType ==
    ASSUME NEW row \in FlightRow
    PROVE  Shown(row) \in ListEntry
<1>1. \A t \in Int : Narrow(t) \in Int
  BY DisplayAssumption, SMT DEF Narrow
<1>2. row.time # Unreadable => row.time \in Int /\ Mktime(row.time) \in Int
  <2>1. row.time # Unreadable => row.time \in Int
    BY DisplayAssumption DEF FlightRow
  <2>2. \A t \in Int : Mktime(t) \in Int
    BY DisplayAssumption DEF Mktime
  <2> QED
    BY <2>1, <2>2
<1>3. DatetimeToInt(row.time) \in Int
  BY <1>1, <1>2 DEF DatetimeToInt
<1>4. \A t \in Int : Localtime(t) \in Int \cup {Nothing}
  BY DisplayAssumption, SMT DEF Localtime
<1> QED
  BY <1>3, <1>4 DEF Shown, IntToDatetime, FlightRow, ListEntry

\* A time that an int can say is shown, and as it was stored but for the season.
LEMMA ShownTime ==
    ASSUME NEW row \in FlightRow, Representable(row.time)
    PROVE  /\ ShowsStored(row.time, Shown(row).time)
           /\ Shown(row).time # Nothing
<1>1. row.time # Unreadable /\ row.time \in Int
  BY DisplayAssumption DEF Representable, FlightRow
<1>2. /\ Mktime(row.time) = row.time - StdOffset
      /\ row.time - StdOffset \in Int
      /\ row.time - StdOffset >= 0 /\ row.time - StdOffset < IntLimit
  BY <1>1, DisplayAssumption, SMT DEF Mktime, Representable
<1>3. DatetimeToInt(row.time) = row.time - StdOffset
  BY <1>1, <1>2, NarrowKeeps DEF DatetimeToInt
<1>4. Shown(row).time = row.time + IF row.time - StdOffset \in Summer THEN Daylight ELSE 0
  BY <1>1, <1>2, <1>3, DisplayAssumption, SMT DEF Shown, IntToDatetime, Localtime
<1>5. Shown(row).time = IF row.time - StdOffset \in Summer THEN row.time + Daylight ELSE row.time
  BY <1>1, <1>4, DisplayAssumption, SMT
<1>6. Shown(row).time \in Int
  BY <1>1, <1>5, DisplayAssumption, SMT
<1> QED
  BY <1>5, <1>6, DisplayAssumption DEF ShowsStored

\* INSERT or REPLACE keeps the rows apart (PersistenceManager.cpp:49).
LEMMA ReplacedKeepsKey ==
    ASSUME NEW rows \in Seq(FlightRow), NEW row \in FlightRow,
           \A i, j \in DOMAIN rows : rows[i].flightId = rows[j].flightId => i = j
    PROVE  /\ Replaced(rows, row) \in Seq(FlightRow)
           /\ \A i, j \in DOMAIN Replaced(rows, row) :
                 Replaced(rows, row)[i].flightId = Replaced(rows, row)[j].flightId => i = j
<1> DEFINE same == {i \in DOMAIN rows : rows[i].flightId = row.flightId}
           k == CHOOSE i \in same : TRUE
           left == IF same = {} THEN rows ELSE Without(rows, k)
<1>1. /\ left \in Seq(FlightRow)
      /\ \A i, j \in DOMAIN left : left[i].flightId = left[j].flightId => i = j
      /\ \A i \in DOMAIN left : left[i].flightId # row.flightId
  <2>1. CASE same = {}
    BY <2>1
  <2>2. CASE same # {}
    <3>1. k \in 1 .. Len(rows) /\ rows[k].flightId = row.flightId
      BY <2>2
    <3> HIDE DEF k
    <3>2. \A j \in 1 .. Len(rows) - 1 : (IF j < k THEN j ELSE j + 1) \in 1 .. Len(rows) \ {k}
      BY <3>1
    <3>3. \A i, j \in 1 .. Len(rows) - 1 :
             (IF i < k THEN i ELSE i + 1) = (IF j < k THEN j ELSE j + 1) => i = j
      BY <3>1
    <3>4. /\ DOMAIN Without(rows, k) = 1 .. Len(rows) - 1
          /\ \A j \in 1 .. Len(rows) - 1 :
                Without(rows, k)[j] = rows[IF j < k THEN j ELSE j + 1]
          /\ Without(rows, k) \in [1 .. Len(rows) - 1 -> FlightRow]
      BY <3>2 DEF Without
    <3>5. Len(rows) - 1 \in Nat
      BY <3>1
    <3>6. Without(rows, k) \in Seq(FlightRow)
      BY <3>4, <3>5
    <3>7. left = Without(rows, k)
      BY <2>2
    <3> HIDE DEF left
    <3>8. ASSUME NEW i \in DOMAIN left, NEW j \in DOMAIN left,
                 left[i].flightId = left[j].flightId
          PROVE  i = j
      BY <3>2, <3>3, <3>4, <3>7, <3>8
    <3>9. ASSUME NEW i \in DOMAIN left
          PROVE  left[i].flightId # row.flightId
      BY <3>1, <3>2, <3>4, <3>7
    <3> QED
      BY <3>6, <3>7, <3>8, <3>9
  <2> QED
    BY <2>1, <2>2
<1>2. Replaced(rows, row) = Append(left, row)
  BY DEF Replaced
<1> HIDE DEF left
<1>3. /\ Append(left, row) \in Seq(FlightRow)
      /\ DOMAIN Append(left, row) = 1 .. Len(left) + 1
      /\ DOMAIN left = 1 .. Len(left)
      /\ \A i \in 1 .. Len(left) : Append(left, row)[i] = left[i]
      /\ Append(left, row)[Len(left) + 1] = row
  BY <1>1
<1> QED
  BY <1>1, <1>2, <1>3

\* A seat of a cabin, and the one the loops come to next.
LEMMA SeatFacts ==
    ASSUME NEW c \in Cabins, NEW s \in Seats(c)
    PROVE  /\ s \in (0 .. UShortLimit - 1) \X (0 .. UShortLimit - 1)
           /\ NextSeat(c, s) \in Nat \X Nat
           /\ NextSeat(c, s)[1] < c[1] => NextSeat(c, s) \in Seats(c)
<1>1. /\ c \in (1 .. UShortLimit) \X (1 .. UShortLimit)
      /\ c[1] \in 1 .. UShortLimit /\ c[2] \in 1 .. UShortLimit
  BY DisplayAssumption
<1>2. s = <<s[1], s[2]>> /\ s[1] \in 0 .. c[1] - 1 /\ s[2] \in 0 .. c[2] - 1
  BY DEF Seats
<1>3. s[1] \in 0 .. UShortLimit - 1 /\ s[2] \in 0 .. UShortLimit - 1
  BY <1>1, <1>2, DisplayAssumption, SMT
<1>4. CASE s[2] + 1 < c[2]
  <2>1. NextSeat(c, s) = <<s[1], s[2] + 1>>
    BY <1>4 DEF NextSeat
  <2>2. s[2] + 1 \in 0 .. c[2] - 1
    BY <1>1, <1>2, <1>4, DisplayAssumption, SMT
  <2> QED
    BY <1>2, <1>3, <2>1, <2>2 DEF Seats
<1>5. CASE ~(s[2] + 1 < c[2])
  <2>1. NextSeat(c, s) = <<s[1] + 1, 0>>
    BY <1>5 DEF NextSeat
  <2>2. 0 \in 0 .. c[2] - 1 /\ (s[1] + 1 < c[1] => s[1] + 1 \in 0 .. c[1] - 1)
    BY <1>1, <1>2, DisplayAssumption, SMT
  <2> QED
    BY <1>2, <1>3, <2>1, <2>2 DEF Seats
<1> QED
  BY <1>4, <1>5

-----------------------------------------------------------------------------
(* The invariant.                                                            *)

\* The invariant holds initially, and every step preserves it.
LEMMA Initially == Init => IInv
<1> SUFFICES ASSUME Init PROVE IInv
  OBVIOUS
<1>1. 0 \in 0 .. UShortLimit - 1
  BY DisplayAssumption, SMT
<1>2. TypeOK
  BY <1>1 DEF Init, TypeOK
<1>3. KeyInv /\ ListedOnce
  BY DEF Init, KeyInv, ListedOnce
<1>4. CodeInv /\ DrawnInv
  BY DEF Init, CodeInv, DrawnInv
<1> QED
  BY <1>2, <1>3, <1>4 DEF IInv

\* The steps of another process on the table.
LEMMA TableSteps ==
    ASSUME IInv,
           CreateFlightsTable \/ \E f \in Flights, text \in Texts, c \in Cabins :
                                     InsertFlight(f, text, c)
    PROVE  IInv'
<1>1. UNCHANGED frame
  BY DEF CreateFlightsTable, InsertFlight
<1>2. /\ flights' \in Seq(FlightRow)
      /\ \A i, j \in DOMAIN flights' : flights'[i].flightId = flights'[j].flightId => i = j
  <2>1. CASE CreateFlightsTable
    BY <2>1 DEF CreateFlightsTable
  <2>2. ASSUME NEW f \in Flights, NEW text \in Texts, NEW c \in Cabins,
               InsertFlight(f, text, c)
        PROVE  /\ flights' \in Seq(FlightRow)
               /\ \A i, j \in DOMAIN flights' :
                     flights'[i].flightId = flights'[j].flightId => i = j
    <3>1. [flightId |-> f, time |-> text, cabin |-> c] \in FlightRow
      BY DEF FlightRow
    <3>2. flights \in Seq(FlightRow)
      BY <2>2 DEF InsertFlight, IInv, TypeOK, FlightRow
    <3> QED
      BY <2>2, <3>1, <3>2, ReplacedKeepsKey DEF InsertFlight, IInv, KeyInv
  <2> QED
    BY <2>1, <2>2
<1>3. TypeOK' /\ KeyInv'
  BY <1>1, <1>2 DEF IInv, TypeOK, KeyInv, frame, FlightRow
<1>4. ListedOnce' /\ CodeInv' /\ DrawnInv'
  BY <1>1 DEF IInv, ListedOnce, CodeInv, DrawnInv, frame
<1> QED
  BY <1>3, <1>4 DEF IInv

\* The steps of the program outside the loop over the seats.
LEMMA ListSteps ==
    ASSUME IInv, Launch \/ ListFlights \/ ListFails
                     \/ \E i \in {0} \cup DOMAIN screen : EndFrame(i)
    PROVE  IInv'
<1>1. CASE Launch
  <2>1. 0 \in 0 .. UShortLimit - 1
    BY DisplayAssumption, SMT
  <2>2. TypeOK'
    BY <1>1, <2>1 DEF Launch, IInv, TypeOK
  <2>3. KeyInv' /\ ListedOnce'
    BY <1>1 DEF Launch, IInv, KeyInv, ListedOnce
  <2>4. CodeInv' /\ DrawnInv'
    BY <1>1 DEF Launch, CodeInv, DrawnInv
  <2> QED
    BY <2>2, <2>3, <2>4 DEF IInv
<1>2. CASE ListFails
  BY <1>2 DEF ListFails, IInv, TypeOK, KeyInv, ListedOnce, CodeInv, DrawnInv
<1>3. CASE ListFlights
  <2>1. PICK n \in 0 .. Len(flights) : screen' = [i \in 1 .. n |-> Shown(flights[i])]
    BY <1>3 DEF ListFlights
  <2>2. flights \in Seq(FlightRow) /\ flights' = flights
    BY <1>3 DEF ListFlights, IInv, TypeOK, FlightRow
  <2>3. n \in Nat /\ \A i \in 1 .. n : i \in DOMAIN flights /\ flights[i] \in FlightRow
    BY <2>1, <2>2
  <2>4. \A i \in 1 .. n : Shown(flights[i]) \in ListEntry
    BY <2>3, ShownType
  <2>5. screen' \in Seq(ListEntry) /\ DOMAIN screen' = 1 .. n
    BY <2>1, <2>3, <2>4
  <2>6. \A i \in 1 .. n : screen'[i].flightId = flights[i].flightId
    BY <2>1 DEF Shown
  <2>7. ListedOnce'
    BY <1>3, <2>3, <2>5, <2>6 DEF ListFlights, IInv, KeyInv, ListedOnce
  <2>8. TypeOK' /\ KeyInv' /\ CodeInv' /\ DrawnInv'
    BY <1>3, <2>5 DEF ListFlights, IInv, TypeOK, KeyInv, CodeInv, DrawnInv
  <2> QED
    BY <2>7, <2>8 DEF IInv
<1>4. ASSUME NEW i \in {0} \cup DOMAIN screen, EndFrame(i)
      PROVE  IInv'
  <2>1. cabin' \in Cabins \cup {Nothing}
    <3>1. i \in DOMAIN screen => screen[i] \in ListEntry
      BY DEF IInv, KeyInv
    <3>2. i \in DOMAIN screen => screen[i].cabin \in Cabins
      BY <3>1 DEF ListEntry
    <3> QED
      BY <1>4, <3>2 DEF EndFrame, IInv, TypeOK
  <2> QED
    BY <1>4, <2>1 DEF EndFrame, IInv, TypeOK, KeyInv, ListedOnce, CodeInv, DrawnInv
<1> QED
  BY <1>1, <1>2, <1>3, <1>4

\* The steps of the loop over the seats.
LEMMA SeatSteps ==
    ASSUME IInv, BeginFrame \/ GenerateSeatCode \/ AddZ \/ DrawSeat
    PROVE  IInv'
<1>1. CASE BeginFrame
  <2>1. cabin \in Cabins => <<0, 0>> \in Seats(cabin)
    <3>1. cabin \in Cabins => cabin[1] \in 1 .. UShortLimit /\ cabin[2] \in 1 .. UShortLimit
      BY DisplayAssumption
    <3> QED
      BY <3>1, DisplayAssumption, SMT DEF Seats
  <2> QED
    BY <1>1, <2>1 DEF BeginFrame, IInv, TypeOK, KeyInv, ListedOnce, CodeInv, DrawnInv
<1>2. CASE GenerateSeatCode
  <2>1. seat[1] \in 0 .. UShortLimit - 1
    BY <1>2, SeatFacts DEF GenerateSeatCode, IInv, CodeInv
  <2>2. procRow' \in 0 .. UShortLimit - 1 /\ procRow' = (seat[1] + 65) % UShortLimit
    BY <1>2, <2>1, UShort DEF GenerateSeatCode
  <2>3. Counted(zs', procRow') = procRow'
    BY <1>2, <2>2, DisplayAssumption, SMT DEF GenerateSeatCode, Counted
  <2> QED
    BY <1>2, <2>2, <2>3
    DEF GenerateSeatCode, IInv, TypeOK, KeyInv, ListedOnce, CodeInv, DrawnInv
<1>3. CASE AddZ
  <2>1. procRow' \in 0 .. UShortLimit - 1 /\ zs' \in Nat
    BY <1>3, DisplayAssumption, SMT DEF AddZ, IInv, TypeOK
  <2>2. Counted(zs', procRow') = Counted(zs, procRow)
    BY <1>3, DisplayAssumption, SMT DEF AddZ, IInv, TypeOK, Counted
  <2> QED
    BY <1>3, <2>1, <2>2 DEF AddZ, IInv, TypeOK, KeyInv, ListedOnce, CodeInv, DrawnInv
<1>4. CASE DrawSeat
  <2>1. cabin \in Cabins /\ seat \in Seats(cabin)
    BY <1>4 DEF DrawSeat, IInv, CodeInv
  <2>2. TypeOK' /\ KeyInv' /\ ListedOnce' /\ CodeInv'
    BY <1>4, <2>1, SeatFacts
    DEF DrawSeat, IInv, TypeOK, KeyInv, ListedOnce, CodeInv
  <2>3. DrawnInv'
    <3> DEFINE new == [seat |-> seat, code |-> [zs |-> zs, letter |-> procRow, col |-> seat[2]]]
    <3>1. drawn' = drawn \cup {new}
      BY <1>4 DEF DrawSeat
    <3>2. seat \in (0 .. UShortLimit - 1) \X Nat
      BY <2>1, SeatFacts
    <3>3. Counted(zs, procRow) = (seat[1] + 65) % UShortLimit
      BY <1>4 DEF DrawSeat, IInv, CodeInv
    <3>4. zs \in Nat /\ procRow \in Nat /\ seat[2] \in Nat
      BY <3>2, DisplayAssumption, SMT DEF IInv, TypeOK
    <3>5. new \in [seat : (0 .. UShortLimit - 1) \X Nat,
                   code : [zs : Nat, letter : Nat, col : Nat]]
      BY <3>2, <3>4
    <3> QED
      BY <3>1, <3>3, <3>5 DEF IInv, DrawnInv
  <2> QED
    BY <2>2, <2>3 DEF IInv
<1> QED
  BY <1>1, <1>2, <1>3, <1>4

LEMMA Inductive == IInv /\ [Next]_vars => IInv'
<1> SUFFICES ASSUME IInv, [Next]_vars PROVE IInv'
  OBVIOUS
<1>1. CASE UNCHANGED vars
  BY <1>1 DEF vars, frame, IInv, TypeOK, KeyInv, ListedOnce, CodeInv, DrawnInv
<1>2. CASE CreateFlightsTable \/ \E f \in Flights, text \in Texts, c \in Cabins :
                                  InsertFlight(f, text, c)
  BY <1>2, TableSteps
<1>3. CASE Launch \/ FrameStep
  BY <1>3, ListSteps, SeatSteps DEF FrameStep
<1> QED
  BY <1>1, <1>2, <1>3 DEF Next, InsertFlightInformation

\* The invariant holds of every behaviour, for every table, cabin and width of
\* the integers.
THEOREM Invariance == Spec => []IInv
BY Initially, Inductive, PTL DEF Spec

-----------------------------------------------------------------------------
(* The properties.                                                           *)

\* The state is well typed; in particular procRow is an unsigned short.
THEOREM TypeCorrect == Spec => []TypeOK
<1>1. IInv => TypeOK
  BY DEF IInv
<1> QED
  BY Invariance, <1>1, PTL

\* No two seats of a cabin have one code, for cabins of as many rows as an
\* unsigned short can count (Flight.cpp:26-37).
THEOREM CodesDiffer == Spec => []SeatCodesDiffer
<1>1. IInv => SeatCodesDiffer
  <2> SUFFICES ASSUME IInv, NEW a \in drawn, NEW b \in drawn, a.code = b.code
               PROVE  a.seat = b.seat
    BY DEF SeatCodesDiffer
  <2>1. /\ a.seat = <<a.seat[1], a.seat[2]>> /\ b.seat = <<b.seat[1], b.seat[2]>>
        /\ a.seat[1] \in 0 .. UShortLimit - 1 /\ b.seat[1] \in 0 .. UShortLimit - 1
    <3>1. a.seat \in (0 .. UShortLimit - 1) \X Nat /\ b.seat \in (0 .. UShortLimit - 1) \X Nat
      BY DEF IInv, DrawnInv
    <3> QED
      BY <3>1
  <2>2. (a.seat[1] + 65) % UShortLimit = (b.seat[1] + 65) % UShortLimit
    BY DEF IInv, DrawnInv
  <2>3. a.seat[2] = b.seat[2]
    <3>1. a.seat[2] = a.code.col /\ b.seat[2] = b.code.col
      BY DEF IInv, DrawnInv
    <3> QED
      BY <3>1
  <2> QED
    BY <2>1, <2>2, <2>3, RowsApart
<1> QED
  BY Invariance, <1>1, PTL

\* No flight is listed twice (PersistenceManager.cpp:49).
THEOREM FlightsListedOnce == Spec => []ListedOnce
<1>1. IInv => ListedOnce
  BY DEF IInv
<1> QED
  BY Invariance, <1>1, PTL

\* A row that the list shows, as it is in the table.
LEMMA ListedRow ==
    ASSUME IInv, ListFlights, NEW i \in DOMAIN screen'
    PROVE  /\ i \in DOMAIN flights
           /\ flights[i] \in FlightRow
           /\ screen'[i] = Shown(flights[i])
<1>1. PICK n \in 0 .. Len(flights) : screen' = [k \in 1 .. n |-> Shown(flights[k])]
  BY DEF ListFlights
<1>2. flights \in Seq(FlightRow)
  BY DEF ListFlights, IInv, TypeOK, FlightRow
<1> QED
  BY <1>1, <1>2

\* Times that an int can say are shown as they were stored, but for daylight
\* saving, whatever the offset of the local clock (Util.cpp:14-48).
THEOREM TimesShown == Spec => ShownTimesAreStored
<1>1. IInv /\ [Next]_vars =>
          [screen' # screen => \A i \in DOMAIN screen' :
              ShowsStored(flights[i].time, screen'[i].time)]_vars
  <2> SUFFICES ASSUME IInv, Next, screen' # screen, NEW i \in DOMAIN screen'
               PROVE  ShowsStored(flights[i].time, screen'[i].time)
    BY DEF vars, frame
  <2>1. screen' # <<>>
    OBVIOUS
  <2>2. ListFlights
    BY <2>1 DEF Next, FrameStep, CreateFlightsTable, InsertFlight, InsertFlightInformation,
                Launch, BeginFrame, GenerateSeatCode, AddZ, DrawSeat, ListFails, EndFrame,
                vars, frame
  <2> QED
    BY <2>2, ListedRow, ShownTime DEF ShowsStored
<1> QED
  BY Invariance, <1>1, PTL DEF Spec, ShownTimesAreStored

\* Once the flights have been counted, nothing but a time on the list that no int
\* can say ends the program in a frame, for every width of int and every offset of
\* the local clock (Util.cpp:25, 31, 43).
THEOREM StopsAtBadTimes == Spec => StopsAtBadTimesOnly
<1>1. IInv /\ [Next]_vars =>
          [running /\ ~running' /\ at' = "buttons" =>
              \E i \in DOMAIN screen' : ~Representable(flights[i].time)]_vars
  <2> SUFFICES ASSUME IInv, Next, running, ~running', at' = "buttons"
               PROVE  \E i \in DOMAIN screen' : ~Representable(flights[i].time)
    BY DEF vars, frame
  <2>1. ListFlights
    BY DEF Next, FrameStep, CreateFlightsTable, InsertFlight, InsertFlightInformation,
           Launch, BeginFrame, GenerateSeatCode, AddZ, DrawSeat, ListFails, EndFrame,
           vars, frame
  <2>2. PICK i \in DOMAIN screen' : screen'[i].time = Nothing
    BY <2>1 DEF ListFlights
  <2> QED
    BY <2>1, <2>2, ListedRow, ShownTime
<1> QED
  BY Invariance, <1>1, PTL DEF Spec, StopsAtBadTimesOnly
=============================================================================
