---------------------------- MODULE SeatMapProofs ---------------------------
(***************************************************************************)
(* Facts about the statements of BookingRows, for tables of any size, and  *)
(* about the operators of SeatMapOps, for cabins of every size.            *)
(***************************************************************************)
EXTENDS SeatMapOps, FiniteSetTheorems, TLAPS

-----------------------------------------------------------------------------
(* Finite tables.                                                            *)

\* The values of a function on a finite set are finitely many.
LEMMA FiniteImage ==
    ASSUME NEW S, IsFiniteSet(S), NEW f, f = [x \in S |-> f[x]]
    PROVE  /\ IsFiniteSet({f[x] : x \in S})
           /\ Cardinality({f[x] : x \in S}) <= Cardinality(S)
<1> DEFINE T == {f[x] : x \in S}
<1>1. f \in Surjection(S, T)
  BY DEF Surjection
<1> HIDE DEF T
<1> QED
  BY <1>1, FS_Surjection DEF T

\* SQLite always finds an unused rowid for a new row.
LEMMA FreshRowidExists ==
    ASSUME NEW rows, IsFiniteSet(rows)
    PROVE  /\ FreshRowid(rows) \in Nat
           /\ \A b \in rows : b.rowid # FreshRowid(rows)
<1> DEFINE n == Cardinality(rows) + 1
           rowidOf == [b \in rows |-> b.rowid]
           used == {rowidOf[b] : b \in rows}
<1>1. Cardinality(rows) \in Nat
  BY FS_CardinalityType
<1>2. IsFiniteSet(used) /\ Cardinality(used) <= Cardinality(rows)
  <2>1. rowidOf = [b \in rows |-> rowidOf[b]]
    OBVIOUS
  <2> HIDE DEF rowidOf
  <2> QED
    BY <2>1, FiniteImage
<1>3. IsFiniteSet(1 .. n) /\ Cardinality(1 .. n) = n
  BY <1>1, FS_Interval
<1>4. ~ (1 .. n \subseteq used)
  <2> SUFFICES ASSUME 1 .. n \subseteq used PROVE FALSE
    OBVIOUS
  <2>1. Cardinality(1 .. n) <= Cardinality(used)
    BY <1>2, FS_Subset
  <2>2. Cardinality(used) \in Nat
    BY <1>2, FS_CardinalityType
  <2> HIDE DEF used
  <2> QED
    BY <1>1, <1>2, <1>3, <2>1, <2>2
<1>5. \E k \in 1 .. n : \A b \in rows : b.rowid # k
  BY <1>4
<1> QED
  BY <1>1, <1>5 DEF FreshRowid

-----------------------------------------------------------------------------
(* The statements of PersistenceManager on one table.                        *)

\* INSERT leaves a finite table of well-typed rows.
LEMMA InsertRowType ==
    ASSUME NEW D, NEW rows \in SUBSET Records(D), IsFiniteSet(rows),
           NEW r \in Nat, NEW c \in Nat, NEW d \in D
    PROVE  /\ InsertRow(rows, r, c, d) \in SUBSET Records(D)
           /\ IsFiniteSet(InsertRow(rows, r, c, d))
<1> DEFINE new == [rowid |-> FreshRowid(rows), row |-> r, col |-> c, details |-> d]
<1>1. new \in Records(D)
  BY FreshRowidExists DEF Records
<1>2. InsertRow(rows, r, c, d) = rows \cup {new}
  BY DEF InsertRow
<1> HIDE DEF new
<1> QED
  BY <1>1, <1>2, FS_AddElement

\* So does UPDATE, which changes rows and adds none.
LEMMA UpdateRowsType ==
    ASSUME NEW D, NEW rows \in SUBSET Records(D), IsFiniteSet(rows),
           NEW r \in Nat, NEW c \in Nat, NEW d \in D
    PROVE  /\ UpdateRows(rows, r, c, d) \in SUBSET Records(D)
           /\ IsFiniteSet(UpdateRows(rows, r, c, d))
<1> DEFINE f == [b \in rows |-> IF b.row = r /\ b.col = c
                                THEN [b EXCEPT !.details = d] ELSE b]
<1>1. f = [b \in rows |-> f[b]]
  OBVIOUS
<1>2. UpdateRows(rows, r, c, d) = {f[b] : b \in rows}
  BY DEF UpdateRows
<1>3. \A b \in rows : f[b] \in Records(D)
  BY DEF Records
<1> HIDE DEF f
<1> QED
  BY <1>1, <1>2, <1>3, FiniteImage

\* So does the transaction of InsertBookingData, which does one or the other.
LEMMA UpsertType ==
    ASSUME NEW D, NEW rows \in SUBSET Records(D), IsFiniteSet(rows),
           NEW r \in Nat, NEW c \in Nat, NEW d \in D
    PROVE  /\ UpsertBooking(rows, r, c, d) \in SUBSET Records(D)
           /\ IsFiniteSet(UpsertBooking(rows, r, c, d))
BY InsertRowType, UpdateRowsType DEF UpsertBooking

\* After the transaction of a seat, the seat has the details d and nothing else,
\* and every other seat has what it had.
LEMMA UpsertEffect ==
    ASSUME NEW D, NEW rows \in SUBSET Records(D),
           NEW r \in Nat, NEW c \in Nat, NEW d \in D, NEW i, NEW j
    PROVE  DetailsAt(UpsertBooking(rows, r, c, d), i, j)
             = IF i = r /\ j = c THEN {d} ELSE DetailsAt(rows, i, j)
<1> DEFINE upd(b) == IF b.row = r /\ b.col = c THEN [b EXCEPT !.details = d] ELSE b
           new == [rowid |-> FreshRowid(rows), row |-> r, col |-> c, details |-> d]
<1>1. CASE At(rows, r, c) # {}
  <2>1. UpsertBooking(rows, r, c, d) = {upd(b) : b \in rows}
    BY <1>1 DEF UpsertBooking, UpdateRows
  <2>2. \A b \in rows : /\ upd(b).row = b.row /\ upd(b).col = b.col
                        /\ upd(b).details = IF b.row = r /\ b.col = c
                                            THEN d ELSE b.details
    BY DEF Records
  <2> HIDE DEF upd
  <2>3. CASE i = r /\ j = c
    BY <1>1, <2>1, <2>2, <2>3 DEF At, DetailsAt
  <2>4. CASE ~ (i = r /\ j = c)
    BY <2>1, <2>2, <2>4 DEF At, DetailsAt
  <2> QED
    BY <2>3, <2>4
<1>2. CASE At(rows, r, c) = {}
  <2>1. UpsertBooking(rows, r, c, d) = rows \cup {new}
    BY <1>2 DEF UpsertBooking, InsertRow
  <2>2. new.row = r /\ new.col = c /\ new.details = d
    OBVIOUS
  <2> HIDE DEF new
  <2>3. CASE i = r /\ j = c
    BY <1>2, <2>1, <2>2, <2>3 DEF At, DetailsAt
  <2>4. CASE ~ (i = r /\ j = c)
    BY <2>1, <2>2, <2>4 DEF At, DetailsAt
  <2> QED
    BY <2>3, <2>4
<1> QED
  BY <1>1, <1>2

\* Check-then-insert keeps the seats of a table apart.
LEMMA UpsertKeepsUnique ==
    ASSUME NEW D, NEW rows \in SUBSET Records(D), UniqueSeats(rows),
           NEW r \in Nat, NEW c \in Nat, NEW d \in D
    PROVE  UniqueSeats(UpsertBooking(rows, r, c, d))
<1>1. CASE At(rows, r, c) # {}
  BY <1>1 DEF UpsertBooking, UpdateRows, At, UniqueSeats, Records
<1>2. CASE At(rows, r, c) = {}
  BY <1>2 DEF UpsertBooking, InsertRow, At, UniqueSeats, Records
<1> QED
  BY <1>1, <1>2

\* Saving a seat of the cabin leaves all rows within the cabin.
LEMMA UpsertWithinCabin ==
    ASSUME NEW D, NEW rows \in SUBSET Records(D),
           NEW nr \in Nat, NEW nc \in Nat, WithinCabin(rows, nr, nc),
           NEW r \in 0 .. nr - 1, NEW c \in 0 .. nc - 1, NEW d \in D
    PROVE  WithinCabin(UpsertBooking(rows, r, c, d), nr, nc)
BY DEF UpsertBooking, UpdateRows, InsertRow, At, WithinCabin, Records

\* A subset of a table, what DELETE leaves in particular, inherits its validity.
LEMMA SubsetKeepsRows ==
    ASSUME NEW rows, IsFiniteSet(rows), UniqueSeats(rows), NEW less \in SUBSET rows
    PROVE  IsFiniteSet(less) /\ UniqueSeats(less)
BY FS_Subset DEF UniqueSeats

\* The DELETE of a seat leaves it without a row, and the others as they were.
LEMMA DeleteEffect ==
    ASSUME NEW rows, NEW r, NEW c, NEW i, NEW j
    PROVE  DetailsAt(DeleteRows(rows, r, c), i, j)
             = IF i = r /\ j = c THEN {} ELSE DetailsAt(rows, i, j)
BY DEF DetailsAt, DeleteRows, At

-----------------------------------------------------------------------------
(* The seat map.                                                             *)

\* The constructor gives every vector the dimensions of the cabin.
LEMMA ConstructType ==
    ASSUME NEW nr \in Nat, NEW nc \in Nat
    PROVE  Construct(nr, nc) \in SeatMaps(nr, nc)
<1> DEFINE avail == Resize(Vec(0, Blank), nr, Vec(nc, TRUE))
           details == Resize(Vec(0, Blank), nr, Vec(nc, Blank))
<1>1. \A i \in 0 .. nr - 1 : i \notin DOMAIN Vec(0, Blank)
  BY DEF Vec
<1>2. avail \in [0 .. nr - 1 -> [0 .. nc - 1 -> BOOLEAN]]
  <2>1. Vec(nc, TRUE) \in [0 .. nc - 1 -> BOOLEAN]
    BY DEF Vec
  <2> QED
    BY <1>1, <2>1 DEF Resize
<1>3. details \in [0 .. nr - 1 -> [0 .. nc - 1 -> Details]]
  <2>1. Vec(nc, Blank) \in [0 .. nc - 1 -> Details]
    BY DetailsAssumption DEF Vec
  <2> QED
    BY <1>1, <2>1 DEF Resize
<1>4. Construct(nr, nc) =
        [m_Rows |-> nr, m_Cols |-> nc, m_SeatMap |-> avail, m_Details |-> details]
  BY DEF Construct, Internal_InitMaps
<1> HIDE DEF avail, details
<1> QED
  BY <1>2, <1>3, <1>4 DEF SeatMaps

\* BookSeat keeps the dimensions, for any row and column it is called with.
LEMMA BookSeatType ==
    ASSUME NEW nr \in Nat, NEW nc \in Nat, NEW sm \in SeatMaps(nr, nc),
           NEW r \in Nat, NEW c \in Nat, NEW d \in Details
    PROVE  BookSeat(sm, r, c, d) \in SeatMaps(nr, nc)
BY DEF BookSeat, IsSeatAvailable, IsSeat, SeatMaps

\* So does CancelBooking.
LEMMA CancelBookingType ==
    ASSUME NEW nr \in Nat, NEW nc \in Nat, NEW sm \in SeatMaps(nr, nc),
           NEW r \in Nat, NEW c \in Nat
    PROVE  CancelBooking(sm, r, c) \in SeatMaps(nr, nc)
BY DetailsAssumption DEF CancelBooking, IsSeat, SeatMaps

\* The getters return details for any row and column, the empty ones outside.
LEMMA GetDetailsType ==
    ASSUME NEW nr \in Nat, NEW nc \in Nat, NEW sm \in SeatMaps(nr, nc),
           NEW r \in Nat, NEW c \in Nat
    PROVE  GetDetails(sm, r, c) \in Details
BY DetailsAssumption DEF GetDetails, IsSeat, SeatMaps

\* With one row per seat, the row that wins the load is the row of the seat.
LEMMA LastRowIsTheRow ==
    ASSUME NEW rows \in SUBSET Records(Details), UniqueSeats(rows),
           NEW r, NEW c, NEW b \in At(rows, r, c)
    PROVE  LastRow(rows, r, c) = b
<1>1. \A a \in At(rows, r, c) : a = b
  BY DEF At, UniqueSeats
<1>2. b.rowid \in Nat
  BY DEF At, Records
<1> QED
  BY <1>1, <1>2 DEF LastRow

\* A load of rows of the cabin is defined and keeps the dimensions.
LEMMA LoadType ==
    ASSUME NEW nr \in Nat, NEW nc \in Nat,
           NEW rows \in SUBSET Records(Details), UniqueSeats(rows),
           WithinCabin(rows, nr, nc)
    PROVE  /\ LoadIsDefined(Construct(nr, nc), rows)
           /\ LoadFromFlightInformation(Construct(nr, nc), nr, nc, rows)
                \in SeatMaps(nr, nc)
<1> DEFINE new == Construct(nr, nc)
           init == Internal_InitMaps([new EXCEPT !.m_Rows = nr, !.m_Cols = nc])
<1>1. new \in SeatMaps(nr, nc)
  BY ConstructType
<1>2. init \in SeatMaps(nr, nc)
  BY <1>1, DetailsAssumption DEF Internal_InitMaps, Resize, Vec, SeatMaps
<1>3. \A r, c : At(rows, r, c) # {} => LastRow(rows, r, c).details \in Details
  BY LastRowIsTheRow DEF At, Records
<1> HIDE DEF init
<1>4. LoadBookings(init, rows) \in SeatMaps(nr, nc)
  <2> DEFINE avail == [r \in DOMAIN init.m_SeatMap |->
                        [c \in DOMAIN init.m_SeatMap[r] |->
                           init.m_SeatMap[r][c] /\ At(rows, r, c) = {}]]
             details == [r \in DOMAIN init.m_Details |->
                          [c \in DOMAIN init.m_Details[r] |->
                             IF At(rows, r, c) # {} THEN LastRow(rows, r, c).details
                                                    ELSE init.m_Details[r][c]]]
  <2>1. avail \in [0 .. nr - 1 -> [0 .. nc - 1 -> BOOLEAN]]
    BY <1>2 DEF SeatMaps
  <2>2. details \in [0 .. nr - 1 -> [0 .. nc - 1 -> Details]]
    BY <1>2, <1>3 DEF SeatMaps
  <2>3. init.m_Rows = nr /\ init.m_Cols = nc
    BY <1>2 DEF SeatMaps
  <2>4. LoadBookings(init, rows) = [m_Rows |-> init.m_Rows, m_Cols |-> init.m_Cols,
                                    m_SeatMap |-> avail, m_Details |-> details]
    BY DEF LoadBookings
  <2> HIDE DEF avail, details
  <2> QED
    BY <2>1, <2>2, <2>3, <2>4 DEF SeatMaps
<1>5. LoadIsDefined(new, rows)
  <2> HIDE DEF new
  <2> QED
    BY <1>1 DEF LoadIsDefined, WithinCabin, SeatMaps
<1> QED
  BY <1>4, <1>5 DEF LoadFromFlightInformation, init

\* The map sm says of seat <<r, c>> what the rows say.
SaysOf(sm, rows, r, c) ==
    /\ sm.m_SeatMap[r][c] = (At(rows, r, c) = {})
    /\ sm.m_Details[r][c] = IF At(rows, r, c) # {} THEN LastRow(rows, r, c).details
                                                   ELSE Blank

\* A map that was just loaded says of a seat what the rows say.
LEMMA LoadedSeat ==
    ASSUME NEW nr \in Nat, NEW nc \in Nat, NEW rows,
           NEW r \in 0 .. nr - 1, NEW c \in 0 .. nc - 1
    PROVE  SaysOf(LoadFromFlightInformation(Construct(nr, nc), nr, nc, rows), rows, r, c)
<1> DEFINE new == Construct(nr, nc)
           init == Internal_InitMaps([new EXCEPT !.m_Rows = nr, !.m_Cols = nc])
<1>1. /\ new.m_SeatMap = [i \in 0 .. nr - 1 |-> Vec(nc, TRUE)]
      /\ new.m_Details = [i \in 0 .. nr - 1 |-> Vec(nc, Blank)]
      /\ new = [m_Rows |-> nr, m_Cols |-> nc, m_SeatMap |-> new.m_SeatMap,
                m_Details |-> new.m_Details]
  BY DEF Construct, Internal_InitMaps, Resize, Vec
<1> HIDE DEF new
<1>2. /\ init.m_SeatMap = [i \in 0 .. nr - 1 |-> Vec(nc, TRUE)]
      /\ init.m_Details = [i \in 0 .. nr - 1 |-> Vec(nc, Blank)]
  BY <1>1 DEF Internal_InitMaps, Resize
<1> HIDE DEF init
<1>3. /\ r \in DOMAIN init.m_SeatMap /\ c \in DOMAIN init.m_SeatMap[r]
      /\ init.m_SeatMap[r][c] = TRUE
      /\ r \in DOMAIN init.m_Details /\ c \in DOMAIN init.m_Details[r]
      /\ init.m_Details[r][c] = Blank
  BY <1>2 DEF Vec
<1>4. SaysOf(LoadBookings(init, rows), rows, r, c)
  BY <1>3 DEF LoadBookings, SaysOf
<1> QED
  BY <1>4 DEF LoadFromFlightInformation, init, new

\* A grid with one place changed.
LEMMA EditedGrid ==
    ASSUME NEW nr \in Nat, NEW nc \in Nat, NEW V, NEW g \in [0 .. nr - 1 -> [0 .. nc - 1 -> V]],
           NEW r \in 0 .. nr - 1, NEW c \in 0 .. nc - 1, NEW x \in V,
           NEW i \in 0 .. nr - 1, NEW j \in 0 .. nc - 1
    PROVE  [g EXCEPT ![r] = [g[r] EXCEPT ![c] = x]][i][j]
             = IF i = r /\ j = c THEN x ELSE g[i][j]
<1>1. g[i] \in [0 .. nc - 1 -> V]
  OBVIOUS
<1>2. [g EXCEPT ![r] = [g[r] EXCEPT ![c] = x]][i]
        = IF i = r THEN [g[i] EXCEPT ![c] = x] ELSE g[i]
  OBVIOUS
<1> QED
  BY <1>1, <1>2

\* new is the map sm with seat <<r, c>> booked for d, and with that seat cleared.
Booked(new, sm, nr, nc, r, c, d) ==
    \A i \in 0 .. nr - 1, j \in 0 .. nc - 1 :
        /\ new.m_SeatMap[i][j] <=> ~(i = r /\ j = c) /\ sm.m_SeatMap[i][j]
        /\ new.m_Details[i][j] = IF i = r /\ j = c THEN d ELSE sm.m_Details[i][j]

Cleared(new, sm, nr, nc, r, c) ==
    \A i \in 0 .. nr - 1, j \in 0 .. nc - 1 :
        /\ new.m_SeatMap[i][j] <=> (i = r /\ j = c) \/ sm.m_SeatMap[i][j]
        /\ new.m_Details[i][j] = IF i = r /\ j = c THEN Blank ELSE sm.m_Details[i][j]

SameSeats(new, sm, nr, nc) ==
    \A i \in 0 .. nr - 1, j \in 0 .. nc - 1 :
        /\ new.m_SeatMap[i][j] <=> sm.m_SeatMap[i][j]
        /\ new.m_Details[i][j] = sm.m_Details[i][j]

\* BookSeat on a seat that is free books that seat and no other.
LEMMA BookedSeat ==
    ASSUME NEW nr \in Nat, NEW nc \in Nat, NEW sm \in SeatMaps(nr, nc),
           NEW r \in Nat, NEW c \in Nat, NEW d \in Details, IsSeatAvailable(sm, r, c)
    PROVE  /\ r \in 0 .. nr - 1 /\ c \in 0 .. nc - 1 /\ sm.m_SeatMap[r][c]
           /\ Booked(BookSeat(sm, r, c, d), sm, nr, nc, r, c, d)
<1>1. r \in 0 .. nr - 1 /\ c \in 0 .. nc - 1 /\ sm.m_SeatMap[r][c]
  BY DEF IsSeatAvailable, IsSeat, SeatMaps
<1>2. PICK new : new = BookSeat(sm, r, c, d)
  OBVIOUS
<1>3. new = [sm EXCEPT !.m_SeatMap[r][c] = FALSE, !.m_Details[r][c] = d]
  BY <1>2 DEF BookSeat
<1>4. /\ new.m_SeatMap = [sm.m_SeatMap EXCEPT ![r] = [sm.m_SeatMap[r] EXCEPT ![c] = FALSE]]
      /\ new.m_Details = [sm.m_Details EXCEPT ![r] = [sm.m_Details[r] EXCEPT ![c] = d]]
  BY <1>3 DEF SeatMaps
<1>5. /\ sm.m_SeatMap \in [0 .. nr - 1 -> [0 .. nc - 1 -> BOOLEAN]]
      /\ sm.m_Details \in [0 .. nr - 1 -> [0 .. nc - 1 -> Details]]
  BY DEF SeatMaps
<1>6. ASSUME NEW i \in 0 .. nr - 1, NEW j \in 0 .. nc - 1
      PROVE  /\ new.m_SeatMap[i][j] <=> ~(i = r /\ j = c) /\ sm.m_SeatMap[i][j]
             /\ new.m_Details[i][j] = IF i = r /\ j = c THEN d ELSE sm.m_Details[i][j]
  <2>1. new.m_Details[i][j] = IF i = r /\ j = c THEN d ELSE sm.m_Details[i][j]
    BY <1>1, <1>4, <1>5, EditedGrid, DetailsAssumption
  <2>2. sm.m_SeatMap[i] \in [0 .. nc - 1 -> BOOLEAN]
    BY <1>5
  <2>3. new.m_SeatMap[i]
          = IF i = r THEN [sm.m_SeatMap[i] EXCEPT ![c] = FALSE] ELSE sm.m_SeatMap[i]
    BY <1>1, <1>4, <1>5
  <2>4. new.m_SeatMap[i][j] <=> ~(i = r /\ j = c) /\ sm.m_SeatMap[i][j]
    BY <1>1, <2>2, <2>3
  <2> QED
    BY <2>1, <2>4
<1> QED
  BY <1>1, <1>2, <1>6 DEF Booked

\* CancelBooking on a seat of the cabin clears that seat and no other.
LEMMA CancelledSeat ==
    ASSUME NEW nr \in Nat, NEW nc \in Nat, NEW sm \in SeatMaps(nr, nc),
           NEW r \in 0 .. nr - 1, NEW c \in 0 .. nc - 1
    PROVE  Cleared(CancelBooking(sm, r, c), sm, nr, nc, r, c)
<1>1. IsSeat(sm, r, c)
  BY DEF IsSeat, SeatMaps
<1>2. PICK new : new = CancelBooking(sm, r, c)
  OBVIOUS
<1>3. new = [sm EXCEPT !.m_SeatMap[r][c] = TRUE, !.m_Details[r][c] = Blank]
  BY <1>1, <1>2 DEF CancelBooking
<1>4. /\ new.m_SeatMap = [sm.m_SeatMap EXCEPT ![r] = [sm.m_SeatMap[r] EXCEPT ![c] = TRUE]]
      /\ new.m_Details = [sm.m_Details EXCEPT ![r] = [sm.m_Details[r] EXCEPT ![c] = Blank]]
  BY <1>3 DEF SeatMaps
<1>5. /\ sm.m_SeatMap \in [0 .. nr - 1 -> [0 .. nc - 1 -> BOOLEAN]]
      /\ sm.m_Details \in [0 .. nr - 1 -> [0 .. nc - 1 -> Details]]
  BY DEF SeatMaps
<1>6. ASSUME NEW i \in 0 .. nr - 1, NEW j \in 0 .. nc - 1
      PROVE  /\ new.m_SeatMap[i][j] <=> (i = r /\ j = c) \/ sm.m_SeatMap[i][j]
             /\ new.m_Details[i][j] = IF i = r /\ j = c THEN Blank ELSE sm.m_Details[i][j]
  <2>1. new.m_Details[i][j] = IF i = r /\ j = c THEN Blank ELSE sm.m_Details[i][j]
    BY <1>1, <1>4, <1>5, EditedGrid, DetailsAssumption
  <2>2. sm.m_SeatMap[i] \in [0 .. nc - 1 -> BOOLEAN]
    BY <1>5
  <2>3. new.m_SeatMap[i]
          = IF i = r THEN [sm.m_SeatMap[i] EXCEPT ![c] = TRUE] ELSE sm.m_SeatMap[i]
    BY <1>1, <1>4, <1>5
  <2>4. new.m_SeatMap[i][j] <=> (i = r /\ j = c) \/ sm.m_SeatMap[i][j]
    BY <1>1, <2>2, <2>3
  <2> QED
    BY <2>1, <2>4
<1> QED
  BY <1>2, <1>6 DEF Cleared

\* Update clears a taken seat and books it again with what it had: the map is as it
\* was.  Outside the cabin neither call does anything.
LEMMA RebookedSeat ==
    ASSUME NEW nr \in Nat, NEW nc \in Nat, NEW sm \in SeatMaps(nr, nc),
           NEW r \in Nat, NEW c \in Nat, ~IsSeatAvailable(sm, r, c)
    PROVE  LET new == BookSeat(CancelBooking(sm, r, c), r, c, GetDetails(sm, r, c)) IN
           new \in SeatMaps(nr, nc) /\ SameSeats(new, sm, nr, nc)
<1> DEFINE cleared == CancelBooking(sm, r, c)
           d == GetDetails(sm, r, c)
           new == BookSeat(cleared, r, c, d)
<1>1. cleared \in SeatMaps(nr, nc) /\ d \in Details
  BY CancelBookingType, GetDetailsType
<1>2. CASE ~IsSeat(sm, r, c)
  <2>1. cleared = sm
    BY <1>2 DEF CancelBooking
  <2>2. new = sm
    BY <1>2, <2>1 DEF BookSeat, IsSeatAvailable
  <2> QED
    BY <2>2 DEF SameSeats
<1>3. CASE IsSeat(sm, r, c)
  <2>1. r \in 0 .. nr - 1 /\ c \in 0 .. nc - 1
    BY <1>3 DEF IsSeat, SeatMaps
  <2>2. ~sm.m_SeatMap[r][c] /\ d = sm.m_Details[r][c]
    BY <1>3, <2>1 DEF IsSeatAvailable, GetDetails
  <2>3. Cleared(cleared, sm, nr, nc, r, c)
    BY <2>1, CancelledSeat
  <2> HIDE DEF cleared, d
  <2>4. IsSeatAvailable(cleared, r, c)
    <3>1. IsSeat(cleared, r, c)
      BY <1>1, <2>1 DEF IsSeat, SeatMaps
    <3> QED
      BY <2>1, <2>3, <3>1 DEF IsSeatAvailable, Cleared
  <2>5. Booked(new, cleared, nr, nc, r, c, d)
    BY <1>1, <2>4, BookedSeat
  <2>6. new \in SeatMaps(nr, nc)
    BY <1>1, BookSeatType
  <2> HIDE DEF new
  <2>7. SameSeats(new, sm, nr, nc)
    BY <2>1, <2>2, <2>3, <2>5 DEF SameSeats, Cleared, Booked
  <2> QED
    BY <2>6, <2>7 DEF new, cleared, d
<1> QED
  BY <1>2, <1>3
=============================================================================
