----------------------------- MODULE SeatMapOps -----------------------------
(***************************************************************************)
(* The class SeatMap (SeatMap.h, SeatMap.cpp) as operators over a record   *)
(* of its members:                                                         *)
(*   m_Rows, m_Cols   the cabin's dimensions                               *)
(*   m_SeatMap        vector<vector<bool>>, TRUE = seat available          *)
(*   m_Details        m_PassengerMap, m_EmailMap and m_MaxLoadMap, which   *)
(*                    the code resizes, writes and clears together         *)
(* A std::vector of n elements is a function on 0 .. n-1.                  *)
(***************************************************************************)
EXTENDS Integers, BookingRows

CONSTANTS Details,   \* what a (name, email, maxLoad) triple can be
          Unnamed,   \* the triples whose name is the empty string
          Blank      \* the triple of three empty strings

ASSUME DetailsAssumption == Blank \in Unnamed /\ Unnamed \subseteq Details

Vec(n, x) == [i \in 0 .. n - 1 |-> x]

\* std::vector::resize(n, x): elements that are already there keep their value.
Resize(v, n, x) == [i \in 0 .. n - 1 |-> IF i \in DOMAIN v THEN v[i] ELSE x]

\* (mutant) Only the map of available seats is resized.
InitSeatMapOnly(sm) ==
    [sm EXCEPT !.m_SeatMap = Resize(@, sm.m_Rows, Vec(sm.m_Cols, TRUE))]

Internal_InitMaps(sm) ==
    [m_Rows    |-> sm.m_Rows,
     m_Cols    |-> sm.m_Cols,
     m_SeatMap |-> Resize(sm.m_SeatMap, sm.m_Rows, Vec(sm.m_Cols, TRUE)),
     m_Details |-> Resize(sm.m_Details, sm.m_Rows, Vec(sm.m_Cols, Blank))]

\* SeatMap::SeatMap(rows, cols)
Construct(rows, cols) ==
    Internal_InitMaps([m_Rows |-> rows, m_Cols |-> cols,
                       m_SeatMap |-> Vec(0, Blank), m_Details |-> Vec(0, Blank)])

\* The bounds test every public operation starts with.
IsSeat(sm, r, c) == r >= 0 /\ r < sm.m_Rows /\ c >= 0 /\ c < sm.m_Cols

IsSeatAvailable(sm, r, c) == IsSeat(sm, r, c) /\ sm.m_SeatMap[r][c]

\* SeatMap::BookSeat returns IsSeatAvailable(sm, r, c) and leaves this map.
BookSeat(sm, r, c, d) ==
    IF IsSeatAvailable(sm, r, c)
    THEN [sm EXCEPT !.m_SeatMap[r][c] = FALSE, !.m_Details[r][c] = d]
    ELSE sm

CancelBooking(sm, r, c) ==
    IF IsSeat(sm, r, c)
    THEN [sm EXCEPT !.m_SeatMap[r][c] = TRUE, !.m_Details[r][c] = Blank]
    ELSE sm

\* GetPassengerName, GetEmail and GetMaxLoad: empty strings for an invalid seat.
GetDetails(sm, r, c) == IF IsSeat(sm, r, c) THEN sm.m_Details[r][c] ELSE Blank

\* The row a loop over the rows in rowid order leaves in the map: the last one.
LastRow(rows, r, c) ==
    CHOOSE b \in At(rows, r, c) : \A a \in At(rows, r, c) : a.rowid <= b.rowid

\* The loop of LoadFromFlightInformation that marks the booked seats ...
LoadBookings(sm, rows) ==
    [m_Rows    |-> sm.m_Rows,
     m_Cols    |-> sm.m_Cols,
     m_SeatMap |-> [r \in DOMAIN sm.m_SeatMap |-> [c \in DOMAIN sm.m_SeatMap[r] |->
         sm.m_SeatMap[r][c] /\ At(rows, r, c) = {}]],
     m_Details |-> [r \in DOMAIN sm.m_Details |-> [c \in DOMAIN sm.m_Details[r] |->
         IF At(rows, r, c) # {} THEN LastRow(rows, r, c).details
                                ELSE sm.m_Details[r][c]]]]

LoadFromFlightInformation(sm, nrows, ncols, rows) ==
    LoadBookings(Internal_InitMaps([sm EXCEPT !.m_Rows = nrows, !.m_Cols = ncols]),
                 rows)

\* ... indexes the vectors without a check: outside them its effect is undefined.
LoadIsDefined(sm, rows) ==
    \A b \in rows : /\ b.row \in DOMAIN sm.m_SeatMap
                    /\ b.col \in DOMAIN sm.m_SeatMap[b.row]

\* The seat maps whose vectors have the dimensions nr and nc their members say.
SeatMaps(nr, nc) ==
    [m_Rows : {nr}, m_Cols : {nc},
     m_SeatMap : [0 .. nr - 1 -> [0 .. nc - 1 -> BOOLEAN]],
     m_Details : [0 .. nr - 1 -> [0 .. nc - 1 -> Details]]]
=============================================================================
