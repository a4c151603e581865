---------------------------- MODULE MCReservation ---------------------------
(***************************************************************************)
(* Instances of Reservation for TLC.  The cabins of f1 and f2 are 1 x 2 and *)
(* 2 x 1, so that a seat selected in one can be outside the other; f3 has a *)
(* single seat, and f4's flightId differs from f1's in case only, which     *)
(* gives it f1's table.                                                     *)
(***************************************************************************)
EXTENDS Reservation, TLC

CONSTANTS p1, p2, ann, bob, blank, f1, f2, f3, f4

MCRows == (f1 :> 1) @@ (f2 :> 2) @@ (f3 :> 1) @@ (f4 :> 1)
MCCols == (f1 :> 2) @@ (f2 :> 1) @@ (f3 :> 1) @@ (f4 :> 2)
MCTableName ==
    (f1 :> "Booking1") @@ (f2 :> "Booking2") @@ (f3 :> "Booking3")
    @@ (f4 :> "Booking1")

FlightRows == [f \in Flights |-> MCRows[f]]
FlightCols == [f \in Flights |-> MCCols[f]]
FlightTables == [f \in Flights |-> MCTableName[f]]

NamedSymmetry == Permutations({ann, bob})
ProcSymmetry == Permutations({p1, p2}) \cup NamedSymmetry

\* All variables but the log, which no action reads.
WithoutLog ==
    <<status, activeFlight, seatMap, selected, todo, bookings, faults, stale>>
=============================================================================
