-------------------------- MODULE MCAmadeusSearch --------------------------
(***************************************************************************)
(* AmadeusSearch for TLC.  What the calendars do depends on nothing that a *)
(* search gets or writes, and what becomes of its answer on no date: the   *)
(* bound takes all of the one and all of the other, and not their product. *)
(***************************************************************************)
EXTENDS AmadeusSearch

\* bound: what a search leads to is followed up when the dates are the first ones.
DatesOrAnswers ==
    (answer = "none" /\ due = Absent) \/ \A c \in Calendars : date[c] = Date
=============================================================================
