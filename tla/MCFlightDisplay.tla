--------------------------- MODULE MCFlightDisplay --------------------------
(***************************************************************************)
(* Instances of FlightDisplay for TLC.  An unsigned short of 94 values     *)
(* wraps inside a cabin of 30 rows, after the first codes of two letters;  *)
(* an int of -16 .. 15 has a time in summer, its last one, the one after   *)
(* it, which comes out negative, and a later one, which does not.          *)
(***************************************************************************)
EXTENDS FlightDisplay

MCTexts == {9, 16, 17, 39, Unreadable}
MCCabins == {<<30, 1>>, <<2, 2>>}
MCSummer == 6 .. 12
=============================================================================
