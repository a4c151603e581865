----------------------------- MODULE MCGuiFrame -----------------------------
(***************************************************************************)
(* Instances of GuiFrame for TLC: two flights, with the cabins 1 x 2 and   *)
(* 1 x 1, so that the second seat of f1 is outside the cabin of f2.        *)
(***************************************************************************)
EXTENDS GuiFrame, TLC

CONSTANTS f1, f2

FlightList == <<f1, f2>>
FlightRows == (f1 :> 1) @@ (f2 :> 1)
FlightCols == (f1 :> 2) @@ (f2 :> 1)
=============================================================================
