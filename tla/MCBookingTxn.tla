---------------------------- MODULE MCBookingTxn ----------------------------
(***************************************************************************)
(* An instance of BookingTxn for TLC: two seats of one row of the cabin.   *)
(***************************************************************************)
EXTENDS BookingTxn

TwoSeats == {<<0, 0>>, <<0, 1>>}
=============================================================================
