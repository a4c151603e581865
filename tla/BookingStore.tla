---------------------------- MODULE BookingStore ----------------------------
(***************************************************************************)
(* What the booking tables of flights.db promise: each maps a seat to at   *)
(* most one passenger, a passenger always has a name, and the bookings     *)
(* change one seat of one table at a time.                                 *)
(***************************************************************************)
CONSTANTS Tables,   \* the booking tables
          Seat,     \* the seats a table can have rows for
          Named,    \* the details of passengers with a name
          Free      \* no booking

VARIABLE store

TypeInvariant == store \in [Tables -> [Seat -> Named \cup {Free}]]

Init == store = [t \in Tables |-> [s \in Seat |-> Free]]

\* InsertBookingData commits the transaction of one seat.
Put(t, s, d) == store' = [store EXCEPT ![t][s] = d]

\* DeleteBookingData removes the booking of one seat.
Remove(t, s) == store' = [store EXCEPT ![t][s] = Free]

Next == \E t \in Tables, s \in Seat :
            \/ \E d \in Named : Put(t, s, d)
            \/ Remove(t, s)

Spec == Init /\ [][Next]_store
=============================================================================
