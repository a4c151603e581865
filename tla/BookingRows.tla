---------------------------- MODULE BookingRows ----------------------------
(***************************************************************************)
(* One booking table of flights.db (PersistenceManager.cpp) as the set of  *)
(* its rows, and the SQL statements the PersistenceManager issues on it.   *)
(*                                                                         *)
(* A row is [rowid, row, col, details]: details stands for the columns     *)
(* name, email and maxLoad, which every statement writes together.  The    *)
(* table has no key on (row, col), so nothing in the schema keeps two rows *)
(* off one seat; rowid is SQLite's own key and tells such rows apart.      *)
(***************************************************************************)
EXTENDS Integers, FiniteSets

\* The rows a table can have, with details in D.
Records(D) == [rowid : Nat, row : Nat, col : Nat, details : D]

\* SELECT row, col FROM <table> WHERE row = ? AND col = ?
At(rows, r, c) == {b \in rows : b.row = r /\ b.col = c}

\* The details those rows hold.
DetailsAt(rows, r, c) == {b.details : b \in At(rows, r, c)}

\* SQLite numbers a new row by itself; only that the number is unused matters.
FreshRowid(rows) ==
    CHOOSE n \in 1 .. Cardinality(rows) + 1 : \A b \in rows : b.rowid # n

\* INSERT INTO <table>(name, email, maxLoad, row, col) VALUES (?, ?, ?, ?, ?)
InsertRow(rows, r, c, d) ==
    rows \cup {[rowid |-> FreshRowid(rows), row |-> r, col |-> c, details |-> d]}

\* (mutant) The WHERE of the UPDATE forgets the column.
UpdateWholeRow(rows, r, c, d) ==
    {IF b.row = r THEN [b EXCEPT !.details = d] ELSE b : b \in rows}

\* UPDATE <table> SET name = ?, email = ?, maxLoad = ? WHERE row = ? AND col = ?
UpdateRows(rows, r, c, d) ==
    {IF b.row = r /\ b.col = c THEN [b EXCEPT !.details = d] ELSE b : b \in rows}

\* (mutant) The WHERE of the DELETE forgets the column.
DeleteWholeRow(rows, r, c) == {b \in rows : b.row # r}

\* DELETE FROM <table> WHERE row = ? AND col = ?
DeleteRows(rows, r, c) == rows \ At(rows, r, c)

\* (mutant) The INSERT without the SELECT before it.
InsertAlways(rows, r, c, d) == InsertRow(rows, r, c, d)

\* (mutant) The INSERT only: a seat that has a row keeps it as it is.
InsertIfAbsent(rows, r, c, d) ==
    IF At(rows, r, c) # {} THEN rows ELSE InsertRow(rows, r, c, d)

\* The transaction InsertBookingData runs for one seat: look the seat up, then
\* update the row that is there or insert a new one.
UpsertBooking(rows, r, c, d) ==
    IF At(rows, r, c) # {} THEN UpdateRows(rows, r, c, d)
                           ELSE InsertRow(rows, r, c, d)

\* No two rows of a table book the same seat.
UniqueSeats(rows) ==
    \A a, b \in rows : a.row = b.row /\ a.col = b.col => a = b

\* Every row of a table is a seat of a cabin of nr rows and nc columns.
WithinCabin(rows, nr, nc) ==
    \A b \in rows : b.row \in 0 .. nr - 1 /\ b.col \in 0 .. nc - 1
=============================================================================
