----------------------------- MODULE BookingTxn -----------------------------
(***************************************************************************)
(* One booking table and the processes that read and write it, statement   *)
(* by statement, under the file locks of SQLite's rollback journal.        *)
(*                                                                         *)
(* Reservation takes the transaction of InsertBookingData as one step.     *)
(* Here it is what it is in the code: BEGIN (which locks nothing), a       *)
(* SELECT, an UPDATE or INSERT according to what the SELECT found, and     *)
(* COMMIT.  DeleteBookingData and GetBookingsInfo are single statements.   *)
(* The busy timeout is 0: a lock that is not free fails the call.          *)
(***************************************************************************)
EXTENDS BookingRows

CONSTANTS Procs,   \* the processes that have flights.db open
          Seat,    \* seats, as pairs <<row, col>>
          Named    \* what InsertBookingData writes: details with a name

ASSUME SeatAssumption == Seat \subseteq Nat \X Nat

VARIABLES
    rows,    \* the table, as the file has it
    lock,    \* lock[p]: the lock p has on the file
    pc,      \* the call p is about to make
    op,      \* the operation p is in
    found,   \* what the SELECT of p found: a row for the seat, or none
    cache    \* the table as p's uncommitted statement leaves it

vars == <<rows, lock, pc, op, found, cache>>

\* The levels of winLock.
NoLock == 0
Shared == 1
Reserved == 2
Pending == 3
Exclusive == 4

NoOp == [kind |-> "none"]
Upserts == [kind : {"upsert"}, seat : Seat, details : Named]
Deletes == [kind : {"delete"}, seat : Seat]
Reads == [kind : {"read"}]
Ops == Upserts \cup Deletes \cup Reads

Init ==
    /\ rows = {}
    /\ lock = [p \in Procs |-> NoLock]
    /\ pc = [p \in Procs |-> "idle"]
    /\ op = [p \in Procs |-> NoOp]
    /\ found = [p \in Procs |-> FALSE]
    /\ cache = [p \in Procs |-> {}]

-----------------------------------------------------------------------------
(* winLock: when the other processes let p have a lock.                      *)

CanShare(p) == \A q \in Procs \ {p} : lock[q] < Pending

CanReserve(p) == \A q \in Procs \ {p} : lock[q] < Reserved

CanExclude(p) == \A q \in Procs \ {p} : lock[q] = NoLock

\* The lock p needs for its next call is not free.
Blocked(p) ==
    \/ pc[p] = "select" /\ ~CanShare(p)
    \/ pc[p] = "write" /\ ~CanReserve(p)
    \/ pc[p] = "commit" /\ lock[p] = Pending /\ ~CanExclude(p)

-----------------------------------------------------------------------------
\* The process starts an operation; BEGIN is deferred and takes no lock.
Begin(p, o) ==
    /\ pc[p] = "idle"
    /\ op' = [op EXCEPT ![p] = o]
    /\ pc' = [pc EXCEPT ![p] = "select"]
    /\ UNCHANGED <<rows, lock, found, cache>>

\* (mutant) No transaction: the lock of the SELECT goes with the SELECT.
SelectAndUnlock(p) ==
    /\ pc[p] = "select" /\ CanShare(p)
    /\ found' = [found EXCEPT ![p] =
           op[p].kind = "upsert" /\ At(rows, op[p].seat[1], op[p].seat[2]) # {}]
    /\ pc' = [pc EXCEPT ![p] = IF op[p].kind = "read" THEN "close" ELSE "write"]
    /\ UNCHANGED <<rows, lock, op, cache>>

\* The first statement takes a SHARED lock.  For a seat to be saved that is the
\* SELECT of InsertBookingData, for a load the SELECT of GetBookingsInfo; a
\* DELETE goes on to write without having looked.
Select(p) ==
    /\ pc[p] = "select" /\ CanShare(p)
    /\ lock' = [lock EXCEPT ![p] = Shared]
    /\ found' = [found EXCEPT ![p] =
           op[p].kind = "upsert" /\ At(rows, op[p].seat[1], op[p].seat[2]) # {}]
    /\ pc' = [pc EXCEPT ![p] = IF op[p].kind = "read" THEN "close" ELSE "write"]
    /\ UNCHANGED <<rows, op, cache>>

\* What the UPDATE, INSERT or DELETE of p makes of a table.
Effect(p, table) ==
    LET r == op[p].seat[1]
        c == op[p].seat[2]
    IN  IF op[p].kind = "delete" THEN DeleteRows(table, r, c)
        ELSE IF found[p] THEN UpdateRows(table, r, c, op[p].details)
        ELSE InsertRow(table, r, c, op[p].details)

\* It runs under a RESERVED lock, in p's cache.
Write(p) ==
    /\ pc[p] = "write" /\ CanReserve(p)
    /\ lock' = [lock EXCEPT ![p] = Reserved]
    /\ cache' = [cache EXCEPT ![p] = Effect(p, rows)]
    /\ pc' = [pc EXCEPT ![p] = "commit"]
    /\ UNCHANGED <<rows, op, found>>

\* COMMIT keeps new readers out, then waits for none that are left ...
GetPending(p) ==
    /\ pc[p] = "commit" /\ lock[p] = Reserved
    /\ lock' = [lock EXCEPT ![p] = Pending]
    /\ UNCHANGED <<rows, pc, op, found, cache>>

GetExclusive(p) ==
    /\ pc[p] = "commit" /\ lock[p] = Pending /\ CanExclude(p)
    /\ lock' = [lock EXCEPT ![p] = Exclusive]
    /\ UNCHANGED <<rows, pc, op, found, cache>>

\* ... and writes the file.  checkQuery is still open when it has found a row,
\* and keeps a SHARED lock until it goes out of scope.
Commit(p) ==
    /\ pc[p] = "commit" /\ lock[p] = Exclusive
    /\ rows' = cache[p]
    /\ lock' = [lock EXCEPT ![p] = IF found[p] THEN Shared ELSE NoLock]
    /\ pc' = [pc EXCEPT ![p] = IF found[p] THEN "close" ELSE "idle"]
    /\ op' = [op EXCEPT ![p] = IF found[p] THEN @ ELSE NoOp]
    /\ found' = [found EXCEPT ![p] = FALSE]
    /\ cache' = [cache EXCEPT ![p] = {}]

\* (mutant) A busy handler that tries again for ever.
BusyRetries(p) == Blocked(p) /\ UNCHANGED vars

\* The call fails with SQLITE_BUSY and throws; the locks stay.
Busy(p) ==
    /\ Blocked(p)
    /\ pc' = [pc EXCEPT ![p] = "failed"]
    /\ UNCHANGED <<rows, lock, op, found, cache>>

\* The process is out of the operation and has no lock.
Reset(p) ==
    /\ pc' = [pc EXCEPT ![p] = "idle"]
    /\ lock' = [lock EXCEPT ![p] = NoLock]
    /\ op' = [op EXCEPT ![p] = NoOp]
    /\ found' = [found EXCEPT ![p] = FALSE]
    /\ cache' = [cache EXCEPT ![p] = {}]
    /\ UNCHANGED rows

\* The statement that held the last lock is destroyed.
Close(p) == pc[p] = "close" /\ Reset(p)

\* The catch block rolls the transaction back.
Rollback(p) == pc[p] = "failed" /\ Reset(p)

\* The process dies, between any two calls or inside COMMIT: the system drops its
\* locks, and the next reader rolls back the journal it has left.
Crash(p) == pc[p] \notin {"idle", "failed"} /\ Reset(p)

-----------------------------------------------------------------------------
Step(p) ==
    \/ Select(p) \/ Write(p) \/ GetPending(p) \/ GetExclusive(p) \/ Commit(p)
    \/ Busy(p) \/ Close(p) \/ Rollback(p)

Next == \E p \in Procs :
            \/ \E o \in Ops : Begin(p, o)
            \/ Step(p)
            \/ Crash(p)

Spec == Init /\ [][Next]_vars

\* A process in the middle of an operation goes on with it.
FairSpec == Spec /\ \A p \in Procs : WF_vars(Step(p))

-----------------------------------------------------------------------------
(* Properties.                                                               *)

\* The type invariant: a table is a finite set of rows for known seats.
TypeOK ==
    /\ rows \in SUBSET Records(Named) /\ IsFiniteSet(rows)
    /\ lock \in [Procs -> NoLock .. Exclusive]
    /\ pc \in [Procs -> {"idle", "select", "write", "commit", "close", "failed"}]
    /\ op \in [Procs -> Ops \cup {NoOp}]
    /\ found \in [Procs -> BOOLEAN]
    /\ cache \in [Procs -> SUBSET Records(Named)]
    /\ \A p \in Procs : IsFiniteSet(cache[p])

\* What locks a process has at each of its calls, and what they exclude.
LockInv ==
    \A p \in Procs :
        /\ pc[p] \in {"idle", "select"} => lock[p] = NoLock /\ ~found[p]
        /\ pc[p] \in {"write", "close"} => lock[p] = Shared
        /\ pc[p] = "commit" => lock[p] >= Reserved
        /\ pc[p] # "idle" => op[p] \in Ops
        /\ pc[p] \in {"write", "commit"} => op[p] \in Upserts \cup Deletes
        /\ found[p] => op[p].kind = "upsert"
        /\ \A q \in Procs \ {p} :
              /\ lock[p] >= Reserved => lock[q] < Reserved
              /\ lock[p] = Exclusive => lock[q] = NoLock

\* Nothing p has read or computed in a transaction has become wrong.
SnapshotInv ==
    \A p \in Procs :
        /\ pc[p] \in {"write", "commit"} /\ op[p].kind = "upsert" =>
              (found[p] <=> At(rows, op[p].seat[1], op[p].seat[2]) # {})
        /\ pc[p] = "commit" => cache[p] = Effect(p, rows)

\* What the code did on the strength of its SELECT is still right when it is
\* committed: between the SELECT and the COMMIT of InsertBookingData
\* (PersistenceManager.cpp:132-155) no other process changes the table.
DecisionStillRight ==
    \A p \in Procs :
        /\ pc[p] = "write" /\ op[p].kind = "upsert" =>
              (found[p] <=> At(rows, op[p].seat[1], op[p].seat[2]) # {})
        /\ pc[p] = "commit" /\ op[p].kind = "upsert" =>
              cache[p] = UpsertBooking(rows, op[p].seat[1], op[p].seat[2], op[p].details)

\* No interleaving of SELECTs and INSERTs gives a seat two rows.
NoDuplicateRows == UniqueSeats(rows)

\* Every operation comes to an end, committed or failed: with a busy timeout of
\* 0 nobody waits for anybody.
OperationEnds == \A p \in Procs : pc[p] # "idle" ~> pc[p] = "idle"

\* The table as BookingStore sees it.
Contents == [t \in {"table"} |-> [s \in Seat |-> DetailsAt(rows, s[1], s[2])]]
Passengers == {{d} : d \in Named}

Store == INSTANCE BookingStore WITH
    Tables <- {"table"}, Named <- Passengers, Free <- {}, store <- Contents

\* A COMMIT puts or removes one booking; no other call changes what is stored.
StoreSpec == Store!Spec
=============================================================================
