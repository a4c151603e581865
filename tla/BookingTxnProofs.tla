-------------------------- MODULE BookingTxnProofs --------------------------
(***************************************************************************)
(* The locks make InsertBookingData's check-then-write atomic, for any     *)
(* number of processes: BookingTxn implements BookingStore.                *)
(***************************************************************************)
EXTENDS BookingTxn, SeatMapProofs

\* The inductive invariant: that a seat never gets two rows rests on the decision
\* of the SELECT being still right at the COMMIT, and that on the locks.
IInv == TypeOK /\ LockInv /\ SnapshotInv /\ NoDuplicateRows

USE DEF NoLock, Shared, Reserved, Pending, Exclusive

\* The fields of the operations: an upsert has a seat and a passenger, a delete a
\* seat, a read neither.
LEMMA OpTypes ==
    /\ \A o \in Upserts : /\ o.kind = "upsert" /\ o.details \in Named
                          /\ o.seat \in Seat /\ o.seat = <<o.seat[1], o.seat[2]>>
                          /\ o.seat[1] \in Nat /\ o.seat[2] \in Nat
    /\ \A o \in Deletes : /\ o.kind = "delete"
                          /\ o.seat \in Seat /\ o.seat = <<o.seat[1], o.seat[2]>>
                          /\ o.seat[1] \in Nat /\ o.seat[2] \in Nat
    /\ \A o \in Reads : o.kind = "read"
BY SeatAssumption DEF Upserts, Deletes, Reads

\* What the statement of a process makes of the table: rows of the same type,
\* still one per seat, given that its decision was right.
LEMMA EffectFacts ==
    ASSUME IInv, NEW p \in Procs, pc[p] \in {"write", "commit"}
    PROVE  /\ Effect(p, rows) \in SUBSET Records(Named)
           /\ IsFiniteSet(Effect(p, rows))
           /\ UniqueSeats(Effect(p, rows))
           /\ op[p].kind = "upsert" =>
                Effect(p, rows) = UpsertBooking(rows, op[p].seat[1], op[p].seat[2],
                                                op[p].details)
<1> DEFINE r == op[p].seat[1]
           c == op[p].seat[2]
           d == op[p].details
<1>1. rows \in SUBSET Records(Named) /\ IsFiniteSet(rows) /\ UniqueSeats(rows)
  BY DEF IInv, TypeOK, NoDuplicateRows
<1>2. op[p] \in Upserts \/ op[p] \in Deletes
  BY DEF IInv, LockInv
<1>3. CASE op[p] \in Upserts
  <2>1. r \in Nat /\ c \in Nat /\ d \in Named /\ op[p].kind = "upsert"
    BY <1>3, OpTypes
  <2>2. found[p] <=> At(rows, r, c) # {}
    BY <2>1 DEF IInv, SnapshotInv
  <2>3. Effect(p, rows) = UpsertBooking(rows, r, c, d)
    BY <2>1, <2>2 DEF Effect, UpsertBooking
  <2> HIDE DEF r, c, d
  <2>4. /\ UpsertBooking(rows, r, c, d) \in SUBSET Records(Named)
        /\ IsFiniteSet(UpsertBooking(rows, r, c, d))
        /\ UniqueSeats(UpsertBooking(rows, r, c, d))
    BY <1>1, <2>1, UpsertType, UpsertKeepsUnique
  <2> QED
    BY <2>3, <2>4 DEF r, c, d
<1>4. CASE op[p] \in Deletes
  <2>1. Effect(p, rows) = DeleteRows(rows, r, c) /\ op[p].kind = "delete"
    BY <1>4, OpTypes DEF Effect
  <2>2. DeleteRows(rows, r, c) \in SUBSET rows
    BY DEF DeleteRows
  <2> QED
    BY <1>1, <2>1, <2>2, SubsetKeepsRows
<1> QED
  BY <1>2, <1>3, <1>4

\* No process has the file open: nothing is stored, locked or cached.
LEMMA InitIInv == Init => IInv
<1> SUFFICES ASSUME Init PROVE IInv
  OBVIOUS
<1>1. TypeOK
  BY FS_EmptySet DEF Init, TypeOK
<1>2. LockInv
  BY DEF Init, LockInv
<1>3. SnapshotInv
  BY DEF Init, SnapshotInv
<1>4. NoDuplicateRows
  BY DEF Init, NoDuplicateRows, UniqueSeats
<1> QED
  BY <1>1, <1>2, <1>3, <1>4 DEF IInv

\* A call that leaves the table alone can only disturb what its own process
\* knows of the table.
LEMMA OwnSnapshot ==
    ASSUME SnapshotInv, NEW p \in Procs, UNCHANGED rows,
           \A q \in Procs \ {p} : /\ pc'[q] = pc[q] /\ op'[q] = op[q]
                                  /\ found'[q] = found[q] /\ cache'[q] = cache[q],
           pc'[p] \in {"write", "commit"} /\ op'[p].kind = "upsert" =>
              (found'[p] <=> At(rows, op'[p].seat[1], op'[p].seat[2]) # {}),
           pc'[p] = "commit" => cache'[p] = Effect(p, rows)'
    PROVE  SnapshotInv'
<1> SUFFICES ASSUME NEW q \in Procs
             PROVE  /\ pc'[q] \in {"write", "commit"} /\ op'[q].kind = "upsert" =>
                         (found'[q] <=> At(rows, op'[q].seat[1], op'[q].seat[2]) # {})
                    /\ pc'[q] = "commit" => cache'[q] = Effect(q, rows)'
  BY DEF SnapshotInv
<1>1. CASE q = p
  BY <1>1
<1>2. CASE q # p
  <2>1. Effect(q, rows)' = Effect(q, rows)
    BY <1>2 DEF Effect
  <2> QED
    BY <1>2, <2>1 DEF SnapshotInv
<1> QED
  BY <1>1, <1>2

\* The COMMIT of a process: nobody else is between a SELECT and a COMMIT.
LEMMA CommitKeepsIInv ==
    ASSUME IInv, NEW p \in Procs, Commit(p)
    PROVE  IInv'
<1>1. /\ pc[p] = "commit" /\ lock[p] = Exclusive
      /\ rows' = Effect(p, rows)
  BY DEF Commit, IInv, SnapshotInv
<1>2. /\ rows' \in SUBSET Records(Named) /\ IsFiniteSet(rows') /\ UniqueSeats(rows')
  BY <1>1, EffectFacts
<1>3. \A q \in Procs \ {p} : lock[q] = NoLock /\ pc[q] \notin {"write", "commit", "close"}
  BY <1>1 DEF IInv, TypeOK, LockInv
<1>4. TypeOK'
  BY <1>2, FS_EmptySet DEF Commit, IInv, TypeOK
<1>5. LockInv'
  BY <1>1, <1>3 DEF Commit, IInv, TypeOK, LockInv
<1>6. SnapshotInv'
  <2>1. \A q \in Procs : pc'[q] \notin {"write", "commit"}
    BY <1>3 DEF Commit, IInv, TypeOK
  <2> QED
    BY <2>1 DEF SnapshotInv
<1>7. NoDuplicateRows'
  BY <1>2 DEF NoDuplicateRows
<1> QED
  BY <1>4, <1>5, <1>6, <1>7 DEF IInv

\* A process that gives up, ends a read or dies leaves the table alone.
LEMMA ResetKeepsIInv ==
    ASSUME IInv, NEW p \in Procs, Reset(p)
    PROVE  IInv'
<1>1. TypeOK'
  BY FS_EmptySet DEF Reset, IInv, TypeOK
<1>2. LockInv'
  BY DEF Reset, IInv, TypeOK, LockInv
<1>3. SnapshotInv'
  BY OwnSnapshot DEF Reset, IInv, TypeOK
<1>4. NoDuplicateRows'
  BY DEF Reset, IInv, NoDuplicateRows
<1> QED
  BY <1>1, <1>2, <1>3, <1>4 DEF IInv

\* BEGIN is deferred: the process has no lock and has read nothing yet.
LEMMA BeginKeepsIInv ==
    ASSUME IInv, NEW p \in Procs, NEW o \in Ops, Begin(p, o)
    PROVE  IInv'
<1>1. TypeOK'
  BY DEF Begin, IInv, TypeOK
<1>2. LockInv'
  BY DEF Begin, IInv, TypeOK, LockInv
<1>3. SnapshotInv'
  BY OwnSnapshot DEF Begin, IInv, TypeOK
<1>4. NoDuplicateRows'
  BY DEF Begin, IInv, NoDuplicateRows
<1> QED
  BY <1>1, <1>2, <1>3, <1>4 DEF IInv

\* The SELECT decides on what the file holds, under a SHARED lock.
LEMMA SelectKeepsIInv ==
    ASSUME IInv, NEW p \in Procs, Select(p)
    PROVE  IInv'
<1>1. /\ pc[p] = "select" /\ op[p] \in Ops /\ lock[p] = NoLock
      /\ \A q \in Procs \ {p} : lock[q] < Pending
  BY DEF Select, CanShare, IInv, LockInv
<1>2. op[p].kind # "read" => op[p] \in Upserts \cup Deletes
  BY <1>1, OpTypes DEF Ops
<1>3. TypeOK'
  BY DEF Select, IInv, TypeOK
<1>4. LockInv'
  BY <1>1, <1>2 DEF Select, IInv, TypeOK, LockInv
<1>5. SnapshotInv'
  <2>1. pc'[p] \in {"write", "close"} /\ op'[p] = op[p]
    BY DEF Select, IInv, TypeOK
  <2>2. op[p].kind = "upsert" =>
          (found'[p] <=> At(rows, op[p].seat[1], op[p].seat[2]) # {})
    BY DEF Select, IInv, TypeOK
  <2> QED
    BY <2>1, <2>2, OwnSnapshot DEF Select, IInv, TypeOK
<1>6. NoDuplicateRows'
  BY DEF Select, IInv, NoDuplicateRows
<1> QED
  BY <1>3, <1>4, <1>5, <1>6 DEF IInv

\* The UPDATE, INSERT or DELETE computes its effect from what the file holds.
LEMMA WriteKeepsIInv ==
    ASSUME IInv, NEW p \in Procs, Write(p)
    PROVE  IInv'
<1>1. /\ pc[p] = "write" /\ lock[p] = Shared /\ op[p] \in Upserts \cup Deletes
      /\ \A q \in Procs \ {p} : lock[q] < Reserved
  BY DEF Write, CanReserve, IInv, LockInv
<1>2. Effect(p, rows) \in SUBSET Records(Named) /\ IsFiniteSet(Effect(p, rows))
  BY <1>1, EffectFacts
<1>3. TypeOK'
  BY <1>2 DEF Write, IInv, TypeOK
<1>4. LockInv'
  BY <1>1 DEF Write, IInv, TypeOK, LockInv
<1>5. SnapshotInv'
  <2>1. Effect(p, rows)' = Effect(p, rows)
    BY DEF Write, Effect
  <2>2. cache'[p] = Effect(p, rows)
    BY DEF Write, IInv, TypeOK
  <2>3. op[p].kind = "upsert" =>
          (found[p] <=> At(rows, op[p].seat[1], op[p].seat[2]) # {})
    BY <1>1 DEF IInv, SnapshotInv
  <2> QED
    BY <2>1, <2>2, <2>3, OwnSnapshot DEF Write, IInv, TypeOK
<1>6. NoDuplicateRows'
  BY DEF Write, IInv, NoDuplicateRows
<1> QED
  BY <1>3, <1>4, <1>5, <1>6 DEF IInv

\* The steps of a COMMIT towards the EXCLUSIVE lock, and a call that fails.
LEMMA LockStepKeepsIInv ==
    ASSUME IInv, NEW p \in Procs, GetPending(p) \/ GetExclusive(p) \/ Busy(p)
    PROVE  IInv'
<1>1. UNCHANGED <<rows, op, found, cache>>
  BY DEF GetPending, GetExclusive, Busy
<1>2. TypeOK'
  BY <1>1 DEF GetPending, GetExclusive, Busy, IInv, TypeOK
<1>3. LockInv'
  <2>1. CASE GetPending(p)
    BY <2>1 DEF GetPending, IInv, TypeOK, LockInv
  <2>2. CASE GetExclusive(p)
    BY <2>2 DEF GetExclusive, CanExclude, IInv, TypeOK, LockInv
  <2>3. CASE Busy(p)
    <3>1. pc[p] # "idle"
      BY <2>3 DEF Busy, Blocked
    <3> QED
      BY <2>3, <3>1 DEF Busy, IInv, TypeOK, LockInv
  <2> QED
    BY <2>1, <2>2, <2>3
<1>4. SnapshotInv'
  <2>1. \A q \in Procs : pc'[q] = pc[q] \/ pc'[q] = "failed"
    BY DEF GetPending, GetExclusive, Busy, IInv, TypeOK
  <2>2. \A q \in Procs : Effect(q, rows)' = Effect(q, rows)
    BY <1>1 DEF Effect
  <2> QED
    BY <1>1, <2>1, <2>2 DEF IInv, SnapshotInv
<1>5. NoDuplicateRows'
  BY <1>1 DEF IInv, NoDuplicateRows
<1> QED
  BY <1>2, <1>3, <1>4, <1>5 DEF IInv

\* A step that changes nothing keeps the invariant.
LEMMA StutterKeepsIInv ==
    ASSUME IInv, UNCHANGED vars
    PROVE  IInv'
BY DEF vars, IInv, TypeOK, LockInv, SnapshotInv, Effect, NoDuplicateRows

\* The invariant holds of every behaviour, for any number of processes.
THEOREM Invariance == Spec => []IInv
<1>1. IInv /\ [Next]_vars => IInv'
  <2> SUFFICES ASSUME IInv, Next PROVE IInv'
    BY StutterKeepsIInv
  <2> QED
    BY BeginKeepsIInv, SelectKeepsIInv, WriteKeepsIInv, LockStepKeepsIInv,
       CommitKeepsIInv, ResetKeepsIInv DEF Next, Step, Close, Rollback, Crash
<1> QED
  BY InitIInv, <1>1, PTL DEF Spec

\* No interleaving of the statements of InsertBookingData gives a seat two rows.
THEOREM RowsApart == Spec => []NoDuplicateRows
<1>1. IInv => NoDuplicateRows
  BY DEF IInv
<1> QED
  BY Invariance, <1>1, PTL

\* What InsertBookingData decided after its SELECT is still right at its COMMIT.
THEOREM DecisionsHold == Spec => []DecisionStillRight
<1>1. IInv => DecisionStillRight
  BY EffectFacts DEF IInv, SnapshotInv, DecisionStillRight
<1> QED
  BY Invariance, <1>1, PTL

\* The COMMIT of a process is a Put or a Remove of the seat of its operation.
LEMMA CommitIsStoreStep ==
    ASSUME IInv, NEW p \in Procs, Commit(p)
    PROVE  [Store!Next]_Contents
<1> DEFINE s == op[p].seat
           r == s[1]
           c == s[2]
           d == op[p].details
<1>1. pc[p] = "commit" /\ rows' = Effect(p, rows)
  BY DEF Commit, IInv, SnapshotInv
<1>2. op[p] \in Upserts \/ op[p] \in Deletes
  BY <1>1 DEF IInv, LockInv
<1>3. r \in Nat /\ c \in Nat /\ s \in Seat /\ s = <<r, c>>
  BY <1>2, OpTypes
<1>4. rows \in SUBSET Records(Named)
  BY DEF IInv, TypeOK
<1>5. \A q \in Seat : q[1] = r /\ q[2] = c <=> q = s
  BY <1>3, SeatAssumption
<1>6. CASE op[p] \in Upserts
  <2>1. rows' = UpsertBooking(rows, r, c, d) /\ d \in Named
    BY <1>1, <1>6, EffectFacts, OpTypes
  <2> HIDE DEF s, r, c, d
  <2>2. ASSUME NEW q \in Seat
        PROVE  DetailsAt(rows', q[1], q[2])
                 = IF q = s THEN {d} ELSE DetailsAt(rows, q[1], q[2])
    <3> DEFINE i == q[1]
               j == q[2]
    <3> HIDE DEF i, j
    <3>1. DetailsAt(UpsertBooking(rows, r, c, d), i, j)
            = IF i = r /\ j = c THEN {d} ELSE DetailsAt(rows, i, j)
      BY <1>3, <1>4, <2>1, UpsertEffect
    <3> QED
      BY <1>5, <2>1, <3>1 DEF i, j
  <2>3. Contents' = [Contents EXCEPT !["table"][s] = {d}]
    BY <1>3, <2>2 DEF Contents
  <2>4. {d} \in Passengers
    BY <2>1 DEF Passengers
  <2> QED
    BY <1>3, <2>3, <2>4 DEF Store!Next, Store!Put
<1>7. CASE op[p] \in Deletes
  <2>1. rows' = DeleteRows(rows, r, c)
    BY <1>1, <1>7, OpTypes DEF Effect
  <2> HIDE DEF s, r, c
  <2>2. ASSUME NEW q \in Seat
        PROVE  DetailsAt(rows', q[1], q[2])
                 = IF q = s THEN {} ELSE DetailsAt(rows, q[1], q[2])
    BY <1>5, <2>1 DEF DetailsAt, At, DeleteRows
  <2>3. Contents' = [Contents EXCEPT !["table"][s] = {}]
    BY <1>3, <2>2 DEF Contents
  <2> QED
    BY <1>3, <2>3 DEF Store!Next, Store!Remove
<1> QED
  BY <1>2, <1>6, <1>7

\* The transactions of InsertBookingData and the DELETE of DeleteBookingData,
\* run call by call by any number of processes, with busy failures and crashes,
\* implement the abstract store: a booking is put or removed whole, at a COMMIT.
THEOREM ImplementsStore == Spec => StoreSpec
<1>1. Init => Store!Init
  <2> SUFFICES ASSUME Init
               PROVE  Contents = [t \in {"table"} |-> [s \in Seat |-> {}]]
    BY DEF Store!Init
  <2>1. \A r, c : DetailsAt(rows, r, c) = {}
    BY DEF Init, DetailsAt, At
  <2> QED
    BY <2>1 DEF Contents
<1>2. IInv /\ [Next]_vars => [Store!Next]_Contents
  <2> SUFFICES ASSUME IInv, [Next]_vars
               PROVE  [Store!Next]_Contents
    OBVIOUS
  <2>1. CASE \E p \in Procs : Commit(p)
    BY <2>1, CommitIsStoreStep
  <2>2. CASE ~\E p \in Procs : Commit(p)
    <3>1. rows' = rows
      BY <2>2 DEF Next, vars, Begin, Step, Select, Write, GetPending, GetExclusive,
                  Busy, Close, Rollback, Crash, Reset
    <3> QED
      BY <3>1 DEF Contents
  <2> QED
    BY <2>1, <2>2
<1> QED
  BY Invariance, <1>1, <1>2, PTL DEF Spec, StoreSpec, Store!Spec
=============================================================================
