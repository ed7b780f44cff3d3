--------------------------- MODULE SyncLock_proofs ---------------------------
(***************************************************************************)
(* Proofs about SyncLock for any number of workers and any time limits     *)
(* with TaskLimit <= LockTimeout, when no worker is a management command   *)
(* (Cli = {}): only then does a time limit bound the life of every holder. *)
(***************************************************************************)
EXTENDS SyncLock, TLAPS

\* The steps of one worker, without Tick.
WorkerStep(w) == Start(w) \/ Step(w) \/ Kill(w)

\* A step is one of a worker or of time.
LEMMA NextCases ==
    ASSUME Next
    PROVE  Tick \/ \E w \in Workers : WorkerStep(w)
  BY DEF Next, WorkerStep, HardLimit

\* A tick ages the row by at most one step.
LEMMA AgeAdvances ==
    ASSUME TypeOK, Tick
    PROVE  age' \in 0..(LockTimeout + 1) /\ age' <= age + 1
<1> USE LockAssumption DEF LockAssumption, TypeOK
<1>1. CASE RowExists
  <2>1. age' = IF age + 1 > LockTimeout + 1 THEN LockTimeout + 1 ELSE age + 1
    BY <1>1 DEF Tick, AtMost
  <2> QED
    BY <2>1
<1>2. CASE ~RowExists
  BY <1>2 DEF Tick
<1> QED
  BY <1>1, <1>2

\* Every step preserves the type invariant.
LEMMA TypePreserved ==
    ASSUME TypeOK, [Next]_vars
    PROVE  TypeOK'
<1> USE LockAssumption DEF LockAssumption
<1>1. CASE UNCHANGED vars
  BY <1>1 DEF TypeOK, vars
<1>2. CASE Tick
  <2>1. age' \in 0..(LockTimeout + 1)
    BY <1>2, AgeAdvances
  <2>2. elapsed' \in [Workers -> 0..TaskLimit]
    BY <1>2 DEF TypeOK, Tick, AtMost
  <2> QED
    BY <1>2, <2>1, <2>2 DEF TypeOK, Tick
<1>3. ASSUME NEW w \in Workers, WorkerStep(w)
      PROVE  TypeOK'
  BY <1>3 DEF TypeOK, WorkerStep, Start, Step, SelectNone, SelectStale, SelectFresh,
              TakeOver, Create, CreateFails, Release, Kill, Go, Place
<1> QED
  BY <1>1, <1>2, <1>3, NextCases

\* The type invariant of the lock table and its workers (locking.py).
THEOREM TypeCorrect == Spec => []TypeOK
<1>1. Init => TypeOK
  BY LockAssumption DEF LockAssumption, Init, TypeOK, Place
<1>2. TypeOK /\ [Next]_vars => TypeOK'
  BY TypePreserved
<1> QED
  BY <1>1, <1>2, PTL DEF Spec

\* A stale row protects nobody: a worker inside would own an older task than
\* its limit allows.
LEMMA StaleIsAbandoned ==
    ASSUME TypeOK, Guarded, Stale
    PROVE  Inside = {}
<1> SUFFICES ASSUME NEW w \in Workers, pc[w] = "inside"
             PROVE  FALSE
  BY DEF Inside
<1> QED
  BY LockAssumption DEF LockAssumption, TypeOK, Guarded, Stale

\* Whoever is inside owns the row.
LEMMA OnlyOwnerInside ==
    ASSUME Guarded
    PROVE  \A w \in Inside : owner = w
  BY DEF Guarded, Inside

\* Every step preserves Guarded, when a time limit stops every holder.
LEMMA GuardedPreserved ==
    ASSUME Cli = {}, IInv, [Next]_vars
    PROVE  Guarded'
<1> USE LockAssumption DEF LockAssumption, IInv
<1>1. CASE UNCHANGED vars
  BY <1>1 DEF Guarded, vars
<1>2. CASE Tick
  <2> SUFFICES ASSUME NEW w \in Workers, pc'[w] = "inside"
               PROVE  owner' = w /\ age' <= elapsed'[w]
    BY DEF Guarded
  <2>1. owner' = owner /\ pc[w] = "inside" /\ elapsed[w] < TaskLimit
    BY <1>2 DEF Tick
  <2>2. owner = w /\ age <= elapsed[w]
    BY <2>1 DEF Guarded
  <2>3. elapsed'[w] = elapsed[w] + 1
    BY <1>2, <2>1 DEF Tick, AtMost, TypeOK
  <2>4. age' <= age + 1
    BY <1>2, AgeAdvances
  <2>5. age' \in Nat /\ age \in Nat /\ elapsed[w] \in Nat
    BY TypePreserved DEF TypeOK
  <2> QED
    BY <2>1, <2>2, <2>3, <2>4, <2>5
<1>3. ASSUME NEW w \in Workers, WorkerStep(w)
      PROVE  Guarded'
  <2>1. CASE Start(w)
    BY <2>1 DEF Start, Go, Guarded, TypeOK
  <2>2. CASE TakeOver(w)
    <3>1. Inside = {}
      BY <2>2, StaleIsAbandoned DEF TakeOver, TakingOver, TypeOK
    <3>2. \A x \in Workers : pc'[x] = "inside" => x = w
      BY <2>2, <3>1 DEF TakeOver, Go, Inside, TypeOK
    <3> QED
      BY <2>2, <3>2 DEF TakeOver, Guarded, TypeOK
  <2>3. CASE Create(w)
    <3>1. \A x \in Workers : pc[x] # "inside"
      BY <2>3 DEF Create, RowExists, Guarded
    <3> QED
      BY <2>3, <3>1 DEF Create, Go, Guarded, TypeOK
  <2>4. CASE Release(w)
    <3>1. \A x \in Workers : pc'[x] # "inside"
      BY <2>4 DEF Release, Go, Guarded, TypeOK
    <3> QED
      BY <3>1 DEF Guarded
  <2>5. CASE SelectNone(w) \/ SelectStale(w) \/ SelectFresh(w) \/ CreateFails(w) \/ Kill(w)
    BY <2>5 DEF SelectNone, SelectStale, SelectFresh, CreateFails, Kill, Go, Guarded, TypeOK
  <2> QED
    BY <1>3, <2>1, <2>2, <2>3, <2>4, <2>5 DEF WorkerStep, Step
<1> QED
  BY <1>1, <1>2, <1>3, NextCases

\* Every step preserves TakingOver.
LEMMA TakingOverPreserved ==
    ASSUME IInv, [Next]_vars
    PROVE  TakingOver'
<1> USE LockAssumption DEF LockAssumption, IInv, RowExists, Stale
<1>1. CASE UNCHANGED vars
  BY <1>1 DEF TakingOver, vars
<1>2. CASE Tick
  BY <1>2 DEF TakingOver, Tick, TypeOK, AtMost
<1>3. ASSUME NEW w \in Workers, WorkerStep(w)
      PROVE  TakingOver'
  <2>1. CASE Start(w) \/ SelectNone(w) \/ SelectFresh(w)
    BY <2>1 DEF Start, SelectNone, SelectFresh, Go, TakingOver, TypeOK
  <2>2. CASE SelectStale(w)
    BY <2>2 DEF SelectStale, Go, TakingOver, TypeOK
  <2>3. CASE TakeOver(w)
    BY <2>3 DEF TakeOver, Go, TakingOver, TypeOK
  <2>4. CASE Create(w) \/ CreateFails(w)
    BY <2>4 DEF Create, CreateFails, Go, TakingOver, TypeOK
  <2>5. CASE Release(w) \/ Kill(w)
    BY <2>5 DEF Release, Kill, Go, TakingOver, TypeOK
  <2> QED
    BY <1>3, <2>1, <2>2, <2>3, <2>4, <2>5 DEF WorkerStep, Step
<1> QED
  BY <1>1, <1>2, <1>3, NextCases

\* IInv is an invariant.
THEOREM Invariance ==
    ASSUME Cli = {}
    PROVE  Spec => []IInv
<1>1. Init => IInv
  BY LockAssumption DEF LockAssumption, Init, IInv, TypeOK, Guarded, TakingOver, Place
<1>2. IInv /\ [Next]_vars => IInv'
  BY TypePreserved, GuardedPreserved, TakingOverPreserved DEF IInv
<1> QED
  BY <1>1, <1>2, PTL DEF Spec

\* Two tasks are never inside sync_lock with the same key (locking.py:23-35).
THEOREM MutuallyExclusive ==
    ASSUME Cli = {}
    PROVE  Spec => []MutualExclusion
<1>1. IInv => MutualExclusion
  BY OnlyOwnerInside DEF IInv, MutualExclusion
<1> QED
  BY <1>1, Invariance, PTL

\* A stale row is rewritten only when nobody relies on it (locking.py:45-49).
THEOREM TakeOversAreSafe ==
    ASSUME Cli = {}
    PROVE  Spec => []TakeOverIsSafe
<1>1. IInv => TakeOverIsSafe
  BY StaleIsAbandoned, LockAssumption DEF LockAssumption, IInv, TakingOver, TakeOverIsSafe
<1> QED
  BY <1>1, Invariance, PTL

\* The delete in the finally clause, which names only the key, deletes the
\* worker's own row (locking.py:33-34).
THEOREM ReleasesAreOwn ==
    ASSUME Cli = {}
    PROVE  Spec => ReleasesOwnRow
<1>1. IInv => \A w \in Workers : Release(w) => owner = w
  BY DEF IInv, Guarded, Release
<1> QED
  BY <1>1, Invariance, PTL DEF ReleasesOwnRow
-----------------------------------------------------------------------------
\* What the lease's holder is, in terms of the row and the workers inside.
HolderMeaning ==
    /\ \A w \in Inside : holderOf = w
    /\ Inside = {} => holderOf = IF RowExists THEN Orphan ELSE NoWorker

\* The invariant says what the holder is.
LEMMA HolderMeaningHolds == IInv => HolderMeaning
<1> SUFFICES ASSUME IInv
             PROVE  \A w \in Inside : holderOf = w
  BY DEF HolderMeaning, holderOf
<1> TAKE w \in Inside
<1>1. Inside = {w}
  BY OnlyOwnerInside DEF IInv
<1> QED
  BY <1>1 DEF holderOf

\* Every step acquires, gives up or leaves the lease.
LEMMA LeaseStep ==
    ASSUME IInv, HolderMeaning, HolderMeaning', [Next]_vars
    PROVE  \/ holderOf' = holderOf
           \/ \E w \in Workers :
                \/ holderOf \in {NoWorker, Orphan} /\ holderOf' = w
                \/ holderOf = w /\ holderOf' \in {NoWorker, Orphan}
<1> USE DEF IInv, HolderMeaning, RowExists
<1>1. CASE UNCHANGED vars \/ Tick
  BY <1>1 DEF vars, Tick, holderOf, Inside
<1>2. ASSUME NEW w \in Workers, WorkerStep(w)
      PROVE  \/ holderOf' = holderOf
             \/ holderOf \in {NoWorker, Orphan} /\ holderOf' = w
             \/ holderOf = w /\ holderOf' \in {NoWorker, Orphan}
  <2>1. CASE Start(w) \/ SelectNone(w) \/ SelectStale(w) \/ SelectFresh(w) \/ CreateFails(w)
    <3>1. Inside' = Inside /\ owner' = owner
      BY <2>1 DEF Start, SelectNone, SelectStale, SelectFresh, CreateFails, Go, Inside, TypeOK
    <3> QED
      BY <3>1 DEF holderOf
  <2>2. CASE TakeOver(w)
    <3>1. Inside = {} /\ w \in Inside'
      BY <2>2, StaleIsAbandoned, LockAssumption
         DEF LockAssumption, TakeOver, Go, TakingOver, TypeOK, Inside
    <3> QED
      BY <3>1
  <2>3. CASE Create(w)
    <3>1. Inside = {} /\ w \in Inside'
      BY <2>3, LockAssumption DEF LockAssumption, Create, Go, Guarded, TypeOK, Inside
    <3> QED
      BY <3>1
  <2>4. CASE Release(w)
    <3>1. w \in Inside /\ Inside' = {}
      BY <2>4 DEF Release, Go, Guarded, TypeOK, Inside
    <3> QED
      BY <3>1
  <2>5. CASE Kill(w)
    <3>1. CASE pc[w] = "inside"
      <4>1. w \in Inside /\ Inside' = {}
        BY <2>5, <3>1 DEF Kill, Go, Guarded, TypeOK, Inside
      <4> QED
        BY <4>1
    <3>2. CASE pc[w] # "inside"
      <4>1. Inside' = Inside /\ owner' = owner
        BY <2>5, <3>2 DEF Kill, Go, TypeOK, Inside
      <4> QED
        BY <4>1 DEF holderOf
    <3> QED
      BY <3>1, <3>2
  <2> QED
    BY <1>2, <2>1, <2>2, <2>3, <2>4, <2>5 DEF WorkerStep, Step
<1> QED
  BY <1>1, <1>2, NextCases

\* The lock table implements the lease that the sync tasks rely on.
THEOREM ImplementsLease ==
    ASSUME Cli = {}
    PROVE  Spec => Refinement
<1> DEFINE H == [k \in {"key"} |-> holderOf]
<1>1. Init => Lease!Init
  <2>1. Init => Inside = {} /\ ~RowExists
    BY DEF Init, Inside, RowExists
  <2> QED
    BY <2>1 DEF Lease!Init, holderOf
<1>2. IInv /\ IInv' /\ [Next]_vars => [Lease!Next]_H
  <2> SUFFICES ASSUME IInv, IInv', [Next]_vars
               PROVE  [Lease!Next]_H
    OBVIOUS
  <2>1. HolderMeaning /\ HolderMeaning'
    <3>1. HolderMeaning
      BY HolderMeaningHolds
    <3>2. (IInv => HolderMeaning)'
      BY HolderMeaningHolds, PTL
    <3> QED
      BY <3>1, <3>2
  <2>2. CASE holderOf' = holderOf
    BY <2>2
  <2>3. ASSUME NEW w \in Workers, holderOf \in {NoWorker, Orphan}, holderOf' = w
        PROVE  Lease!Acquire("key", w)
    BY <2>3 DEF Lease!Acquire
  <2>4. ASSUME NEW w \in Workers, holderOf = w, holderOf' = NoWorker
        PROVE  Lease!Release("key", w)
    BY <2>4 DEF Lease!Release
  <2>5. ASSUME NEW w \in Workers, holderOf = w, holderOf' = Orphan
        PROVE  Lease!Die(w)
    BY <2>5 DEF Lease!Die
  <2> QED
    BY <2>1, <2>2, <2>3, <2>4, <2>5, LeaseStep DEF Lease!Next
<1> QED
  BY <1>1, <1>2, Invariance, PTL DEF Spec, Refinement, Lease!Spec
=============================================================================
