------------------------------ MODULE SyncLock ------------------------------
(***************************************************************************)
(* apps/sync/locking.py: the SyncLock row of one lock_key, the             *)
(* transactions of _acquire_lock that read and write it, and the time      *)
(* limits that decide whether taking over a stale row is safe.             *)
(*                                                                         *)
(* Time is relative: "age" is how long ago the row's locked_at lies and    *)
(* "elapsed" how long each task has been running.  Both stop counting one  *)
(* step past the last value the code can tell apart, so the model needs no *)
(* bound on the length of a run.                                           *)
(***************************************************************************)
EXTENDS Naturals

CONSTANTS
    Workers,        \* processes that run sync tasks
    Cli,            \* those started by a management command: no time limit
    LockTimeout,    \* LOCK_TIMEOUT_MINUTES
    TaskLimit,      \* CELERY_TASK_TIME_LIMIT
    NoWorker,       \* "there is no row" / "nobody holds the row lock"
    Orphan          \* the lease of a row whose worker has died

ASSUME LockAssumption ==
    /\ Cli \subseteq Workers
    /\ NoWorker \notin Workers
    /\ Orphan \notin Workers \cup {NoWorker}
    /\ LockTimeout \in Nat
    /\ TaskLimit \in Nat
    /\ TaskLimit <= LockTimeout    \* 300 seconds and 5 minutes

VARIABLES
    owner,      \* locked_by, or NoWorker when the table has no such row
    age,        \* now - locked_at
    rowLock,    \* the transaction that holds SELECT ... FOR UPDATE on the row
    pc,         \* where each worker is
    elapsed     \* time since the worker's task started

vars == <<owner, age, rowLock, pc, elapsed>>

Place == {"idle", "select", "takeover", "create", "inside"}

TypeOK ==
    /\ owner \in Workers \cup {NoWorker}
    /\ age \in 0..(LockTimeout + 1)
    /\ rowLock \in Workers \cup {NoWorker}
    /\ pc \in [Workers -> Place]
    /\ elapsed \in [Workers -> 0..TaskLimit]

RowExists == owner # NoWorker

\* Mutant: "<=" instead of "<".
Stale_orEqual == age >= LockTimeout

\* locked_at < now - timeout, strictly
Stale == age > LockTimeout

Go(w, place) == pc' = [pc EXCEPT ![w] = place]

Init ==
    /\ owner = NoWorker
    /\ age = 0
    /\ rowLock = NoWorker
    /\ pc = [w \in Workers |-> "idle"]
    /\ elapsed = [w \in Workers |-> 0]

-----------------------------------------------------------------------------
\* A task reaches its "with sync_lock(lock_key)".
Start(w) ==
    /\ pc[w] = "idle"
    /\ Go(w, "select")
    /\ elapsed' = [elapsed EXCEPT ![w] = 0]
    /\ UNCHANGED <<owner, age, rowLock>>

\* select_for_update(skip_locked=True) finds no row it can lock: there is
\* none, or another transaction holds it.  The code goes on to create one.
SelectNone(w) ==
    /\ pc[w] = "select"
    /\ ~RowExists \/ rowLock # NoWorker
    /\ Go(w, "create")
    /\ UNCHANGED <<owner, age, rowLock, elapsed>>

\* Mutant: a plain SELECT, without FOR UPDATE.
SelectStale_unlocked(w) ==
    /\ pc[w] = "select"
    /\ RowExists
    /\ Stale
    /\ Go(w, "takeover")
    /\ UNCHANGED <<owner, age, rowLock, elapsed>>

\* Mutant: rows never expire.
SelectStale_never(w) == w # w

\* The row is stale: the transaction keeps its lock until it has saved it.
SelectStale(w) ==
    /\ pc[w] = "select"
    /\ RowExists
    /\ rowLock = NoWorker
    /\ Stale
    /\ Go(w, "takeover")
    /\ rowLock' = w
    /\ UNCHANGED <<owner, age, elapsed>>

\* The row is fresh: _acquire_lock returns None, sync_lock raises.
SelectFresh(w) ==
    /\ pc[w] = "select"
    /\ RowExists
    /\ rowLock = NoWorker
    /\ ~Stale
    /\ Go(w, "idle")
    /\ UNCHANGED <<owner, age, rowLock, elapsed>>

\* Mutant: update_fields without locked_at.
TakeOver_keepsAge(w) ==
    /\ pc[w] = "takeover"
    /\ owner' = w
    /\ rowLock' = NoWorker
    /\ Go(w, "inside")
    /\ UNCHANGED <<age, elapsed>>

\* The stale row is rewritten and the transaction commits.
TakeOver(w) ==
    /\ pc[w] = "takeover"
    /\ owner' = w
    /\ age' = 0
    /\ rowLock' = NoWorker
    /\ Go(w, "inside")
    /\ UNCHANGED elapsed

\* Mutant: lock_key is not unique, every INSERT succeeds.
Create_notUnique(w) ==
    /\ pc[w] = "create"
    /\ owner' = w
    /\ age' = 0
    /\ Go(w, "inside")
    /\ UNCHANGED <<rowLock, elapsed>>

\* No transaction has created the row in the meantime.
Create(w) ==
    /\ pc[w] = "create"
    /\ ~RowExists
    /\ owner' = w
    /\ age' = 0
    /\ Go(w, "inside")
    /\ UNCHANGED <<rowLock, elapsed>>

\* IntegrityError on the unique lock_key: None, and sync_lock raises.
CreateFails(w) ==
    /\ pc[w] = "create"
    /\ RowExists
    /\ Go(w, "idle")
    /\ UNCHANGED <<owner, age, rowLock, elapsed>>

\* The finally clause deletes the row by its key, whoever's it is by now.  The
\* DELETE waits while a transaction has the row locked.
Release(w) ==
    /\ pc[w] = "inside"
    /\ rowLock = NoWorker
    /\ owner' = NoWorker
    /\ age' = 0
    /\ Go(w, "idle")
    /\ UNCHANGED <<rowLock, elapsed>>

\* The process disappears: its transaction rolls back, its row stays.
Kill(w) ==
    /\ pc[w] # "idle"
    /\ Go(w, "idle")
    /\ rowLock' = IF rowLock = w THEN NoWorker ELSE rowLock
    /\ UNCHANGED <<owner, age, elapsed>>

\* CELERY_TASK_TIME_LIMIT: the pool kills the process that runs the task.
HardLimit(w) ==
    /\ w \notin Cli
    /\ elapsed[w] = TaskLimit
    /\ Kill(w)

AtMost(n, bound) == IF n > bound THEN bound ELSE n

\* Time passes, unless a limited task is due to be killed first.
Tick ==
    /\ \A w \in Workers \ Cli : pc[w] # "idle" => elapsed[w] < TaskLimit
    /\ age' = IF RowExists THEN AtMost(age + 1, LockTimeout + 1) ELSE 0
    /\ elapsed' = [w \in Workers |->
            IF pc[w] = "idle" THEN 0 ELSE AtMost(elapsed[w] + 1, TaskLimit)]
    /\ UNCHANGED <<owner, rowLock, pc>>

\* The steps of a worker's own code.
Step(w) ==
    \/ SelectNone(w)
    \/ SelectStale(w)
    \/ SelectFresh(w)
    \/ TakeOver(w)
    \/ Create(w)
    \/ CreateFails(w)
    \/ Release(w)

Next ==
    \/ \E w \in Workers : Start(w) \/ Step(w) \/ Kill(w) \/ HardLimit(w)
    \/ Tick

Spec == Init /\ [][Next]_vars

-----------------------------------------------------------------------------
\* Tasks keep being dispatched, a running task goes on, time passes and the
\* pool enforces its limit.  The takeover is strongly fair: processes are not
\* killed every single time between finding a stale row and rewriting it.
Fairness ==
    /\ \A w \in Workers : WF_vars(Start(w)) /\ WF_vars(Step(w))
    /\ \A w \in Workers : SF_vars(SelectStale(w)) /\ SF_vars(TakeOver(w))
    /\ \A w \in Workers \ Cli : WF_vars(HardLimit(w))
    /\ WF_vars(Tick)

FairSpec == Spec /\ Fairness

-----------------------------------------------------------------------------
Inside == {w \in Workers : pc[w] = "inside"}

\* "Cannot acquire lock: another worker holds it": two workers are never both
\* inside the body of sync_lock for the same key (locking.py, sync_lock).
MutualExclusion == \A w, x \in Inside : w = x

\* The finally clause deletes by key.  It never deletes a row that another
\* worker has taken over or created in the meantime (locking.py, sync_lock).
ReleasesOwnRow == [][\A w \in Workers : Release(w) => owner = w]_vars

\* A row is rewritten under the eyes of nobody: while a takeover is between its
\* SELECT and its UPDATE, no worker is still inside the body that the row
\* protects, and the row is still the stale one (locking.py, _acquire_lock).
TakeOverIsSafe ==
    \A w \in Workers : pc[w] = "takeover" => rowLock = w /\ Stale /\ Inside = {}

\* The row of a killed worker does not lock its key out for good: somebody
\* gets inside again (locking.py, LOCK_TIMEOUT_MINUTES).
Recovers == RowExists /\ Inside = {} ~> Inside # {}

\* The inductive invariant.  A worker inside owns the row, and the row is not
\* older than its task: so the row of a live worker that obeys the limit is
\* never stale, and a stale row is a dead worker's.
Guarded ==
    \A w \in Workers : pc[w] = "inside" => owner = w /\ age <= elapsed[w]

TakingOver ==
    /\ \A w \in Workers : pc[w] = "takeover" <=> rowLock = w
    /\ rowLock # NoWorker => RowExists /\ Stale

IInv == TypeOK /\ Guarded /\ TakingOver

-----------------------------------------------------------------------------
\* The lease that the callers see.
holderOf ==
    IF Inside # {} THEN CHOOSE w \in Inside : TRUE
    ELSE IF RowExists THEN Orphan
    ELSE NoWorker

Lease == INSTANCE LeaseMutex WITH
    Keys <- {"key"}, Free <- NoWorker,
    holder <- [k \in {"key"} |-> holderOf]

\* The table implements the lease.
Refinement == Lease!Spec
=============================================================================
