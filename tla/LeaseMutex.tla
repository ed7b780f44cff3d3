----------------------------- MODULE LeaseMutex -----------------------------
(***************************************************************************)
(* What apps/sync/locking.py promises its callers: per lock key, at most   *)
(* one worker is between the entry and the exit of "with sync_lock(key)".  *)
(* A worker that dies there orphans the key, and an orphaned key can be    *)
(* acquired again.  SyncLock implements this specification when every      *)
(* holder obeys the Celery time limit (SyncLock!Refinement); the modules   *)
(* of the sync tasks use these actions instead of the SyncLock table.      *)
(***************************************************************************)
CONSTANTS
    Keys,           \* lock keys
    Workers,        \* processes that run tasks
    Free, Orphan    \* two values that are not workers

VARIABLE holder

Init == holder = [k \in Keys |-> Free]

\* The body of the with statement starts.
Acquire(k, w) ==
    /\ holder[k] \in {Free, Orphan}
    /\ holder' = [holder EXCEPT ![k] = w]

\* LockAcquisitionError: there is a row, or another worker is creating it.
Refused(k) == holder[k] # Free

\* The finally clause.
Release(k, w) ==
    /\ holder[k] = w
    /\ holder' = [holder EXCEPT ![k] = Free]

\* A killed worker runs no finally clause: the rows of its keys stay.
Die(w) ==
    holder' = [k \in Keys |-> IF holder[k] = w THEN Orphan ELSE holder[k]]

\* An exception leaves every with statement the worker is in.
Unwind(w) ==
    holder' = [k \in Keys |-> IF holder[k] = w THEN Free ELSE holder[k]]

Next == \E w \in Workers :
            \/ \E k \in Keys : Acquire(k, w) \/ Release(k, w)
            \/ Die(w)
            \/ Unwind(w)

Spec == Init /\ [][Next]_holder
=============================================================================
