------------------------------ MODULE SyncJobs ------------------------------
(***************************************************************************)
(* apps/sync/tasks.py and apps/sync/models.py: the life of a SyncJob, from *)
(* the tasks that create it (_run_export_batch, export_new_*_to_icg and    *)
(* retry_entity) over _record_sync_error, schedule_retry and               *)
(* _mark_job_succeeded to retry_failed_jobs and the actions of the admin.  *)
(* The exports themselves are a step with three outcomes; what they do to  *)
(* Prestashop or ICG is not this module's business.                        *)
(*                                                                         *)
(* Several processes run these tasks.  A task reads the job table, calls   *)
(* out and writes later: each of those is a step of its own here, and      *)
(* every process obeys the Celery time limit, so that sync_lock is the     *)
(* lease of LeaseMutex (module SyncLock, ImplementsLease).                 *)
(*                                                                         *)
(* Times are relative and saturate, as in SyncLock: "age" is now -         *)
(* started_at of a RUNNING job and "wait" is available_at - now of a       *)
(* PENDING one.  The code reads neither in another status.                 *)
(***************************************************************************)
EXTENDS Naturals

CONSTANTS
    Workers,            \* the processes that run Celery tasks
    Tasks,              \* the tasks that are dispatched in a run
    Admin,              \* whether staff use the admin actions on jobs and errors
    Catalog,            \* keys of the entities exported to Prestashop
    Sales,              \* keys of the customers and orders exported to ICG
    MaxJobs,            \* bound: number of rows in the job table
    MAX_SYNC_RETRIES,
    BACKOFF,            \* BACKOFF_SCHEDULE_SECONDS
    TaskLimit,          \* CELERY_TASK_TIME_LIMIT
    StaleTimeout,       \* STALE_RUNNING_JOB_TIMEOUT
    Free, Orphan,       \* see LeaseMutex
    None                \* no key, no job

ASSUME JobsAssumption ==
    /\ Tasks \subseteq {"batch", "sales", "entity", "retry"}
    /\ Admin \in BOOLEAN
    /\ Catalog \cap Sales = {}
    /\ MaxJobs \in Nat
    /\ None \notin Catalog \cup Sales
    /\ None \notin 1..MaxJobs
    /\ Free \notin Workers /\ Orphan \notin Workers /\ Free # Orphan
    /\ MAX_SYNC_RETRIES \in Nat \ {0}
    /\ BACKOFF \in [1..2 -> Nat]
    /\ TaskLimit \in Nat
    /\ StaleTimeout \in Nat
    /\ TaskLimit < StaleTimeout     \* the limit plus 60 seconds

VARIABLES
    job,        \* the SyncJob table, with what is left of each job's errors
    holder,     \* who holds each sync_lock
    task,       \* the task each process runs
    pc,         \* where in it
    entity,     \* the key it is processing
    jobOf,      \* the job of that
    mem,        \* the fields of the job object it has in memory
    todo,       \* what its loop has still to visit, as listed when it began
    elapsed     \* how long the task has been running

vars == <<job, holder, task, pc, entity, jobOf, mem, todo, elapsed>>
local == <<task, pc, entity, jobOf, mem, todo, elapsed>>

Keys == Catalog \cup Sales
Jobs == 1..MaxJobs
LockKeys == {"batch", "sales", "retry"}
Lease == INSTANCE LeaseMutex WITH Keys <- LockKeys

-----------------------------------------------------------------------------
Status == {"absent", "pending", "running", "succeeded", "failed"}
ErrorType == {"transient", "permanent"}    \* VALIDATION is treated as PERMANENT
Outcome == {"ok"} \cup ErrorType
Place == {"idle", "loop", "create", "lock", "export"} \cup Outcome
Memory == [attempts : Nat, contention : 0..2]
Snapshot == [id : Jobs, attempts : Nat, contention : 0..2, latest : ErrorType]

\* A row: latest is the type of the newest SyncError, unresolved the types of
\* the errors not yet marked resolved, contention the counter in the payload.
Row == [key : Keys \cup {None}, status : Status, attempts : Nat,
        age : 0..(StaleTimeout + 1), wait : Nat,
        latest : ErrorType \cup {"none"}, unresolved : SUBSET ErrorType,
        contention : 0..2]

NoRow == [key |-> None, status |-> "absent", attempts |-> 0, age |-> 0, wait |-> 0,
          latest |-> "none", unresolved |-> {}, contention |-> 0]

TypeOK ==
    /\ job \in [Jobs -> Row]
    /\ holder \in [LockKeys -> Workers \cup {Free, Orphan}]
    /\ task \in [Workers -> {"none"} \cup Tasks]
    /\ pc \in [Workers -> Place]
    /\ entity \in [Workers -> Keys \cup {None}]
    /\ jobOf \in [Workers -> Jobs \cup {None}]
    /\ mem \in [Workers -> Memory]
    /\ todo \in [Workers -> SUBSET (Keys \cup Snapshot)]
    /\ elapsed \in [Workers -> 0..TaskLimit]

Init ==
    /\ job = [j \in Jobs |-> NoRow]
    /\ Lease!Init
    /\ task = [w \in Workers |-> "none"]
    /\ pc = [w \in Workers |-> "idle"]
    /\ entity = [w \in Workers |-> None]
    /\ jobOf = [w \in Workers |-> None]
    /\ mem = [w \in Workers |-> [attempts |-> 0, contention |-> 0]]
    /\ todo = [w \in Workers |-> {}]
    /\ elapsed = [w \in Workers |-> 0]

-----------------------------------------------------------------------------
\* Mutant: a timeout that does not exceed the time limit.
StaleRunning_noMargin(j) == job[j].status = "running" /\ job[j].age >= TaskLimit

\* started_at < now - STALE_RUNNING_JOB_TIMEOUT
StaleRunning(j) == job[j].status = "running" /\ job[j].age > StaleTimeout

\* Mutants: a RUNNING job never conflicts; a RUNNING job always conflicts.
Open_pendingOnly(j) == job[j].status = "pending"
Open_anyRunning(j) == job[j].status \in {"pending", "running"}

\* The jobs that count as open: not those whose process must have died.
Open(j) == job[j].status = "pending" \/ (job[j].status = "running" /\ ~StaleRunning(j))

\* Mutant: only a PENDING job stands in the way.
HasOpenJobConflict_pending(k) == \E j \in Jobs : job[j].key = k /\ job[j].status = "pending"

HasOpenJobConflict(k) == \E j \in Jobs : job[j].key = k /\ Open(j)

\* _resolve_superseded_jobs: the other jobs of the entity that a success of j
\* closes.
Superseded(j) ==
    {i \in Jobs \ {j} :
        /\ job[i].key = job[j].key
        /\ job[i].status \in {"pending", "failed"} \/ StaleRunning(i)}

\* Mutant: the errors of the closed jobs stay unresolved.
Closed_keepsErrors(row) == [row EXCEPT !.status = "succeeded", !.age = 0, !.wait = 0]

Closed(row) == [row EXCEPT !.status = "succeeded", !.unresolved = {}, !.age = 0, !.wait = 0]

\* schedule_retry indexes the list with min(attempts - 2, 1).  Python counts an
\* index of -1, the first failure after an admin reset, from the end.
BackoffDelay(attempts) == BACKOFF[IF attempts = 2 THEN 1 ELSE 2]

\* SyncError.objects.create
WithError(row, type) ==
    [row EXCEPT !.latest = type, !.unresolved = @ \cup {type}]

\* Mutant: one attempt too many.
Failed_oneMore(row, type, attempts) ==
    LET seen == [WithError(row, type) EXCEPT !.age = 0]
    IN  IF type = "transient" /\ attempts <= MAX_SYNC_RETRIES
        THEN [seen EXCEPT !.status = "pending", !.attempts = attempts + 1,
                          !.wait = BackoffDelay(attempts + 1)]
        ELSE [seen EXCEPT !.status = "failed"]

\* Mutant: a retry whatever the type of the error.
Failed_anyType(row, type, attempts) ==
    LET seen == [WithError(row, type) EXCEPT !.age = 0]
    IN  IF attempts < MAX_SYNC_RETRIES
        THEN [seen EXCEPT !.status = "pending", !.attempts = attempts + 1,
                          !.wait = BackoffDelay(attempts + 1)]
        ELSE [seen EXCEPT !.status = "failed"]

\* FAILED, or PENDING again while there are attempts left for a TRANSIENT error.
Failed(row, type, attempts) ==
    LET seen == [WithError(row, type) EXCEPT !.age = 0]
    IN  IF type = "transient" /\ attempts < MAX_SYNC_RETRIES
        THEN [seen EXCEPT !.status = "pending", !.attempts = attempts + 1,
                          !.wait = BackoffDelay(attempts + 1)]
        ELSE [seen EXCEPT !.status = "failed"]

\* _release_running_job_for_lock_contention
Contended(row, count) ==
    [row EXCEPT !.status = "pending", !.age = 0, !.contention = count,
                !.wait = BACKOFF[count]]

-----------------------------------------------------------------------------
Go(w, place) == pc' = [pc EXCEPT ![w] = place]
Put(f, w, x) == [f EXCEPT ![w] = x]

Begin(w, t, list) ==
    /\ t \in Tasks
    /\ pc[w] = "idle"
    /\ task' = Put(task, w, t)
    /\ todo' = Put(todo, w, list)
    /\ elapsed' = Put(elapsed, w, 0)
    /\ UNCHANGED <<job, jobOf, mem>>

\* What a process that has nothing left to do remembers.
Quit(w) ==
    /\ task' = Put(task, w, "none")
    /\ Go(w, "idle")
    /\ entity' = Put(entity, w, None)
    /\ jobOf' = Put(jobOf, w, None)
    /\ mem' = Put(mem, w, [attempts |-> 0, contention |-> 0])
    /\ todo' = Put(todo, w, {})
    /\ elapsed' = Put(elapsed, w, 0)

\* _run_export_batch enters sync_lock(lock_key) and evaluates its queryset.
BatchStart(w) ==
    /\ \E list \in SUBSET Catalog \ {{}} : Begin(w, "batch", list)
    /\ Lease!Acquire("batch", w)
    /\ Go(w, "loop")
    /\ UNCHANGED entity

\* The conflict check for one entity of the batch, which may end its turn.
BatchCheck(w) ==
    /\ task[w] = "batch"
    /\ pc[w] = "loop"
    /\ \E k \in todo[w] :
        /\ todo' = Put(todo, w, todo[w] \ {k})
        /\ IF HasOpenJobConflict(k)
           THEN UNCHANGED <<pc, entity>>
           ELSE Go(w, "create") /\ entity' = Put(entity, w, k)
    /\ UNCHANGED <<job, holder, task, jobOf, mem, elapsed>>

\* export_new_customers_to_icg and export_new_orders_to_icg enter the sales lock.
SalesStart(w) ==
    /\ \E list \in SUBSET Sales \ {{}} : Begin(w, "sales", list)
    /\ Lease!Acquire("sales", w)
    /\ Go(w, "loop")
    /\ UNCHANGED entity

\* The next customer or order: no conflict check; an unpaid order is skipped.
SalesNext(w) ==
    /\ task[w] = "sales"
    /\ pc[w] = "loop"
    /\ \E k \in todo[w] :
        /\ todo' = Put(todo, w, todo[w] \ {k})
        /\ \/ UNCHANGED <<pc, entity>>
           \/ Go(w, "create") /\ entity' = Put(entity, w, k)
    /\ UNCHANGED <<job, holder, task, jobOf, mem, elapsed>>

\* retry_entity, dispatched from the admin for any entity.  With a conflict it
\* returns at once.
EntityStart(w) ==
    /\ Begin(w, "entity", {})
    /\ \E k \in Keys :
        /\ ~HasOpenJobConflict(k)
        /\ entity' = Put(entity, w, k)
    /\ Go(w, "create")
    /\ UNCHANGED holder

\* Mutant: retry_entity exports customers and orders without the sales lock.
Create_unlocked(w) ==
    /\ pc[w] = "create"
    /\ \E j \in Jobs :
        /\ job[j].status = "absent"
        /\ \A i \in 1..(j - 1) : job[i].status # "absent"
        /\ job' = Put(job, j, [NoRow EXCEPT !.key = entity[w], !.status = "running",
                                            !.attempts = 1])
        /\ jobOf' = Put(jobOf, w, j)
    /\ mem' = Put(mem, w, [attempts |-> 1, contention |-> 0])
    /\ Go(w, "export")
    /\ UNCHANGED <<holder, task, entity, todo, elapsed>>

\* SyncJob.objects.create(status=RUNNING, attempts=1, started_at=now)
Create(w) ==
    /\ pc[w] = "create"
    /\ \E j \in Jobs :
        /\ job[j].status = "absent"
        /\ \A i \in 1..(j - 1) : job[i].status # "absent"
        /\ job' = Put(job, j, [NoRow EXCEPT !.key = entity[w], !.status = "running",
                                            !.attempts = 1])
        /\ jobOf' = Put(jobOf, w, j)
    /\ mem' = Put(mem, w, [attempts |-> 1, contention |-> 0])
    /\ Go(w, IF task[w] = "entity" /\ entity[w] \in Sales THEN "lock" ELSE "export")
    /\ UNCHANGED <<holder, task, entity, todo, elapsed>>

-----------------------------------------------------------------------------
\* Mutant: available_at is not looked at.
Due_early(j) == job[j].status = "pending" /\ "transient" \in job[j].unresolved

\* due_pending_jobs with an unresolved TRANSIENT error
Due(j) ==
    /\ job[j].status = "pending"
    /\ job[j].wait = 0
    /\ "transient" \in job[j].unresolved

SnapshotOf(j) == [id |-> j, attempts |-> job[j].attempts,
                  contention |-> job[j].contention, latest |-> job[j].latest]

\* retry_failed_jobs enters its lock and loads the jobs with their errors.
RetryStart(w) ==
    /\ Begin(w, "retry", {SnapshotOf(j) : j \in {i \in Jobs : Due(i)}})
    /\ Lease!Acquire("retry", w)
    /\ Go(w, "loop")
    /\ UNCHANGED entity

\* The newest error of the loaded job is not TRANSIENT.
RetrySkip(w) ==
    /\ task[w] = "retry"
    /\ pc[w] = "loop"
    /\ \E s \in todo[w] :
        /\ s.latest # "transient"
        /\ todo' = Put(todo, w, todo[w] \ {s})
    /\ UNCHANGED <<job, holder, task, pc, entity, jobOf, mem, elapsed>>

\* Mutant: the job keeps the started_at of its first run.
RetryRun_keepsStarted(w, s) ==
    LET sale == job[s.id].key \in Sales
    IN  /\ job' = Put(job, s.id,
                [job[s.id] EXCEPT !.status = "running", !.age = StaleTimeout + 1, !.wait = 0])
        /\ Go(w, IF sale THEN "lock" ELSE "export")
        /\ entity' = Put(entity, w, job[s.id].key)
        /\ jobOf' = Put(jobOf, w, s.id)
        /\ mem' = Put(mem, w, [attempts |-> s.attempts, contention |-> s.contention])

\* The loaded job is set RUNNING, whatever its row says by now; its attempts
\* and contention counter stay those that were loaded.  (A job with too many
\* attempts would be set FAILED: AttemptsBounded shows that there is none.)
RetryRun(w, s) ==
    LET exhausted == s.attempts > MAX_SYNC_RETRIES
        sale == job[s.id].key \in Sales
    IN  /\ job' = Put(job, s.id,
                [job[s.id] EXCEPT !.status = IF exhausted THEN "failed" ELSE "running",
                                  !.age = 0, !.wait = 0])
        /\ Go(w, IF exhausted THEN "loop" ELSE IF sale THEN "lock" ELSE "export")
        /\ entity' = Put(entity, w, job[s.id].key)
        /\ jobOf' = Put(jobOf, w, s.id)
        /\ mem' = Put(mem, w, [attempts |-> s.attempts, contention |-> s.contention])

RetryPick(w, j) ==
    /\ task[w] = "retry"
    /\ pc[w] = "loop"
    /\ \E s \in todo[w] :
        /\ s.id = j
        /\ s.latest = "transient"
        /\ RetryRun(w, s)
        /\ todo' = Put(todo, w, todo[w] \ {s})
    /\ UNCHANGED <<holder, task, elapsed>>

-----------------------------------------------------------------------------
\* Where a process goes on after it has dealt with one job.
NextPlace(w) == IF task[w] = "entity" THEN "idle" ELSE "loop"

NextJob(w) ==
    /\ Go(w, NextPlace(w))
    /\ task' = Put(task, w, IF task[w] = "entity" THEN "none" ELSE task[w])
    /\ entity' = Put(entity, w, None)
    /\ jobOf' = Put(jobOf, w, None)
    /\ mem' = Put(mem, w, [attempts |-> 0, contention |-> 0])
    /\ UNCHANGED elapsed

\* retry_entity and retry_failed_jobs take the sales lock for one export...
SalesLock(w) ==
    /\ pc[w] = "lock"
    /\ Lease!Acquire("sales", w)
    /\ job' = Put(job, jobOf[w], [job[jobOf[w]] EXCEPT !.contention = 0])
    /\ mem' = Put(mem, w, [mem[w] EXCEPT !.contention = 0])
    /\ Go(w, "export")
    /\ UNCHANGED <<task, entity, jobOf, todo, elapsed>>

\* ... or put the job back.  Only retry_entity records the contention as an error.
SalesLockRefused(w) ==
    /\ pc[w] = "lock"
    /\ Lease!Refused("sales")
    /\ LET row == job[jobOf[w]]
           seen == IF task[w] = "entity" THEN WithError(row, "transient") ELSE row
           count == IF mem[w].contention = 0 THEN 1 ELSE 2
       IN  job' = Put(job, jobOf[w], Contended(seen, count))
    /\ NextJob(w)
    /\ UNCHANGED <<holder, todo>>

\* The lock that is held around a single export.
LocksExport(w) == task[w] \in {"entity", "retry"} /\ entity[w] \in Sales

\* The export function returns or raises, and the single export's lock is
\* released: before the outcome is recorded.
ExportReturns(w) ==
    /\ pc[w] = "export"
    /\ \E outcome \in Outcome : Go(w, outcome)
    /\ IF LocksExport(w) THEN Lease!Release("sales", w) ELSE UNCHANGED holder
    /\ UNCHANGED <<job, task, entity, jobOf, mem, todo, elapsed>>

\* _mark_job_succeeded, one transaction.
RecordSuccess(w) ==
    /\ pc[w] = "ok"
    /\ LET done == {jobOf[w]} \cup Superseded(jobOf[w])
       IN  job' = [j \in Jobs |-> IF j \in done THEN Closed(job[j]) ELSE job[j]]
    /\ NextJob(w)
    /\ UNCHANGED <<holder, todo>>

\* _record_sync_error.  The sales tasks stop at an entity without a mirror.
RecordFailure(w) ==
    /\ pc[w] \in ErrorType
    /\ job' = Put(job, jobOf[w], Failed(job[jobOf[w]], pc[w], mem[w].attempts))
    /\ NextJob(w)
    /\ \/ UNCHANGED todo
       \/ task[w] = "sales" /\ todo' = Put(todo, w, {})
    /\ UNCHANGED holder

\* The loop is over: the task leaves its lock.
Finish(w) ==
    /\ pc[w] = "loop"
    /\ todo[w] = {}
    /\ Lease!Release(task[w], w)
    /\ Quit(w)
    /\ UNCHANGED job

-----------------------------------------------------------------------------
\* The process dies: its locks are orphaned, its job stays RUNNING.  It may
\* have inserted the SyncError already and not yet saved the job.
Kill(w) ==
    /\ pc[w] # "idle"
    /\ Lease!Die(w)
    /\ \/ UNCHANGED job
       \/ /\ pc[w] \in ErrorType
          /\ job' = Put(job, jobOf[w], WithError(job[jobOf[w]], pc[w]))
       \/ /\ pc[w] = "lock" /\ task[w] = "entity" /\ Lease!Refused("sales")
          /\ job' = Put(job, jobOf[w], WithError(job[jobOf[w]], "transient"))
    /\ Quit(w)

\* An exception outside the try around the export (the soft time limit, the
\* database) ends the task: its locks are released, its job stays RUNNING.
Abort(w) ==
    /\ pc[w] # "idle"
    /\ Lease!Unwind(w)
    /\ Quit(w)
    /\ UNCHANGED job

\* CELERY_TASK_TIME_LIMIT
HardLimit(w) == elapsed[w] = TaskLimit /\ Kill(w)

\* Admin: retry_jobs on a FAILED job.  Its errors stay as they are.
AdminRetry ==
    /\ Admin
    /\ \E j \in Jobs :
        /\ job[j].status = "failed"
        /\ job' = Put(job, j, [job[j] EXCEPT !.status = "pending", !.attempts = 0, !.wait = 0])
    /\ UNCHANGED <<holder, local>>

\* Admin: mark_resolved on the errors of a job that have one type.
AdminResolve ==
    /\ Admin
    /\ \E j \in Jobs : \E type \in job[j].unresolved :
        job' = Put(job, j, [job[j] EXCEPT !.unresolved = @ \ {type}])
    /\ UNCHANGED <<holder, local>>

\* Time passes, unless a task is due to be killed first.
Tick ==
    /\ \A w \in Workers : pc[w] # "idle" => elapsed[w] < TaskLimit
    /\ elapsed' = [w \in Workers |-> IF pc[w] = "idle" THEN 0 ELSE elapsed[w] + 1]
    /\ job' = [j \in Jobs |-> [job[j] EXCEPT
            !.age = IF job[j].status = "running" /\ @ <= StaleTimeout THEN @ + 1 ELSE @,
            !.wait = IF @ > 0 THEN @ - 1 ELSE 0]]
    /\ UNCHANGED <<holder, task, pc, entity, jobOf, mem, todo>>

\* What a process does on its own once it has begun a task.
Step(w) ==
    \/ BatchCheck(w)
    \/ SalesNext(w)
    \/ Create(w)
    \/ RetrySkip(w)
    \/ \E j \in Jobs : RetryPick(w, j)
    \/ SalesLock(w)
    \/ SalesLockRefused(w)
    \/ ExportReturns(w)
    \/ RecordSuccess(w)
    \/ RecordFailure(w)
    \/ Finish(w)

Start(w) == BatchStart(w) \/ SalesStart(w) \/ EntityStart(w) \/ RetryStart(w)

Next ==
    \/ \E w \in Workers : Start(w) \/ Step(w) \/ Abort(w) \/ Kill(w) \/ HardLimit(w)
    \/ AdminRetry
    \/ AdminResolve
    \/ Tick

Spec == Init /\ [][Next]_vars

\* A begun task goes on, the pool enforces its limit and time passes.
\* retry_failed_jobs is dispatched again and again, and is not killed every
\* single time before it has come to a given job.
Fairness ==
    /\ \A w \in Workers : WF_vars(Step(w)) /\ WF_vars(HardLimit(w))
    /\ SF_vars(\E w \in Workers : RetryStart(w))
    /\ \A j \in Jobs : SF_vars(\E w \in Workers : RetryPick(w, j))
    /\ WF_vars(Tick)

FairSpec == Spec /\ Fairness
-----------------------------------------------------------------------------
\* The process has a job and has not yet recorded how it went.
Live(w) == pc[w] \in {"lock", "export"} \cup Outcome

\* While a process works on a job, that job is RUNNING and nobody else's: no
\* other success supersedes it and no retry picks it up, because its task is
\* killed before STALE_RUNNING_JOB_TIMEOUT has passed (tasks.py:50, 107-133).
LiveJobProtected ==
    \A w \in Workers : Live(w) =>
        /\ job[jobOf[w]].status = "running"
        /\ ~StaleRunning(jobOf[w])
        /\ \A x \in Workers \ {w} : Live(x) => jobOf[x] # jobOf[w]

\* No sequence of failures, contentions, stale lists and admin resets runs a
\* job that has used up its attempts, so that retry_failed_jobs never meets a
\* job to give up on (tasks.py:177, 899).
AttemptsBounded == \A j \in Jobs : job[j].attempts <= MAX_SYNC_RETRIES

\* A job that counts as succeeded has no error left for staff to look into,
\* whether it was exported or closed as superseded (tasks.py:107-153).
SucceededIsClean ==
    \A j \in Jobs : job[j].status = "succeeded" => job[j].unresolved = {}

\* Customers and orders are written to ICG by one process at a time, whichever
\* of the four tasks it runs (tasks.py:53, 67-81).
SalesExportsSerial ==
    \A w, x \in Workers :
        /\ pc[w] = "export" /\ pc[x] = "export"
        /\ entity[w] \in Sales /\ entity[x] \in Sales
        => w = x

\* The same entity is never exported to Prestashop by two processes at once
\* (tasks.py:206-221 and the batch locks).
CatalogExportsExclusive ==
    \A w, x \in Workers :
        /\ pc[w] = "export" /\ pc[x] = "export"
        /\ entity[w] \in Catalog /\ entity[w] = entity[x]
        => w = x

\* A pending job starts again only for a TRANSIENT error and not before its
\* backoff has passed, however old the list it was taken from (tasks.py:875-897).
RetriesAreDue ==
    [][\A j \in Jobs :
        job[j].status = "pending" /\ job'[j].status = "running"
            => job[j].latest = "transient" /\ job[j].wait = 0]_vars

\* A pending job is eventually picked up by retry_failed_jobs or closed
\* (tasks.py:866-949).
PendingIsPickedUp ==
    \A j \in Jobs : job[j].status = "pending" ~> job[j].status # "pending"

\* An entity with an open job, which batches and retry_entity pass over, does
\* not stay blocked: the job is retried to its end, or found stale after its
\* process died (tasks.py:206-221).
Unblocks ==
    \A k \in Catalog : HasOpenJobConflict(k) ~> ~HasOpenJobConflict(k)
-----------------------------------------------------------------------------
\* The inductive invariant behind the safety properties.
AtWork ==
    \A w \in Workers :
        /\ pc[w] = "idle" <=> task[w] = "none"
        /\ pc[w] = "idle" => entity[w] = None

\* A live process's job is RUNNING and no older than its task.
Owned ==
    \A w \in Workers : Live(w) =>
        /\ jobOf[w] \in Jobs
        /\ job[jobOf[w]].status = "running"
        /\ job[jobOf[w]].age <= elapsed[w]

Distinct == \A w, x \in Workers : Live(w) /\ Live(x) /\ jobOf[w] = jobOf[x] => w = x

\* What retry_failed_jobs has loaded and not yet visited may have been closed in
\* the meantime, but nobody has run it.
Listed ==
    \A w \in Workers : task[w] = "retry" =>
        \A s \in todo[w] :
            /\ s \in Snapshot
            /\ job[s.id].status \in {"pending", "succeeded"}
            /\ job[s.id].status = "pending" => job[s.id].wait = 0 /\ job[s.id].latest = s.latest
            /\ \A t \in todo[w] : t.id = s.id => t = s

LocksHeld ==
    \A w \in Workers :
        /\ task[w] \in LockKeys => holder[task[w]] = w
        /\ pc[w] = "export" /\ entity[w] \in Sales => holder["sales"] = w

\* Batches handle catalog entities only, the sales tasks customers and orders,
\* and retry_failed_jobs creates no job.
Scope ==
    \A w \in Workers :
        /\ task[w] = "batch" => todo[w] \subseteq Catalog /\ entity[w] \in Catalog \cup {None}
        /\ task[w] = "sales" => todo[w] \subseteq Sales
        /\ task[w] = "retry" => pc[w] # "create"

\* An error that is not resolved has a newest one.
HasLatest == \A j \in Jobs : job[j].unresolved # {} => job[j].latest \in ErrorType

IInv ==
    TypeOK /\ AtWork /\ Owned /\ Distinct /\ Listed /\ LocksHeld /\ Scope /\ HasLatest
    /\ AttemptsBounded /\ SucceededIsClean

-----------------------------------------------------------------------------
\* What holds besides when the admin dispatches no retry_entity and resets no
\* job: an entity of the catalog has at most one open job.
KeysMatch ==
    \A w \in Workers :
        /\ Live(w) => job[jobOf[w]].key = entity[w]
        /\ pc[w] = "create" /\ task[w] = "sales" => entity[w] \in Sales

OneOpen ==
    \A i, j \in Jobs :
        Open(i) /\ Open(j) /\ job[i].key = job[j].key /\ job[i].key \in Catalog => i = j

\* The conflict check of the batch still holds when it creates the job.
StillFree ==
    \A w \in Workers : pc[w] = "create" /\ entity[w] \in Catalog => ~HasOpenJobConflict(entity[w])

\* No success has closed a listed job.
ListedPending ==
    \A w \in Workers : task[w] = "retry" =>
        \A s \in todo[w] : job[s.id].key \in Catalog => job[s.id].status = "pending"

\* The inductive invariant behind CatalogExportsExclusive: at most one open job for
\* an entity of the catalog, as the conflict check of the batch (tasks.py) means it.
OneJobEach == KeysMatch /\ OneOpen /\ StillFree /\ ListedPending
=============================================================================
