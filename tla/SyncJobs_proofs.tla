-------------------------- MODULE SyncJobs_proofs --------------------------
(***************************************************************************)
(* Proofs about SyncJobs for any processes, entities and jobs, any backoff *)
(* and any time limit below STALE_RUNNING_JOB_TIMEOUT.  IInv is inductive; *)
(* the lemmas go through its parts: the rows of the job table (GoodRow),   *)
(* the types, the locks, who works on which job (Owned, Distinct) and what *)
(* retry_failed_jobs has listed (Listed).                                  *)
(***************************************************************************)
EXTENDS SyncJobs, TLAPS

\* What the assumptions say of the literals of the type invariant.

LEMMA Zero == 0 \in 0..(StaleTimeout + 1) /\ 0 \in 0..TaskLimit
  BY JobsAssumption DEF JobsAssumption

\* BACKOFF_SCHEDULE_SECONDS has two delays.
LEMMA Delay == BACKOFF[1] \in Nat /\ BACKOFF[2] \in Nat
  BY JobsAssumption DEF JobsAssumption

\* What _resolve_superseded_jobs and _mark_job_succeeded make of a row.
LEMMA ClosedRow ==
    ASSUME NEW row \in Row
    PROVE  /\ Closed(row) \in Row
           /\ Closed(row).status = "succeeded"
           /\ Closed(row).unresolved = {}
           /\ Closed(row).attempts = row.attempts
<1>1. Closed(row) \in Row
  BY Zero DEF Closed, Row, Status
<1> QED
  BY <1>1 DEF Closed, Row

\* A new error changes nothing but what is known of the errors.
LEMMA ErrorRow ==
    ASSUME NEW row \in Row, NEW type \in ErrorType
    PROVE  /\ WithError(row, type) \in Row
           /\ WithError(row, type).status = row.status
           /\ WithError(row, type).attempts = row.attempts
           /\ WithError(row, type).age = row.age
           /\ WithError(row, type).latest = type
<1>1. WithError(row, type) \in Row
  BY DEF WithError, Row, ErrorType
<1> QED
  BY <1>1 DEF WithError, Row

\* What _record_sync_error makes of a row.
LEMMA FailedRow ==
    ASSUME NEW row \in Row, NEW type \in ErrorType, NEW n \in Nat
    PROVE  /\ Failed(row, type, n) \in Row
           /\ Failed(row, type, n).status \in {"pending", "failed"}
           /\ Failed(row, type, n).latest = type
           /\ \/ Failed(row, type, n).attempts = row.attempts
              \/ n < MAX_SYNC_RETRIES /\ Failed(row, type, n).attempts = n + 1
<1> DEFINE seen == [WithError(row, type) EXCEPT !.age = 0]
           again == [seen EXCEPT !.status = "pending", !.attempts = n + 1,
                                 !.wait = BackoffDelay(n + 1)]
           over == [seen EXCEPT !.status = "failed"]
<1>1. BackoffDelay(n + 1) \in Nat
  BY Delay DEF BackoffDelay
<1>2. seen \in Row /\ seen.latest = type /\ seen.attempts = row.attempts
  <2>1. seen \in Row
    BY Zero, ErrorRow DEF Row
  <2> QED
    BY <2>1, ErrorRow DEF Row
<1> HIDE DEF seen
<1>3. again \in Row /\ again.latest = type /\ again.status = "pending" /\ again.attempts = n + 1
  <2>1. again \in Row
    <3>1. n + 1 \in Nat
      OBVIOUS
    <3> QED
      BY <1>1, <1>2, <3>1 DEF Row, Status
  <2> QED
    BY <1>2, <2>1 DEF Row
<1>4. over \in Row /\ over.latest = type /\ over.status = "failed" /\ over.attempts = row.attempts
  <2>1. over \in Row
    BY <1>2 DEF Row, Status
  <2> QED
    BY <1>2, <2>1 DEF Row
<1>5. Failed(row, type, n) = IF type = "transient" /\ n < MAX_SYNC_RETRIES THEN again ELSE over
  BY DEF Failed, seen
<1> QED
  BY <1>3, <1>4, <1>5

\* What _release_running_job_for_lock_contention makes of a row.
LEMMA ContendedRow ==
    ASSUME NEW row \in Row, NEW n \in {1, 2}
    PROVE  /\ Contended(row, n) \in Row
           /\ Contended(row, n).status = "pending"
           /\ Contended(row, n).latest = row.latest
           /\ Contended(row, n).unresolved = row.unresolved
           /\ Contended(row, n).attempts = row.attempts
<1>1. n \in 0..2
  OBVIOUS
<1>2. Contended(row, n) \in Row
  BY <1>1, Delay, Zero DEF Contended, Row, Status
<1> QED
  BY <1>2 DEF Contended, Row

-----------------------------------------------------------------------------
\* The part of the invariant that is about one row.
GoodRow(row) ==
    /\ row \in Row
    /\ row.unresolved # {} => row.latest \in ErrorType
    /\ row.attempts <= MAX_SYNC_RETRIES
    /\ row.status = "succeeded" => row.unresolved = {}

\* The invariant holds of each row on its own.
LEMMA RowsOfInvariant ==
    ASSUME IInv
    PROVE  \A j \in Jobs : GoodRow(job[j])
  BY DEF IInv, TypeOK, HasLatest, AttemptsBounded, SucceededIsClean, GoodRow

\* Each of these leaves a good row behind: a new job ...
LEMMA GoodNewRow ==
    ASSUME NEW k \in Keys \cup {None}
    PROVE  GoodRow([NoRow EXCEPT !.key = k, !.status = "running", !.attempts = 1])
<1>1. 1 <= MAX_SYNC_RETRIES
  BY JobsAssumption DEF JobsAssumption
<1>2. NoRow \in Row
  BY Zero DEF NoRow, Row, Status
<1>3. [NoRow EXCEPT !.key = k, !.status = "running", !.attempts = 1] \in Row
  BY <1>2 DEF Row, Status
<1> QED
  BY <1>1, <1>3 DEF GoodRow, NoRow

\* ... a job closed by a success ...
LEMMA GoodClosed ==
    ASSUME NEW row, GoodRow(row)
    PROVE  GoodRow(Closed(row))
  BY ClosedRow DEF GoodRow

\* ... a running job with one more error ...
LEMMA GoodError ==
    ASSUME NEW row, GoodRow(row), row.status = "running", NEW type \in ErrorType
    PROVE  GoodRow(WithError(row, type))
  BY ErrorRow DEF GoodRow

\* ... a failed export, which gets one more attempt at most ...
LEMMA GoodFailed ==
    ASSUME NEW row, GoodRow(row), NEW type \in ErrorType, NEW n \in Nat
    PROVE  GoodRow(Failed(row, type, n))
<1>1. MAX_SYNC_RETRIES \in Nat
  BY JobsAssumption DEF JobsAssumption
<1>2. n < MAX_SYNC_RETRIES => n + 1 <= MAX_SYNC_RETRIES
  BY <1>1
<1> QED
  BY <1>2, FailedRow DEF GoodRow

\* ... and a job put back because the sales lock was held.
LEMMA GoodContended ==
    ASSUME NEW row, GoodRow(row), NEW n \in {1, 2}
    PROVE  GoodRow(Contended(row, n))
  BY ContendedRow DEF GoodRow

\* Every step leaves good rows behind.
LEMMA RowsPreserved ==
    ASSUME IInv, [Next]_vars
    PROVE  job' \in [Jobs -> Row] /\ \A j \in Jobs : GoodRow(job'[j])
<1> DEFINE Rows(f) == f \in [Jobs -> Row] /\ \A j \in Jobs : GoodRow(f[j])
<1>a. Rows(job)
  BY RowsOfInvariant DEF IInv, TypeOK
<1>b. ASSUME NEW j \in Jobs, NEW row, GoodRow(row)
      PROVE  Rows(Put(job, j, row))
  BY <1>a, <1>b DEF Put, GoodRow
<1>c. ASSUME NEW w \in Workers, Live(w)
      PROVE  jobOf[w] \in Jobs /\ job[jobOf[w]].status = "running" /\ GoodRow(job[jobOf[w]])
  BY <1>a, <1>c DEF IInv, Owned
<1>d. CASE UNCHANGED job
  BY <1>a, <1>d
<1>1. ASSUME NEW w \in Workers, Create(w)
      PROVE  Rows(job')
  <2>1. entity[w] \in Keys \cup {None}
    BY DEF IInv, TypeOK
  <2> QED
    BY <1>1, <1>b, <2>1, GoodNewRow DEF Create
<1>2. ASSUME NEW w \in Workers, NEW j \in Jobs, RetryPick(w, j)
      PROVE  Rows(job')
  <2>1. PICK s \in todo[w] : s.id = j /\ s.latest = "transient" /\ RetryRun(w, s)
    BY <1>2 DEF RetryPick
  <2>2. s \in Snapshot /\ job[j].status \in {"pending", "succeeded"}
    BY <1>2, <2>1 DEF RetryPick, IInv, Listed
  <2>3. PICK status \in {"failed", "running"} :
            job' = Put(job, j, [job[j] EXCEPT !.status = status, !.age = 0, !.wait = 0])
    BY <2>1 DEF RetryRun
  <2>4. GoodRow([job[j] EXCEPT !.status = status, !.age = 0, !.wait = 0])
    BY <1>a, Zero DEF GoodRow, Row, Status
  <2> QED
    BY <1>b, <2>3, <2>4
<1>3. ASSUME NEW w \in Workers, SalesLock(w)
      PROVE  Rows(job')
  <2>1. jobOf[w] \in Jobs
    BY <1>3, <1>c DEF SalesLock, Live
  <2>2. GoodRow([job[jobOf[w]] EXCEPT !.contention = 0])
    BY <1>a, <2>1 DEF GoodRow, Row
  <2>3. job' = Put(job, jobOf[w], [job[jobOf[w]] EXCEPT !.contention = 0])
    BY <1>3 DEF SalesLock, Put
  <2> QED
    BY <1>b, <2>1, <2>2, <2>3
<1>4. ASSUME NEW w \in Workers, SalesLockRefused(w)
      PROVE  Rows(job')
  <2>1. jobOf[w] \in Jobs /\ job[jobOf[w]].status = "running" /\ GoodRow(job[jobOf[w]])
    BY <1>4, <1>c DEF SalesLockRefused, Live
  <2> DEFINE row == job[jobOf[w]]
             seen == IF task[w] = "entity" THEN WithError(row, "transient") ELSE row
             count == IF mem[w].contention = 0 THEN 1 ELSE 2
  <2>2. job' = Put(job, jobOf[w], Contended(seen, count))
    BY <1>4 DEF SalesLockRefused
  <2>3. GoodRow(seen)
    BY <2>1, GoodError DEF ErrorType
  <2>4. count \in {1, 2}
    OBVIOUS
  <2> HIDE DEF seen, count
  <2> QED
    BY <1>b, <2>1, <2>2, <2>3, <2>4, GoodContended
<1>5. ASSUME NEW w \in Workers, RecordSuccess(w)
      PROVE  Rows(job')
  <2>1. job' \in [Jobs -> {job[j] : j \in Jobs} \cup {Closed(job[j]) : j \in Jobs}]
    BY <1>5 DEF RecordSuccess
  <2>2. \A j \in Jobs : job'[j] \in {job[j], Closed(job[j])}
    BY <1>5 DEF RecordSuccess
  <2>3. \A j \in Jobs : GoodRow(job'[j])
    BY <1>a, <2>2, GoodClosed
  <2> QED
    BY <2>1, <2>3 DEF GoodRow
<1>6. ASSUME NEW w \in Workers, RecordFailure(w)
      PROVE  Rows(job')
  <2>1. jobOf[w] \in Jobs /\ GoodRow(job[jobOf[w]])
    BY <1>6, <1>c DEF RecordFailure, Live, Outcome
  <2>2. mem[w].attempts \in Nat
    BY DEF IInv, TypeOK, Memory
  <2> QED
    BY <1>6, <1>b, <2>1, <2>2, GoodFailed DEF RecordFailure
<1>7. ASSUME NEW w \in Workers, Kill(w), job' # job
      PROVE  Rows(job')
  <2>1. PICK type \in ErrorType :
            Live(w) /\ job' = Put(job, jobOf[w], WithError(job[jobOf[w]], type))
    BY <1>7 DEF Kill, Live, Outcome, ErrorType
  <2>2. jobOf[w] \in Jobs /\ GoodRow(WithError(job[jobOf[w]], type))
    BY <1>c, <2>1, GoodError
  <2> QED
    BY <1>b, <2>1, <2>2
<1>8. CASE AdminRetry
  <2>1. PICK j \in Jobs :
            /\ job[j].status = "failed"
            /\ job' = Put(job, j, [job[j] EXCEPT !.status = "pending", !.attempts = 0, !.wait = 0])
    BY <1>8 DEF AdminRetry, Put
  <2>2. GoodRow([job[j] EXCEPT !.status = "pending", !.attempts = 0, !.wait = 0])
    <3>1. 0 <= MAX_SYNC_RETRIES
      BY JobsAssumption DEF JobsAssumption
    <3> QED
      BY <1>a, <3>1 DEF GoodRow, Row, Status
  <2> QED
    BY <1>b, <2>1, <2>2
<1>9. CASE AdminResolve
  <2>1. PICK j \in Jobs : \E type \in job[j].unresolved :
            job' = Put(job, j, [job[j] EXCEPT !.unresolved = @ \ {type}])
    BY <1>9 DEF AdminResolve, Put
  <2>2. PICK type \in job[j].unresolved :
            job' = Put(job, j, [job[j] EXCEPT !.unresolved = @ \ {type}])
    BY <2>1
  <2>3. GoodRow([job[j] EXCEPT !.unresolved = @ \ {type}])
    BY <1>a DEF GoodRow, Row
  <2> QED
    BY <1>b, <2>2, <2>3
<1>10. CASE Tick
  <2> DEFINE Aged(row) == [row EXCEPT
            !.age = IF row.status = "running" /\ @ <= StaleTimeout THEN @ + 1 ELSE @,
            !.wait = IF @ > 0 THEN @ - 1 ELSE 0]
  <2>1. job' = [j \in Jobs |-> Aged(job[j])]
    BY <1>10 DEF Tick
  <2>2. ASSUME NEW j \in Jobs
        PROVE  GoodRow(Aged(job[j]))
    <3>1. job[j].age \in 0..(StaleTimeout + 1) /\ job[j].wait \in Nat
      BY <1>a, <2>2 DEF Row
    <3>2. (IF job[j].status = "running" /\ job[j].age <= StaleTimeout
           THEN job[j].age + 1 ELSE job[j].age) \in 0..(StaleTimeout + 1)
      BY <3>1, JobsAssumption DEF JobsAssumption
    <3>3. (IF job[j].wait > 0 THEN job[j].wait - 1 ELSE 0) \in Nat
      BY <3>1
    <3> QED
      BY <1>a, <3>2, <3>3 DEF GoodRow, Row
  <2> QED
    BY <2>1, <2>2 DEF GoodRow
<1>11. CASE Next /\ ~UNCHANGED job
  BY <1>11, <1>1, <1>2, <1>3, <1>4, <1>5, <1>6, <1>7, <1>8, <1>9, <1>10
     DEF Next, Start, BatchStart, SalesStart, EntityStart, RetryStart, Begin, Step, BatchCheck,
         SalesNext, RetrySkip, ExportReturns, Finish, Abort, HardLimit
<1> QED
  BY <1>d, <1>11 DEF vars

-----------------------------------------------------------------------------
\* The steps of one process.
ProcessStep(w) == Start(w) \/ Step(w) \/ Abort(w) \/ Kill(w)

\* A step is one of one process, of the admin or of time.
LEMMA NextCases ==
    ASSUME Next
    PROVE  \/ \E w \in Workers : ProcessStep(w)
           \/ AdminRetry \/ AdminResolve \/ Tick
  BY DEF Next, ProcessStep, HardLimit

\* What a process does to the fields that are not its own: nothing, except
\* that it takes locks that are free or orphaned and gives up its own.
LEMMA OnlyOwn ==
    ASSUME TypeOK, NEW w \in Workers, ProcessStep(w)
    PROVE  /\ \A x \in Workers \ {w} :
                /\ task'[x] = task[x] /\ pc'[x] = pc[x] /\ entity'[x] = entity[x]
                /\ jobOf'[x] = jobOf[x] /\ mem'[x] = mem[x] /\ todo'[x] = todo[x]
                /\ elapsed'[x] = elapsed[x]
           /\ \A k \in LockKeys : holder[k] \in Workers \ {w} => holder'[k] = holder[k]
<1> USE DEF TypeOK, Put, Go
<1>1. CASE Start(w)
  BY <1>1, JobsAssumption
     DEF JobsAssumption, Start, BatchStart, SalesStart, EntityStart, RetryStart, Begin,
         Lease!Acquire
<1>2. CASE BatchCheck(w) \/ SalesNext(w) \/ Create(w) \/ RetrySkip(w)
  BY <1>2 DEF BatchCheck, SalesNext, Create, RetrySkip
<1>3. CASE \E j \in Jobs : RetryPick(w, j)
  BY <1>3 DEF RetryPick, RetryRun
<1>4. CASE SalesLock(w)
  BY <1>4, JobsAssumption DEF JobsAssumption, SalesLock, Lease!Acquire
<1>5. CASE SalesLockRefused(w) \/ RecordSuccess(w) \/ RecordFailure(w)
  BY <1>5 DEF SalesLockRefused, RecordSuccess, RecordFailure, NextJob
<1>6. CASE ExportReturns(w)
  BY <1>6 DEF ExportReturns, Lease!Release
<1>7. CASE Finish(w)
  BY <1>7 DEF Finish, Quit, Lease!Release
<1>8. CASE Abort(w) \/ Kill(w)
  BY <1>8 DEF Abort, Kill, Quit, Lease!Unwind, Lease!Die
<1> QED
  BY <1>1, <1>2, <1>3, <1>4, <1>5, <1>6, <1>7, <1>8 DEF ProcessStep, Step

\* The locks keep their type.
LEMMA HolderType ==
    ASSUME TypeOK, [Next]_vars
    PROVE  holder' \in [LockKeys -> Workers \cup {Free, Orphan}]
  BY DEF TypeOK, vars, Next, Start, BatchStart, SalesStart, EntityStart, RetryStart, Step,
         BatchCheck, SalesNext, Create, RetrySkip, RetryPick, SalesLock, SalesLockRefused,
         ExportReturns, RecordSuccess, RecordFailure, Finish, Abort, Kill, HardLimit,
         AdminRetry, AdminResolve, Tick, Lease!Acquire, Lease!Release, Lease!Unwind, Lease!Die

\* What retry_failed_jobs loads has an error of a known type.
LEMMA SnapshotType ==
    ASSUME IInv, NEW j \in Jobs, Due(j)
    PROVE  SnapshotOf(j) \in Snapshot
<1>1. job[j] \in Row /\ job[j].latest \in ErrorType
  BY DEF IInv, TypeOK, HasLatest, Due
<1> QED
  BY <1>1 DEF SnapshotOf, Snapshot, Row

\* The type of everything but the job table and the locks.
LocalType ==
    /\ task \in [Workers -> {"none"} \cup Tasks]
    /\ pc \in [Workers -> Place]
    /\ entity \in [Workers -> Keys \cup {None}]
    /\ jobOf \in [Workers -> Jobs \cup {None}]
    /\ mem \in [Workers -> Memory]
    /\ todo \in [Workers -> SUBSET (Keys \cup Snapshot)]
    /\ elapsed \in [Workers -> 0..TaskLimit]

\* The processes keep their type.
LEMMA LocalTypePreserved ==
    ASSUME IInv, [Next]_vars
    PROVE  LocalType'
<1> USE DEF LocalType, Put, Go
<1>a. LocalType
  BY DEF IInv, TypeOK
<1>b. [attempts |-> 0, contention |-> 0] \in Memory /\ [attempts |-> 1, contention |-> 0] \in Memory
  BY DEF Memory
<1>1. CASE UNCHANGED local
  BY <1>a, <1>1 DEF local
<1>2. CASE Tick
  <2>1. \A w \in Workers : elapsed[w] < TaskLimit => elapsed[w] + 1 \in 0..TaskLimit
    BY <1>a, JobsAssumption DEF JobsAssumption
  <2> QED
    BY <1>a, <1>2, <2>1, Zero DEF Tick
<1>3. ASSUME NEW w \in Workers, Start(w)
      PROVE  LocalType'
  <2>1. CASE BatchStart(w)
    BY <1>a, <2>1, Zero DEF BatchStart, Begin, Place, Keys
  <2>2. CASE SalesStart(w)
    BY <1>a, <2>2, Zero DEF SalesStart, Begin, Place, Keys
  <2>3. CASE EntityStart(w)
    BY <1>a, <2>3, Zero DEF EntityStart, Begin, Place, Keys
  <2>4. CASE RetryStart(w)
    <3>1. {SnapshotOf(j) : j \in {i \in Jobs : Due(i)}} \subseteq Snapshot
      BY SnapshotType
    <3> QED
      BY <1>a, <2>4, <3>1, Zero DEF RetryStart, Begin, Place
  <2> QED
    BY <1>3, <2>1, <2>2, <2>3, <2>4 DEF Start
<1>4. ASSUME NEW w \in Workers, Abort(w) \/ Kill(w) \/ Finish(w)
      PROVE  LocalType'
  BY <1>a, <1>b, <1>4, Zero DEF Abort, Kill, Finish, Quit, Place
<1>5. ASSUME NEW w \in Workers, BatchCheck(w) \/ SalesNext(w) \/ RetrySkip(w)
      PROVE  LocalType'
  <2>1. CASE BatchCheck(w)
    BY <1>a, <2>1 DEF BatchCheck, Place, IInv, Scope, Keys
  <2>2. CASE SalesNext(w)
    BY <1>a, <2>2 DEF SalesNext, Place, IInv, Scope, Keys
  <2>3. CASE RetrySkip(w)
    BY <1>a, <2>3 DEF RetrySkip
  <2> QED
    BY <1>5, <2>1, <2>2, <2>3
<1>6. ASSUME NEW w \in Workers, Create(w)
      PROVE  LocalType'
  BY <1>a, <1>b, <1>6 DEF Create, Place
<1>7. ASSUME NEW w \in Workers, NEW j \in Jobs, RetryPick(w, j)
      PROVE  LocalType'
  <2>1. PICK s \in todo[w] : s.id = j /\ RetryRun(w, s) /\ todo' = Put(todo, w, todo[w] \ {s})
    BY <1>7 DEF RetryPick
  <2>2. s \in Snapshot
    BY <1>7, <2>1 DEF RetryPick, IInv, Listed
  <2>3. [attempts |-> s.attempts, contention |-> s.contention] \in Memory
    BY <2>2 DEF Snapshot, Memory
  <2>4. job[j].key \in Keys \cup {None}
    BY DEF IInv, TypeOK, Row
  <2> QED
    BY <1>a, <1>7, <2>1, <2>3, <2>4 DEF RetryPick, RetryRun, Place
<1>8. ASSUME NEW w \in Workers, SalesLock(w)
      PROVE  LocalType'
  <2>1. [mem[w] EXCEPT !.contention = 0] \in Memory
    BY <1>a DEF Memory
  <2> QED
    BY <1>a, <1>8, <2>1 DEF SalesLock, Place
<1>9. ASSUME NEW w \in Workers, SalesLockRefused(w) \/ RecordSuccess(w) \/ RecordFailure(w)
      PROVE  LocalType'
  BY <1>a, <1>b, <1>9 DEF SalesLockRefused, RecordSuccess, RecordFailure, NextJob, NextPlace, Place
<1>10. ASSUME NEW w \in Workers, ExportReturns(w)
       PROVE  LocalType'
  BY <1>a, <1>10 DEF ExportReturns, Place
<1> QED
  BY <1>1, <1>2, <1>3, <1>4, <1>5, <1>6, <1>7, <1>8, <1>9, <1>10
     DEF Next, Step, HardLimit, AdminRetry, AdminResolve, vars, local

\* Every step preserves the type invariant.
LEMMA TypePreserved ==
    ASSUME IInv, [Next]_vars
    PROVE  TypeOK'
<1>1. TypeOK
  BY DEF IInv
<1> QED
  BY <1>1, RowsPreserved, HolderType, LocalTypePreserved DEF TypeOK, LocalType

-----------------------------------------------------------------------------
\* Every step preserves AtWork.
LEMMA AtWorkPreserved ==
    ASSUME IInv, [Next]_vars
    PROVE  AtWork'
<1> USE DEF AtWork, IInv, TypeOK, Put, Go
<1>1. CASE UNCHANGED local \/ Tick
  BY <1>1 DEF local, Tick
<1>2. ASSUME NEW w \in Workers, ProcessStep(w)
      PROVE  /\ pc'[w] = "idle" <=> task'[w] = "none"
             /\ pc'[w] = "idle" => entity'[w] = None
  <2>1. CASE Start(w)
    BY <2>1, JobsAssumption
       DEF JobsAssumption, Start, BatchStart, SalesStart, EntityStart, RetryStart, Begin
  <2>2. CASE BatchCheck(w) \/ SalesNext(w) \/ Create(w) \/ RetrySkip(w) \/ SalesLock(w)
    BY <2>2 DEF BatchCheck, SalesNext, Create, RetrySkip, SalesLock
  <2>3. CASE \E j \in Jobs : RetryPick(w, j)
    BY <2>3 DEF RetryPick, RetryRun
  <2>4. CASE SalesLockRefused(w) \/ RecordSuccess(w) \/ RecordFailure(w)
    BY <2>4 DEF SalesLockRefused, RecordSuccess, RecordFailure, NextJob, NextPlace, ErrorType
  <2>5. CASE ExportReturns(w)
    BY <2>5 DEF ExportReturns, Outcome, ErrorType
  <2>6. CASE Finish(w) \/ Abort(w) \/ Kill(w)
    BY <2>6 DEF Finish, Abort, Kill, Quit
  <2> QED
    BY <1>2, <2>1, <2>2, <2>3, <2>4, <2>5, <2>6 DEF ProcessStep, Step
<1>3. ASSUME NEW w \in Workers, ProcessStep(w)
      PROVE  AtWork'
  BY <1>2, <1>3, OnlyOwn
<1> QED
  BY <1>1, <1>3, NextCases DEF AdminRetry, AdminResolve, vars, local

\* Every step preserves Scope.
LEMMA ScopePreserved ==
    ASSUME IInv, [Next]_vars
    PROVE  Scope'
<1> DEFINE Ok(t, list, k, place) ==
        /\ t = "batch" => list \subseteq Catalog /\ k \in Catalog \cup {None}
        /\ t = "sales" => list \subseteq Sales
        /\ t = "retry" => place # "create"
<1> USE DEF Scope, IInv, TypeOK, Put, Go
<1>1. CASE UNCHANGED local \/ Tick
  BY <1>1 DEF local, Tick
<1>2. ASSUME NEW w \in Workers, ProcessStep(w)
      PROVE  Ok(task'[w], todo'[w], entity'[w], pc'[w])
  <2>1. CASE Start(w)
    BY <2>1 DEF Start, BatchStart, SalesStart, EntityStart, RetryStart, Begin, AtWork
  <2>2. CASE BatchCheck(w) \/ SalesNext(w) \/ Create(w) \/ RetrySkip(w) \/ SalesLock(w)
    <3>1. CASE BatchCheck(w)
      BY <3>1 DEF BatchCheck
    <3>2. CASE SalesNext(w)
      BY <3>2 DEF SalesNext
    <3>3. CASE Create(w) \/ SalesLock(w) \/ RetrySkip(w)
      BY <3>3 DEF Create, SalesLock, RetrySkip
    <3> QED
      BY <2>2, <3>1, <3>2, <3>3
  <2>3. CASE \E j \in Jobs : RetryPick(w, j)
    BY <2>3 DEF RetryPick, RetryRun
  <2>4. CASE SalesLockRefused(w) \/ RecordSuccess(w) \/ RecordFailure(w)
    BY <2>4 DEF SalesLockRefused, RecordSuccess, RecordFailure, NextJob, NextPlace
  <2>5. CASE ExportReturns(w)
    BY <2>5 DEF ExportReturns, Outcome, ErrorType
  <2>6. CASE Finish(w) \/ Abort(w) \/ Kill(w)
    BY <2>6 DEF Finish, Abort, Kill, Quit
  <2> QED
    BY <1>2, <2>1, <2>2, <2>3, <2>4, <2>5, <2>6 DEF ProcessStep, Step
<1>3. ASSUME NEW w \in Workers, ProcessStep(w)
      PROVE  Scope'
  BY <1>2, <1>3, OnlyOwn
<1> QED
  BY <1>1, <1>3, NextCases DEF AdminRetry, AdminResolve, vars, local

\* Every step preserves LocksHeld.
LEMMA LocksHeldPreserved ==
    ASSUME IInv, [Next]_vars
    PROVE  LocksHeld'
<1> DEFINE Ok(w, t, k, place, h) ==
        /\ t \in LockKeys => h[t] = w
        /\ place = "export" /\ k \in Sales => h["sales"] = w
<1> USE DEF IInv, TypeOK, Put, Go, LockKeys
<1>1. CASE UNCHANGED <<holder, local>> \/ Tick
  BY <1>1 DEF local, Tick, LocksHeld
<1>2. ASSUME NEW w \in Workers, ProcessStep(w)
      PROVE  Ok(w, task'[w], entity'[w], pc'[w], holder')
  <2>1. CASE Start(w)
    BY <2>1 DEF Start, BatchStart, SalesStart, EntityStart, RetryStart, Begin, Lease!Acquire
  <2>2. CASE BatchCheck(w) \/ SalesNext(w) \/ RetrySkip(w)
    BY <2>2 DEF BatchCheck, SalesNext, RetrySkip, LocksHeld
  <2>3. CASE Create(w)
    <3>1. task[w] \in {"batch", "sales", "entity"}
      BY <2>3, JobsAssumption DEF JobsAssumption, Create, Scope, AtWork
    <3>2. task[w] = "batch" => entity[w] \notin Sales
      BY JobsAssumption DEF JobsAssumption, Scope
    <3> QED
      BY <2>3, <3>1, <3>2 DEF Create, LocksHeld
  <2>4. CASE \E j \in Jobs : RetryPick(w, j)
    BY <2>4 DEF RetryPick, RetryRun, LocksHeld
  <2>5. CASE SalesLock(w)
    BY <2>5 DEF SalesLock, LocksHeld, Lease!Acquire
  <2>6. CASE SalesLockRefused(w) \/ RecordSuccess(w) \/ RecordFailure(w)
    BY <2>6 DEF SalesLockRefused, RecordSuccess, RecordFailure, NextJob, NextPlace, LocksHeld
  <2>7. CASE ExportReturns(w)
    BY <2>7 DEF ExportReturns, LocksExport, Outcome, ErrorType, LocksHeld, Lease!Release
  <2>8. CASE Finish(w) \/ Abort(w) \/ Kill(w)
    BY <2>8 DEF Finish, Abort, Kill, Quit
  <2> QED
    BY <1>2, <2>1, <2>2, <2>3, <2>4, <2>5, <2>6, <2>7, <2>8 DEF ProcessStep, Step
<1>3. ASSUME NEW w \in Workers, ProcessStep(w)
      PROVE  LocksHeld'
  <2>1. \A x \in Workers \ {w} : Ok(x, task'[x], entity'[x], pc'[x], holder')
    BY <1>3, OnlyOwn DEF LocksHeld
  <2> QED
    BY <1>2, <1>3, <2>1 DEF LocksHeld
<1> QED
  BY <1>1, <1>3, NextCases DEF AdminRetry, AdminResolve, vars, local

-----------------------------------------------------------------------------
\* A job that a process is working on cannot look stale: it is no older than
\* its task, and the task is killed before that.
LEMMA LiveIsNotStale ==
    ASSUME IInv, NEW w \in Workers, Live(w)
    PROVE  ~StaleRunning(jobOf[w])
<1>1. job[jobOf[w]].age <= elapsed[w] /\ elapsed[w] \in 0..TaskLimit /\ job[jobOf[w]].age \in Nat
  BY DEF IInv, Owned, TypeOK, Row
<1> QED
  BY <1>1, JobsAssumption DEF JobsAssumption, StaleRunning

\* No step of one process touches the job another one is working on.
LEMMA OthersUntouched ==
    ASSUME IInv, NEW w \in Workers, ProcessStep(w), NEW x \in Workers \ {w}, Live(x)
    PROVE  job'[jobOf[x]] = job[jobOf[x]]
<1> USE DEF IInv, TypeOK, Put
<1>a. jobOf[x] \in Jobs /\ job[jobOf[x]].status = "running"
  BY DEF Owned
<1>b. Live(w) => jobOf[w] # jobOf[x]
  BY DEF Distinct
<1>1. CASE Start(w) \/ BatchCheck(w) \/ SalesNext(w) \/ RetrySkip(w) \/ ExportReturns(w)
           \/ Finish(w) \/ Abort(w)
  BY <1>1 DEF Start, BatchStart, SalesStart, EntityStart, RetryStart, Begin, BatchCheck,
              SalesNext, RetrySkip, ExportReturns, Finish, Abort
<1>2. CASE Create(w)
  BY <1>a, <1>2 DEF Create
<1>3. ASSUME NEW j \in Jobs, RetryPick(w, j)
      PROVE  job'[jobOf[x]] = job[jobOf[x]]
  <2>1. PICK s \in todo[w] : s.id = j /\ RetryRun(w, s)
    BY <1>3 DEF RetryPick
  <2>2. job[j].status # "running"
    BY <1>3, <2>1 DEF RetryPick, Listed
  <2> QED
    BY <1>a, <2>1, <2>2 DEF RetryRun
<1>4. CASE SalesLock(w) \/ SalesLockRefused(w)
  BY <1>a, <1>b, <1>4 DEF SalesLock, SalesLockRefused, Live
<1>5. CASE RecordSuccess(w)
  <2>1. jobOf[x] # jobOf[w]
    BY <1>b, <1>5 DEF RecordSuccess, Live, Outcome
  <2>2. jobOf[x] \notin Superseded(jobOf[w])
    BY <1>a, LiveIsNotStale DEF Superseded
  <2> QED
    BY <1>a, <1>5, <2>1, <2>2 DEF RecordSuccess
<1>6. CASE RecordFailure(w)
  BY <1>a, <1>b, <1>6 DEF RecordFailure, Live, Outcome
<1>7. CASE Kill(w)
  BY <1>a, <1>b, <1>7 DEF Kill, Live, Outcome
<1> QED
  BY <1>1, <1>2, <1>3, <1>4, <1>5, <1>6, <1>7 DEF ProcessStep, Step

\* What a process that is working on a job after its step has got.
LEMMA OwnJob ==
    ASSUME IInv, NEW w \in Workers, ProcessStep(w), Live(w)'
    PROVE  /\ jobOf'[w] \in Jobs
           /\ job'[jobOf'[w]].status = "running"
           /\ job'[jobOf'[w]].age <= elapsed'[w]
           /\ \/ Live(w) /\ jobOf'[w] = jobOf[w]
              \/ job[jobOf'[w]].status # "running"
<1> USE DEF IInv, TypeOK, Put, Go
<1>a. elapsed[w] \in Nat
  OBVIOUS
<1>1. CASE Start(w) \/ BatchCheck(w) \/ SalesNext(w) \/ RetrySkip(w) \/ Finish(w) \/ Abort(w)
           \/ Kill(w)
  BY <1>1 DEF Start, BatchStart, SalesStart, EntityStart, RetryStart, Begin, BatchCheck,
              SalesNext, RetrySkip, Finish, Abort, Kill, Quit, Live, Outcome, ErrorType
<1>2. CASE Create(w)
  <2>1. PICK j \in Jobs :
            /\ job[j].status = "absent"
            /\ jobOf' = Put(jobOf, w, j)
            /\ job' = Put(job, j, [NoRow EXCEPT !.key = entity[w], !.status = "running",
                                                !.attempts = 1])
    BY <1>2 DEF Create
  <2>2. job'[j].status = "running" /\ job'[j].age = 0
    BY <2>1 DEF NoRow
  <2> QED
    BY <1>a, <1>2, <2>1, <2>2 DEF Create
<1>3. ASSUME NEW j \in Jobs, RetryPick(w, j)
      PROVE  /\ jobOf'[w] = j
             /\ job'[j].status = "running"
             /\ job'[j].age <= elapsed'[w]
             /\ job[j].status # "running"
  <2>1. PICK s \in todo[w] : s.id = j /\ RetryRun(w, s)
    BY <1>3 DEF RetryPick
  <2>2. job[j].status # "running"
    BY <1>3, <2>1 DEF RetryPick, Listed
  <2>3. ~(s.attempts > MAX_SYNC_RETRIES)
    BY <2>1 DEF RetryRun, Live, Outcome, ErrorType
  <2>4. job[j] \in Row
    OBVIOUS
  <2>5. job'[j].status = "running" /\ job'[j].age = 0
    BY <2>1, <2>3, <2>4 DEF RetryRun, Row
  <2> QED
    BY <1>a, <1>3, <2>1, <2>2, <2>5 DEF RetryPick, RetryRun
<1>4. CASE SalesLock(w)
  <2>1. Live(w) /\ jobOf' = jobOf /\ elapsed' = elapsed
    BY <1>4 DEF SalesLock, Live
  <2>2. jobOf[w] \in Jobs /\ job[jobOf[w]] \in Row
    BY <2>1 DEF Owned
  <2>3. job'[jobOf[w]] = [job[jobOf[w]] EXCEPT !.contention = 0]
    BY <1>4, <2>2 DEF SalesLock
  <2> QED
    BY <2>1, <2>2, <2>3 DEF Owned, Row
<1>5. CASE SalesLockRefused(w) \/ RecordSuccess(w) \/ RecordFailure(w)
  BY <1>5 DEF SalesLockRefused, RecordSuccess, RecordFailure, NextJob, NextPlace, Live, Outcome,
              ErrorType
<1>6. CASE ExportReturns(w)
  BY <1>6 DEF ExportReturns, Live, Owned
<1> QED
  BY <1>1, <1>2, <1>3, <1>4, <1>5, <1>6 DEF ProcessStep, Step

\* Every step preserves Owned and Distinct.
LEMMA OwnedPreserved ==
    ASSUME IInv, [Next]_vars
    PROVE  Owned' /\ Distinct'
<1>1. CASE UNCHANGED vars
  BY <1>1 DEF IInv, Owned, Distinct, Live, vars
<1>2. CASE AdminRetry \/ AdminResolve
  <2>1. \A i \in Jobs : job[i].status = "running" =>
            job'[i].status = "running" /\ job'[i].age = job[i].age
    <3>1. CASE AdminRetry
      BY <3>1 DEF AdminRetry, Put, IInv, TypeOK
    <3>2. CASE AdminResolve
      <4>1. PICK j \in Jobs : \E type \in job[j].unresolved :
                job' = Put(job, j, [job[j] EXCEPT !.unresolved = @ \ {type}])
        BY <3>2 DEF AdminResolve
      <4>2. job \in [Jobs -> Row]
        BY DEF IInv, TypeOK
      <4> QED
        BY <4>1, <4>2 DEF Row, Put
    <3> QED
      BY <1>2, <3>1, <3>2
  <2>2. UNCHANGED local
    BY <1>2 DEF AdminRetry, AdminResolve
  <2> QED
    BY <2>1, <2>2 DEF IInv, Owned, Distinct, Live, local
<1>3. CASE Tick
  <2>1. ASSUME NEW w \in Workers, Live(w)
        PROVE  /\ job'[jobOf[w]].status = "running"
               /\ job'[jobOf[w]].age <= elapsed'[w]
    <3>1. jobOf[w] \in Jobs /\ job[jobOf[w]].status = "running" /\ job[jobOf[w]] \in Row
      BY <2>1 DEF IInv, TypeOK, Owned
    <3>2. job'[jobOf[w]].status = "running" /\ job'[jobOf[w]].age \in {job[jobOf[w]].age, job[jobOf[w]].age + 1}
      BY <1>3, <3>1 DEF Tick, Row
    <3>3. elapsed'[w] = elapsed[w] + 1
      BY <1>3, <2>1 DEF Tick, Live, Outcome, ErrorType
    <3>4. job[jobOf[w]].age <= elapsed[w] /\ job[jobOf[w]].age \in Nat /\ elapsed[w] \in Nat
      BY <2>1, <3>1 DEF IInv, TypeOK, Owned, Row
    <3> QED
      BY <3>2, <3>3, <3>4
  <2> QED
    BY <1>3, <2>1 DEF Tick, IInv, Owned, Distinct, Live
<1>4. ASSUME NEW w \in Workers, ProcessStep(w)
      PROVE  Owned' /\ Distinct'
  <2>1. \A x \in Workers \ {w} : Live(x)' =>
            /\ Live(x) /\ jobOf'[x] = jobOf[x] /\ elapsed'[x] = elapsed[x]
            /\ job'[jobOf[x]] = job[jobOf[x]]
    BY <1>4, OnlyOwn, OthersUntouched DEF IInv, Live
  <2>2. Owned'
    BY <1>4, <2>1, OwnJob DEF IInv, Owned
  <2>3. Distinct'
    BY <1>4, <2>1, OwnJob DEF IInv, Owned, Distinct
  <2> QED
    BY <2>2, <2>3
<1> QED
  BY <1>1, <1>2, <1>3, <1>4, NextCases

-----------------------------------------------------------------------------
\* A process leaves a pending or succeeded job alone, closes it or, as the one
\* that runs retry_failed_jobs, picks it up.
LEMMA ListedUntouched ==
    ASSUME IInv, NEW w \in Workers, ProcessStep(w),
           NEW j \in Jobs, job[j].status \in {"pending", "succeeded"}
    PROVE  job'[j] = job[j] \/ job'[j].status = "succeeded" \/ RetryPick(w, j)
<1> USE DEF IInv, TypeOK, Put
<1>a. Live(w) => jobOf[w] # j
  BY DEF Owned
<1>1. CASE Start(w) \/ BatchCheck(w) \/ SalesNext(w) \/ RetrySkip(w) \/ ExportReturns(w)
           \/ Finish(w) \/ Abort(w)
  BY <1>1 DEF Start, BatchStart, SalesStart, EntityStart, RetryStart, Begin, BatchCheck,
              SalesNext, RetrySkip, ExportReturns, Finish, Abort
<1>2. CASE Create(w)
  BY <1>2 DEF Create
<1>3. CASE \E i \in Jobs : RetryPick(w, i)
  BY <1>3 DEF RetryPick, RetryRun
<1>4. CASE SalesLock(w) \/ SalesLockRefused(w)
  BY <1>a, <1>4 DEF SalesLock, SalesLockRefused, Live
<1>5. CASE RecordSuccess(w)
  <2>1. job'[j] \in {job[j], Closed(job[j])}
    BY <1>5 DEF RecordSuccess
  <2> QED
    BY <2>1, ClosedRow
<1>6. CASE RecordFailure(w) \/ Kill(w)
  BY <1>a, <1>6 DEF RecordFailure, Kill, Live, Outcome
<1> QED
  BY <1>1, <1>2, <1>3, <1>4, <1>5, <1>6 DEF ProcessStep, Step

\* The same for the steps of the admin and of time.
LEMMA ListedAged ==
    ASSUME IInv, AdminRetry \/ AdminResolve \/ Tick,
           NEW j \in Jobs, job[j].status \in {"pending", "succeeded"}
    PROVE  /\ job'[j].status = job[j].status
           /\ job'[j].latest = job[j].latest
           /\ job[j].wait = 0 => job'[j].wait = 0
<1>a. job \in [Jobs -> Row] /\ job[j] \in Row
  BY DEF IInv, TypeOK
<1>1. CASE AdminRetry
  BY <1>a, <1>1 DEF AdminRetry, Put
<1>2. CASE AdminResolve
  <2>1. PICK i \in Jobs : \E type \in job[i].unresolved :
            job' = Put(job, i, [job[i] EXCEPT !.unresolved = @ \ {type}])
    BY <1>2 DEF AdminResolve
  <2> QED
    BY <1>a, <2>1 DEF Put, Row
<1>3. CASE Tick
  <2>1. job'[j] = [job[j] EXCEPT
            !.age = IF job[j].status = "running" /\ @ <= StaleTimeout THEN @ + 1 ELSE @,
            !.wait = IF @ > 0 THEN @ - 1 ELSE 0]
    BY <1>3 DEF Tick
  <2>2. (IF job[j].wait > 0 THEN job[j].wait - 1 ELSE 0) = 0 \/ job[j].wait # 0
    OBVIOUS
  <2> QED
    BY <1>a, <2>1, <2>2 DEF Row
<1> QED
  BY <1>1, <1>2, <1>3

\* Every step preserves Listed.
LEMMA ListedPreserved ==
    ASSUME IInv, [Next]_vars
    PROVE  Listed'
<1> DEFINE Ok(s, f) ==
        /\ s \in Snapshot
        /\ f[s.id].status \in {"pending", "succeeded"}
        /\ f[s.id].status = "pending" => f[s.id].wait = 0 /\ f[s.id].latest = s.latest
<1>a. \A w \in Workers : task[w] = "retry" => \A s \in todo[w] : Ok(s, job)
  BY DEF IInv, Listed
<1>1. CASE UNCHANGED vars
  BY <1>1 DEF IInv, Listed, vars
<1>2. CASE AdminRetry \/ AdminResolve \/ Tick
  <2>1. UNCHANGED <<task, todo>>
    BY <1>2 DEF AdminRetry, AdminResolve, Tick, local
  <2>2. \A w \in Workers : task[w] = "retry" => \A s \in todo[w] : Ok(s, job')
    BY <1>2, <1>a, ListedAged DEF Snapshot
  <2> QED
    BY <2>1, <2>2 DEF IInv, Listed
<1>3. ASSUME NEW w \in Workers, ProcessStep(w)
      PROVE  Listed'
  <2>1. ASSUME NEW x \in Workers, task[x] = "retry", NEW s \in todo[x],
               ~RetryPick(w, s.id)
        PROVE  Ok(s, job')
    BY <1>3, <1>a, <2>1, ListedUntouched DEF Snapshot
  <2>2. ASSUME NEW x \in Workers \ {w}, task'[x] = "retry"
        PROVE  /\ \A s \in todo'[x] : Ok(s, job')
               /\ \A s, t \in todo'[x] : t.id = s.id => t = s
    <3>1. task[x] = "retry" /\ todo'[x] = todo[x]
      BY <1>3, <2>2, OnlyOwn DEF IInv
    <3>2. task[w] # "retry"
      BY <3>1 DEF IInv, LocksHeld, LockKeys
    <3> QED
      BY <2>1, <3>1, <3>2 DEF RetryPick, IInv, Listed
  <2>3. ASSUME task'[w] = "retry"
        PROVE  /\ \A s \in todo'[w] : Ok(s, job')
               /\ \A s, t \in todo'[w] : t.id = s.id => t = s
    <3>1. CASE RetryStart(w)
      <4>1. job' = job /\ todo'[w] = {SnapshotOf(j) : j \in {i \in Jobs : Due(i)}}
        BY <3>1 DEF RetryStart, Begin, Put, IInv, TypeOK
      <4>2. ASSUME NEW j \in Jobs, Due(j)
            PROVE  Ok(SnapshotOf(j), job) /\ SnapshotOf(j).id = j
        BY <4>2, SnapshotType DEF SnapshotOf, Due
      <4> QED
        BY <4>1, <4>2
    <3>2. ASSUME NEW j \in Jobs, RetryPick(w, j)
          PROVE  /\ \A s \in todo'[w] : Ok(s, job')
                 /\ \A s, t \in todo'[w] : t.id = s.id => t = s
      <4>1. PICK s \in todo[w] :
                s.id = j /\ RetryRun(w, s) /\ todo' = Put(todo, w, todo[w] \ {s})
        BY <3>2 DEF RetryPick
      <4>2. task[w] = "retry" /\ todo'[w] = todo[w] \ {s}
        BY <3>2, <4>1 DEF RetryPick, Put, IInv, TypeOK
      <4>3. \A t \in todo'[w] : t.id # j
        BY <4>1, <4>2 DEF IInv, Listed
      <4>4. \A i \in Jobs \ {j} : job'[i] = job[i]
        BY <4>1 DEF RetryRun, Put, IInv, TypeOK
      <4> QED
        BY <1>a, <4>2, <4>3, <4>4 DEF IInv, Listed, Snapshot
    <3>3. CASE ~RetryStart(w) /\ ~\E j \in Jobs : RetryPick(w, j)
      <4>1. task[w] = "retry" /\ todo'[w] \subseteq todo[w]
        BY <1>3, <2>3, <3>3
           DEF ProcessStep, Start, BatchStart, SalesStart, EntityStart, Begin, Step, BatchCheck,
               SalesNext, Create, RetrySkip, SalesLock, SalesLockRefused, ExportReturns,
               RecordSuccess, RecordFailure, NextJob, Finish, Abort, Kill, Quit, Put, IInv, TypeOK
      <4>2. \A s \in todo[w] : s.id \in Jobs
        BY <1>a, <4>1 DEF Snapshot
      <4> QED
        BY <2>1, <3>3, <4>1, <4>2 DEF IInv, Listed
    <3> QED
      BY <3>1, <3>2, <3>3
  <2> QED
    BY <2>2, <2>3 DEF Listed
<1> QED
  BY <1>1, <1>2, <1>3, NextCases

-----------------------------------------------------------------------------
\* An empty job table and idle processes satisfy the invariant.
LEMMA InitIsGood == Init => IInv
<1> SUFFICES ASSUME Init
             PROVE  IInv
  OBVIOUS
<1> USE JobsAssumption DEF JobsAssumption, Init
<1>1. NoRow \in Row /\ [attempts |-> 0, contention |-> 0] \in Memory
  BY Zero DEF NoRow, Row, Status, Memory
<1>2. TypeOK
  BY <1>1, Zero DEF TypeOK, Lease!Init, Place
<1>3. AttemptsBounded /\ SucceededIsClean /\ HasLatest
  BY DEF AttemptsBounded, SucceededIsClean, HasLatest, NoRow
<1>4. AtWork /\ Owned /\ Distinct /\ Listed /\ LocksHeld /\ Scope
  BY DEF AtWork, Owned, Distinct, Listed, LocksHeld, Scope, Live, Outcome, ErrorType, LockKeys
<1> QED
  BY <1>2, <1>3, <1>4 DEF IInv

\* The invariant is inductive.
LEMMA Inductive == IInv /\ [Next]_vars => IInv'
<1> SUFFICES ASSUME IInv, [Next]_vars
             PROVE  IInv'
  OBVIOUS
<1>1. HasLatest' /\ AttemptsBounded' /\ SucceededIsClean'
  BY RowsPreserved DEF GoodRow, HasLatest, AttemptsBounded, SucceededIsClean
<1> QED
  BY <1>1, TypePreserved, AtWorkPreserved, OwnedPreserved, ListedPreserved, LocksHeldPreserved,
     ScopePreserved DEF IInv

\* IInv is an invariant.
THEOREM Invariance == Spec => []IInv
  BY InitIsGood, Inductive, PTL DEF Spec

\* The type invariant of the job table and of the processes that work on it.
THEOREM TypeCorrect == Spec => []TypeOK
<1>1. IInv => TypeOK
  BY DEF IInv
<1> QED
  BY <1>1, Invariance, PTL

\* A job that a process is working on is RUNNING, nobody else's, and never
\* looks stale to the others (apps/sync/tasks.py:50, 107-133, 206-221).
THEOREM LiveJobsProtected == Spec => []LiveJobProtected
<1>1. IInv => LiveJobProtected
  BY LiveIsNotStale DEF IInv, Owned, Distinct, LiveJobProtected
<1> QED
  BY <1>1, Invariance, PTL

\* No job uses more than MAX_SYNC_RETRIES attempts (apps/sync/tasks.py:177, 899).
THEOREM AttemptsAreBounded == Spec => []AttemptsBounded
<1>1. IInv => AttemptsBounded
  BY DEF IInv
<1> QED
  BY <1>1, Invariance, PTL

\* A succeeded job has no unresolved error (apps/sync/tasks.py:107-153).
THEOREM SucceededJobsAreClean == Spec => []SucceededIsClean
<1>1. IInv => SucceededIsClean
  BY DEF IInv
<1> QED
  BY <1>1, Invariance, PTL

\* One process at a time writes customers and orders to ICG, whichever of the
\* four tasks it runs (apps/sync/tasks.py:53, 67-81).
THEOREM SalesExportsAreSerial == Spec => []SalesExportsSerial
<1>1. IInv => SalesExportsSerial
  BY DEF IInv, LocksHeld, SalesExportsSerial
<1> QED
  BY <1>1, Invariance, PTL

\* A pending job starts again only for a TRANSIENT error whose backoff has
\* passed (apps/sync/tasks.py:875-897).
THEOREM RetriesStartWhenDue == Spec => RetriesAreDue
<1> DEFINE IsDue == \A j \in Jobs :
        job[j].status = "pending" /\ job'[j].status = "running"
            => job[j].latest = "transient" /\ job[j].wait = 0
<1>1. IInv /\ [Next]_vars => [IsDue]_vars
  <2> SUFFICES ASSUME IInv, Next,
                      NEW j \in Jobs, job[j].status = "pending", job'[j].status = "running"
               PROVE  job[j].latest = "transient" /\ job[j].wait = 0
    OBVIOUS
  <2>1. PICK w \in Workers : RetryPick(w, j)
    BY NextCases, ListedUntouched, ListedAged
  <2>2. PICK s \in todo[w] : s.id = j /\ s.latest = "transient"
    BY <2>1 DEF RetryPick
  <2> QED
    BY <2>1, <2>2 DEF RetryPick, IInv, Listed
<1> QED
  BY <1>1, Invariance, PTL DEF Spec, RetriesAreDue

-----------------------------------------------------------------------------
(***************************************************************************)
(* Exclusive exports to Prestashop.  Without retry_entity and the resets   *)
(* of the admin, OneJobEach is inductive together with IInv: every step    *)
(* keeps the keys of the jobs, and opens no job but by Create, whose       *)
(* conflict check still holds because of the batch lock.                   *)
(***************************************************************************)
Scheduled == "entity" \notin Tasks /\ ~Admin

\* Who creates a job for an entity of the catalog runs the batch.
LEMMA CreatorIsBatch ==
    ASSUME Scheduled, IInv, KeysMatch, NEW w \in Workers, pc[w] = "create", entity[w] \in Catalog
    PROVE  task[w] = "batch" /\ holder["batch"] = w
<1>1. task[w] \in Tasks /\ task[w] \notin {"retry", "entity"}
  BY DEF Scheduled, IInv, TypeOK, AtWork, Scope
<1>2. task[w] # "sales"
  BY JobsAssumption DEF JobsAssumption, KeysMatch
<1>3. task[w] = "batch"
  BY <1>1, <1>2, JobsAssumption DEF JobsAssumption
<1> QED
  BY <1>3 DEF IInv, LocksHeld, LockKeys

\* A live process's job is open.
LEMMA LiveIsOpen ==
    ASSUME IInv, NEW w \in Workers, Live(w)
    PROVE  jobOf[w] \in Jobs /\ Open(jobOf[w])
  BY LiveIsNotStale DEF IInv, Owned, Open

\* Only RetryPick and Create open a job, and only Create gives it a key.
LEMMA Opens ==
    ASSUME IInv, NEW w \in Workers, ProcessStep(w), NEW j \in Jobs
    PROVE  \/ job'[j].key = job[j].key /\ (Open(j)' => Open(j) \/ RetryPick(w, j))
           \/ Create(w) /\ job'[j].key = entity[w]
<1> USE DEF IInv, TypeOK, Put
<1>a. job[j] \in Row
  OBVIOUS
<1>b. Live(w) => jobOf[w] \in Jobs /\ Open(jobOf[w]) /\ job[jobOf[w]].status = "running"
  BY LiveIsOpen DEF Owned
<1>1. CASE UNCHANGED job
  BY <1>1 DEF Open, StaleRunning
<1>2. CASE Create(w)
  <2>1. PICK i \in Jobs : job' = Put(job, i, [NoRow EXCEPT !.key = entity[w], !.status = "running",
                                                           !.attempts = 1])
    BY <1>2 DEF Create
  <2>2. CASE i = j
    BY <1>2, <2>1, <2>2 DEF NoRow
  <2>3. CASE i # j
    BY <2>1, <2>3 DEF Open, StaleRunning
  <2> QED
    BY <2>2, <2>3
<1>3. ASSUME NEW i \in Jobs, RetryPick(w, i)
      PROVE  job'[j].key = job[j].key /\ (Open(j)' => Open(j) \/ RetryPick(w, j))
  <2>1. PICK status \in {"failed", "running"} :
            job' = Put(job, i, [job[i] EXCEPT !.status = status, !.age = 0, !.wait = 0])
    BY <1>3 DEF RetryPick, RetryRun
  <2>2. job'[j].key = job[j].key
    BY <1>a, <2>1 DEF Row
  <2>3. i # j => job'[j] = job[j]
    BY <2>1
  <2> QED
    BY <1>3, <2>2, <2>3 DEF Open, StaleRunning
<1>4. ASSUME SalesLock(w) \/ SalesLockRefused(w) \/ RecordFailure(w) \/ (Kill(w) /\ job' # job)
      PROVE  job'[j].key = job[j].key /\ (Open(j)' => Open(j))
  <2>1. Live(w)
    BY <1>4 DEF SalesLock, SalesLockRefused, RecordFailure, Kill, Live, Outcome
  <2>2. \A i \in Jobs \ {jobOf[w]} : job'[i] = job[i]
    BY <1>4, <1>b, <2>1 DEF SalesLock, SalesLockRefused, RecordFailure, Kill
  <2>3. job'[jobOf[w]].key = job[jobOf[w]].key
    <3> DEFINE row == job[jobOf[w]]
    <3>1. row \in Row
      BY <1>b, <2>1
    <3>2. \A type : WithError(row, type).key = row.key /\ WithError(row, type) = [row EXCEPT !.latest = type, !.unresolved = row.unresolved \cup {type}]
      BY <3>1 DEF WithError, Row
    <3>3. CASE SalesLock(w)
      BY <1>b, <2>1, <3>1, <3>3 DEF SalesLock, Row
    <3>4. CASE SalesLockRefused(w)
      <4> DEFINE seen == IF task[w] = "entity" THEN WithError(row, "transient") ELSE row
                 count == IF mem[w].contention = 0 THEN 1 ELSE 2
      <4>1. job'[jobOf[w]] = Contended(seen, count)
        BY <1>b, <2>1, <3>4 DEF SalesLockRefused
      <4>2. seen.key = row.key /\ seen \in Row
        BY <3>1, <3>2, ErrorRow DEF ErrorType
      <4> HIDE DEF seen, count
      <4>3. Contended(seen, count).key = seen.key
        BY <4>2 DEF Contended, Row
      <4> QED
        BY <4>1, <4>2, <4>3
    <3>5. CASE RecordFailure(w)
      <4>1. job'[jobOf[w]] = Failed(row, pc[w], mem[w].attempts)
        BY <1>b, <2>1, <3>5 DEF RecordFailure
      <4>2. pc[w] \in ErrorType
        BY <3>5 DEF RecordFailure
      <4>3. WithError(row, pc[w]) \in Row
        BY <3>1, <4>2, ErrorRow
      <4>4. Failed(row, pc[w], mem[w].attempts).key = WithError(row, pc[w]).key
        BY <4>3 DEF Failed, Row
      <4> QED
        BY <3>2, <4>1, <4>4
    <3>6. CASE Kill(w) /\ job' # job
      <4>1. \E type : job' = Put(job, jobOf[w], WithError(row, type))
        BY <3>6 DEF Kill
      <4>2. \E type : job'[jobOf[w]] = WithError(row, type)
        BY <1>b, <2>1, <4>1
      <4> QED
        BY <3>2, <4>2
    <3> QED
      BY <1>4, <3>3, <3>4, <3>5, <3>6
  <2> QED
    BY <1>b, <2>1, <2>2, <2>3 DEF Open, StaleRunning
<1>5. CASE RecordSuccess(w)
  <2>1. job'[j] \in {job[j], Closed(job[j])}
    BY <1>5 DEF RecordSuccess
  <2>2. Closed(job[j]).key = job[j].key /\ Closed(job[j]).status = "succeeded"
    BY <1>a DEF Closed, Row
  <2> QED
    BY <2>1, <2>2 DEF Open, StaleRunning
<1> QED
  BY <1>1, <1>2, <1>3, <1>4, <1>5
     DEF ProcessStep, Start, BatchStart, SalesStart, EntityStart, RetryStart, Begin, Step, BatchCheck,
         SalesNext, RetrySkip, ExportReturns, Finish, Abort

\* Neither the passing of time nor an admin who resets no job opens one.
LEMMA TimeOpensNone ==
    ASSUME IInv, AdminResolve \/ Tick, NEW j \in Jobs
    PROVE  job'[j].key = job[j].key /\ job'[j].status = job[j].status /\ (Open(j)' => Open(j))
<1>a. job \in [Jobs -> Row] /\ job[j] \in Row /\ job[j].age \in Nat
  BY DEF IInv, TypeOK, Row
<1>1. CASE AdminResolve
  <2>1. PICK i \in Jobs : \E type \in job[i].unresolved :
            job' = Put(job, i, [job[i] EXCEPT !.unresolved = @ \ {type}])
    BY <1>1 DEF AdminResolve
  <2>2. job'[j].key = job[j].key /\ job'[j].status = job[j].status /\ job'[j].age = job[j].age
    BY <1>a, <2>1 DEF Put, Row
  <2> QED
    BY <2>2 DEF Open, StaleRunning
<1>2. CASE Tick
  <2> DEFINE age == IF job[j].status = "running" /\ job[j].age <= StaleTimeout
                    THEN job[j].age + 1 ELSE job[j].age
  <2>1. job'[j].key = job[j].key /\ job'[j].status = job[j].status /\ job'[j].age = age
    BY <1>2, <1>a DEF Tick, Row
  <2>2. age >= job[j].age /\ age \in Nat
    BY <1>a
  <2>3. job[j].age > StaleTimeout => age > StaleTimeout
    BY <1>a, <2>2, JobsAssumption DEF JobsAssumption
  <2> QED
    BY <2>1, <2>3 DEF Open, StaleRunning
<1> QED
  BY <1>1, <1>2

\* A listed job of the catalog that is picked up was open already.
LEMMA PickedWasOpen ==
    ASSUME ListedPending, NEW w \in Workers, NEW j \in Jobs, RetryPick(w, j), job[j].key \in Catalog
    PROVE  Open(j)
  BY DEF RetryPick, ListedPending, Open

\* Every step preserves OneOpen.
LEMMA OneOpenPreserved ==
    ASSUME Scheduled, IInv, OneJobEach, [Next]_vars
    PROVE  OneOpen'
<1> USE DEF OneJobEach
<1>1. CASE UNCHANGED vars
  BY <1>1 DEF vars, OneOpen, Open, StaleRunning
<1>2. CASE AdminResolve \/ Tick
  BY <1>2, TimeOpensNone DEF OneOpen
<1>3. ASSUME NEW w \in Workers, ProcessStep(w)
      PROVE  OneOpen'
  <2> SUFFICES ASSUME NEW i \in Jobs, NEW j \in Jobs, Open(i)', Open(j)',
                      job'[i].key = job'[j].key, job'[i].key \in Catalog
               PROVE  i = j
    BY DEF OneOpen
  <2>1. CASE ~Create(w)
    BY <1>3, <2>1, Opens, PickedWasOpen DEF OneOpen
  <2>2. CASE Create(w)
    <3>1. PICK n \in Jobs : job' = Put(job, n, [NoRow EXCEPT !.key = entity[w], !.status = "running",
                                                             !.attempts = 1])
      BY <2>2 DEF Create
    <3>2. job'[n].key = entity[w]
      BY <3>1 DEF NoRow, Put, IInv, TypeOK
    <3>3. \A m \in Jobs \ {n} : job'[m] = job[m] /\ (Open(m)' => Open(m))
      BY <3>1 DEF Put, IInv, TypeOK, Open, StaleRunning
    <3>4. entity[w] \in Catalog => ~HasOpenJobConflict(entity[w])
      BY <2>2 DEF Create, StillFree
    <3>5. \A m \in Jobs \ {n} : ~(Open(m)' /\ job'[m].key = entity[w] /\ entity[w] \in Catalog)
      BY <3>3, <3>4 DEF HasOpenJobConflict
    <3> QED
      BY <3>2, <3>3, <3>5 DEF OneOpen
  <2> QED
    BY <2>1, <2>2
<1> QED
  BY <1>1, <1>2, <1>3, NextCases DEF Scheduled, AdminRetry

\* Every step preserves StillFree.
LEMMA StillFreePreserved ==
    ASSUME Scheduled, IInv, OneJobEach, [Next]_vars
    PROVE  StillFree'
<1> USE DEF OneJobEach
<1>1. CASE UNCHANGED vars
  BY <1>1 DEF vars, StillFree, HasOpenJobConflict, Open, StaleRunning
<1>2. CASE AdminResolve \/ Tick
  <2>1. UNCHANGED <<pc, entity>>
    BY <1>2 DEF AdminResolve, Tick, local
  <2> QED
    BY <1>2, <2>1, TimeOpensNone DEF StillFree, HasOpenJobConflict
<1>3. ASSUME NEW w \in Workers, ProcessStep(w)
      PROVE  StillFree'
  <2> SUFFICES ASSUME NEW x \in Workers, pc'[x] = "create", entity'[x] \in Catalog,
                      NEW j \in Jobs, job'[j].key = entity'[x], Open(j)'
               PROVE  FALSE
    BY DEF StillFree, HasOpenJobConflict
  <2>1. CASE x # w
    <3>1. pc[x] = "create" /\ entity[x] = entity'[x]
      BY <1>3, <2>1, OnlyOwn DEF IInv
    <3>2. ~(job[j].key = entity[x] /\ Open(j))
      BY <3>1 DEF StillFree, HasOpenJobConflict
    <3>3. ~(Create(w) /\ entity[w] = entity[x])
      BY <2>1, <3>1, CreatorIsBatch DEF Create
    <3> QED
      BY <1>3, <3>1, <3>2, <3>3, Opens, PickedWasOpen
  <2>2. CASE x = w
    <3>1. task[w] # "entity" /\ "entity" \notin Tasks
      BY DEF Scheduled, IInv, TypeOK
    <3>2. BatchCheck(w) \/ SalesNext(w)
      BY <1>3, <2>2, <3>1
         DEF ProcessStep, Start, BatchStart, SalesStart, EntityStart, RetryStart, Begin, Step,
             BatchCheck, SalesNext, Create, RetrySkip, RetryPick, RetryRun, SalesLock,
             SalesLockRefused, ExportReturns, RecordSuccess, RecordFailure, NextJob, NextPlace,
             Finish, Abort, Kill, Quit, Go, Put, IInv, TypeOK, Scope, Outcome, ErrorType
    <3>3. job' = job
      BY <3>2 DEF BatchCheck, SalesNext
    <3>4. CASE SalesNext(w)
      <4>1. entity'[w] \in Sales
        BY <2>2, <3>4 DEF SalesNext, Go, Put, IInv, TypeOK, Scope
      <4> QED
        BY <2>2, <4>1, JobsAssumption DEF JobsAssumption
    <3>5. CASE BatchCheck(w)
      <4>1. ~HasOpenJobConflict(entity'[w])
        BY <2>2, <3>5 DEF BatchCheck, Go, Put, IInv, TypeOK
      <4> QED
        BY <2>2, <3>3, <4>1 DEF HasOpenJobConflict, Open, StaleRunning
    <3> QED
      BY <3>2, <3>4, <3>5
  <2> QED
    BY <2>1, <2>2
<1> QED
  BY <1>1, <1>2, <1>3, NextCases DEF Scheduled, AdminRetry

\* A success closes no listed job of the catalog: the two would both be open.
LEMMA ListedStayPending ==
    ASSUME IInv, OneJobEach, NEW w \in Workers, ProcessStep(w),
           NEW j \in Jobs, job[j].key \in Catalog, job[j].status = "pending"
    PROVE  job'[j] = job[j] \/ RetryPick(w, j)
           \/ (RecordSuccess(w) /\ job[jobOf[w]].key = job[j].key)
<1> USE DEF IInv, TypeOK, Put
<1>a. Live(w) => jobOf[w] # j
  BY DEF Owned
<1>1. CASE ~RecordSuccess(w) /\ ~RetryPick(w, j)
  <2>1. CASE UNCHANGED job
    BY <2>1
  <2>2. CASE Create(w)
    BY <2>2 DEF Create
  <2>3. CASE \E i \in Jobs : RetryPick(w, i)
    BY <1>1, <2>3 DEF RetryPick, RetryRun
  <2>4. CASE SalesLock(w) \/ SalesLockRefused(w)
    BY <1>a, <2>4 DEF SalesLock, SalesLockRefused, Live
  <2>5. CASE RecordFailure(w) \/ Kill(w)
    BY <1>a, <2>5 DEF RecordFailure, Kill, Live, Outcome
  <2> QED
    BY <1>1, <2>1, <2>2, <2>3, <2>4, <2>5
       DEF ProcessStep, Start, BatchStart, SalesStart, EntityStart, RetryStart, Begin, Step,
           BatchCheck, SalesNext, RetrySkip, ExportReturns, Finish, Abort
<1>2. CASE RecordSuccess(w)
  <2>1. j \in Superseded(jobOf[w]) \/ job'[j] = job[j]
    BY <1>a, <1>2 DEF RecordSuccess, Live, Outcome
  <2> QED
    BY <1>2, <2>1 DEF Superseded
<1> QED
  BY <1>1, <1>2

\* Every step preserves ListedPending.
LEMMA ListedPendingPreserved ==
    ASSUME Scheduled, IInv, OneJobEach, [Next]_vars
    PROVE  ListedPending'
<1> USE DEF OneJobEach
<1>1. CASE UNCHANGED vars
  BY <1>1 DEF vars, ListedPending
<1>a. \A w \in Workers : task[w] = "retry" => \A s \in todo[w] : s \in Snapshot /\ s.id \in Jobs
  BY DEF IInv, Listed, Snapshot
<1>2. CASE AdminResolve \/ Tick
  <2>1. UNCHANGED <<task, todo>>
    BY <1>2 DEF AdminResolve, Tick, local
  <2> QED
    BY <1>2, <1>a, <2>1, TimeOpensNone DEF ListedPending
<1>3. ASSUME NEW w \in Workers, ProcessStep(w)
      PROVE  ListedPending'
  <2> SUFFICES ASSUME NEW x \in Workers, task'[x] = "retry", NEW s \in todo'[x],
                      job'[s.id].key \in Catalog
               PROVE  job'[s.id].status = "pending"
    BY DEF ListedPending
  <2>1. CASE RetryStart(w) /\ x = w
    <3>1. job' = job /\ todo'[w] = {SnapshotOf(j) : j \in {i \in Jobs : Due(i)}}
      BY <2>1 DEF RetryStart, Begin, Put, IInv, TypeOK
    <3>2. PICK j \in Jobs : Due(j) /\ s = SnapshotOf(j)
      BY <2>1, <3>1
    <3>3. s.id = j
      BY <3>2 DEF SnapshotOf
    <3> QED
      BY <3>1, <3>2, <3>3 DEF Due
  <2>2. CASE ~(RetryStart(w) /\ x = w)
    <3>1. task[x] = "retry" /\ s \in todo[x]
      <4>1. CASE x # w
        BY <1>3, <4>1, OnlyOwn DEF IInv
      <4>2. CASE x = w
        <5>1. task[w] = "retry" /\ todo'[w] \subseteq todo[w]
          BY <1>3, <2>2, <4>2
             DEF ProcessStep, Start, BatchStart, SalesStart, EntityStart, RetryStart, Begin, Step,
                 BatchCheck, SalesNext, Create, RetrySkip, RetryPick, SalesLock, SalesLockRefused,
                 ExportReturns, RecordSuccess, RecordFailure, NextJob, Finish, Abort, Kill, Quit,
                 Put, IInv, TypeOK
        <5> QED
          BY <4>2, <5>1
      <4> QED
        BY <4>1, <4>2
    <3>2. s.id \in Jobs /\ holder["retry"] = x
      BY <1>a, <3>1 DEF IInv, LocksHeld, LockKeys
    <3>3. ~RetryPick(w, s.id)
      <4> SUFFICES ASSUME RetryPick(w, s.id)
                   PROVE  FALSE
        OBVIOUS
      <4>1. task[w] = "retry" /\ holder["retry"] = w
        BY DEF RetryPick, IInv, LocksHeld, LockKeys
      <4>2. x = w
        BY <3>2, <4>1
      <4>3. PICK t \in todo[w] : t.id = s.id /\ todo' = Put(todo, w, todo[w] \ {t})
        BY DEF RetryPick
      <4>4. t = s
        BY <3>1, <4>1, <4>2, <4>3 DEF IInv, Listed
      <4> QED
        BY <4>2, <4>3, <4>4 DEF Put, IInv, TypeOK
    <3>4. job'[s.id].key = job[s.id].key
      <4>1. job[s.id].status \in {"pending", "succeeded"}
        BY <3>1 DEF IInv, Listed
      <4>2. CASE Create(w)
        BY <3>2, <4>1, <4>2 DEF Create, Put, IInv, TypeOK
      <4>3. CASE ~Create(w)
        BY <1>3, <3>2, <4>3, Opens
      <4> QED
        BY <4>2, <4>3
    <3>5. job[s.id].status = "pending"
      BY <3>1, <3>4 DEF ListedPending
    <3>6. ~(RecordSuccess(w) /\ job[jobOf[w]].key = job[s.id].key)
      <4> SUFFICES ASSUME RecordSuccess(w), job[jobOf[w]].key = job[s.id].key
                   PROVE  FALSE
        OBVIOUS
      <4>1. Live(w)
        BY DEF RecordSuccess, Live, Outcome
      <4>2. jobOf[w] \in Jobs /\ Open(jobOf[w]) /\ job[jobOf[w]].status = "running"
        BY <4>1, LiveIsOpen DEF IInv, Owned
      <4>3. Open(s.id)
        BY <3>5 DEF Open
      <4>4. jobOf[w] = s.id
        BY <3>2, <3>4, <4>2, <4>3 DEF OneOpen
      <4> QED
        BY <3>5, <4>2, <4>4
    <3>7. job'[s.id] = job[s.id]
      BY <1>3, <3>2, <3>3, <3>4, <3>5, <3>6, ListedStayPending
    <3> QED
      BY <3>5, <3>7
  <2> QED
    BY <2>1, <2>2
<1> QED
  BY <1>1, <1>2, <1>3, NextCases DEF Scheduled, AdminRetry

\* Every step preserves KeysMatch.
LEMMA KeysMatchPreserved ==
    ASSUME Scheduled, IInv, OneJobEach, [Next]_vars
    PROVE  KeysMatch'
<1> USE DEF OneJobEach
<1>1. CASE UNCHANGED vars
  BY <1>1 DEF vars, KeysMatch, Live
<1>2. CASE AdminResolve \/ Tick
  <2>1. UNCHANGED <<pc, entity, task, jobOf>>
    BY <1>2 DEF AdminResolve, Tick, local
  <2> QED
    BY <1>2, <2>1, TimeOpensNone, LiveIsOpen DEF KeysMatch, Live
<1>3. ASSUME NEW w \in Workers, ProcessStep(w)
      PROVE  KeysMatch'
  <2>1. ASSUME NEW x \in Workers \ {w}
        PROVE  /\ Live(x)' => job'[jobOf'[x]].key = entity'[x]
               /\ pc'[x] = "create" /\ task'[x] = "sales" => entity'[x] \in Sales
    BY <1>3, <2>1, OnlyOwn, OthersUntouched DEF IInv, KeysMatch, Live
  <2>2. ASSUME pc'[w] = "create", task'[w] = "sales"
        PROVE  entity'[w] \in Sales
    <3>1. SalesNext(w)
      BY <1>3, <2>2
         DEF ProcessStep, Start, BatchStart, SalesStart, EntityStart, RetryStart, Begin, Step,
             BatchCheck, SalesNext, Create, RetrySkip, RetryPick, RetryRun, SalesLock,
             SalesLockRefused, ExportReturns, RecordSuccess, RecordFailure, NextJob, NextPlace,
             Finish, Abort, Kill, Quit, Go, Put, IInv, TypeOK, Scope, Outcome, ErrorType
    <3> QED
      BY <2>2, <3>1 DEF SalesNext, Go, Put, IInv, TypeOK, Scope
  <2>3. ASSUME Live(w)'
        PROVE  job'[jobOf'[w]].key = entity'[w]
    <3>1. CASE Create(w)
      <4>1. PICK n \in Jobs : /\ jobOf' = Put(jobOf, w, n)
                              /\ job' = Put(job, n, [NoRow EXCEPT !.key = entity[w],
                                                         !.status = "running", !.attempts = 1])
        BY <3>1 DEF Create
      <4>2. jobOf'[w] = n /\ job'[n].key = entity[w] /\ entity' = entity
        BY <3>1, <4>1 DEF Create, NoRow, Put, IInv, TypeOK
      <4> QED
        BY <4>2
    <3>2. CASE \E j \in Jobs : RetryPick(w, j)
      <4>1. PICK j \in Jobs : RetryPick(w, j)
        BY <3>2
      <4>2. jobOf'[w] = j /\ entity'[w] = job[j].key
        BY <4>1 DEF RetryPick, RetryRun, Put, IInv, TypeOK
      <4>3. ~Create(w)
        BY <4>1 DEF RetryPick, Create
      <4> QED
        BY <1>3, <4>2, <4>3, Opens
    <3>3. CASE ~Create(w) /\ ~\E j \in Jobs : RetryPick(w, j)
      <4>1. Live(w) /\ jobOf' = jobOf /\ entity' = entity
        BY <1>3, <2>3, <3>3
           DEF ProcessStep, Start, BatchStart, SalesStart, EntityStart, RetryStart, Begin, Step,
               BatchCheck, SalesNext, RetrySkip, SalesLock,
               SalesLockRefused, ExportReturns, RecordSuccess, RecordFailure, NextJob, NextPlace,
               Finish, Abort, Kill, Quit, Go, Put, IInv, TypeOK, Scope, Live, Outcome, ErrorType
      <4>2. jobOf[w] \in Jobs
        BY <4>1, LiveIsOpen
      <4> QED
        BY <1>3, <3>3, <4>1, <4>2, Opens DEF KeysMatch
    <3> QED
      BY <3>1, <3>2, <3>3
  <2> QED
    BY <2>1, <2>2, <2>3 DEF KeysMatch
<1> QED
  BY <1>1, <1>2, <1>3, NextCases DEF Scheduled, AdminRetry

\* An entity of the catalog has at most one job that is pending or running: the
\* conflict check of the batch, though read before the job is created, holds
\* until then (apps/sync/tasks.py:206-253).
THEOREM OneJobForEach == Scheduled => (Spec => []OneJobEach)
<1> SUFFICES ASSUME Scheduled
             PROVE  Spec => []OneJobEach
  OBVIOUS
<1>1. Init => OneJobEach
  BY DEF Init, OneJobEach, KeysMatch, OneOpen, StillFree, ListedPending, Open, StaleRunning, NoRow,
         Live, Outcome, ErrorType
<1>2. IInv /\ OneJobEach /\ [Next]_vars => OneJobEach'
  BY KeysMatchPreserved, OneOpenPreserved, StillFreePreserved, ListedPendingPreserved
     DEF OneJobEach
<1> QED
  BY <1>1, <1>2, Invariance, PTL DEF Spec

\* The scheduled tasks - batches, sales exports and retry_failed_jobs - never
\* export an entity to Prestashop in two processes at once, if staff reset no
\* job and dispatch no retry_entity (apps/sync/tasks.py:206-221).
THEOREM CatalogExportsAreExclusive == Scheduled => (Spec => []CatalogExportsExclusive)
<1> SUFFICES ASSUME Scheduled
             PROVE  Spec => []CatalogExportsExclusive
  OBVIOUS
<1>1. IInv /\ OneJobEach => CatalogExportsExclusive
  <2> SUFFICES ASSUME IInv, OneJobEach, NEW w \in Workers, NEW x \in Workers,
                      pc[w] = "export", pc[x] = "export",
                      entity[w] \in Catalog, entity[w] = entity[x]
               PROVE  w = x
    BY DEF CatalogExportsExclusive
  <2>1. Live(w) /\ Live(x)
    BY DEF Live
  <2>2. jobOf[w] = jobOf[x]
    BY <2>1, LiveIsOpen DEF OneJobEach, KeysMatch, OneOpen
  <2> QED
    BY <2>1, <2>2 DEF IInv, Distinct
<1> QED
  BY <1>1, OneJobForEach, Invariance, PTL
=============================================================================
