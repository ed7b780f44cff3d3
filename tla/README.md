# icg-prestashop-sync: specification and proofs

The program synchronises an ICG ERP (SQL Server views) and a Prestashop shop
(HTTP/XML web service) through a Django application with its own PostgreSQL
database. Celery workers run the tasks of `apps/sync/tasks.py`, staff act
through the Django admin, operators run management commands.

    ICG views --import--> catalog + mappings --export--> Prestashop
    Prestashop --refresh--> sales mirror ----export--> ICG FacturasWeb / clients
                        \                     /
                         sync jobs, errors, retries, locks, cursors

This directory specifies that program in TLA+, checks the specifications with TLC
on small instances and proves the central safety properties with TLAPS.

## 1. The system

### Components

| Component | State | Operations | What makes it correct |
|---|---|---|---|
| Sync locks (`apps/sync/locking.py`) | one `SyncLock` row per key: `locked_by`, `locked_at` | acquire, take over a stale row, release by key | one holder per key; a dead holder does not block a key for good |
| Sync jobs, errors, retries (`apps/sync/tasks.py`, `models.py`) | `SyncJob` rows (status, attempts, `available_at`, `started_at`, payload), `SyncError` rows | create, fail, back off, put back on contention, succeed, close superseded jobs, `retry_failed_jobs`, admin retry and resolve | no job is worked on twice at once; attempts are bounded; what is pending is eventually run; a success leaves nothing open |
| Error classification (`apps/sync/errors.py`) | none | `classify_error` | what can pass by itself is TRANSIENT, what cannot is PERMANENT |
| Customer and order export to ICG (`order_export.py`, `customer_export.py`, `cursor_service.py`, the sales tasks) | sales cursor, mirror, FacturasWeb rows | read new ids, refresh, export, advance the cursor, recheck payments | no paid order is lost, none is written twice, no unpaid one is written |
| Sales mirror (`apps/sales`) | customers, addresses, orders and their lines | refresh from Prestashop, override carry-forward, export status | what is exported is what was refreshed last |
| ICG import (`apps/icg/importer.py`, `services.py`) | a cursor (date and source key) per view, imported products, stock and prices | keyset paging, upsert, skip, failure, refreshes without a cursor | no change of ICG is passed over; what precedes a bad row is imported |
| Catalog (`apps/catalog`) | entities, `sync_required`, Prestashop ids | mark for sync, clear | a change is flagged until it has been exported |
| Prestashop export (`apps/prestashop/services.py`) | shop contents, mappings | create, update, delete, recreate after 404, discounts | what is not flagged is in the shop as in the catalog; nothing is there twice; a mapping leads to its own variant |
| Attribute groups and values (`services.py`, `attribute_groups.py`) | groups, values, mappings | ensure, merge duplicates, remap, the maintenance commands | one value per name, mappings lead to living values, merging loses nothing |
| Prestashop client (`client.py`) | none | HTTP requests and XML | status codes reach the classification |
| Reconciliation and commands (`reconciliation.py`, `management/commands`) | mappings, cursors | bootstrap, relink, report | as for the state they change |
| Operations admin (`apps/operations`) | none of its own | retry, resolve, resync, export | never bypasses a lock or a conflict check |
| Database explorer, configuration, migrations | none | | not modelled |

`PROJECT.json` lists the same components with their status, and every hazard at its
source line.

### Interactions

* Tasks call each other only through the database: the job table, the lock table,
  the cursors and the flags of the catalog and mirror rows.
* A batch (`_run_export_batch`) holds the lock of its entity type over its whole
  loop and creates a job per entity, after a check that none is open. The sales
  tasks hold `ICG_SALES_EXPORT_LOCK_KEY` over their loop and check nothing.
  `retry_entity` holds no lock, or the sales lock around one export.
  `retry_failed_jobs` holds its own lock, and the sales lock around each sale.
* The admin dispatches `retry_entity` and the tasks, and edits jobs and errors
  directly.
* The Celery time limit connects the parts: `LOCK_TIMEOUT_MINUTES` and
  `STALE_RUNNING_JOB_TIMEOUT` decide by age alone that a process must be dead, and
  only the limit makes that right.

### What is hard

Several processes read rows, call out for seconds and write later; they are
killed at any point and leave rows behind; timeouts decide who is dead; retry
lists and cursors are read before they are used. Unit tests run one task at a time
in one process and see none of this.

## 2. Modules

| Module | Contents |
|---|---|
| `LeaseMutex` | what `sync_lock` promises its callers (abstract) |
| `SyncLock` | the lock table and its transactions; refines `LeaseMutex` |
| `SyncJobs` | the life of a job across all tasks and the admin; uses `LeaseMutex` |
| `OrderExport` | an order from Prestashop to FacturasWeb: cursor, mirror, payment, rows; uses `LeaseMutex` |
| `CatalogImport` | the views of ICG, paged through behind a cursor, and refreshes |
| `CatalogExport` | combinations, prices and stocks on their way to the shop: flags, ids, listings, 404s |
| `AttributeValues` | the attribute group and values of a combination: ensure, merge, remap, commands; uses `LeaseMutex` |
| `SyncLock_proofs`, `SyncJobs_proofs`, `OrderExport_proofs`, `CatalogImport_proofs`, `CatalogExport_proofs`, `CatalogFlags_proofs`, `AttributeValues_proofs` | theorems and proofs |
| `MCSyncJobs`, `MCOrderExport`, `MCCatalogImport`, `MCCatalogExport`, `MCAttributeValues` | values and symmetry for TLC |

How they fit together: `CatalogImport` ends where it sets `sync_required`,
`CatalogExport` begins there (its `Import...` actions are that module seen from the
export), `AttributeValues` provides the values that `CatalogExport` calls a variant,
and `SyncJobs` is the bookkeeping of every export. What they share at run time are the locks,
which all of them take from `LeaseMutex` or state as the exclusion of batches.

### Left in the plan

1. `CustomerExport`, the customers' half of the sales tasks, and the carry-forward of
   overrides when an order is refreshed.
2. `ErrorClassification`: a pure function over the outcomes of the client.
3. Discounts (delete all, create one) and manufacturers in `CatalogExport`.
4. The swap of a shop group between the color groups of two products in `AttributeValues`.

## 3. How the modules correspond to the code

### `SyncLock`

One lock key (rows of different keys never interact). `owner` and `age` are the
row: `age` is now minus `locked_at`. `rowLock` is the row lock of
`select_for_update`; `pc` is where a worker stands in `_acquire_lock`:

| Action | Code |
|---|---|
| `Start` | `with sync_lock(key)` is entered, transaction begins |
| `SelectNone`, `SelectStale`, `SelectFresh` | the `select_for_update` query: no row, a row older than `LOCK_TIMEOUT_MINUTES`, a younger row (refused) |
| `TakeOver` | the stale row is rewritten and the transaction commits |
| `Create`, `CreateFails` | the insert in its savepoint; a second insert hits the unique key |
| `Release` | the `finally` clause deletes by key |
| `Kill` | the process dies; nothing is deleted |
| `HardLimit`, `Tick` | the Celery time limit; time |

`Cli` is the set of workers without a time limit: management commands and the
admin request call the same code. With `Cli = {}` the lock is correct.

### `LeaseMutex`

`holder[k]` is a worker, `Free`, or `Orphan` after the holder died. `Acquire`,
`Release`, `Die`, `Unwind` (an exception leaves the `with` blocks) and the test
`Refused`. `SyncLock!Refinement` maps the row and the workers inside to it. In the
lease an orphan may be acquired at any time, while the row must first reach
`LOCK_TIMEOUT_MINUTES`; the lease allows more, so that safety carries over.

### `SyncJobs`

`job` is the job table. A row keeps the fields the tasks branch on, the newest
error's type (`latest`) and the types of the unresolved ones. `age` and `wait` are
`started_at` and `available_at` relative to now. Per process: `task`, `pc`,
`entity`, `jobOf`, the attributes of the job object in memory (`mem`) and what is
left of its loop (`todo`).

| Action | Code (`apps/sync/tasks.py`) |
|---|---|
| `BatchStart`, `BatchCheck` | `_run_export_batch`: lock, queryset, conflict check |
| `SalesStart`, `SalesNext` | `export_new_customers_to_icg`, `export_new_orders_to_icg` |
| `EntityStart` | `retry_entity` with its conflict check |
| `Create` | `SyncJob.objects.create(status=RUNNING, ...)` |
| `RetryStart`, `RetrySkip`, `RetryPick` | `retry_failed_jobs`: the list, a job whose newest error is not TRANSIENT, the job set RUNNING |
| `SalesLock`, `SalesLockRefused` | `_maybe_icg_sales_export_lock` and `_release_running_job_for_lock_contention` |
| `ExportReturns` | the export with its outcome |
| `RecordSuccess` | `_mark_job_succeeded` with `_resolve_superseded_jobs` |
| `RecordFailure` | `_record_sync_error` with `schedule_retry` |
| `Finish` | the lock is left |
| `Kill`, `Abort` | the process dies; an exception outside the `try` |
| `AdminRetry`, `AdminResolve` | `retry_jobs`, `mark_resolved` of `apps/operations/admin.py` |

The list of `retry_failed_jobs` is a set of snapshots taken at its start: the code
works on the loaded objects (and their prefetched errors) however long the loop
takes, and so does the model. `mem` and the row are distinct for the same reason.

Choices that make the model more permissive than the code, so that what holds here
holds there: the retry list is visited in any order (the code orders it by
`available_at`); a sales task may list any customer or order again (the cursor
is in `OrderExport`); an admin action on several rows is several steps; the
outcome of an export is free.

### `OrderExport`

An order has a payment state and a version of its contents; `Lines` gives the number
of its FacturasWeb rows in each version (lines, shipping, discounts). `shop` is
Prestashop, `mirror` the `PrestashopOrder` with its `export_status`, `icg` the
FacturasWeb rows with the versions they were written from, `pending` the orders with
a PENDING job. Per process: `task`, `pc`, the `list` of its loop, its `order`, the
snapshot it has fetched (`snap`) and what it has read from the mirror and
ICG (`read`).

| Action | Code |
|---|---|
| `NewOrder`, `ChangeState`, `EditOrder` | the shop (external) |
| `SalesStart`, `SalesEnter` | `export_new_orders_to_icg`: cursor and list, then the lock |
| `RecheckStart`, `Check` | `recheck_order_payment_states`: lock and candidates; the state read again |
| `RetryStart` | `retry_order_export_from_job`, from `retry_failed_jobs` |
| `EntityStart` | `retry_entity`, from the admin's `export_sales_to_icg` |
| `RefreshStart` | `refresh_prestashop_order`, from the admin; no lock |
| `NextOrder`, `Finish` | the loops |
| `Fetch`, `FetchFails`, `Upsert` | `refresh_order_from_prestashop`: requests, their failure, the transaction |
| `ReadHeader`, `ReadLines`, `EnsureCustomer` | `export_order_to_icg_from_mirror`: the query, its prefetches, the customer |
| `SelectRows`, `CommitRows` | `insert_order_rows`: `SELECT` per row, `INSERT`, commit |
| `ExportFails`, `MirrorFails` | a failure inside or outside the `try` |
| `SaveStatus` | `export_status = SUCCEEDED` |
| `RecordSuccess`, `RecordFailure`, `Advance` | the job's outcome; `advance_cursor` |
| `Stop` | the process dies or an exception ends the task |
| `SetCursor` | the admin's `set_sales_sync_cursor` |

The header of an order and its lines are read by separate queries, so a refresh
can commit between them; the commit to ICG and the save of the status are
separate, so a refresh or a crash can come between these too. A commit whose
answer is lost is `CommitRows` followed by `ExportFails`.

Simplifications: the cursor and the list are read in one step (both come before
the lock, and what the list is computed from only grows staler by the wait for it,
which is modelled); `retry_failed_jobs` is seen one job at a time, and its lock
contention is in `SyncJobs`; orders older than the recheck's 30 days
do not occur, nor do mirrored rows with `current_state` 0 from before that column
existed; orders are exported in the order of their ids, as Prestashop creates them;
staff do not delete mirrored orders; the overrides of lines, which also reset
the export status, are an edit like any other.

### `CatalogImport`

`view[s][i]` is the row of an item in a view of ICG, with its date and a version that
stands for everything imported from it; `local` is the version in the catalog, `cursor`
the `SyncCursor` with date and source key (a product code, 0 if empty). Per process: `task`,
`source`, `pc`, the rest of its `page`, its copy of the cursor (`pos`), the date of the last row
(`last`) and `has_more` (`more`). `tied` and `skipped` are history.

| Action | Code |
|---|---|
| `Change` | ICG (external): a row appears, changes, or gets a new date only |
| `ImportStart`, `Fetch`, `FetchFails` | `_import_source`: the cursor is read; a page; ICG does not answer |
| `Behind`, `FirstRows` | `WHERE`, `ORDER BY` and the limit of `fetch_products_after` and its siblings |
| `Persist`, `Skip`, `PersistFails` | one row: written, nothing to do or no product yet (`None`), hard failure |
| `Advance` | the cursor is overwritten, a full page is followed by another |
| `RefreshItem`, `RefreshProduct`, `RefreshPrices`, `RefreshEnds` | the refreshes by admin, task and commands; no cursor |
| `Stop` | the process dies; every row has its own transaction |

`FirstRows` returns every page the database may return, as rows that compare equal come in any
order. Dates are the days and times ICG writes: several changes may bear the same one.

### `CatalogExport`

One product with its combinations. `shop` is what Prestashop has; a shop combination
belongs to a variant, i.e. to the local combination with the same attribute values. Prices and
quantities are versions. `flagged[k]` are the rows of a kind with `sync_required`. Per process: the
`kind` it exports, whether as a `batch`, its `todo`, the combination it is `on`, the id it
has loaded or found (`target`), the price or quantity it has read (`value`) and its client's cached
listing (`listed`, `cache`). `unsent` and `raced` are history.

| Action | Code |
|---|---|
| `ImportPrice`, `ImportStock`, `ImportProduct` | what an imported row changes and flags |
| `ExportProduct` | `export_product`, as far as combinations need it |
| `BatchStart`, `Retry`, `Take` | `export_combinations`, `export_prices`, `export_stocks` with the rows they exclude and whose flags they clear; `retry_entity` |
| `Combination` | the beginning of `export_combination`: deleted, skipped or exported |
| `Prepare`, `Put`, `Post`, `Delete`, `Save` | its requests and its save |
| `Missing` | HTTP 404: id dropped, export begun again |
| `Price`, `Close` | `export_price` around `export_combination` |
| `Stock`, `Quantity`, `QuantityMissing` | `export_stock` and its 404 |
| `Fails`, `Answered`, `Stop` | a failing request, an answer that is lost, a process that dies |
| `ShopDeletes`, `ResetIds`, `Reconcile`, `DeleteDuplicates` | shop staff and the commands |

The commands are single steps: an operator starts them when nothing else runs, and what they do
while a task works on the same combination is noted in `raced`.

### `AttributeValues`

One local group, which is the size group or the color group of one product, with its values. `groups` and
`values` are the shop, `row` and `local` the two tables, `holder` the value locks. What a process
knows is one record (`me`), with the name cache of its client. `raced` and `mishaps` are history.

| Action | Code |
|---|---|
| `Ensure`, `FindGroup`, `Remap`, `SearchGroup`, `NewGroup`, `Adopt` | `ensure_attribute_group` |
| `ListOrphan`, `Compare`, `DeleteTwin`, `ForgetTwin`, `MoveTwin`, `Remaining`, `DropGroup`, `MergeDone`, `MergeFails` | `_merge_duplicate_remote_groups`, and the loop of the command `merge_duplicate_attribute_groups` |
| `FindValue`, `LockValue`, `LockTimesOut`, `CheckValue`, `FindRemote`, `FindTwins`, `FindInTwin`, `MoveFound`, `CreateValue`, `Store` | `ensure_attribute_value` with its lock |
| `MergeCommand`, `CleanCommand`, `CleanLocal`, `CleanValue`, `ImportCommand`, `ReconcileCommand`, `ReconcileList`, `ReconcileApply` | the four commands |
| `Fails`, `Stop`, `EndBatch` | failures, deaths, the end of a client |
| `NewProduct`, `Rename` | the product is created anew; shop staff rename a group |

## 4. The runs

| Run | Question | Result |
|---|---|---|
| `lock` | three time-limited workers: is the row a lock, does it implement the lease, is the row of a dead worker taken over? | holds |
| `jobs_catalog` | batches, single retries, retry list, admin, crashes on one catalog entity | holds |
| `jobs_sales` | the tasks of a sale, which share the sales lock (no admin) | holds |
| `jobs_live` | batch and retry list alone: has an entity ever two open jobs, is it ever exported twice at once, is every pending job picked up, every entity unblocked? | holds |
| `orders_cursor` | does the cursor ever pass an order without mirror (sales, refreshes, admin)? | no, holds |
| `orders_export` | sales, recheck, retry and single export at once: is a row inserted twice, an unpaid order written by schedule, an order SUCCEEDED without its lines, a paid one forgotten, does what an export has read stay current (`ExportsCurrent`)? | no, holds |
| `orders_unpaid` | do retries also respect the payment state? | fails |
| `import` | two views with pages of two rows: is a change ever passed over, is everything in front of a bad row imported, does an import end? | holds |
| `import_stalls` | does an import end when a page brings no progress? | fails |
| `export_shared` | two tasks on one combination: do the flags tell the truth, is a combination ever twice in the shop? | holds |
| `export_batches` | two combinations, one a placeholder and in the shop from before: do ids and cached listings stay true to their variants, does what an export has read and sent stay true (`FlagsInv`), is every flag cleared in the end? | holds |
| `attributes` | two processes: do mappings stay alive, is a value ever made twice or lost, does what a process has read stay so (`ValuesInv`)? | holds |

### What the failing runs show

* `orders_unpaid`: the sales task cannot fetch an unpaid order and leaves a job; the
  retry fetches it and exports it without looking at its payment state.
* `import_stalls`: `_import_source` means to notice a page without progress
  (`importer.py:412`), but the branch before asks only whether there is a source key, not whether
  it is a new one. A full page of rows of the cursor's own date that are all skipped (stock of
  other warehouses) is read again and again until the time limit kills the task, at every run.

### Exceptions the properties name

Some properties hold with exceptions, which are stated in them by history variables; the exceptions
are weaknesses of the code that TLC found when they were not there.

* `NothingIsLost` and `Imported` except rows of the same date as another change of the view
  (`tied`): such a date may lie on both sides of a cursor that names only a product code. `NothingIsLost`
  also excepts what was passed over with a reason (`skipped`): a price or stock row whose product comes
  later is not imported until it changes again, although the cursors are there "to avoid missed or
  duplicated updates" (`docs/architecture.md:142`). Both are stated for tasks that do not overlap on a view
  (`Overlap = FALSE`): nothing in the code prevents the overlap, and with it an older version may overwrite
  a newer one.
* `FlagsTell`, which holds at every moment, except `raced` and `unsent`. *Raced*: an export reads a row, calls the shop and
  clears the flag, also the flag of a change imported meanwhile (`services.py:1056`), and two tasks may
  have the same combination in hand. *Unsent*: what is exported while hidden, discontinued or inactive loses its
  flag (`services.py:884`, `tasks.py:382`), and when the product is shown again only the combination
  of a changed row is flagged; a combination that is created again after a 404 has quantity 0 and its stock
  is not flagged (`services.py:1077`); a process killed between the dropped id and the new combination
  leaves no flag.
* `MappedIsLive`, `NoTwins`, `NoValueLost` except `raced` (one process merges or runs a command
  while another is at work or has an old list: `_merge_duplicate_remote_groups` takes no lock) and two
  mishaps. *Row kept*: a value is deleted in the shop and the row that maps to it is not, because
  the answer was lost, the process died in between, or the command
  `merge_duplicate_attribute_groups` continues with the next value (line 168), before the
  update its comment announces; nothing checks the row again. *Moved unnoticed*: the answer to the PUT that moves a value is
  lost (`services.py:785`), and a second value is created.

### Further weaknesses

Counterexamples of the same models, found with other constants or stronger properties; the runs that
remain leave the case out, and say so in their constants.

* A management command has no time limit. One that runs past `LOCK_TIMEOUT_MINUTES` loses its row
  while it is inside; the next worker enters, and the command's release deletes the new worker's row,
  which lets a third one in (`SyncLock` with `Cli` not empty: `MutualExclusion`).
* Batch and `retry_entity` both see no open job, then both create one and export the same entity
  (`SyncJobs` with `"entity"`: `CatalogExportsExclusive`).
* The admin's `retry_jobs` sets a FAILED job PENDING, but `retry_failed_jobs` takes only jobs with an unresolved
  TRANSIENT error. A job that failed for a PERMANENT one, or whose errors were resolved, stays PENDING,
  and blocks its entity for the batches (`Admin = TRUE`: `Unblocks`).
* The admin's refresh commits a changed order, with status NEVER, while an export of the version before is under
  way; the export then saves SUCCEEDED, and nothing exports the change (`OrderExport` with
  `"refresh"`: `SucceededIsComplete`).
* An edited order is exported again; its line numbers are in ICG, so nothing is written for them, and the
  order is SUCCEEDED with its old rows.
* `retry_failed_jobs` sets a job of its list RUNNING although another success has closed it since, and
  exports once more (`Listed` says pending *or succeeded* for that reason).
* A sales task that waits for the lock with an old list sets the cursor back to its own orders; those behind it
  are worked on again, but nothing is lost (`CursorBehindMirror`) and no row is inserted again
  (`NoDoubleInsert`).
* A local attribute group that is mapped to a group that has vanished is never checked again
  (`services.py:548`).

### Bounds

* `SyncLock`: three workers (an owner, a taker and one that comes between), one key,
  `LockTimeout` 2 and `TaskLimit` 2: the boundary case of the assumption
  `TaskLimit <= LockTimeout`.
* `SyncJobs`: two processes, one entity, two jobs (three in `jobs_live`). A property
  here relates two processes to one entity; entities share only the locks, and a process that
  holds one of them for another entity is covered by `Refused`. `MaxJobs` bounds how often an
  entity can be tried afresh, and two jobs are needed for one to
  supersede the other. `MAX_SYNC_RETRIES` 2 and backoffs of 1 and 2
  steps make the first failure, the retry and the exhaustion distinct. `TaskLimit`
  1 and `StaleTimeout` 2 are the tightest values the assumption allows.
* `OrderExport`: two processes, because each property relates an order to at most
  two tasks; two orders, listed together, where the cursor and the break between
  them matter (`orders_cursor`), one where the property is about one
  order; versions of one and two lines, so that an edit adds a line and keeps
  one.
* `CatalogImport`: three items, two of which share a product code, so that a page of two rows can end
  between them; one of them can never be persisted (`import`) or is unwanted (`import_stalls`); two views,
  because rows of one wait for products of the other; three changes, enough for two rows of one date and one of a
  later. One process: tasks do not overlap on a view, and what two views share is read in one step per row.
* `CatalogExport`: two processes on one combination with two events, or one process on two combinations with one
  (`MaxEvents` counts imports, failures, lost answers, deaths and operators together): every exception
  of `FlagsTell` needs at most two. Five ids never run out.
* `AttributeValues`: two processes, one value, up to two groups from before, two events. With a second value the
  space exceeds the time of a run; values meet only in `Compare` and in a group that is deleted with them, and the
  proofs cover any number.
  `MaxGroups` and `MaxValues` stop merges that cross from making values for ever, which
  would be no deadlock: the run does not check deadlock for that reason.
* Clocks are relative and saturate one above their threshold, so that time itself
  needs no bound.
* Where a run uses symmetry, it is that of the processes (and of the values in `attributes`), which no
  property breaks. The liveness runs use none.

### Fairness

* `WF(Step(w))`: a worker that has begun a task goes on until it ends or is killed.
* `WF(HardLimit(w))`, `WF(Tick)`: the pool enforces `CELERY_TASK_TIME_LIMIT`, time
  passes.
* `SF` of `RetryStart` and of `RetryPick` for each job: beat dispatches
  `retry_failed_jobs` again and again, and the process that runs it is not killed
  every time before it has come to the same job. The strong form is needed because
  each time the lock is taken or the list is worked off the action is
  disabled for a while. Nothing is assumed of batches or of the admin.
* `OrderExport`: `WF(Step(w))` as above; `SF` of starting the recheck, of starting the
  sales task while the lock is free, and of entering the lock: both are dispatched
  again and again, and one of these times the lock is free and the sales task gets it.
  This cannot be weakened: when every sales task finds a recheck in the lock,
  it returns each time (`LockAcquisitionError`), and no new order is fetched.
  The property assumes besides that failures and deaths cease (`Calm`; a `Stop`
  that looks like the task's own last step is none): against a shop that never
  answers nothing can be promised.
* `CatalogImport`: `WF(Step(w))`, and `SF` of starting the import of each view, which other tasks disable
  for a while. `Imported` assumes `Calm`; `ImportEnds` assumes nothing more.
* `CatalogExport`: `WF(Step(w))`, `WF(ExportProduct)`, and `SF` of each batch, which is disabled
  while another of its kind runs. Failures and deaths end by themselves, as `MaxEvents` counts them.
* The schedule itself lies outside the repository (`docs/deploy-topology.md`: cron in
  the infrastructure), and the management commands that call the tasks
  (`export_new_prestashop_orders`, `retry_failed_sync_jobs`) run without the Celery time
  limit; the assumptions are about tasks that Celery dispatches.
* `SyncLock`: `SF` of selecting the stale row and of taking it over, for the same
  reason: other workers may hold the row lock in between.

## 5. The proofs

All for arbitrary constants; the assumptions are `LockAssumption`, `JobsAssumption`,
`OrderAssumption`, `ImportAssumption`, `ExportAssumption` and `AttributeAssumption`, which the runs evaluate on
their instances, and those named below.

### `SyncLock_proofs`

Assumed besides: `Cli = {}`. The invariant `IInv` adds to the types that whoever is
inside owns the row, whose age is at most the worker's own running time
(`Guarded`), and that the worker that took the row lock still sees the row
it decided on (`TakingOver`). From `TaskLimit <= LockTimeout` it follows that a
stale row protects nobody (`StaleIsAbandoned`), which gives `MutuallyExclusive`,
`TakeOversAreSafe`, `ReleasesAreOwn` and, step by step, `ImplementsLease`.

### `SyncJobs_proofs`

`LiveJobProtected` is not inductive: that no success closes a job somebody works on
depends on the job being younger than `STALE_RUNNING_JOB_TIMEOUT`, that on its
age being bounded by the running time of its task (`Owned`), and that no retry
picks it up depends on what `retry_failed_jobs` still has on its list being
pending or closed (`Listed`), which again depends on there being one such task at
a time (`LocksHeld`). `IInv` is their conjunction with `Distinct`, `Scope`,
`AtWork`, `HasLatest` and the types. `Inductive` proves it from one lemma per
part; rows are handled by `GoodRow` lemmas, one for each thing the code does to a
row. The theorems: `TypeCorrect`, `LiveJobsProtected`, `AttemptsAreBounded`,
`SucceededJobsAreClean`, `SalesExportsAreSerial`, `RetriesStartWhenDue`.

`AttemptsAreBounded` also shows that the branch of `retry_failed_jobs` for a job
with more than `MAX_SYNC_RETRIES` attempts (`tasks.py:899`) is never taken.

`OneJobForEach` and `CatalogExportsAreExclusive` assume besides that no `retry_entity` runs and the admin
edits no job (`Scheduled`): with either, TLC finds two open jobs of one entity. What makes the check
of the batch hold until it creates its job (`StillFree`) is that nobody else makes an entity of its type
open: the batches of a type are serial, and what `retry_failed_jobs` has listed is open already
(`ListedPending`), as no success can close it while it is the only open one (`OneOpen`).

### `OrderExport_proofs`

That the cursor stays behind the mirror is not inductive: `Advance` sets the cursor
to the order of the loop, so everything before that must be mirrored
(`Reached`), which depends on the list having left out only what was mirrored
when it was read, or is still on it (`ListComplete`), on failed orders keeping
their place (`NoGaps`, also for what is retried and what staff set the cursor to)
and on the loop going upwards (`AtWork`). Two observations keep the proof short: a
step leaves the other processes alone (`Others`), and what is mirrored stays
mirrored (`Grows`); so each part needs a look at one process only (`StartSound`,
`StepSound`). `CursorsStayBehind` follows, and from the lock (`AtWork`) and
`Fresh` also `NothingIsInsertedTwice`. Both hold for any set of tasks, with
refreshes, and with the admin's cursor.

`ExportsStayCurrent` assumes besides that nobody refreshes an order without the sales lock (`AllLocked`), which
the admin's refresh does. Then only the process with the lock writes the mirror or ICG, and what an export has read
of them is what they contain (`Current`): the version it sends is the mirrored one, and the rows it inserts are
all that are missing. `SucceededOrdersAreComplete` follows, and `ScheduledExportsArePaid` as an action property,
because sales task and recheck go on to export only what they have just mirrored as paid.

### `CatalogImport_proofs`

Assumed besides: `Overlap = FALSE`. `NothingIsLost` speaks of the cursor and
of rows that are already behind it, so the invariant says what a page is worth while ICG goes on changing:
everything in front of what is left of it has been handled, is still on it or has a later date
(`AllReading`), because `FirstRows` takes the first rows and `NextRow` visits them in order;
dates only grow (`DatesSound`), and rows that were never tied differ in theirs (`DatesDiffer`). A cursor is then
good wherever a page ended, whatever failed (`Ahead`). `ImportsAreSound` is the induction,
`NoChangeIsLost` what follows. The page limit, the number of rows and changes and the product codes are
arbitrary.

### `CatalogExport_proofs`

`MappedToOwn` speaks of the ids in the catalog only, but these are written from the id a task has loaded
before its requests (`target`), which may come from a listing its client has read long ago (`cache`), while
others delete, create, reset and reconcile. So `KnownOwn` says of every id that anybody keeps what it is worth
(`Own`): the shop gave it out, and if it still has a combination with that id, it is one of the variant. That
is preserved because no step changes the variant of an id, which the PUT needs `Own` for itself, and
because a new combination gets a new id (`IdsDiffer`). The lemmas say once what a step does to the shop
(`ShopKept`, or `Added` by `Post`) and what it does to the process that makes it (`Parks` or `Works`);
`SoundKeeps`, `PostKeeps` and `OutsideKeeps` conclude from there. `IdsStayTrue` is the induction,
`MappedIsOwn` what follows.

### `CatalogFlags_proofs`

That what is not flagged is in the shop as in the catalog is broken by nearly every step, as a task reads, sends
and clears the flag in three steps, while the catalog and the shop change. `FlagsInv` says where the
difference is meanwhile: at every place of an export, what it has read and sent of its combination is still
so (`Fresh`), or another process has had the combination in hand, or the import changed it, which makes it `raced`. A POST is
made only while the variant has no combination in the shop (`OneOfEach`, and hence `NothingIsCreatedTwice`): the
listing a client keeps lacks none of those it may still look up (`ListsAll`), since only an export of the
same combination could have added it, and that races. Races need exports of the same
side (`NotShared`): one of combinations or prices beside one of stocks is none, because neither writes what the other has
read. `PriceFollows` is the case of a combination that has been exported with an old price and whose price is still flagged.

The steps are grouped by what they leave alone: what changes only the process that makes them, what changes
the shop for one variant, what imports, and what is done from outside. A step `Respects` the others when every other
process keeps its part of the invariant; for the process itself there is one lemma per place. No
hypothesis is added: `FlagsStayTrue`, `FlagsAreTrue` and `NothingIsCreatedTwice` hold for all the tasks, failures,
deaths, deletions and commands of the module, for any number of each.

### `AttributeValues_proofs`

A process that ensures a value works with what it has read earlier: a list of groups that its client may have
cached in an earlier combination, the values of two groups, the id of the local group. `Aware` says of each place
that this is still so, and `Lacking` that the group still lacks the value that is about to be created in it or
moved into it. Both rest on two things. While a process merges, cleans or remaps, all others are between two
combinations and have no list, or the step sets `raced` (`Alone`, from `Racing => raced`). And otherwise
the shop only grows (`Grows`): groups stay, values stay with id and name, and what is new in a group is the value that
a process with its lock creates or moves there, so nobody else can have found that it is lacking
(`OthersLacking`). A group that a merge has deleted may still be on the merging client's own list when the answer was lost.
That is harmless, because it is never the first of its name there (`NotFirst`) and `FindGroup` takes the first.

`ValuesInv` is the conjunction of these with what makes ids unique and places sound (`InPlace`). The proof has two
layers: `TypeCorrect` with `Typed`, where each step is a `Turn` of one process, and on top of it `Sound`, where
`SoundTurn` reduces a step to what it does to its own process (one lemma for each action). `ValuesStayTrue` is the
induction; `MappedStaysLive` and `NoSecondValue` follow from it, and `NamesAreKept` step by step: a value is
deleted only when the kept group has one of its name. No hypothesis is added; the exceptions are those that the
properties name.

### Only model-checked

Liveness (`Recovers`, `PendingIsPickedUp`, `Unblocks`, `PaidIsExported`, `Imported`, `ImportEnds`,
`Exported`): the prover does not treat fairness and ENABLED.

## 6. Not modelled

* The components marked so in `PROJECT.json`: error classification (every type is a possible outcome in
  `SyncJobs`), the database explorer, settings, migrations.
* Customers: their export and mirror follow the pattern of orders; `EnsureCustomer` has their outcome only.
* Discounts, categories, manufacturers, tax rules and images: single upserts, or a delete and a create, that are
  flagged again when they fail; no other step relies on their ids.
* The texts of names, barcodes and references, amounts, and what else is only copied.
* In `AttributeValues`: `_try_release_conflicting_group`, which moves a group from one product to another;
  texture images; size groups of single products.
* `repair_single_axis_reference`, `delete_orphan_prestashop_combinations` and the reports, which read or are run
  by hand on a few rows.
* Editing a row's fields freely in the admin's change form: it can write anything.
* `SyncError.is_retryable`: no code path reads it to decide.
* Logging, log rows and task results.
