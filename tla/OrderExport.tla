---------------------------- MODULE OrderExport ----------------------------
(***************************************************************************)
(* The way of an order from Prestashop to the FacturasWeb table of ICG:    *)
(* export_new_orders_to_icg and its cursor, the order's mirror in          *)
(* apps/sales, the retries from the mirror, the refresh of the admin and   *)
(* the command recheck_order_payment_states.                               *)
(*                                                                         *)
(* An order's data is a state, of which only the payment counts, and a     *)
(* version of its contents.  Orders are numbered as Prestashop does.       *)
(* Those that were there when the cursor was first set are not among them. *)
(* Jobs are modelled in SyncJobs; here an order has a pending job or not.  *)
(* Every export to ICG runs under one key of sync_lock (LeaseMutex).       *)
(***************************************************************************)
EXTENDS Naturals, FiniteSets

CONSTANTS
    Workers,        \* the processes that run tasks
    Tasks,          \* the tasks that are dispatched in a run
    Admin,          \* whether staff set the cursor
    MaxOrder,       \* bound: number of orders
    MaxVersion,     \* bound: versions of an order
    Lines,          \* the number of lines in each version
    PageLimit,      \* limit: orders that one run lists
    Free, Orphan    \* see LeaseMutex

Orders == 1..MaxOrder
Versions == 1..MaxVersion

ASSUME OrderAssumption ==
    /\ Tasks \subseteq {"sales", "recheck", "retry", "entity", "refresh"}
    /\ Admin \in BOOLEAN
    /\ MaxOrder \in Nat
    /\ MaxVersion \in Nat \ {0}
    /\ Lines \in [Versions -> Nat \ {0}]
    /\ PageLimit \in Nat \ {0}
    /\ Free \notin Workers /\ Orphan \notin Workers /\ Free # Orphan

VARIABLES
    shop,       \* the orders in Prestashop
    mirror,     \* their mirror in the database, with export_status
    icg,        \* their rows in FacturasWeb
    cursor,     \* last_source_key of the cursor ORDERS
    pending,    \* the orders with a PENDING job
    holder,     \* who holds the sales lock
    task,       \* the task each process runs
    pc,         \* where in it
    list,       \* the orders its loop has still to visit
    order,      \* the order it is processing
    snap,       \* what it has fetched of that from Prestashop
    read        \* what it has read of that from the mirror and from ICG

vars == <<shop, mirror, icg, cursor, pending, holder, task, pc, list, order, snap, read>>
outside == <<shop, mirror, icg, cursor, pending>>
mine == <<list, order, snap, read>>

Key == "sales"
Lease == INSTANCE LeaseMutex WITH Keys <- {Key}
-----------------------------------------------------------------------------
State == {"none", "unpaid", "paid"}
ExportStatus == {"never", "succeeded", "failed"}
Place == {"idle", "lock", "next", "refresh", "fetched", "check", "header", "lines", "customer",
          "select", "insert", "inserted", "ok", "failed", "advance"}

\* What get_order_snapshot returns, without its customer and amounts.
Document == [state : State, version : Versions]
Mirrored == [state : State, version : Versions, status : ExportStatus]
\* map_snapshot_to_facturas_web numbers the rows from 1; each holds what it was
\* given of the order (head) and of its lines (body).
FacturasWebRow == [line : Nat, head : Versions, body : Versions]
Reading == [head : Versions, body : Versions, missing : SUBSET Nat]

NoDocument == [state |-> "none", version |-> 1]
NotMirrored == [state |-> "none", version |-> 1, status |-> "never"]
NoReading == [head |-> 1, body |-> 1, missing |-> {}]

InMirror(o) == mirror[o].state # "none"

TypeOK ==
    /\ shop \in [Orders -> Document]
    /\ mirror \in [Orders -> Mirrored]
    /\ icg \in [Orders -> SUBSET FacturasWebRow]
    /\ cursor \in 0..MaxOrder
    /\ pending \subseteq Orders
    /\ holder \in [{Key} -> Workers \cup {Free, Orphan}]
    /\ task \in [Workers -> {"none"} \cup Tasks]
    /\ pc \in [Workers -> Place]
    /\ list \in [Workers -> SUBSET Orders]
    /\ order \in [Workers -> 0..MaxOrder]
    /\ snap \in [Workers -> Document]
    /\ read \in [Workers -> Reading]

Init ==
    /\ shop = [o \in Orders |-> NoDocument]
    /\ mirror = [o \in Orders |-> NotMirrored]
    /\ icg = [o \in Orders |-> {}]
    /\ cursor = 0
    /\ pending = {}
    /\ Lease!Init
    /\ task = [w \in Workers |-> "none"]
    /\ pc = [w \in Workers |-> "idle"]
    /\ list = [w \in Workers |-> {}]
    /\ order = [w \in Workers |-> 0]
    /\ snap = [w \in Workers |-> NoDocument]
    /\ read = [w \in Workers |-> NoReading]
-----------------------------------------------------------------------------
(* Prestashop *)

\* A customer orders, and may have paid at once.
NewOrder ==
    /\ \E o \in Orders : \E state \in {"unpaid", "paid"} :
        /\ shop[o].state = "none"
        /\ \A p \in 1..(o - 1) : shop[p].state # "none"
        /\ shop' = [shop EXCEPT ![o].state = state]
    /\ UNCHANGED <<mirror, icg, cursor, pending, holder, task, pc, mine>>

\* The order enters or leaves the accepted payment states.
ChangeState ==
    /\ \E o \in Orders :
        /\ shop[o].state # "none"
        /\ shop' = [shop EXCEPT ![o].state = IF @ = "paid" THEN "unpaid" ELSE "paid"]
    /\ UNCHANGED <<mirror, icg, cursor, pending, holder, task, pc, mine>>

\* Staff edit the order in the shop.
EditOrder ==
    /\ \E o \in Orders :
        /\ shop[o].state # "none"
        /\ shop[o].version + 1 \in Versions
        /\ shop' = [shop EXCEPT ![o].version = @ + 1]
    /\ UNCHANGED <<mirror, icg, cursor, pending, holder, task, pc, mine>>
-----------------------------------------------------------------------------
Go(w, place) == pc' = [pc EXCEPT ![w] = place]

\* What a process that runs no task remembers.
Forget(w) ==
    /\ task' = [task EXCEPT ![w] = "none"]
    /\ Go(w, "idle")
    /\ list' = [list EXCEPT ![w] = {}]
    /\ order' = [order EXCEPT ![w] = 0]
    /\ snap' = [snap EXCEPT ![w] = NoDocument]
    /\ read' = [read EXCEPT ![w] = NoReading]

Begin(w, t) ==
    /\ t \in Tasks
    /\ pc[w] = "idle"
    /\ task' = [task EXCEPT ![w] = t]

\* list_orders_created_after: the first orders behind the given cursor.
NewOrders(after) ==
    LET new == {o \in Orders : o > after /\ shop[o].state # "none"}
    IN  {o \in new : Cardinality({p \in new : p < o}) < PageLimit}

\* export_new_orders_to_icg reads the cursor and lists the orders behind it,
\* before it asks for the lock.
SalesStart(w) ==
    /\ Begin(w, "sales")
    /\ NewOrders(cursor) # {}
    /\ list' = [list EXCEPT ![w] = NewOrders(cursor)]
    /\ Go(w, "lock")
    /\ UNCHANGED <<outside, holder, order, snap, read>>

\* It enters the lock, or returns because it is held.
SalesEnter(w) ==
    /\ pc[w] = "lock"
    /\ \/ /\ Lease!Acquire(Key, w)
          /\ Go(w, "next")
          /\ UNCHANGED <<task, mine>>
       \/ /\ Lease!Refused(Key)
          /\ Forget(w)
          /\ UNCHANGED holder
    /\ UNCHANGED outside

\* Mutant: the recheck looks for failed exports only.
RecheckStart_paidOnly(w) ==
    /\ Begin(w, "recheck")
    /\ Lease!Acquire(Key, w)
    /\ list' = [list EXCEPT ![w] =
            {o \in Orders : mirror[o].state = "paid" /\ mirror[o].status # "succeeded"}]
    /\ Go(w, "next")
    /\ UNCHANGED <<outside, order, snap, read>>

\* recheck_order_payment_states enters the lock and queries its candidates:
\* in either branch of its filter, mirrored orders that are not SUCCEEDED.
RecheckStart(w) ==
    /\ Begin(w, "recheck")
    /\ Lease!Acquire(Key, w)
    /\ list' = [list EXCEPT ![w] = {o \in Orders : InMirror(o) /\ mirror[o].status # "succeeded"}]
    /\ Go(w, "next")
    /\ UNCHANGED <<outside, order, snap, read>>

\* retry_failed_jobs comes to a job of an order, perhaps not its only one:
\* retry_order_export_from_job refreshes only an order that has no mirror.
RetryStart(w) ==
    /\ Begin(w, "retry")
    /\ Lease!Acquire(Key, w)
    /\ \E o \in pending :
        /\ order' = [order EXCEPT ![w] = o]
        /\ pending' \in {pending, pending \ {o}}
        /\ Go(w, IF InMirror(o) THEN "header" ELSE "refresh")
    /\ UNCHANGED <<shop, mirror, icg, cursor, list, snap, read>>

\* Mutant: retry_entity takes no lock.
EntityStart_unlocked(w) ==
    /\ Begin(w, "entity")
    /\ \E o \in Orders \ pending :
        /\ InMirror(o)
        /\ order' = [order EXCEPT ![w] = o]
    /\ Go(w, "header")
    /\ UNCHANGED <<outside, holder, list, snap, read>>

\* retry_entity, dispatched from the admin for a mirrored order, when it has
\* the lock.
EntityStart(w) ==
    /\ Begin(w, "entity")
    /\ Lease!Acquire(Key, w)
    /\ \E o \in Orders \ pending :
        /\ InMirror(o)
        /\ order' = [order EXCEPT ![w] = o]
    /\ Go(w, "header")
    /\ UNCHANGED <<outside, list, snap, read>>

\* refresh_prestashop_order, dispatched from the admin: no lock.
RefreshStart(w) ==
    /\ Begin(w, "refresh")
    /\ \E o \in Orders :
        /\ InMirror(o)
        /\ order' = [order EXCEPT ![w] = o]
    /\ Go(w, "refresh")
    /\ UNCHANGED <<outside, holder, list, snap, read>>

\* The next order of the loop.
NextOrder(w) ==
    /\ pc[w] = "next"
    /\ \E o \in list[w] :
        /\ \A p \in list[w] : o <= p
        /\ order' = [order EXCEPT ![w] = o]
        /\ list' = [list EXCEPT ![w] = @ \ {o}]
    /\ Go(w, "refresh")
    /\ UNCHANGED <<outside, holder, task, snap, read>>

\* The loop is over.
Finish(w) ==
    /\ pc[w] = "next"
    /\ list[w] = {}
    /\ Lease!Release(Key, w)
    /\ Forget(w)
    /\ UNCHANGED outside

\* A task that handles one order ends with it.
End(w) ==
    /\ IF task[w] = "refresh" THEN UNCHANGED holder ELSE Lease!Release(Key, w)
    /\ Forget(w)

\* Where a task goes on after it has dealt with an order.
Leave(w) ==
    \/ /\ task[w] = "sales"
       /\ Go(w, "advance")
       /\ UNCHANGED <<holder, task, mine>>
    \/ /\ task[w] = "recheck"
       /\ Go(w, "next")
       /\ UNCHANGED <<holder, task, mine>>
    \/ task[w] \in {"retry", "entity", "refresh"} /\ End(w)
-----------------------------------------------------------------------------
\* refresh_order_from_prestashop: first the snapshot ...
Fetch(w) ==
    /\ pc[w] = "refresh"
    /\ snap' = [snap EXCEPT ![w] = shop[order[w]]]
    /\ Go(w, "fetched")
    /\ UNCHANGED <<outside, holder, task, list, order, read>>

\* Mutant: the task goes on with the next order.
FetchFails_goesOn(w) ==
    /\ pc[w] = "refresh"
    /\ pending' \in {pending, pending \cup {order[w]}}
    /\ Leave(w)
    /\ UNCHANGED <<shop, mirror, icg, cursor>>

\* ... which may fail.  The sales task records it in a job, and stops when the
\* order has no mirror yet.
FetchFails(w) ==
    /\ pc[w] = "refresh"
    /\ IF task[w] \in {"sales", "retry"}
       THEN pending' \in {pending, pending \cup {order[w]}}
       ELSE UNCHANGED pending
    /\ IF task[w] = "sales" /\ ~InMirror(order[w]) THEN End(w) ELSE Leave(w)
    /\ UNCHANGED <<shop, mirror, icg, cursor>>

\* Mutant: a changed order keeps its export status.
Updated_keepsStatus(old, new) ==
    [state |-> new.state, version |-> new.version, status |-> old.status]

\* upsert_order_snapshot: an order that has changed is to be exported again.
Updated(old, new) ==
    [state |-> new.state, version |-> new.version,
     status |-> IF <<old.state, old.version>> = <<new.state, new.version>>
                THEN old.status ELSE "never"]

\* Mutant: nobody looks at the payment state.
Upsert_anyState(w) ==
    /\ pc[w] = "fetched"
    /\ mirror' = [mirror EXCEPT ![order[w]] = Updated(@, snap[w])]
    /\ IF task[w] = "refresh" THEN Leave(w) ELSE Go(w, "header") /\ UNCHANGED <<holder, task, mine>>
    /\ UNCHANGED <<shop, icg, cursor, pending>>

\* The snapshot is written in one transaction.  The sales task exports the
\* order if it is paid according to the snapshot, the others look or do not look.
Upsert(w) ==
    /\ pc[w] = "fetched"
    /\ mirror' = [mirror EXCEPT ![order[w]] = Updated(@, snap[w])]
    /\ \/ /\ task[w] = "refresh" \/ (task[w] = "sales" /\ snap[w].state # "paid")
          /\ Leave(w)
       \/ /\ task[w] = "retry" \/ (task[w] = "sales" /\ snap[w].state = "paid")
          /\ Go(w, "header")
          /\ UNCHANGED <<holder, task, mine>>
       \/ /\ task[w] = "recheck"
          /\ Go(w, "check")
          /\ UNCHANGED <<holder, task, mine>>
    /\ UNCHANGED <<shop, icg, cursor, pending>>

\* The recheck reads the order again.
Check(w) ==
    /\ pc[w] = "check"
    /\ Go(w, IF mirror[order[w]].state = "paid" THEN "header" ELSE "next")
    /\ UNCHANGED <<outside, holder, task, mine>>
-----------------------------------------------------------------------------
\* export_order_to_icg_from_mirror: the query for the order ...
ReadHeader(w) ==
    /\ pc[w] = "header"
    /\ read' = [read EXCEPT ![w].head = mirror[order[w]].version]
    /\ Go(w, "lines")
    /\ UNCHANGED <<outside, holder, task, list, order, snap>>

\* ... and those that prefetch its lines and discounts.
ReadLines(w) ==
    /\ pc[w] = "lines"
    /\ read' = [read EXCEPT ![w].body = mirror[order[w]].version]
    /\ Go(w, "customer")
    /\ UNCHANGED <<outside, holder, task, list, order, snap>>

\* _ensure_customer_in_icg
EnsureCustomer(w) ==
    /\ pc[w] = "customer"
    /\ Go(w, "select")
    /\ UNCHANGED <<outside, holder, task, mine>>

\* Outside the try statement a failure leaves the export status as it is, also
\* when the rows are in ICG already.
MirrorFails(w) ==
    /\ pc[w] \in {"header", "lines", "customer", "inserted"}
    /\ Go(w, "failed")
    /\ UNCHANGED <<outside, holder, task, mine>>

LineNumbers(rows) == {r.line : r \in rows}

\* insert_order_rows looks for each row's number ...
SelectRows(w) ==
    /\ pc[w] = "select"
    /\ read' = [read EXCEPT ![w].missing =
            (1..Lines[read[w].body]) \ LineNumbers(icg[order[w]])]
    /\ Go(w, "insert")
    /\ UNCHANGED <<outside, holder, task, list, order, snap>>

\* ... and commits those that were missing.
CommitRows(w) ==
    /\ pc[w] = "insert"
    /\ icg' = [icg EXCEPT ![order[w]] = @ \cup
            {[line |-> n, head |-> read[w].head, body |-> read[w].body] : n \in read[w].missing}]
    /\ Go(w, "inserted")
    /\ UNCHANGED <<shop, mirror, cursor, pending, holder, task, mine>>

\* The mapping or the insertion fails, or the answer to its commit is lost.
ExportFails(w) ==
    /\ pc[w] \in {"select", "insert", "inserted"}
    /\ mirror' = [mirror EXCEPT ![order[w]].status = "failed"]
    /\ Go(w, "failed")
    /\ UNCHANGED <<shop, icg, cursor, pending, holder, task, mine>>

\* order.save(update_fields=["export_status", ...])
SaveStatus(w) ==
    /\ pc[w] = "inserted"
    /\ mirror' = [mirror EXCEPT ![order[w]].status = "succeeded"]
    /\ Go(w, "ok")
    /\ UNCHANGED <<shop, icg, cursor, pending, holder, task, mine>>

\* The job is recorded as succeeded and closes the others; the recheck has none.
RecordSuccess(w) ==
    /\ pc[w] = "ok"
    /\ pending' = IF task[w] = "recheck" THEN pending ELSE pending \ {order[w]}
    /\ Leave(w)
    /\ UNCHANGED <<shop, mirror, icg, cursor>>

\* The job is recorded as failed: PENDING again, or given up.
RecordFailure(w) ==
    /\ pc[w] = "failed"
    /\ IF task[w] = "recheck"
       THEN UNCHANGED pending
       ELSE pending' \in {pending, pending \cup {order[w]}}
    /\ Leave(w)
    /\ UNCHANGED <<shop, mirror, icg, cursor>>

\* advance_cursor sets the cursor to the order, wherever it stands.
Advance(w) ==
    /\ pc[w] = "advance"
    /\ cursor' = order[w]
    /\ Go(w, "next")
    /\ UNCHANGED <<shop, mirror, icg, pending, holder, task, mine>>
-----------------------------------------------------------------------------
\* The process dies, or an exception ends the task.
Stop(w) ==
    /\ pc[w] # "idle"
    /\ Lease!Die(w) \/ Lease!Unwind(w)
    /\ Forget(w)
    /\ UNCHANGED outside

\* Admin: set_sales_sync_cursor to a mirrored order.
SetCursor ==
    /\ Admin
    /\ \E o \in Orders : InMirror(o) /\ cursor' = o
    /\ UNCHANGED <<shop, mirror, icg, pending, holder, task, pc, mine>>

Start(w) ==
    \/ SalesStart(w)
    \/ RecheckStart(w)
    \/ RetryStart(w)
    \/ EntityStart(w)
    \/ RefreshStart(w)

Step(w) ==
    \/ SalesEnter(w)
    \/ NextOrder(w)
    \/ Finish(w)
    \/ Fetch(w)
    \/ FetchFails(w)
    \/ Upsert(w)
    \/ Check(w)
    \/ ReadHeader(w)
    \/ ReadLines(w)
    \/ EnsureCustomer(w)
    \/ MirrorFails(w)
    \/ SelectRows(w)
    \/ CommitRows(w)
    \/ ExportFails(w)
    \/ SaveStatus(w)
    \/ RecordSuccess(w)
    \/ RecordFailure(w)
    \/ Advance(w)

Shop == NewOrder \/ ChangeState \/ EditOrder

Next ==
    \/ \E w \in Workers : Start(w) \/ Step(w) \/ Stop(w)
    \/ SetCursor
    \/ Shop

Spec == Init /\ [][Next]_vars

\* Assumed for liveness only: whoever works goes on; sales and recheck are
\* started again and again, also when the lock is free, and get it then.
Fairness == \A w \in Workers :
    /\ WF_vars(Step(w))
    /\ SF_vars(SalesStart(w) /\ holder[Key] \in {Free, Orphan})
    /\ SF_vars(RecheckStart(w))
    /\ SF_vars(SalesEnter(w) /\ pc'[w] = "next")

LiveSpec == Spec /\ Fairness
-----------------------------------------------------------------------------
Reached(o) == \A p \in 1..(o - 1) : InMirror(p)

Locked == {"next", "check", "header", "lines", "customer", "select", "insert", "inserted",
           "ok", "failed", "advance"}
WithOrder == Place \ {"idle", "lock", "next"}

\* Everyone who works on an order for ICG holds the lock; the sales and the
\* recheck task visit their orders one after the other.
AtWork(w) ==
    /\ pc[w] = "idle" <=> task[w] = "none"
    /\ task[w] \notin {"sales", "recheck"} => list[w] = {}
    /\ pc[w] \in Locked \/ (pc[w] \in {"refresh", "fetched"} /\ task[w] # "refresh")
            => holder[Key] = w
    /\ pc[w] \in Locked => task[w] # "refresh"
    /\ pc[w] \in {"lock", "advance"} => task[w] = "sales"
    /\ pc[w] = "next" => task[w] \in {"sales", "recheck"}
    /\ pc[w] = "check" => task[w] = "recheck"
    /\ pc[w] \in WithOrder =>
        /\ order[w] \in Orders
        /\ Reached(order[w])
        /\ shop[order[w]].state # "none"
    /\ pc[w] \in WithOrder /\ task[w] = "sales" => \A p \in list[w] : order[w] < p
    /\ pc[w] = "fetched" => snap[w].state # "none"
    /\ pc[w] \in WithOrder \ {"refresh", "fetched"} => InMirror(order[w])

\* What a list leaves out before one of its orders is in the mirror.
ListComplete(w) == \A o \in list[w] :
    /\ shop[o].state # "none"
    /\ task[w] = "recheck" => InMirror(o)
    /\ \A p \in 1..(o - 1) :
            p \in list[w] \/ InMirror(p) \/ (pc[w] \in WithOrder /\ p = order[w])

\* What leaves a gap is neither listed nor mirrored nor tried again.
NoGaps ==
    /\ \A o \in Orders : shop[o].state # "none" =>
            \A p \in 1..(o - 1) : shop[p].state # "none"
    /\ \A o \in Orders : InMirror(o) => Reached(o) /\ shop[o].state # "none"
    /\ \A o \in pending : Reached(o) /\ shop[o].state # "none"

\* While a process is between its SELECT and its commit, no row changes.
Fresh(w) == pc[w] = "insert" =>
    read[w].missing \cap LineNumbers(icg[order[w]]) = {}

\* The cursor passes an order only when its mirror exists: what has not been
\* exported can still be found by the recheck and the admin, whatever fails,
\* whoever dies and wherever staff set the cursor (the break in
\* export_new_orders_to_icg).
CursorBehindMirror == cursor \in Orders => InMirror(cursor) /\ Reached(cursor)

IInv ==
    /\ TypeOK
    /\ NoGaps
    /\ CursorBehindMirror
    /\ \A w \in Workers : AtWork(w) /\ ListComplete(w) /\ Fresh(w)

\* insert_order_rows looks for a row and inserts it later, and FacturasWeb has
\* no key: even so no line number of an order is ever inserted twice, by two
\* tasks at once or after a commit whose answer was lost.
NoDoubleInsert ==
    [][\A w \in Workers : CommitRows(w) =>
            read[w].missing \cap LineNumbers(icg[order[w]]) = {}]_vars

\* The tasks sales and recheck write an order to ICG only while its mirror says
\* that it is paid (PRESTASHOP_ORDER_STATE_PAYMENT_ACCEPTED), unless the admin
\* refreshes it meanwhile.
ScheduledOnlyPaid ==
    [][\A w \in Workers : CommitRows(w) /\ task[w] \in {"sales", "recheck"} =>
            mirror[order[w]].state = "paid"]_vars

\* Only staff export an order that is not paid: neither do the tasks for new
\* orders nor the retries of their failures.
UnpaidOnlyByStaff ==
    [][\A w \in Workers : CommitRows(w) /\ task[w] # "entity" =>
            mirror[order[w]].state = "paid"]_vars

\* An order that is marked SUCCEEDED, which no task exports again by itself, has
\* all its lines in ICG.
SucceededIsComplete ==
    \A o \in Orders : mirror[o].status = "succeeded" =>
        1..Lines[mirror[o].version] \subseteq LineNumbers(icg[o])

\* The inductive invariant behind these two, when nobody refreshes an order
\* without the lock: what an export has read of the mirror is still there, what
\* it misses is all that ICG lacks, and the scheduled tasks go on with paid
\* orders only.
Current(w) ==
    /\ pc[w] \in {"customer", "select", "insert", "inserted"} =>
            read[w].body = mirror[order[w]].version
    /\ pc[w] = "insert" =>
            1..Lines[read[w].body] \subseteq read[w].missing \cup LineNumbers(icg[order[w]])
    /\ pc[w] = "inserted" => 1..Lines[read[w].body] \subseteq LineNumbers(icg[order[w]])
    /\ pc[w] \in {"header", "lines", "customer", "select", "insert"}
            /\ task[w] \in {"sales", "recheck"} => mirror[order[w]].state = "paid"

ExportsCurrent == SucceededIsComplete /\ \A w \in Workers : Current(w)

\* From some time on nothing fails and no task stops before its end.
Calm == <>[][\A w \in Workers :
    ~FetchFails(w) /\ ~MirrorFails(w) /\ ~ExportFails(w) /\ (Stop(w) => Step(w))]_vars

\* An order that is paid is in ICG in the end, also when it was paid after the
\* cursor had passed it or when its export failed before
\* (recheck_order_payment_states, "may have transitioned").
PaidIsExported ==
    Calm => \A o \in Orders :
        (<>[](shop[o].state = "paid")) => <>(icg[o] # {})
=============================================================================
