--------------------------- MODULE CatalogImport ---------------------------
(***************************************************************************)
(* The import from the views of ICG: apps/icg/importer.py, which pages     *)
(* through a view behind a cursor and upserts its rows, the queries of     *)
(* apps/icg/services.py, and the refreshes that upsert single rows without *)
(* a cursor.                                                               *)
(*                                                                         *)
(* A row of a view belongs to an item, normally a combination.  It has a   *)
(* date and a version, which stands for all that is imported; a product    *)
(* row brings the manufacturer, the product and the combination.  Several  *)
(* items may share the code of a product.                                  *)
(***************************************************************************)
EXTENDS Naturals, FiniteSets

CONSTANTS
    Workers,        \* the processes that run tasks
    Sources,        \* the views that are imported
    Items,          \* what the views have rows for
    Unwanted,       \* those of other warehouses or without a reference
    Code,           \* the product code of each item
    Poison,         \* items whose rows cannot be persisted
    PageLimit,      \* rows that one query hands over
    Overlap,        \* whether two tasks may work on one source at once
    MaxChanges      \* bound: changes in ICG

ASSUME ImportAssumption ==
    /\ "products" \in Sources /\ Sources \subseteq {"products", "prices", "stock"}
    /\ Unwanted \subseteq Items /\ Poison \subseteq Items
    /\ Code \in [Items -> Nat \ {0}]
    /\ PageLimit \in Nat \ {0}
    /\ Overlap \in BOOLEAN
    /\ MaxChanges \in Nat
    /\ IsFiniteSet(Items)

VARIABLES
    view,       \* the rows of the views in ICG
    now,        \* the date in ICG
    changes,    \* how often a view has changed; numbers the versions
    tied,       \* history: the dates that more than one change of a view bears
    local,      \* the version of each row in the catalog, 0 if none
    skipped,    \* history: versions that an import has passed over
    cursor,     \* last_modified_at and last_source_key of each SyncCursor
    task,       \* the task each process runs
    source,     \* the view it reads
    pc,         \* where it is
    page,       \* the rows it has fetched and not yet persisted
    pos,        \* cursor_at and last_source_key, its own copy of the cursor
    last,       \* last_row_date
    more        \* has_more

vars == <<view, now, changes, tied, local, skipped, cursor, task, source, pc, page, pos, last, more>>
icg == <<view, now, changes, tied>>
catalog == <<local, skipped>>
mine == <<task, source, pc, page, pos, last, more>>
-----------------------------------------------------------------------------
NoSource == "none"
Version == 0..MaxChanges
Date == 0..(MaxChanges + 1)
Keys == {0} \cup {Code[i] : i \in Items}    \* 0 is the empty source key
Position == [at : Date, key : Keys]
ViewRow == [at : Date, version : Version]
Fetched == [item : Items, at : Date, version : Version]
AtStart == [at |-> 0, key |-> 0]

TypeOK ==
    /\ view \in [Sources -> [Items -> ViewRow]]
    /\ now \in 1..(MaxChanges + 1)
    /\ changes \in Version
    /\ tied \in [Sources -> SUBSET Date]
    /\ local \in [Sources -> [Items -> Version]]
    /\ skipped \in [Sources -> SUBSET (Items \X Version)]
    /\ cursor \in [Sources -> Position]
    /\ task \in [Workers -> {"none", "import", "refresh"}]
    /\ source \in [Workers -> Sources \cup {NoSource}]
    /\ pc \in [Workers -> {"idle", "fetch", "rows"}]
    /\ page \in [Workers -> SUBSET Fetched]
    /\ pos \in [Workers -> Position]
    /\ last \in [Workers -> Date]
    /\ more \in [Workers -> BOOLEAN]

Init ==
    /\ view = [s \in Sources |-> [i \in Items |-> [at |-> 0, version |-> 0]]]
    /\ now = 1
    /\ changes = 0
    /\ tied = [s \in Sources |-> {}]
    /\ local = [s \in Sources |-> [i \in Items |-> 0]]
    /\ skipped = [s \in Sources |-> {}]
    /\ cursor = [s \in Sources |-> AtStart]
    /\ task = [w \in Workers |-> "none"]
    /\ source = [w \in Workers |-> NoSource]
    /\ pc = [w \in Workers |-> "idle"]
    /\ page = [w \in Workers |-> {}]
    /\ pos = [w \in Workers |-> AtStart]
    /\ last = [w \in Workers |-> 0]
    /\ more = [w \in Workers |-> FALSE]
-----------------------------------------------------------------------------
(* ICG *)

\* A row appears or changes, or only its date does.
Change(s, i) ==
    /\ changes < MaxChanges
    /\ changes' = changes + 1
    /\ now' \in {now, now + 1}
    /\ \E version \in {changes + 1, view[s][i].version} \ {0} :
        view' = [view EXCEPT ![s][i] = [at |-> now', version |-> version]]
    /\ tied' = IF \E j \in Items : view[s][j].at = now'
               THEN [tied EXCEPT ![s] = @ \cup {now'}] ELSE tied
    /\ UNCHANGED <<catalog, cursor, mine>>

\* The rows of a view.
InView(s) ==
    {[item |-> i, at |-> view[s][i].at, version |-> view[s][i].version] :
        i \in {j \in Items : view[s][j].at # 0}}

\* ORDER BY Fecha_Modificado ASC, CAST(CODARTICULO AS INT) ASC
Before(q, r) == q.at < r.at \/ (q.at = r.at /\ Code[q.item] < Code[r.item])

\* The WHERE clause: without a cursor everything, without a source key the
\* later dates only.
Behind(p, r) == r.at > p.at \/ (p.key # 0 /\ r.at = p.at /\ Code[r.item] > p.key)

\* Mutant: the query has no ORDER BY.
FirstRows_unordered(rows) == {p \in SUBSET rows :
    Cardinality(p) = IF Cardinality(rows) < PageLimit THEN Cardinality(rows) ELSE PageLimit}

\* What fetchmany(limit) may return: rows that compare equal come in any order.
FirstRows(rows) == {p \in FirstRows_unordered(rows) : \A r \in p, q \in rows \ p : ~Before(q, r)}
-----------------------------------------------------------------------------
Forget(w) ==
    /\ task' = [task EXCEPT ![w] = "none"]
    /\ source' = [source EXCEPT ![w] = NoSource]
    /\ pc' = [pc EXCEPT ![w] = "idle"]
    /\ page' = [page EXCEPT ![w] = {}]
    /\ pos' = [pos EXCEPT ![w] = AtStart]
    /\ last' = [last EXCEPT ![w] = 0]
    /\ more' = [more EXCEPT ![w] = FALSE]

Begin(w, t, s, place) ==
    /\ pc[w] = "idle"
    /\ Overlap \/ \A v \in Workers : source[v] # s
    /\ task' = [task EXCEPT ![w] = t]
    /\ source' = [source EXCEPT ![w] = s]
    /\ pc' = [pc EXCEPT ![w] = place]

\* import_products, import_prices, import_stock: the cursor is read.
ImportStart(w, s) ==
    /\ Begin(w, "import", s, "fetch")
    /\ pos' = [pos EXCEPT ![w] = cursor[s]]
    /\ UNCHANGED <<icg, catalog, cursor, page, last, more>>

\* Rows are fetched for items, to be persisted without a cursor.
Refresh(w, s, items) ==
    /\ Begin(w, "refresh", s, "rows")
    /\ page' = [page EXCEPT ![w] = {r \in InView(s) : r.item \in items}]
    /\ UNCHANGED <<icg, catalog, cursor, pos, last, more>>

\* refresh_combination_from_icg, refresh_price_from_icg, refresh_stock_from_icg
RefreshItem(w, s) ==
    \E i \in Items : local[s][i] # 0 /\ Refresh(w, s, {i})

\* refresh_product_from_icg, and rebuild_reference_from_icg view by view.
RefreshProduct(w, s) ==
    \E i \in Items : local["products"][i] # 0 /\ Refresh(w, s, {j \in Items : Code[j] = Code[i]})

\* bulk_refresh_prices_from_icg: every price there is.
RefreshPrices(w) ==
    /\ "prices" \in Sources
    /\ Refresh(w, "prices", {i \in Items : local["prices"][i] # 0})

\* The next page.  An empty one ends the import.
Fetch(w) ==
    /\ pc[w] = "fetch"
    /\ LET rows == {r \in InView(source[w]) : Behind(pos[w], r)}
       IN  \/ /\ rows # {}
              /\ \E p \in FirstRows(rows) :
                    /\ page' = [page EXCEPT ![w] = p]
                    /\ more' = [more EXCEPT ![w] = (Cardinality(p) = PageLimit)]
              /\ last' = [last EXCEPT ![w] = pos[w].at]
              /\ pc' = [pc EXCEPT ![w] = "rows"]
              /\ UNCHANGED <<task, source, pos>>
           \/ rows = {} /\ Forget(w)
    /\ UNCHANGED <<icg, catalog, cursor>>

\* ICG does not answer: the loop ends.
FetchFails(w) ==
    /\ pc[w] = "fetch"
    /\ Forget(w)
    /\ UNCHANGED <<icg, catalog, cursor>>

\* A row is skipped, without an error, when nothing is to be done with it or
\* when the product and combination it needs are not in the catalog.
Skips(s, i) == i \in Unwanted \/ (s # "products" /\ local["products"][i] = 0)

\* Mutant: the rows come as the database likes.
NextRow_any(w, r) == r \in page[w]

\* The next row of the page.
NextRow(w, r) == r \in page[w] /\ \A q \in page[w] : ~Before(q, r)

\* The row is done: its date counts, and a source key if it has returned one.
Visited(w, r, key) ==
    /\ page' = [page EXCEPT ![w] = @ \ {r}]
    /\ last' = [last EXCEPT ![w] = r.at]
    /\ pos' = [pos EXCEPT ![w].key = key]

\* _persist_product_row, _persist_price_row, _persist_stock_row: the row is
\* written whatever version the catalog has.  The flag sync_required, which is
\* set with it, is in CatalogExport.
Persist(w) ==
    /\ pc[w] = "rows"
    /\ \E r \in page[w] :
        /\ NextRow(w, r)
        /\ r.item \notin Poison
        /\ ~Skips(source[w], r.item)
        /\ local' = [local EXCEPT ![source[w]][r.item] = r.version]
        /\ Visited(w, r, Code[r.item])
    /\ UNCHANGED <<icg, skipped, cursor, task, source, pc, more>>

\* The row function returns None.
Skip(w) ==
    /\ pc[w] = "rows"
    /\ \E r \in page[w] :
        /\ NextRow(w, r)
        /\ r.item \notin Poison
        /\ Skips(source[w], r.item)
        /\ skipped' = [skipped EXCEPT ![source[w]] = @ \cup {<<r.item, r.version>>}]
        /\ Visited(w, r, pos[w].key)
    /\ UNCHANGED <<icg, local, cursor, task, source, pc, more>>

\* A hard failure: all_hard is False, so that the cursor stays where the page
\* began and the loop ends.
PersistFails(w) ==
    /\ pc[w] = "rows"
    /\ page[w] # {}
    /\ Forget(w)
    /\ UNCHANGED <<icg, catalog, cursor>>

\* Mutant: cursor_at stays as it was at the start.
Advance_keepsPosition(w) ==
    /\ pc[w] = "rows"
    /\ page[w] = {}
    /\ task[w] = "import"
    /\ cursor' = [cursor EXCEPT ![source[w]] = [at |-> last[w], key |-> pos[w].key]]
    /\ IF more[w] THEN pc' = [pc EXCEPT ![w] = "fetch"] /\ UNCHANGED <<task, source, page, pos, last, more>>
       ELSE Forget(w)
    /\ UNCHANGED <<icg, catalog>>

\* The page is done, advance_cursor overwrites the cursor.  A full page is
\* followed by another one.
Advance(w) ==
    /\ pc[w] = "rows"
    /\ page[w] = {}
    /\ task[w] = "import"
    /\ cursor' = [cursor EXCEPT ![source[w]] = [at |-> last[w], key |-> pos[w].key]]
    /\ \/ /\ more[w]
          /\ pos' = [pos EXCEPT ![w].at = last[w]]
          /\ pc' = [pc EXCEPT ![w] = "fetch"]
          /\ UNCHANGED <<task, source, page, last, more>>
       \/ ~more[w] /\ Forget(w)
    /\ UNCHANGED <<icg, catalog>>

RefreshEnds(w) ==
    /\ pc[w] = "rows"
    /\ page[w] = {}
    /\ task[w] = "refresh"
    /\ Forget(w)
    /\ UNCHANGED <<icg, catalog, cursor>>

\* The process dies; each row and each cursor has its own transaction.
Stop(w) ==
    /\ pc[w] # "idle"
    /\ Forget(w)
    /\ UNCHANGED <<icg, catalog, cursor>>
-----------------------------------------------------------------------------
\* A row that cannot be persisted fails, the others may.
FailsForGood(w) == \E r \in page[w] : NextRow(w, r) /\ r.item \in Poison /\ PersistFails(w)

\* What a process does on its own when nothing fails that need not fail.
Step(w) ==
    \/ Fetch(w)
    \/ Persist(w) \/ Skip(w) \/ FailsForGood(w)
    \/ Advance(w) \/ RefreshEnds(w)

Start(w) ==
    \E s \in Sources : ImportStart(w, s) \/ RefreshItem(w, s) \/ RefreshProduct(w, s)

Next ==
    \/ \E s \in Sources, i \in Items : Change(s, i)
    \/ \E w \in Workers : Start(w) \/ RefreshPrices(w) \/ Step(w) \/ FetchFails(w) \/ PersistFails(w) \/ Stop(w)

\* A process that has begun a task goes on, and every view is imported again
\* and again.
Fairness ==
    /\ \A w \in Workers : WF_vars(Step(w))
    /\ \A s \in Sources : SF_vars(\E w \in Workers : ImportStart(w, s))

Spec == Init /\ [][Next]_vars
FairSpec == Spec /\ Fairness
-----------------------------------------------------------------------------
(* Properties *)

Row(s, i) == [item |-> i, at |-> view[s][i].at, version |-> view[s][i].version]

\* The catalog has the row's present version, or an import has passed it over.
Handled(s, i) ==
    \/ view[s][i].at = 0
    \/ local[s][i] = view[s][i].version
    \/ <<i, view[s][i].version>> \in skipped[s]

Tied(s, i) == view[s][i].at \in tied[s]

\* No change of ICG is passed over unless it shares its date with another: a row
\* that the catalog does not have in its present version lies behind the
\* cursor, in the part of the view that the next import will read, wherever
\* processes were killed, rows failed, pages ended or refreshes ran.
NothingIsLost ==
    \A s \in Sources, i \in Items : Handled(s, i) \/ Tied(s, i) \/ Behind(cursor[s], Row(s, i))

\* A row that has changed since it was fetched will be read again.
Outdated(w, r) ==
    LET new == view[source[w]][r.item].at
    IN  \/ Tied(source[w], r.item)
        \/ new > last[w] /\ new > cursor[source[w]].at /\ \A q \in page[w] : new > q.at

\* A date that some row of the view bears or has borne.
Reached(s, date) == date < now \/ (date = now /\ \E i \in Items : view[s][i].at = date)

\* What a task relies on.  What an import has not handled is on the page that it
\* works on, or comes after all of that.
Reading(w) ==
    /\ Reached(source[w], last[w])
    /\ \A r \in page[w] : Reached(source[w], r.at) /\ (r = Row(source[w], r.item) \/ Outdated(w, r))
    /\ task[w] = "import" =>
        /\ pos[w].at = cursor[source[w]].at
        /\ pc[w] = "rows" =>
            /\ last[w] >= pos[w].at
            /\ \A r \in page[w] : r.at >= last[w]
            /\ \A i \in Items :
                  \/ Handled(source[w], i) \/ Tied(source[w], i)
                  \/ Row(source[w], i) \in page[w]
                  \/ view[source[w]][i].at > last[w] /\ \A q \in page[w] : view[source[w]][i].at > q.at

DatesSound ==
    /\ now <= changes + 1
    /\ \A s \in Sources : Reached(s, cursor[s].at) /\ \A i \in Items : view[s][i].at <= now

DatesDiffer ==
    \A s \in Sources, i, j \in Items :
        view[s][i].at = view[s][j].at /\ view[s][i].at # 0 => i = j \/ Tied(s, i)

TasksApart ==
    \A w \in Workers :
        /\ task[w] = "none" <=> source[w] = NoSource
        /\ task[w] = "none" <=> pc[w] = "idle"
        /\ pc[w] = "fetch" => task[w] = "import"
        /\ pc[w] = "idle" => page[w] = {} /\ last[w] = 0
        /\ source[w] # NoSource => \A v \in Workers \ {w} : source[v] # source[w]

AllReading == \A w \in Workers : source[w] # NoSource => Reading(w)

Ahead == \A s \in Sources, i \in Items :
            Handled(s, i) \/ Tied(s, i) \/ view[s][i].at > cursor[s].at

\* The inductive invariant, for tasks that do not overlap on a source.
IInv == TypeOK /\ DatesSound /\ DatesDiffer /\ TasksApart /\ AllReading /\ Ahead

\* Failures and deaths cease.
Calm == <>[][\A w \in Workers :
                FetchFails(w) \/ PersistFails(w) \/ Stop(w) => Step(w)]_vars

\* Every row gets into the catalog, except behind a row that can never be
\* persisted: what comes before that is imported although its page fails each
\* time.
Imported ==
    Calm => \A s \in Sources, i \in Items :
        <>[](Handled(s, i) \/ Tied(s, i) \/ \E p \in Poison : view[s][p].at # 0 /\ ~Before(Row(s, i), Row(s, p)))

\* An import comes to an end.
ImportEnds == \A w \in Workers : pc[w] # "idle" ~> pc[w] = "idle"
=============================================================================
