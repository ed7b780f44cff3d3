------------------------ MODULE CatalogImport_proofs ------------------------
(***************************************************************************)
(* No change of ICG is passed over by the imports, for any number of       *)
(* processes, views and rows and any page size, as long as no two tasks    *)
(* work on one view at once (Overlap = FALSE).                             *)
(***************************************************************************)
EXTENDS CatalogImport, TLAPS

\* The constants that the proofs need.
LEMMA Constants ==
    /\ MaxChanges \in Nat
    /\ Code \in [Items -> Nat \ {0}]
    /\ NoSource \notin Sources
    /\ "products" \in Sources
BY ImportAssumption DEF ImportAssumption, NoSource

\* The types of what is computed from a view.
LEMMA RowTypes ==
    ASSUME TypeOK, NEW s \in Sources
    PROVE  /\ InView(s) \subseteq Fetched
           /\ \A r \in InView(s) : r = Row(s, r.item) /\ r.at # 0
           /\ \A i \in Items : view[s][i].at # 0 => Row(s, i) \in InView(s)
           /\ \A i \in Items : view[s][i].at \in Date /\ view[s][i].version \in Version
BY DEF TypeOK, InView, Row, Fetched, ViewRow, Date, Version

\* What FirstRows returns are rows, and none left out comes before them.
LEMMA PageIsFirst ==
    ASSUME NEW rows, NEW p \in FirstRows(rows)
    PROVE  p \subseteq rows /\ \A r \in p, q \in rows \ p : ~Before(q, r)
BY DEF FirstRows, FirstRows_unordered

\* The actions, by what they do to the shared state.
Ends(w) == Forget(w) /\ UNCHANGED <<icg, catalog, cursor>>

Starts(w) == \E s \in Sources : ImportStart(w, s) \/ \E items \in SUBSET Items : Refresh(w, s, items)

Reads(w) == Fetch(w) /\ pc'[w] = "rows"

LEMMA Effects ==
    ASSUME IInv, Next
    PROVE  \/ \E s \in Sources, i \in Items : Change(s, i)
           \/ \E w \in Workers : Starts(w) \/ Ends(w) \/ Reads(w) \/ Persist(w) \/ Skip(w) \/ Advance(w)
<1>1. CASE \E s \in Sources, i \in Items : Change(s, i)
  BY <1>1
<1>2. ASSUME NEW w \in Workers,
             Start(w) \/ RefreshPrices(w) \/ Step(w) \/ FetchFails(w) \/ PersistFails(w) \/ Stop(w)
      PROVE  Starts(w) \/ Ends(w) \/ Reads(w) \/ Persist(w) \/ Skip(w) \/ Advance(w)
  <2>1. CASE Start(w)
    <3>1. PICK s \in Sources : ImportStart(w, s) \/ RefreshItem(w, s) \/ RefreshProduct(w, s)
      BY <2>1 DEF Start
    <3>2. CASE ImportStart(w, s)
      BY <3>2 DEF Starts
    <3>3. CASE RefreshItem(w, s)
      <4>1. PICK i \in Items : Refresh(w, s, {i})
        BY <3>3 DEF RefreshItem
      <4>2. {i} \in SUBSET Items
        OBVIOUS
      <4> QED BY <4>1, <4>2 DEF Starts
    <3>4. CASE RefreshProduct(w, s)
      <4>1. PICK i \in Items : Refresh(w, s, {j \in Items : Code[j] = Code[i]})
        BY <3>4 DEF RefreshProduct
      <4>2. {j \in Items : Code[j] = Code[i]} \in SUBSET Items
        OBVIOUS
      <4> QED BY <4>1, <4>2 DEF Starts
    <3> QED BY <3>1, <3>2, <3>3, <3>4
  <2>2. CASE RefreshPrices(w)
    <3>1. {i \in Items : local["prices"][i] # 0} \in SUBSET Items
      OBVIOUS
    <3> QED BY <2>2, <3>1 DEF RefreshPrices, Starts
  <2>3. CASE Step(w)
    <3>1. CASE Fetch(w)
      BY <3>1 DEF Fetch, Ends, Reads, Forget, IInv, TypeOK
    <3>2. CASE FailsForGood(w)
      BY <3>2 DEF FailsForGood, PersistFails, Ends
    <3>3. CASE RefreshEnds(w)
      BY <3>3 DEF RefreshEnds, Ends
    <3> QED BY <2>3, <3>1, <3>2, <3>3 DEF Step
  <2>4. CASE FetchFails(w) \/ PersistFails(w) \/ Stop(w)
    BY <2>4 DEF FetchFails, PersistFails, Stop, Ends
  <2> QED BY <1>2, <2>1, <2>2, <2>3, <2>4
<1> QED BY <1>1, <1>2 DEF Next
-----------------------------------------------------------------------------
(* Types *)

LEMMA RowVisited ==
    ASSUME TypeOK, NEW w \in Workers, NEW r \in page[w], NEW key \in Keys, Visited(w, r, key)
    PROVE  /\ page' \in [Workers -> SUBSET Fetched]
           /\ last' \in [Workers -> Date]
           /\ pos' \in [Workers -> Position]
<1>1. r \in Fetched /\ r.at \in Date
  BY DEF TypeOK, Fetched
<1>2. page' \in [Workers -> SUBSET Fetched]
  BY DEF TypeOK, Visited
<1>3. last' \in [Workers -> Date]
  BY <1>1 DEF TypeOK, Visited
<1>4. pos' \in [Workers -> Position]
  BY DEF TypeOK, Visited, Position
<1> QED BY <1>2, <1>3, <1>4

LEMMA TypesKept ==
    ASSUME IInv, Next
    PROVE  TypeOK'
<1> USE DEF IInv, DatesSound
<1>0. TypeOK /\ now <= changes + 1
  OBVIOUS
<1>1. ASSUME NEW s \in Sources, NEW i \in Items, Change(s, i)
      PROVE  TypeOK'
  <2>1. now' \in 1..(MaxChanges + 1) /\ changes' \in Version /\ now' \in Date
    BY <1>0, <1>1, Constants DEF Change, TypeOK, Version, Date
  <2>2. PICK version \in {changes + 1, view[s][i].version} \ {0} :
            view' = [view EXCEPT ![s][i] = [at |-> now', version |-> version]]
    BY <1>1 DEF Change
  <2>3. version \in Version
    BY <1>0, <1>1, <2>2, RowTypes, Constants DEF Change, TypeOK, Version
  <2>4. view' \in [Sources -> [Items -> ViewRow]]
    BY <1>0, <2>1, <2>2, <2>3 DEF TypeOK, ViewRow
  <2>5. tied' \in [Sources -> SUBSET Date]
    BY <1>0, <1>1, <2>1 DEF Change, TypeOK
  <2> QED BY <1>0, <1>1, <2>1, <2>4, <2>5 DEF Change, TypeOK, catalog, mine
<1>2. ASSUME NEW w \in Workers,
             Starts(w) \/ Ends(w) \/ Reads(w) \/ Persist(w) \/ Skip(w) \/ Advance(w)
      PROVE  TypeOK'
  <2>1. CASE Starts(w)
    <3>1. PICK s \in Sources : ImportStart(w, s) \/ \E items \in SUBSET Items : Refresh(w, s, items)
      BY <2>1 DEF Starts
    <3>2. CASE ImportStart(w, s)
      <4>1. cursor[s] \in Position
        BY <1>0 DEF TypeOK
      <4>2. pos' \in [Workers -> Position]
        BY <1>0, <4>1, <3>2 DEF TypeOK, ImportStart
      <4> QED BY <1>0, <3>2, <4>2 DEF TypeOK, ImportStart, Begin, icg, catalog
    <3>3. ASSUME NEW items \in SUBSET Items, Refresh(w, s, items)
          PROVE  TypeOK'
      <4>1. {r \in InView(s) : r.item \in items} \subseteq Fetched
        BY <1>0, RowTypes
      <4>2. page' \in [Workers -> SUBSET Fetched]
        BY <1>0, <4>1, <3>3 DEF TypeOK, Refresh
      <4> QED BY <1>0, <3>3, <4>2 DEF TypeOK, Refresh, Begin, icg, catalog
    <3> QED BY <3>1, <3>2, <3>3
  <2>2. CASE Ends(w)
    <3>1. AtStart \in Position /\ 0 \in Date
      BY Constants DEF AtStart, Position, Date, Keys
    <3> QED BY <1>0, <2>2, <3>1 DEF Ends, Forget, TypeOK, icg, catalog
  <2>3. CASE Reads(w)
    <3> DEFINE rows == {r \in InView(source[w]) : Behind(pos[w], r)}
    <3>1. rows # {}
      BY <1>0, <2>3 DEF Reads, Fetch, Forget, TypeOK
    <3>2. PICK p \in FirstRows(rows) :
              /\ page' = [page EXCEPT ![w] = p]
              /\ more' = [more EXCEPT ![w] = (Cardinality(p) = PageLimit)]
      BY <2>3, <3>1 DEF Reads, Fetch
    <3>3. UNCHANGED <<icg, catalog, cursor, task, source, pos>>
      BY <2>3, <3>1 DEF Reads, Fetch
    <3>4. pc' \in [Workers -> {"idle", "fetch", "rows"}] /\ last' = [last EXCEPT ![w] = pos[w].at]
      BY <1>0, <2>3, <3>1 DEF Reads, Fetch, TypeOK
    <3>5. source[w] \in Sources
      BY <1>0, <2>3 DEF Reads, Fetch, TypeOK, TasksApart
    <3>6. p \subseteq Fetched
      <4> HIDE DEF rows
      <4>1. p \subseteq rows
        BY PageIsFirst
      <4>2. rows \subseteq InView(source[w])
        BY DEF rows
      <4> QED BY <1>0, <3>5, <4>1, <4>2, RowTypes
    <3>7. page' \in [Workers -> SUBSET Fetched] /\ more' \in [Workers -> BOOLEAN]
      BY <1>0, <3>2, <3>6 DEF TypeOK
    <3>8. last' \in [Workers -> Date]
      BY <1>0, <3>4 DEF TypeOK, Position
    <3> QED BY <1>0, <3>3, <3>4, <3>7, <3>8 DEF TypeOK, icg, catalog
  <2>4. CASE Persist(w)
    <3>1. PICK r \in page[w] : local' = [local EXCEPT ![source[w]][r.item] = r.version]
                               /\ Visited(w, r, Code[r.item])
      BY <2>4 DEF Persist
    <3>2. r \in Fetched
      BY <1>0 DEF TypeOK
    <3>3. r.item \in Items /\ r.version \in Version /\ Code[r.item] \in Keys
      BY <3>2 DEF Fetched, Keys
    <3>4. local' \in [Sources -> [Items -> Version]]
      BY <1>0, <3>1, <3>3 DEF TypeOK
    <3> QED BY <1>0, <2>4, <3>1, <3>3, <3>4, RowVisited DEF Persist, TypeOK, icg
  <2>5. CASE Skip(w)
    <3>1. PICK r \in page[w] : /\ skipped' = [skipped EXCEPT ![source[w]] = @ \cup {<<r.item, r.version>>}]
                               /\ Visited(w, r, pos[w].key)
      BY <2>5 DEF Skip
    <3>2. r \in Fetched /\ pos[w] \in Position
      BY <1>0 DEF TypeOK
    <3>3. r.item \in Items /\ r.version \in Version /\ pos[w].key \in Keys
      BY <3>2 DEF Fetched, Position
    <3>4. skipped' \in [Sources -> SUBSET (Items \X Version)]
      <4> DEFINE pair == <<r.item, r.version>>
      <4>1. pair \in Items \X Version
        BY <3>3
      <4>2. skipped' = [skipped EXCEPT ![source[w]] = @ \cup {pair}]
        BY <3>1
      <4> HIDE DEF pair
      <4>3. skipped \in [Sources -> SUBSET (Items \X Version)]
        BY <1>0 DEF TypeOK
      <4> QED BY <4>1, <4>2, <4>3
    <3> QED BY <1>0, <2>5, <3>1, <3>3, <3>4, RowVisited DEF Skip, TypeOK, icg
  <2>6. CASE Advance(w)
    <3>1. pos[w] \in Position /\ last[w] \in Date
      BY <1>0 DEF TypeOK
    <3>2. [at |-> last[w], key |-> pos[w].key] \in Position
      BY <3>1 DEF Position
    <3>3. cursor' \in [Sources -> Position]
      BY <1>0, <2>6, <3>2 DEF TypeOK, Advance
    <3>4. CASE pos' = [pos EXCEPT ![w].at = last[w]] /\ pc' = [pc EXCEPT ![w] = "fetch"]
               /\ UNCHANGED <<task, source, page, last, more>>
      <4>1. pos' \in [Workers -> Position]
        BY <1>0, <3>1, <3>4 DEF TypeOK, Position
      <4> QED BY <1>0, <2>6, <3>3, <3>4, <4>1 DEF Advance, TypeOK, icg, catalog
    <3>5. CASE Forget(w)
      <4>1. AtStart \in Position /\ 0 \in Date
        BY Constants DEF AtStart, Position, Date, Keys
      <4> QED BY <1>0, <2>6, <3>3, <3>5, <4>1 DEF Advance, Forget, TypeOK, icg, catalog
    <3> QED BY <2>6, <3>4, <3>5 DEF Advance
  <2> QED BY <1>2, <2>1, <2>2, <2>3, <2>4, <2>5, <2>6
<1> QED BY <1>1, <1>2, Effects
-----------------------------------------------------------------------------
(* Dates *)

\* A date that was reached stays reached.
LEMMA ReachedStays ==
    ASSUME IInv, Next, NEW s \in Sources, NEW d \in Date, Reached(s, d)
    PROVE  Reached(s, d)'
<1> USE DEF IInv, TypeOK, Date
<1>1. ASSUME NEW t \in Sources, NEW i \in Items, Change(t, i)
      PROVE  Reached(s, d)'
  <2>1. now' \in {now, now + 1} /\ now \in Nat
    BY <1>1 DEF Change
  <2>2. CASE d < now
    BY <2>1, <2>2 DEF Reached
  <2>3. CASE d = now /\ now' = now
    <3>1. PICK j \in Items : view[s][j].at = now
      BY <2>3 DEF Reached
    <3>2. view'[s][j].at = now
      BY <1>1, <2>3, <3>1 DEF Change
    <3> QED BY <2>3, <3>1, <3>2 DEF Reached
  <2>4. CASE d = now /\ now' = now + 1
    BY <2>1, <2>4 DEF Reached
  <2> QED BY <2>1, <2>2, <2>3, <2>4 DEF Reached
<1>2. CASE UNCHANGED icg
  BY <1>2 DEF icg, Reached
<1>3. ASSUME NEW w \in Workers, Starts(w) \/ Ends(w) \/ Reads(w) \/ Persist(w) \/ Skip(w) \/ Advance(w)
      PROVE  UNCHANGED icg
  BY <1>3 DEF Starts, ImportStart, Refresh, Ends, Reads, Fetch, Persist, Skip, Advance
<1> QED BY <1>1, <1>2, <1>3, Effects

\* A change gets a date later than all that were reached, or is tied.
LEMMA ChangeIsNew ==
    ASSUME IInv, NEW s \in Sources, NEW i \in Items, Change(s, i)
    PROVE  /\ view'[s][i].at = now'
           /\ \A t \in Sources, j \in Items : <<t, j>> # <<s, i>> => view'[t][j] = view[t][j]
           /\ \A t \in Sources : tied[t] \subseteq tied'[t]
           /\ \A d \in Date : Reached(s, d) => d < now' \/ now' \in tied'[s]
           /\ \A j \in Items : view[s][j].at = now' => now' \in tied'[s]
<1> USE DEF IInv, TypeOK, Change
<1>1. view'[s][i].at = now' /\ \A t \in Sources, j \in Items : <<t, j>> # <<s, i>> => view'[t][j] = view[t][j]
  OBVIOUS
<1>2. \A t \in Sources : tied[t] \subseteq tied'[t]
  OBVIOUS
<1>3. \A j \in Items : view[s][j].at = now' => now' \in tied'[s]
  OBVIOUS
<1>4. ASSUME NEW d \in Date, Reached(s, d)
      PROVE  d < now' \/ now' \in tied'[s]
  <2>1. now' \in {now, now + 1} /\ now \in Nat /\ d \in Nat
    BY DEF Date
  <2> QED BY <1>3, <1>4, <2>1 DEF Reached
<1> QED BY <1>1, <1>2, <1>3, <1>4

LEMMA DatesKept ==
    ASSUME IInv, Next
    PROVE  DatesSound' /\ DatesDiffer'
<1>0. TypeOK /\ DatesSound /\ DatesDiffer
  BY DEF IInv
<1>1. ASSUME NEW s \in Sources, NEW i \in Items, Change(s, i)
      PROVE  DatesSound' /\ DatesDiffer'
  <2>1. now' \in {now, now + 1} /\ changes' = changes + 1 /\ now \in Nat /\ changes \in Nat /\ cursor' = cursor
    BY <1>0, <1>1 DEF Change, TypeOK, Version
  <2>2. now' <= changes' + 1
    BY <1>0, <2>1 DEF DatesSound
  <2>3. ASSUME NEW t \in Sources
        PROVE  Reached(t, cursor[t].at)'
    <3>1. cursor[t].at \in Date /\ Reached(t, cursor[t].at)
      BY <1>0 DEF TypeOK, Position, DatesSound
    <3>2. Reached(t, cursor[t].at)' <=> cursor[t].at < now' \/ (cursor[t].at = now' /\ \E j \in Items : view'[t][j].at = cursor[t].at)
      BY <2>1 DEF Reached
    <3>3. ASSUME NEW d \in Date, Reached(t, d)
          PROVE  d < now' \/ (d = now' /\ \E j \in Items : view'[t][j].at = d)
      BY <3>3, ReachedStays DEF Reached
    <3> QED BY <3>1, <3>2, <3>3
  <2>4. ASSUME NEW t \in Sources, NEW j \in Items
        PROVE  view'[t][j].at <= now'
    <3>1. view[t][j].at <= now /\ view[t][j].at \in Date
      BY <1>0, RowTypes DEF DatesSound
    <3> QED BY <1>1, <2>1, <3>1, ChangeIsNew DEF Date
  <2>5. ASSUME NEW t \in Sources, NEW j \in Items, NEW k \in Items,
               view'[t][j].at = view'[t][k].at, view'[t][j].at # 0, j # k
        PROVE  view'[t][j].at \in tied'[t]
    <3>1. CASE <<t, j>> = <<s, i>>
      <4>1. view'[s][k] = view[s][k] /\ view'[s][i].at = now'
        BY <1>1, <2>5, <3>1, ChangeIsNew
      <4> QED BY <1>1, <2>5, <3>1, <4>1, ChangeIsNew
    <3>2. CASE <<t, k>> = <<s, i>>
      <4>1. view'[s][j] = view[s][j] /\ view'[s][i].at = now'
        BY <1>1, <2>5, <3>2, ChangeIsNew
      <4> QED BY <1>1, <2>5, <3>2, <4>1, ChangeIsNew
    <3>3. CASE <<t, j>> # <<s, i>> /\ <<t, k>> # <<s, i>>
      <4>1. view'[t][j] = view[t][j] /\ view'[t][k] = view[t][k]
        BY <1>1, <3>3, ChangeIsNew
      <4>2. view[t][j].at = view[t][k].at /\ view[t][j].at # 0
        BY <2>5, <4>1
      <4>3. view[t][j].at \in tied[t]
        BY <1>0, <2>5, <4>2 DEF DatesDiffer, Tied
      <4>4. tied[t] \subseteq tied'[t]
        BY <1>1, ChangeIsNew
      <4> QED BY <4>1, <4>3, <4>4
    <3> QED BY <3>1, <3>2, <3>3
  <2> QED BY <2>2, <2>3, <2>4, <2>5 DEF DatesSound, DatesDiffer, Tied
<1>2. ASSUME NEW w \in Workers, Starts(w) \/ Ends(w) \/ Reads(w) \/ Persist(w) \/ Skip(w)
      PROVE  DatesSound' /\ DatesDiffer'
  <2>1. UNCHANGED <<icg, cursor>>
    BY <1>2 DEF Starts, ImportStart, Refresh, Ends, Reads, Fetch, Persist, Skip
  <2> QED BY <1>0, <2>1 DEF icg, DatesSound, DatesDiffer, Reached, Tied
<1>3. ASSUME NEW w \in Workers, Advance(w)
      PROVE  DatesSound' /\ DatesDiffer'
  <2>1. source[w] \in Sources /\ Reached(source[w], last[w])
    BY <1>0, <1>3 DEF IInv, TypeOK, TasksApart, AllReading, Advance, Reading
  <2>2. UNCHANGED icg /\ cursor' = [cursor EXCEPT ![source[w]] = [at |-> last[w], key |-> pos[w].key]]
    BY <1>3 DEF Advance
  <2>3. ASSUME NEW s \in Sources
        PROVE  cursor'[s].at = IF s = source[w] THEN last[w] ELSE cursor[s].at
    BY <1>0, <2>2 DEF TypeOK
  <2>4. \A s \in Sources : Reached(s, cursor[s].at)'
    BY <1>0, <2>1, <2>2, <2>3 DEF Reached, DatesSound, icg
  <2> QED BY <1>0, <2>2, <2>4 DEF icg, DatesSound, DatesDiffer, Tied
<1> QED BY <1>1, <1>2, <1>3, Effects

LEMMA ApartKept ==
    ASSUME Overlap = FALSE, IInv, Next
    PROVE  TasksApart'
<1>0. TypeOK /\ TasksApart
  BY DEF IInv
<1>1. ASSUME NEW s \in Sources, NEW i \in Items, Change(s, i)
      PROVE  TasksApart'
  BY <1>0, <1>1 DEF Change, mine, TasksApart
<1>2. ASSUME NEW w \in Workers, Starts(w)
      PROVE  TasksApart'
  <2>1. PICK s \in Sources : Begin(w, "import", s, "fetch") \/ Begin(w, "refresh", s, "rows")
    BY <1>2 DEF Starts, ImportStart, Refresh
  <2>2. \A v \in Workers : source[v] # s
    BY <2>1 DEF Begin
  <2>3. /\ UNCHANGED <<last, more>> /\ pc[w] = "idle"
        /\ \A v \in Workers \ {w} : page'[v] = page[v]
        /\ pc'[w] = "fetch" => task'[w] = "import"
        /\ source'[w] = s /\ task'[w] # "none" /\ pc'[w] # "idle"
        /\ \A v \in Workers \ {w} : source'[v] = source[v] /\ task'[v] = task[v] /\ pc'[v] = pc[v]
    BY <1>0, <1>2, <2>1 DEF Begin, Starts, ImportStart, Refresh, TypeOK
  <2>4. s # NoSource
    BY Constants
  <2> QED BY <1>0, <2>2, <2>3, <2>4 DEF TasksApart
<1>3. ASSUME NEW w \in Workers, Ends(w) \/ Forget(w)
      PROVE  TasksApart'
  BY <1>0, <1>3 DEF Ends, Forget, TasksApart, TypeOK
<1>4. ASSUME NEW w \in Workers, Reads(w) \/ Persist(w) \/ Skip(w)
      PROVE  TasksApart'
  <2>1. UNCHANGED <<task, source>> /\ pc'[w] = "rows" /\ pc[w] # "idle"
        /\ \A v \in Workers \ {w} : pc'[v] = pc[v] /\ page'[v] = page[v] /\ last'[v] = last[v]
    BY <1>0, <1>4 DEF Reads, Fetch, Persist, Skip, Visited, Forget, TypeOK
  <2> QED BY <1>0, <2>1 DEF TasksApart
<1>5. ASSUME NEW w \in Workers, Advance(w)
      PROVE  TasksApart'
  <2>1. CASE pc' = [pc EXCEPT ![w] = "fetch"] /\ UNCHANGED <<task, source, page, last>>
    BY <1>0, <1>5, <2>1 DEF TasksApart, TypeOK, Advance
  <2>2. CASE Forget(w)
    BY <1>3, <2>2
  <2> QED BY <1>5, <2>1, <2>2 DEF Advance
<1> QED BY <1>1, <1>2, <1>3, <1>4, <1>5, Effects
-----------------------------------------------------------------------------
(* What the tasks rely on *)

\* Of the part of the state that a process relies on, only the dates change.
Same(v) ==
    /\ task'[v] = task[v] /\ source'[v] = source[v] /\ pc'[v] = pc[v]
    /\ page'[v] = page[v] /\ pos'[v] = pos[v] /\ last'[v] = last[v]
    /\ cursor'[source[v]] = cursor[source[v]]
    /\ local'[source[v]] = local[source[v]]
    /\ skipped'[source[v]] = skipped[source[v]]

LEMMA ReadingSame ==
    ASSUME NEW v \in Workers, Same(v), UNCHANGED icg, Reading(v)
    PROVE  Reading(v)'
<1>1. /\ \A i \in Items : Handled(source[v], i) => Handled(source[v], i)'
      /\ \A i : Tied(source[v], i) => Tied(source[v], i)'
      /\ \A i : Row(source[v], i)' = Row(source[v], i)
      /\ \A date : Reached(source[v], date) => Reached(source[v], date)'
  BY DEF Same, icg, Handled, Tied, Row, Reached
<1>2. \A r \in page[v] : Outdated(v, r) => Outdated(v, r)'
  BY DEF Same, icg, Outdated, Tied
<1>3. Reached(source[v], last[v])' /\ \A r \in page'[v] :
          Reached(source[v], r.at)' /\ (r = Row(source[v], r.item)' \/ Outdated(v, r)')
  BY <1>1, <1>2 DEF Same, Reading
<1>4. CASE task[v] # "import"
  BY <1>3, <1>4 DEF Same, Reading, Reached, Row
<1>5. CASE task[v] = "import"
  BY <1>1, <1>3, <1>5 DEF Same, icg, Reading, Reached, Tied, Handled, Row
<1> QED BY <1>4, <1>5

\* A process that works on another source is not disturbed.
LEMMA Others ==
    ASSUME IInv, NEW w \in Workers,
           Starts(w) \/ Ends(w) \/ Reads(w) \/ Persist(w) \/ Skip(w) \/ Advance(w),
           NEW v \in Workers, v # w, source'[v] # NoSource
    PROVE  Reading(v)'
<1> USE DEF IInv, TypeOK
<1>1. source'[v] = source[v] /\ UNCHANGED icg
  BY DEF Starts, ImportStart, Refresh, Begin, Ends, Forget, Reads, Fetch, Persist, Skip, Advance
<1>2. source[v] # source[w] /\ Reading(v) /\ source[v] \in Sources
  BY <1>1 DEF TasksApart, AllReading
<1>3. CASE Starts(w)
  BY <1>1, <1>2, <1>3, ReadingSame DEF Starts, ImportStart, Refresh, Begin, Same, catalog
<1>4. CASE Ends(w)
  BY <1>1, <1>2, <1>4, ReadingSame DEF Ends, Forget, Same, catalog
<1>5. CASE Reads(w)
  BY <1>1, <1>2, <1>5, ReadingSame DEF Reads, Fetch, Forget, Same, catalog
<1>6. CASE Persist(w)
  BY <1>1, <1>2, <1>6, ReadingSame DEF Persist, Visited, Same
<1>7. CASE Skip(w)
  BY <1>1, <1>2, <1>7, ReadingSame DEF Skip, Visited, Same
<1>8. CASE Advance(w)
  BY <1>1, <1>2, <1>8, ReadingSame DEF Advance, Forget, Same, catalog
<1> QED BY <1>3, <1>4, <1>5, <1>6, <1>7, <1>8

\* What ICG changes during a task will be read again.
LEMMA ReadingThroughChange ==
    ASSUME IInv, NEW s \in Sources, NEW i \in Items, Change(s, i),
           NEW v \in Workers, source[v] # NoSource
    PROVE  Reading(v)'
<1>0. TypeOK /\ Reading(v) /\ source[v] \in Sources
  BY DEF IInv, AllReading, TypeOK
<1>a. PICK t \in Sources : t = source[v]
  BY <1>0
<1>1. UNCHANGED <<catalog, cursor, mine>> /\ t = source'[v]
  BY <1>a DEF Change, mine
<1>2. \A d \in Date : Reached(t, d) => d < now' \/ (d = now' /\ \E j \in Items : view'[t][j].at = d)
  BY ReachedStays DEF Next, Reached
<1>3. \A d \in Date : t = s /\ Reached(t, d) => d < now' \/ now' \in tied'[t]
  BY ChangeIsNew
<1>4. \A j \in Items : <<t, j>> # <<s, i>> => view'[t][j] = view[t][j]
  BY <1>0, <1>a, ChangeIsNew
<1>5. t = s => view'[t][i].at = now'
  BY ChangeIsNew
<1>6. tied[t] \subseteq tied'[t]
  BY <1>0, <1>a, ChangeIsNew
<1>7. last[v] \in Date /\ Reached(t, last[v])
  BY <1>0, <1>a DEF TypeOK, Reading
<1>8. \A q \in page[v] : q \in Fetched /\ q.at \in Date /\ q.item \in Items /\ Reached(t, q.at)
  BY <1>0, <1>a DEF TypeOK, Reading, Fetched
<1>9. cursor[t].at \in Date /\ Reached(t, cursor[t].at)
  BY <1>0, <1>a DEF IInv, TypeOK, DatesSound, Position
<1>10. Reached(t, last[v])' /\ \A q \in page[v] : Reached(t, q.at)'
  BY <1>1, <1>2, <1>7, <1>8 DEF Reached, mine
<1>11. t = s => \/ now' \in tied'[t]
                \/ now' > last[v] /\ now' > cursor[t].at /\ \A q \in page[v] : now' > q.at
  <2>1. now' \in Nat
    BY <1>0, <1>a DEF Change, TypeOK
  <2> QED BY <1>3, <1>7, <1>8, <1>9, <2>1 DEF Date
<1>12. ASSUME NEW r \in page[v]
       PROVE  (r = Row(t, r.item) \/ Outdated(v, r))'
  <2>1. CASE t = s /\ r.item = i
    BY <1>1, <1>a, <1>5, <1>11, <2>1 DEF Outdated, Tied, mine
  <2>2. CASE ~(t = s /\ r.item = i)
    <3>1. view'[t][r.item] = view[t][r.item]
      BY <1>4, <1>8, <2>2
    <3>2. r = Row(t, r.item) \/ Outdated(v, r)
      BY <1>0, <1>a DEF Reading
    <3> QED BY <1>1, <1>a, <1>6, <3>1, <3>2 DEF Row, Outdated, Tied, mine
  <2> QED BY <2>1, <2>2
<1>13. ASSUME task[v] = "import", pc[v] = "rows", NEW j \in Items
       PROVE  (\/ Handled(t, j) \/ Tied(t, j)
               \/ Row(t, j) \in page[v]
               \/ view[t][j].at > last[v] /\ \A q \in page[v] : view[t][j].at > q.at)'
  <2>1. CASE t = s /\ j = i
    BY <1>1, <1>a, <1>5, <1>11, <2>1 DEF Tied, mine
  <2>2. CASE ~(t = s /\ j = i)
    <3>1. view'[t][j] = view[t][j]
      BY <1>4, <2>2
    <3>2. \/ Handled(t, j) \/ Tied(t, j)
          \/ Row(t, j) \in page[v]
          \/ view[t][j].at > last[v] /\ \A q \in page[v] : view[t][j].at > q.at
      BY <1>0, <1>a, <1>13 DEF Reading
    <3> QED BY <1>1, <1>a, <1>6, <3>1, <3>2 DEF Row, Handled, Tied, mine, catalog
  <2> QED BY <2>1, <2>2
<1>14. UNCHANGED <<task, source, pc, page, pos, last, cursor>>
  BY <1>1 DEF mine
<1>15. task[v] = "import" =>
         /\ pos[v].at = cursor[t].at
         /\ pc[v] = "rows" => last[v] >= pos[v].at /\ \A r \in page[v] : r.at >= last[v]
  BY <1>0, <1>a DEF Reading
<1> QED BY <1>a, <1>1, <1>10, <1>12, <1>13, <1>14, <1>15 DEF Reading

\* A row is done: it is handled now, or it is outdated and will be read again.
LEMMA RowDone ==
    ASSUME IInv, NEW w \in Workers, NEW r \in page[w], NEW key \in Keys,
           pc[w] = "rows", NextRow(w, r), Visited(w, r, key),
           UNCHANGED <<icg, cursor, task, source, pc, more>>,
           r = Row(source[w], r.item) => Handled(source[w], r.item)',
           \A s \in Sources, i \in Items :
                <<s, i>> # <<source[w], r.item>> => Handled(s, i)' = Handled(s, i)
    PROVE  Reading(w)' /\ Ahead'
<1>0. TypeOK /\ Reading(w) /\ Ahead
  BY DEF IInv, AllReading, TasksApart
<1>a. PICK s \in Sources : s = source[w]
  BY <1>0 DEF IInv, TypeOK, TasksApart
<1>1. /\ r \in Fetched /\ r.item \in Items /\ r.at \in Nat /\ pos[w].at \in Nat /\ last[w] \in Nat
      /\ \A q \in page[w] : q.at \in Nat /\ q.item \in Items
      /\ \A i \in Items : view[s][i].at \in Nat
  BY <1>0, RowTypes DEF TypeOK, Fetched, Date, Position
<1>2. /\ page'[w] = page[w] \ {r} /\ last'[w] = r.at /\ pos'[w].at = pos[w].at
  BY <1>0 DEF Visited, TypeOK, Position
<1>3. \A q \in page[w] : q.at >= r.at
  BY <1>1 DEF NextRow, Before
<1>4. UNCHANGED <<view, now, tied, cursor, task, source, pc>>
  BY DEF icg
<1>5. r = Row(s, r.item) \/ Outdated(w, r)
  BY <1>0, <1>a DEF Reading
<1>6. Reached(s, r.at) /\ \A q \in page[w] : Reached(s, q.at)
  BY <1>0, <1>a DEF Reading
<1>7. ASSUME NEW q \in page'[w]
      PROVE  (q = Row(s, q.item) \/ Outdated(w, q))'
  <2>1. q \in page[w]
    BY <1>2
  <2>2. q = Row(s, q.item) \/ Outdated(w, q)
    BY <1>0, <1>a, <2>1 DEF Reading
  <2> QED BY <1>a, <1>2, <1>4, <2>1, <2>2 DEF Row, Outdated, Tied
<1>8. ASSUME task[w] = "import"
      PROVE  /\ pos'[w].at = cursor'[s].at
             /\ last'[w] >= pos'[w].at
             /\ \A q \in page'[w] : q.at >= last'[w]
  <2>1. pos[w].at = cursor[s].at /\ last[w] >= pos[w].at /\ r.at >= last[w]
    BY <1>0, <1>a, <1>8 DEF Reading
  <2> QED BY <1>1, <1>2, <1>3, <1>4, <2>1
<1>9. ASSUME task[w] = "import", NEW i \in Items
      PROVE  (\/ Handled(s, i) \/ Tied(s, i)
              \/ Row(s, i) \in page[w]
              \/ view[s][i].at > last[w] /\ \A q \in page[w] : view[s][i].at > q.at)'
  <2>1. CASE i = r.item
    BY <1>a, <1>1, <1>2, <1>4, <1>5, <2>1 DEF Outdated, Tied
  <2>2. CASE i # r.item
    <3>1. \/ Handled(s, i) \/ Tied(s, i)
          \/ Row(s, i) \in page[w]
          \/ view[s][i].at > last[w] /\ \A q \in page[w] : view[s][i].at > q.at
      BY <1>0, <1>a, <1>9 DEF Reading
    <3>2. Handled(s, i)' = Handled(s, i)
      BY <1>a, <2>2
    <3>3. Row(s, i)' = Row(s, i) /\ Row(s, i) # r /\ Tied(s, i)' = Tied(s, i)
      BY <1>1, <1>4, <2>2 DEF Row, Tied
    <3>4. CASE Row(s, i) \in page[w]
      BY <1>2, <3>3, <3>4
    <3>5. CASE view[s][i].at > last[w] /\ \A q \in page[w] : view[s][i].at > q.at
      BY <1>2, <1>4, <3>5
    <3> QED BY <3>1, <3>2, <3>3, <3>4, <3>5
  <2> QED BY <2>1, <2>2
<1>10. Reached(s, last[w])' /\ \A q \in page'[w] : (Reached(s, q.at))'
  BY <1>2, <1>4, <1>6 DEF Reached
<1>11. Reading(w)'
  BY <1>a, <1>4, <1>7, <1>8, <1>9, <1>10 DEF Reading
<1>12. ASSUME NEW t \in Sources, NEW i \in Items
       PROVE  (Handled(t, i) \/ Tied(t, i) \/ view[t][i].at > cursor[t].at)'
  <2>1. CASE <<t, i>> = <<s, r.item>>
    BY <1>a, <1>4, <1>5, <2>1 DEF Outdated, Tied
  <2>2. CASE <<t, i>> # <<s, r.item>>
    BY <1>0, <1>a, <1>4, <2>2 DEF Ahead, Tied
  <2> QED BY <2>1, <2>2
<1> QED BY <1>11, <1>12 DEF Ahead

LEMMA ReadingKept ==
    ASSUME IInv, Next
    PROVE  AllReading' /\ Ahead'
<1>0. TypeOK /\ TasksApart /\ AllReading /\ Ahead /\ DatesSound /\ DatesDiffer
  BY DEF IInv
<1>1. ASSUME NEW s \in Sources, NEW i \in Items, Change(s, i)
      PROVE  AllReading' /\ Ahead'
  <2>1. AllReading'
    BY <1>1, ReadingThroughChange DEF AllReading, Change, mine
  <2>2. ASSUME NEW t \in Sources, NEW j \in Items
        PROVE  (Handled(t, j) \/ Tied(t, j) \/ view[t][j].at > cursor[t].at)'
    <3>1. UNCHANGED <<catalog, cursor>>
      BY <1>1 DEF Change
    <3>2. CASE <<t, j>> = <<s, i>>
      <4>1. cursor[t].at \in Date /\ Reached(t, cursor[t].at) /\ now' \in Nat
        BY <1>0, <1>1 DEF TypeOK, DatesSound, Position, Change
      <4>2. cursor[t].at < now' \/ now' \in tied'[t]
        BY <1>1, <3>2, <4>1, ChangeIsNew
      <4>3. view'[t][j].at = now'
        BY <1>1, <3>2, ChangeIsNew
      <4> QED BY <3>1, <4>1, <4>2, <4>3 DEF Tied, Date
    <3>3. CASE <<t, j>> # <<s, i>>
      <4>1. view'[t][j] = view[t][j] /\ tied[t] \subseteq tied'[t]
        BY <1>1, <3>3, ChangeIsNew
      <4> QED BY <1>0, <3>1, <4>1 DEF Ahead, Handled, Tied, catalog
    <3> QED BY <3>2, <3>3
  <2> QED BY <2>1, <2>2 DEF Ahead
<1>2. ASSUME NEW w \in Workers, Starts(w)
      PROVE  AllReading' /\ Ahead'
  <2>1. UNCHANGED <<icg, catalog, cursor, last>>
    BY <1>2 DEF Starts, ImportStart, Refresh
  <2>2. PICK s \in Sources : ImportStart(w, s) \/ \E items \in SUBSET Items : Refresh(w, s, items)
    BY <1>2 DEF Starts
  <2>3. pc[w] = "idle" /\ last[w] = 0 /\ page[w] = {} /\ source'[w] = s
    BY <1>0, <2>2 DEF ImportStart, Refresh, Begin, TasksApart, TypeOK
  <2>4. Reached(s, 0)
    BY <1>0 DEF Reached, TypeOK
  <2>5. ASSUME ImportStart(w, s)
        PROVE  Reading(w)'
    <3>1. task'[w] = "import" /\ pc'[w] = "fetch" /\ pos'[w] = cursor[s] /\ page'[w] = {}
      BY <1>0, <2>3, <2>5 DEF ImportStart, Begin, TypeOK
    <3>2. last'[w] = 0 /\ cursor' = cursor /\ now' = now /\ view' = view
      BY <2>1, <2>3 DEF icg
    <3>3. Reached(source'[w], last'[w]) /\ Reached(s, 0)'
      BY <2>3, <2>4, <3>2 DEF Reached
    <3> QED BY <2>3, <3>1, <3>2, <3>3 DEF Reading, Reached
  <2>6. ASSUME NEW items \in SUBSET Items, Refresh(w, s, items)
        PROVE  Reading(w)'
    <3>1. task'[w] = "refresh" /\ page'[w] = {r \in InView(s) : r.item \in items}
      BY <1>0, <2>6 DEF Refresh, Begin, TypeOK
    <3>2. \A r \in page'[w] : r \in Fetched /\ r.item \in Items /\ r = Row(s, r.item)
      BY <1>0, <3>1, RowTypes DEF Fetched
    <3>3. \A r \in page'[w] : Reached(s, r.at)
      <4>1. \A i \in Items : view[s][i].at \in Nat /\ view[s][i].at <= now /\ now \in Nat
        BY <1>0, RowTypes DEF DatesSound, TypeOK, Date
      <4> QED BY <3>2, <4>1 DEF Reached, Row
    <3>4. \A r \in page'[w] : (Reached(s, r.at) /\ r = Row(s, r.item))'
      BY <2>1, <3>2, <3>3 DEF Reached, Row, icg
    <3> QED BY <2>1, <2>3, <2>4, <3>1, <3>4 DEF Reading, Reached, icg
  <2>7. Reading(w)'
    <3>1. CASE ImportStart(w, s)
      BY <2>5, <3>1
    <3>2. CASE \E items \in SUBSET Items : Refresh(w, s, items)
      <4>1. PICK items \in SUBSET Items : Refresh(w, s, items)
        BY <3>2
      <4> QED BY <2>6, <4>1
    <3> QED BY <2>2, <3>1, <3>2
  <2> QED BY <1>0, <1>2, <2>1, <2>7, Others DEF AllReading, Ahead, Handled, Tied, icg, catalog
<1>3. ASSUME NEW w \in Workers, Ends(w)
      PROVE  AllReading' /\ Ahead'
  <2>1. source'[w] = NoSource /\ UNCHANGED <<icg, catalog, cursor>>
    BY <1>0, <1>3 DEF Ends, Forget, TypeOK
  <2> QED BY <1>0, <1>3, <2>1, Others DEF AllReading, Ahead, Handled, Tied, icg, catalog
<1>4. ASSUME NEW w \in Workers, Reads(w)
      PROVE  AllReading' /\ Ahead'
  <2>0. PICK s \in Sources : s = source[w]
    BY <1>0, <1>4 DEF Reads, Fetch, TasksApart, TypeOK
  <2> DEFINE rows == {r \in InView(s) : Behind(pos[w], r)}
  <2>1. /\ UNCHANGED <<icg, catalog, cursor, task, source, pos>>
        /\ pc'[w] = "rows" /\ last'[w] = pos[w].at
        /\ \E p \in FirstRows(rows) : page'[w] = p
    BY <1>0, <1>4, <2>0 DEF Reads, Fetch, Forget, TypeOK
  <2>2. PICK p \in FirstRows(rows) : page'[w] = p
    BY <2>1
  <2>3. p \subseteq rows /\ \A r \in p, q \in rows \ p : ~Before(q, r)
    <3> HIDE DEF rows
    <3> QED BY PageIsFirst
  <2>4. \A r \in p : r \in InView(s) /\ Behind(pos[w], r)
    BY <2>3
  <2>5. \A r \in p : r \in Fetched /\ r.item \in Items /\ r = Row(s, r.item) /\ r.at \in Nat
    BY <1>0, <2>4, RowTypes DEF Fetched, Date
  <2>6. pos[w].at \in Nat /\ \A i \in Items : view[s][i].at \in Nat /\ view[s][i].at <= now /\ now \in Nat
    BY <1>0, RowTypes DEF TypeOK, Position, DatesSound, Date
  <2>7. \A r \in p : Reached(s, r.at)
    BY <2>5, <2>6 DEF Reached, Row
  <2>8. \A r \in p : r.at >= pos[w].at
    BY <2>4, <2>5, <2>6 DEF Behind
  <2>9. task[w] = "import" /\ pos[w].at = cursor[s].at /\ Reached(s, pos[w].at)
    BY <1>0, <1>4, <2>0, Constants DEF Reads, Fetch, AllReading, Reading, TasksApart, DatesSound
  <2>10. ASSUME NEW i \in Items, ~Handled(s, i), ~Tied(s, i), Row(s, i) \notin p
         PROVE  view[s][i].at > pos[w].at /\ \A q \in p : view[s][i].at > q.at
    <3>1. view[s][i].at > pos[w].at
      BY <1>0, <2>9, <2>10 DEF Ahead
    <3>2. Row(s, i) \in rows
      BY <1>0, <2>6, <3>1, RowTypes DEF Behind, Row
    <3>3. ASSUME NEW q \in p
          PROVE  view[s][i].at > q.at
      <4>1. ~Before(Row(s, i), q)
        BY <2>3, <2>10, <3>2
      <4>2. view[s][i].at >= q.at
        BY <2>5, <2>6, <4>1 DEF Before, Row
      <4>3. view[s][i].at # q.at
        <5>1. q = Row(s, q.item) /\ q.item \in Items /\ q.at = view[s][q.item].at
          BY <2>5 DEF Row
        <5>2. q.item # i
          BY <2>10, <5>1
        <5> QED BY <1>0, <2>6, <2>10, <3>1, <5>1, <5>2 DEF DatesDiffer
      <4> QED BY <2>5, <2>6, <4>2, <4>3
    <3> QED BY <3>1, <3>3
  <2> HIDE DEF rows
  <2>11. Reading(w)'
    <3>1. Reached(s, last[w])' /\ \A r \in page'[w] : (Reached(s, r.at) /\ r = Row(s, r.item))'
      BY <2>1, <2>2, <2>5, <2>7, <2>9 DEF Reached, Row, icg
    <3>2. last'[w] >= pos'[w].at /\ \A r \in page'[w] : r.at >= last'[w]
      BY <2>1, <2>2, <2>6, <2>8
    <3>3. \A i \in Items :
            (\/ Handled(s, i) \/ Tied(s, i)
             \/ Row(s, i) \in page[w]
             \/ view[s][i].at > last[w] /\ \A q \in page[w] : view[s][i].at > q.at)'
      BY <2>1, <2>2, <2>10 DEF Handled, Tied, Row, icg, catalog
    <3> QED BY <2>0, <2>1, <2>9, <3>1, <3>2, <3>3 DEF Reading
  <2> QED BY <1>0, <1>4, <2>1, <2>11, Others DEF AllReading, Ahead, Handled, Tied, icg, catalog
<1>5. ASSUME NEW w \in Workers, Persist(w)
      PROVE  AllReading' /\ Ahead'
  <2>1. PICK r \in page[w] : /\ NextRow(w, r)
                             /\ local' = [local EXCEPT ![source[w]][r.item] = r.version]
                             /\ Visited(w, r, Code[r.item])
    BY <1>5 DEF Persist
  <2>2. r \in Fetched /\ source[w] \in Sources
    BY <1>0, <1>5 DEF Persist, TasksApart, TypeOK
  <2>3. r.item \in Items /\ Code[r.item] \in Keys
    BY <2>2 DEF Fetched, Keys
  <2>4. UNCHANGED <<icg, skipped, cursor, task, source, pc, more>> /\ pc[w] = "rows"
    BY <1>5 DEF Persist
  <2>5. \A s \in Sources, i \in Items :
            local'[s][i] = IF <<s, i>> = <<source[w], r.item>> THEN r.version ELSE local[s][i]
    BY <1>0, <2>1, <2>3 DEF TypeOK
  <2>6. r = Row(source[w], r.item) => Handled(source[w], r.item)'
    BY <2>2, <2>3, <2>4, <2>5 DEF Handled, Row, icg
  <2>7. \A s \in Sources, i \in Items :
            <<s, i>> # <<source[w], r.item>> => Handled(s, i)' = Handled(s, i)
    BY <2>4, <2>5 DEF Handled, icg
  <2>8. Reading(w)' /\ Ahead'
    BY <2>1, <2>3, <2>4, <2>6, <2>7, RowDone
  <2> QED BY <1>5, <2>8, Others DEF AllReading
<1>6. ASSUME NEW w \in Workers, Skip(w)
      PROVE  AllReading' /\ Ahead'
  <2>1. PICK r \in page[w] : /\ NextRow(w, r)
                             /\ skipped' = [skipped EXCEPT ![source[w]] = @ \cup {<<r.item, r.version>>}]
                             /\ Visited(w, r, pos[w].key)
    BY <1>6 DEF Skip
  <2>2. r \in Fetched /\ source[w] \in Sources /\ pos[w] \in Position
    BY <1>0, <1>6 DEF Skip, TasksApart, TypeOK
  <2>3. r.item \in Items /\ pos[w].key \in Keys
    BY <2>2 DEF Fetched, Position
  <2>4. UNCHANGED <<icg, local, cursor, task, source, pc, more>> /\ pc[w] = "rows"
    BY <1>6 DEF Skip
  <2>5. \A s \in Sources :
            skipped'[s] = IF s = source[w] THEN skipped[s] \cup {<<r.item, r.version>>} ELSE skipped[s]
    BY <1>0, <2>1 DEF TypeOK
  <2>6. r = Row(source[w], r.item) => Handled(source[w], r.item)'
    <3>1. r = Row(source[w], r.item) => r.version = view[source[w]][r.item].version
      BY DEF Row
    <3>2. <<r.item, r.version>> \in skipped'[source[w]]
      BY <2>2, <2>5
    <3> QED BY <2>4, <3>1, <3>2 DEF Handled, icg
  <2>7. ASSUME NEW s \in Sources, NEW i \in Items, <<s, i>> # <<source[w], r.item>>
        PROVE  Handled(s, i)' = Handled(s, i)
    <3>1. <<i, view[s][i].version>> \in skipped'[s] <=> <<i, view[s][i].version>> \in skipped[s]
      <4>1. CASE s # source[w]
        BY <2>5, <4>1
      <4>2. CASE s = source[w] /\ i # r.item
        <5>1. <<i, view[s][i].version>> # <<r.item, r.version>>
          BY <4>2
        <5> QED BY <2>5, <4>2, <5>1
      <4> QED BY <2>7, <4>1, <4>2
    <3> QED BY <2>4, <3>1 DEF Handled, icg
  <2>8. Reading(w)' /\ Ahead'
    BY <2>1, <2>3, <2>4, <2>6, <2>7, RowDone
  <2> QED BY <1>6, <2>8, Others DEF AllReading
<1>7. ASSUME NEW w \in Workers, Advance(w)
      PROVE  AllReading' /\ Ahead'
  <2>0. PICK s \in Sources : s = source[w]
    BY <1>0, <1>7 DEF Advance, TasksApart, TypeOK
  <2>1. /\ task[w] = "import" /\ pc[w] = "rows" /\ page[w] = {} /\ UNCHANGED <<icg, catalog>>
        /\ \A t \in Sources : cursor'[t] = IF t = s THEN [at |-> last[w], key |-> pos[w].key] ELSE cursor[t]
    BY <1>0, <1>7, <2>0 DEF Advance, TypeOK
  <2>2. Reading(w)
    BY <1>0, <2>0, Constants DEF AllReading
  <2>3. \A i \in Items : Handled(s, i) \/ Tied(s, i) \/ view[s][i].at > last[w]
    BY <2>0, <2>1, <2>2 DEF Reading
  <2>4. Ahead'
    BY <1>0, <2>1, <2>3 DEF Ahead, Handled, Tied, icg, catalog
  <2>5. CASE Forget(w)
    <3>1. source'[w] = NoSource
      BY <1>0, <2>5 DEF Forget, TypeOK
    <3> QED BY <1>7, <2>4, <3>1, Others DEF AllReading
  <2>6. CASE pos' = [pos EXCEPT ![w].at = last[w]] /\ pc' = [pc EXCEPT ![w] = "fetch"]
             /\ UNCHANGED <<task, source, page, last, more>>
    <3>1. pos'[w].at = last[w] /\ pc'[w] = "fetch"
      BY <1>0, <2>6 DEF TypeOK, Position
    <3>2. Reached(s, last[w])'
      BY <2>0, <2>1, <2>2, <2>6 DEF Reading, Reached, icg
    <3>3. Reading(w)'
      BY <2>0, <2>1, <2>6, <3>1, <3>2 DEF Reading
    <3> QED BY <1>7, <2>4, <3>3, Others DEF AllReading
  <2> QED BY <1>7, <2>5, <2>6 DEF Advance
<1> QED BY <1>1, <1>2, <1>3, <1>4, <1>5, <1>6, <1>7, Effects
-----------------------------------------------------------------------------
(* Theorems *)

LEMMA Inductive ==
    ASSUME Overlap = FALSE
    PROVE  Spec => []IInv
<1>1. Init => IInv
  <2> SUFFICES ASSUME Init PROVE IInv
    OBVIOUS
  <2>1. AtStart \in Position /\ 0 \in Date /\ 0 \in Version /\ [at |-> 0, version |-> 0] \in ViewRow
    BY Constants DEF AtStart, Position, Date, Version, Keys, ViewRow
  <2>2. TypeOK
    BY <2>1, Constants DEF Init, TypeOK
  <2>3. DatesSound /\ DatesDiffer /\ TasksApart /\ AllReading /\ Ahead
    BY Constants DEF Init, AtStart, DatesSound, Reached, DatesDiffer, TasksApart, AllReading, Ahead, Handled
  <2> QED BY <2>2, <2>3 DEF IInv
<1>2. IInv /\ [Next]_vars => IInv'
  <2> SUFFICES ASSUME IInv, [Next]_vars PROVE IInv'
    OBVIOUS
  <2>1. CASE Next
    BY <2>1, TypesKept, DatesKept, ApartKept, ReadingKept DEF IInv
  <2>2. CASE UNCHANGED vars
    BY <2>2 DEF vars, IInv, TypeOK, DatesSound, DatesDiffer, TasksApart, AllReading, Ahead,
       Reading, Reached, Outdated, Handled, Tied, Row
  <2> QED BY <2>1, <2>2
<1> QED BY <1>1, <1>2, PTL DEF Spec

\* The invariant of the imports, by which the next theorem holds, holds for
\* any number of processes, views, items and changes.
THEOREM ImportsAreSound ==
    ASSUME Overlap = FALSE
    PROVE  Spec => []IInv
BY Inductive

\* However many rows, pages, failures, deaths and refreshes: the imports pass
\* over no change except one that shares its date with another change.
THEOREM NoChangeIsLost ==
    ASSUME Overlap = FALSE
    PROVE  Spec => []NothingIsLost
<1>1. IInv => NothingIsLost
  BY RowTypes DEF IInv, Ahead, NothingIsLost, Behind, Row
<1> QED BY <1>1, Inductive, PTL
=============================================================================
