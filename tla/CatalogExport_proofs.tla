------------------------ MODULE CatalogExport_proofs ------------------------
(***************************************************************************)
(* The ids that the export keeps, in the catalog, in its tasks and in      *)
(* their cached listings, never lead to the combination of another         *)
(* variant, for any number of processes and combinations:                  *)
(* Spec => []MappedToOwn.                                                  *)
(***************************************************************************)
EXTENDS CatalogExport, FiniteSetTheorems, TLAPS

\* The constants that the proofs need.
LEMMA Constants ==
    /\ MaxIds \in Nat \ {0} /\ MaxEvents \in Nat
    /\ NoCombo \notin Combos
    /\ Legacy \subseteq Combos
    /\ Ids \subseteq Nat /\ Version \subseteq Nat /\ 0 \notin Ids
BY ExportAssumption DEF ExportAssumption, NoCombo, Ids, Version

\* Which combination a process works on.
LEMMA OnCombo ==
    ASSUME IInv, NEW w \in Workers, pc[w] \notin {"idle", "next"}
    PROVE  on[w] \in Combos /\ kind[w] \in Kinds
BY DEF IInv, TypeOK, AtWork

\* 0 is nobody's id.
LEMMA NoId ==
    ASSUME TypeOK, NEW c
    PROVE  Own(0, c)
BY Constants DEF TypeOK, Own, ShopCombo

\* What a combination of the shop shows, its own id leads to.
LEMMA ShopOwn ==
    ASSUME TypeOK, IdsDiffer, NEW s \in shop
    PROVE  s \in ShopCombo /\ Own(s.id, s.variant)
BY DEF TypeOK, IdsDiffer, Own
-----------------------------------------------------------------------------
(* What a step does to the shop *)

\* No combination gets a new id or another variant.
ShopKept ==
    /\ created' = created
    /\ \A s \in shop' : \E t \in shop : t.id = s.id /\ t.variant = s.variant
    /\ \A s, t \in shop' : s.id = t.id => s = t

\* One is added, with a new id.
Added(c) ==
    /\ created' = created + 1
    /\ \E s \in ShopCombo : s.id = created' /\ s.variant = c /\ shop' = shop \cup {s}

LEMMA Subset ==
    ASSUME IInv, shop' \subseteq shop, UNCHANGED created
    PROVE  ShopKept
BY DEF IInv, IdsDiffer, ShopKept

\* A PUT changes what belongs to the id.
LEMMA Changed ==
    ASSUME IInv, UNCHANGED created, NEW f,
           shop' = {f[s] : s \in shop},
           \A s \in shop : f[s].id = s.id /\ f[s].variant = s.variant
    PROVE  ShopKept
<1>1. \A s \in shop' : \E t \in shop : s = f[t]
  OBVIOUS
<1>2. \A s \in shop' : \E t \in shop : t.id = s.id /\ t.variant = s.variant
  BY <1>1
<1>3. ASSUME NEW s \in shop', NEW t \in shop', s.id = t.id
      PROVE  s = t
  <2>1. PICK u \in shop, v \in shop : s = f[u] /\ t = f[v]
    BY <1>1
  <2>2. u.id = v.id
    BY <1>3, <2>1
  <2> QED BY <2>1, <2>2 DEF IInv, IdsDiffer
<1> QED BY <1>2, <1>3 DEF ShopKept

LEMMA Posted ==
    ASSUME IInv, NEW w \in Workers, Post(w)
    PROVE  on[w] \in Combos /\ Added(on[w])
<1>1. on[w] \in Combos
  BY OnCombo DEF Post
<1> DEFINE new == [id |-> created', variant |-> on[w], price |-> value[w], quantity |-> 0]
<1>2. created' = created + 1 /\ created' \in Ids
  BY Constants DEF Post, IInv, TypeOK, Ids
<1>3. new \in ShopCombo
  BY <1>1, <1>2, Constants DEF IInv, TypeOK, ShopCombo, Version
<1>4. shop' = shop \cup {new}
  BY DEF Post
<1> QED BY <1>1, <1>2, <1>3, <1>4 DEF Added

\* Whatever happens, an id keeps its worth.
LEMMA OwnStays ==
    ASSUME IInv, ShopKept \/ \E c \in Combos : Added(c)
    PROVE  IdsDiffer' /\ \A c : \A i \in {0} \cup Ids : Own(i, c) => Own(i, c)'
<1>0. created \in Nat /\ \A s \in shop : s.id \in Nat /\ s.id <= created
  <2>1. created \in {0} \cup Ids /\ \A s \in shop : s.id \in Ids
    BY DEF IInv, TypeOK, ShopCombo
  <2>2. created \in Nat
    BY <2>1, Constants
  <2>3. \A s \in shop : s.id \in Nat
    BY <2>1, Constants
  <2> QED BY <2>2, <2>3 DEF IInv, IdsDiffer
<1>1. CASE ShopKept
  <2>1. IdsDiffer'
    BY <1>0, <1>1 DEF ShopKept, IdsDiffer
  <2>2. ASSUME NEW i \in {0} \cup Ids, NEW c, Own(i, c) PROVE Own(i, c)'
    BY <1>1, <2>2 DEF ShopKept, Own
  <2> QED BY <2>1, <2>2
<1>2. ASSUME NEW c \in Combos, Added(c)
      PROVE  IdsDiffer' /\ \A d : \A i \in {0} \cup Ids : Own(i, d) => Own(i, d)'
  <2>1. PICK s \in ShopCombo : s.id = created' /\ s.variant = c /\ shop' = shop \cup {s}
    BY <1>2 DEF Added
  <2>2. created' = created + 1 /\ \A t \in shop : t.id # s.id
    BY <1>0, <1>2, <2>1 DEF Added
  <2>3. IdsDiffer'
    BY <1>0, <2>1, <2>2 DEF IdsDiffer, IInv
  <2>4. ASSUME NEW i \in {0} \cup Ids, NEW d, Own(i, d) PROVE Own(i, d)'
    <3>1. i \in Nat /\ i <= created
      BY <2>4, Constants DEF Own
    <3>2. i <= created' /\ i # s.id
      BY <1>0, <2>1, <2>2, <3>1
    <3> QED BY <2>1, <2>4, <3>2 DEF Own
  <2> QED BY <2>3, <2>4
<1> QED BY <1>1, <1>2

LEMMA ShopSteps ==
    ASSUME IInv, Next, \A w \in Workers : ~Post(w)
    PROVE  ShopKept
<1>1. ASSUME NEW w \in Workers, Put(w)
      PROVE  ShopKept
  <2> DEFINE f == [s \in shop |-> IF s.id = target[w] THEN [s EXCEPT !.variant = on[w], !.price = value[w]] ELSE s]
  <2>1. \A s \in shop : s.id = target[w] => s.variant = on[w]
    BY DEF IInv, KnownOwn, Own
  <2>2. \A s \in shop : f[s].id = s.id /\ f[s].variant = s.variant
    BY <2>1 DEF IInv, TypeOK, ShopCombo
  <2>3. shop' = {f[s] : s \in shop} /\ UNCHANGED created
    BY <1>1 DEF Put
  <2> HIDE DEF f
  <2> QED BY <2>2, <2>3, Changed
<1>2. ASSUME NEW w \in Workers, Quantity(w)
      PROVE  ShopKept
  <2> DEFINE f == [s \in shop |-> IF s.id = target[w] THEN [s EXCEPT !.quantity = value[w]] ELSE s]
  <2>1. \A s \in shop : f[s].id = s.id /\ f[s].variant = s.variant
    BY DEF IInv, TypeOK, ShopCombo
  <2>2. shop' = {f[s] : s \in shop} /\ UNCHANGED created
    BY <1>2 DEF Quantity
  <2> HIDE DEF f
  <2> QED BY <2>1, <2>2, Changed
<1>3. ASSUME NEW w \in Workers, Step(w), ~Put(w), ~Quantity(w)
      PROVE  ShopKept
  <2>1. CASE Delete(w)
    BY <2>1, Subset DEF Delete
  <2>2. CASE Take(w) \/ Combination(w) \/ Prepare(w) \/ Missing(w) \/ Save(w)
    BY <2>2, Subset DEF Take, Combination, Prepare, Missing, Save, remote
  <2>3. CASE Price(w) \/ Close(w) \/ Stock(w) \/ QuantityMissing(w)
    BY <2>3, Subset DEF Price, Close, Stock, QuantityMissing, remote
  <2> QED BY <1>3, <2>1, <2>2, <2>3 DEF Step
<1>4. ASSUME NEW w \in Workers, Fails(w) \/ Stop(w)
      PROVE  ShopKept
  BY <1>4, Subset DEF Fails, Stop, remote
<1>5. ASSUME NEW w \in Workers, NEW k \in Kinds, BatchStart(w, k) \/ \E c \in Combos : Retry(w, k, c)
      PROVE  ShopKept
  BY <1>5, Subset DEF BatchStart, Retry, remote
<1>6. ASSUME NEW c \in Combos, ImportPrice(c) \/ ImportStock(c) \/ ImportProduct(c)
      PROVE  ShopKept
  BY <1>6, Subset DEF ImportPrice, ImportStock, ImportProduct, remote
<1>7. CASE ExportProduct
  BY <1>7, Subset DEF ExportProduct, remote
<1>8. CASE Operator
  BY <1>8, Subset DEF Operator, ShopDeletes, ResetIds, Reconcile, DeleteDuplicates, remote
<1> QED BY <1>1, <1>2, <1>3, <1>4, <1>5, <1>6, <1>7, <1>8 DEF Next
-----------------------------------------------------------------------------
(* What a step does to a process *)

MineOK ==
    /\ kind \in [Workers -> Kinds \cup {"none"}]
    /\ batch \in [Workers -> BOOLEAN]
    /\ todo \in [Workers -> SUBSET Combos]
    /\ on \in [Workers -> Combos \cup {NoCombo}]
    /\ pc \in [Workers -> Places]
    /\ target \in [Workers -> {0} \cup Ids]
    /\ value \in [Workers -> Version]
    /\ listed \in [Workers -> BOOLEAN]
    /\ cache \in [Workers -> SUBSET ShopCombo]

\* Nobody else is affected.
Alone(w) ==
    \A v \in Workers \ {w} :
        /\ kind'[v] = kind[v] /\ pc'[v] = pc[v] /\ on'[v] = on[v]
        /\ target'[v] = target[v] /\ cache'[v] = cache[v]

\* The process has nothing in hand; its listing may stay.
Parks(w) ==
    /\ pc'[w] \in {"idle", "next"}
    /\ kind'[w] = "none" => pc'[w] = "idle"
    /\ target'[w] = 0
    /\ cache'[w] \in {cache[w], {}}

\* It works on a combination, with an id and a listing that are worth something.
Works(w) ==
    /\ pc'[w] \notin {"idle", "next"}
    /\ kind'[w] # "none"
    /\ on'[w] # NoCombo
    /\ Own(target'[w], on'[w])
    /\ \A t \in cache'[w] : Own(t.id, t.variant)

LEMMA MineTypes ==
    ASSUME TypeOK
    PROVE  MineOK
BY DEF TypeOK, MineOK

LEMMA ForgetDoes ==
    ASSUME IInv, NEW w \in Workers, Forget(w)
    PROVE  MineOK' /\ Alone(w) /\ Parks(w)
<1>1. MineOK
  BY MineTypes DEF IInv
<1>2. MineOK'
  BY <1>1, Constants DEF Forget, MineOK, Places, Version
<1>3. Alone(w) /\ Parks(w)
  BY <1>1 DEF Forget, MineOK, Alone, Parks
<1> QED BY <1>2, <1>3

LEMMA LeaveDoes ==
    ASSUME IInv, NEW w \in Workers, pc[w] # "idle", Leave(w)
    PROVE  MineOK' /\ Alone(w) /\ Parks(w)
<1>1. MineOK /\ kind[w] # "none"
  BY MineTypes DEF IInv, AtWork
<1>2. CASE Forget(w)
  BY <1>2, ForgetDoes
<1>3. CASE ~Forget(w)
  <2>1. MineOK'
    BY <1>1, <1>3, Constants DEF Leave, MineOK, Places, Version
  <2>2. Alone(w) /\ Parks(w)
    BY <1>1, <1>3 DEF Leave, MineOK, Alone, Parks
  <2> QED BY <2>1, <2>2
<1> QED BY <1>2, <1>3

LEMMA FailedDoes ==
    ASSUME IInv, NEW w \in Workers, pc[w] \notin {"idle", "next"}, Failed(w)
    PROVE  MineOK' /\ Alone(w) /\ Parks(w) /\ flagged' \in [Kinds -> SUBSET Combos]
<1>1. on[w] \in Combos /\ kind[w] \in Kinds /\ flagged \in [Kinds -> SUBSET Combos]
  BY OnCombo DEF IInv, TypeOK
<1>2. flagged' \in [Kinds -> SUBSET Combos]
  BY <1>1 DEF Failed, Kinds
<1> QED BY <1>2, LeaveDoes DEF Failed

\* The process goes on with the same combination; it knows an id and a listing.
LEMMA GotoDoes ==
    ASSUME IInv, NEW w \in Workers, pc[w] \notin {"idle", "next"},
           NEW place \in Places \ {"idle", "next"}, Goto(w, place),
           NEW i \in {0} \cup Ids, target' = [target EXCEPT ![w] = i], Own(i, on[w]),
           NEW v \in Version, value' = [value EXCEPT ![w] = v],
           NEW b \in BOOLEAN, listed' = [listed EXCEPT ![w] = b],
           NEW combos \in SUBSET ShopCombo, cache' = [cache EXCEPT ![w] = combos],
           \A t \in combos : Own(t.id, t.variant)
    PROVE  MineOK' /\ Alone(w) /\ Works(w)
<1>1. MineOK
  BY MineTypes DEF IInv
<1>2. MineOK'
  BY <1>1 DEF Goto, MineOK
<1>3. on[w] \in Combos /\ kind[w] \in Kinds
  BY OnCombo
<1>4. /\ pc'[w] = place /\ kind'[w] = kind[w] /\ on'[w] = on[w]
      /\ target'[w] = i /\ cache'[w] = combos
  BY <1>1 DEF Goto, MineOK
<1>5. Works(w)
  BY <1>3, <1>4, Constants DEF Works, Kinds
<1>6. Alone(w)
  BY <1>1 DEF Goto, MineOK, Alone
<1> QED BY <1>2, <1>5, <1>6

\* The same when it keeps what it knows.
LEMMA GotoKeeps ==
    ASSUME IInv, NEW w \in Workers, pc[w] \notin {"idle", "next"},
           NEW place \in Places \ {"idle", "next"}, Goto(w, place),
           NEW i \in {0} \cup Ids, target' = [target EXCEPT ![w] = i], Own(i, on[w]),
           NEW v \in Version, value' = [value EXCEPT ![w] = v],
           UNCHANGED <<listed, cache>>
    PROVE  MineOK' /\ Alone(w) /\ Works(w)
<1>1. MineOK
  BY MineTypes DEF IInv
<1>2. listed[w] \in BOOLEAN /\ listed' = [listed EXCEPT ![w] = listed[w]]
  BY <1>1 DEF MineOK
<1>3. cache[w] \in SUBSET ShopCombo /\ cache' = [cache EXCEPT ![w] = cache[w]]
  BY <1>1 DEF MineOK
<1>4. \A t \in cache[w] : Own(t.id, t.variant)
  BY DEF IInv, KnownOwn
<1> QED BY <1>2, <1>3, <1>4, GotoDoes

LEMMA GotoOnly ==
    ASSUME IInv, NEW w \in Workers, pc[w] \notin {"idle", "next"},
           NEW place \in Places \ {"idle", "next"}, Goto(w, place),
           UNCHANGED <<target, value, listed, cache>>
    PROVE  MineOK' /\ Alone(w) /\ Works(w)
<1>1. MineOK
  BY MineTypes DEF IInv
<1>2. target[w] \in {0} \cup Ids /\ target' = [target EXCEPT ![w] = target[w]] /\ Own(target[w], on[w])
  BY <1>1 DEF MineOK, IInv, KnownOwn
<1>3. value[w] \in Version /\ value' = [value EXCEPT ![w] = value[w]]
  BY <1>1 DEF MineOK
<1> QED BY <1>2, <1>3, GotoKeeps

LEMMA ReturnsDoes ==
    ASSUME IInv, NEW w \in Workers, pc[w] \notin {"idle", "next"}, Returns(w)
    PROVE  MineOK' /\ Alone(w) /\ (Parks(w) \/ Works(w))
<1>1. CASE Goto(w, "close") /\ UNCHANGED <<target, value, listed, cache>>
  <2>1. "close" \in Places \ {"idle", "next"}
    BY DEF Places
  <2> QED BY <1>1, <2>1, GotoOnly
<1>2. CASE Leave(w)
  BY <1>2, LeaveDoes
<1> QED BY <1>1, <1>2 DEF Returns

LEMMA AnsweredDoes ==
    ASSUME IInv, NEW w \in Workers, pc[w] \notin {"idle", "next"},
           NEW place \in Places \ {"idle", "next"}, Answered(w, place)
    PROVE  /\ MineOK' /\ Alone(w) /\ (Parks(w) \/ Works(w))
           /\ flagged' \in [Kinds -> SUBSET Combos] /\ events' \in Version
<1>1. flagged \in [Kinds -> SUBSET Combos] /\ events \in Version
  BY DEF IInv, TypeOK
<1>2. CASE Goto(w, place) /\ UNCHANGED <<flagged, target, value, listed, cache, events>>
  BY <1>1, <1>2, GotoOnly
<1>3. CASE Event /\ Failed(w)
  <2>1. events' \in Version
    BY <1>1, <1>3, Constants DEF Event, Version
  <2> QED BY <1>3, <2>1, FailedDoes
<1> QED BY <1>2, <1>3 DEF Answered
-----------------------------------------------------------------------------
(* The steps of a process *)

SharedOK ==
    /\ visible \in BOOLEAN /\ discontinued \in BOOLEAN /\ mapped \in BOOLEAN
    /\ active \in [Combos -> BOOLEAN]
    /\ psid \in [Combos -> {0} \cup Ids]
    /\ price \in [Combos -> Version]
    /\ stock \in [Combos -> Version]
    /\ flagged \in [Kinds -> SUBSET Combos]
    /\ shop \subseteq ShopCombo
    /\ created \in {0} \cup Ids
    /\ unsent \in [{"price", "stock"} -> SUBSET Combos]
    /\ raced \subseteq Combos
    /\ events \in Version

LEMMA Types ==
    /\ TypeOK <=> SharedOK /\ MineOK
    /\ TypeOK' <=> SharedOK' /\ MineOK'
BY DEF TypeOK, SharedOK, MineOK

PsidOwn == \A c \in Combos : Own(psid'[c], c)

LEMMA Same ==
    ASSUME IInv
    PROVE  SharedOK /\ MineOK /\ (UNCHANGED psid => PsidOwn)
BY Types DEF IInv, KnownOwn, PsidOwn

LEMMA Busy ==
    ASSUME IInv, NEW kinds
    PROVE  BusyWith(kinds) \subseteq Combos
BY DEF IInv, TypeOK, BusyWith

LEMMA Clears ==
    ASSUME IInv, NEW k \in Kinds, NEW c \in Combos, flagged' = Clear(k, c)
    PROVE  flagged' \in [Kinds -> SUBSET Combos]
BY Same DEF SharedOK, Clear

LEMMA Drops ==
    ASSUME IInv, NEW k \in Kinds, NEW w \in Workers, on[w] \in Combos, Drop(w, k)
    PROVE  /\ flagged' \in [Kinds -> SUBSET Combos]
           /\ unsent' \in [{"price", "stock"} -> SUBSET Combos]
<1>1. flagged' \in [Kinds -> SUBSET Combos]
  BY Clears DEF Drop
<1>2. Aspect(k) \in {"price", "stock"}
  BY DEF Aspect
<1>3. unsent' \in [{"price", "stock"} -> SUBSET Combos]
  BY <1>2, Same DEF Drop, SharedOK
<1> QED BY <1>1, <1>3

\* What every step of a process leaves behind.
Sound(w) == SharedOK' /\ MineOK' /\ Alone(w) /\ (Parks(w) \/ Works(w)) /\ PsidOwn

LEMMA BeginSound ==
    ASSUME IInv, NEW w \in Workers, NEW k \in Kinds, NEW entities \in SUBSET Combos,
           pc[w] = "idle", Begin(w, k, entities), batch' \in [Workers -> BOOLEAN]
    PROVE  MineOK' /\ Alone(w) /\ Parks(w) /\ raced' \subseteq Combos
<1>1. MineOK /\ SharedOK /\ target[w] = 0
  BY Same DEF IInv, AtWork
<1>2. MineOK'
  BY <1>1 DEF Begin, MineOK, Places
<1>3. Alone(w) /\ Parks(w)
  BY <1>1 DEF Begin, MineOK, Alone, Parks, Kinds
<1> QED BY <1>1, <1>2, <1>3 DEF Begin, SharedOK

LEMMA StartSound ==
    ASSUME IInv, NEW w \in Workers, NEW k \in Kinds,
           BatchStart(w, k) \/ \E c \in Combos : Retry(w, k, c)
    PROVE  Sound(w)
<1>0. SharedOK /\ MineOK
  BY Same
<1>1. CASE BatchStart(w, k)
  <2>1. flagged' \in [Kinds -> SUBSET Combos] /\ flagged'[k] \in SUBSET Combos
    BY <1>0, <1>1 DEF BatchStart, SharedOK
  <2>2. unsent' \in [{"price", "stock"} -> SUBSET Combos]
    <3>1. Aspect(k) \in {"price", "stock"} /\ flagged[k] \subseteq Combos
      BY <1>0 DEF Aspect, SharedOK
    <3> QED BY <1>0, <1>1, <3>1 DEF BatchStart, SharedOK
  <2>3. MineOK' /\ Alone(w) /\ Parks(w) /\ raced' \subseteq Combos
    <3>1. CASE Begin(w, k, flagged'[k]) /\ batch' = [batch EXCEPT ![w] = TRUE]
      <4>1. batch' \in [Workers -> BOOLEAN]
        BY <1>0, <3>1 DEF MineOK
      <4>2. pc[w] = "idle"
        BY <1>1 DEF BatchStart
      <4> QED BY <2>1, <3>1, <4>1, <4>2, BeginSound
    <3>2. CASE UNCHANGED <<mine, raced>>
      <4>1. target[w] = 0 /\ pc[w] = "idle"
        BY <1>1 DEF BatchStart, IInv, AtWork
      <4> QED BY <1>0, <3>2, <4>1 DEF mine, MineOK, SharedOK, Alone, Parks
    <3> QED BY <1>1, <3>1, <3>2 DEF BatchStart
  <2>4. UNCHANGED <<product, active, psid, price, stock, remote, events>>
    BY <1>1 DEF BatchStart
  <2>5. SharedOK'
    BY <1>0, <2>1, <2>2, <2>3, <2>4 DEF SharedOK, product, remote
  <2> QED BY <2>3, <2>4, <2>5, Same DEF Sound
<1>2. ASSUME NEW c \in Combos, Retry(w, k, c)
      PROVE  Sound(w)
  <2>1. MineOK' /\ Alone(w) /\ Parks(w) /\ raced' \subseteq Combos
    <3>1. batch' \in [Workers -> BOOLEAN] /\ pc[w] = "idle" /\ Begin(w, k, {c})
      BY <1>0, <1>2 DEF Retry, MineOK
    <3>2. {c} \in SUBSET Combos
      OBVIOUS
    <3> QED BY <3>1, <3>2, BeginSound
  <2>2. SharedOK' /\ UNCHANGED psid
    BY <1>0, <1>2, <2>1 DEF Retry, SharedOK, product, rows, remote
  <2> QED BY <2>1, <2>2, Same DEF Sound
<1> QED BY <1>1, <1>2

LEMMA TakeSound ==
    ASSUME IInv, NEW w \in Workers, Take(w)
    PROVE  Sound(w)
<1>1. SharedOK /\ MineOK /\ kind[w] \in Kinds /\ target[w] = 0
  BY Same DEF Take, IInv, AtWork, MineOK
<1>2. PICK c \in todo[w] : /\ on' = [on EXCEPT ![w] = c]
                          /\ todo' = [todo EXCEPT ![w] = @ \ {c}]
  BY DEF Take
<1>3. c \in Combos
  BY <1>1 DEF MineOK
<1>4. kind[w] \in Places \ {"idle", "next"}
  BY <1>1 DEF Kinds, Places
<1>5. MineOK'
  BY <1>1, <1>2, <1>3, <1>4 DEF Take, MineOK
<1>6. Alone(w)
  BY <1>1, <1>2 DEF Take, MineOK, Alone
<1>7. pc'[w] = kind[w] /\ kind'[w] = kind[w] /\ on'[w] = c /\ target'[w] = 0 /\ cache'[w] = cache[w]
  BY <1>1, <1>2 DEF Take, MineOK
<1>8. Own(0, c) /\ \A t \in cache[w] : Own(t.id, t.variant)
  BY NoId DEF IInv, KnownOwn
<1>9. Works(w)
  BY <1>1, <1>3, <1>4, <1>7, <1>8, Constants DEF Works, Kinds
<1>10. SharedOK' /\ UNCHANGED psid
  BY <1>1 DEF Take, SharedOK, product, rows, remote, history
<1> QED BY <1>5, <1>6, <1>9, <1>10, Same DEF Sound

LEMMA FailsSound ==
    ASSUME IInv, NEW w \in Workers, Fails(w) \/ Stop(w)
    PROVE  Sound(w)
<1>1. SharedOK
  BY Same
<1>2. events' \in Version
  BY <1>1, Constants DEF Fails, Stop, Event, SharedOK, Version
<1>3. CASE Fails(w)
  <2>1. MineOK' /\ Alone(w) /\ Parks(w) /\ flagged' \in [Kinds -> SUBSET Combos]
    BY <1>3, FailedDoes DEF Fails
  <2>2. SharedOK' /\ UNCHANGED psid
    BY <1>1, <1>2, <1>3, <2>1 DEF Fails, SharedOK, product, remote, history
  <2> QED BY <2>1, <2>2, Same DEF Sound
<1>4. CASE Stop(w)
  <2>1. MineOK' /\ Alone(w) /\ Parks(w)
    BY <1>4, ForgetDoes DEF Stop
  <2>2. SharedOK' /\ UNCHANGED psid
    BY <1>1, <1>2, <1>4 DEF Stop, SharedOK, product, rows, remote, history
  <2> QED BY <2>1, <2>2, Same DEF Sound
<1> QED BY <1>3, <1>4

LEMMA CombinationSound ==
    ASSUME IInv, NEW w \in Workers, Combination(w)
    PROVE  Sound(w)
<1> DEFINE c == on[w]
<1>1. SharedOK /\ MineOK /\ c \in Combos /\ pc[w] = "combination"
  BY Same, OnCombo DEF Combination
<1>2. psid[c] \in {0} \cup Ids /\ Own(psid[c], c)
  BY <1>1 DEF SharedOK, IInv, KnownOwn
<1>3. value[w] \in Version /\ value = [value EXCEPT ![w] = value[w]]
  BY <1>1 DEF MineOK
<1>4. UNCHANGED <<product, active, psid, price, stock, remote, raced, events>>
  BY DEF Combination
<1>5. ASSUME NEW place \in {"delete", "prepare"}, target' = [target EXCEPT ![w] = psid[c]],
             Goto(w, place), UNCHANGED <<flagged, unsent, value, listed, cache>>
      PROVE  Sound(w)
  <2>1. place \in Places \ {"idle", "next"}
    BY DEF Places
  <2>2. MineOK' /\ Alone(w) /\ Works(w)
    BY <1>1, <1>2, <1>3, <1>5, <2>1, GotoKeeps
  <2>3. SharedOK'
    BY <1>1, <1>4, <1>5 DEF SharedOK, product, remote
  <2> QED BY <1>4, <2>2, <2>3, Same DEF Sound
<1>6. CASE Drop(w, "combination") /\ Returns(w)
  <2>1. MineOK' /\ Alone(w) /\ (Parks(w) \/ Works(w))
    BY <1>1, <1>6, ReturnsDoes
  <2>2. flagged' \in [Kinds -> SUBSET Combos] /\ unsent' \in [{"price", "stock"} -> SUBSET Combos]
    <3>1. "combination" \in Kinds
      BY DEF Kinds
    <3> QED BY <1>1, <1>6, <3>1, Drops
  <2>3. SharedOK'
    BY <1>1, <1>4, <2>2 DEF SharedOK, product, remote
  <2> QED BY <1>4, <2>1, <2>3, Same DEF Sound
<1>7. CASE Failed(w) /\ UNCHANGED unsent
  <2>1. MineOK' /\ Alone(w) /\ Parks(w) /\ flagged' \in [Kinds -> SUBSET Combos]
    BY <1>1, <1>7, FailedDoes
  <2>2. SharedOK'
    BY <1>1, <1>4, <1>7, <2>1 DEF SharedOK, product, remote
  <2> QED BY <1>4, <2>1, <2>2, Same DEF Sound
<1> QED BY <1>5, <1>6, <1>7 DEF Combination

LEMMA PrepareSound ==
    ASSUME IInv, NEW w \in Workers, Prepare(w)
    PROVE  Sound(w)
<1>1. SharedOK /\ MineOK /\ on[w] \in Combos /\ pc[w] = "prepare" /\ cache[w] \in SUBSET ShopCombo
  BY Same, OnCombo DEF Prepare, MineOK
<1>2. price[on[w]] \in Version /\ value' = [value EXCEPT ![w] = price[on[w]]]
  BY <1>1 DEF Prepare, SharedOK
<1>3. SharedOK' /\ UNCHANGED psid
  BY <1>1 DEF Prepare, SharedOK, product, rows, remote, history
<1>4. target[w] \in {0} \cup Ids /\ Own(target[w], on[w])
  BY <1>1 DEF MineOK, IInv, KnownOwn
<1>5. "put" \in Places \ {"idle", "next"} /\ "adopt" \in Places \ {"idle", "next"} /\ "post" \in Places \ {"idle", "next"}
  BY DEF Places
<1>6. CASE Goto(w, "put") /\ UNCHANGED <<target, listed, cache>>
  <2>1. target' = [target EXCEPT ![w] = target[w]]
    BY <1>1, <1>6 DEF MineOK
  <2>2. MineOK' /\ Alone(w) /\ Works(w)
    BY <1>1, <1>2, <1>4, <1>5, <1>6, <2>1, GotoKeeps
  <2> QED BY <1>3, <2>2, Same DEF Sound
<1>7. CASE /\ cache' = [cache EXCEPT ![w] = Seen(w)]
           /\ listed' = [listed EXCEPT ![w] = TRUE]
           /\ \/ /\ \E i \in Found(w) : First(i, Found(w)) /\ target' = [target EXCEPT ![w] = i]
                 /\ Goto(w, "adopt")
              \/ Goto(w, "post") /\ UNCHANGED target
  <2>1. Seen(w) \in SUBSET ShopCombo
    BY <1>1 DEF Seen, SharedOK
  <2>2. \A t \in Seen(w) : t \in ShopCombo /\ Own(t.id, t.variant)
    BY <2>1, ShopOwn DEF Seen, IInv, KnownOwn
  <2>3. PICK i \in {0} \cup Ids, place \in {"adopt", "post"} :
            target' = [target EXCEPT ![w] = i] /\ Own(i, on[w]) /\ Goto(w, place)
    <3>1. CASE Goto(w, "post") /\ UNCHANGED target
      <4>1. target' = [target EXCEPT ![w] = target[w]]
        BY <1>1, <3>1 DEF MineOK
      <4> QED BY <1>4, <3>1, <4>1
    <3>2. ASSUME NEW i \in Found(w), target' = [target EXCEPT ![w] = i], Goto(w, "adopt")
          PROVE  \E j \in {0} \cup Ids, place \in {"adopt", "post"} :
                    target' = [target EXCEPT ![w] = j] /\ Own(j, on[w]) /\ Goto(w, place)
      <4>1. PICK t \in Seen(w) : t.id = i /\ t.variant = on[w]
        BY DEF Found
      <4>2. i \in Ids /\ Own(i, on[w])
        BY <2>2, <4>1 DEF ShopCombo
      <4> QED BY <3>2, <4>2
    <3> QED BY <1>7, <3>1, <3>2
  <2>4. place \in Places \ {"idle", "next"}
    BY <1>5
  <2>5. MineOK' /\ Alone(w) /\ Works(w)
    BY <1>1, <1>2, <1>7, <2>1, <2>2, <2>3, <2>4, GotoDoes
  <2> QED BY <1>3, <2>5, Same DEF Sound
<1> QED BY <1>6, <1>7 DEF Prepare

LEMMA RequestSound ==
    ASSUME IInv, NEW w \in Workers, Put(w) \/ Delete(w) \/ Quantity(w)
    PROVE  Sound(w)
<1>1. SharedOK /\ MineOK /\ on[w] \in Combos /\ target[w] \in Ids \cup {0} /\ value[w] \in Version
  BY Same, OnCombo DEF Put, Delete, Quantity, MineOK
<1>2. "save" \in Places \ {"idle", "next"} /\ "close" \in Places \ {"idle", "next"}
  BY DEF Places
<1>3. CASE Put(w)
  <2>1. shop' \subseteq ShopCombo
    <3>1. \A s \in shop : s \in ShopCombo /\ [s EXCEPT !.variant = on[w], !.price = value[w]] \in ShopCombo
      BY <1>1 DEF SharedOK, ShopCombo
    <3> QED BY <1>3, <3>1 DEF Put
  <2>2. /\ MineOK' /\ Alone(w) /\ (Parks(w) \/ Works(w))
        /\ flagged' \in [Kinds -> SUBSET Combos] /\ events' \in Version
    <3>1. pc[w] \notin {"idle", "next"} /\ Answered(w, "save")
      BY <1>3 DEF Put
    <3> QED BY <1>2, <3>1, AnsweredDoes
  <2>3. SharedOK' /\ UNCHANGED psid
    BY <1>1, <1>3, <2>1, <2>2 DEF Put, SharedOK, product, history
  <2> QED BY <2>2, <2>3, Same DEF Sound
<1>4. CASE Quantity(w)
  <2>1. shop' \subseteq ShopCombo
    BY <1>1, <1>4 DEF Quantity, SharedOK, ShopCombo
  <2>2. /\ MineOK' /\ Alone(w) /\ (Parks(w) \/ Works(w))
        /\ flagged' \in [Kinds -> SUBSET Combos] /\ events' \in Version
    <3>1. pc[w] \notin {"idle", "next"} /\ Answered(w, "close")
      BY <1>4 DEF Quantity
    <3> QED BY <1>2, <3>1, AnsweredDoes
  <2>3. SharedOK' /\ UNCHANGED psid
    BY <1>1, <1>4, <2>1, <2>2 DEF Quantity, SharedOK, product, history
  <2> QED BY <2>2, <2>3, Same DEF Sound
<1>5. CASE Delete(w)
  <2>1. shop' \subseteq ShopCombo
    BY <1>1, <1>5 DEF Delete, SharedOK
  <2>2. /\ MineOK' /\ Alone(w) /\ (Parks(w) \/ Works(w))
        /\ flagged' \in [Kinds -> SUBSET Combos] /\ events' \in Version
    <3>1. CASE /\ Goto(w, "save")
               /\ target' = [target EXCEPT ![w] = 0]
               /\ UNCHANGED <<flagged, value, listed, cache, events>>
      <4>1. Own(0, on[w])
        BY NoId DEF IInv
      <4>2. value' = [value EXCEPT ![w] = value[w]]
        BY <1>1, <3>1 DEF MineOK
      <4>3. MineOK' /\ Alone(w) /\ Works(w)
        BY <1>1, <1>2, <1>5, <3>1, <4>1, <4>2, GotoKeeps DEF Delete
      <4> QED BY <1>1, <3>1, <4>3 DEF SharedOK
    <3>2. CASE Event /\ Failed(w)
      <4>1. events' \in Version
        BY <1>1, <3>2, Constants DEF Event, Version, SharedOK
      <4> QED BY <1>5, <3>2, <4>1, FailedDoes DEF Delete
    <3> QED BY <1>5, <3>1, <3>2 DEF Delete
  <2>3. SharedOK' /\ UNCHANGED psid
    BY <1>1, <1>5, <2>1, <2>2 DEF Delete, SharedOK, product, history
  <2> QED BY <2>2, <2>3, Same DEF Sound
<1> QED BY <1>3, <1>4, <1>5

\* What happens to the id of its combination.
LEMMA PsidBecomes ==
    ASSUME IInv, NEW w \in Workers, NEW i \in {0} \cup Ids, Own(i, on[w]),
           psid' = [psid EXCEPT ![on[w]] = i]
    PROVE  PsidOwn /\ psid' \in [Combos -> {0} \cup Ids]
<1>1. psid \in [Combos -> {0} \cup Ids] /\ \A c \in Combos : Own(psid[c], c)
  BY Same DEF SharedOK, IInv, KnownOwn
<1>2. \A c \in Combos : psid'[c] = IF c = on[w] THEN i ELSE psid[c]
  BY <1>1
<1>3. PsidOwn
  BY <1>1, <1>2 DEF PsidOwn
<1> QED BY <1>1, <1>3

LEMMA MissingSound ==
    ASSUME IInv, NEW w \in Workers, Missing(w) \/ QuantityMissing(w)
    PROVE  Sound(w)
<1>1. SharedOK /\ MineOK /\ on[w] \in Combos /\ pc[w] \notin {"idle", "next"}
  BY Same, OnCombo DEF Missing, QuantityMissing
<1>2. Own(0, on[w])
  BY NoId DEF IInv
<1>3. ASSUME Missing(w),
             psid' = [psid EXCEPT ![on[w]] = 0],
             target' = [target EXCEPT ![w] = 0],
             value' = [value EXCEPT ![w] = 0],
             unsent' = [unsent EXCEPT !["price"] = @ \cup ({on[w]} \ flagged["combination"])],
             Goto(w, "combination"), UNCHANGED <<flagged, listed, cache>>
      PROVE  Sound(w)
  <2>1. 0 \in Version /\ "combination" \in Places \ {"idle", "next"}
    BY Constants DEF Version, Places
  <2>2. MineOK' /\ Alone(w) /\ Works(w)
    BY <1>1, <1>2, <1>3, <2>1, GotoKeeps
  <2>3. PsidOwn /\ psid' \in [Combos -> {0} \cup Ids]
    BY <1>2, <1>3, PsidBecomes
  <2>4. unsent' \in [{"price", "stock"} -> SUBSET Combos]
    BY <1>1, <1>3 DEF SharedOK
  <2>5. SharedOK'
    BY <1>1, <1>3, <2>3, <2>4 DEF Missing, SharedOK, product, remote
  <2> QED BY <2>2, <2>3, <2>5 DEF Sound
<1>4. CASE Missing(w) /\ Failed(w) /\ UNCHANGED <<psid, unsent>>
  <2>1. MineOK' /\ Alone(w) /\ Parks(w) /\ flagged' \in [Kinds -> SUBSET Combos]
    BY <1>1, <1>4, FailedDoes
  <2>2. SharedOK'
    BY <1>1, <1>4, <2>1 DEF Missing, SharedOK, product, remote
  <2> QED BY <1>4, <2>1, <2>2, Same DEF Sound
<1>5. CASE QuantityMissing(w)
  <2>1. MineOK' /\ Alone(w) /\ Parks(w)
    BY <1>1, <1>5, LeaveDoes DEF QuantityMissing
  <2>2. PsidOwn /\ psid' \in [Combos -> {0} \cup Ids]
    BY <1>2, <1>5, PsidBecomes DEF QuantityMissing
  <2>3. flagged' \in [Kinds -> SUBSET Combos]
    BY <1>1, <1>5 DEF QuantityMissing, SharedOK
  <2>4. raced' \subseteq Combos
    BY <1>1, <1>5 DEF QuantityMissing, SharedOK
  <2>5. SharedOK'
    BY <1>1, <1>5, <2>2, <2>3, <2>4 DEF QuantityMissing, SharedOK, product, remote
  <2> QED BY <2>1, <2>2, <2>5 DEF Sound
<1> QED BY <1>3, <1>4, <1>5 DEF Missing

LEMMA SaveSound ==
    ASSUME IInv, NEW w \in Workers, Save(w)
    PROVE  Sound(w)
<1>1. SharedOK /\ MineOK /\ on[w] \in Combos /\ pc[w] = "save"
  BY Same, OnCombo DEF Save
<1>2. target[w] \in {0} \cup Ids /\ Own(target[w], on[w])
  BY <1>1 DEF MineOK, IInv, KnownOwn
<1>3. PsidOwn /\ psid' \in [Combos -> {0} \cup Ids]
  BY <1>2, PsidBecomes DEF Save
<1>4. flagged' \in [Kinds -> SUBSET Combos]
  <2>1. "combination" \in Kinds
    BY DEF Kinds
  <2> QED BY <1>1, <2>1, Clears DEF Save
<1>5. unsent' \in [{"price", "stock"} -> SUBSET Combos]
  BY <1>1 DEF Save, SharedOK
<1>6. MineOK' /\ Alone(w) /\ (Parks(w) \/ Works(w))
  BY <1>1, ReturnsDoes DEF Save
<1>7. SharedOK'
  BY <1>1, <1>3, <1>4, <1>5 DEF Save, SharedOK, product, remote
<1> QED BY <1>3, <1>6, <1>7 DEF Sound

LEMMA PriceSound ==
    ASSUME IInv, NEW w \in Workers, Price(w) \/ Close(w)
    PROVE  Sound(w)
<1>1. SharedOK /\ MineOK /\ on[w] \in Combos /\ kind[w] \in Kinds /\ pc[w] \notin {"idle", "next"}
  BY Same, OnCombo DEF Price, Close
<1>2. CASE Price(w) /\ Drop(w, "price") /\ Leave(w) /\ UNCHANGED mapped
  <2>1. flagged' \in [Kinds -> SUBSET Combos] /\ unsent' \in [{"price", "stock"} -> SUBSET Combos]
    <3>1. "price" \in Kinds
      BY DEF Kinds
    <3> QED BY <1>1, <1>2, <3>1, Drops
  <2>2. MineOK' /\ Alone(w) /\ Parks(w)
    BY <1>1, <1>2, LeaveDoes
  <2>3. SharedOK' /\ UNCHANGED psid
    BY <1>1, <1>2, <2>1 DEF Price, SharedOK, remote
  <2> QED BY <2>2, <2>3, Same DEF Sound
<1>3. CASE Price(w) /\ mapped' = TRUE /\ Goto(w, "combination")
           /\ UNCHANGED <<flagged, target, value, listed, cache, unsent>>
  <2>1. "combination" \in Places \ {"idle", "next"}
    BY DEF Places
  <2>2. MineOK' /\ Alone(w) /\ Works(w)
    BY <1>1, <1>3, <2>1, GotoOnly
  <2>3. SharedOK' /\ UNCHANGED psid
    BY <1>1, <1>3 DEF Price, SharedOK, remote
  <2> QED BY <2>2, <2>3, Same DEF Sound
<1>4. CASE Close(w)
  <2>1. flagged' \in [Kinds -> SUBSET Combos]
    BY <1>1, <1>4, Clears DEF Close
  <2>2. unsent' \in [{"price", "stock"} -> SUBSET Combos]
    BY <1>1, <1>4 DEF Close, SharedOK
  <2>3. MineOK' /\ Alone(w) /\ Parks(w)
    BY <1>1, <1>4, LeaveDoes DEF Close
  <2>4. SharedOK' /\ UNCHANGED psid
    BY <1>1, <1>4, <2>1, <2>2 DEF Close, SharedOK, product, remote
  <2> QED BY <2>3, <2>4, Same DEF Sound
<1> QED BY <1>2, <1>3, <1>4 DEF Price

LEMMA StockSound ==
    ASSUME IInv, NEW w \in Workers, Stock(w)
    PROVE  Sound(w)
<1>1. SharedOK /\ MineOK /\ on[w] \in Combos /\ pc[w] \notin {"idle", "next"}
  BY Same, OnCombo DEF Stock
<1>2. UNCHANGED <<product, active, psid, price, stock, remote, raced, events>>
  BY DEF Stock
<1>3. CASE Drop(w, "stock") /\ Leave(w)
  <2>1. flagged' \in [Kinds -> SUBSET Combos] /\ unsent' \in [{"price", "stock"} -> SUBSET Combos]
    <3>1. "stock" \in Kinds
      BY DEF Kinds
    <3> QED BY <1>1, <1>3, <3>1, Drops
  <2>2. MineOK' /\ Alone(w) /\ Parks(w)
    BY <1>1, <1>3, LeaveDoes
  <2>3. SharedOK'
    BY <1>1, <1>2, <2>1 DEF SharedOK, product, remote
  <2> QED BY <1>2, <2>2, <2>3, Same DEF Sound
<1>4. CASE Failed(w) /\ UNCHANGED unsent
  <2>1. MineOK' /\ Alone(w) /\ Parks(w) /\ flagged' \in [Kinds -> SUBSET Combos]
    BY <1>1, <1>4, FailedDoes
  <2>2. SharedOK'
    BY <1>1, <1>2, <1>4, <2>1 DEF SharedOK, product, remote
  <2> QED BY <1>2, <2>1, <2>2, Same DEF Sound
<1>5. CASE /\ target' = [target EXCEPT ![w] = psid[on[w]]]
           /\ value' = [value EXCEPT ![w] = stock[on[w]]]
           /\ Goto(w, "quantity")
           /\ UNCHANGED <<flagged, listed, cache, unsent>>
  <2>1. psid[on[w]] \in {0} \cup Ids /\ Own(psid[on[w]], on[w]) /\ stock[on[w]] \in Version
    BY <1>1 DEF SharedOK, IInv, KnownOwn
  <2>2. "quantity" \in Places \ {"idle", "next"}
    BY DEF Places
  <2>3. MineOK' /\ Alone(w) /\ Works(w)
    BY <1>1, <1>5, <2>1, <2>2, GotoKeeps
  <2>4. SharedOK'
    BY <1>1, <1>2, <1>5 DEF SharedOK, product, remote
  <2> QED BY <1>2, <2>3, <2>4, Same DEF Sound
<1> QED BY <1>3, <1>4, <1>5 DEF Stock

LEMMA StepSound ==
    ASSUME IInv, NEW w \in Workers, Step(w) \/ Fails(w) \/ Stop(w), ~Post(w)
    PROVE  Sound(w)
BY TakeSound, FailsSound, CombinationSound, PrepareSound, RequestSound, MissingSound, SaveSound,
   PriceSound, StockSound DEF Step
-----------------------------------------------------------------------------
(* The steps preserve the invariant *)

\* What an id is worth after a step.
After(i, c) == i <= created' /\ \A s \in shop' : s.id = i => s.variant = c

\* The invariant, from what it says of the state after the step.
LEMMA Afterwards ==
    ASSUME TypeOK', IdsDiffer', AtWork',
           \A c \in Combos : After(psid'[c], c),
           \A w \in Workers : After(target'[w], on'[w]),
           \A w \in Workers : \A t \in cache'[w] : After(t.id, t.variant)
    PROVE  IInv'
BY DEF IInv, KnownOwn, After, Own

LEMMA OwnBefore ==
    ASSUME IInv, ShopKept \/ \E c \in Combos : Added(c), NEW i \in {0} \cup Ids, NEW c, Own(i, c)
    PROVE  After(i, c)
<1>1. Own(i, c)'
  BY OwnStays
<1> QED BY <1>1 DEF Own, After

\* The processes that do nothing, and the catalog.
LEMMA OthersKeep ==
    ASSUME IInv, ShopKept \/ \E c \in Combos : Added(c), NEW w \in Workers, Alone(w)
    PROVE  \A v \in Workers \ {w} :
               /\ After(target'[v], on'[v])
               /\ \A t \in cache'[v] : After(t.id, t.variant)
<1> SUFFICES ASSUME NEW v \in Workers \ {w}
             PROVE  After(target'[v], on'[v]) /\ \A t \in cache'[v] : After(t.id, t.variant)
  OBVIOUS
<1>1. target[v] \in {0} \cup Ids /\ Own(target[v], on[v]) /\ cache[v] \subseteq ShopCombo
  BY DEF IInv, TypeOK, KnownOwn
<1>2. After(target[v], on[v])
  BY <1>1, OwnBefore
<1>3. ASSUME NEW t \in cache[v]
      PROVE  After(t.id, t.variant)
  <2>1. t.id \in {0} \cup Ids /\ Own(t.id, t.variant)
    BY <1>1 DEF ShopCombo, IInv, KnownOwn
  <2> QED BY <2>1, OwnBefore
<1> QED BY <1>2, <1>3 DEF Alone

LEMMA CatalogKeeps ==
    ASSUME IInv, ShopKept \/ \E c \in Combos : Added(c), PsidOwn, SharedOK'
    PROVE  \A c \in Combos : After(psid'[c], c)
<1> SUFFICES ASSUME NEW c \in Combos
             PROVE  After(psid'[c], c)
  OBVIOUS
<1>1. psid'[c] \in {0} \cup Ids
  BY DEF SharedOK
<1>2. Own(psid'[c], c)
  BY DEF PsidOwn
<1> QED BY <1>1, <1>2, OwnBefore

\* Whatever a process does, other than creating a combination.
LEMMA SoundKeeps ==
    ASSUME IInv, ShopKept, NEW w \in Workers, Sound(w)
    PROVE  IInv'
<1>1. IdsDiffer'
  BY OwnStays
<1>2. TypeOK'
  BY Types DEF Sound
<1>3. AtWork'
  BY DEF AtWork, Sound, Alone, Parks, Works, IInv
<1>4. \A c \in Combos : After(psid'[c], c)
  BY CatalogKeeps DEF Sound
<1>5. \A v \in Workers \ {w} : After(target'[v], on'[v]) /\ \A t \in cache'[v] : After(t.id, t.variant)
  BY OthersKeep DEF Sound
<1>6. target'[w] \in {0} \cup Ids /\ cache'[w] \subseteq ShopCombo
  BY DEF Sound, MineOK
<1>7. Own(target'[w], on'[w]) /\ \A t \in cache'[w] : Own(t.id, t.variant)
  <2>1. CASE Parks(w)
    BY <2>1, NoId DEF Parks, IInv, KnownOwn
  <2>2. CASE Works(w)
    BY <2>2 DEF Works
  <2> QED BY <2>1, <2>2 DEF Sound
<1>8. After(target'[w], on'[w])
  BY <1>6, <1>7, OwnBefore
<1>9. ASSUME NEW t \in cache'[w]
      PROVE  After(t.id, t.variant)
  <2>1. t.id \in {0} \cup Ids /\ Own(t.id, t.variant)
    BY <1>6, <1>7, <1>9 DEF ShopCombo
  <2> QED BY <2>1, OwnBefore
<1> QED BY <1>1, <1>2, <1>3, <1>4, <1>5, <1>8, <1>9, Afterwards

\* A new combination has an id that nobody knows yet.
LEMMA PostKeeps ==
    ASSUME IInv, NEW w \in Workers, Post(w)
    PROVE  IInv'
<1>1. SharedOK /\ MineOK /\ on[w] \in Combos /\ pc[w] \notin {"idle", "next"} /\ kind[w] \in Kinds
  BY Same, OnCombo DEF Post
<1>2. Added(on[w])
  BY Posted
<1>3. created \in Nat /\ created' = created + 1 /\ created' \in Ids
  BY <1>1, Constants DEF SharedOK, Post, Ids
<1>4. shop' \subseteq ShopCombo
  BY <1>1, <1>2 DEF Added, SharedOK
<1>5. After(created', on[w])
  <2>1. PICK s \in ShopCombo : s.id = created' /\ s.variant = on[w] /\ shop' = shop \cup {s}
    BY <1>2 DEF Added
  <2>2. \A t \in shop : t.id \in Nat /\ t.id <= created
    BY <1>1, Constants DEF SharedOK, ShopCombo, IInv, IdsDiffer
  <2>3. \A t \in shop : t.id # created'
    BY <1>3, <2>2
  <2> QED BY <1>3, <2>1, <2>3, Constants DEF After
<1>6. IdsDiffer'
  BY <1>1, <1>2, OwnStays
<1>7. /\ MineOK' /\ Alone(w) /\ AtWork'
      /\ flagged' \in [Kinds -> SUBSET Combos] /\ events' \in Version
      /\ After(target'[w], on'[w])
      /\ \A t \in cache'[w] : After(t.id, t.variant)
  <2>1. CASE /\ Goto(w, "save")
             /\ target' = [target EXCEPT ![w] = created']
             /\ listed' = [listed EXCEPT ![w] = FALSE]
             /\ cache' = [cache EXCEPT ![w] = {}]
             /\ UNCHANGED <<flagged, value, events>>
    <3>1. "save" \in Places \ {"idle", "next"}
      BY DEF Places
    <3>2. MineOK'
      BY <1>1, <1>3, <2>1, <3>1 DEF MineOK, Goto
    <3>3. Alone(w)
      BY <1>1, <2>1 DEF MineOK, Goto, Alone
    <3>4. /\ pc'[w] = "save" /\ kind'[w] = kind[w] /\ on'[w] = on[w]
          /\ target'[w] = created' /\ cache'[w] = {}
      BY <1>1, <2>1 DEF MineOK, Goto
    <3>5. AtWork'
      BY <1>1, <3>3, <3>4, Constants DEF AtWork, Alone, IInv, Kinds
    <3> QED BY <1>1, <1>5, <2>1, <3>2, <3>3, <3>4, <3>5 DEF SharedOK
  <2>2. CASE Event /\ Failed(w)
    <3>1. MineOK' /\ Alone(w) /\ Parks(w) /\ flagged' \in [Kinds -> SUBSET Combos]
      BY <1>1, <2>2, FailedDoes
    <3>2. events' \in Version
      BY <1>1, <2>2, Constants DEF Event, Version, SharedOK
    <3>3. AtWork'
      BY <3>1 DEF AtWork, Alone, Parks, IInv
    <3>4. After(target'[w], on'[w])
      <4>1. 0 \in {0} \cup Ids /\ Own(0, on'[w])
        BY NoId DEF IInv
      <4>2. After(0, on'[w])
        BY <1>1, <1>2, <4>1, OwnBefore
      <4> QED BY <3>1, <4>2 DEF Parks
    <3>5. ASSUME NEW t \in cache'[w]
          PROVE  After(t.id, t.variant)
      <4>1. t \in cache[w] /\ cache[w] \subseteq ShopCombo
        BY <1>1, <3>1, <3>5 DEF Parks, MineOK
      <4>2. t.id \in {0} \cup Ids /\ Own(t.id, t.variant)
        BY <4>1 DEF ShopCombo, IInv, KnownOwn
      <4> QED BY <1>1, <1>2, <4>2, OwnBefore
    <3> QED BY <3>1, <3>2, <3>3, <3>4, <3>5
  <2> QED BY <2>1, <2>2 DEF Post
<1>8. SharedOK'
  <2>1. unsent' \in [{"price", "stock"} -> SUBSET Combos]
    BY <1>1 DEF Post, SharedOK
  <2>2. raced' \subseteq Combos
    BY <1>1 DEF Post, SharedOK
  <2> QED BY <1>1, <1>3, <1>4, <1>7, <2>1, <2>2 DEF Post, SharedOK, product
<1>9. TypeOK'
  BY <1>7, <1>8, Types
<1>10. PsidOwn
  BY Same DEF Post
<1>11. \A c \in Combos : After(psid'[c], c)
  BY <1>1, <1>2, <1>8, <1>10, CatalogKeeps
<1>12. \A v \in Workers \ {w} : After(target'[v], on'[v]) /\ \A t \in cache'[v] : After(t.id, t.variant)
  BY <1>1, <1>2, <1>7, OthersKeep
<1> QED BY <1>6, <1>7, <1>9, <1>11, <1>12, Afterwards

\* Nobody's work is disturbed by the imports, the operators and the shop staff.
LEMMA OutsideKeeps ==
    ASSUME IInv, ShopKept, UNCHANGED mine, SharedOK', PsidOwn
    PROVE  IInv'
<1>1. IdsDiffer'
  BY OwnStays
<1>2. MineOK'
  BY Same DEF mine, MineOK
<1>3. TypeOK'
  BY <1>2, Types
<1>4. AtWork'
  BY DEF AtWork, IInv, mine
<1>5. \A c \in Combos : After(psid'[c], c)
  BY CatalogKeeps
<1>6. ASSUME NEW w \in Workers
      PROVE  After(target'[w], on'[w])
  <2>1. target[w] \in {0} \cup Ids /\ Own(target[w], on[w])
    BY DEF IInv, TypeOK, KnownOwn
  <2>2. After(target[w], on[w])
    BY <2>1, OwnBefore
  <2> QED BY <2>2 DEF mine
<1>7. ASSUME NEW w \in Workers, NEW t \in cache[w]
      PROVE  After(t.id, t.variant)
  <2>1. t.id \in {0} \cup Ids /\ Own(t.id, t.variant)
    BY <1>7 DEF IInv, TypeOK, KnownOwn, ShopCombo
  <2> QED BY <2>1, OwnBefore
<1>8. cache' = cache
  BY DEF mine
<1>9. \A w \in Workers : \A t \in cache'[w] : After(t.id, t.variant)
  BY <1>7, <1>8
<1> QED BY <1>1, <1>3, <1>4, <1>5, <1>6, <1>9, Afterwards

LEMMA ImportKeeps ==
    ASSUME IInv, ShopKept, NEW c \in Combos, ImportPrice(c) \/ ImportStock(c) \/ ImportProduct(c)
    PROVE  IInv'
<1>1. SharedOK /\ PsidOwn /\ UNCHANGED mine
  BY Same DEF ImportPrice, ImportStock, ImportProduct
<1>2. events' \in Version
  BY <1>1, Constants DEF ImportPrice, ImportStock, ImportProduct, Event, Version, SharedOK
<1>3. "price" \in Kinds /\ "stock" \in Kinds /\ "combination" \in Kinds
  BY DEF Kinds
<1>4. \A k \in Kinds : Flag(k, c) \in [Kinds -> SUBSET Combos]
  BY <1>1 DEF Flag, SharedOK
<1>5. raced' \subseteq Combos
  <2>1. CASE ImportProduct(c)
    BY <1>1, <2>1, Busy DEF ImportProduct, SharedOK, IInv
  <2>2. CASE ImportPrice(c) \/ ImportStock(c)
    BY <1>1, <2>2 DEF ImportPrice, ImportStock, SharedOK
  <2> QED BY <2>1, <2>2
<1>6. SharedOK'
  <2>1. CASE ImportPrice(c)
    BY <1>1, <1>2, <1>3, <1>4, <1>5, <2>1 DEF ImportPrice, SharedOK, product, remote
  <2>2. CASE ImportStock(c)
    BY <1>1, <1>2, <1>3, <1>4, <1>5, <2>2 DEF ImportStock, SharedOK, product, remote
  <2>3. CASE ImportProduct(c)
    <3>1. visible' \in BOOLEAN /\ discontinued' \in BOOLEAN /\ active' \in [Combos -> BOOLEAN]
      BY <1>1, <2>3 DEF ImportProduct, SharedOK
    <3>2. flagged' \in [Kinds -> SUBSET Combos]
      BY <1>1, <1>3, <1>4, <2>3 DEF ImportProduct, SharedOK
    <3> QED BY <1>1, <1>2, <1>5, <2>3, <3>1, <3>2 DEF ImportProduct, SharedOK, remote
  <2> QED BY <2>1, <2>2, <2>3
<1>7. PsidOwn
  BY Same DEF ImportPrice, ImportStock, ImportProduct
<1> QED BY <1>1, <1>6, <1>7, OutsideKeeps

LEMMA ExportProductKeeps ==
    ASSUME IInv, ShopKept, ExportProduct
    PROVE  IInv'
<1>1. SharedOK' /\ UNCHANGED mine
  BY Same DEF ExportProduct, SharedOK, rows, remote, history
<1>2. PsidOwn
  BY Same DEF ExportProduct, rows
<1> QED BY <1>1, <1>2, OutsideKeeps

LEMMA OperatorKeeps ==
    ASSUME IInv, ShopKept, Operator
    PROVE  IInv'
<1>1. SharedOK /\ UNCHANGED mine
  BY Same DEF Operator, ShopDeletes, ResetIds, Reconcile, DeleteDuplicates
<1>2. events' \in Version
  BY <1>1, Constants DEF Operator, ShopDeletes, ResetIds, Reconcile, DeleteDuplicates, Event, Version, SharedOK
<1>3. CASE ShopDeletes
  <2>1. SharedOK' /\ UNCHANGED psid
    BY <1>1, <1>2, <1>3 DEF ShopDeletes, SharedOK, product, rows, history
  <2> QED BY <1>1, <2>1, Same, OutsideKeeps
<1>4. CASE DeleteDuplicates
  <2>1. raced' \subseteq Combos
    BY <1>1, <1>4 DEF DeleteDuplicates, SharedOK
  <2>2. shop' \subseteq ShopCombo
    BY <1>1, <1>4 DEF DeleteDuplicates, SharedOK
  <2>3. SharedOK' /\ UNCHANGED psid
    BY <1>1, <1>2, <1>4, <2>1, <2>2 DEF DeleteDuplicates, SharedOK, product, rows
  <2> QED BY <1>1, <2>3, Same, OutsideKeeps
<1>5. CASE ResetIds
  <2>1. psid' = [c \in Combos |-> 0]
    BY <1>5 DEF ResetIds
  <2>2. PsidOwn
    BY <2>1, NoId DEF PsidOwn, IInv
  <2>3. flagged' \in [Kinds -> SUBSET Combos]
    BY <1>1, <1>5 DEF ResetIds, SharedOK
  <2>4. raced' \subseteq Combos
    BY <1>1, <1>5 DEF ResetIds, SharedOK
  <2>5. SharedOK'
    BY <1>1, <1>2, <1>5, <2>1, <2>3, <2>4 DEF ResetIds, SharedOK, product, remote
  <2> QED BY <1>1, <2>2, <2>5, OutsideKeeps
<1>6. CASE Reconcile
  <2> DEFINE matched == {c \in Combos : psid[c] = 0 /\ Of(c) # {}}
  <2>1. PICK f \in [Combos -> {0} \cup Ids] :
            /\ psid' = f
            /\ \A c \in Combos : IF c \in matched THEN First(f[c], Of(c)) ELSE f[c] = psid[c]
    BY <1>6 DEF Reconcile
  <2>2. ASSUME NEW c \in Combos
        PROVE  Own(f[c], c)
    <3>1. CASE c \in matched
      <4>1. f[c] \in Of(c)
        BY <2>1, <3>1 DEF First
      <4>2. PICK s \in shop : s.variant = c /\ s.id = f[c]
        BY <4>1 DEF Of
      <4> QED BY <4>2, ShopOwn DEF IInv
    <3>2. CASE c \notin matched
      BY <2>1, <3>2 DEF IInv, KnownOwn
    <3> QED BY <3>1, <3>2
  <2>3. PsidOwn
    BY <2>1, <2>2 DEF PsidOwn
  <2>4. flagged' \in [Kinds -> SUBSET Combos]
    BY <1>1, <1>6 DEF Reconcile, SharedOK
  <2>5. raced' \subseteq Combos
    BY <1>1, <1>6 DEF Reconcile, SharedOK
  <2>6. SharedOK'
    BY <1>1, <1>2, <1>6, <2>1, <2>4, <2>5 DEF Reconcile, SharedOK, product, remote
  <2> QED BY <1>1, <2>3, <2>6, OutsideKeeps
<1> QED BY <1>3, <1>4, <1>5, <1>6 DEF Operator

\* The shop has at most one combination from before.
LEMMA Initially ==
    ASSUME Init
    PROVE  IInv
<1>1. TypeOK
  <2>1. 0 \in Version /\ 1 \in Ids /\ "idle" \in Places
    BY Constants DEF Version, Ids, Places
  <2>2. shop \subseteq ShopCombo
    BY <2>1, Constants DEF Init, ShopCombo
  <2> QED BY <2>1, <2>2 DEF Init, TypeOK
<1>2. IdsDiffer
  <2>1. ASSUME NEW c \in Legacy, NEW d \in Legacy
        PROVE  c = d
    <3>1. IsFiniteSet(Legacy) /\ Cardinality(Legacy) <= 1
      BY FS_Subset, ExportAssumption DEF ExportAssumption
    <3>2. IsFiniteSet(Legacy \ {c}) /\ Cardinality(Legacy \ {c}) = Cardinality(Legacy) - 1
      BY <3>1, FS_RemoveElement
    <3>3. Cardinality(Legacy) \in Nat /\ Cardinality(Legacy \ {c}) \in Nat
      BY <3>1, <3>2, FS_CardinalityType
    <3>4. Cardinality(Legacy \ {c}) = 0
      BY <3>1, <3>2, <3>3
    <3>5. Legacy \ {c} = {}
      BY <3>2, <3>4, FS_EmptySet
    <3> QED BY <3>5
  <2>2. \A s \in shop : s.id <= created
    BY DEF Init
  <2>3. ASSUME NEW s \in shop, NEW t \in shop
        PROVE  s = t
    <3>1. PICK c \in Legacy, d \in Legacy :
              /\ s = [id |-> 1, variant |-> c, price |-> 0, quantity |-> 0]
              /\ t = [id |-> 1, variant |-> d, price |-> 0, quantity |-> 0]
      BY DEF Init
    <3> QED BY <2>1, <3>1
  <2> QED BY <2>2, <2>3 DEF IdsDiffer
<1>3. KnownOwn
  BY <1>1, NoId DEF Init, KnownOwn
<1>4. AtWork
  BY DEF Init, AtWork
<1> QED BY <1>1, <1>2, <1>3, <1>4 DEF IInv

LEMMA NextKeeps ==
    ASSUME IInv, [Next]_vars
    PROVE  IInv'
<1>1. ASSUME NEW w \in Workers, Post(w)
      PROVE  IInv'
  BY <1>1, PostKeeps
<1>2. CASE Next /\ \A w \in Workers : ~Post(w)
  <2>1. ShopKept
    BY <1>2, ShopSteps
  <2>2. ASSUME NEW c \in Combos, ImportPrice(c) \/ ImportStock(c) \/ ImportProduct(c)
        PROVE  IInv'
    BY <2>1, <2>2, ImportKeeps
  <2>3. CASE ExportProduct
    BY <2>1, <2>3, ExportProductKeeps
  <2>4. CASE Operator
    BY <2>1, <2>4, OperatorKeeps
  <2>5. ASSUME NEW w \in Workers, NEW k \in Kinds, BatchStart(w, k) \/ \E c \in Combos : Retry(w, k, c)
        PROVE  IInv'
    <3>1. Sound(w)
      BY <2>5, StartSound
    <3> QED BY <2>1, <3>1, SoundKeeps
  <2>6. ASSUME NEW w \in Workers, Step(w) \/ Fails(w) \/ Stop(w)
        PROVE  IInv'
    <3>1. Sound(w)
      BY <1>2, <2>6, StepSound
    <3> QED BY <2>1, <3>1, SoundKeeps
  <2> QED BY <1>2, <2>2, <2>3, <2>4, <2>5, <2>6 DEF Next
<1>3. CASE UNCHANGED vars
  BY <1>3 DEF vars, product, rows, remote, mine, history, IInv, TypeOK, IdsDiffer, KnownOwn, Own, AtWork
<1> QED BY <1>1, <1>2, <1>3
-----------------------------------------------------------------------------
(* Theorems *)

\* Every id that is mapped, loaded or listed before is worth something as long as
\* it is kept: export_combination, the commands and the shop never give an id to
\* another variant, and only the shop gives out ids.
THEOREM IdsStayTrue == Spec => []IInv
BY Initially, NextKeeps, PTL DEF Spec

\* No combination is mapped to one of another variant, whatever is deleted,
\* created again, reset or reconciled while exports work with older ids.
THEOREM MappedIsOwn == Spec => []MappedToOwn
<1>1. IInv => MappedToOwn
  BY DEF IInv, KnownOwn, Own, MappedToOwn, At
<1> QED BY <1>1, IdsStayTrue, PTL
=============================================================================
