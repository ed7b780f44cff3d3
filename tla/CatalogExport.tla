--------------------------- MODULE CatalogExport ---------------------------
(***************************************************************************)
(* The export of the combinations of a product with their prices and       *)
(* stocks: export_combination, export_price and export_stock of            *)
(* apps/prestashop/services.py, the batches of apps/sync/tasks.py, the     *)
(* requests of apps/prestashop/client.py, and the imports, commands and    *)
(* shop staff that work on the same rows.                                  *)
(*                                                                         *)
(* A shop combination belongs to the variant, the set of attribute values, *)
(* that a local combination stands for; AttributeValues provides those.    *)
(* Prices and quantities are versions.                                     *)
(***************************************************************************)
EXTENDS Naturals, FiniteSets

CONSTANTS
    Workers,        \* processes that run tasks
    Combos,         \* the combinations of the product
    Placeholders,   \* those whose size and color are placeholders other than ***
    Legacy,         \* the one, if any, that the shop has from before
    MaxIds,         \* bound: combinations that the shop ever creates
    MaxEvents       \* bound: changes imported from ICG, failures, deaths, and what
                    \* operators and shop staff do

ASSUME ExportAssumption ==
    /\ MaxIds \in Nat \ {0} /\ MaxEvents \in Nat
    /\ IsFiniteSet(Combos) /\ "none" \notin Combos
    /\ Placeholders \subseteq Combos
    /\ Legacy \subseteq Combos /\ Cardinality(Legacy) <= 1

VARIABLES
    visible,        \* Product.visible_web
    discontinued,   \* Product.discontinued
    mapped,         \* whether the product has a prestashop_id
    active,         \* Combination.active
    psid,           \* Combination.prestashop_id, 0 if none
    price,          \* Price.amount_ex_vat
    stock,          \* Stock.quantity
    flagged,        \* the combinations, prices and stocks with sync_required
    shop,           \* the combinations that exist in the shop
    created,        \* the last id the shop has given out
    kind,           \* what a process exports
    batch,          \* whether it is a batch, which holds the lock of its kind
    todo,           \* entities it has still to export
    on,             \* the combination it works on
    pc,             \* where it is
    target,         \* the shop combination that it has loaded or found
    value,          \* the price or quantity that it has read
    listed,         \* whether its client has _combinations_cache
    cache,          \* _combinations_cache
    unsent,         \* history: what lost its flag without having been sent
    raced,          \* history: combinations that two had in hand at once
    events          \* how many of those there were; numbers the versions

product == <<visible, discontinued, mapped>>
rows == <<active, psid, price, stock, flagged>>
remote == <<shop, created>>
mine == <<kind, batch, todo, on, pc, target, value, listed, cache>>
history == <<unsent, raced>>
vars == <<product, rows, remote, mine, history, events>>
-----------------------------------------------------------------------------
Kinds == {"combination", "price", "stock"}
NoCombo == "none"
Ids == 1..MaxIds
Version == 0..MaxEvents
ShopCombo == [id : Ids, variant : Combos, price : Version, quantity : Version]
Places == {"idle", "next", "price", "stock", "combination", "prepare", "put", "post",
           "adopt", "delete", "save", "close", "quantity"}

TypeOK ==
    /\ visible \in BOOLEAN /\ discontinued \in BOOLEAN /\ mapped \in BOOLEAN
    /\ active \in [Combos -> BOOLEAN]
    /\ psid \in [Combos -> {0} \cup Ids]
    /\ price \in [Combos -> Version]
    /\ stock \in [Combos -> Version]
    /\ flagged \in [Kinds -> SUBSET Combos]
    /\ shop \subseteq ShopCombo
    /\ created \in {0} \cup Ids
    /\ kind \in [Workers -> Kinds \cup {"none"}]
    /\ batch \in [Workers -> BOOLEAN]
    /\ todo \in [Workers -> SUBSET Combos]
    /\ on \in [Workers -> Combos \cup {NoCombo}]
    /\ pc \in [Workers -> Places]
    /\ target \in [Workers -> {0} \cup Ids]
    /\ value \in [Workers -> Version]
    /\ listed \in [Workers -> BOOLEAN]
    /\ cache \in [Workers -> SUBSET ShopCombo]
    /\ unsent \in [{"price", "stock"} -> SUBSET Combos]
    /\ raced \subseteq Combos
    /\ events \in Version

\* The first import has flagged everything.  The shop may have combinations from
\* before, which are not mapped.
Init ==
    /\ visible = TRUE /\ discontinued = FALSE /\ mapped = FALSE
    /\ active = [c \in Combos |-> TRUE]
    /\ psid = [c \in Combos |-> 0]
    /\ price = [c \in Combos |-> 0]
    /\ stock = [c \in Combos |-> 0]
    /\ flagged = [k \in Kinds |-> Combos]
    /\ shop = {[id |-> 1, variant |-> c, price |-> 0, quantity |-> 0] : c \in Legacy}
    /\ created = 1
    /\ kind = [w \in Workers |-> "none"]
    /\ batch = [w \in Workers |-> FALSE]
    /\ todo = [w \in Workers |-> {}]
    /\ on = [w \in Workers |-> NoCombo]
    /\ pc = [w \in Workers |-> "idle"]
    /\ target = [w \in Workers |-> 0]
    /\ value = [w \in Workers |-> 0]
    /\ listed = [w \in Workers |-> FALSE]
    /\ cache = [w \in Workers |-> {}]
    /\ unsent = [k \in {"price", "stock"} |-> {}]
    /\ raced = {}
    /\ events = 0
-----------------------------------------------------------------------------
Sellable == visible /\ ~discontinued
Gone(c) == ~Sellable \/ ~active[c]
InHand(w) == todo[w] \cup ({on[w]} \ {NoCombo})
Event == events < MaxEvents /\ events' = events + 1
Flag(k, c) == [flagged EXCEPT ![k] = @ \cup {c}]
Clear(k, c) == [flagged EXCEPT ![k] = @ \ {c}]

\* Each combination that a process with one of the kinds works on.
BusyWith(kinds) == {on[w] : w \in {v \in Workers : kind[v] \in kinds}} \ {NoCombo}

\* What must not be worked on at the same time as an entity of a kind.
Held(k) ==
    UNION {InHand(w) : w \in {v \in Workers : kind[v] # "none" /\ (kind[v] = "stock" <=> k = "stock")}}

(* Imports, which are in CatalogImport. *)

\* _persist_price_row
ImportPrice(c) ==
    /\ Event
    /\ price' = [price EXCEPT ![c] = events']
    /\ flagged' = Flag("price", c)
    /\ raced' = raced \cup (BusyWith({"price"}) \cap {c})
    /\ UNCHANGED <<product, active, psid, stock, remote, mine, unsent>>

\* _persist_stock_row
ImportStock(c) ==
    /\ Event
    /\ stock' = [stock EXCEPT ![c] = events']
    /\ flagged' = Flag("stock", c)
    /\ raced' = raced \cup (BusyWith({"stock"}) \cap {c})
    /\ UNCHANGED <<product, active, psid, price, remote, mine, unsent>>

\* _persist_product_row: the product is hidden, shown, discontinued or resumed.
\* Only the combination of the row is flagged, and only if it changes.
ImportProduct(c) ==
    /\ Event
    /\ \E v \in BOOLEAN, d \in BOOLEAN :
        /\ <<visible, discontinued, active[c]>> # <<v, d, ~d>>
        /\ visible' = v
        /\ discontinued' = d
        /\ active' = [active EXCEPT ![c] = ~d]
        /\ flagged' = IF active[c] = d THEN Flag("combination", c) ELSE flagged
    /\ raced' = raced \cup BusyWith(Kinds)
    /\ UNCHANGED <<mapped, psid, price, stock, remote, mine, unsent>>

\* export_product, which finds the product by its reference or creates it.
ExportProduct ==
    /\ ~mapped
    /\ visible
    /\ mapped' = TRUE
    /\ UNCHANGED <<visible, discontinued, rows, remote, mine, history, events>>
-----------------------------------------------------------------------------
(* Tasks *)

Forget(w) ==
    /\ kind' = [kind EXCEPT ![w] = "none"]
    /\ batch' = [batch EXCEPT ![w] = FALSE]
    /\ todo' = [todo EXCEPT ![w] = {}]
    /\ on' = [on EXCEPT ![w] = NoCombo]
    /\ pc' = [pc EXCEPT ![w] = "idle"]
    /\ target' = [target EXCEPT ![w] = 0]
    /\ value' = [value EXCEPT ![w] = 0]
    /\ listed' = [listed EXCEPT ![w] = FALSE]
    /\ cache' = [cache EXCEPT ![w] = {}]

Begin(w, k, entities) ==
    /\ kind' = [kind EXCEPT ![w] = k]
    /\ todo' = [todo EXCEPT ![w] = entities]
    /\ pc' = [pc EXCEPT ![w] = "next"]
    /\ raced' = raced \cup (entities \cap Held(k))
    /\ UNCHANGED <<on, target, value, listed, cache>>

\* What the query sets of the batches exclude, after clearing the flags.
Excluded(k) == {c \in Combos : (~Sellable /\ ~mapped) \/ (k # "combination" /\ ~active[c])}

\* What a cleared flag says no more.
Aspect(k) == IF k = "stock" THEN "stock" ELSE "price"

\* export_combinations, export_prices, export_stocks
BatchStart(w, k) ==
    /\ pc[w] = "idle"
    /\ \A v \in Workers : ~(batch[v] /\ kind[v] = k)
    /\ flagged[k] # {}
    /\ flagged' = [flagged EXCEPT ![k] = @ \ Excluded(k)]
    /\ unsent' = [unsent EXCEPT ![Aspect(k)] = @ \cup (flagged[k] \cap Excluded(k))]
    /\ \/ /\ flagged'[k] # {}
          /\ Begin(w, k, flagged'[k])
          /\ batch' = [batch EXCEPT ![w] = TRUE]
       \/ flagged'[k] = {} /\ UNCHANGED <<mine, raced>>
    /\ UNCHANGED <<product, active, psid, price, stock, remote, events>>

\* retry_entity and each job of retry_failed_jobs: no lock, no query set.
Retry(w, k, c) ==
    /\ pc[w] = "idle"
    /\ Begin(w, k, {c})
    /\ UNCHANGED <<product, rows, remote, batch, unsent, events>>

Take(w) ==
    /\ pc[w] = "next"
    /\ \E c \in todo[w] :
        /\ on' = [on EXCEPT ![w] = c]
        /\ todo' = [todo EXCEPT ![w] = @ \ {c}]
    /\ pc' = [pc EXCEPT ![w] = kind[w]]
    /\ UNCHANGED <<product, rows, remote, kind, batch, target, value, listed, cache, history, events>>

\* The entity is done, with or without an error.
Leave(w) ==
    \/ /\ todo[w] # {}
       /\ on' = [on EXCEPT ![w] = NoCombo]
       /\ pc' = [pc EXCEPT ![w] = "next"]
       /\ target' = [target EXCEPT ![w] = 0]
       /\ value' = [value EXCEPT ![w] = 0]
       /\ UNCHANGED <<kind, batch, todo, listed, cache>>
    \/ todo[w] = {} /\ Forget(w)

Goto(w, place) ==
    /\ pc' = [pc EXCEPT ![w] = place]
    /\ UNCHANGED <<kind, batch, todo, on>>

\* The process dies.
Stop(w) ==
    /\ pc[w] # "idle"
    /\ Event
    /\ Forget(w)
    /\ UNCHANGED <<product, rows, remote, history>>

\* What the exception handlers leave behind: export_combination flags the
\* combination, export_price and export_stock what they export.
Failed(w) ==
    /\ LET inner == IF pc[w] \in {"price", "stock", "quantity"} THEN {} ELSE {on[w]}
       IN  flagged' = [flagged EXCEPT !["combination"] = @ \cup inner,
                                      ![kind[w]] = @ \cup {on[w]}]
    /\ Leave(w)

\* A request fails, or whatever comes before it.
Fails(w) ==
    /\ pc[w] \in {"price", "combination", "prepare", "put", "adopt", "post", "delete", "quantity"}
    /\ Event
    /\ Failed(w)
    /\ UNCHANGED <<product, active, psid, price, stock, remote, history>>

\* The request has been carried out; its answer may get lost.
Answered(w, place) ==
    \/ Goto(w, place) /\ UNCHANGED <<flagged, target, value, listed, cache, events>>
    \/ Event /\ Failed(w)
-----------------------------------------------------------------------------
(* export_combination *)

Exists(i) == \E s \in shop : s.id = i
Of(c) == {s.id : s \in {r \in shop : r.variant = c}}
First(i, ids) == i \in ids /\ \A j \in ids : i <= j

\* The combination has been exported; export_price goes on.
Returns(w) ==
    \/ kind[w] = "price" /\ Goto(w, "close") /\ UNCHANGED <<target, value, listed, cache>>
    \/ kind[w] # "price" /\ Leave(w)

\* The flag is cleared although nothing has been sent.
Drop(w, k) ==
    /\ flagged' = Clear(k, on[w])
    /\ unsent' = [unsent EXCEPT ![Aspect(k)] = @ \cup {on[w]}]

\* It loads the combination and decides.  A combination that is not for sale
\* goes from the shop; a mapped placeholder is left as it is.
Combination(w) ==
    /\ pc[w] = "combination"
    /\ LET c == on[w]
       IN  \/ /\ Gone(c) /\ psid[c] # 0
              /\ target' = [target EXCEPT ![w] = psid[c]]
              /\ Goto(w, "delete")
              /\ UNCHANGED <<flagged, unsent, value, listed, cache>>
           \/ /\ IF Gone(c) THEN psid[c] = 0 ELSE mapped /\ psid[c] # 0 /\ c \in Placeholders
              /\ Drop(w, "combination")
              /\ Returns(w)
           \/ /\ ~Gone(c) /\ ~mapped
              /\ Failed(w)
              /\ UNCHANGED unsent
           \/ /\ ~Gone(c) /\ mapped /\ (psid[c] = 0 \/ c \notin Placeholders)
              /\ target' = [target EXCEPT ![w] = psid[c]]
              /\ Goto(w, "prepare")
              /\ UNCHANGED <<flagged, unsent, value, listed, cache>>
    /\ UNCHANGED <<product, active, psid, price, stock, remote, raced, events>>

Seen(w) == IF listed[w] THEN cache[w] ELSE shop

\* Mutant: what is in the shop is not looked up.
Found_none(w) == {}

\* Mutant: any combination of the product will do.
Found_any(w) == {s.id : s \in Seen(w)}

\* The shop combinations with the attribute values of the local one.
Found(w) == {s.id : s \in {r \in Seen(w) : r.variant = on[w]}}

\* The attribute values are ensured; a combination without an id is looked up in
\* the shop, or in what the client has listed before; the price is read.
Prepare(w) ==
    /\ pc[w] = "prepare"
    /\ value' = [value EXCEPT ![w] = price[on[w]]]
    /\ \/ /\ target[w] # 0
          /\ Goto(w, "put")
          /\ UNCHANGED <<target, listed, cache>>
       \/ /\ target[w] = 0
          /\ cache' = [cache EXCEPT ![w] = Seen(w)]
          /\ listed' = [listed EXCEPT ![w] = TRUE]
          /\ \/ /\ \E i \in Found(w) : First(i, Found(w)) /\ target' = [target EXCEPT ![w] = i]
                /\ Goto(w, "adopt")
             \/ Found(w) = {} /\ Goto(w, "post") /\ UNCHANGED target
    /\ UNCHANGED <<product, rows, remote, history, events>>

\* Mutant: the PUT is a POST.
Put_again(w) ==
    /\ pc[w] \in {"put", "adopt"}
    /\ Exists(target[w])
    /\ shop' = shop \cup {[id |-> target[w], variant |-> on[w], price |-> value[w], quantity |-> 0]}
    /\ Answered(w, "save")
    /\ UNCHANGED <<product, active, psid, price, stock, created, history>>

\* GET and PUT of a combination that exists.
Put(w) ==
    /\ pc[w] \in {"put", "adopt"}
    /\ Exists(target[w])
    /\ shop' = {IF s.id = target[w] THEN [s EXCEPT !.variant = on[w], !.price = value[w]] ELSE s : s \in shop}
    /\ Answered(w, "save")
    /\ UNCHANGED <<product, active, psid, price, stock, created, history>>

\* The combination is created, without a quantity.
Post(w) ==
    /\ pc[w] = "post"
    /\ created < MaxIds
    /\ created' = created + 1
    /\ shop' = shop \cup {[id |-> created', variant |-> on[w], price |-> value[w], quantity |-> 0]}
    /\ unsent' = [unsent EXCEPT !["stock"] = @ \cup ({on[w]} \ flagged["stock"])]
    /\ raced' = raced \cup (BusyWith({"stock"}) \cap {on[w]})
    /\ \/ /\ Goto(w, "save")
          /\ target' = [target EXCEPT ![w] = created']
          /\ listed' = [listed EXCEPT ![w] = FALSE]
          /\ cache' = [cache EXCEPT ![w] = {}]
          /\ UNCHANGED <<flagged, value, events>>
       \/ Event /\ Failed(w)
    /\ UNCHANGED <<product, active, psid, price, stock>>

Delete(w) ==
    /\ pc[w] = "delete"
    /\ Exists(target[w])
    /\ shop' = {s \in shop : s.id # target[w]}
    /\ \/ /\ Goto(w, "save")
          /\ target' = [target EXCEPT ![w] = 0]
          /\ UNCHANGED <<flagged, value, listed, cache, events>>
       \/ Event /\ Failed(w)
    /\ UNCHANGED <<product, active, psid, price, stock, created, history>>

\* Mutant: a combination that is not there any more is an error like any other.
Missing_fails(w) ==
    /\ pc[w] \in {"put", "adopt", "delete"}
    /\ ~Exists(target[w])
    /\ Failed(w)
    /\ UNCHANGED <<product, active, psid, price, stock, remote, history, events>>

\* HTTP 404 for the id it has loaded: the id is dropped and the export begins
\* again.  For one it has found in an old listing it is an error.
Missing(w) ==
    /\ pc[w] \in {"put", "adopt", "delete"}
    /\ ~Exists(target[w])
    /\ \/ /\ pc[w] # "adopt"
          /\ psid' = [psid EXCEPT ![on[w]] = 0]
          /\ target' = [target EXCEPT ![w] = 0]
          /\ value' = [value EXCEPT ![w] = 0]
          /\ unsent' = [unsent EXCEPT !["price"] = @ \cup ({on[w]} \ flagged["combination"])]
          /\ Goto(w, "combination")
          /\ UNCHANGED <<flagged, listed, cache>>
       \/ pc[w] = "adopt" /\ Failed(w) /\ UNCHANGED <<psid, unsent>>
    /\ UNCHANGED <<product, active, price, stock, remote, raced, events>>

\* Its own copy of the combination is saved, without the flag.
Save(w) ==
    /\ pc[w] = "save"
    /\ psid' = [psid EXCEPT ![on[w]] = target[w]]
    /\ flagged' = Clear("combination", on[w])
    /\ unsent' = [unsent EXCEPT !["price"] = IF target[w] = 0 THEN @ \cup {on[w]} ELSE @ \ {on[w]}]
    /\ Returns(w)
    /\ UNCHANGED <<product, active, price, stock, remote, raced, events>>
-----------------------------------------------------------------------------
(* export_price *)

\* The product is exported first if need be.
Price(w) ==
    /\ pc[w] = "price"
    /\ \/ /\ Gone(on[w])
          /\ Drop(w, "price")
          /\ Leave(w)
          /\ UNCHANGED mapped
       \/ /\ ~Gone(on[w])
          /\ mapped' = TRUE
          /\ Goto(w, "combination")
          /\ UNCHANGED <<flagged, target, value, listed, cache, unsent>>
    /\ UNCHANGED <<visible, discontinued, active, psid, price, stock, remote, raced, events>>

\* The price or the stock is saved, without the flag.
Close(w) ==
    /\ pc[w] = "close"
    /\ flagged' = Clear(kind[w], on[w])
    /\ unsent' = IF kind[w] = "stock" THEN [unsent EXCEPT !["stock"] = @ \ {on[w]}] ELSE unsent
    /\ Leave(w)
    /\ UNCHANGED <<product, active, psid, price, stock, remote, raced, events>>
-----------------------------------------------------------------------------
(* export_stock *)

Stock(w) ==
    /\ pc[w] = "stock"
    /\ LET c == on[w]
       IN  \/ Gone(c) /\ Drop(w, "stock") /\ Leave(w)
           \/ ~Gone(c) /\ psid[c] = 0 /\ Failed(w) /\ UNCHANGED unsent
           \/ /\ ~Gone(c) /\ psid[c] # 0
              /\ target' = [target EXCEPT ![w] = psid[c]]
              /\ value' = [value EXCEPT ![w] = stock[c]]
              /\ Goto(w, "quantity")
              /\ UNCHANGED <<flagged, listed, cache, unsent>>
    /\ UNCHANGED <<product, active, psid, price, stock, remote, raced, events>>

\* upsert_stock
Quantity(w) ==
    /\ pc[w] = "quantity"
    /\ Exists(target[w])
    /\ shop' = {IF s.id = target[w] THEN [s EXCEPT !.quantity = value[w]] ELSE s : s \in shop}
    /\ Answered(w, "close")
    /\ UNCHANGED <<product, active, psid, price, stock, created, history>>

\* Mutant: the combination is not flagged.
QuantityMissing_flagsStock(w) ==
    /\ pc[w] = "quantity"
    /\ ~Exists(target[w])
    /\ psid' = [psid EXCEPT ![on[w]] = 0]
    /\ flagged' = Flag("stock", on[w])
    /\ raced' = raced \cup (BusyWith({"combination", "price"}) \cap {on[w]})
    /\ Leave(w)
    /\ UNCHANGED <<product, active, price, stock, remote, unsent, events>>

\* HTTP 404: the combination loses its id and is flagged too.
QuantityMissing(w) ==
    /\ pc[w] = "quantity"
    /\ ~Exists(target[w])
    /\ psid' = [psid EXCEPT ![on[w]] = 0]
    /\ flagged' = [flagged EXCEPT !["combination"] = @ \cup {on[w]}, !["stock"] = @ \cup {on[w]}]
    /\ raced' = raced \cup (BusyWith({"combination", "price"}) \cap {on[w]})
    /\ Leave(w)
    /\ UNCHANGED <<product, active, price, stock, remote, unsent, events>>
-----------------------------------------------------------------------------
(* Operators and shop staff *)

\* A combination is deleted in the shop.
ShopDeletes ==
    /\ Event
    /\ \E s \in shop : shop' = shop \ {s}
    /\ UNCHANGED <<product, rows, created, mine, history>>

\* reset_prestashop_ids combination
ResetIds ==
    /\ Event
    /\ LET with == {c \in Combos : psid[c] # 0}
       IN  /\ psid' = [c \in Combos |-> 0]
           /\ flagged' = [flagged EXCEPT !["combination"] = @ \cup with]
           /\ raced' = raced \cup (BusyWith(Kinds) \cap with)
    /\ UNCHANGED <<product, active, price, stock, remote, mine, unsent>>

\* reconcile_prestashop_combinations: an unmapped combination gets the id of the
\* first one in the shop and is not flagged any more.
Reconcile ==
    /\ mapped
    /\ Event
    /\ LET matched == {c \in Combos : psid[c] = 0 /\ Of(c) # {}}
       IN  /\ psid' \in {f \in [Combos -> {0} \cup Ids] :
                    \A c \in Combos : IF c \in matched THEN First(f[c], Of(c)) ELSE f[c] = psid[c]}
           /\ flagged' = [flagged EXCEPT !["combination"] = @ \ matched]
           /\ raced' = raced \cup (BusyWith(Kinds) \cap matched)
    /\ UNCHANGED <<product, active, price, stock, remote, mine, unsent>>

\* Whether a combination is the one of its variant that stays.
Kept(s) == LET mappedTo == psid[s.variant]
           IN  IF mappedTo \in Of(s.variant) THEN s.id = mappedTo ELSE First(s.id, Of(s.variant))

\* delete_duplicate_prestashop_combinations
DeleteDuplicates ==
    /\ mapped
    /\ Event
    /\ LET double == {c \in Combos : Cardinality(Of(c)) > 1}
       IN  /\ double # {}
           /\ shop' = {s \in shop : s.variant \in double => Kept(s)}
           /\ raced' = raced \cup (BusyWith(Kinds) \cap double)
    /\ UNCHANGED <<product, rows, created, mine, unsent>>
-----------------------------------------------------------------------------
\* What a process does on its own.
Step(w) ==
    \/ Take(w)
    \/ Combination(w) \/ Prepare(w) \/ Put(w) \/ Post(w) \/ Delete(w) \/ Missing(w) \/ Save(w)
    \/ Price(w) \/ Close(w)
    \/ Stock(w) \/ Quantity(w) \/ QuantityMissing(w)

Operator == ShopDeletes \/ ResetIds \/ Reconcile \/ DeleteDuplicates

Next ==
    \/ \E c \in Combos : ImportPrice(c) \/ ImportStock(c) \/ ImportProduct(c)
    \/ ExportProduct \/ Operator
    \/ \E w \in Workers, k \in Kinds : BatchStart(w, k) \/ \E c \in Combos : Retry(w, k, c)
    \/ \E w \in Workers : Step(w) \/ Fails(w) \/ Stop(w)

\* A process goes on, and every batch is started again and again.
Fairness ==
    /\ WF_vars(ExportProduct)
    /\ \A w \in Workers : WF_vars(Step(w))
    /\ \A k \in Kinds : SF_vars(\E w \in Workers : BatchStart(w, k))

Spec == Init /\ [][Next]_vars
FairSpec == Spec /\ Fairness
-----------------------------------------------------------------------------
(* Properties *)

At(c) == {s \in shop : s.id = psid[c]}

\* What an id that somebody keeps is worth: the shop gave it out, and if it still
\* has a combination with that id, it is one of the variant.
Own(i, c) == i <= created /\ \A s \in shop : s.id = i => s.variant = c

IdsDiffer ==
    /\ \A s \in shop : s.id <= created
    /\ \A s, t \in shop : s.id = t.id => s = t

KnownOwn ==
    /\ \A c \in Combos : Own(psid[c], c)
    /\ \A w \in Workers : Own(target[w], on[w]) /\ \A t \in cache[w] : Own(t.id, t.variant)

AtWork ==
    \A w \in Workers :
        /\ kind[w] = "none" => pc[w] = "idle"
        /\ pc[w] \in {"idle", "next"} => target[w] = 0
        /\ pc[w] \notin {"idle", "next"} => on[w] # NoCombo

\* Whatever is not flagged is in the shop as it is in the catalog, wherever
\* processes died, requests failed, answers got lost or the shop lost a
\* combination.  Three things lose their flag without having been sent: what is
\* exported while it is not for sale, the quantity of a combination that had to
\* be created again, and what two had in hand at once.
FlagsTell ==
    \A c \in Combos \ raced :
        /\ c \notin flagged["combination"] \cup unsent["price"] => psid[c] # 0
        /\ c \notin flagged["price"] \cup unsent["price"] => \A s \in At(c) : s.price = price[c]
        /\ c \notin flagged["stock"] \cup unsent["stock"] => \A s \in At(c) : s.quantity = stock[c]

\* A combination is never twice in the shop, however often its export is repeated.
NoDuplicate == \A c \in Combos : c \in raced \/ Cardinality(Of(c)) <= 1

\* No combination is mapped to one of another variant.
MappedToOwn == \A c \in Combos : \A s \in At(c) : s.variant = c

\* Why MappedToOwn holds: the inductive invariant.  All ids that are mapped, loaded
\* or listed before stay true while others delete and create combinations.
IInv == TypeOK /\ IdsDiffer /\ KnownOwn /\ AtWork

-----------------------------------------------------------------------------
(* Why NoDuplicate and FlagsTell hold *)

PriceSent(c) == \A s \in shop : s.variant = c => s.price = price[c]
StockSent(c) == \A s \in shop : s.variant = c => s.quantity = stock[c]

\* A process takes one entity after the other to the places of its kind.
InTurn(w) ==
    /\ pc[w] = "idle" <=> kind[w] = "none"
    /\ pc[w] = "idle" => todo[w] = {}
    /\ pc[w] \in {"idle", "next"} => on[w] = NoCombo
    /\ on[w] \notin todo[w]
    /\ kind[w] = "stock" => pc[w] \in {"next", "stock", "quantity", "close"}
    /\ kind[w] \in {"combination", "price"} => pc[w] \notin {"stock", "quantity"}
    /\ kind[w] = "combination" => pc[w] \notin {"price", "close"}
    /\ listed[w] => kind[w] \in {"combination", "price"}

\* Exports of the same kind that share an entity are known to race.
NotShared ==
    \A v, w \in Workers :
        v # w /\ (kind[v] = "stock" <=> kind[w] = "stock") => InHand(v) \cap InHand(w) \subseteq raced

\* A listing lacks no combination that the process may still look up in it.
ListsAll(w) ==
    listed[w] => \A s \in shop : s.variant \in InHand(w) \ raced =>
        \E t \in cache[w] : t.id = s.id /\ t.variant = s.variant

OneOfEach ==
    \A s, t \in shop : s.variant = t.variant /\ s.variant \notin raced => s = t

\* A combination without an id will be exported or was not for sale.
UnmappedTold == \A c \in Combos : psid[c] = 0 => c \in flagged["combination"] \cup unsent["price"]

PricesTold == \A c \in Combos : c \in raced \cup flagged["price"] \cup unsent["price"] \/ PriceSent(c)
StocksTold == \A c \in Combos : c \in raced \cup flagged["stock"] \cup unsent["stock"] \/ StockSent(c)

\* Its price will be exported after the combination.
PriceFollows(w) == kind[w] = "combination" /\ on[w] \in flagged["price"]

\* What a process has read of the combination it works on, or has sent of it,
\* is still so.
Fresh(w) ==
    /\ pc[w] \in {"prepare", "put", "adopt", "post"} => ~Gone(on[w])
    /\ pc[w] \in {"put", "adopt", "post"} => value[w] = price[on[w]] \/ PriceFollows(w)
    /\ pc[w] = "post" => Of(on[w]) = {}
    /\ pc[w] = "save" /\ target[w] # 0 => ~Gone(on[w]) /\ (PriceSent(on[w]) \/ PriceFollows(w))
    /\ pc[w] = "close" /\ kind[w] = "price" => on[w] \in unsent["price"] \/ PriceSent(on[w])
    /\ pc[w] = "quantity" => value[w] = stock[on[w]]
    /\ pc[w] = "close" /\ kind[w] = "stock" => StockSent(on[w])

\* The inductive invariant behind NoDuplicate and FlagsTell: an export keeps what it
\* has read, listed and sent true, unless another one has the same combination
\* in hand (services.py:826-1160).
FlagsInv ==
    /\ \A w \in Workers : InTurn(w) /\ ListsAll(w) /\ (on[w] \in raced \/ Fresh(w))
    /\ NotShared /\ OneOfEach
    /\ UnmappedTold /\ PricesTold /\ StocksTold
-----------------------------------------------------------------------------
\* Every flag is cleared in the end.  A stock waits for the id of a combination,
\* for ever if that has lost its flag without having been sent.
Exported ==
    \A c \in Combos :
        /\ <>[](c \notin flagged["combination"] \cup flagged["price"])
        /\ <>[](c \notin flagged["stock"] \/ c \in unsent["price"] \/ c \in raced)
=============================================================================
