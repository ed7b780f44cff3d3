------------------------ MODULE CatalogFlags_proofs ------------------------
(***************************************************************************)
(* What a flag that is not set is worth, for any number of processes and   *)
(* combinations: Spec => []FlagsTell, and what this needs, that no export  *)
(* creates a combination twice: Spec => []NoDuplicate.                     *)
(*                                                                         *)
(* A step is described by what it does to its process (Turned), to its     *)
(* combination, and to what another process has read of that combination   *)
(* (PriceSide, StockSide).  TurnKeeps and OutsideKeepsFlags derive the     *)
(* invariant from these, the lemmas after them go through the steps.       *)
(***************************************************************************)
EXTENDS CatalogExport_proofs

\* The part of FlagsInv about one combination.
Told(c) ==
    /\ psid[c] = 0 => c \in flagged["combination"] \cup unsent["price"]
    /\ c \in raced \cup flagged["price"] \cup unsent["price"] \/ PriceSent(c)
    /\ c \in raced \cup flagged["stock"] \cup unsent["stock"] \/ StockSent(c)

LEMMA FlagsParts ==
    /\ FlagsInv <=> /\ \A w \in Workers : InTurn(w) /\ ListsAll(w) /\ (on[w] \in raced \/ Fresh(w))
                    /\ NotShared /\ OneOfEach
                    /\ \A c \in Combos : Told(c)
    /\ FlagsInv' <=> /\ \A w \in Workers : InTurn(w)' /\ ListsAll(w)' /\ (on'[w] \in raced' \/ Fresh(w)')
                     /\ NotShared' /\ OneOfEach'
                     /\ \A c \in Combos : Told(c)'
BY DEF FlagsInv, UnmappedTold, PricesTold, StocksTold, Told

\* Nothing but c is touched.
Only(c) ==
    /\ UNCHANGED <<visible, discontinued, active, price, stock>>
    /\ \A d \in Combos \ {c} :
        /\ psid'[d] = psid[d]
        /\ \A k \in Kinds : d \in flagged'[k] <=> d \in flagged[k]
        /\ \A k \in {"price", "stock"} : d \in unsent'[k] <=> d \in unsent[k]
        /\ {s \in shop' : s.variant = d} = {s \in shop : s.variant = d}

\* What the export of a combination and of a price has read and sent stays so.
PriceSide(c) ==
    /\ ~Gone(c) => ~Gone(c)'
    /\ price'[c] = price[c]
    /\ c \in flagged["price"] /\ ~Gone(c) => c \in flagged'["price"]
    /\ c \in unsent["price"] => c \in unsent'["price"]
    /\ Of(c) = {} => Of(c)' = {}
    /\ PriceSent(c) => PriceSent(c)'

\* The same for the export of a stock.
StockSide(c) ==
    /\ stock'[c] = stock[c]
    /\ StockSent(c) => StockSent(c)'

\* A process that does nothing.
Rests(v) ==
    /\ kind'[v] = kind[v] /\ todo'[v] = todo[v] /\ on'[v] = on[v] /\ pc'[v] = pc[v]
    /\ target'[v] = target[v] /\ value'[v] = value[v]
    /\ listed'[v] = listed[v] /\ cache'[v] = cache[v]

\* A process that has nothing in hand.
LEMMA FreshWithout ==
    ASSUME NEW w \in Workers
    PROVE  /\ pc[w] \in {"idle", "next"} => Fresh(w)
           /\ pc'[w] \in {"idle", "next"} => Fresh(w)'
BY DEF Fresh

LEMMA FreshKept ==
    ASSUME IInv, NEW v \in Workers, Rests(v), InTurn(v), Fresh(v),
           NEW c, c = on[v],
           kind[v] # "stock" => PriceSide(c),
           kind[v] = "stock" => StockSide(c)
    PROVE  Fresh(v)'
<1>1. CASE kind[v] = "stock"
  BY <1>1 DEF Fresh, Rests, InTurn, StockSide
<1>2. CASE kind[v] # "stock"
  <2>1. pc[v] # "quantity"
    BY <1>2 DEF InTurn, IInv, TypeOK, Kinds
  <2>2. ~Gone(c) /\ PriceFollows(v) => PriceFollows(v)'
    BY <1>2 DEF PriceSide, PriceFollows, Rests
  <2> QED BY <1>2, <2>1, <2>2 DEF Fresh, Rests, PriceSide
<1> QED BY <1>1, <1>2

\* What is not touched.
LEMMA Quiet ==
    ASSUME NEW c, NEW d \in Combos \ {c}, Only(c), raced \subseteq raced'
    PROVE  PriceSide(d) /\ StockSide(d) /\ (Told(d) => Told(d)')
<1>1. /\ price'[d] = price[d] /\ stock'[d] = stock[d]
      /\ Gone(d)' <=> Gone(d)
      /\ psid'[d] = psid[d]
  BY DEF Only, Gone, Sellable
<1>2. \A k \in Kinds : d \in flagged'[k] <=> d \in flagged[k]
  BY DEF Only
<1>3. \A k \in {"price", "stock"} : d \in unsent'[k] <=> d \in unsent[k]
  BY DEF Only
<1>4. {s \in shop' : s.variant = d} = {s \in shop : s.variant = d}
  BY DEF Only
<1>5. \A s : s \in shop' /\ s.variant = d <=> s \in shop /\ s.variant = d
  BY <1>4
<1>6. (PriceSent(d)' <=> PriceSent(d)) /\ (StockSent(d)' <=> StockSent(d))
  BY <1>1, <1>5 DEF PriceSent, StockSent
<1>7. Of(d)' = Of(d)
  BY <1>4 DEF Of
<1>8. PriceSide(d) /\ StockSide(d)
  BY <1>1, <1>2, <1>3, <1>6, <1>7 DEF PriceSide, StockSide, Kinds
<1>9. Told(d) => Told(d)'
  BY <1>1, <1>2, <1>3, <1>6 DEF Told, Kinds
<1> QED BY <1>8, <1>9

\* No combination is added to the shop.
LEMMA OneKept ==
    ASSUME OneOfEach, ShopKept, raced \subseteq raced'
    PROVE  OneOfEach'
<1> SUFFICES ASSUME NEW s \in shop', NEW t \in shop', s.variant = t.variant, s.variant \notin raced'
             PROVE  s = t
  BY DEF OneOfEach
<1>1. PICK p \in shop : p.id = s.id /\ p.variant = s.variant
  BY DEF ShopKept
<1>2. PICK q \in shop : q.id = t.id /\ q.variant = t.variant
  BY DEF ShopKept
<1>3. p = q
  BY <1>1, <1>2 DEF OneOfEach
<1> QED BY <1>1, <1>2, <1>3 DEF ShopKept

\* The process looks nothing else up, in the same listing or in none.
Relies(w) ==
    /\ InHand(w)' \subseteq InHand(w)
    /\ listed'[w] => listed[w] /\ cache'[w] = cache[w]

LEMMA ListsKept ==
    ASSUME NEW w \in Workers, ListsAll(w), ShopKept, raced \subseteq raced', Relies(w)
    PROVE  ListsAll(w)'
<1> SUFFICES ASSUME listed'[w], NEW s \in shop', s.variant \in InHand(w)' \ raced'
             PROVE  \E t \in cache'[w] : t.id = s.id /\ t.variant = s.variant
  BY DEF ListsAll
<1>1. PICK p \in shop : p.id = s.id /\ p.variant = s.variant
  BY DEF ShopKept
<1>2. p.variant \in InHand(w) \ raced /\ listed[w] /\ cache'[w] = cache[w]
  BY <1>1 DEF Relies
<1>3. \E t \in cache[w] : t.id = p.id /\ t.variant = p.variant
  BY <1>2 DEF ListsAll
<1> QED BY <1>1, <1>2, <1>3

LEMMA RestsRelies ==
    ASSUME NEW v \in Workers, Rests(v)
    PROVE  Relies(v) /\ InHand(v)' = InHand(v) /\ (InTurn(v) => InTurn(v)')
BY DEF Rests, Relies, InHand, InTurn

\* Others share nothing with the process that is not known to be raced for.
LEMMA NotSharedKept ==
    ASSUME NotShared, raced \subseteq raced', NEW w \in Workers,
           \A v \in Workers : InTurn(v), \A v \in Workers \ {w} : Rests(v),
           InHand(w)' \subseteq InHand(w),
           kind'[w] = kind[w] \/ InHand(w)' = {}
    PROVE  NotShared'
<1> SUFFICES ASSUME NEW u \in Workers, NEW v \in Workers, u # v,
                    kind'[u] = "stock" <=> kind'[v] = "stock",
                    NEW c \in InHand(u)', c \in InHand(v)'
             PROVE  c \in raced'
  BY DEF NotShared
<1>1. \A x \in Workers : InHand(x)' \subseteq InHand(x)
  BY RestsRelies
<1>2. kind'[w] = kind[w] \/ (u # w /\ v # w)
  OBVIOUS
<1>3. kind'[u] = kind[u] /\ kind'[v] = kind[v]
  BY <1>2 DEF Rests
<1> QED BY <1>1, <1>3 DEF NotShared

\* What a step leaves of its process: it has nothing more in hand.
Turned(w) ==
    /\ \A v \in Workers \ {w} : Rests(v)
    /\ InTurn(w)'
    /\ InHand(w)' \subseteq InHand(w)
    /\ kind'[w] = kind[w] \/ InHand(w)' = {}

\* What another process has read of the combination of this one: if it is not
\* raced for, that is an export of the other side.
Respects(w) ==
    \A v \in Workers \ {w}, c \in Combos \ raced' : on[v] = c /\ on[w] = c =>
        IF kind[v] = "stock" THEN kind[w] # "stock" => StockSide(c)
                             ELSE kind[w] = "stock" => PriceSide(c)

LEMMA OthersFresh ==
    ASSUME IInv, FlagsInv, raced \subseteq raced', NEW w \in Workers, Turned(w), Only(on[w]), Respects(w),
           NEW v \in Workers \ {w}, on'[v] \notin raced'
    PROVE  Fresh(v)'
<1>1. Rests(v) /\ InTurn(v) /\ Fresh(v) /\ on[v] \notin raced'
  BY DEF Turned, Rests, FlagsInv
<1>2. CASE on[v] \notin Combos
  <2>1. pc[v] \in {"idle", "next"}
    BY <1>2 DEF IInv, TypeOK, AtWork
  <2> QED BY <1>1, <2>1, FreshWithout DEF Rests
<1>3. ASSUME NEW c \in Combos \ {on[w]}, on[v] = c
      PROVE  Fresh(v)'
  <2>1. PriceSide(c) /\ StockSide(c)
    BY Quiet
  <2> QED BY <1>1, <1>3, <2>1, FreshKept
<1>4. ASSUME NEW c \in Combos, on[w] = c, on[v] = c
      PROVE  Fresh(v)'
  <2>1. on[v] \in InHand(v) \cap InHand(w) /\ on[v] \notin raced
    BY <1>1, <1>4, Constants DEF InHand
  <2>2. ~(kind[v] = "stock" <=> kind[w] = "stock")
    BY <2>1 DEF FlagsInv, NotShared
  <2>3. /\ kind[v] # "stock" => PriceSide(c)
        /\ kind[v] = "stock" => StockSide(c)
    BY <1>1, <1>4, <2>2 DEF Respects
  <2> QED BY <1>1, <1>4, <2>3, FreshKept
<1> QED BY <1>2, <1>3, <1>4

\* A step of a process that creates no combination keeps the invariant, if it
\* does so for the process itself and its combination.
LEMMA TurnKeeps ==
    ASSUME IInv, FlagsInv, ShopKept, raced \subseteq raced', NEW w \in Workers,
           Turned(w), Only(on[w]), Respects(w),
           ListsAll(w)',
           \A c \in Combos : c = on[w] => Told(c)',
           on'[w] \in raced' \/ Fresh(w)'
    PROVE  FlagsInv'
<1>1. \A v \in Workers : InTurn(v)'
  BY RestsRelies DEF Turned, FlagsInv
<1>2. ASSUME NEW v \in Workers PROVE ListsAll(v)'
  <2>1. v # w => Relies(v)
    BY RestsRelies DEF Turned
  <2> QED BY <2>1, ListsKept DEF FlagsInv
<1>3. ASSUME NEW v \in Workers PROVE on'[v] \in raced' \/ Fresh(v)'
  BY OthersFresh
<1>4. NotShared'
  BY NotSharedKept DEF Turned, FlagsInv
<1>5. OneOfEach'
  BY OneKept DEF FlagsInv
<1>6. ASSUME NEW c \in Combos PROVE Told(c)'
  <2>1. Told(c)
    BY FlagsParts
  <2> QED BY <2>1, Quiet
<1> QED BY <1>1, <1>2, <1>3, <1>4, <1>5, <1>6, FlagsParts

\* What others do keeps it if it does so for every combination.
LEMMA OutsideKeepsFlags ==
    ASSUME IInv, FlagsInv, ShopKept, raced \subseteq raced', UNCHANGED mine,
           \A c \in Combos : Told(c)',
           \A v \in Workers : on[v] \in Combos \ raced' => Fresh(v)'
    PROVE  FlagsInv'
<1>1. \A v \in Workers : Rests(v)
  BY DEF Rests, mine
<1>2. \A v \in Workers : InTurn(v)' /\ Relies(v) /\ InHand(v)' = InHand(v)
  BY <1>1, RestsRelies DEF FlagsInv
<1>3. ASSUME NEW v \in Workers PROVE ListsAll(v)'
  BY <1>2, ListsKept DEF FlagsInv
<1>4. ASSUME NEW v \in Workers PROVE on'[v] \in raced' \/ Fresh(v)'
  <2>1. CASE on[v] \notin Combos
    <3>1. pc[v] \in {"idle", "next"}
      BY <2>1 DEF IInv, TypeOK, AtWork
    <3> QED BY <1>1, <3>1, FreshWithout DEF Rests
  <2>2. CASE on[v] \in Combos
    BY <1>1, <2>2 DEF Rests
  <2> QED BY <2>1, <2>2
<1>5. NotShared'
  BY <1>1, <1>2 DEF Rests, NotShared, FlagsInv
<1>6. OneOfEach'
  BY OneKept DEF FlagsInv
<1> QED BY <1>2, <1>3, <1>4, <1>5, <1>6, FlagsParts
-----------------------------------------------------------------------------
(* What a step does to its process *)

LEMMA ForgetTurned ==
    ASSUME IInv, NEW w \in Workers, Forget(w)
    PROVE  Turned(w) /\ Relies(w) /\ Fresh(w)'
<1>1. MineOK
  BY MineTypes DEF IInv
<1>2. /\ kind'[w] = "none" /\ todo'[w] = {} /\ on'[w] = NoCombo /\ pc'[w] = "idle" /\ ~listed'[w]
  BY <1>1 DEF Forget, MineOK
<1>3. \A v \in Workers \ {w} : Rests(v)
  BY <1>1 DEF Forget, MineOK, Rests
<1>4. InHand(w)' = {}
  BY <1>2 DEF InHand
<1>5. InTurn(w)'
  BY <1>2 DEF InTurn
<1> QED BY <1>2, <1>3, <1>4, <1>5, FreshWithout DEF Turned, Relies

LEMMA LeaveTurned ==
    ASSUME IInv, FlagsInv, NEW w \in Workers, pc[w] # "idle", Leave(w)
    PROVE  Turned(w) /\ Relies(w) /\ Fresh(w)'
<1>1. MineOK /\ InTurn(w) /\ kind[w] \in Kinds
  BY MineTypes DEF IInv, FlagsInv, InTurn, MineOK
<1>2. CASE Forget(w)
  BY <1>2, ForgetTurned
<1>3. CASE ~Forget(w)
  <2>1. /\ kind'[w] = kind[w] /\ todo'[w] = todo[w] /\ on'[w] = NoCombo /\ pc'[w] = "next"
        /\ listed'[w] = listed[w] /\ cache'[w] = cache[w]
    BY <1>1, <1>3 DEF Leave, MineOK
  <2>2. \A v \in Workers \ {w} : Rests(v)
    BY <1>1, <1>3 DEF Leave, MineOK, Rests
  <2>3. InHand(w)' \subseteq InHand(w)
    BY <2>1 DEF InHand
  <2>4. NoCombo \notin todo[w]
    BY <1>1, Constants DEF MineOK
  <2>5. InTurn(w)'
    BY <1>1, <2>1, <2>4 DEF InTurn, Kinds
  <2> QED BY <2>1, <2>2, <2>3, <2>5, FreshWithout DEF Turned, Relies
<1> QED BY <1>2, <1>3

\* Flags are set, of the combination in hand.
Raises(w) ==
    \A k \in Kinds : flagged[k] \subseteq flagged'[k] /\ flagged'[k] \subseteq flagged[k] \cup {on[w]}

LEMMA FailedTurned ==
    ASSUME IInv, FlagsInv, NEW w \in Workers, pc[w] \notin {"idle", "next"}, Failed(w)
    PROVE  Turned(w) /\ Relies(w) /\ Fresh(w)' /\ Raises(w)
<1>1. on[w] \in Combos /\ kind[w] \in Kinds /\ flagged \in [Kinds -> SUBSET Combos]
  BY OnCombo DEF IInv, TypeOK
<1>2. Raises(w)
  BY <1>1 DEF Failed, Raises, Kinds
<1> QED BY <1>2, LeaveTurned DEF Failed

\* The places where each kind of export goes on.
GoesOn(k) ==
    CASE k = "combination" -> {"combination", "prepare", "put", "post", "adopt", "delete", "save"}
      [] k = "price" -> {"price", "combination", "prepare", "put", "post", "adopt", "delete", "save", "close"}
      [] k = "stock" -> {"stock", "quantity", "close"}

LEMMA GotoTurned ==
    ASSUME IInv, FlagsInv, NEW w \in Workers, pc[w] \notin {"idle", "next"},
           NEW place \in GoesOn(kind[w]), Goto(w, place),
           \A v \in Workers \ {w} :
               /\ target'[v] = target[v] /\ value'[v] = value[v]
               /\ listed'[v] = listed[v] /\ cache'[v] = cache[v],
           listed'[w] => listed[w] \/ kind[w] # "stock"
    PROVE  /\ Turned(w)
           /\ pc'[w] = place /\ kind'[w] = kind[w] /\ on'[w] = on[w] /\ InHand(w)' = InHand(w)
<1>1. MineOK /\ InTurn(w) /\ on[w] \in Combos /\ kind[w] \in Kinds
  BY OnCombo, MineTypes DEF IInv, FlagsInv
<1>2. /\ kind'[w] = kind[w] /\ todo'[w] = todo[w] /\ on'[w] = on[w] /\ pc'[w] = place
  BY <1>1 DEF Goto, MineOK
<1>3. \A v \in Workers \ {w} : Rests(v)
  BY <1>1 DEF Goto, MineOK, Rests
<1>4. InHand(w)' = InHand(w)
  BY <1>2 DEF InHand
<1>5. /\ kind[w] = "stock" => place \in {"stock", "quantity", "close"}
      /\ kind[w] \in {"combination", "price"} => place \notin {"stock", "quantity", "idle", "next"}
      /\ kind[w] = "combination" => place \notin {"price", "close"}
  BY DEF GoesOn
<1>6. kind[w] \in {"combination", "price", "stock"}
  BY <1>1 DEF Kinds
<1>7. InTurn(w)'
  BY <1>1, <1>2, <1>5, <1>6 DEF InTurn
<1> QED BY <1>2, <1>3, <1>4, <1>7 DEF Turned

\* It goes on and what it knows stays, or its entity is done.
LEMMA GotoSame ==
    ASSUME IInv, FlagsInv, NEW w \in Workers, pc[w] \notin {"idle", "next"},
           NEW place \in GoesOn(kind[w]), Goto(w, place), UNCHANGED <<target, value, listed, cache>>
    PROVE  /\ Turned(w) /\ Relies(w)
           /\ pc'[w] = place /\ kind'[w] = kind[w] /\ on'[w] = on[w]
           /\ target'[w] = target[w] /\ value'[w] = value[w]
BY GotoTurned DEF Relies

LEMMA ReturnsTurned ==
    ASSUME IInv, FlagsInv, NEW w \in Workers, pc[w] \notin {"idle", "next"}, Returns(w), kind[w] # "stock"
    PROVE  /\ Turned(w) /\ Relies(w)
           /\ \/ Fresh(w)'
              \/ kind[w] = "price" /\ pc'[w] = "close" /\ kind'[w] = kind[w] /\ on'[w] = on[w]
<1>1. CASE kind[w] = "price" /\ Goto(w, "close") /\ UNCHANGED <<target, value, listed, cache>>
  <2>1. "close" \in GoesOn(kind[w])
    BY <1>1 DEF GoesOn
  <2> QED BY <1>1, <2>1, GotoSame
<1>2. CASE Leave(w)
  BY <1>2, LeaveTurned
<1> QED BY <1>1, <1>2 DEF Returns

LEMMA AnsweredTurned ==
    ASSUME IInv, FlagsInv, NEW w \in Workers, pc[w] \notin {"idle", "next"},
           NEW place \in GoesOn(kind[w]), Answered(w, place)
    PROVE  /\ Turned(w) /\ Relies(w) /\ Raises(w)
           /\ \/ Fresh(w)'
              \/ /\ pc'[w] = place /\ kind'[w] = kind[w] /\ on'[w] = on[w]
                 /\ target'[w] = target[w] /\ value'[w] = value[w] /\ flagged' = flagged
<1>1. CASE Goto(w, place) /\ UNCHANGED <<flagged, target, value, listed, cache, events>>
  <2>1. Raises(w)
    BY <1>1 DEF Raises
  <2> QED BY <1>1, <2>1, GotoSame
<1>2. CASE Event /\ Failed(w)
  BY <1>2, FailedTurned
<1> QED BY <1>1, <1>2 DEF Answered
-----------------------------------------------------------------------------
(* What a step does to its combination *)

LEMMA ToldStays ==
    ASSUME NEW c, Told(c), raced \subseteq raced', psid'[c] = psid[c],
           \A k \in Kinds : c \in flagged[k] => c \in flagged'[k],
           \A k \in {"price", "stock"} : c \in unsent[k] => c \in unsent'[k],
           PriceSent(c) => PriceSent(c)', StockSent(c) => StockSent(c)'
    PROVE  Told(c)'
BY DEF Told, Kinds

LEMMA SidesStay ==
    ASSUME UNCHANGED <<visible, discontinued, active, price, stock, shop>>, NEW c
    PROVE  /\ (PriceSent(c) => PriceSent(c)') /\ (StockSent(c) => StockSent(c)')
           /\ StockSide(c)
           /\ /\ c \in flagged["price"] => c \in flagged'["price"]
              /\ c \in unsent["price"] => c \in unsent'["price"]
              => PriceSide(c)
<1>1. (PriceSent(c) => PriceSent(c)') /\ (StockSent(c) => StockSent(c)')
  BY DEF PriceSent, StockSent
<1>2. (~Gone(c) => ~Gone(c)') /\ Of(c)' = Of(c)
  BY DEF Gone, Sellable, Of
<1> QED BY <1>1, <1>2 DEF StockSide, PriceSide

\* Nothing has been sent, and flags are at most set.
LEMMA RaisedKeeps ==
    ASSUME IInv, FlagsInv, ShopKept, raced \subseteq raced', NEW w \in Workers,
           UNCHANGED <<visible, discontinued, active, psid, price, stock, shop, unsent>>,
           Turned(w), Raises(w), ListsAll(w)', on'[w] \in raced' \/ Fresh(w)'
    PROVE  FlagsInv'
<1>1. Only(on[w])
  BY DEF Only, Raises
<1>2. ASSUME NEW c \in Combos
      PROVE  PriceSide(c) /\ StockSide(c) /\ Told(c)'
  <2>1. \A k \in Kinds : c \in flagged[k] => c \in flagged'[k]
    BY DEF Raises
  <2>2. Told(c)
    BY FlagsParts
  <2>3. Told(c)'
    BY <2>1, <2>2, SidesStay, ToldStays
  <2> QED BY <2>1, <2>3, SidesStay DEF Kinds
<1>3. Respects(w)
  BY <1>2 DEF Respects
<1>4. \A c \in Combos : c = on[w] => Told(c)'
  BY <1>2
<1> QED BY <1>1, <1>3, <1>4, TurnKeeps

LEMMA DropKeeps ==
    ASSUME IInv, FlagsInv, ShopKept, UNCHANGED raced, NEW w \in Workers, on[w] \in Combos,
           NEW k \in Kinds, Drop(w, k), k = "stock" <=> kind[w] = "stock",
           UNCHANGED <<visible, discontinued, active, psid, price, stock, shop>>,
           Turned(w), Relies(w), Fresh(w)'
    PROVE  FlagsInv'
<1>1. SharedOK
  BY Same
<1>2. Aspect(k) \in {"price", "stock"} /\ (Aspect(k) = "stock" <=> k = "stock")
  BY DEF Aspect
<1>3. /\ \A j \in Kinds : flagged'[j] = IF j = k THEN flagged[j] \ {on[w]} ELSE flagged[j]
      /\ \A j \in {"price", "stock"} :
            unsent'[j] = IF j = Aspect(k) THEN unsent[j] \cup {on[w]} ELSE unsent[j]
  BY <1>1, <1>2 DEF Drop, Clear, SharedOK
<1>4. Only(on[w])
  BY <1>3 DEF Only
<1>5. ASSUME NEW c \in Combos
      PROVE  StockSide(c) /\ (k = "stock" => PriceSide(c)) /\ Told(c)'
  <2>1. k = "stock" => flagged'["price"] = flagged["price"]
    BY <1>3 DEF Kinds
  <2>2. unsent["price"] \subseteq unsent'["price"] /\ unsent["stock"] \subseteq unsent'["stock"]
    BY <1>3
  <2>3. Told(c)
    BY FlagsParts
  <2>4. ASSUME c # on[w] PROVE Told(c)'
    BY <1>4, <2>3, <2>4, Quiet
  <2>5. ASSUME c = on[w], k = "stock" PROVE Told(c)'
    <3>1. c \in unsent'["stock"] /\ flagged'["price"] = flagged["price"] /\ flagged'["combination"] = flagged["combination"]
      BY <1>2, <1>3, <2>5 DEF Kinds
    <3> QED BY <2>2, <2>3, <3>1, SidesStay DEF Told
  <2>6. ASSUME c = on[w], k # "stock" PROVE Told(c)'
    <3>1. c \in unsent'["price"] /\ flagged'["stock"] = flagged["stock"]
      BY <1>2, <1>3, <2>6 DEF Kinds
    <3>2. StockSent(c) => StockSent(c)'
      BY SidesStay
    <3> QED BY <2>2, <2>3, <3>1, <3>2 DEF Told
  <2>7. Told(c)'
    BY <2>4, <2>5, <2>6
  <2> QED BY <2>1, <2>2, <2>7, SidesStay
<1>6. Respects(w)
  BY <1>5 DEF Respects
<1>7. ListsAll(w)'
  BY ListsKept DEF FlagsInv
<1>8. \A c \in Combos : c = on[w] => Told(c)'
  BY <1>5
<1> QED BY <1>4, <1>6, <1>7, <1>8, TurnKeeps
-----------------------------------------------------------------------------
(* The steps of a process *)

LEMMA ReliesLists ==
    ASSUME FlagsInv, ShopKept, raced \subseteq raced', NEW w \in Workers, Relies(w)
    PROVE  ListsAll(w)'
BY ListsKept DEF FlagsInv

LEMMA TakeFlags ==
    ASSUME IInv, FlagsInv, ShopKept, NEW w \in Workers, Take(w)
    PROVE  FlagsInv'
<1>1. MineOK /\ InTurn(w) /\ kind[w] \in Kinds
  BY Same DEF FlagsInv, InTurn, MineOK, Take
<1>2. PICK c \in todo[w] : on' = [on EXCEPT ![w] = c] /\ todo' = [todo EXCEPT ![w] = @ \ {c}]
  BY DEF Take
<1>3. /\ on'[w] = c /\ todo'[w] = todo[w] \ {c} /\ pc'[w] = kind[w] /\ kind'[w] = kind[w]
      /\ listed'[w] = listed[w] /\ cache'[w] = cache[w]
  BY <1>1, <1>2 DEF Take, MineOK
<1>4. \A v \in Workers \ {w} : Rests(v)
  BY <1>1, <1>2 DEF Take, MineOK, Rests
<1>5. InHand(w)' \subseteq InHand(w)
  BY <1>2, <1>3 DEF InHand
<1>6. InTurn(w)'
  BY <1>1, <1>2, <1>3 DEF InTurn, Kinds
<1>7. Fresh(w)'
  BY <1>1, <1>3 DEF Fresh, Kinds
<1>8. Turned(w) /\ Relies(w)
  BY <1>3, <1>4, <1>5, <1>6 DEF Turned, Relies
<1>9. UNCHANGED <<visible, discontinued, active, psid, price, stock, shop, unsent, flagged, raced>>
  BY DEF Take, product, rows, remote, history
<1>10. Raises(w)
  BY <1>9 DEF Raises
<1> QED BY <1>7, <1>8, <1>9, <1>10, ReliesLists, RaisedKeeps

LEMMA StopFlags ==
    ASSUME IInv, FlagsInv, ShopKept, NEW w \in Workers, Stop(w)
    PROVE  FlagsInv'
<1>1. Turned(w) /\ Relies(w) /\ Fresh(w)'
  BY ForgetTurned DEF Stop
<1>2. UNCHANGED <<visible, discontinued, active, psid, price, stock, shop, unsent, flagged, raced>>
  BY DEF Stop, product, rows, remote, history
<1>3. Raises(w)
  BY <1>2 DEF Raises
<1> QED BY <1>1, <1>2, <1>3, ReliesLists, RaisedKeeps

\* An error that leaves everything as it is.
LEMMA FailedFlags ==
    ASSUME IInv, FlagsInv, ShopKept, NEW w \in Workers, pc[w] \notin {"idle", "next"}, Failed(w),
           UNCHANGED <<visible, discontinued, active, psid, price, stock, shop, unsent, raced>>
    PROVE  FlagsInv'
<1>1. Turned(w) /\ Relies(w) /\ Fresh(w)' /\ Raises(w)
  BY FailedTurned
<1> QED BY <1>1, ReliesLists, RaisedKeeps

LEMMA FailsFlags ==
    ASSUME IInv, FlagsInv, ShopKept, NEW w \in Workers, Fails(w)
    PROVE  FlagsInv'
BY FailedFlags DEF Fails, product, remote, history

LEMMA CombinationFlags ==
    ASSUME IInv, FlagsInv, ShopKept, NEW w \in Workers, Combination(w)
    PROVE  FlagsInv'
<1>1. /\ MineOK /\ pc[w] \notin {"idle", "next"} /\ on[w] \in Combos /\ InTurn(w)
      /\ kind[w] \in {"combination", "price"} /\ "combination" \in Kinds
  BY Same, OnCombo DEF Combination, FlagsInv, InTurn, Kinds
<1>2. UNCHANGED <<visible, discontinued, active, psid, price, stock, shop, raced>>
  BY DEF Combination, product, remote
<1>3. CASE Drop(w, "combination") /\ Returns(w)
  <2>1. unsent'["price"] = unsent["price"] \cup {on[w]}
    BY <1>3, Same DEF Drop, Aspect, SharedOK
  <2>2. Turned(w) /\ Relies(w) /\ Fresh(w)'
    BY <1>1, <1>3, <2>1, ReturnsTurned DEF Fresh
  <2> QED BY <1>1, <1>2, <1>3, <2>2, DropKeeps
<1>4. CASE Failed(w) /\ UNCHANGED unsent
  BY <1>1, <1>2, <1>4, FailedFlags
<1>5. ASSUME NEW place \in {"delete", "prepare"}, Goto(w, place), place = "prepare" => ~Gone(on[w]),
             target' = [target EXCEPT ![w] = psid[on[w]]], UNCHANGED <<flagged, unsent, value, listed, cache>>
      PROVE  FlagsInv'
  <2>1. place \in GoesOn(kind[w])
    BY <1>1 DEF GoesOn
  <2>2. \A v \in Workers \ {w} : target'[v] = target[v]
    BY <1>1, <1>5 DEF MineOK
  <2>3. Turned(w) /\ Relies(w) /\ pc'[w] = place /\ on'[w] = on[w]
    BY <1>1, <1>5, <2>1, <2>2, GotoTurned DEF Relies
  <2>4. Fresh(w)'
    BY <1>2, <1>5, <2>3 DEF Fresh, Gone, Sellable
  <2>5. Raises(w)
    BY <1>5 DEF Raises
  <2> QED BY <1>2, <1>5, <2>3, <2>4, <2>5, ReliesLists, RaisedKeeps
<1> QED BY <1>3, <1>4, <1>5 DEF Combination

\* What has been listed is in the shop as far as the export is concerned.
LEMMA PrepareFlags ==
    ASSUME IInv, FlagsInv, ShopKept, NEW w \in Workers, Prepare(w)
    PROVE  FlagsInv'
<1>1. /\ MineOK /\ pc[w] \notin {"idle", "next"} /\ on[w] \in Combos /\ InTurn(w)
      /\ kind[w] \in {"combination", "price"} /\ pc[w] = "prepare"
  BY Same, OnCombo DEF Prepare, FlagsInv, InTurn, Kinds
<1>2. UNCHANGED <<visible, discontinued, active, psid, price, stock, shop, unsent, flagged, raced>>
  BY DEF Prepare, product, rows, remote, history
<1>3. Raises(w)
  BY <1>2 DEF Raises
<1>4. value'[w] = price[on[w]]
  BY <1>1 DEF Prepare, MineOK
<1>5. ListsAll(w) /\ (on[w] \in raced \/ ~Gone(on[w]))
  BY <1>1 DEF FlagsInv, Fresh
<1>6. PICK place \in {"put", "adopt", "post"} :
          /\ Goto(w, place)
          /\ place = "post" => Found(w) = {}
  BY DEF Prepare
<1>7. place \in GoesOn(kind[w])
  BY <1>1 DEF GoesOn
<1>8. \A v \in Workers \ {w} :
          /\ target'[v] = target[v] /\ value'[v] = value[v]
          /\ listed'[v] = listed[v] /\ cache'[v] = cache[v]
  BY <1>1 DEF Prepare, MineOK
<1>9. Turned(w) /\ pc'[w] = place /\ kind'[w] = kind[w] /\ on'[w] = on[w] /\ InHand(w)' = InHand(w)
  BY <1>1, <1>6, <1>7, <1>8, GotoTurned
<1>10. on[w] \in raced \/ Found(w) # {} \/ Of(on[w]) = {}
  <2>1. SUFFICES ASSUME on[w] \notin raced, NEW s \in shop, s.variant = on[w]
                 PROVE  Found(w) # {}
    BY DEF Of
  <2>2. s.variant \in InHand(w) \ raced
    BY <1>1, <2>1, Constants DEF InHand
  <2>3. \E t \in Seen(w) : t.variant = on[w]
    BY <1>5, <2>1, <2>2 DEF ListsAll, Seen
  <2> QED BY <2>3 DEF Found
<1>11. on'[w] \in raced' \/ Fresh(w)'
  BY <1>2, <1>4, <1>5, <1>6, <1>9, <1>10 DEF Fresh, Gone, Sellable, Of
<1>12. ListsAll(w)'
  <2>1. CASE UNCHANGED <<listed, cache>>
    BY <1>2, <1>5, <1>9, <2>1 DEF ListsAll
  <2>2. CASE cache' = [cache EXCEPT ![w] = Seen(w)]
    <3>1. cache'[w] = IF listed[w] THEN cache[w] ELSE shop
      BY <1>1, <2>2 DEF MineOK, Seen
    <3> QED BY <1>2, <1>5, <1>9, <3>1 DEF ListsAll
  <2> QED BY <2>1, <2>2 DEF Prepare
<1> QED BY <1>2, <1>3, <1>9, <1>11, <1>12, RaisedKeeps

\* The PUT reaches the only combination of its variant.
LEMMA PutDoes ==
    ASSUME IInv, FlagsInv, NEW w \in Workers, Put(w), NEW c \in Combos, c = on[w]
    PROVE  /\ \A d \in Combos \ {c} : {s \in shop' : s.variant = d} = {s \in shop : s.variant = d}
           /\ \A s \in shop' : \E t \in shop : t.variant = s.variant /\ t.quantity = s.quantity
           /\ c \notin raced => \A s \in shop' : s.variant = c => s.price = value[w]
<1> DEFINE sent(s) == IF s.id = target[w] THEN [s EXCEPT !.variant = on[w], !.price = value[w]] ELSE s
<1>1. shop' = {sent(s) : s \in shop} /\ Exists(target[w]) /\ shop \subseteq ShopCombo
  BY DEF Put, IInv, TypeOK
<1>2. \A s \in shop : s.id = target[w] => s.variant = c
  BY DEF IInv, KnownOwn, Own
<1>3. ASSUME NEW s \in shop
      PROVE  /\ sent(s).variant = s.variant /\ sent(s).quantity = s.quantity /\ sent(s).id = s.id
             /\ s.id = target[w] => sent(s).price = value[w]
             /\ s.id # target[w] => sent(s) = s
  BY <1>1, <1>2, <1>3 DEF ShopCombo
<1> HIDE DEF sent
<1>4. \A s \in shop' : \E t \in shop : s = sent(t)
  BY <1>1
<1>5. \A s \in shop : sent(s) \in shop'
  BY <1>1
<1>6. ASSUME NEW d \in Combos \ {c}, NEW s
      PROVE  s \in shop' /\ s.variant = d <=> s \in shop /\ s.variant = d
  <2>1. ASSUME s \in shop', s.variant = d PROVE s \in shop
    <3>1. PICK t \in shop : s = sent(t)
      BY <1>4, <2>1
    <3> QED BY <1>2, <1>3, <2>1, <3>1
  <2>2. ASSUME s \in shop, s.variant = d PROVE s \in shop'
    <3>1. sent(s) = s
      BY <1>2, <1>3, <2>2
    <3> QED BY <1>5, <2>2, <3>1
  <2> QED BY <2>1, <2>2
<1>7. ASSUME c \notin raced, NEW s \in shop', s.variant = c
      PROVE  s.price = value[w]
  <2>1. PICK t \in shop : s = sent(t)
    BY <1>4
  <2>2. PICK q \in shop : q.id = target[w]
    BY <1>1 DEF Exists
  <2>3. q.variant = t.variant /\ t.variant = c
    BY <1>2, <1>3, <1>7, <2>1, <2>2
  <2>4. q = t
    BY <1>7, <2>3 DEF FlagsInv, OneOfEach
  <2> QED BY <1>3, <2>1, <2>2, <2>4
<1> QED BY <1>3, <1>4, <1>6, <1>7

LEMMA PutFlags ==
    ASSUME IInv, FlagsInv, ShopKept, NEW w \in Workers, Put(w)
    PROVE  FlagsInv'
<1>1. /\ pc[w] \notin {"idle", "next"} /\ pc[w] \in {"put", "adopt"} /\ InTurn(w)
      /\ kind[w] \in {"combination", "price"} /\ on[w] \in Combos
  BY OnCombo DEF Put, FlagsInv, InTurn, Kinds
<1>2. "save" \in GoesOn(kind[w])
  BY <1>1 DEF GoesOn
<1>3. Answered(w, "save") /\ UNCHANGED <<visible, discontinued, active, psid, price, stock, raced, unsent>>
  BY DEF Put, product, history
<1>4. /\ Turned(w) /\ Relies(w) /\ Raises(w)
      /\ \/ Fresh(w)'
         \/ /\ pc'[w] = "save" /\ kind'[w] = kind[w] /\ on'[w] = on[w]
            /\ target'[w] = target[w] /\ value'[w] = value[w] /\ flagged' = flagged
  BY <1>1, <1>2, <1>3, AnsweredTurned
<1> DEFINE c == on[w]
<1>5. /\ \A d \in Combos \ {c} : {s \in shop' : s.variant = d} = {s \in shop : s.variant = d}
      /\ \A s \in shop' : \E t \in shop : t.variant = s.variant /\ t.quantity = s.quantity
      /\ c \notin raced => \A s \in shop' : s.variant = c => s.price = value[w]
  BY <1>1, PutDoes
<1>6. Only(c)
  BY <1>3, <1>4, <1>5 DEF Only, Raises
<1>7. c \in raced \/ (~Gone(c) /\ (value[w] = price[c] \/ PriceFollows(w)))
  BY <1>1 DEF FlagsInv, Fresh
<1>8. ASSUME NEW d \in Combos, d = c
      PROVE  /\ StockSent(d) => StockSent(d)'
             /\ d \in raced \/ PriceSent(d)' \/ PriceFollows(w)
  <2>1. StockSent(d) => StockSent(d)'
    BY <1>3, <1>5 DEF StockSent
  <2>2. d \in raced \/ PriceSent(d)' \/ PriceFollows(w)
    BY <1>3, <1>5, <1>7, <1>8 DEF PriceSent
  <2> QED BY <2>1, <2>2
<1>9. Respects(w)
  BY <1>1, <1>3, <1>8 DEF Respects, StockSide
<1>10. ASSUME NEW d \in Combos, d = c
       PROVE  Told(d)'
  <2>1. Told(d)
    BY FlagsParts
  <2>2. \A k \in Kinds : d \in flagged[k] => d \in flagged'[k]
    BY <1>4 DEF Raises
  <2>3. d \in raced' \cup flagged'["price"] \/ PriceSent(d)'
    BY <1>3, <1>8, <1>10, <2>2 DEF PriceFollows, Kinds
  <2>4. StockSent(d) => StockSent(d)'
    BY <1>8, <1>10
  <2> QED BY <1>3, <2>1, <2>2, <2>3, <2>4 DEF Told, Kinds
<1>11. on'[w] \in raced' \/ Fresh(w)'
  <2>1. ASSUME on[w] \notin raced, pc'[w] = "save", kind'[w] = kind[w], on'[w] = on[w],
               target'[w] = target[w], flagged' = flagged
        PROVE  Fresh(w)'
    <3>1. ~Gone(on[w])'
      BY <1>3, <1>7, <2>1 DEF Gone, Sellable
    <3>2. PriceSent(on[w])' \/ PriceFollows(w)'
      BY <1>3, <1>5, <1>7, <2>1 DEF PriceSent, PriceFollows
    <3> QED BY <2>1, <3>1, <3>2 DEF Fresh
  <2> QED BY <1>3, <1>4, <2>1
<1> QED BY <1>3, <1>4, <1>6, <1>9, <1>10, <1>11, ReliesLists, TurnKeeps

LEMMA DeleteFlags ==
    ASSUME IInv, FlagsInv, ShopKept, NEW w \in Workers, Delete(w)
    PROVE  FlagsInv'
<1>1. /\ MineOK /\ pc[w] \notin {"idle", "next"} /\ pc[w] = "delete" /\ InTurn(w)
      /\ kind[w] \in {"combination", "price"} /\ on[w] \in Combos
  BY Same, OnCombo DEF Delete, FlagsInv, InTurn, Kinds
<1>2. "save" \in GoesOn(kind[w])
  BY <1>1 DEF GoesOn
<1>3. /\ shop' = {s \in shop : s.id # target[w]}
      /\ UNCHANGED <<visible, discontinued, active, psid, price, stock, raced, unsent>>
  BY DEF Delete, product, history
<1>4. Turned(w) /\ Relies(w) /\ Raises(w) /\ Fresh(w)'
  <2>1. CASE Goto(w, "save") /\ target' = [target EXCEPT ![w] = 0] /\ UNCHANGED <<flagged, value, listed, cache, events>>
    <3>1. \A v \in Workers \ {w} : target'[v] = target[v]
      BY <1>1, <2>1 DEF MineOK
    <3>2. Turned(w) /\ Relies(w) /\ pc'[w] = "save"
      BY <1>1, <1>2, <2>1, <3>1, GotoTurned DEF Relies
    <3>3. target'[w] = 0
      BY <1>1, <2>1 DEF MineOK
    <3> QED BY <2>1, <3>2, <3>3 DEF Raises, Fresh
  <2>2. CASE Failed(w)
    BY <1>1, <2>2, FailedTurned
  <2> QED BY <2>1, <2>2 DEF Delete
<1>5. \A s \in shop : s.id = target[w] => s.variant = on[w]
  BY DEF IInv, KnownOwn, Own
<1>6. Only(on[w])
  <2>1. \A d \in Combos \ {on[w]} : {s \in shop' : s.variant = d} = {s \in shop : s.variant = d}
    BY <1>3, <1>5
  <2> QED BY <1>3, <1>4, <2>1 DEF Only, Raises
<1>7. \A d : (PriceSent(d) => PriceSent(d)') /\ (StockSent(d) => StockSent(d)')
  BY <1>3 DEF PriceSent, StockSent
<1>8. Respects(w)
  BY <1>1, <1>3, <1>7 DEF Respects, StockSide
<1>9. ASSUME NEW d \in Combos
      PROVE  Told(d)'
  <2>1. Told(d)
    BY FlagsParts
  <2>2. \A k \in Kinds : d \in flagged[k] => d \in flagged'[k]
    BY <1>4 DEF Raises
  <2> QED BY <1>3, <1>7, <2>1, <2>2, ToldStays
<1> QED BY <1>3, <1>4, <1>6, <1>8, <1>9, ReliesLists, TurnKeeps

LEMMA MissingFlags ==
    ASSUME IInv, FlagsInv, ShopKept, NEW w \in Workers, Missing(w)
    PROVE  FlagsInv'
<1>1. /\ MineOK /\ SharedOK /\ pc[w] \notin {"idle", "next"} /\ InTurn(w)
      /\ pc[w] \in {"put", "adopt", "delete"}
      /\ kind[w] \in {"combination", "price"} /\ on[w] \in Combos
  BY Same, OnCombo DEF Missing, FlagsInv, InTurn, Kinds
<1>2. UNCHANGED <<visible, discontinued, active, price, stock, shop, raced>>
  BY DEF Missing, product, remote
<1>3. CASE Failed(w) /\ UNCHANGED <<psid, unsent>>
  BY <1>1, <1>2, <1>3, FailedFlags
<1>4. CASE /\ psid' = [psid EXCEPT ![on[w]] = 0]
           /\ target' = [target EXCEPT ![w] = 0]
           /\ value' = [value EXCEPT ![w] = 0]
           /\ unsent' = [unsent EXCEPT !["price"] = @ \cup ({on[w]} \ flagged["combination"])]
           /\ Goto(w, "combination")
           /\ UNCHANGED <<flagged, listed, cache>>
  <2>1. "combination" \in GoesOn(kind[w])
    BY <1>1 DEF GoesOn
  <2>2. \A v \in Workers \ {w} : target'[v] = target[v] /\ value'[v] = value[v]
    BY <1>1, <1>4 DEF MineOK
  <2>3. Turned(w) /\ Relies(w) /\ pc'[w] = "combination"
    BY <1>1, <1>4, <2>1, <2>2, GotoTurned DEF Relies
  <2>4. Fresh(w)'
    BY <2>3 DEF Fresh
  <2>5. /\ unsent'["price"] = unsent["price"] \cup ({on[w]} \ flagged["combination"])
        /\ unsent'["stock"] = unsent["stock"]
    BY <1>1, <1>4 DEF SharedOK
  <2>6. \A d \in Combos : psid'[d] = IF d = on[w] THEN 0 ELSE psid[d]
    BY <1>1, <1>4 DEF SharedOK
  <2>7. Only(on[w])
    BY <1>2, <1>4, <2>5, <2>6 DEF Only
  <2>8. Respects(w)
    BY <1>1, <1>2, SidesStay DEF Respects
  <2>9. ASSUME NEW d \in Combos, d = on[w]
        PROVE  Told(d)'
    <3>1. Told(d)
      BY FlagsParts
    <3>2. (PriceSent(d) => PriceSent(d)') /\ (StockSent(d) => StockSent(d)')
      BY <1>2, SidesStay
    <3> QED BY <1>2, <1>4, <2>5, <2>9, <3>1, <3>2 DEF Told
  <2> QED BY <1>2, <2>3, <2>4, <2>7, <2>8, <2>9, ReliesLists, TurnKeeps
<1> QED BY <1>3, <1>4 DEF Missing

LEMMA SaveFlags ==
    ASSUME IInv, FlagsInv, ShopKept, NEW w \in Workers, Save(w)
    PROVE  FlagsInv'
<1>1. /\ MineOK /\ SharedOK /\ pc[w] \notin {"idle", "next"} /\ InTurn(w) /\ pc[w] = "save"
      /\ kind[w] \in {"combination", "price"} /\ on[w] \in Combos
  BY Same, OnCombo DEF Save, FlagsInv, InTurn, Kinds
<1>2. UNCHANGED <<visible, discontinued, active, price, stock, shop, raced>>
  BY DEF Save, product, remote
<1>3. \A k \in Kinds : flagged'[k] = IF k = "combination" THEN flagged[k] \ {on[w]} ELSE flagged[k]
  BY <1>1 DEF Save, Clear, SharedOK
<1>4. /\ unsent'["price"] = IF target[w] = 0 THEN unsent["price"] \cup {on[w]} ELSE unsent["price"] \ {on[w]}
      /\ unsent'["stock"] = unsent["stock"]
  BY <1>1 DEF Save, SharedOK
<1>5. \A d \in Combos : psid'[d] = IF d = on[w] THEN target[w] ELSE psid[d]
  BY <1>1 DEF Save, SharedOK
<1>6. Only(on[w])
  BY <1>2, <1>3, <1>4, <1>5 DEF Only
<1>7. Respects(w)
  BY <1>1, <1>2, SidesStay DEF Respects
<1>8. on[w] \in raced \/ target[w] = 0 \/ PriceSent(on[w]) \/ PriceFollows(w)
  BY <1>1 DEF FlagsInv, Fresh
<1>9. ASSUME NEW d \in Combos, d = on[w]
      PROVE  Told(d)'
  <2>1. Told(d)
    BY FlagsParts
  <2>2. (PriceSent(d) => PriceSent(d)') /\ (StockSent(d) => StockSent(d)')
    BY <1>2, SidesStay
  <2>3. flagged'["price"] = flagged["price"] /\ flagged'["stock"] = flagged["stock"]
    BY <1>3 DEF Kinds
  <2>4. psid'[d] = target[w]
    BY <1>5, <1>9
  <2>5. d \in raced' \cup flagged'["price"] \cup unsent'["price"] \/ PriceSent(d)'
    BY <1>2, <1>4, <1>8, <1>9, <2>2, <2>3 DEF PriceFollows
  <2> QED BY <1>2, <1>4, <1>9, <2>1, <2>2, <2>3, <2>4, <2>5 DEF Told
<1>10. /\ Turned(w) /\ Relies(w)
       /\ \/ Fresh(w)'
          \/ kind[w] = "price" /\ pc'[w] = "close" /\ kind'[w] = kind[w] /\ on'[w] = on[w]
  BY <1>1, ReturnsTurned DEF Save
<1>11. on'[w] \in raced' \/ Fresh(w)'
  <2>1. ASSUME kind[w] = "price", pc'[w] = "close", kind'[w] = kind[w], on'[w] = on[w], on[w] \notin raced
        PROVE  Fresh(w)'
    <3>1. target[w] = 0 \/ PriceSent(on[w])
      BY <1>8, <2>1 DEF PriceFollows
    <3>2. on[w] \in unsent'["price"] \/ PriceSent(on[w])'
      BY <1>2, <1>4, <2>1, <3>1 DEF PriceSent
    <3> QED BY <2>1, <3>2 DEF Fresh
  <2> QED BY <1>2, <1>10, <2>1
<1> QED BY <1>2, <1>6, <1>7, <1>9, <1>10, <1>11, ReliesLists, TurnKeeps

LEMMA PriceFlags ==
    ASSUME IInv, FlagsInv, ShopKept, NEW w \in Workers, Price(w)
    PROVE  FlagsInv'
<1>1. /\ MineOK /\ pc[w] \notin {"idle", "next"} /\ InTurn(w) /\ pc[w] = "price"
      /\ kind[w] = "price" /\ on[w] \in Combos /\ "price" \in Kinds
  BY Same, OnCombo DEF Price, FlagsInv, InTurn, Kinds
<1>2. UNCHANGED <<visible, discontinued, active, psid, price, stock, shop, raced>>
  BY DEF Price, remote
<1>3. CASE Drop(w, "price") /\ Leave(w)
  BY <1>1, <1>2, <1>3, LeaveTurned, DropKeeps
<1>4. CASE Goto(w, "combination") /\ UNCHANGED <<flagged, target, value, listed, cache, unsent>>
  <2>1. "combination" \in GoesOn(kind[w])
    BY <1>1 DEF GoesOn
  <2>2. Turned(w) /\ Relies(w) /\ pc'[w] = "combination"
    BY <1>1, <1>4, <2>1, GotoSame
  <2>3. Fresh(w)' /\ Raises(w)
    BY <1>4, <2>2 DEF Fresh, Raises
  <2> QED BY <1>2, <1>4, <2>2, <2>3, ReliesLists, RaisedKeeps
<1> QED BY <1>3, <1>4 DEF Price

LEMMA CloseFlags ==
    ASSUME IInv, FlagsInv, ShopKept, NEW w \in Workers, Close(w)
    PROVE  FlagsInv'
<1>1. /\ SharedOK /\ pc[w] \notin {"idle", "next"} /\ InTurn(w) /\ pc[w] = "close"
      /\ kind[w] \in {"price", "stock"} /\ on[w] \in Combos
  BY Same, OnCombo DEF Close, FlagsInv, InTurn, Kinds
<1>2. UNCHANGED <<visible, discontinued, active, psid, price, stock, shop, raced>>
  BY DEF Close, product, remote
<1>3. \A k \in Kinds : flagged'[k] = IF k = kind[w] THEN flagged[k] \ {on[w]} ELSE flagged[k]
  BY <1>1 DEF Close, Clear, SharedOK, Kinds
<1>4. /\ unsent'["price"] = unsent["price"]
      /\ unsent'["stock"] = IF kind[w] = "stock" THEN unsent["stock"] \ {on[w]} ELSE unsent["stock"]
  BY <1>1 DEF Close, SharedOK
<1>5. Only(on[w])
  BY <1>2, <1>3, <1>4 DEF Only
<1>6. Respects(w)
  <2>1. kind[w] = "stock" => flagged'["price"] = flagged["price"]
    BY <1>3 DEF Kinds
  <2> QED BY <1>2, <1>4, <2>1, SidesStay DEF Respects
<1>7. Turned(w) /\ Relies(w) /\ Fresh(w)'
  BY <1>1, LeaveTurned DEF Close
<1>8. /\ kind[w] = "price" => on[w] \in raced \cup unsent["price"] \/ PriceSent(on[w])
      /\ kind[w] = "stock" => on[w] \in raced \/ StockSent(on[w])
  BY <1>1 DEF FlagsInv, Fresh
<1>9. ASSUME NEW d \in Combos, d = on[w]
      PROVE  Told(d)'
  <2>1. Told(d)
    BY FlagsParts
  <2>2. (PriceSent(d) => PriceSent(d)') /\ (StockSent(d) => StockSent(d)')
    BY <1>2, SidesStay
  <2>3. ASSUME kind[w] = "price" PROVE Told(d)'
    <3>1. flagged'["combination"] = flagged["combination"] /\ flagged'["stock"] = flagged["stock"]
      BY <1>3, <2>3 DEF Kinds
    <3>2. unsent'["price"] = unsent["price"] /\ unsent'["stock"] = unsent["stock"]
      BY <1>4, <2>3
    <3> QED BY <1>2, <1>8, <1>9, <2>1, <2>2, <2>3, <3>1, <3>2 DEF Told
  <2>4. ASSUME kind[w] = "stock" PROVE Told(d)'
    <3>1. flagged'["combination"] = flagged["combination"] /\ flagged'["price"] = flagged["price"]
      BY <1>3, <2>4 DEF Kinds
    <3> QED BY <1>2, <1>4, <1>8, <1>9, <2>1, <2>2, <2>4, <3>1 DEF Told
  <2> QED BY <1>1, <2>3, <2>4
<1> QED BY <1>2, <1>5, <1>6, <1>7, <1>9, ReliesLists, TurnKeeps

LEMMA StockFlags ==
    ASSUME IInv, FlagsInv, ShopKept, NEW w \in Workers, Stock(w)
    PROVE  FlagsInv'
<1>1. /\ MineOK /\ pc[w] \notin {"idle", "next"} /\ InTurn(w) /\ pc[w] = "stock"
      /\ kind[w] = "stock" /\ on[w] \in Combos /\ "stock" \in Kinds
  BY Same, OnCombo DEF Stock, FlagsInv, InTurn, Kinds
<1>2. UNCHANGED <<visible, discontinued, active, psid, price, stock, shop, raced>>
  BY DEF Stock, product, remote
<1>3. CASE Drop(w, "stock") /\ Leave(w)
  BY <1>1, <1>2, <1>3, LeaveTurned, DropKeeps
<1>4. CASE Failed(w) /\ UNCHANGED unsent
  BY <1>1, <1>2, <1>4, FailedFlags
<1>5. CASE /\ target' = [target EXCEPT ![w] = psid[on[w]]]
           /\ value' = [value EXCEPT ![w] = stock[on[w]]]
           /\ Goto(w, "quantity")
           /\ UNCHANGED <<flagged, listed, cache, unsent>>
  <2>1. "quantity" \in GoesOn(kind[w])
    BY <1>1 DEF GoesOn
  <2>2. \A v \in Workers \ {w} : target'[v] = target[v] /\ value'[v] = value[v]
    BY <1>1, <1>5 DEF MineOK
  <2>3. Turned(w) /\ Relies(w) /\ pc'[w] = "quantity" /\ on'[w] = on[w]
    BY <1>1, <1>5, <2>1, <2>2, GotoTurned DEF Relies
  <2>4. value'[w] = stock[on[w]]
    BY <1>1, <1>5 DEF MineOK
  <2>5. Fresh(w)' /\ Raises(w)
    BY <1>2, <1>5, <2>3, <2>4 DEF Fresh, Raises
  <2> QED BY <1>2, <1>5, <2>3, <2>5, ReliesLists, RaisedKeeps
<1> QED BY <1>3, <1>4, <1>5 DEF Stock

\* The quantity reaches the only combination of its variant.
LEMMA QuantityDoes ==
    ASSUME IInv, FlagsInv, NEW w \in Workers, Quantity(w), NEW c \in Combos, c = on[w]
    PROVE  /\ \A d \in Combos \ {c} : {s \in shop' : s.variant = d} = {s \in shop : s.variant = d}
           /\ \A s \in shop' : \E t \in shop : t.variant = s.variant /\ t.price = s.price
           /\ c \notin raced => \A s \in shop' : s.variant = c => s.quantity = value[w]
<1> DEFINE sent(s) == IF s.id = target[w] THEN [s EXCEPT !.quantity = value[w]] ELSE s
<1>1. shop' = {sent(s) : s \in shop} /\ Exists(target[w]) /\ shop \subseteq ShopCombo
  BY DEF Quantity, IInv, TypeOK
<1>2. \A s \in shop : s.id = target[w] => s.variant = c
  BY DEF IInv, KnownOwn, Own
<1>3. ASSUME NEW s \in shop
      PROVE  /\ sent(s).variant = s.variant /\ sent(s).price = s.price /\ sent(s).id = s.id
             /\ s.id = target[w] => sent(s).quantity = value[w]
             /\ s.id # target[w] => sent(s) = s
  BY <1>1, <1>2, <1>3 DEF ShopCombo
<1> HIDE DEF sent
<1>4. \A s \in shop' : \E t \in shop : s = sent(t)
  BY <1>1
<1>5. \A s \in shop : sent(s) \in shop'
  BY <1>1
<1>6. ASSUME NEW d \in Combos \ {c}, NEW s
      PROVE  s \in shop' /\ s.variant = d <=> s \in shop /\ s.variant = d
  <2>1. ASSUME s \in shop', s.variant = d PROVE s \in shop
    <3>1. PICK t \in shop : s = sent(t)
      BY <1>4, <2>1
    <3> QED BY <1>2, <1>3, <2>1, <3>1
  <2>2. ASSUME s \in shop, s.variant = d PROVE s \in shop'
    <3>1. sent(s) = s
      BY <1>2, <1>3, <2>2
    <3> QED BY <1>5, <2>2, <3>1
  <2> QED BY <2>1, <2>2
<1>7. ASSUME c \notin raced, NEW s \in shop', s.variant = c
      PROVE  s.quantity = value[w]
  <2>1. PICK t \in shop : s = sent(t)
    BY <1>4
  <2>2. PICK q \in shop : q.id = target[w]
    BY <1>1 DEF Exists
  <2>3. q.variant = t.variant /\ t.variant = c
    BY <1>2, <1>3, <1>7, <2>1, <2>2
  <2>4. q = t
    BY <1>7, <2>3 DEF FlagsInv, OneOfEach
  <2> QED BY <1>3, <2>1, <2>2, <2>4
<1> QED BY <1>3, <1>4, <1>6, <1>7

LEMMA QuantityFlags ==
    ASSUME IInv, FlagsInv, ShopKept, NEW w \in Workers, Quantity(w)
    PROVE  FlagsInv'
<1>1. /\ pc[w] \notin {"idle", "next"} /\ pc[w] = "quantity" /\ InTurn(w)
      /\ kind[w] = "stock" /\ on[w] \in Combos
  BY OnCombo DEF Quantity, FlagsInv, InTurn, Kinds
<1>2. "close" \in GoesOn(kind[w])
  BY <1>1 DEF GoesOn
<1>3. Answered(w, "close") /\ UNCHANGED <<visible, discontinued, active, psid, price, stock, raced, unsent>>
  BY DEF Quantity, product, history
<1>4. /\ Turned(w) /\ Relies(w) /\ Raises(w)
      /\ \/ Fresh(w)'
         \/ pc'[w] = "close" /\ kind'[w] = kind[w] /\ on'[w] = on[w]
  BY <1>1, <1>2, <1>3, AnsweredTurned
<1> DEFINE c == on[w]
<1>5. /\ \A d \in Combos \ {c} : {s \in shop' : s.variant = d} = {s \in shop : s.variant = d}
      /\ \A s \in shop' : \E t \in shop : t.variant = s.variant /\ t.price = s.price
      /\ c \notin raced => \A s \in shop' : s.variant = c => s.quantity = value[w]
  BY <1>1, QuantityDoes
<1>6. Only(c)
  BY <1>3, <1>4, <1>5 DEF Only, Raises
<1>7. c \in raced \/ value[w] = stock[c]
  BY <1>1 DEF FlagsInv, Fresh
<1>8. ASSUME NEW d \in Combos, d = c
      PROVE  /\ PriceSent(d) => PriceSent(d)'
             /\ d \in raced \/ StockSent(d)'
             /\ PriceSide(d)
  <2>1. PriceSent(d) => PriceSent(d)'
    BY <1>3, <1>5 DEF PriceSent
  <2>2. d \in raced \/ StockSent(d)'
    BY <1>3, <1>5, <1>7, <1>8 DEF StockSent
  <2>3. Of(d) = {} => Of(d)' = {}
    BY <1>5 DEF Of
  <2>4. ~Gone(d) => ~Gone(d)'
    BY <1>3 DEF Gone, Sellable
  <2>5. flagged["price"] \subseteq flagged'["price"]
    BY <1>4 DEF Raises, Kinds
  <2> QED BY <1>3, <2>1, <2>2, <2>3, <2>4, <2>5 DEF PriceSide
<1>9. Respects(w)
  BY <1>1, <1>8 DEF Respects
<1>10. ASSUME NEW d \in Combos, d = c
       PROVE  Told(d)'
  <2>1. Told(d)
    BY FlagsParts
  <2>2. \A k \in Kinds : d \in flagged[k] => d \in flagged'[k]
    BY <1>4 DEF Raises
  <2>3. PriceSent(d) => PriceSent(d)'
    BY <1>8, <1>10
  <2>4. d \in raced' \/ StockSent(d)'
    BY <1>3, <1>8, <1>10
  <2> QED BY <1>3, <2>1, <2>2, <2>3, <2>4 DEF Told, Kinds
<1>11. on'[w] \in raced' \/ Fresh(w)'
  <2>1. ASSUME on[w] \notin raced, pc'[w] = "close", kind'[w] = kind[w], on'[w] = on[w]
        PROVE  Fresh(w)'
    <3>1. StockSent(on[w])'
      BY <1>3, <1>5, <1>7, <2>1 DEF StockSent
    <3> QED BY <1>1, <2>1, <3>1 DEF Fresh
  <2> QED BY <1>3, <1>4, <2>1
<1> QED BY <1>3, <1>4, <1>6, <1>9, <1>10, <1>11, ReliesLists, TurnKeeps

LEMMA QuantityMissingFlags ==
    ASSUME IInv, FlagsInv, ShopKept, NEW w \in Workers, QuantityMissing(w)
    PROVE  FlagsInv'
<1>1. /\ SharedOK /\ pc[w] \notin {"idle", "next"} /\ on[w] \in Combos
  BY Same, OnCombo DEF QuantityMissing
<1>2. UNCHANGED <<visible, discontinued, active, price, stock, shop, unsent>> /\ raced \subseteq raced'
  BY DEF QuantityMissing, product, remote
<1>3. Raises(w) /\ on[w] \in flagged'["combination"]
  BY <1>1 DEF QuantityMissing, SharedOK, Raises, Kinds
<1>4. \A d \in Combos : psid'[d] = IF d = on[w] THEN 0 ELSE psid[d]
  BY <1>1 DEF QuantityMissing, SharedOK
<1>5. Only(on[w])
  BY <1>2, <1>3, <1>4 DEF Only, Raises
<1>6. ASSUME NEW d \in Combos
      PROVE  PriceSide(d) /\ StockSide(d)
  <2>1. flagged["price"] \subseteq flagged'["price"]
    BY <1>3 DEF Raises, Kinds
  <2> QED BY <1>2, <2>1, SidesStay
<1>7. Respects(w)
  BY <1>6 DEF Respects
<1>8. Turned(w) /\ Relies(w) /\ Fresh(w)'
  BY <1>1, LeaveTurned DEF QuantityMissing
<1>9. ASSUME NEW d \in Combos, d = on[w]
      PROVE  Told(d)'
  <2>1. Told(d)
    BY FlagsParts
  <2>2. \A k \in Kinds : d \in flagged[k] => d \in flagged'[k]
    BY <1>3 DEF Raises
  <2>3. (PriceSent(d) => PriceSent(d)') /\ (StockSent(d) => StockSent(d)')
    BY <1>2, SidesStay
  <2> QED BY <1>2, <1>3, <1>9, <2>1, <2>2, <2>3 DEF Told, Kinds
<1> QED BY <1>2, <1>5, <1>7, <1>8, <1>9, ReliesLists, TurnKeeps

LEMMA LeaveLets ==
    ASSUME IInv, NEW w \in Workers, Leave(w)
    PROVE  InHand(w)' \subseteq todo[w]
<1>1. MineOK
  BY MineTypes DEF IInv
<1>2. CASE Forget(w)
  BY <1>1, <1>2 DEF Forget, MineOK, InHand
<1>3. CASE ~Forget(w)
  BY <1>1, <1>3 DEF Leave, MineOK, InHand
<1> QED BY <1>2, <1>3

\* A combination is created only if there is none of its variant, and nobody else
\* who could have listed the shop before has it in hand.
LEMMA PostFlags ==
    ASSUME IInv, FlagsInv, NEW w \in Workers, Post(w)
    PROVE  FlagsInv'
<1>1. /\ MineOK /\ SharedOK /\ pc[w] \notin {"idle", "next"} /\ pc[w] = "post" /\ InTurn(w)
      /\ kind[w] \in {"combination", "price"} /\ on[w] \in Combos
  BY Same, OnCombo DEF Post, FlagsInv, InTurn, Kinds
<1> DEFINE c == on[w]
           new == [id |-> created', variant |-> on[w], price |-> value[w], quantity |-> 0]
<1>2. /\ shop' = shop \cup {new}
      /\ UNCHANGED <<visible, discontinued, active, psid, price, stock>>
      /\ raced \subseteq raced' /\ BusyWith({"stock"}) \cap {c} \subseteq raced'
  BY DEF Post, product
<1>3. new.variant = c /\ new.price = value[w]
  OBVIOUS
<1> HIDE DEF new
<1>4. /\ unsent'["price"] = unsent["price"]
      /\ unsent'["stock"] = unsent["stock"] \cup ({c} \ flagged["stock"])
  BY <1>1 DEF Post, SharedOK
<1>5. /\ Turned(w) /\ Raises(w)
      /\ \/ /\ pc'[w] = "save" /\ kind'[w] = kind[w] /\ on'[w] = on[w] /\ flagged' = flagged /\ ~listed'[w]
         \/ Fresh(w)' /\ Relies(w) /\ InHand(w)' \subseteq todo[w]
  <2>1. CASE /\ Goto(w, "save")
             /\ target' = [target EXCEPT ![w] = created']
             /\ listed' = [listed EXCEPT ![w] = FALSE]
             /\ cache' = [cache EXCEPT ![w] = {}]
             /\ UNCHANGED <<flagged, value, events>>
    <3>1. \A v \in Workers \ {w} :
              /\ target'[v] = target[v] /\ value'[v] = value[v]
              /\ listed'[v] = listed[v] /\ cache'[v] = cache[v]
      BY <1>1, <2>1 DEF MineOK
    <3>2. ~listed'[w]
      BY <1>1, <2>1 DEF MineOK
    <3>3. "save" \in GoesOn(kind[w])
      BY <1>1 DEF GoesOn
    <3>4. Turned(w) /\ pc'[w] = "save" /\ kind'[w] = kind[w] /\ on'[w] = on[w]
      BY <1>1, <2>1, <3>1, <3>2, <3>3, GotoTurned
    <3> QED BY <2>1, <3>2, <3>4 DEF Raises
  <2>2. CASE Failed(w)
    BY <1>1, <2>2, FailedTurned, LeaveLets DEF Failed
  <2> QED BY <2>1, <2>2 DEF Post
<1>6. \A s \in shop' : s \in shop \/ (s = new /\ s.variant = c)
  BY <1>2, <1>3
<1>7. Only(c)
  <2>1. \A d \in Combos \ {c} : {s \in shop' : s.variant = d} = {s \in shop : s.variant = d}
    BY <1>2, <1>3
  <2> QED BY <1>2, <1>4, <1>5, <2>1 DEF Only, Raises
<1>8. c \in raced \/ (Of(c) = {} /\ ~Gone(c) /\ (value[w] = price[c] \/ PriceFollows(w)))
  BY <1>1 DEF FlagsInv, Fresh
<1>9. c \in raced \/ \A s \in shop' : s.variant = c => s = new
  BY <1>6, <1>8 DEF Of
<1>10. Respects(w)
  <2>1. SUFFICES ASSUME NEW v \in Workers \ {w}, NEW d \in Combos \ raced', on[v] = d, c = d, kind[v] = "stock"
                 PROVE  FALSE
    BY <1>1 DEF Respects
  <2>2. d \in BusyWith({"stock"})
    BY <2>1, Constants DEF BusyWith
  <2> QED BY <1>2, <2>1, <2>2
<1>11. ASSUME NEW v \in Workers \ {w}, on'[v] \notin raced'
       PROVE  Fresh(v)'
  BY <1>2, <1>5, <1>7, <1>10, <1>11, OthersFresh
<1>12. ASSUME NEW v \in Workers \ {w}
       PROVE  InTurn(v)' /\ ListsAll(v)'
  <2>1. Rests(v)
    BY <1>5 DEF Turned
  <2>2. InTurn(v)' /\ Relies(v) /\ InHand(v)' = InHand(v) /\ listed'[v] = listed[v] /\ cache'[v] = cache[v]
    BY <2>1, RestsRelies DEF FlagsInv, Rests
  <2>3. listed[v] /\ c \in InHand(v) => c \in raced
    <3>1. SUFFICES ASSUME listed[v], c \in InHand(v) PROVE c \in raced
      OBVIOUS
    <3>2. kind[v] \in {"combination", "price"}
      BY <3>1 DEF FlagsInv, InTurn
    <3>3. c \in InHand(w)
      BY <1>1, Constants DEF InHand
    <3> QED BY <1>1, <3>1, <3>2, <3>3 DEF FlagsInv, NotShared
  <2>4. ListsAll(v)
    BY DEF FlagsInv
  <2>5. ListsAll(v)'
    BY <1>2, <1>6, <2>2, <2>3, <2>4 DEF ListsAll
  <2> QED BY <2>2, <2>5
<1>13. ListsAll(w)'
  <2>1. ASSUME Relies(w), InHand(w)' \subseteq todo[w]
        PROVE  ListsAll(w)'
    <3>1. c \notin todo[w] /\ ListsAll(w)
      BY <1>1 DEF InTurn, FlagsInv
    <3> QED BY <1>2, <1>6, <2>1, <3>1 DEF ListsAll, Relies
  <2> QED BY <1>5, <2>1 DEF ListsAll
<1>14. on'[w] \in raced' \/ Fresh(w)'
  <2>1. ASSUME c \notin raced, pc'[w] = "save", kind'[w] = kind[w], on'[w] = on[w], flagged' = flagged
        PROVE  Fresh(w)'
    <3>1. ~Gone(on[w])'
      BY <1>2, <1>8, <2>1 DEF Gone, Sellable
    <3>2. PriceSent(on[w])' \/ PriceFollows(w)'
      BY <1>2, <1>3, <1>8, <1>9, <2>1 DEF PriceSent, PriceFollows
    <3> QED BY <2>1, <3>1, <3>2 DEF Fresh
  <2> QED BY <1>2, <1>5, <2>1
<1>15. NotShared'
  BY <1>2, <1>5, NotSharedKept DEF Turned, FlagsInv
<1>16. OneOfEach'
  <2>1. SUFFICES ASSUME NEW s \in shop', NEW t \in shop', s.variant = t.variant, s.variant \notin raced'
                 PROVE  s = t
    BY DEF OneOfEach
  <2>2. CASE s.variant = c
    BY <1>2, <1>9, <2>1, <2>2
  <2>3. CASE s.variant # c
    BY <1>2, <1>6, <2>1, <2>3 DEF FlagsInv, OneOfEach
  <2> QED BY <2>2, <2>3
<1>17. ASSUME NEW d \in Combos
       PROVE  Told(d)'
  <2>1. Told(d)
    BY FlagsParts
  <2>2. ASSUME d # c PROVE Told(d)'
    BY <1>2, <1>7, <2>1, <2>2, Quiet
  <2>3. ASSUME d = c PROVE Told(d)'
    <3>1. \A k \in Kinds : d \in flagged[k] => d \in flagged'[k]
      BY <1>5 DEF Raises
    <3>2. d \in flagged'["stock"] \cup unsent'["stock"]
      BY <1>4, <2>3, <3>1 DEF Kinds
    <3>3. d \in raced \cup flagged'["price"] \/ PriceSent(d)'
      BY <1>2, <1>3, <1>8, <1>9, <2>3, <3>1 DEF PriceSent, PriceFollows, Kinds
    <3> QED BY <1>2, <1>4, <2>1, <2>3, <3>1, <3>2, <3>3 DEF Told, Kinds
  <2> QED BY <2>2, <2>3
<1>18. InTurn(w)'
  BY <1>5 DEF Turned
<1> QED BY <1>11, <1>12, <1>13, <1>14, <1>15, <1>16, <1>17, <1>18, FlagsParts

\* A task begins with entities that nobody has in hand, or they are raced for.
LEMMA BeginKeeps ==
    ASSUME IInv, FlagsInv, ShopKept, NEW w \in Workers, NEW k \in Kinds, NEW entities \in SUBSET Combos,
           pc[w] = "idle", Begin(w, k, entities),
           \A c \in Combos : PriceSide(c) /\ StockSide(c) /\ Told(c)'
    PROVE  FlagsInv'
<1>1. MineOK /\ InTurn(w) /\ raced' = raced \cup (entities \cap Held(k))
  BY Same DEF FlagsInv, Begin
<1>2. /\ kind'[w] = k /\ todo'[w] = entities /\ pc'[w] = "next" /\ on'[w] = NoCombo
      /\ ~listed'[w]
  BY <1>1 DEF Begin, MineOK, InTurn, Kinds
<1>3. \A v \in Workers \ {w} : Rests(v)
  BY <1>1 DEF Begin, MineOK, Rests
<1>4. InTurn(w)'
  BY <1>2, Constants DEF InTurn, Kinds
<1>5. InHand(w)' = entities
  BY <1>2 DEF InHand
<1>6. ListsAll(w)' /\ Fresh(w)'
  BY <1>2, FreshWithout DEF ListsAll
<1>7. ASSUME NEW v \in Workers \ {w}
      PROVE  InTurn(v)' /\ ListsAll(v)' /\ (on'[v] \in raced' \/ Fresh(v)')
  <2>1. Rests(v) /\ InTurn(v) /\ Relies(v) /\ InTurn(v)'
    BY <1>3, RestsRelies DEF FlagsInv
  <2>2. ListsAll(v)'
    BY <1>1, <2>1, ListsKept DEF FlagsInv
  <2>3. CASE on[v] \notin Combos
    <3>1. pc'[v] \in {"idle", "next"}
      BY <2>1, <2>3 DEF IInv, TypeOK, AtWork, Rests
    <3> QED BY <2>1, <2>2, <3>1, FreshWithout
  <2>4. ASSUME NEW c \in Combos, c = on[v], c \notin raced
        PROVE  Fresh(v)'
    BY <2>1, <2>4, FreshKept DEF FlagsInv
  <2> QED BY <1>1, <2>1, <2>2, <2>3, <2>4 DEF Rests
<1>8. ASSUME NEW v \in Workers \ {w}, kind[v] = "stock" <=> k = "stock"
      PROVE  InHand(v) \cap entities \subseteq raced'
  <2>1. CASE kind[v] = "none"
    <3>1. todo[v] = {} /\ on[v] = NoCombo
      BY <2>1 DEF FlagsInv, InTurn
    <3> QED BY <3>1 DEF InHand
  <2>2. CASE kind[v] # "none"
    <3>1. InHand(v) \subseteq Held(k)
      BY <1>8, <2>2 DEF Held
    <3> QED BY <1>1, <3>1
  <2> QED BY <2>1, <2>2
<1>9. NotShared'
  <2>1. SUFFICES ASSUME NEW u \in Workers, NEW v \in Workers, u # v,
                        kind'[u] = "stock" <=> kind'[v] = "stock"
                 PROVE  InHand(u)' \cap InHand(v)' \subseteq raced'
    BY DEF NotShared
  <2>2. \A x \in Workers \ {w} : kind'[x] = kind[x] /\ InHand(x)' = InHand(x)
    BY <1>3, RestsRelies DEF Rests
  <2>3. CASE u = w
    BY <1>2, <1>5, <1>8, <2>1, <2>2, <2>3
  <2>4. CASE v = w
    BY <1>2, <1>5, <1>8, <2>1, <2>2, <2>4
  <2>5. CASE u # w /\ v # w
    BY <1>1, <2>1, <2>2, <2>5 DEF FlagsInv, NotShared
  <2> QED BY <2>3, <2>4, <2>5
<1>10. OneOfEach'
  BY <1>1, OneKept DEF FlagsInv
<1> QED BY <1>4, <1>6, <1>7, <1>9, <1>10, FlagsParts

LEMMA RetryFlags ==
    ASSUME IInv, FlagsInv, ShopKept, NEW w \in Workers, NEW k \in Kinds, NEW c \in Combos, Retry(w, k, c)
    PROVE  FlagsInv'
<1>1. UNCHANGED <<visible, discontinued, active, psid, price, stock, shop, unsent, flagged>> /\ raced \subseteq raced'
  BY DEF Retry, Begin, product, rows, remote
<1>2. ASSUME NEW d \in Combos
      PROVE  PriceSide(d) /\ StockSide(d) /\ Told(d)'
  <2>1. Told(d)
    BY FlagsParts
  <2> QED BY <1>1, <2>1, SidesStay, ToldStays
<1>3. {c} \in SUBSET Combos
  OBVIOUS
<1> QED BY <1>2, <1>3, BeginKeeps DEF Retry

\* A batch clears no flag of what is for sale.
LEMMA BatchSides ==
    ASSUME IInv, FlagsInv, NEW w \in Workers, NEW k \in Kinds, BatchStart(w, k), NEW c \in Combos
    PROVE  PriceSide(c) /\ StockSide(c) /\ Told(c)'
<1>1. SharedOK /\ Told(c)
  BY Same, FlagsParts
<1>2. UNCHANGED <<visible, discontinued, active, psid, price, stock, shop>> /\ raced \subseteq raced'
  BY DEF BatchStart, Begin, product, remote, history
<1>3. Aspect(k) \in {"price", "stock"}
  BY DEF Aspect
<1>4. \A j \in Kinds : flagged'[j] = IF j = k THEN flagged[j] \ Excluded(k) ELSE flagged[j]
  BY <1>1 DEF BatchStart, SharedOK
<1>5. \A j \in {"price", "stock"} :
          unsent'[j] = IF j = Aspect(k) THEN unsent[j] \cup (flagged[k] \cap Excluded(k)) ELSE unsent[j]
  BY <1>1, <1>3 DEF BatchStart, SharedOK
<1>6. k # "combination" /\ c \in Excluded(k) => Gone(c)
  BY DEF Excluded, Gone
<1>7. (PriceSent(c) => PriceSent(c)') /\ (~Gone(c) => ~Gone(c)') /\ Of(c)' = Of(c)
  BY <1>2 DEF PriceSent, Gone, Sellable, Of
<1>8. StockSide(c)
  BY <1>2, SidesStay
<1>9. PriceSide(c)
  <2>1. c \in flagged["price"] /\ ~Gone(c) => c \in flagged'["price"]
    BY <1>4, <1>6 DEF Kinds
  <2>2. c \in unsent["price"] => c \in unsent'["price"]
    BY <1>5
  <2> QED BY <1>2, <1>7, <2>1, <2>2 DEF PriceSide
<1>10. Told(c)'
  <2>1. (PriceSent(c) => PriceSent(c)') /\ (StockSent(c) => StockSent(c)')
    BY <1>2, SidesStay
  <2>2. CASE k = "stock"
    <3>1. /\ flagged'["combination"] = flagged["combination"] /\ flagged'["price"] = flagged["price"]
          /\ flagged'["stock"] = flagged["stock"] \ Excluded(k)
      BY <1>4, <2>2 DEF Kinds
    <3>2. /\ unsent'["price"] = unsent["price"]
          /\ unsent'["stock"] = unsent["stock"] \cup (flagged["stock"] \cap Excluded(k))
      BY <1>5, <2>2 DEF Aspect
    <3> QED BY <1>1, <1>2, <2>1, <3>1, <3>2 DEF Told
  <2>3. CASE k \in {"combination", "price"}
    <3>1. /\ flagged["combination"] \subseteq flagged'["combination"] \cup (flagged[k] \cap Excluded(k))
          /\ flagged["price"] \subseteq flagged'["price"] \cup (flagged[k] \cap Excluded(k))
          /\ flagged'["stock"] = flagged["stock"]
      BY <1>4, <2>3 DEF Kinds
    <3>2. /\ unsent'["price"] = unsent["price"] \cup (flagged[k] \cap Excluded(k))
          /\ unsent'["stock"] = unsent["stock"]
      BY <1>5, <2>3 DEF Aspect
    <3> QED BY <1>1, <1>2, <2>1, <3>1, <3>2 DEF Told
  <2> QED BY <2>2, <2>3 DEF Kinds
<1> QED BY <1>8, <1>9, <1>10

LEMMA BatchFlags ==
    ASSUME IInv, FlagsInv, ShopKept, NEW w \in Workers, NEW k \in Kinds, BatchStart(w, k)
    PROVE  FlagsInv'
<1>1. \A c \in Combos : PriceSide(c) /\ StockSide(c) /\ Told(c)'
  BY BatchSides
<1>2. ASSUME Begin(w, k, flagged'[k])
      PROVE  FlagsInv'
  <2>1. flagged'[k] \in SUBSET Combos
    BY Same DEF BatchStart, SharedOK
  <2> QED BY <1>1, <1>2, <2>1, BeginKeeps DEF BatchStart
<1>3. CASE UNCHANGED <<mine, raced>>
  <2>1. ASSUME NEW v \in Workers, on[v] \in Combos \ raced'
        PROVE  Fresh(v)'
    <3>1. Rests(v) /\ InTurn(v) /\ Fresh(v)
      BY <1>3, <2>1 DEF Rests, mine, FlagsInv
    <3> QED BY <1>1, <2>1, <3>1, FreshKept
  <2> QED BY <1>1, <1>3, <2>1, OutsideKeepsFlags
<1> QED BY <1>2, <1>3 DEF BatchStart
-----------------------------------------------------------------------------
(* Imports, commands, shop staff *)

\* A process whose combination is left alone by what others do.
LEMMA UntouchedFresh ==
    ASSUME IInv, FlagsInv, UNCHANGED mine, NEW v \in Workers, NEW c \in Combos \ raced, c = on[v],
           kind[v] # "stock" => PriceSide(c),
           kind[v] = "stock" => StockSide(c)
    PROVE  Fresh(v)'
<1>1. Rests(v) /\ InTurn(v) /\ Fresh(v)
  BY DEF Rests, mine, FlagsInv
<1> QED BY <1>1, FreshKept

LEMMA BusyOnes ==
    ASSUME IInv, NEW v \in Workers, on[v] \in Combos
    PROVE  /\ kind[v] \in Kinds => on[v] \in BusyWith(Kinds)
           /\ \A k \in Kinds : kind[v] = k => on[v] \in BusyWith({k})
BY Constants DEF BusyWith

LEMMA ImportPriceFlags ==
    ASSUME IInv, FlagsInv, ShopKept, NEW c \in Combos, ImportPrice(c)
    PROVE  FlagsInv'
<1>1. SharedOK /\ MineOK /\ UNCHANGED mine
  BY Same DEF ImportPrice
<1>2. /\ UNCHANGED <<visible, discontinued, active, psid, stock, shop, unsent>>
      /\ raced' = raced \cup (BusyWith({"price"}) \cap {c})
      /\ \A d \in Combos \ {c} : price'[d] = price[d]
  BY <1>1 DEF ImportPrice, product, remote, SharedOK
<1>3. \A k \in Kinds : flagged'[k] = IF k = "price" THEN flagged[k] \cup {c} ELSE flagged[k]
  BY <1>1 DEF ImportPrice, Flag, SharedOK
<1>4. ASSUME NEW d \in Combos
      PROVE  StockSide(d) /\ (d # c => PriceSide(d)) /\ Told(d)'
  <2>1. Told(d)
    BY FlagsParts
  <2>2. StockSide(d)
    BY <1>2 DEF StockSide, StockSent
  <2>3. /\ flagged'["combination"] = flagged["combination"] /\ flagged'["stock"] = flagged["stock"]
        /\ flagged'["price"] = flagged["price"] \cup {c}
    BY <1>3 DEF Kinds
  <2>4. d # c => (PriceSent(d) => PriceSent(d)')
    BY <1>2 DEF PriceSent
  <2>5. d # c => PriceSide(d)
    BY <1>2, <2>3, <2>4 DEF PriceSide, Gone, Sellable, Of
  <2>6. Told(d)'
    BY <1>2, <2>1, <2>2, <2>3, <2>4 DEF Told, StockSide
  <2> QED BY <2>2, <2>5, <2>6
<1>5. ASSUME NEW v \in Workers, on[v] \in Combos \ raced'
      PROVE  Fresh(v)'
  <2>1. on[v] \in Combos \ raced /\ Fresh(v) /\ InTurn(v)
    BY <1>2, <1>5 DEF FlagsInv
  <2>2. CASE kind[v] = "stock" \/ on[v] # c
    BY <1>1, <1>4, <2>1, <2>2, UntouchedFresh
  <2>3. CASE kind[v] # "stock" /\ on[v] = c
    <3>1. kind[v] # "price"
      BY <1>2, <1>5, <2>3, BusyOnes DEF Kinds
    <3>2. CASE kind[v] = "none"
      <4>1. pc'[v] = "idle"
        BY <1>1, <2>1, <3>2 DEF InTurn, mine
      <4> QED BY <4>1, FreshWithout
    <3>3. CASE kind[v] = "combination"
      <4>1. PriceFollows(v)'
        BY <1>1, <1>3, <2>3, <3>3 DEF PriceFollows, mine, Kinds
      <4>2. pc[v] \notin {"quantity", "close"}
        BY <2>1, <3>3 DEF InTurn
      <4>3. UNCHANGED <<pc, kind, on, target>>
        BY <1>1 DEF mine
      <4> QED BY <1>2, <2>1, <4>1, <4>2, <4>3 DEF Fresh, Gone, Sellable, Of
    <3> QED BY <1>1, <2>3, <3>1, <3>2, <3>3 DEF MineOK, Kinds
  <2> QED BY <2>2, <2>3
<1> QED BY <1>1, <1>2, <1>4, <1>5, OutsideKeepsFlags

LEMMA ImportStockFlags ==
    ASSUME IInv, FlagsInv, ShopKept, NEW c \in Combos, ImportStock(c)
    PROVE  FlagsInv'
<1>1. SharedOK /\ UNCHANGED mine
  BY Same DEF ImportStock
<1>2. /\ UNCHANGED <<visible, discontinued, active, psid, price, shop, unsent>>
      /\ raced' = raced \cup (BusyWith({"stock"}) \cap {c})
      /\ \A d \in Combos \ {c} : stock'[d] = stock[d]
  BY <1>1 DEF ImportStock, product, remote, SharedOK
<1>3. \A k \in Kinds : flagged'[k] = IF k = "stock" THEN flagged[k] \cup {c} ELSE flagged[k]
  BY <1>1 DEF ImportStock, Flag, SharedOK
<1>4. ASSUME NEW d \in Combos
      PROVE  PriceSide(d) /\ (d # c => StockSide(d)) /\ Told(d)'
  <2>1. Told(d)
    BY FlagsParts
  <2>2. /\ flagged'["combination"] = flagged["combination"] /\ flagged'["price"] = flagged["price"]
        /\ flagged'["stock"] = flagged["stock"] \cup {c}
    BY <1>3 DEF Kinds
  <2>3. PriceSide(d)
    BY <1>2, <2>2 DEF PriceSide, PriceSent, Gone, Sellable, Of
  <2>4. d # c => StockSide(d)
    BY <1>2 DEF StockSide, StockSent
  <2>5. Told(d)'
    BY <1>2, <2>1, <2>2, <2>3, <2>4 DEF Told, StockSide, PriceSide
  <2> QED BY <2>3, <2>4, <2>5
<1>5. ASSUME NEW v \in Workers, on[v] \in Combos \ raced'
      PROVE  Fresh(v)'
  <2>1. kind[v] = "stock" => on[v] # c
    BY <1>2, <1>5, BusyOnes DEF Kinds
  <2> QED BY <1>1, <1>2, <1>4, <1>5, <2>1, UntouchedFresh
<1> QED BY <1>1, <1>2, <1>4, <1>5, OutsideKeepsFlags

LEMMA ImportProductFlags ==
    ASSUME IInv, FlagsInv, ShopKept, NEW c \in Combos, ImportProduct(c)
    PROVE  FlagsInv'
<1>1. SharedOK /\ UNCHANGED <<mine, psid, price, stock, shop, unsent>>
  BY Same DEF ImportProduct, remote
<1>2. raced' = raced \cup BusyWith(Kinds)
  BY DEF ImportProduct
<1>3. \A k \in Kinds : flagged[k] \subseteq flagged'[k]
  BY <1>1 DEF ImportProduct, Flag, SharedOK
<1>4. ASSUME NEW d \in Combos
      PROVE  Told(d)'
  <2>1. Told(d)
    BY FlagsParts
  <2>2. (PriceSent(d) => PriceSent(d)') /\ (StockSent(d) => StockSent(d)')
    BY <1>1 DEF PriceSent, StockSent
  <2> QED BY <1>1, <1>2, <1>3, <2>1, <2>2, ToldStays
<1>5. ASSUME NEW v \in Workers, on[v] \in Combos \ raced'
      PROVE  Fresh(v)'
  <2>1. pc[v] \notin {"idle", "next"} => kind[v] \in Kinds
    BY OnCombo
  <2>2. pc[v] \in {"idle", "next"}
    BY <1>2, <1>5, <2>1, BusyOnes
  <2> QED BY <1>1, <2>2, FreshWithout DEF mine
<1> QED BY <1>1, <1>2, <1>4, <1>5, OutsideKeepsFlags

\* What changes nothing that an export has read of a combination.
LEMMA SidesKeep ==
    ASSUME IInv, FlagsInv, ShopKept, UNCHANGED <<mine, visible, discontinued, active, price, stock, unsent>>,
           raced \subseteq raced', shop' \subseteq shop, flagged'["price"] = flagged["price"],
           \A c \in Combos : Told(c)'
    PROVE  FlagsInv'
<1>1. ASSUME NEW c \in Combos
      PROVE  PriceSide(c) /\ StockSide(c)
  <2>1. StockSide(c)
    BY DEF StockSide, StockSent
  <2>2. Of(c) = {} => Of(c)' = {}
    BY DEF Of
  <2>3. PriceSent(c) => PriceSent(c)'
    BY DEF PriceSent
  <2> QED BY <2>1, <2>2, <2>3 DEF PriceSide, Gone, Sellable
<1>2. UNCHANGED mine
  OBVIOUS
<1>3. ASSUME NEW v \in Workers, on[v] \in Combos \ raced'
      PROVE  Fresh(v)'
  BY <1>1, <1>2, <1>3, UntouchedFresh
<1> QED BY <1>2, <1>3, OutsideKeepsFlags

LEMMA OperatorFlags ==
    ASSUME IInv, FlagsInv, ShopKept, Operator
    PROVE  FlagsInv'
<1>1. /\ SharedOK
      /\ UNCHANGED <<mine, visible, discontinued, active, price, stock, unsent>>
      /\ raced \subseteq raced' /\ shop' \subseteq shop
  BY Same DEF Operator, ShopDeletes, ResetIds, Reconcile, DeleteDuplicates, product, rows, remote, history
<1>2. \A d : (PriceSent(d) => PriceSent(d)') /\ (StockSent(d) => StockSent(d)')
  BY <1>1 DEF PriceSent, StockSent
<1>3. CASE ShopDeletes \/ DeleteDuplicates
  <2>1. UNCHANGED <<flagged, psid>>
    BY <1>3 DEF ShopDeletes, DeleteDuplicates, rows
  <2>2. ASSUME NEW d \in Combos PROVE Told(d)'
    <3>1. Told(d)
      BY FlagsParts
    <3> QED BY <1>1, <1>2, <2>1, <3>1, ToldStays
  <2> QED BY <1>1, <2>1, <2>2, SidesKeep
<1>4. CASE ResetIds
  <2>1. /\ flagged'["combination"] = flagged["combination"] \cup {c \in Combos : psid[c] # 0}
        /\ flagged'["price"] = flagged["price"] /\ flagged'["stock"] = flagged["stock"]
    BY <1>1, <1>4 DEF ResetIds, SharedOK, Kinds
  <2>2. ASSUME NEW d \in Combos PROVE Told(d)'
    <3>1. Told(d)
      BY FlagsParts
    <3> QED BY <1>1, <1>2, <2>1, <3>1 DEF Told
  <2> QED BY <1>1, <2>1, <2>2, SidesKeep
<1>5. CASE Reconcile
  <2> DEFINE matched == {c \in Combos : psid[c] = 0 /\ Of(c) # {}}
  <2>1. \A c \in Combos : IF c \in matched THEN First(psid'[c], Of(c)) ELSE psid'[c] = psid[c]
    BY <1>5 DEF Reconcile
  <2>2. /\ flagged'["combination"] = flagged["combination"] \ matched
        /\ flagged'["price"] = flagged["price"] /\ flagged'["stock"] = flagged["stock"]
    BY <1>1, <1>5 DEF Reconcile, SharedOK, Kinds
  <2>3. ASSUME NEW c \in matched PROVE psid'[c] # 0
    <3>1. psid'[c] \in Of(c)
      BY <2>1 DEF First
    <3> QED BY <1>1, <3>1, Constants DEF Of, SharedOK, ShopCombo
  <2>4. ASSUME NEW d \in Combos PROVE Told(d)'
    <3>1. Told(d)
      BY FlagsParts
    <3>2. psid'[d] = 0 => psid[d] = 0 /\ d \notin matched
      BY <2>1, <2>3
    <3> HIDE DEF matched
    <3> QED BY <1>1, <1>2, <2>2, <3>1, <3>2 DEF Told
  <2> QED BY <1>1, <2>2, <2>4, SidesKeep
<1> QED BY <1>3, <1>4, <1>5 DEF Operator

LEMMA ExportProductFlags ==
    ASSUME IInv, FlagsInv, ShopKept, ExportProduct
    PROVE  FlagsInv'
<1>1. UNCHANGED <<mine, visible, discontinued, active, psid, price, stock, unsent, flagged, shop, raced>>
  BY DEF ExportProduct, rows, remote, history
<1>2. ASSUME NEW d \in Combos PROVE Told(d)'
  <2>1. Told(d)
    BY FlagsParts
  <2> QED BY <1>1, <2>1, SidesStay, ToldStays
<1> QED BY <1>1, <1>2, SidesKeep
-----------------------------------------------------------------------------
(* Theorems *)

LEMMA FlagsInitially ==
    ASSUME Init
    PROVE  FlagsInv
<1>1. IInv
  BY Initially
<1>2. ASSUME NEW w \in Workers
      PROVE  InTurn(w) /\ ListsAll(w) /\ Fresh(w) /\ InHand(w) = {}
  <2>1. pc[w] = "idle" /\ kind[w] = "none" /\ todo[w] = {} /\ on[w] = NoCombo /\ ~listed[w]
    BY DEF Init
  <2> QED BY <2>1 DEF InTurn, ListsAll, Fresh, InHand
<1>3. NotShared
  BY <1>2 DEF NotShared
<1>4. OneOfEach
  <2>1. \A s \in shop : s.id = 1
    BY DEF Init
  <2> QED BY <1>1, <2>1 DEF IInv, IdsDiffer, OneOfEach
<1>5. ASSUME NEW c \in Combos PROVE Told(c)
  <2>1. c \in flagged["combination"] /\ c \in flagged["price"] /\ c \in flagged["stock"]
    BY DEF Init, Kinds
  <2> QED BY <2>1 DEF Told
<1> QED BY <1>2, <1>3, <1>4, <1>5, FlagsParts

LEMMA NextKeepsFlags ==
    ASSUME IInv, FlagsInv, [Next]_vars
    PROVE  FlagsInv'
<1>1. ASSUME NEW w \in Workers, Post(w)
      PROVE  FlagsInv'
  BY <1>1, PostFlags
<1>2. CASE Next /\ \A w \in Workers : ~Post(w)
  <2>1. ShopKept
    BY <1>2, ShopSteps
  <2>2. ASSUME NEW c \in Combos, ImportPrice(c) \/ ImportStock(c) \/ ImportProduct(c)
        PROVE  FlagsInv'
    BY <2>1, <2>2, ImportPriceFlags, ImportStockFlags, ImportProductFlags
  <2>3. CASE ExportProduct \/ Operator
    BY <2>1, <2>3, ExportProductFlags, OperatorFlags
  <2>4. ASSUME NEW w \in Workers, NEW k \in Kinds, BatchStart(w, k) \/ \E c \in Combos : Retry(w, k, c)
        PROVE  FlagsInv'
    BY <2>1, <2>4, BatchFlags, RetryFlags
  <2>5. ASSUME NEW w \in Workers, Fails(w) \/ Stop(w)
        PROVE  FlagsInv'
    BY <2>1, <2>5, FailsFlags, StopFlags
  <2>6. ASSUME NEW w \in Workers, Step(w)
        PROVE  FlagsInv'
    <3>1. CASE Take(w) \/ Combination(w) \/ Prepare(w)
      BY <2>1, <3>1, TakeFlags, CombinationFlags, PrepareFlags
    <3>2. CASE Put(w) \/ Delete(w) \/ Missing(w) \/ Save(w)
      BY <2>1, <3>2, PutFlags, DeleteFlags, MissingFlags, SaveFlags
    <3>3. CASE Price(w) \/ Close(w)
      BY <2>1, <3>3, PriceFlags, CloseFlags
    <3>4. CASE Stock(w) \/ Quantity(w) \/ QuantityMissing(w)
      BY <2>1, <3>4, StockFlags, QuantityFlags, QuantityMissingFlags
    <3> QED BY <1>2, <2>6, <3>1, <3>2, <3>3, <3>4 DEF Step
  <2> QED BY <1>2, <2>2, <2>3, <2>4, <2>5, <2>6 DEF Next
<1>3. CASE UNCHANGED vars
  <2>1. UNCHANGED <<mine, visible, discontinued, active, psid, price, stock, unsent, flagged, shop, created, raced>>
    BY <1>3 DEF vars, product, rows, remote, history
  <2>2. ShopKept
    BY <2>1, Subset
  <2>3. ASSUME NEW d \in Combos PROVE Told(d)'
    <3>1. Told(d)
      BY FlagsParts
    <3> QED BY <2>1, <3>1, SidesStay, ToldStays
  <2> QED BY <2>1, <2>2, <2>3, SidesKeep
<1> QED BY <1>1, <1>2, <1>3

\* What the exports have in hand is still as they have read it, and what has no
\* flag is as they have sent it, as long as no two of them had it in hand at once
\* (export_combination, export_price, export_stock).
THEOREM FlagsStayTrue == Spec => []FlagsInv
<1>1. Init => IInv /\ FlagsInv
  BY Initially, FlagsInitially
<1>2. IInv /\ FlagsInv /\ [Next]_vars => IInv' /\ FlagsInv'
  BY NextKeeps, NextKeepsFlags
<1> QED BY <1>1, <1>2, PTL DEF Spec

\* A price or stock without a flag is in the shop as it is in the catalog: no
\* failure, lost answer, death of a process, deletion in the shop, reset or
\* reconciliation clears a flag too early.
THEOREM FlagsAreTrue == Spec => []FlagsTell
<1>1. ASSUME IInv, FlagsInv
      PROVE  FlagsTell
  <2>1. SUFFICES ASSUME NEW c \in Combos \ raced
                 PROVE  /\ c \notin flagged["combination"] \cup unsent["price"] => psid[c] # 0
                        /\ c \notin flagged["price"] \cup unsent["price"] => \A s \in At(c) : s.price = price[c]
                        /\ c \notin flagged["stock"] \cup unsent["stock"] => \A s \in At(c) : s.quantity = stock[c]
    BY DEF FlagsTell
  <2>2. Told(c)
    BY <1>1, FlagsParts
  <2>3. \A s \in At(c) : s \in shop /\ s.variant = c
    BY <1>1 DEF At, IInv, KnownOwn, Own
  <2> QED BY <2>2, <2>3 DEF Told, PriceSent, StockSent
<1> QED BY <1>1, IdsStayTrue, FlagsStayTrue, PTL

\* No export creates a combination that the shop has already, though answers get
\* lost, ids are reset and what a client has listed is old
\* (find_combination_id, _combinations_cache).
THEOREM NothingIsCreatedTwice == Spec => []NoDuplicate
<1>1. FlagsInv => NoDuplicate
  <2>1. SUFFICES ASSUME FlagsInv, NEW c \in Combos, c \notin raced
                 PROVE  Cardinality(Of(c)) <= 1
    BY DEF NoDuplicate
  <2>2. CASE Of(c) = {}
    <3>1. Cardinality(Of(c)) = 0
      BY <2>2, FS_EmptySet
    <3> QED BY <3>1
  <2>3. CASE Of(c) # {}
    <3>1. PICK s \in shop : s.variant = c
      BY <2>3 DEF Of
    <3>2. \A t \in shop : t.variant = c => t = s
      BY <2>1, <3>1 DEF FlagsInv, OneOfEach
    <3>3. Of(c) = {s.id}
      BY <3>1, <3>2 DEF Of
    <3>4. Cardinality({s.id}) = 1
      BY FS_Singleton
    <3> QED BY <3>3, <3>4
  <2> QED BY <2>2, <2>3
<1> QED BY <1>1, FlagsStayTrue, PTL
=============================================================================
