----------------------- MODULE AttributeValues_proofs -----------------------
(***************************************************************************)
(* Proofs about AttributeValues.  First the types: every step is a Turn of *)
(* one process (the lemmas ...Turns) and keeps the tables (...Tables).     *)
(* Then, while nobody has raced, what each process knows stays so:         *)
(* SoundTurn says what a step owes, and the lemmas ...Sound show it for    *)
(* each action.                                                            *)
(***************************************************************************)
EXTENDS AttributeValues, TLAPS

Locks == GroupIds \X Values

\* The types, with what makes ids unique and a place sound.
Tables ==
    /\ row \in [id : {0} \cup GroupIds, name : GroupNames]
    /\ local \in [Values -> {0} \cup ValueIds]
    /\ groups \subseteq Group /\ UniqueIds(groups) /\ \A g \in groups : g.id <= groupIds
    /\ values \subseteq Value /\ UniqueIds(values) /\ \A v \in values : v.id <= valueIds
    /\ groupIds \in GroupIds /\ valueIds \in ValueIds

Rest ==
    /\ icg \in {"size", "color"} /\ psid \in 1..MaxPsid
    /\ mishaps \subseteq Mishaps /\ events \in 0..MaxEvents

Typed ==
    /\ Tables /\ Rest
    /\ holder \in [Locks -> Workers \cup {Free, Orphan}]
    /\ me \in [Workers -> Process] /\ raced \in BOOLEAN
    /\ Racing => raced
    /\ \A w \in Workers : InPlace(w)

\* A step of one process.
Turn(w) ==
    /\ me' = [me EXCEPT ![w] = me'[w]]
    /\ me'[w] \in Process
    /\ raced' = (raced \/ Racing')
    /\ InPlace(w)'
    /\ holder' \in [Locks -> Workers \cup {Free, Orphan}]
    /\ \A k \in Locks : holder[k] \in Workers \ {w} => holder'[k] = holder[k]

LEMMA IdTypes == GroupIds \subseteq Nat \ {0} /\ ValueIds \subseteq Nat \ {0} /\ GroupNames \subseteq Nat
BY AttributeAssumption DEF GroupIds, ValueIds, GroupNames

LEMMA TurnOthers ==
    ASSUME Typed, NEW w \in Workers, Turn(w)
    PROVE  \A v \in Workers \ {w} : me'[v] = me[v]
BY DEF Typed, Turn

LEMMA TurnTyped ==
    ASSUME Typed, NEW w \in Workers, Turn(w), Tables', Rest', groupIds <= groupIds'
    PROVE  Typed'
<1>1. me' \in [Workers -> Process] /\ raced' \in BOOLEAN /\ (Racing' => raced')
  BY DEF Typed, Turn, Racing
<1>2. ASSUME NEW v \in Workers \ {w}
      PROVE  InPlace(v)'
  <2>1. me'[v] = me[v] /\ InPlace(v) /\ me[v] \in Process
    BY TurnOthers DEF Typed
  <2>2. \A g \in me[v].cache : g.id \in GroupIds
    BY <2>1 DEF Process, Group
  <2>3. \A g \in me[v].cache : g.id <= groupIds => g.id <= groupIds'
    <3>1. groupIds \in Nat /\ groupIds' \in Nat
      BY IdTypes DEF Typed, Tables
    <3>2. \A g \in me[v].cache : g.id \in Nat
      BY <2>2, IdTypes
    <3> QED BY <3>1, <3>2
  <2>4. ASSUME me[v].pc \in {"check", "find", "twins", "twin", "move", "create", "store"}
        PROVE  holder'[<<me[v].gid, me[v].want>>] = v
    <3>1. me[v].gid \in GroupIds /\ me[v].want \in Values
      BY <2>1, <2>4 DEF InPlace, Process
    <3>2. <<me[v].gid, me[v].want>> \in Locks
      BY <3>1 DEF Locks
    <3>3. holder[<<me[v].gid, me[v].want>>] = v
      BY <2>1, <2>4 DEF InPlace, Key
    <3> QED BY <3>2, <3>3 DEF Turn
  <2> QED BY <2>1, <2>3, <2>4 DEF InPlace, Key
<1> QED BY <1>1, <1>2 DEF Typed, Turn

\* What the statements of LeaseMutex do to the locks of others.
LEMMA LockSteps ==
    ASSUME holder \in [Locks -> Workers \cup {Free, Orphan}], NEW w \in Workers,
           Lock!Unwind(w) \/ Lock!Die(w) \/ (\E k \in Locks : Lock!Acquire(k, w)) \/ UNCHANGED holder
    PROVE  /\ holder' \in [Locks -> Workers \cup {Free, Orphan}]
           /\ \A k \in Locks : holder[k] \in Workers \ {w} => holder'[k] = holder[k]
BY AttributeAssumption DEF Lock!Unwind, Lock!Die, Lock!Acquire, Locks

LEMMA BecomesTurns ==
    ASSUME Typed, NEW w \in Workers, NEW p \in Process, Becomes(w, p),
           Lock!Unwind(w) \/ Lock!Die(w) \/ (\E k \in Locks : Lock!Acquire(k, w)) \/ UNCHANGED holder
    PROVE  me'[w] = p /\ (InPlace(w)' => Turn(w))
<1>1. holder \in [Locks -> Workers \cup {Free, Orphan}]
  BY DEF Typed
<1>2. /\ holder' \in [Locks -> Workers \cup {Free, Orphan}]
      /\ \A k \in Locks : holder[k] \in Workers \ {w} => holder'[k] = holder[k]
  BY <1>1, LockSteps
<1>3. me'[w] = p /\ me' = [me EXCEPT ![w] = p]
  BY DEF Typed, Becomes
<1>4. raced' = (raced \/ Racing')
  BY DEF Becomes
<1> QED BY <1>2, <1>3, <1>4 DEF Turn

LEMMA IdleTyped == Idle \in Process
BY AttributeAssumption DEF Idle, Process, GroupNames, Places

\* The steps of a process that go from place to place.
LEMMA FailedTurns ==
    ASSUME Typed, NEW w \in Workers, Failed(w), groupIds <= groupIds', groupIds' \in GroupIds
    PROVE  Turn(w) /\ me'[w].pc \in {"idle", "next"}
<1>1. me[w] \in Process /\ InPlace(w)
  BY DEF Typed
<1>2. Idle \in Process
  BY IdleTyped
<1>3. groupIds \in Nat /\ groupIds' \in Nat /\ \A g \in me[w].cache : g.id \in Nat
  BY <1>1, IdTypes DEF Typed, Tables, Process, Group
<1>4. CASE Becomes(w, Idle)
  <2>1. me'[w] = Idle /\ (InPlace(w)' => Turn(w))
    BY <1>2, <1>4, BecomesTurns DEF Failed
  <2> QED BY <2>1 DEF InPlace, Idle, UniqueIds
<1>5. CASE /\ me[w].task = "ensure"
           /\ Becomes(w, [Idle EXCEPT !.task = "ensure", !.pc = "next",
                                      !.listed = me[w].listed, !.cache = me[w].cache])
  <2> DEFINE p == [Idle EXCEPT !.task = "ensure", !.pc = "next",
                               !.listed = me[w].listed, !.cache = me[w].cache]
  <2>1. p \in Process
    BY <1>1, <1>2 DEF Process, Places
  <2>2. me'[w] = p /\ (InPlace(w)' => Turn(w))
    BY <1>5, <2>1, BecomesTurns DEF Failed
  <2>3. /\ p.task = "ensure" /\ p.pc = "next" /\ p.orphans = {}
        /\ p.listed = me[w].listed /\ p.cache = me[w].cache
    BY DEF Idle
  <2>4. \A g \in p.cache : g.id <= groupIds'
    <3>1. \A g \in me[w].cache : g.id <= groupIds
      BY <1>1 DEF InPlace
    <3> QED BY <1>3, <2>3, <3>1
  <2> HIDE DEF p
  <2> QED BY <1>1, <2>2, <2>3, <2>4 DEF InPlace
<1> QED BY <1>4, <1>5 DEF Failed

LEMMA EnsureTurns ==
    ASSUME Typed, NEW w \in Workers, NEW x \in Values, Ensure(w, x)
    PROVE  Turn(w)
<1> DEFINE p == [Idle EXCEPT !.task = "ensure", !.pc = "group", !.want = x,
                             !.listed = me[w].listed, !.cache = me[w].cache]
<1>1. me[w] \in Process /\ InPlace(w)
  BY DEF Typed
<1>2. p \in Process
  BY <1>1, IdleTyped DEF Process, Places
<1>3. me'[w] = p /\ (InPlace(w)' => Turn(w))
  BY <1>2, BecomesTurns DEF Ensure
<1>4. /\ p.task = "ensure" /\ p.pc = "group" /\ p.orphans = {} /\ p.want = x
      /\ p.listed = me[w].listed /\ p.cache = me[w].cache /\ groupIds' = groupIds
  BY DEF Idle, Ensure, shop
<1> QED BY <1>1, <1>3, <1>4 DEF InPlace, UniqueIds

LEMMA ListingTyped ==
    ASSUME Typed, NEW w \in Workers
    PROVE  /\ Listing(w) \subseteq Group /\ UniqueIds(Listing(w))
           /\ \A g \in Listing(w) : g.id <= groupIds
BY DEF Typed, Tables, Listing, InPlace, Process

LEMMA FindGroupTurns ==
    ASSUME Typed, NEW w \in Workers, FindGroup(w)
    PROVE  Turn(w)
<1> DEFINE list == Listing(w)
           here == [me[w] EXCEPT !.listed = TRUE, !.cache = list, !.name = Preferred]
<1>1. me[w] \in Process /\ InPlace(w) /\ me[w].pc = "group"
  BY DEF Typed, FindGroup, At
<1>2. list \subseteq Group /\ UniqueIds(list) /\ \A g \in list : g.id <= groupIds
  BY ListingTyped
<1>3. Preferred \in GroupNames
  BY AttributeAssumption DEF Preferred, GroupNames, Typed, Rest
<1>4. Match(list, Preferred) \subseteq GroupIds /\ \A i : Twins(list, i) \subseteq GroupIds
  BY <1>2 DEF Match, Twins, Group
<1>5. here \in Process
  BY <1>1, <1>2, <1>3 DEF Process
<1>6. groupIds' = groupIds /\ UNCHANGED holder
  BY DEF FindGroup, shop
<1>7. me[w].task = "ensure" /\ me[w].want \in Values /\ me[w].orphans = {}
  BY <1>1 DEF InPlace
<1>8. row.id \in {0} \cup GroupIds
  BY DEF Typed, Tables
<1>9. ASSUME row.id # 0, Becomes(w, [me[w] EXCEPT !.pc = "value", !.gid = row.id])
      PROVE  Turn(w)
  <2> DEFINE p == [me[w] EXCEPT !.pc = "value", !.gid = row.id]
  <2>1. p \in Process
    BY <1>1, <1>8 DEF Process, Places
  <2>2. me'[w] = p /\ (InPlace(w)' => Turn(w))
    BY <1>6, <1>9, <2>1, BecomesTurns
  <2> QED BY <1>1, <1>6, <1>7, <1>9, <2>2 DEF InPlace, Process
<1>10. ASSUME NEW p \in Process, Becomes(w, p),
              p.task = me[w].task, p.want = me[w].want, p.listed, p.cache = list,
              \/ p.pc \in {"remap", "adopt", "value"} /\ p.gid # 0
              \/ p.pc = "search" /\ p.orphans = {}
      PROVE  Turn(w)
  <2>1. me'[w] = p /\ (InPlace(w)' => Turn(w))
    BY <1>6, <1>10, BecomesTurns
  <2> HIDE DEF list
  <2> QED BY <1>2, <1>6, <1>7, <1>10, <2>1 DEF InPlace
<1>11. CASE row.id # 0 /\ Becomes(w, [me[w] EXCEPT !.pc = "value", !.gid = row.id])
  BY <1>9, <1>11
<1>12. CASE \E match \in Match(list, Preferred) :
              Becomes(w, [here EXCEPT !.pc = "remap", !.gid = match, !.val = row.id,
                                      !.orphans = Twins(list, match)])
  <2>1. PICK match \in Match(list, Preferred) :
              Becomes(w, [here EXCEPT !.pc = "remap", !.gid = match, !.val = row.id,
                                      !.orphans = Twins(list, match)])
    BY <1>12
  <2> DEFINE p == [here EXCEPT !.pc = "remap", !.gid = match, !.val = row.id,
                               !.orphans = Twins(list, match)]
  <2>2. match \in GroupIds /\ match # 0
    BY <1>4, IdTypes
  <2>3. p \in Process /\ p.pc = "remap" /\ p.gid = match
    BY <1>4, <1>5, <1>8, <2>2 DEF Process, Places
  <2>4. p.task = me[w].task /\ p.want = me[w].want /\ p.listed /\ p.cache = list
    BY <1>1 DEF Process
  <2> HIDE DEF p, list
  <2> QED BY <1>10, <2>1, <2>2, <2>3, <2>4 DEF p, list
<1>13. CASE \E match \in Match(list, Preferred) :
              Becomes(w, [here EXCEPT !.pc = "adopt", !.gid = match, !.orphans = Twins(list, match)])
  <2>1. PICK match \in Match(list, Preferred) :
            Becomes(w, [here EXCEPT !.pc = "adopt", !.gid = match, !.orphans = Twins(list, match)])
    BY <1>13
  <2> DEFINE p == [here EXCEPT !.pc = "adopt", !.gid = match, !.orphans = Twins(list, match)]
  <2>2. match \in GroupIds /\ match # 0
    BY <1>4, IdTypes
  <2>3. p \in Process /\ p.pc = "adopt" /\ p.gid = match
    BY <1>4, <1>5, <2>2 DEF Process, Places
  <2>4. p.task = me[w].task /\ p.want = me[w].want /\ p.listed /\ p.cache = list
    BY <1>1 DEF Process
  <2> HIDE DEF p, list
  <2> QED BY <1>10, <2>1, <2>2, <2>3, <2>4 DEF p, list
<1>14. CASE row.id # 0 /\ Becomes(w, [here EXCEPT !.pc = "value", !.gid = row.id])
  <2> DEFINE p == [here EXCEPT !.pc = "value", !.gid = row.id]
  <2>1. p \in Process /\ p.pc = "value" /\ p.gid = row.id
    BY <1>5, <1>8 DEF Process, Places
  <2>2. p.task = me[w].task /\ p.want = me[w].want /\ p.listed /\ p.cache = list
    BY <1>1 DEF Process
  <2> QED BY <1>10, <1>14, <2>1, <2>2
<1>15. CASE Becomes(w, [here EXCEPT !.pc = "search"])
  <2> DEFINE p == [here EXCEPT !.pc = "search"]
  <2>1. p \in Process /\ p.pc = "search" /\ p.orphans = {}
    BY <1>1, <1>5, <1>7 DEF Process, Places
  <2>2. p.task = me[w].task /\ p.want = me[w].want /\ p.listed /\ p.cache = list
    BY <1>1 DEF Process
  <2> QED BY <1>10, <1>15, <2>1, <2>2
<1> QED BY <1>11, <1>12, <1>13, <1>14, <1>15 DEF FindGroup

\* A process that goes on with its task and its listing, or without the listing.
LEMMA GoesOn ==
    ASSUME Typed, NEW w \in Workers, NEW p \in Process, Becomes(w, p),
           Lock!Unwind(w) \/ (\E k \in Locks : Lock!Acquire(k, w)) \/ UNCHANGED holder,
           groupIds' = groupIds,
           p.task = me[w].task,
           \/ p.listed = me[w].listed /\ p.cache = me[w].cache
           \/ ~p.listed /\ p.cache = {} /\ p.pc \notin {"search", "new group"},
           p.want = me[w].want,
           p.pc \in {"search", "new group"} => me[w].listed /\ p.orphans = {},
           p.pc \notin {"group", "search", "new group", "clean", "clean all", "reconcile", "apply"}
               => p.gid # 0,
           p.pc \in {"clean", "move", "store"} => p.val \in ValueIds,
           p.pc \in {"check", "find", "twins", "twin", "move", "create", "store"} =>
               holder'[<<p.gid, p.want>>] = w,
           \/ p.task = "ensure" /\ p.pc \in {"search", "new group", "adopt", "merge", "compare", "each",
                    "forget", "drop group", "value", "lock", "check", "find", "twins", "twin", "move",
                    "create", "store"} /\ me[w].pc # "next"
           \/ p.task = "merge" /\ p.pc \in {"merge", "compare", "each", "drop group"}
           \/ p.task = "clean" /\ p.pc \in {"clean", "clean all"}
           \/ p.task = "reconcile" /\ p.pc \in {"reconcile", "apply"}
    PROVE  Turn(w) /\ me'[w] = p
<1>1. me'[w] = p /\ (InPlace(w)' => Turn(w))
  BY BecomesTurns
<1>2. InPlace(w) /\ me[w] \in Process
  BY DEF Typed
<1>3. /\ ~p.listed => p.cache = {}
      /\ UniqueIds(p.cache) /\ \A g \in p.cache : g.id <= groupIds
  BY <1>2 DEF InPlace, UniqueIds
<1>4. me[w].task = "ensure" /\ me[w].pc # "next" => me[w].want \in Values
  BY <1>2 DEF InPlace
<1>5. me[w].task = "clean" => me[w].want \in Values
  BY <1>2 DEF InPlace
<1>6. InPlace(w)'
  BY <1>1, <1>3, <1>4, <1>5 DEF InPlace, Key
<1> QED BY <1>1, <1>6

LEMMA BecomesIdle ==
    ASSUME Typed, NEW w \in Workers, Becomes(w, Idle),
           Lock!Unwind(w) \/ Lock!Die(w) \/ UNCHANGED holder, groupIds' = groupIds
    PROVE  Turn(w) /\ me'[w] = Idle
<1>1. me'[w] = Idle /\ (InPlace(w)' => Turn(w))
  BY IdleTyped, BecomesTurns
<1> QED BY <1>1 DEF InPlace, Idle, UniqueIds

LEMMA RemapTurns ==
    ASSUME Typed, NEW w \in Workers, Remap(w)
    PROVE  Turn(w)
<1> DEFINE p == [me[w] EXCEPT !.pc = "merge", !.val = 0]
<1>1. me[w] \in Process /\ InPlace(w) /\ me[w].pc = "remap"
  BY DEF Typed, Remap, At
<1>2. groupIds' = groupIds /\ groupIds \in GroupIds
  BY DEF Remap, shop, Typed, Tables
<1>3. CASE Becomes(w, p) /\ UNCHANGED holder /\ me[w].task # "import"
  <2>1. p \in Process /\ p.pc = "merge"
    BY <1>1 DEF Process, Places
  <2>2. p.task = me[w].task /\ p.want = me[w].want /\ p.listed = me[w].listed
        /\ p.cache = me[w].cache /\ p.gid = me[w].gid
    BY <1>1 DEF Process
  <2>3. me[w].task = "ensure" /\ me[w].gid # 0
    BY <1>1, <1>3 DEF InPlace
  <2> HIDE DEF p
  <2> QED BY <1>1, <1>2, <1>3, <2>1, <2>2, <2>3, GoesOn
<1>4. CASE Becomes(w, Idle) /\ UNCHANGED holder
  BY <1>2, <1>4, BecomesIdle
<1>5. CASE Failed(w)
  BY <1>2, <1>5, IdTypes, FailedTurns
<1>6. \/ Becomes(w, IF me[w].task = "import" THEN Idle ELSE p) /\ UNCHANGED holder
      \/ Failed(w)
  BY DEF Remap
<1> QED BY <1>3, <1>4, <1>5, <1>6

LEMMA SearchGroupTurns ==
    ASSUME Typed, NEW w \in Workers, SearchGroup(w)
    PROVE  Turn(w)
<1>1. me[w] \in Process /\ InPlace(w) /\ me[w].pc = "search"
  BY DEF Typed, SearchGroup, At
<1>2. groupIds' = groupIds /\ UNCHANGED holder
  BY DEF SearchGroup, shop
<1>3. CASE Goto(w, "new group")
  <2> DEFINE p == [me[w] EXCEPT !.pc = "new group"]
  <2>1. p \in Process /\ p.pc = "new group" /\ p.gid = me[w].gid /\ p.orphans = me[w].orphans
    BY <1>1 DEF Process, Places
  <2>2. p.task = me[w].task /\ p.want = me[w].want /\ p.listed = me[w].listed /\ p.cache = me[w].cache
    BY <1>1 DEF Process
  <2>3. Becomes(w, p)
    BY <1>3 DEF Goto
  <2>4. me[w].task = "ensure" /\ me[w].listed /\ me[w].orphans = {}
    BY <1>1 DEF InPlace
  <2> HIDE DEF p
  <2> QED BY <1>1, <1>2, <2>1, <2>2, <2>3, <2>4, GoesOn
<1>4. ASSUME NEW g \in groups, Becomes(w, [me[w] EXCEPT !.pc = "adopt", !.gid = g.id])
      PROVE  Turn(w)
  <2> DEFINE p == [me[w] EXCEPT !.pc = "adopt", !.gid = g.id]
  <2>1. g.id \in GroupIds /\ g.id # 0
    BY IdTypes DEF Typed, Tables, Group
  <2>2. p \in Process /\ p.pc = "adopt" /\ p.gid = g.id
    BY <1>1, <2>1 DEF Process, Places
  <2>3. p.task = me[w].task /\ p.want = me[w].want /\ p.listed = me[w].listed /\ p.cache = me[w].cache
    BY <1>1 DEF Process
  <2>4. me[w].task = "ensure"
    BY <1>1 DEF InPlace
  <2> HIDE DEF p
  <2> QED BY <1>1, <1>2, <1>4, <2>1, <2>2, <2>3, <2>4, GoesOn DEF p
<1> QED BY <1>3, <1>4 DEF SearchGroup

LEMMA NewGroupTurns ==
    ASSUME Typed, NEW w \in Workers, NewGroup(w)
    PROVE  Turn(w) /\ groupIds' = groupIds + 1 /\ groupIds' \in GroupIds
<1> DEFINE new == [id |-> groupIds', name |-> me[w].name]
           p == [me[w] EXCEPT !.pc = "adopt", !.gid = new.id, !.cache = @ \cup {new}]
<1>1. me[w] \in Process /\ InPlace(w) /\ me[w].pc = "new group"
  BY DEF Typed, NewGroup, At
<1>2. groupIds \in GroupIds /\ groupIds' = groupIds + 1 /\ groupIds < MaxGroups
  BY DEF Typed, Tables, NewGroup
<1>3. groupIds' \in GroupIds /\ groupIds <= groupIds' /\ groupIds' # 0
  BY <1>2, AttributeAssumption DEF GroupIds
<1>4. CASE Becomes(w, p) /\ UNCHANGED holder
  <2>1. new \in Group
    BY <1>1, <1>3 DEF Group, Process
  <2>2. p \in Process
    BY <1>1, <1>3, <2>1 DEF Process, Places
  <2>3. /\ p.task = me[w].task /\ p.pc = "adopt" /\ p.want = me[w].want /\ p.listed = me[w].listed
        /\ p.gid = groupIds' /\ p.cache = me[w].cache \cup {new}
    BY <1>1 DEF Process
  <2>4. me'[w] = p /\ (InPlace(w)' => Turn(w))
    BY <1>4, <2>2, BecomesTurns
  <2>5. \A g \in me[w].cache : g.id \in Nat /\ g.id <= groupIds
    BY <1>1, IdTypes DEF InPlace, Process, Group
  <2>6. groupIds \in Nat
    BY <1>2, IdTypes
  <2>7. \A g \in me[w].cache : g.id <= groupIds' /\ g.id # groupIds'
    BY <1>2, <2>5, <2>6
  <2>8. \A g \in p.cache : g.id <= groupIds'
    BY <1>2, <2>3, <2>6, <2>7
  <2>9. UniqueIds(p.cache)
    <3>1. new.id = groupIds' /\ UniqueIds(me[w].cache)
      BY <1>1 DEF InPlace
    <3> HIDE DEF p, new
    <3> QED BY <2>3, <2>7, <3>1 DEF UniqueIds
  <2>10. me[w].task = "ensure" /\ me[w].listed /\ me[w].want \in Values
    BY <1>1 DEF InPlace
  <2>11. InPlace(w)'
    <3> HIDE DEF p, new
    <3> QED BY <1>3, <2>3, <2>4, <2>8, <2>9, <2>10 DEF InPlace
  <2> QED BY <1>2, <1>3, <2>4, <2>11
<1>5. CASE Failed(w)
  BY <1>2, <1>3, <1>5, FailedTurns
<1> QED BY <1>4, <1>5 DEF NewGroup

LEMMA AdoptTurns ==
    ASSUME Typed, NEW w \in Workers, Adopt(w)
    PROVE  Turn(w)
<1> DEFINE place == IF me[w].orphans = {} THEN "value" ELSE "merge"
           p == [me[w] EXCEPT !.pc = place]
<1>1. me[w] \in Process /\ InPlace(w) /\ me[w].pc = "adopt"
  BY DEF Typed, Adopt, At
<1>2. groupIds' = groupIds /\ UNCHANGED holder /\ Becomes(w, p)
  BY DEF Adopt, Goto, shop
<1> place \in {"value", "merge"}
  OBVIOUS
<1> HIDE DEF place
<1>3. p \in Process /\ p.pc \in {"value", "merge"} /\ p.gid = me[w].gid
  BY <1>1 DEF Process, Places
<1>4. p.task = me[w].task /\ p.want = me[w].want /\ p.listed = me[w].listed /\ p.cache = me[w].cache
  BY <1>1 DEF Process
<1>5. me[w].task = "ensure" /\ me[w].gid # 0
  BY <1>1 DEF InPlace
<1> HIDE DEF p
<1> QED BY <1>1, <1>2, <1>3, <1>4, <1>5, GoesOn

LEMMA MergeDoneTurns ==
    ASSUME Typed, NEW w \in Workers, MergeDone(w)
    PROVE  Turn(w)
<1>1. me[w] \in Process /\ InPlace(w) /\ me[w].pc = "merge"
  BY DEF Typed, MergeDone, At
<1>2. groupIds' = groupIds /\ UNCHANGED holder
  BY DEF MergeDone, shop
<1>3. me[w].task \in {"ensure", "merge"} /\ me[w].gid # 0 /\ (me[w].task = "ensure" => me[w].want \in Values)
  BY <1>1 DEF InPlace
<1>4. CASE me[w].task # "merge" /\ Becomes(w, [me[w] EXCEPT !.pc = "value"])
  <2> DEFINE p == [me[w] EXCEPT !.pc = "value"]
  <2>1. p \in Process /\ p.pc = "value" /\ p.gid = me[w].gid
    BY <1>1 DEF Process, Places
  <2>2. p.task = me[w].task /\ p.want = me[w].want /\ p.listed = me[w].listed /\ p.cache = me[w].cache
    BY <1>1 DEF Process
  <2> HIDE DEF p
  <2> QED BY <1>1, <1>2, <1>3, <1>4, <2>1, <2>2, GoesOn DEF p
<1>5. CASE Becomes(w, Idle)
  BY <1>2, <1>5, BecomesIdle
<1> QED BY <1>4, <1>5 DEF MergeDone

LEMMA SkipTurns ==
    ASSUME Typed, NEW w \in Workers, Skip(w), groupIds' = groupIds, UNCHANGED holder,
           me[w].pc \in {"merge", "compare", "each", "drop group"}
    PROVE  Turn(w)
<1>1. me[w] \in Process /\ InPlace(w)
  BY DEF Typed
<1>3. me[w].task \in {"ensure", "merge"} /\ me[w].gid # 0 /\ (me[w].task = "ensure" => me[w].want \in Values)
  BY <1>1 DEF InPlace
<1>4. Turn(w)
  <2> DEFINE p == [me[w] EXCEPT !.pc = "merge", !.orphan = 0, !.todo = {}, !.names = {}]
  <2>1. p \in Process /\ p.pc = "merge" /\ p.gid = me[w].gid
    BY <1>1 DEF Process, Places
  <2>2. p.task = me[w].task /\ p.want = me[w].want /\ p.listed = me[w].listed /\ p.cache = me[w].cache
    BY <1>1 DEF Process
  <2> HIDE DEF p
  <2> QED BY <1>1, <1>3, <2>1, <2>2, GoesOn DEF p, Skip
<1> QED BY <1>4

LEMMA ListOrphanTurns ==
    ASSUME Typed, NEW w \in Workers, ListOrphan(w)
    PROVE  Turn(w)
<1>1. me[w] \in Process /\ InPlace(w) /\ me[w].pc = "merge"
  BY DEF Typed, ListOrphan, At
<1>2. groupIds' = groupIds /\ UNCHANGED holder
  BY DEF ListOrphan, shop
<1>3. me[w].task \in {"ensure", "merge"} /\ me[w].gid # 0 /\ (me[w].task = "ensure" => me[w].want \in Values)
  BY <1>1 DEF InPlace
<1>5. PICK o \in me[w].orphans :
        Becomes(w, [me[w] EXCEPT !.pc = "compare", !.orphan = o, !.orphans = @ \ {o}, !.todo = In(o)])
  BY DEF ListOrphan
<1>6. o \in GroupIds /\ In(o) \subseteq Value
  BY <1>1 DEF Process, In, Typed, Tables
<1>4. Turn(w)
  <2> DEFINE p == [me[w] EXCEPT !.pc = "compare", !.orphan = o, !.orphans = @ \ {o}, !.todo = In(o)]
  <2>1. p \in Process /\ p.pc = "compare" /\ p.gid = me[w].gid
    BY <1>1, <1>6 DEF Process, Places
  <2>2. p.task = me[w].task /\ p.want = me[w].want /\ p.listed = me[w].listed /\ p.cache = me[w].cache
    BY <1>1 DEF Process
  <2> HIDE DEF p
  <2> QED BY <1>1, <1>2, <1>3, <1>5, <2>1, <2>2, GoesOn DEF p
<1> QED BY <1>4

LEMMA CompareTurns ==
    ASSUME Typed, NEW w \in Workers, Compare(w)
    PROVE  Turn(w)
<1>1. me[w] \in Process /\ InPlace(w) /\ me[w].pc = "compare"
  BY DEF Typed, Compare, At
<1>2. groupIds' = groupIds /\ UNCHANGED holder
  BY DEF Compare, shop
<1>3. me[w].task \in {"ensure", "merge"} /\ me[w].gid # 0 /\ (me[w].task = "ensure" => me[w].want \in Values)
  BY <1>1 DEF InPlace
<1>6. {v.name : v \in In(me[w].gid)} \subseteq Values
  BY DEF In, Typed, Tables, Value
<1>4. Turn(w)
  <2> DEFINE p == [me[w] EXCEPT !.pc = "each", !.names = {v.name : v \in In(me[w].gid)}]
  <2>1. p \in Process /\ p.pc = "each" /\ p.gid = me[w].gid
    BY <1>1, <1>6 DEF Process, Places
  <2>2. p.task = me[w].task /\ p.want = me[w].want /\ p.listed = me[w].listed /\ p.cache = me[w].cache
    BY <1>1 DEF Process
  <2> HIDE DEF p
  <2> QED BY <1>1, <1>2, <1>3, <2>1, <2>2, GoesOn DEF p, Compare
<1> QED BY <1>4

LEMMA MergeFailsTurns ==
    ASSUME Typed, NEW w \in Workers, MergeFails(w)
    PROVE  Turn(w)
<1>1. me[w] \in Process /\ InPlace(w) /\ me[w].pc \in {"compare", "drop group", "each"}
  BY DEF Typed, MergeFails, At
<1>2. groupIds' = groupIds /\ UNCHANGED holder
  BY DEF MergeFails, shop
<1> QED BY <1>1, <1>2, SkipTurns DEF MergeFails

LEMMA RemainingTurns ==
    ASSUME Typed, NEW w \in Workers, Remaining(w)
    PROVE  Turn(w)
<1>1. me[w] \in Process /\ InPlace(w) /\ me[w].pc = "each"
  BY DEF Typed, Remaining, At
<1>2. groupIds' = groupIds /\ UNCHANGED holder
  BY DEF Remaining, shop
<1>3. me[w].task \in {"ensure", "merge"} /\ me[w].gid # 0 /\ (me[w].task = "ensure" => me[w].want \in Values)
  BY <1>1 DEF InPlace
<1>4. CASE Goto(w, "drop group")
  <2> DEFINE p == [me[w] EXCEPT !.pc = "drop group"]
  <2>1. p \in Process /\ p.pc = "drop group" /\ p.gid = me[w].gid
    BY <1>1 DEF Process, Places
  <2>2. p.task = me[w].task /\ p.want = me[w].want /\ p.listed = me[w].listed /\ p.cache = me[w].cache
    BY <1>1 DEF Process
  <2> HIDE DEF p
  <2> QED BY <1>1, <1>2, <1>3, <1>4, <2>1, <2>2, GoesOn DEF p, Goto
<1>5. CASE Skip(w)
  BY <1>1, <1>2, <1>5, SkipTurns
<1> QED BY <1>4, <1>5 DEF Remaining

LEMMA DropGroupTurns ==
    ASSUME Typed, NEW w \in Workers, DropGroup(w)
    PROVE  Turn(w)
<1>1. me[w] \in Process /\ InPlace(w) /\ me[w].pc = "drop group"
  BY DEF Typed, DropGroup, At
<1>2. groupIds' = groupIds /\ UNCHANGED holder
  BY DEF DropGroup
<1>3. me[w].task \in {"ensure", "merge"} /\ me[w].gid # 0 /\ (me[w].task = "ensure" => me[w].want \in Values)
  BY <1>1 DEF InPlace
<1> DEFINE after == [me[w] EXCEPT !.pc = "merge", !.orphan = 0, !.todo = {}, !.names = {}, !.listed = FALSE, !.cache = {}]
<1>4. CASE Becomes(w, after)
  <2> DEFINE p == [me[w] EXCEPT !.pc = "merge", !.orphan = 0, !.todo = {}, !.names = {},
                         !.listed = FALSE, !.cache = {}]
  <2>1. p \in Process /\ p.pc = "merge" /\ p.gid = me[w].gid
    BY <1>1 DEF Process, Places
  <2>2. p.task = me[w].task /\ p.want = me[w].want /\ ~p.listed /\ p.cache = {}
    BY <1>1 DEF Process
  <2> HIDE DEF p
  <2> QED BY <1>1, <1>2, <1>3, <1>4, <2>1, <2>2, GoesOn DEF p
<1>5. CASE Skip(w)
  BY <1>1, <1>2, <1>5, SkipTurns
<1> HIDE DEF after
<1> QED BY <1>4, <1>5 DEF DropGroup, after

LEMMA DoneTurns ==
    ASSUME Typed, NEW w \in Workers, NEW v, Becomes(w, Done(w, v)), groupIds' = groupIds, UNCHANGED holder,
           me[w].pc = "each" \/ me[w].pc = "clean all"
    PROVE  Turn(w)
<1>1. me[w] \in Process /\ InPlace(w)
  BY DEF Typed
<1>3. /\ me[w].pc = "each" => me[w].task \in {"ensure", "merge"} /\ me[w].gid # 0
      /\ me[w].pc = "clean all" => me[w].task = "clean"
  BY <1>1 DEF InPlace
<1>4. Turn(w)
  <2> DEFINE p == [me[w] EXCEPT !.todo = @ \ {v}]
  <2>1. p \in Process /\ p.pc = me[w].pc /\ p.gid = me[w].gid
    BY <1>1 DEF Process, Places
  <2>2. p.task = me[w].task /\ p.want = me[w].want /\ p.listed = me[w].listed /\ p.cache = me[w].cache
    BY <1>1 DEF Process
  <2> HIDE DEF p
  <2> QED BY <1>1, <1>3, <2>1, <2>2, GoesOn DEF p, Done
<1> QED BY <1>4

LEMMA DeleteTwinTurns ==
    ASSUME Typed, NEW w \in Workers, DeleteTwin(w)
    PROVE  Turn(w)
<1>1. me[w] \in Process /\ InPlace(w) /\ me[w].pc = "each"
  BY DEF Typed, DeleteTwin, At
<1>2. groupIds' = groupIds /\ UNCHANGED holder
  BY DEF DeleteTwin
<1>3. me[w].task \in {"ensure", "merge"} /\ me[w].gid # 0 /\ (me[w].task = "ensure" => me[w].want \in Values)
  BY <1>1 DEF InPlace
<1>5. PICK v \in me[w].todo :
         \/ Becomes(w, Done(w, v))
         \/ me[w].task = "ensure" /\ Becomes(w, [Done(w, v) EXCEPT !.pc = "forget", !.val = v.id])
  BY DEF DeleteTwin
<1>6. v.id \in ValueIds
  BY <1>1 DEF Process, Value
<1>4. CASE me[w].task = "ensure" /\ Becomes(w, [Done(w, v) EXCEPT !.pc = "forget", !.val = v.id])
  <2> DEFINE p == [me[w] EXCEPT !.todo = @ \ {v}, !.pc = "forget", !.val = v.id]
  <2>1. p \in Process /\ p.pc = "forget" /\ p.gid = me[w].gid
    BY <1>1, <1>6 DEF Process, Places
  <2>2. p.task = me[w].task /\ p.want = me[w].want /\ p.listed = me[w].listed /\ p.cache = me[w].cache
    BY <1>1 DEF Process
  <2>3. p = [Done(w, v) EXCEPT !.pc = "forget", !.val = v.id]
    BY <1>1 DEF Done, Process
  <2> HIDE DEF p
  <2> QED BY <1>1, <1>2, <1>3, <1>4, <2>3, <2>1, <2>2, GoesOn
<1>7. CASE Becomes(w, Done(w, v))
  BY <1>1, <1>2, <1>7, DoneTurns
<1> QED BY <1>4, <1>5, <1>7

LEMMA ForgetTwinTurns ==
    ASSUME Typed, NEW w \in Workers, ForgetTwin(w)
    PROVE  Turn(w)
<1>1. me[w] \in Process /\ InPlace(w) /\ me[w].pc = "forget"
  BY DEF Typed, ForgetTwin, At
<1>2. groupIds' = groupIds /\ UNCHANGED holder
  BY DEF ForgetTwin, shop
<1>3. me[w].task \in {"ensure", "merge"} /\ me[w].gid # 0 /\ (me[w].task = "ensure" => me[w].want \in Values)
  BY <1>1 DEF InPlace
<1>4. Turn(w)
  <2> DEFINE p == [me[w] EXCEPT !.pc = "each", !.val = 0]
  <2>1. p \in Process /\ p.pc = "each" /\ p.gid = me[w].gid
    BY <1>1 DEF Process, Places
  <2>2. p.task = me[w].task /\ p.want = me[w].want /\ p.listed = me[w].listed /\ p.cache = me[w].cache
    BY <1>1 DEF Process
  <2> HIDE DEF p
  <2> QED BY <1>1, <1>2, <1>3, <2>1, <2>2, GoesOn DEF p, ForgetTwin
<1> QED BY <1>4

LEMMA MoveTwinTurns ==
    ASSUME Typed, NEW w \in Workers, MoveTwin(w)
    PROVE  Turn(w)
<1>1. me[w] \in Process /\ InPlace(w) /\ me[w].pc = "each"
  BY DEF Typed, MoveTwin, At
<1>2. groupIds' = groupIds /\ UNCHANGED holder
  BY DEF MoveTwin
<1>3. me[w].task \in {"ensure", "merge"} /\ me[w].gid # 0 /\ (me[w].task = "ensure" => me[w].want \in Values)
  BY <1>1 DEF InPlace
<1>5. PICK v \in me[w].todo :
         \/ Becomes(w, Done(w, v))
         \/ Becomes(w, [Done(w, v) EXCEPT !.names = @ \cup {v.name}, !.listed = FALSE, !.cache = {}])
  BY DEF MoveTwin
<1>6. v.name \in Values
  BY <1>1 DEF Process, Value
<1>4. CASE Becomes(w, [Done(w, v) EXCEPT !.names = @ \cup {v.name}, !.listed = FALSE, !.cache = {}])
  <2> DEFINE p == [me[w] EXCEPT !.todo = @ \ {v}, !.names = @ \cup {v.name},
                         !.listed = FALSE, !.cache = {}]
  <2>1. p \in Process /\ p.pc = "each" /\ p.gid = me[w].gid
    BY <1>1, <1>6 DEF Process, Places
  <2>2. p.task = me[w].task /\ p.want = me[w].want /\ ~p.listed /\ p.cache = {}
    BY <1>1 DEF Process
  <2>3. p = [Done(w, v) EXCEPT !.names = @ \cup {v.name}, !.listed = FALSE, !.cache = {}]
    BY <1>1 DEF Done, Process
  <2> HIDE DEF p
  <2> QED BY <1>1, <1>2, <1>3, <1>4, <2>3, <2>1, <2>2, GoesOn
<1>7. CASE Becomes(w, Done(w, v))
  BY <1>1, <1>2, <1>7, DoneTurns
<1> QED BY <1>4, <1>5, <1>7

LEMMA EnsuredTurns ==
    ASSUME Typed, NEW w \in Workers, Ensured(w), groupIds' = groupIds,
           Lock!Unwind(w) \/ UNCHANGED holder
    PROVE  Turn(w)
<1> DEFINE p == [Idle EXCEPT !.task = "ensure", !.pc = "next",
                             !.listed = me[w].listed, !.cache = me[w].cache]
<1>1. me[w] \in Process /\ InPlace(w)
  BY DEF Typed
<1>2. p \in Process
  BY <1>1, IdleTyped DEF Process, Places
<1>3. me'[w] = p /\ (InPlace(w)' => Turn(w))
  BY <1>2, BecomesTurns DEF Ensured
<1>4. /\ p.task = "ensure" /\ p.pc = "next" /\ p.orphans = {}
      /\ p.listed = me[w].listed /\ p.cache = me[w].cache
  BY DEF Idle
<1> HIDE DEF p
<1> QED BY <1>1, <1>3, <1>4 DEF InPlace

LEMMA FailsTurns ==
    ASSUME Typed, NEW w \in Workers, Failed(w), groupIds' = groupIds
    PROVE  Turn(w)
<1>1. groupIds \in GroupIds
  BY DEF Typed, Tables
<1> QED BY <1>1, IdTypes, FailedTurns

LEMMA FindValueTurns ==
    ASSUME Typed, NEW w \in Workers, FindValue(w)
    PROVE  Turn(w)
<1>1. me[w] \in Process /\ InPlace(w) /\ me[w].pc = "value"
  BY DEF Typed, FindValue, At
<1>2. groupIds' = groupIds
  BY DEF FindValue, shop
<1>3. me[w].task = "ensure" /\ me[w].gid # 0 /\ me[w].gid \in GroupIds /\ me[w].want \in Values
  BY <1>1 DEF InPlace, Process
<1>4. CASE Goto(w, "lock") /\ UNCHANGED holder
  <2> DEFINE p == [me[w] EXCEPT !.pc = "lock"]
  <2>1. p \in Process /\ p.pc = "lock" /\ p.gid = me[w].gid
    BY <1>1 DEF Process, Places
  <2>2. p.task = me[w].task /\ p.want = me[w].want /\ p.listed = me[w].listed /\ p.cache = me[w].cache
    BY <1>1 DEF Process
  <2> HIDE DEF p
  <2> QED BY <1>1, <1>2, <1>3, <1>4, <2>1, <2>2, GoesOn DEF p, Goto
<1>5. CASE Failed(w)
  BY <1>2, <1>5, FailsTurns
<1>6. CASE Ensured(w) /\ UNCHANGED holder
  BY <1>2, <1>6, EnsuredTurns
<1> QED BY <1>4, <1>5, <1>6 DEF FindValue

LEMMA LockValueTurns ==
    ASSUME Typed, NEW w \in Workers, LockValue(w)
    PROVE  Turn(w)
<1>1. me[w] \in Process /\ InPlace(w) /\ me[w].pc = "lock"
  BY DEF Typed, LockValue, At
<1>2. groupIds' = groupIds
  BY DEF LockValue, shop
<1>3. me[w].task = "ensure" /\ me[w].gid # 0 /\ me[w].gid \in GroupIds /\ me[w].want \in Values
  BY <1>1 DEF InPlace, Process
<1>5. <<me[w].gid, me[w].want>> \in Locks
  BY <1>3 DEF Locks
<1>6. holder'[<<me[w].gid, me[w].want>>] = w
  BY <1>5 DEF LockValue, Lock!Acquire, Key, Typed
<1>7. \E k \in Locks : Lock!Acquire(k, w)
  BY <1>5 DEF LockValue, Key
<1>4. Turn(w)
  <2> DEFINE p == [me[w] EXCEPT !.pc = "check"]
  <2>1. p \in Process /\ p.pc = "check" /\ p.gid = me[w].gid
    BY <1>1 DEF Process, Places
  <2>2. p.task = me[w].task /\ p.want = me[w].want /\ p.listed = me[w].listed /\ p.cache = me[w].cache
    BY <1>1 DEF Process
  <2> HIDE DEF p
  <2> QED BY <1>1, <1>2, <1>3, <1>6, <1>7, <2>1, <2>2, GoesOn DEF p, Goto, LockValue
<1> QED BY <1>4

LEMMA CheckValueTurns ==
    ASSUME Typed, NEW w \in Workers, CheckValue(w)
    PROVE  Turn(w)
<1>1. me[w] \in Process /\ InPlace(w) /\ me[w].pc = "check"
  BY DEF Typed, CheckValue, At
<1>2. groupIds' = groupIds
  BY DEF CheckValue, shop
<1>3. me[w].task = "ensure" /\ me[w].gid # 0 /\ me[w].gid \in GroupIds /\ me[w].want \in Values
  BY <1>1 DEF InPlace, Process
<1>7. holder[<<me[w].gid, me[w].want>>] = w
  BY <1>1 DEF InPlace, Key
<1>4. CASE Goto(w, "find") /\ UNCHANGED holder
  <2> DEFINE p == [me[w] EXCEPT !.pc = "find"]
  <2>1. p \in Process /\ p.pc = "find" /\ p.gid = me[w].gid
    BY <1>1 DEF Process, Places
  <2>2. p.task = me[w].task /\ p.want = me[w].want /\ p.listed = me[w].listed /\ p.cache = me[w].cache
    BY <1>1 DEF Process
  <2> HIDE DEF p
  <2> QED BY <1>1, <1>2, <1>3, <1>4, <1>7, <2>1, <2>2, GoesOn DEF p, Goto
<1>5. CASE Ensured(w) /\ Lock!Unwind(w)
  BY <1>2, <1>5, EnsuredTurns
<1> QED BY <1>4, <1>5 DEF CheckValue

LEMMA FindRemoteTurns ==
    ASSUME Typed, NEW w \in Workers, FindRemote(w)
    PROVE  Turn(w)
<1>1. me[w] \in Process /\ InPlace(w) /\ me[w].pc = "find"
  BY DEF Typed, FindRemote, At
<1>2. groupIds' = groupIds /\ UNCHANGED holder
  BY DEF FindRemote, shop
<1>3. me[w].task = "ensure" /\ me[w].gid # 0 /\ me[w].gid \in GroupIds /\ me[w].want \in Values
  BY <1>1 DEF InPlace, Process
<1>7. holder[<<me[w].gid, me[w].want>>] = w
  BY <1>1 DEF InPlace, Key
<1>5. Named(me[w].gid, me[w].want) \subseteq ValueIds
  BY DEF Named, In, Typed, Tables, Value
<1>4. ASSUME NEW i \in Named(me[w].gid, me[w].want),
             Becomes(w, [me[w] EXCEPT !.pc = "store", !.val = i])
      PROVE  Turn(w)
  <2> DEFINE p == [me[w] EXCEPT !.pc = "store", !.val = i]
  <2>1. p \in Process /\ p.pc = "store" /\ p.val \in ValueIds /\ p.gid = me[w].gid
    BY <1>1, <1>5 DEF Process, Places
  <2>2. p.task = me[w].task /\ p.want = me[w].want /\ p.listed = me[w].listed /\ p.cache = me[w].cache
    BY <1>1 DEF Process
  <2> HIDE DEF p
  <2> QED BY <1>1, <1>2, <1>3, <1>4, <1>7, <2>1, <2>2, GoesOn DEF p
<1>6. CASE Goto(w, "twins")
  <2> DEFINE p == [me[w] EXCEPT !.pc = "twins"]
  <2>1. p \in Process /\ p.pc = "twins" /\ p.gid = me[w].gid
    BY <1>1 DEF Process, Places
  <2>2. p.task = me[w].task /\ p.want = me[w].want /\ p.listed = me[w].listed /\ p.cache = me[w].cache
    BY <1>1 DEF Process
  <2> HIDE DEF p
  <2> QED BY <1>1, <1>2, <1>3, <1>6, <1>7, <2>1, <2>2, GoesOn DEF p, Goto
<1> QED BY <1>4, <1>6 DEF FindRemote

LEMMA FindTwinsTurns ==
    ASSUME Typed, NEW w \in Workers, FindTwins(w)
    PROVE  Turn(w)
<1>1. me[w] \in Process /\ InPlace(w) /\ me[w].pc = "twins"
  BY DEF Typed, FindTwins, At
<1>2. groupIds' = groupIds /\ UNCHANGED holder
  BY DEF FindTwins, shop
<1>3. me[w].task = "ensure" /\ me[w].gid # 0 /\ me[w].gid \in GroupIds /\ me[w].want \in Values
  BY <1>1 DEF InPlace, Process
<1>7. holder[<<me[w].gid, me[w].want>>] = w
  BY <1>1 DEF InPlace, Key
<1>4. CASE Goto(w, "create")
  <2> DEFINE p == [me[w] EXCEPT !.pc = "create"]
  <2>1. p \in Process /\ p.pc = "create" /\ p.gid = me[w].gid
    BY <1>1 DEF Process, Places
  <2>2. p.task = me[w].task /\ p.want = me[w].want /\ p.listed = me[w].listed /\ p.cache = me[w].cache
    BY <1>1 DEF Process
  <2> HIDE DEF p
  <2> QED BY <1>1, <1>2, <1>3, <1>4, <1>7, <2>1, <2>2, GoesOn DEF p, Goto
<1> DEFINE list == Listing(w)
           twins == {g.id : g \in {h \in list : h.id # row.id /\ h.name = row.name}}
           p == [me[w] EXCEPT !.pc = "twin", !.listed = TRUE, !.cache = list, !.orphans = twins]
<1>5. list \subseteq Group /\ UniqueIds(list) /\ \A g \in list : g.id <= groupIds
  BY ListingTyped
<1>6. CASE Becomes(w, p)
  <2>1. twins \subseteq GroupIds
    BY <1>5 DEF Group
  <2> HIDE DEF list, twins
  <2>2. p \in Process
    BY <1>1, <1>5, <2>1 DEF Process, Places
  <2>3. /\ p.task = me[w].task /\ p.want = me[w].want /\ p.gid = me[w].gid /\ p.pc = "twin"
        /\ p.listed /\ p.cache = list
    BY <1>1 DEF Process
  <2>4. me'[w] = p /\ (InPlace(w)' => Turn(w))
    BY <1>2, <1>6, <2>2, BecomesTurns
  <2> HIDE DEF p
  <2> QED BY <1>2, <1>3, <1>5, <1>7, <2>3, <2>4 DEF InPlace, Key
<1> QED BY <1>4, <1>6 DEF FindTwins

LEMMA FindInTwinTurns ==
    ASSUME Typed, NEW w \in Workers, FindInTwin(w)
    PROVE  Turn(w)
<1>1. me[w] \in Process /\ InPlace(w) /\ me[w].pc = "twin"
  BY DEF Typed, FindInTwin, At
<1>2. groupIds' = groupIds /\ UNCHANGED holder
  BY DEF FindInTwin, shop
<1>3. me[w].task = "ensure" /\ me[w].gid # 0 /\ me[w].gid \in GroupIds /\ me[w].want \in Values
  BY <1>1 DEF InPlace, Process
<1>7. holder[<<me[w].gid, me[w].want>>] = w
  BY <1>1 DEF InPlace, Key
<1>4. CASE Goto(w, "create")
  <2> DEFINE p == [me[w] EXCEPT !.pc = "create"]
  <2>1. p \in Process /\ p.pc = "create" /\ p.gid = me[w].gid
    BY <1>1 DEF Process, Places
  <2>2. p.task = me[w].task /\ p.want = me[w].want /\ p.listed = me[w].listed /\ p.cache = me[w].cache
    BY <1>1 DEF Process
  <2> HIDE DEF p
  <2> QED BY <1>1, <1>2, <1>3, <1>4, <1>7, <2>1, <2>2, GoesOn DEF p, Goto
<1>5. ASSUME NEW o, Becomes(w, [me[w] EXCEPT !.orphans = @ \ {o}])
      PROVE  Turn(w)
  <2> DEFINE p == [me[w] EXCEPT !.orphans = @ \ {o}]
  <2>1. p \in Process /\ p.pc = "twin" /\ p.gid = me[w].gid
    BY <1>1 DEF Process, Places
  <2>2. p.task = me[w].task /\ p.want = me[w].want /\ p.listed = me[w].listed /\ p.cache = me[w].cache
    BY <1>1 DEF Process
  <2> HIDE DEF p
  <2> QED BY <1>1, <1>2, <1>3, <1>5, <1>7, <2>1, <2>2, GoesOn DEF p
<1>6. \A o : Named(o, me[w].want) \subseteq ValueIds
  BY DEF Named, In, Typed, Tables, Value
<1>8. ASSUME NEW o, NEW i \in Named(o, me[w].want),
             Becomes(w, [me[w] EXCEPT !.pc = "move", !.val = i, !.orphans = {}])
      PROVE  Turn(w)
  <2> DEFINE p == [me[w] EXCEPT !.pc = "move", !.val = i, !.orphans = {}]
  <2>1. p \in Process /\ p.pc = "move" /\ p.val \in ValueIds /\ p.gid = me[w].gid
    BY <1>1, <1>6 DEF Process, Places
  <2>2. p.task = me[w].task /\ p.want = me[w].want /\ p.listed = me[w].listed /\ p.cache = me[w].cache
    BY <1>1 DEF Process
  <2> HIDE DEF p
  <2> QED BY <1>1, <1>2, <1>3, <1>7, <1>8, <2>1, <2>2, GoesOn DEF p
<1> QED BY <1>4, <1>5, <1>8 DEF FindInTwin

LEMMA MoveFoundTurns ==
    ASSUME Typed, NEW w \in Workers, MoveFound(w)
    PROVE  Turn(w)
<1>1. me[w] \in Process /\ InPlace(w) /\ me[w].pc = "move"
  BY DEF Typed, MoveFound, At
<1>2. groupIds' = groupIds /\ UNCHANGED holder
  BY DEF MoveFound
<1>3. me[w].task = "ensure" /\ me[w].gid # 0 /\ me[w].gid \in GroupIds /\ me[w].want \in Values
  BY <1>1 DEF InPlace, Process
<1>7. holder[<<me[w].gid, me[w].want>>] = w
  BY <1>1 DEF InPlace, Key
<1>6. me[w].val \in ValueIds
  BY <1>1 DEF InPlace
<1>4. CASE Becomes(w, [me[w] EXCEPT !.pc = "store", !.listed = FALSE, !.cache = {}])
  <2> DEFINE p == [me[w] EXCEPT !.pc = "store", !.listed = FALSE, !.cache = {}]
  <2>1. p \in Process /\ p.pc = "store" /\ p.val = me[w].val /\ p.gid = me[w].gid
    BY <1>1 DEF Process, Places
  <2>2. p.task = me[w].task /\ p.want = me[w].want /\ ~p.listed /\ p.cache = {}
    BY <1>1 DEF Process
  <2> HIDE DEF p
  <2> QED BY <1>1, <1>2, <1>3, <1>4, <1>6, <1>7, <2>1, <2>2, GoesOn DEF p
<1>5. CASE Becomes(w, [me[w] EXCEPT !.pc = "create", !.val = 0])
  <2> DEFINE p == [me[w] EXCEPT !.pc = "create", !.val = 0]
  <2>1. p \in Process /\ p.pc = "create" /\ p.gid = me[w].gid
    BY <1>1 DEF Process, Places
  <2>2. p.task = me[w].task /\ p.want = me[w].want /\ p.listed = me[w].listed /\ p.cache = me[w].cache
    BY <1>1 DEF Process
  <2> HIDE DEF p
  <2> QED BY <1>1, <1>2, <1>3, <1>5, <1>7, <2>1, <2>2, GoesOn DEF p
<1> QED BY <1>4, <1>5 DEF MoveFound

LEMMA CreateValueTurns ==
    ASSUME Typed, NEW w \in Workers, CreateValue(w)
    PROVE  Turn(w)
<1>1. me[w] \in Process /\ InPlace(w) /\ me[w].pc = "create"
  BY DEF Typed, CreateValue, At
<1>2. groupIds' = groupIds
  BY DEF CreateValue
<1>3. me[w].task = "ensure" /\ me[w].gid # 0 /\ me[w].gid \in GroupIds /\ me[w].want \in Values
  BY <1>1 DEF InPlace, Process
<1>7. holder[<<me[w].gid, me[w].want>>] = w
  BY <1>1 DEF InPlace, Key
<1>4. CASE valueIds' \in ValueIds /\ UNCHANGED holder
         /\ Becomes(w, [me[w] EXCEPT !.pc = "store", !.val = valueIds'])
  <2> DEFINE p == [me[w] EXCEPT !.pc = "store", !.val = valueIds']
  <2>1. p \in Process /\ p.pc = "store" /\ p.val = valueIds' /\ p.gid = me[w].gid
    BY <1>1, <1>4 DEF Process, Places
  <2>2. p.task = me[w].task /\ p.want = me[w].want /\ p.listed = me[w].listed /\ p.cache = me[w].cache
    BY <1>1 DEF Process
  <2> HIDE DEF p
  <2> QED BY <1>1, <1>2, <1>3, <1>4, <1>7, <2>1, <2>2, GoesOn DEF p
<1>5. CASE Failed(w)
  BY <1>2, <1>5, FailsTurns
<1>6. valueIds < MaxValues /\ valueIds' = valueIds + 1 => valueIds' \in ValueIds
  BY AttributeAssumption DEF Typed, Tables, ValueIds
<1> QED BY <1>4, <1>5, <1>6 DEF CreateValue

LEMMA StoreTurns ==
    ASSUME Typed, NEW w \in Workers, Store(w)
    PROVE  Turn(w)
<1>2. groupIds' = groupIds
  BY DEF Store, shop
<1> QED BY <1>2, EnsuredTurns DEF Store

LEMMA CleanLocalTurns ==
    ASSUME Typed, NEW w \in Workers, CleanLocal(w)
    PROVE  Turn(w)
<1>1. me[w] \in Process /\ InPlace(w) /\ me[w].pc = "clean"
  BY DEF Typed, CleanLocal, At
<1>2. groupIds' = groupIds /\ UNCHANGED holder
  BY DEF CleanLocal, shop
<1>3. me[w].task = "clean"
  BY <1>1 DEF InPlace
<1>4. Turn(w)
  <2> DEFINE p == [me[w] EXCEPT !.pc = "clean all"]
  <2>1. p \in Process /\ p.pc = "clean all"
    BY <1>1 DEF Process, Places
  <2>2. p.task = me[w].task /\ p.want = me[w].want /\ p.listed = me[w].listed /\ p.cache = me[w].cache
    BY <1>1 DEF Process
  <2> HIDE DEF p
  <2> QED BY <1>1, <1>2, <1>3, <2>1, <2>2, GoesOn DEF p, Goto, CleanLocal
<1> QED BY <1>4

LEMMA CleanValueTurns ==
    ASSUME Typed, NEW w \in Workers, CleanValue(w)
    PROVE  Turn(w)
<1>1. me[w] \in Process /\ InPlace(w) /\ me[w].pc = "clean all"
  BY DEF Typed, CleanValue, At
<1>2. groupIds' = groupIds /\ UNCHANGED holder
  BY DEF CleanValue
<1>3. CASE Becomes(w, Idle)
  BY <1>2, <1>3, BecomesIdle
<1>4. ASSUME NEW v \in me[w].todo, Becomes(w, Done(w, v))
      PROVE  Turn(w)
  BY <1>1, <1>2, <1>4, DoneTurns
<1> QED BY <1>3, <1>4 DEF CleanValue

LEMMA ReconcileListTurns ==
    ASSUME Typed, NEW w \in Workers, ReconcileList(w)
    PROVE  Turn(w)
<1>1. me[w] \in Process /\ InPlace(w) /\ me[w].pc = "reconcile"
  BY DEF Typed, ReconcileList, At
<1>2. groupIds' = groupIds /\ UNCHANGED holder
  BY DEF ReconcileList, shop
<1>3. me[w].task = "reconcile"
  BY <1>1 DEF InPlace
<1>5. In(me[w].gid) \subseteq Value
  BY DEF In, Typed, Tables
<1>4. Turn(w)
  <2> DEFINE p == [me[w] EXCEPT !.pc = "apply", !.todo = In(me[w].gid)]
  <2>1. p \in Process /\ p.pc = "apply"
    BY <1>1, <1>5 DEF Process, Places
  <2>2. p.task = me[w].task /\ p.want = me[w].want /\ p.listed = me[w].listed /\ p.cache = me[w].cache
    BY <1>1 DEF Process
  <2> HIDE DEF p
  <2> QED BY <1>1, <1>2, <1>3, <2>1, <2>2, GoesOn DEF p, ReconcileList
<1> QED BY <1>4

LEMMA IdlersTurn ==
    ASSUME Typed, NEW w \in Workers,
           EndBatch(w) \/ ReconcileApply(w) \/ Stop(w) \/ Fails(w) \/ LockTimesOut(w)
    PROVE  Turn(w)
<1>1. CASE EndBatch(w) \/ ReconcileApply(w)
  BY <1>1, BecomesIdle DEF EndBatch, ReconcileApply, shop
<1>2. CASE Stop(w)
  BY <1>2, BecomesIdle DEF Stop, shop
<1>3. CASE Fails(w) \/ LockTimesOut(w)
  BY <1>3, FailsTurns DEF Fails, LockTimesOut, shop
<1> QED BY <1>1, <1>2, <1>3

\* The commands.
LEMMA CommandTurns ==
    ASSUME Typed, NEW w \in Workers, NEW p \in Process, Command(w, p),
           ~p.listed, p.cache = {},
           \/ p.task = "import" /\ p.pc = "remap" /\ p.gid # 0
           \/ p.task = "merge" /\ p.pc = "merge" /\ p.gid # 0
           \/ p.task = "clean" /\ p.pc = "clean" /\ p.want \in Values /\ p.val \in ValueIds
           \/ p.task = "reconcile" /\ p.pc = "reconcile"
    PROVE  Turn(w) /\ me'[w] = p
<1>1. me'[w] = p /\ (InPlace(w)' => Turn(w))
  BY BecomesTurns DEF Command
<1>2. InPlace(w)'
  BY <1>1 DEF InPlace, UniqueIds
<1> QED BY <1>1, <1>2

LEMMA MergeCommandTurns ==
    ASSUME Typed, NEW w \in Workers, MergeCommand(w)
    PROVE  Turn(w)
<1>1. PICK ids \in SUBSET {g.id : g \in groups} : \E kept \in ids :
        Command(w, [Idle EXCEPT !.task = "merge", !.pc = "merge", !.gid = kept, !.orphans = ids \ {kept}])
  BY DEF MergeCommand
<1>2. PICK kept \in ids :
        Command(w, [Idle EXCEPT !.task = "merge", !.pc = "merge", !.gid = kept, !.orphans = ids \ {kept}])
  BY <1>1
<1> DEFINE p == [Idle EXCEPT !.task = "merge", !.pc = "merge", !.gid = kept, !.orphans = ids \ {kept}]
<1>3. ids \subseteq GroupIds /\ kept # 0
  BY IdTypes DEF Typed, Tables, Group
<1>4. p \in Process
  BY <1>3, IdleTyped DEF Process, Places
<1>5. p.task = "merge" /\ p.pc = "merge" /\ p.gid = kept /\ ~p.listed /\ p.cache = {}
  BY DEF Idle
<1> HIDE DEF p
<1> QED BY <1>2, <1>3, <1>4, <1>5, CommandTurns DEF p

LEMMA CleanCommandTurns ==
    ASSUME Typed, NEW w \in Workers, CleanCommand(w)
    PROVE  Turn(w)
<1>1. PICK x \in Values : \E kept \in Named(row.id, x) :
        Command(w, [Idle EXCEPT !.task = "clean", !.pc = "clean", !.want = x, !.val = kept,
                        !.todo = {u \in In(row.id) : u.id \in Named(row.id, x) \ {kept}}])
  BY DEF CleanCommand
<1>2. PICK kept \in Named(row.id, x) :
        Command(w, [Idle EXCEPT !.task = "clean", !.pc = "clean", !.want = x, !.val = kept,
                        !.todo = {u \in In(row.id) : u.id \in Named(row.id, x) \ {kept}}])
  BY <1>1
<1> DEFINE left == {u \in In(row.id) : u.id \in Named(row.id, x) \ {kept}}
           p == [Idle EXCEPT !.task = "clean", !.pc = "clean", !.want = x, !.val = kept, !.todo = left]
<1>3. kept \in ValueIds /\ left \subseteq Value
  BY DEF Typed, Tables, Value, Named, In
<1>4. Command(w, p)
  BY <1>2
<1> HIDE DEF left
<1>5. p \in Process
  BY <1>3, IdleTyped DEF Process, Places
<1>6. /\ p.task = "clean" /\ p.pc = "clean" /\ p.want = x /\ p.val = kept
      /\ ~p.listed /\ p.cache = {}
  BY DEF Idle
<1> HIDE DEF p
<1> QED BY <1>3, <1>4, <1>5, <1>6, CommandTurns

LEMMA ImportCommandTurns ==
    ASSUME Typed, NEW w \in Workers, ImportCommand(w)
    PROVE  Turn(w)
<1>1. PICK g \in groups :
        Command(w, [Idle EXCEPT !.task = "import", !.pc = "remap",
                                !.gid = g.id, !.name = psid, !.val = row.id])
  BY DEF ImportCommand
<1> DEFINE p == [Idle EXCEPT !.task = "import", !.pc = "remap",
                             !.gid = g.id, !.name = psid, !.val = row.id]
<1>2. g.id \in GroupIds /\ g.id # 0
  BY IdTypes DEF Typed, Tables, Group
<1>3. psid \in GroupNames /\ row.id \in {0} \cup GroupIds
  BY AttributeAssumption DEF Typed, Tables, Rest, GroupNames
<1>4. p \in Process
  BY <1>2, <1>3, IdleTyped DEF Process, Places
<1>5. p.task = "import" /\ p.pc = "remap" /\ p.gid = g.id /\ ~p.listed /\ p.cache = {}
  BY DEF Idle
<1> HIDE DEF p
<1> QED BY <1>1, <1>2, <1>4, <1>5, CommandTurns DEF p

LEMMA ReconcileCommandTurns ==
    ASSUME Typed, NEW w \in Workers, ReconcileCommand(w)
    PROVE  Turn(w)
<1>1. PICK match \in {0} \cup GroupIds :
        Command(w, [Idle EXCEPT !.task = "reconcile", !.pc = "reconcile", !.gid = match])
  BY DEF ReconcileCommand
<1> DEFINE p == [Idle EXCEPT !.task = "reconcile", !.pc = "reconcile", !.gid = match]
<1>2. p \in Process
  BY IdleTyped DEF Process, Places
<1>3. p.task = "reconcile" /\ p.pc = "reconcile" /\ ~p.listed /\ p.cache = {}
  BY DEF Idle
<1> HIDE DEF p
<1> QED BY <1>1, <1>2, <1>3, CommandTurns DEF p

-----------------------------------------------------------------------------
\* The tables and the shop.
LEMMA MovedValues ==
    ASSUME Typed, NEW i, NEW g \in GroupIds, values' = Moved(i, g)
    PROVE  /\ values' \subseteq Value /\ UniqueIds(values') /\ \A v \in values' : v.id <= valueIds
           /\ \A u \in values : \E x \in values' : x.id = u.id /\ x.name = u.name
           /\ \A x \in values' : \/ x \in values
                                 \/ x.id = i /\ x.group = g /\ \E u \in values : u.id = i /\ x.name = u.name
           /\ \A x \in values' : x.id = i => x.group = g
<1> DEFINE at(u) == IF u.id = i THEN [u EXCEPT !.group = g] ELSE u
<1>1. values' = {at(u) : u \in values}
  BY DEF Moved
<1>2. ASSUME NEW u \in values
      PROVE  at(u) \in Value /\ at(u).id = u.id /\ at(u).name = u.name
             /\ (u.id = i => at(u).group = g) /\ (u.id # i => at(u) = u) /\ u.id <= valueIds
  BY DEF Typed, Tables, Value
<1> HIDE DEF at
<1>3. values' \subseteq Value /\ \A v \in values' : v.id <= valueIds
  BY <1>1, <1>2
<1>4. UniqueIds(values')
  BY <1>1, <1>2 DEF UniqueIds, Typed, Tables
<1>5. \A u \in values : \E x \in values' : x.id = u.id /\ x.name = u.name
  BY <1>1, <1>2
<1>6. \A x \in values' : \/ x \in values
                         \/ x.id = i /\ x.group = g /\ \E u \in values : u.id = i /\ x.name = u.name
  BY <1>1, <1>2
<1>7. \A x \in values' : x.id = i => x.group = g
  BY <1>1, <1>2
<1> QED BY <1>3, <1>4, <1>5, <1>6, <1>7

LEMMA FewerValues ==
    ASSUME Typed, values' \subseteq values, UNCHANGED <<row, local, groups, groupIds, valueIds>>
    PROVE  Tables'
BY DEF Typed, Tables, UniqueIds

LEMMA MovedTables ==
    ASSUME Typed, NEW i, NEW g \in GroupIds, values' = Moved(i, g),
           UNCHANGED <<row, local, groups, groupIds, valueIds>>
    PROVE  Tables'
BY MovedValues DEF Typed, Tables

LEMMA GidTyped ==
    ASSUME Typed, NEW w \in Workers,
           me[w].pc \in {"remap", "adopt", "merge", "compare", "each", "forget", "drop group",
                         "value", "lock", "check", "find", "twins", "twin", "move", "create", "store"}
    PROVE  me[w].gid \in GroupIds
BY DEF Typed, InPlace, Process

LEMMA GroupTables ==
    ASSUME Typed, NEW w \in Workers, Remap(w) \/ NewGroup(w) \/ Adopt(w)
    PROVE  Tables'
<1>1. me[w] \in Process
  BY DEF Typed
<1>2. CASE Remap(w)
  <2>1. me[w].gid \in GroupIds
    BY <1>2, GidTyped DEF Remap, At
  <2>2. row' \in [id : {0} \cup GroupIds, name : GroupNames]
    BY <1>1, <1>2, <2>1 DEF Remap, Typed, Tables, Process
  <2>3. local' \in [Values -> {0} \cup ValueIds]
    BY <1>2 DEF Remap, Typed, Tables
  <2> QED BY <1>2, <2>2, <2>3 DEF Remap, Typed, Tables, shop
<1>3. CASE NewGroup(w)
  <2> DEFINE new == [id |-> groupIds', name |-> me[w].name]
  <2>1. groupIds' = groupIds + 1 /\ groupIds' \in GroupIds /\ groups' = groups \cup {new}
    BY <1>3, NewGroupTurns DEF NewGroup
  <2>2. new \in Group
    BY <1>1, <2>1 DEF Group, Process
  <2>3. groupIds \in Nat /\ \A g \in groups : g.id \in Nat /\ g.id <= groupIds
    BY IdTypes DEF Typed, Tables, Group
  <2>4. \A g \in groups : g.id # groupIds' /\ g.id <= groupIds'
    BY <2>1, <2>3
  <2>5. new.id = groupIds' /\ groupIds' <= groupIds' /\ groups \subseteq Group
    BY <2>1, <2>3 DEF Typed, Tables
  <2> HIDE DEF new
  <2>6. groups' \subseteq Group /\ \A g \in groups' : g.id <= groupIds'
    BY <2>1, <2>2, <2>4, <2>5
  <2>7. UniqueIds(groups')
    BY <2>1, <2>4, <2>5 DEF UniqueIds, Typed, Tables
  <2> QED BY <1>3, <2>1, <2>6, <2>7 DEF NewGroup, Typed, Tables
<1>4. CASE Adopt(w)
  <2>1. me[w].gid \in GroupIds
    BY <1>4, GidTyped DEF Adopt, At
  <2>2. row' \in [id : {0} \cup GroupIds, name : GroupNames]
    BY <1>1, <1>4, <2>1 DEF Adopt, Process
  <2> QED BY <1>4, <2>2 DEF Adopt, Typed, Tables, shop
<1> QED BY <1>2, <1>3, <1>4

LEMMA MergeTables ==
    ASSUME Typed, NEW w \in Workers, DeleteTwin(w) \/ ForgetTwin(w) \/ MoveTwin(w) \/ DropGroup(w)
    PROVE  Tables'
<1>1. CASE DeleteTwin(w)
  BY <1>1, FewerValues DEF DeleteTwin
<1>2. CASE ForgetTwin(w)
  BY <1>2 DEF ForgetTwin, Typed, Tables, shop
<1>3. CASE MoveTwin(w)
  <2>1. me[w].gid \in GroupIds
    BY <1>3, GidTyped DEF MoveTwin, At
  <2>2. (\E v \in me[w].todo : values' = Moved(v.id, me[w].gid)) \/ values' = values
    BY <1>3 DEF MoveTwin
  <2> QED BY <1>3, <2>1, <2>2, FewerValues, MovedTables DEF MoveTwin
<1>4. CASE DropGroup(w)
  BY <1>4 DEF DropGroup, Typed, Tables, UniqueIds
<1> QED BY <1>1, <1>2, <1>3, <1>4

LEMMA ValueTables ==
    ASSUME Typed, NEW w \in Workers, MoveFound(w) \/ CreateValue(w) \/ Store(w)
    PROVE  Tables'
<1>1. CASE MoveFound(w)
  <2>1. me[w].gid \in GroupIds
    BY <1>1, GidTyped DEF MoveFound, At
  <2>2. values' = Moved(me[w].val, me[w].gid) \/ values' = values
    BY <1>1 DEF MoveFound
  <2> QED BY <1>1, <2>1, <2>2, FewerValues, MovedTables DEF MoveFound
<1>2. CASE CreateValue(w)
  <2>1. CASE UNCHANGED <<values, valueIds>>
    BY <1>2, <2>1 DEF CreateValue, Typed, Tables
  <2> DEFINE new == [id |-> valueIds', group |-> me[w].gid, name |-> me[w].want]
  <2>2. CASE valueIds < MaxValues /\ valueIds' = valueIds + 1 /\ values' = values \cup {new}
    <3>1. valueIds \in ValueIds /\ valueIds' \in ValueIds
      BY <2>2, AttributeAssumption DEF ValueIds, Typed, Tables
    <3>2. me[w].gid \in GroupIds /\ me[w].want \in Values
      BY <1>2, GidTyped DEF CreateValue, At, Typed, InPlace
    <3>3. new \in Value /\ new.id = valueIds'
      BY <3>1, <3>2 DEF Value
    <3>4. valueIds \in Nat /\ \A v \in values : v.id \in Nat /\ v.id <= valueIds
      BY IdTypes DEF Typed, Tables, Value
    <3>5. \A v \in values : v.id # valueIds' /\ v.id <= valueIds'
      BY <2>2, <3>4
    <3>6. valueIds' <= valueIds' /\ values \subseteq Value
      BY <2>2, <3>4 DEF Typed, Tables
    <3>7. values' = values \cup {new}
      BY <2>2
    <3> HIDE DEF new
    <3>8. values' \subseteq Value /\ UniqueIds(values') /\ \A v \in values' : v.id <= valueIds'
      BY <3>3, <3>5, <3>6, <3>7 DEF UniqueIds, Typed, Tables
    <3> QED BY <1>2, <3>1, <3>8 DEF CreateValue, Typed, Tables
  <2> QED BY <1>2, <2>1, <2>2 DEF CreateValue
<1>3. CASE Store(w)
  <2>1. me[w].val \in ValueIds
    BY <1>3 DEF Store, At, Typed, InPlace
  <2> QED BY <1>3, <2>1 DEF Store, Typed, Tables, shop
<1> QED BY <1>1, <1>2, <1>3

LEMMA CommandTables ==
    ASSUME Typed, NEW w \in Workers, CleanLocal(w) \/ CleanValue(w) \/ ReconcileApply(w)
    PROVE  Tables'
<1>1. CASE CleanLocal(w)
  <2>1. me[w].val \in ValueIds
    BY <1>1 DEF CleanLocal, At, Typed, InPlace
  <2>2. local' \in [Values -> {0} \cup ValueIds]
    BY <1>1, <2>1 DEF CleanLocal, Typed, Tables
  <2> QED BY <1>1, <2>2 DEF CleanLocal, Typed, Tables, shop
<1>2. CASE CleanValue(w)
  BY <1>2, FewerValues DEF CleanValue
<1>3. CASE ReconcileApply(w)
  <2>1. me[w].gid \in {0} \cup GroupIds
    BY DEF Typed, Process
  <2>2. 0 \in GroupNames
    BY AttributeAssumption DEF GroupNames
  <2>3. row' \in [id : {0} \cup GroupIds, name : GroupNames]
    BY <1>3, <2>1, <2>2 DEF ReconcileApply, Typed, Tables
  <2>4. local' \in [Values -> {0} \cup ValueIds]
    BY <1>3 DEF ReconcileApply
  <2> QED BY <1>3, <2>3, <2>4 DEF ReconcileApply, Typed, Tables, shop
<1> QED BY <1>1, <1>2, <1>3

LEMMA NobodyTurns ==
    ASSUME Typed, UNCHANGED <<holder, me, raced, groupIds>>
    PROVE  (Racing' => raced') /\ \A w \in Workers : InPlace(w)'
<1>1. Racing' => raced'
  BY DEF Typed, Racing, Merging
<1>2. ASSUME NEW w \in Workers
      PROVE  InPlace(w)'
  <2>1. InPlace(w) /\ me' = me /\ holder' = holder /\ groupIds' = groupIds
    BY DEF Typed
  <2> QED BY <2>1 DEF InPlace, Key
<1> QED BY <1>1, <1>2

LEMMA OutsideTyped ==
    ASSUME Typed, NewProduct \/ Rename
    PROVE  Typed'
<1>1. Racing' => raced'
  BY NobodyTurns DEF NewProduct, Rename, shop
<1>2. \A w \in Workers : InPlace(w)'
  BY NobodyTurns DEF NewProduct, Rename, shop
<1>3. events \in 0..MaxEvents /\ (Event => events' \in 0..MaxEvents)
  BY AttributeAssumption DEF Event, Typed, Rest
<1>4. CASE NewProduct
  BY <1>1, <1>2, <1>3, <1>4, AttributeAssumption DEF NewProduct, Typed, Tables, Rest, shop
<1>5. CASE Rename
  <2>1. PICK g \in groups : groups' = (groups \ {g}) \cup {[g EXCEPT !.name = Preferred]}
    BY <1>5 DEF Rename
  <2>2. Preferred \in GroupNames
    BY AttributeAssumption DEF Preferred, GroupNames, Typed, Rest
  <2>3. [g EXCEPT !.name = Preferred] \in Group /\ [g EXCEPT !.name = Preferred].id = g.id
    BY <2>2 DEF Typed, Tables, Group
  <2>4. groups' \subseteq Group /\ UniqueIds(groups') /\ \A h \in groups' : h.id <= groupIds
    BY <2>1, <2>3 DEF Typed, Tables, UniqueIds
  <2> QED BY <1>1, <1>2, <1>3, <1>5, <2>4 DEF Rename, Typed, Tables, Rest
<1> QED BY <1>4, <1>5

LEMMA InitTyped == Init => Typed
<1> SUFFICES ASSUME Init PROVE Typed
  OBVIOUS
<1>1. 0 \in GroupNames /\ 1 \in GroupNames /\ 1 \in 1..MaxPsid /\ 0 \in 0..MaxEvents
  BY AttributeAssumption DEF GroupNames
<1>2. {1, 2} \subseteq GroupIds /\ {1, 2} \subseteq ValueIds
  BY AttributeAssumption DEF GroupIds, ValueIds
<1>3. groups \subseteq Group /\ UniqueIds(groups) /\ \A g \in groups : g.id \in {1, 2}
  <2>1. PICK n \in 0..2, f \in [1..2 -> {0, 1}] : groups = {[id |-> i, name |-> f[i]] : i \in 1..n}
    BY DEF Init
  <2>2. \A i \in 1..n : i \in {1, 2} /\ f[i] \in {0, 1}
    BY <2>1
  <2> QED BY <1>1, <1>2, <2>1, <2>2 DEF Group, UniqueIds
<1>4. values \subseteq Value /\ UniqueIds(values) /\ \A v \in values : v.id \in {1, 2}
  <2>1. PICK gs \in SUBSET groups, f \in [1..2 -> Values] :
            values = {[id |-> g.id, group |-> g.id, name |-> f[g.id]] : g \in gs}
    BY DEF Init
  <2>2. \A g \in gs : g.id \in 1..2 /\ f[g.id] \in Values /\ g.id \in GroupIds /\ g.id \in ValueIds
    BY <1>2, <1>3, <2>1
  <2>3. values \subseteq Value /\ UniqueIds(values)
    BY <2>1, <2>2 DEF Value, UniqueIds
  <2>4. \A v \in values : v.id \in {1, 2}
    BY <2>1, <1>3
  <2> QED BY <2>3, <2>4
<1>5. Tables
  <2>1. groupIds = 2 /\ valueIds = 2 /\ row = [id |-> 0, name |-> 0] /\ local = [v \in Values |-> 0]
    BY DEF Init
  <2> QED BY <1>1, <1>2, <1>3, <1>4, <2>1 DEF Tables
<1>6. Rest
  BY <1>1 DEF Init, Rest
<1>7. holder \in [Locks -> Workers \cup {Free, Orphan}]
  BY DEF Init, Lock!Init, Locks
<1>8. me = [w \in Workers |-> Idle] /\ raced = FALSE
  BY DEF Init
<1>9. me \in [Workers -> Process] /\ ~Racing
  BY <1>8, IdleTyped DEF Racing, Merging, Idle
<1>10. \A w \in Workers : InPlace(w)
  BY <1>8 DEF InPlace, Idle, UniqueIds
<1> QED BY <1>5, <1>6, <1>7, <1>8, <1>9, <1>10 DEF Typed

\* What a step of a process leaves alone.
LEMMA RestKept ==
    ASSUME Typed, icg' = icg, psid' = psid, mishaps' \subseteq mishaps \cup Mishaps,
           Event \/ UNCHANGED events
    PROVE  Rest'
BY AttributeAssumption DEF Typed, Rest, Event

LEMMA RestsKept ==
    ASSUME Typed, NEW w \in Workers,
           \/ Step(w) \/ Operator(w) \/ Fails(w) \/ MergeFails(w) \/ LockTimesOut(w) \/ Stop(w)
           \/ EndBatch(w) \/ \E v \in Values : Ensure(w, v)
    PROVE  Rest'
<1>1. CASE Group_(w)
  BY <1>1, RestKept DEF Group_, FindGroup, Remap, SearchGroup, NewGroup, Adopt
<1>2. CASE Merge_(w)
  BY <1>2, RestKept DEF Merge_, MergeDone, ListOrphan, Compare, DeleteTwin, ForgetTwin, MoveTwin,
     Remaining, DropGroup, Note, NoEvent, Mishaps
<1>3. CASE Value_(w)
  BY <1>3, RestKept DEF Value_, FindValue, LockValue, CheckValue, FindRemote, FindTwins, FindInTwin,
     MoveFound, CreateValue, Store, Note, NoEvent, Mishaps
<1>4. CASE Maintain(w)
  BY <1>4, RestKept DEF Maintain, CleanLocal, CleanValue, ReconcileList, ReconcileApply, Note, NoEvent, Mishaps
<1>5. CASE Operator(w)
  BY <1>5, RestKept DEF Operator, MergeCommand, CleanCommand, ImportCommand, ReconcileCommand, Command
<1>6. CASE \/ Fails(w) \/ MergeFails(w) \/ LockTimesOut(w) \/ Stop(w)
           \/ EndBatch(w) \/ \E v \in Values : Ensure(w, v)
  BY <1>6, RestKept DEF Fails, MergeFails, LockTimesOut, Stop, EndBatch, Ensure, Note, Mishaps
<1> QED BY <1>1, <1>2, <1>3, <1>4, <1>5, <1>6 DEF Step

LEMMA StepTyped ==
    ASSUME Typed, NEW w \in Workers,
           \/ Step(w) \/ Operator(w) \/ Fails(w) \/ MergeFails(w) \/ LockTimesOut(w) \/ Stop(w)
           \/ EndBatch(w) \/ \E v \in Values : Ensure(w, v)
    PROVE  Turn(w) /\ Typed'
<1>1. groupIds \in Nat
  BY IdTypes DEF Typed, Tables
<1>2. Rest'
  BY RestsKept
<1>3. UNCHANGED <<row, local, shop>> => Tables' /\ groupIds <= groupIds'
  BY <1>1 DEF Typed, Tables, shop
<1>4. ASSUME Turn(w), Tables', groupIds' = groupIds \/ groupIds' = groupIds + 1
      PROVE  Turn(w) /\ Typed'
  BY <1>1, <1>2, <1>4, TurnTyped
<1>5. ASSUME Turn(w), UNCHANGED <<row, local, shop>>
      PROVE  Turn(w) /\ Typed'
  BY <1>2, <1>3, <1>5, TurnTyped
<1>6. CASE FindGroup(w) \/ SearchGroup(w)
  BY <1>5, <1>6, FindGroupTurns, SearchGroupTurns DEF FindGroup, SearchGroup
<1>7. CASE Remap(w) \/ Adopt(w)
  BY <1>4, <1>7, RemapTurns, AdoptTurns, GroupTables DEF Remap, Adopt, shop
<1>8. CASE NewGroup(w)
  BY <1>4, <1>8, NewGroupTurns, GroupTables
<1>9. CASE MergeDone(w) \/ ListOrphan(w) \/ Compare(w) \/ Remaining(w) \/ MergeFails(w)
  BY <1>5, <1>9, MergeDoneTurns, ListOrphanTurns, CompareTurns, RemainingTurns, MergeFailsTurns
     DEF MergeDone, ListOrphan, Compare, Remaining, MergeFails
<1>10. CASE DeleteTwin(w) \/ ForgetTwin(w) \/ MoveTwin(w) \/ DropGroup(w)
  <2>1. groupIds' = groupIds
    BY <1>10 DEF DeleteTwin, ForgetTwin, MoveTwin, DropGroup, shop
  <2> QED BY <1>4, <1>10, <2>1, DeleteTwinTurns, ForgetTwinTurns, MoveTwinTurns, DropGroupTurns, MergeTables
<1>11. CASE FindValue(w) \/ LockValue(w) \/ CheckValue(w) \/ FindRemote(w) \/ FindTwins(w) \/ FindInTwin(w)
  BY <1>5, <1>11, FindValueTurns, LockValueTurns, CheckValueTurns, FindRemoteTurns, FindTwinsTurns,
     FindInTwinTurns DEF FindValue, LockValue, CheckValue, FindRemote, FindTwins, FindInTwin
<1>12. CASE MoveFound(w) \/ CreateValue(w) \/ Store(w)
  <2>1. groupIds' = groupIds
    BY <1>12 DEF MoveFound, CreateValue, Store, shop
  <2> QED BY <1>4, <1>12, <2>1, MoveFoundTurns, CreateValueTurns, StoreTurns, ValueTables
<1>13. CASE CleanLocal(w) \/ CleanValue(w) \/ ReconcileApply(w)
  <2>1. groupIds' = groupIds
    BY <1>13 DEF CleanLocal, CleanValue, ReconcileApply, shop
  <2> QED BY <1>4, <1>13, <2>1, CleanLocalTurns, CleanValueTurns, IdlersTurn, CommandTables
<1>14. CASE ReconcileList(w)
  BY <1>5, <1>14, ReconcileListTurns DEF ReconcileList
<1>15. CASE Operator(w)
  <2>1. UNCHANGED <<row, local, shop>>
    BY <1>15 DEF Operator, MergeCommand, CleanCommand, ImportCommand, ReconcileCommand, Command
  <2> QED BY <1>5, <1>15, <2>1, MergeCommandTurns, CleanCommandTurns, ImportCommandTurns,
             ReconcileCommandTurns DEF Operator
<1>16. CASE Fails(w) \/ LockTimesOut(w) \/ Stop(w) \/ EndBatch(w)
  BY <1>5, <1>16, IdlersTurn DEF Fails, LockTimesOut, Stop, EndBatch
<1>17. CASE \E v \in Values : Ensure(w, v)
  BY <1>5, <1>17, EnsureTurns DEF Ensure
<1>18. CASE Step(w)
  BY <1>6, <1>7, <1>8, <1>9, <1>10, <1>11, <1>12, <1>13, <1>14, <1>18
     DEF Step, Group_, Merge_, Value_, Maintain
<1> QED BY <1>9, <1>15, <1>16, <1>17, <1>18

LEMMA NextTyped == Typed /\ [Next]_vars => Typed'
<1>1. ASSUME Typed, UNCHANGED vars
      PROVE  Typed'
  <2>1. (Racing' => raced') /\ \A w \in Workers : InPlace(w)'
    BY <1>1, NobodyTurns DEF vars, shop
  <2> QED BY <1>1, <2>1 DEF vars, shop, Typed, Tables, Rest
<1>2. ASSUME Typed, Next
      PROVE  Typed'
  BY <1>2, StepTyped, OutsideTyped DEF Next
<1> QED BY <1>1, <1>2

\* Every variable has its type, and no two values of the shop share an id: what
\* ensure_attribute_value stores is an id that the shop has given out.
THEOREM TypeCorrect == Spec => []TypeOK
<1>1. Typed => TypeOK
  BY DEF Typed, Tables, Rest, TypeOK, UniqueIds, Locks
<1> QED BY <1>1, InitTyped, NextTyped, PTL DEF Spec

-----------------------------------------------------------------------------
\* While nobody has raced.
RowsLive ==
    \A v \in Values : \/ local[v] = 0
                      \/ Forgetting(local[v])
                      \/ \E u \in values : u.id = local[v] /\ u.name = v
Single == \A u, v \in values : u.group = v.group /\ u.name = v.name => u = v

Sound ==
    /\ ~GroupIsDead
    /\ "row kept" \in mishaps \/ RowsLive
    /\ \A w \in Workers : Aware(w)
    /\ "moved unnoticed" \in mishaps \/ (Single /\ \A w \in Workers : Lacking(w))

Leads(w) == \A g \in me[w].cache : GroupExists(g.id) \/ NotFirst(g.id, me[w].cache)

\* Places where a process knows nothing of the shop but its listing.
Ignorant == {"idle", "next", "group", "search", "new group", "value", "lock", "check", "find",
             "twins", "twin", "create"}

LEMMA IgnorantAware ==
    ASSUME NEW w \in Workers, Leads(w)', me'[w].pc \in Ignorant
    PROVE  Aware(w)'
BY DEF Ignorant, Aware, Leads

LEMMA Alone ==
    ASSUME Typed, ~raced, NEW w \in Workers, NEW v \in Workers \ {w}, Merging(w)
    PROVE  me[v].pc \in {"idle", "next"} /\ ~me[v].listed
BY DEF Typed, Racing

LEMMA NotRaced ==
    ASSUME Typed, NEW w \in Workers, Turn(w), ~raced'
    PROVE  ~raced
BY DEF Typed, Turn

\* Groups and values stay, except for what is moved or created under a lock.
Grows(w) ==
    /\ \A i : GroupExists(i) => GroupExists(i)'
    /\ \A u \in values : \E x \in values' : x.id = u.id /\ x.name = u.name
    /\ \A x \in values' :
        \/ \E u \in values : u.group = x.group /\ u.name = x.name
        \/ me[w].pc \in {"move", "create"} /\ x.group = me[w].gid /\ x.name = me[w].want
    /\ me[w].pc \in {"idle", "next"} => UNCHANGED <<row, values>>

LEMMA StillGrows ==
    ASSUME NEW w \in Workers, UNCHANGED <<row, groups, values>>
    PROVE  Grows(w)
BY DEF Grows, GroupExists

LEMMA OthersLacking ==
    ASSUME Typed, ~raced, NEW w \in Workers, Turn(w), Grows(w),
           NEW v \in Workers \ {w}, Lacking(v)
    PROVE  Lacking(v)'
<1>1. me'[v] = me[v] /\ InPlace(v) /\ me[v] \in Process /\ InPlace(w) /\ me[w] \in Process
  BY TurnOthers DEF Typed
<1>2. CASE me[v].pc \in {"twins", "twin", "move", "create"}
  <2>1. holder[<<me[v].gid, me[v].want>>] = v
    BY <1>1, <1>2 DEF InPlace, Key
  <2>2. me[w].pc \in {"move", "create"} => holder[<<me[w].gid, me[w].want>>] = w
    BY <1>1 DEF InPlace, Key
  <2>3. ~(me[w].pc \in {"move", "create"} /\ me[v].gid = me[w].gid /\ me[v].want = me[w].want)
    BY <2>1, <2>2
  <2>4. \A u \in values : ~(u.group = me[v].gid /\ u.name = me[v].want)
    BY <1>2 DEF Lacking, Named, In
  <2>5. \A x \in values' : ~(x.group = me[v].gid /\ x.name = me[v].want)
    BY <2>3, <2>4 DEF Grows
  <2> QED BY <1>1, <1>2, <2>5 DEF Lacking, Named, In
<1>3. CASE me[v].pc \in {"each", "forget"}
  <2>1. Merging(v)
    BY <1>3 DEF Merging
  <2>2. me[w].pc \in {"idle", "next"}
    BY <2>1, Alone
  <2>3. values' = values
    BY <2>2 DEF Grows
  <2> QED BY <1>1, <1>3, <2>3 DEF Lacking, In
<1> QED BY <1>1, <1>2, <1>3 DEF Lacking

LEMMA OthersAware ==
    ASSUME Typed, ~raced, NEW w \in Workers, Turn(w), Grows(w),
           NEW v \in Workers \ {w}, Aware(v)
    PROVE  Aware(v)'
<1> DEFINE p == me[v]
<1>1. me'[v] = p /\ InPlace(v) /\ p \in Process
  BY TurnOthers DEF Typed
<1>2. \A g \in p.cache : GroupExists(g.id)' \/ NotFirst(g.id, p.cache)
  BY DEF Aware, Grows
<1>3. CASE Merging(v)
  <2>1. me[w].pc \in {"idle", "next"}
    BY <1>3, Alone
  <2>2. row' = row /\ values' = values
    BY <2>1 DEF Grows
  <2>3. \A i : (\E g \in groups : g.id = i) => \E g \in groups' : g.id = i
    BY DEF Grows, GroupExists
  <2>4. /\ p.pc \in {"remap", "adopt"} => \E g \in groups' : g.id = p.gid
        /\ p.pc \in {"reconcile", "apply"} => p.gid = 0 \/ \E g \in groups' : g.id = p.gid
    BY <2>3 DEF Aware, GroupExists
  <2> HIDE DEF p
  <2>5. me[v] = p
    BY DEF p
  <2>6. /\ p.pc = "remap" => p.val = row'.id
        /\ p.pc \in {"remap", "adopt", "merge", "compare", "each", "forget", "drop group"} =>
            \A o \in p.orphans : o # p.gid /\ NotFirst(o, p.cache)
        /\ p.pc \in {"merge", "compare", "each", "forget", "drop group"} => row'.id \notin p.orphans
        /\ p.pc \in {"compare", "each", "forget", "drop group"} =>
            p.orphan \notin {p.gid, row'.id} /\ NotFirst(p.orphan, p.cache)
    BY <2>2, <2>5 DEF Aware
  <2>7. /\ p.pc \in {"compare", "each", "forget"} => p.todo \subseteq {x \in values' : x.group = p.orphan}
        /\ p.pc \in {"each", "forget"} =>
            p.names \subseteq {u.name : u \in {x \in values' : x.group = p.gid}}
        /\ p.pc = "drop group" => {x \in values' : x.group = p.orphan} = {}
    BY <2>2, <2>5 DEF Aware, In
  <2>8. /\ p.pc \in {"clean", "clean all"} =>
            /\ p.val \in {u.id : u \in {x \in values' : x.name = p.want}}
            /\ \A x \in p.todo : x.id # p.val /\ x.name = p.want
        /\ p.pc \in {"clean", "clean all", "apply"} => p.todo \subseteq values'
        /\ p.pc \in {"move", "store"} => \E u \in values' : u.id = p.val /\ u.name = p.want
    BY <2>2, <2>5 DEF Aware
  <2> QED BY <1>1, <1>2, <2>4, <2>6, <2>7, <2>8 DEF Aware, In, GroupExists
<1>4. CASE ~Merging(v)
  <2>1. p.pc \in {"move", "store"} => \E x \in values' : x.id = p.val /\ x.name = p.want
    <3>1. p.pc \in {"move", "store"} => \E u \in values : u.id = p.val /\ u.name = p.want
      BY DEF Aware
    <3>2. \A u \in values : \E x \in values' : x.id = u.id /\ x.name = u.name
      BY DEF Grows
    <3> HIDE DEF p
    <3> QED BY <3>1, <3>2
  <2>2. p.pc \in {"remap", "adopt"} => \E g \in groups' : g.id = p.gid
    BY DEF Aware, Grows, GroupExists
  <2>3. p.pc \notin {"remap", "compare", "each", "forget", "drop group", "clean", "clean all",
                     "reconcile", "apply"}
    BY <1>1, <1>4 DEF Merging, InPlace
  <2>4. p.pc \in {"adopt", "merge"} => p.orphans = {}
    BY <1>4 DEF Merging
  <2> HIDE DEF p
  <2>5. me[v] = p
    BY DEF p
  <2> QED BY <1>1, <1>2, <2>1, <2>2, <2>3, <2>4 DEF Aware, GroupExists
<1> QED BY <1>3, <1>4

\* What is left to show of a step.
LEMMA SoundTurn ==
    ASSUME Typed, Sound, NEW w \in Workers, Turn(w), ~raced', mishaps \subseteq mishaps',
           Merging(w) \/ Grows(w),
           ~GroupIsDead', ("row kept" \in mishaps \/ RowsLive) => ("row kept" \in mishaps \/ RowsLive)',
           Aware(w)',
           Single /\ Lacking(w) => ("moved unnoticed" \in mishaps \/ (Single /\ Lacking(w)))'
    PROVE  Sound'
<1>1. ~raced
  BY NotRaced
<1>2. ASSUME NEW v \in Workers \ {w}
      PROVE  Aware(v)' /\ (Lacking(v) => Lacking(v)')
  <2>1. CASE Grows(w)
    BY <1>1, <2>1, OthersAware, OthersLacking DEF Sound
  <2>2. CASE Merging(w)
    <3>1. me'[v] = me[v] /\ InPlace(v)
      BY TurnOthers DEF Typed
    <3>2. me[v].pc \in {"idle", "next"} /\ ~me[v].listed /\ me[v].cache = {}
      BY <1>1, <2>2, <3>1, Alone DEF InPlace
    <3> QED BY <3>1, <3>2 DEF Aware, Lacking
  <2> QED BY <2>1, <2>2
<1>3. \A v \in Workers : Aware(v)'
  BY <1>2
<1>4. ("moved unnoticed" \in mishaps \/ (Single /\ \A v \in Workers : Lacking(v)))'
  <2>1. CASE "moved unnoticed" \in mishaps
    <3>1. "moved unnoticed" \in mishaps'
      BY <2>1
    <3> QED BY <3>1
  <2>2. CASE Single /\ \A v \in Workers : Lacking(v)
    BY <1>2, <2>2
  <2> QED BY <2>1, <2>2 DEF Sound
<1> QED BY <1>3, <1>4 DEF Sound

LEMMA StillTurn ==
    ASSUME Typed, Sound, NEW w \in Workers, Turn(w), ~raced', mishaps \subseteq mishaps',
           UNCHANGED <<row, local, groups, values>>,
           me[w].pc = "forget" => "row kept" \in mishaps' \/ ~Known(me[w].val),
           Aware(w)',
           Single /\ Lacking(w) => Lacking(w)'
    PROVE  Sound'
<1>1. ~GroupIsDead'
  BY DEF Sound, GroupIsDead, GroupExists
<1>2. "row kept" \in mishaps \/ RowsLive => ("row kept" \in mishaps \/ RowsLive)'
  <2>1. CASE "row kept" \in mishaps'
    BY <2>1
  <2>2. CASE RowsLive /\ "row kept" \notin mishaps'
    <3>1. ASSUME NEW v \in Values, local[v] # 0, Forgetting(local[v])
          PROVE  Forgetting(local[v])'
      <4>1. PICK u \in Workers : me[u].pc = "forget" /\ me[u].val = local[v]
        BY <3>1 DEF Forgetting, At
      <4>2. u # w
        BY <2>2, <4>1 DEF Known
      <4>3. me'[u] = me[u]
        BY <4>2, TurnOthers
      <4> QED BY <4>1, <4>3 DEF Forgetting, At
    <3> QED BY <2>2, <3>1 DEF RowsLive
  <2> QED BY <2>1, <2>2
<1>3. Single /\ Lacking(w) => ("moved unnoticed" \in mishaps \/ (Single /\ Lacking(w)))'
  BY DEF Single
<1> QED BY <1>1, <1>2, <1>3, StillGrows, SoundTurn

LEMMA LeadsOn ==
    ASSUME Sound, NEW w \in Workers, \A i : GroupExists(i) => GroupExists(i)',
           \/ me'[w].cache \in {me[w].cache, {}}
           \/ me'[w].cache = Listing(w)
    PROVE  Leads(w)'
<1>1. \A g \in me[w].cache : GroupExists(g.id)' \/ NotFirst(g.id, me[w].cache)
  BY DEF Sound, Aware
<1>2. CASE me'[w].cache \in {me[w].cache, {}}
  BY <1>1, <1>2 DEF Leads
<1>3. CASE me'[w].cache = groups
  <2>1. \A g \in groups : GroupExists(g.id)'
    BY DEF GroupExists
  <2> QED BY <1>3, <2>1 DEF Leads
<1> QED BY <1>2, <1>3 DEF Listing

LEMMA IgnorantTurn ==
    ASSUME Typed, Sound, NEW w \in Workers, Turn(w), ~raced', mishaps \subseteq mishaps',
           UNCHANGED <<row, local, groups, values>>,
           me[w].pc = "forget" => "row kept" \in mishaps' \/ ~Known(me[w].val),
           me'[w].pc \in Ignorant,
           me'[w].cache \in {me[w].cache, {}} \/ me'[w].cache = Listing(w),
           me'[w].pc \in {"twins", "twin", "create"} =>
               \/ me[w].pc \in {"twins", "twin", "move"} /\ me'[w].gid = me[w].gid /\ me'[w].want = me[w].want
               \/ Named(me'[w].gid, me'[w].want) = {}
    PROVE  Sound'
<1>1. \A i : GroupExists(i) => GroupExists(i)'
  BY DEF GroupExists
<1>2. Aware(w)'
  BY <1>1, LeadsOn, IgnorantAware
<1>3. Lacking(w) => Lacking(w)'
  BY DEF Lacking, Ignorant, Named, In
<1> QED BY <1>2, <1>3, StillTurn

LEMMA BecomesIs ==
    ASSUME Typed, NEW w \in Workers, NEW p, Becomes(w, p)
    PROVE  me'[w] = p
BY DEF Typed, Becomes

LEMMA FailedIs ==
    ASSUME Typed, NEW w \in Workers, Failed(w)
    PROVE  me'[w].pc \in {"idle", "next"} /\ me'[w].cache \in {me[w].cache, {}}
<1>1. CASE Becomes(w, Idle)
  BY <1>1, BecomesIs DEF Idle
<1>2. CASE Becomes(w, [Idle EXCEPT !.task = "ensure", !.pc = "next",
                                   !.listed = me[w].listed, !.cache = me[w].cache])
  <2>1. me'[w] = [Idle EXCEPT !.task = "ensure", !.pc = "next",
                              !.listed = me[w].listed, !.cache = me[w].cache]
    BY <1>2, BecomesIs
  <2> QED BY <2>1 DEF Idle
<1> QED BY <1>1, <1>2 DEF Failed

LEMMA FailedSound ==
    ASSUME Typed, Sound, NEW w \in Workers, Turn(w), ~raced', mishaps \subseteq mishaps',
           UNCHANGED <<row, local, groups, values>>, me[w].pc # "forget",
           Failed(w) \/ Ensured(w) \/ Becomes(w, Idle) \/ \E v \in Values : Ensure(w, v)
    PROVE  Sound'
<1>1. me'[w].pc \in {"idle", "next", "group"} /\ me'[w].cache \in {me[w].cache, {}}
  <2>1. CASE Becomes(w, Idle)
    BY <2>1, BecomesIs DEF Idle
  <2>2. ASSUME NEW v,
               Becomes(w, [Idle EXCEPT !.task = "ensure", !.pc = "group", !.want = v,
                                       !.listed = me[w].listed, !.cache = me[w].cache])
        PROVE  me'[w].pc = "group" /\ me'[w].cache = me[w].cache
    <3>1. me'[w] = [Idle EXCEPT !.task = "ensure", !.pc = "group", !.want = v,
                                !.listed = me[w].listed, !.cache = me[w].cache]
      BY <2>2, BecomesIs
    <3> QED BY <3>1 DEF Idle
  <2>3. CASE Becomes(w, [Idle EXCEPT !.task = "ensure", !.pc = "next",
                                     !.listed = me[w].listed, !.cache = me[w].cache])
    BY <2>3, BecomesIs DEF Idle
  <2> QED BY <2>1, <2>2, <2>3 DEF Failed, Ensured, Ensure
<1> QED BY <1>1, IgnorantTurn DEF Ignorant

LEMMA EndsSound ==
    ASSUME Typed, Sound, NEW w \in Workers, Turn(w), ~raced',
           Fails(w) \/ LockTimesOut(w) \/ Stop(w) \/ EndBatch(w) \/ \E v \in Values : Ensure(w, v)
    PROVE  Sound'
<1>1. CASE Fails(w) \/ LockTimesOut(w) \/ EndBatch(w) \/ \E v \in Values : Ensure(w, v)
  BY <1>1, FailedSound DEF Fails, LockTimesOut, EndBatch, Ensure, At, shop
<1>2. CASE Stop(w)
  <2>1. me'[w].pc = "idle" /\ me'[w].cache = {}
    BY <1>2 DEF Stop, Becomes, Idle, Typed
  <2>2. mishaps \subseteq mishaps' /\ (me[w].pc = "forget" => "row kept" \in mishaps' \/ ~Known(me[w].val))
    BY <1>2 DEF Stop, Note, At
  <2> QED BY <1>2, <2>1, <2>2, IgnorantTurn DEF Stop, Ignorant, shop
<1> QED BY <1>1, <1>2

\* ensure_attribute_value.
LEMMA LookingSound ==
    ASSUME Typed, Sound, NEW w \in Workers, Turn(w), ~raced',
           FindValue(w) \/ LockValue(w) \/ CheckValue(w) \/ FindRemote(w) \/ FindTwins(w) \/ FindInTwin(w)
    PROVE  Sound'
<1>1. UNCHANGED <<row, local, groups, values, mishaps>> /\ mishaps \subseteq mishaps'
  BY DEF FindValue, LockValue, CheckValue, FindRemote, FindTwins, FindInTwin, shop
<1>2. me[w] \in Process /\ me[w].pc \notin {"forget"} /\ me[w].pc \in Places
  BY DEF FindValue, LockValue, CheckValue, FindRemote, FindTwins, FindInTwin, At, Typed, Process
<1>3. CASE Failed(w) \/ Ensured(w)
  BY <1>1, <1>2, <1>3, FailedSound
<1>4. ASSUME NEW place \in {"lock", "check", "find"}, Goto(w, place)
      PROVE  Sound'
  <2>1. me'[w] = [me[w] EXCEPT !.pc = place]
    BY <1>4, BecomesIs DEF Goto
  <2>2. me'[w].pc = place /\ me'[w].cache = me[w].cache
    BY <1>2, <2>1 DEF Process
  <2> QED BY <1>1, <1>2, <2>2, IgnorantTurn DEF Ignorant
<1>5. ASSUME NEW place \in {"twins", "create"}, Goto(w, place),
             me[w].pc \in {"twins", "twin"} \/ Named(me[w].gid, me[w].want) = {}
      PROVE  Sound'
  <2>1. me'[w] = [me[w] EXCEPT !.pc = place]
    BY <1>5, BecomesIs DEF Goto
  <2>2. me'[w].pc = place /\ me'[w].cache = me[w].cache /\ me'[w].gid = me[w].gid /\ me'[w].want = me[w].want
    BY <1>2, <2>1 DEF Process
  <2> QED BY <1>1, <1>2, <1>5, <2>2, IgnorantTurn DEF Ignorant
<1>6. CASE FindValue(w) \/ LockValue(w) \/ CheckValue(w)
  BY <1>3, <1>4, <1>6 DEF FindValue, LockValue, CheckValue
<1>7. CASE FindRemote(w)
  <2>1. CASE Goto(w, "twins") /\ Named(me[w].gid, me[w].want) = {}
    BY <1>5, <2>1
  <2>2. ASSUME NEW i \in Named(me[w].gid, me[w].want),
               Becomes(w, [me[w] EXCEPT !.pc = "store", !.val = i])
        PROVE  Sound'
    <3>1. me'[w] = [me[w] EXCEPT !.pc = "store", !.val = i]
      BY <2>2, BecomesIs
    <3>2. me'[w].pc = "store" /\ me'[w].cache = me[w].cache /\ me'[w].val = i /\ me'[w].want = me[w].want
      BY <1>2, <3>1 DEF Process
    <3>3. Leads(w)'
      BY <1>1, <3>2, LeadsOn DEF GroupExists
    <3>4. \E u \in values : u.id = i /\ u.name = me[w].want
      BY DEF Named, In
    <3>5. Aware(w)' /\ Lacking(w)'
      BY <1>1, <3>2, <3>3, <3>4 DEF Aware, Lacking, Leads
    <3> QED BY <1>1, <1>2, <3>5, StillTurn
  <2> QED BY <1>7, <2>1, <2>2 DEF FindRemote
<1>8. CASE FindTwins(w)
  <2>1. CASE Goto(w, "create")
    BY <1>5, <1>8, <2>1 DEF FindTwins, At
  <2>2. ASSUME NEW twins,
               Becomes(w, [me[w] EXCEPT !.pc = "twin", !.listed = TRUE, !.cache = Listing(w), !.orphans = twins])
        PROVE  Sound'
    <3>1. me'[w] = [me[w] EXCEPT !.pc = "twin", !.listed = TRUE, !.cache = Listing(w), !.orphans = twins]
      BY <2>2, BecomesIs
    <3>2. me'[w].pc = "twin" /\ me'[w].cache = Listing(w) /\ me'[w].gid = me[w].gid /\ me'[w].want = me[w].want
      BY <1>2, <3>1 DEF Process
    <3> QED BY <1>1, <1>2, <1>8, <3>2, IgnorantTurn DEF Ignorant, FindTwins, At
  <2> QED BY <1>8, <2>1, <2>2 DEF FindTwins
<1>9. CASE FindInTwin(w)
  <2>1. CASE Goto(w, "create")
    BY <1>5, <1>9, <2>1 DEF FindInTwin, At
  <2>2. ASSUME NEW o, Becomes(w, [me[w] EXCEPT !.orphans = @ \ {o}])
        PROVE  Sound'
    <3>1. me'[w] = [me[w] EXCEPT !.orphans = @ \ {o}]
      BY <2>2, BecomesIs
    <3>2. me'[w].pc = "twin" /\ me'[w].cache = me[w].cache /\ me'[w].gid = me[w].gid /\ me'[w].want = me[w].want
      BY <1>2, <1>9, <3>1 DEF Process, FindInTwin, At
    <3> QED BY <1>1, <1>2, <1>9, <3>2, IgnorantTurn DEF Ignorant, FindInTwin, At
  <2>3. ASSUME NEW o, NEW i \in Named(o, me[w].want),
               Becomes(w, [me[w] EXCEPT !.pc = "move", !.val = i, !.orphans = {}])
        PROVE  Sound'
    <3>1. me'[w] = [me[w] EXCEPT !.pc = "move", !.val = i, !.orphans = {}]
      BY <2>3, BecomesIs
    <3>2. /\ me'[w].pc = "move" /\ me'[w].cache = me[w].cache /\ me'[w].val = i
          /\ me'[w].gid = me[w].gid /\ me'[w].want = me[w].want
      BY <1>2, <3>1 DEF Process
    <3>3. Leads(w)'
      BY <1>1, <3>2, LeadsOn DEF GroupExists
    <3>4. \E u \in values : u.id = i /\ u.name = me[w].want
      BY DEF Named, In
    <3>5. Aware(w)'
      BY <1>1, <3>2, <3>3, <3>4 DEF Aware, Leads
    <3>6. Lacking(w) => Lacking(w)'
      BY <1>1, <1>9, <3>2 DEF Lacking, FindInTwin, At, Named, In
    <3> QED BY <1>1, <1>2, <3>5, <3>6, StillTurn
  <2> QED BY <1>9, <2>1, <2>2, <2>3 DEF FindInTwin
<1> QED BY <1>6, <1>7, <1>8, <1>9

LEMMA LocalStays ==
    ASSUME Typed, Sound, NEW w \in Workers, Turn(w), me[w].pc # "forget", local' = local,
           mishaps \subseteq mishaps', \A u \in values : \E x \in values' : x.id = u.id /\ x.name = u.name
    PROVE  "row kept" \in mishaps \/ RowsLive => ("row kept" \in mishaps \/ RowsLive)'
<1>1. CASE "row kept" \in mishaps'
  BY <1>1
<1>2. ASSUME RowsLive
      PROVE  RowsLive'
  <2>1. ASSUME NEW v \in Values, local[v] # 0
        PROVE  Forgetting(local[v])' \/ \E x \in values' : x.id = local[v] /\ x.name = v
    <3>1. CASE Forgetting(local[v])
      <4>1. PICK u \in Workers : me[u].pc = "forget" /\ me[u].val = local[v]
        BY <3>1 DEF Forgetting, At
      <4>2. me'[u] = me[u]
        BY <4>1, TurnOthers
      <4> QED BY <4>1, <4>2 DEF Forgetting, At
    <3>2. CASE \E u \in values : u.id = local[v] /\ u.name = v
      BY <3>2
    <3> QED BY <1>2, <2>1, <3>1, <3>2 DEF RowsLive
  <2> QED BY <2>1 DEF RowsLive
<1> QED BY <1>1, <1>2

LEMMA MoveFoundSound ==
    ASSUME Typed, Sound, NEW w \in Workers, Turn(w), ~raced', MoveFound(w)
    PROVE  Sound'
<1>1. me[w].pc = "move" /\ me[w] \in Process
  BY DEF MoveFound, At, Typed
<1>2. me[w].gid \in GroupIds
  BY <1>1, GidTyped
<1>3. UNCHANGED <<row, local, groups>> /\ mishaps \subseteq mishaps'
  BY DEF MoveFound, Note
<1>4. ASSUME Becomes(w, [me[w] EXCEPT !.pc = "create", !.val = 0])
      PROVE  me'[w].pc = "create" /\ me'[w].cache = me[w].cache /\ me'[w].gid = me[w].gid
             /\ me'[w].want = me[w].want
  <2>1. me'[w] = [me[w] EXCEPT !.pc = "create", !.val = 0]
    BY <1>4, BecomesIs
  <2> QED BY <1>1, <2>1 DEF Process
<1>5. CASE values' = values /\ Becomes(w, [me[w] EXCEPT !.pc = "create", !.val = 0])
  BY <1>1, <1>3, <1>4, <1>5, IgnorantTurn DEF Ignorant
<1>6. CASE values' = Moved(me[w].val, me[w].gid)
  <2>1. /\ UniqueIds(values')
        /\ \A u \in values : \E x \in values' : x.id = u.id /\ x.name = u.name
        /\ \A x \in values' : \/ x \in values
                              \/ /\ x.id = me[w].val /\ x.group = me[w].gid
                                 /\ \E u \in values : u.id = me[w].val /\ x.name = u.name
    BY <1>2, <1>6, MovedValues
  <2>2. \E u \in values : u.id = me[w].val /\ u.name = me[w].want
    BY <1>1 DEF Sound, Aware
  <2>3. \A u \in values : u.id = me[w].val => u.name = me[w].want
    BY <2>2 DEF Typed, Tables, UniqueIds
  <2>4. \A x \in values' : \/ x \in values
                           \/ x.id = me[w].val /\ x.group = me[w].gid /\ x.name = me[w].want
    BY <2>1, <2>3
  <2>5. \E x \in values' : x.id = me[w].val /\ x.name = me[w].want
    BY <2>1, <2>2
  <2>6. Grows(w)
    BY <1>1, <1>3, <2>1, <2>4 DEF Grows, GroupExists
  <2>7. ~GroupIsDead'
    BY <1>3 DEF Sound, GroupIsDead, GroupExists
  <2>8. "row kept" \in mishaps \/ RowsLive => ("row kept" \in mishaps \/ RowsLive)'
    BY <1>1, <1>3, <2>1, LocalStays
  <2>9. CASE Becomes(w, [me[w] EXCEPT !.pc = "store", !.listed = FALSE, !.cache = {}])
    <3>1. me'[w] = [me[w] EXCEPT !.pc = "store", !.listed = FALSE, !.cache = {}]
      BY <2>9, BecomesIs
    <3>2. /\ me'[w].pc = "store" /\ me'[w].cache = {} /\ me'[w].val = me[w].val
          /\ me'[w].want = me[w].want
      BY <1>1, <3>1 DEF Process
    <3>3. Aware(w)'
      BY <2>5, <3>2 DEF Aware
    <3>4. ASSUME Single, Lacking(w)
          PROVE  Single'
      <4>1. \A u \in values : ~(u.group = me[w].gid /\ u.name = me[w].want)
        BY <1>1, <3>4 DEF Lacking, Named, In
      <4> QED BY <2>1, <2>4, <3>4, <4>1 DEF Single, UniqueIds
    <3>5. Lacking(w)'
      BY <3>2 DEF Lacking
    <3> QED BY <1>3, <2>6, <2>7, <2>8, <3>3, <3>4, <3>5, SoundTurn
  <2>10. CASE /\ Becomes(w, [me[w] EXCEPT !.pc = "create", !.val = 0])
              /\ Note("moved unnoticed", TRUE)
    <3>1. Leads(w)'
      BY <1>3, <1>4, <2>10, LeadsOn DEF GroupExists
    <3>2. Aware(w)'
      BY <1>4, <2>10, <3>1, IgnorantAware DEF Ignorant
    <3>3. "moved unnoticed" \in mishaps'
      BY <2>10 DEF Note
    <3> QED BY <1>3, <2>6, <2>7, <2>8, <3>2, <3>3, SoundTurn
  <2> QED BY <1>5, <2>9, <2>10 DEF MoveFound
<1> QED BY <1>5, <1>6 DEF MoveFound

LEMMA CreateValueSound ==
    ASSUME Typed, Sound, NEW w \in Workers, Turn(w), ~raced', CreateValue(w)
    PROVE  Sound'
<1>1. me[w].pc = "create" /\ me[w] \in Process
  BY DEF CreateValue, At, Typed
<1>2. UNCHANGED <<row, local, groups, mishaps>> /\ mishaps \subseteq mishaps'
  BY DEF CreateValue
<1>3. CASE UNCHANGED values /\ Failed(w)
  BY <1>1, <1>2, <1>3, FailedSound
<1> DEFINE new == [id |-> valueIds', group |-> me[w].gid, name |-> me[w].want]
<1>4. CASE values' = values \cup {new}
  <2>1. /\ \A u \in values : \E x \in values' : x.id = u.id /\ x.name = u.name
        /\ \A x \in values' : x \in values \/ (x.group = me[w].gid /\ x.name = me[w].want)
        /\ \E x \in values' : x.id = valueIds' /\ x.name = me[w].want
    <3>1. new.id = valueIds' /\ new.group = me[w].gid /\ new.name = me[w].want
      OBVIOUS
    <3> HIDE DEF new
    <3> QED BY <1>4, <3>1
  <2>2. Grows(w)
    BY <1>1, <1>2, <2>1 DEF Grows, GroupExists
  <2>3. ~GroupIsDead'
    BY <1>2 DEF Sound, GroupIsDead, GroupExists
  <2>4. "row kept" \in mishaps \/ RowsLive => ("row kept" \in mishaps \/ RowsLive)'
    BY <1>1, <1>2, <2>1, LocalStays
  <2>5. ASSUME Single, Lacking(w)
        PROVE  Single'
    <3>1. \A u \in values : ~(u.group = me[w].gid /\ u.name = me[w].want)
      BY <1>1, <2>5 DEF Lacking, Named, In
    <3>2. new.group = me[w].gid /\ new.name = me[w].want
      OBVIOUS
    <3>3. values' = values \cup {new}
      BY <1>4
    <3> HIDE DEF new
    <3> QED BY <2>5, <3>1, <3>2, <3>3 DEF Single
  <2>6. CASE Becomes(w, [me[w] EXCEPT !.pc = "store", !.val = valueIds'])
    <3>1. me'[w] = [me[w] EXCEPT !.pc = "store", !.val = valueIds']
      BY <2>6, BecomesIs
    <3>2. /\ me'[w].pc = "store" /\ me'[w].cache = me[w].cache /\ me'[w].val = valueIds'
          /\ me'[w].want = me[w].want
      BY <1>1, <3>1 DEF Process
    <3>3. Leads(w)'
      BY <1>2, <3>2, LeadsOn DEF GroupExists
    <3>4. Aware(w)' /\ Lacking(w)'
      BY <2>1, <3>2, <3>3 DEF Aware, Leads, Lacking
    <3> QED BY <1>2, <2>2, <2>3, <2>4, <2>5, <3>4, SoundTurn
  <2>7. CASE Failed(w)
    <3>1. me'[w].pc \in {"idle", "next"} /\ me'[w].cache \in {me[w].cache, {}}
      BY <2>7, FailedIs
    <3>2. Leads(w)'
      BY <1>2, <3>1, LeadsOn DEF GroupExists
    <3>3. Aware(w)'
      BY <3>1, <3>2, IgnorantAware DEF Ignorant
    <3>4. Lacking(w)'
      BY <3>1 DEF Lacking
    <3> QED BY <1>2, <2>2, <2>3, <2>4, <2>5, <3>3, <3>4, SoundTurn
  <2> QED BY <1>3, <2>6, <2>7 DEF CreateValue
<1> HIDE DEF new
<1> QED BY <1>3, <1>4 DEF CreateValue, new

LEMMA StoreSound ==
    ASSUME Typed, Sound, NEW w \in Workers, Turn(w), ~raced', Store(w)
    PROVE  Sound'
<1>1. me[w].pc = "store" /\ me[w] \in Process
  BY DEF Store, At, Typed
<1>2. UNCHANGED <<row, groups, values, mishaps>> /\ mishaps \subseteq mishaps'
  BY DEF Store, shop
<1>3. \E u \in values : u.id = me[w].val /\ u.name = me[w].want
  BY <1>1 DEF Sound, Aware
<1>4. me'[w].pc = "next" /\ me'[w].cache = me[w].cache
  <2>1. me'[w] = [Idle EXCEPT !.task = "ensure", !.pc = "next",
                              !.listed = me[w].listed, !.cache = me[w].cache]
    BY BecomesIs DEF Store, Ensured
  <2> QED BY <2>1 DEF Idle
<1>5. Leads(w)'
  BY <1>2, <1>4, LeadsOn DEF GroupExists
<1>6. Aware(w)' /\ Lacking(w)'
  BY <1>4, <1>5, IgnorantAware DEF Ignorant, Lacking
<1>7. ~GroupIsDead'
  BY <1>2 DEF Sound, GroupIsDead, GroupExists
<1>8. ASSUME RowsLive
      PROVE  RowsLive'
  <2>1. ASSUME NEW v \in Values, local'[v] # 0
        PROVE  \/ \E u \in Workers : me'[u].pc = "forget" /\ me'[u].val = local'[v]
               \/ \E x \in values' : x.id = local'[v] /\ x.name = v
    <3>1. local'[v] = IF v = me[w].want THEN me[w].val ELSE local[v]
      BY DEF Store, Typed, Tables
    <3>2. CASE v = me[w].want
      BY <1>2, <1>3, <3>1, <3>2
    <3>3. CASE v # me[w].want /\ Forgetting(local[v])
      <4>1. PICK u \in Workers : me[u].pc = "forget" /\ me[u].val = local[v]
        BY <3>3 DEF Forgetting, At
      <4>2. me'[u] = me[u]
        BY <1>1, <4>1, TurnOthers
      <4> QED BY <3>1, <3>3, <4>1, <4>2
    <3> QED BY <1>2, <1>8, <2>1, <3>1, <3>2, <3>3 DEF RowsLive
  <2> QED BY <2>1 DEF RowsLive, Forgetting, At
<1>9. Single => Single'
  BY <1>2 DEF Single
<1> QED BY <1>2, <1>6, <1>7, <1>8, <1>9, StillGrows, SoundTurn

\* ensure_attribute_group.
LEMMA TwinsFollow ==
    ASSUME NEW list \in SUBSET Group, UniqueIds(list), NEW name, NEW match, First(match, Match(list, name))
    PROVE  /\ \A o \in Twins(list, match) : o # match /\ NotFirst(o, list)
           /\ ~NotFirst(match, list) /\ \E g \in list : g.id = match
<1>1. PICK n : Match(list, name) = {g.id : g \in {h \in list : h.name = n}}
  BY DEF Match
<1>2. /\ \A g \in list : g.id \in Nat
      /\ \A g \in list : g.name = n => match <= g.id
  BY <1>1, IdTypes DEF First, Group
<1>3. PICK m \in list : m.id = match /\ m.name = n
  BY <1>1 DEF First
<1>4. ~NotFirst(match, list)
  BY <1>2, <1>3 DEF NotFirst
<1>5. ASSUME NEW o \in Twins(list, match)
      PROVE  o # match /\ NotFirst(o, list)
  <2>1. PICK h \in list : h.id = o /\ h.id # match /\ [id |-> match, name |-> h.name] \in list
    BY DEF Twins
  <2>2. [id |-> match, name |-> h.name].id = match /\ [id |-> match, name |-> h.name].name = h.name
    OBVIOUS
  <2>3. h.name = n
    BY <1>3, <2>1, <2>2 DEF UniqueIds
  <2>4. match < o
    BY <1>2, <1>3, <2>1, <2>3
  <2> QED BY <1>3, <2>1, <2>3, <2>4 DEF NotFirst, UniqueIds
<1> QED BY <1>3, <1>4, <1>5

LEMMA FindGroupSound ==
    ASSUME Typed, Sound, NEW w \in Workers, Turn(w), ~raced', FindGroup(w)
    PROVE  Sound'
<1> DEFINE list == Listing(w)
           here == [me[w] EXCEPT !.listed = TRUE, !.cache = list, !.name = Preferred]
<1>1. me[w].pc = "group" /\ me[w] \in Process
  BY DEF FindGroup, At, Typed
<1>2. UNCHANGED <<row, local, groups, values, mishaps>> /\ mishaps \subseteq mishaps'
  BY DEF FindGroup, shop
<1>3. list \in SUBSET Group /\ UniqueIds(list)
  BY ListingTyped
<1>4. \A g \in list : GroupExists(g.id) \/ NotFirst(g.id, list)
  BY DEF Listing, GroupExists, Sound, Aware
<1>5. ASSUME me'[w].pc \in {"value", "search"}, me'[w].cache \in {me[w].cache, list}
      PROVE  Sound'
  BY <1>1, <1>2, <1>5, IgnorantTurn DEF Ignorant
<1>6. ASSUME NEW match, First(match, Match(list, Preferred)),
             me'[w].cache = list, me'[w].gid = match, me'[w].orphans = Twins(list, match),
             \/ me'[w].pc = "adopt"
             \/ me'[w].pc = "remap" /\ me'[w].val = row.id
      PROVE  Sound'
  <2>1. /\ \A o \in Twins(list, match) : o # match /\ NotFirst(o, list)
        /\ GroupExists(match)
    BY <1>3, <1>4, <1>6, TwinsFollow
  <2> HIDE DEF list
  <2>2. Aware(w)' /\ Lacking(w)'
    BY <1>2, <1>4, <1>6, <2>1 DEF Aware, Lacking, GroupExists
  <2> QED BY <1>1, <1>2, <2>2, StillTurn
<1>7. CASE Becomes(w, [me[w] EXCEPT !.pc = "value", !.gid = row.id])
  <2>1. me'[w] = [me[w] EXCEPT !.pc = "value", !.gid = row.id]
    BY <1>7, BecomesIs
  <2> QED BY <1>1, <1>5, <2>1 DEF Process
<1>8. ASSUME NEW match, First(match, Match(list, Preferred)),
             Becomes(w, [here EXCEPT !.pc = "remap", !.gid = match, !.val = row.id,
                                     !.orphans = Twins(list, match)])
      PROVE  Sound'
  <2>1. me'[w] = [here EXCEPT !.pc = "remap", !.gid = match, !.val = row.id,
                              !.orphans = Twins(list, match)]
    BY <1>8, BecomesIs
  <2>2. /\ me'[w].cache = list /\ me'[w].gid = match /\ me'[w].orphans = Twins(list, match)
        /\ me'[w].pc = "remap" /\ me'[w].val = row.id
    BY <1>1, <2>1 DEF Process
  <2> QED BY <1>6, <1>8, <2>2
<1>9. ASSUME NEW match, First(match, Match(list, Preferred)),
             Becomes(w, [here EXCEPT !.pc = "adopt", !.gid = match, !.orphans = Twins(list, match)])
      PROVE  Sound'
  <2>1. me'[w] = [here EXCEPT !.pc = "adopt", !.gid = match, !.orphans = Twins(list, match)]
    BY <1>9, BecomesIs
  <2>2. /\ me'[w].cache = list /\ me'[w].gid = match /\ me'[w].orphans = Twins(list, match)
        /\ me'[w].pc = "adopt"
    BY <1>1, <2>1 DEF Process
  <2> QED BY <1>6, <1>9, <2>2
<1>10. CASE Becomes(w, [here EXCEPT !.pc = "value", !.gid = row.id])
  <2>1. me'[w] = [here EXCEPT !.pc = "value", !.gid = row.id]
    BY <1>10, BecomesIs
  <2> QED BY <1>1, <1>5, <2>1 DEF Process
<1>11. CASE Becomes(w, [here EXCEPT !.pc = "search"])
  <2>1. me'[w] = [here EXCEPT !.pc = "search"]
    BY <1>11, BecomesIs
  <2> QED BY <1>1, <1>5, <2>1 DEF Process
<1> HIDE DEF list, here
<1> QED BY <1>7, <1>8, <1>9, <1>10, <1>11 DEF FindGroup, list, here

LEMMA SearchGroupSound ==
    ASSUME Typed, Sound, NEW w \in Workers, Turn(w), ~raced', SearchGroup(w)
    PROVE  Sound'
<1>1. me[w].pc = "search" /\ me[w] \in Process /\ me[w].orphans = {}
  BY DEF SearchGroup, At, Typed, InPlace
<1>2. UNCHANGED <<row, local, groups, values, mishaps>> /\ mishaps \subseteq mishaps'
  BY DEF SearchGroup, shop
<1>3. CASE Goto(w, "new group")
  <2>1. me'[w] = [me[w] EXCEPT !.pc = "new group"]
    BY <1>3, BecomesIs DEF Goto
  <2>2. me'[w].pc = "new group" /\ me'[w].cache = me[w].cache
    BY <1>1, <2>1 DEF Process
  <2> QED BY <1>1, <1>2, <2>2, IgnorantTurn DEF Ignorant
<1>4. ASSUME NEW g \in groups, Becomes(w, [me[w] EXCEPT !.pc = "adopt", !.gid = g.id])
      PROVE  Sound'
  <2>1. me'[w] = [me[w] EXCEPT !.pc = "adopt", !.gid = g.id]
    BY <1>4, BecomesIs
  <2>2. me'[w].pc = "adopt" /\ me'[w].cache = me[w].cache /\ me'[w].gid = g.id /\ me'[w].orphans = {}
    BY <1>1, <2>1 DEF Process
  <2>3. Leads(w)'
    BY <1>2, <2>2, LeadsOn DEF GroupExists
  <2>4. Aware(w)' /\ Lacking(w)'
    BY <1>2, <2>2, <2>3 DEF Aware, Lacking, Leads, GroupExists
  <2> QED BY <1>1, <1>2, <2>4, StillTurn
<1> QED BY <1>3, <1>4 DEF SearchGroup

LEMMA NewGroupSound ==
    ASSUME Typed, Sound, NEW w \in Workers, Turn(w), ~raced', NewGroup(w)
    PROVE  Sound'
<1> DEFINE new == [id |-> groupIds', name |-> me[w].name]
<1>1. me[w].pc = "new group" /\ me[w] \in Process /\ me[w].orphans = {} /\ InPlace(w)
  BY DEF NewGroup, At, Typed, InPlace
<1>2. UNCHANGED <<row, local, values, mishaps>> /\ mishaps \subseteq mishaps'
  BY DEF NewGroup
<1>3. groups' = groups \cup {new} /\ groupIds' = groupIds + 1 /\ new.id = groupIds'
  BY DEF NewGroup
<1>4. \A i : (\E g \in groups : g.id = i) => \E g \in groups' : g.id = i
  BY <1>3
<1>5. Grows(w)
  BY <1>1, <1>2, <1>4 DEF Grows, GroupExists
<1>6. ~GroupIsDead'
  BY <1>2, <1>4 DEF Sound, GroupIsDead, GroupExists
<1>7. "row kept" \in mishaps \/ RowsLive => ("row kept" \in mishaps \/ RowsLive)'
  BY <1>1, <1>2, LocalStays
<1>8. Single => Single'
  BY <1>2 DEF Single
<1>9. CASE Becomes(w, [me[w] EXCEPT !.pc = "adopt", !.gid = new.id, !.cache = @ \cup {new}])
  <2>1. me'[w] = [me[w] EXCEPT !.pc = "adopt", !.gid = new.id, !.cache = @ \cup {new}]
    BY <1>9, BecomesIs
  <2>2. /\ me'[w].pc = "adopt" /\ me'[w].gid = groupIds' /\ me'[w].orphans = {}
        /\ me'[w].cache = me[w].cache \cup {new}
    BY <1>1, <2>1 DEF Process
  <2>3. \A g \in me[w].cache : g.id \in Nat /\ g.id <= groupIds
    BY <1>1, IdTypes DEF InPlace, Process, Group
  <2>4. groupIds \in Nat
    BY IdTypes DEF Typed, Tables
  <2>5. \A g \in me[w].cache : g.id # groupIds'
    BY <1>3, <2>3, <2>4
  <2> HIDE DEF new
  <2>6. ASSUME NEW g \in me'[w].cache
        PROVE  (\E h \in groups' : h.id = g.id) \/ NotFirst(g.id, me'[w].cache)
    <3>1. CASE g = new
      BY <1>3, <3>1
    <3>2. CASE g \in me[w].cache
      <4>1. (\E h \in groups : h.id = g.id) \/ NotFirst(g.id, me[w].cache)
        BY <3>2 DEF Sound, Aware, GroupExists
      <4>2. NotFirst(g.id, me[w].cache) => NotFirst(g.id, me'[w].cache)
        BY <1>3, <2>2, <2>5, <3>2 DEF NotFirst
      <4> QED BY <1>4, <4>1, <4>2
    <3> QED BY <2>2, <2>6, <3>1, <3>2
  <2>7. \E h \in groups' : h.id = me'[w].gid
    BY <1>3, <2>2
  <2>8. Aware(w)' /\ Lacking(w)'
    BY <2>2, <2>6, <2>7 DEF Aware, Lacking, GroupExists
  <2> QED BY <1>2, <1>5, <1>6, <1>7, <1>8, <2>8, SoundTurn
<1>10. CASE Failed(w)
  <2>1. me'[w].pc \in {"idle", "next"} /\ me'[w].cache \in {me[w].cache, {}}
    BY <1>10, FailedIs
  <2>2. Leads(w)'
    BY <1>4, <2>1, LeadsOn DEF GroupExists
  <2>3. Aware(w)' /\ Lacking(w)'
    BY <2>1, <2>2, IgnorantAware DEF Ignorant, Lacking
  <2> QED BY <1>2, <1>5, <1>6, <1>7, <1>8, <2>3, SoundTurn
<1> HIDE DEF new
<1> QED BY <1>9, <1>10 DEF NewGroup, new

LEMMA AdoptSound ==
    ASSUME Typed, Sound, NEW w \in Workers, Turn(w), ~raced', Adopt(w)
    PROVE  Sound'
<1>1. me[w].pc = "adopt" /\ me[w] \in Process
  BY DEF Adopt, At, Typed
<1>2. UNCHANGED <<local, groups, values, mishaps>> /\ mishaps \subseteq mishaps' /\ row'.id = me[w].gid
  BY DEF Adopt, shop
<1>3. /\ \E g \in groups' : g.id = me[w].gid
      /\ \A o \in me[w].orphans : o # me[w].gid /\ NotFirst(o, me[w].cache)
  BY <1>1, <1>2 DEF Sound, Aware, GroupExists
<1>4. Grows(w)
  BY <1>1, <1>2 DEF Grows, GroupExists
<1>5. ~GroupIsDead'
  BY <1>2, <1>3 DEF GroupIsDead, GroupExists
<1>6. "row kept" \in mishaps \/ RowsLive => ("row kept" \in mishaps \/ RowsLive)'
  BY <1>1, <1>2, LocalStays
<1>7. me'[w] = [me[w] EXCEPT !.pc = IF me[w].orphans = {} THEN "value" ELSE "merge"]
  BY BecomesIs DEF Adopt, Goto
<1>8. /\ me'[w].pc \in {"value", "merge"} /\ me'[w].cache = me[w].cache
      /\ me'[w].orphans = me[w].orphans /\ me'[w].gid = me[w].gid
  BY <1>1, <1>7 DEF Process
<1>9. Leads(w)'
  BY <1>2, <1>8, LeadsOn DEF GroupExists
<1>10. Aware(w)' /\ Lacking(w)'
  BY <1>2, <1>3, <1>8, <1>9 DEF Aware, Lacking, Leads
<1>11. Single => Single'
  BY <1>2 DEF Single
<1> QED BY <1>2, <1>4, <1>5, <1>6, <1>10, <1>11, SoundTurn

LEMMA RemapSound ==
    ASSUME Typed, Sound, NEW w \in Workers, Turn(w), ~raced', Remap(w)
    PROVE  Sound'
<1>1. me[w].pc = "remap" /\ me[w] \in Process
  BY DEF Remap, At, Typed
<1>2. UNCHANGED <<groups, values, mishaps>> /\ mishaps \subseteq mishaps'
  BY DEF Remap, shop
<1>3. me[w].val = row.id
  BY <1>1 DEF Sound, Aware
<1>4. /\ row' = [id |-> me[w].gid, name |-> me[w].name]
      /\ local' = IF row.id # me[w].gid THEN [v \in Values |-> 0] ELSE local
      /\ Becomes(w, IF me[w].task = "import" THEN Idle ELSE [me[w] EXCEPT !.pc = "merge", !.val = 0])
  BY <1>3 DEF Remap
<1>5. row'.id = me[w].gid
  BY <1>4
<1>6. /\ \E g \in groups' : g.id = me[w].gid
      /\ \A o \in me[w].orphans : o # me[w].gid /\ NotFirst(o, me[w].cache)
  BY <1>1, <1>2 DEF Sound, Aware, GroupExists
<1>7. Grows(w)
  BY <1>1, <1>2 DEF Grows, GroupExists
<1>8. ~GroupIsDead'
  BY <1>5, <1>6 DEF GroupIsDead, GroupExists
<1>9. "row kept" \in mishaps \/ RowsLive => ("row kept" \in mishaps \/ RowsLive)'
  <2>1. CASE local' = local
    BY <1>1, <1>2, <2>1, LocalStays
  <2>2. CASE local' = [v \in Values |-> 0]
    BY <2>2 DEF RowsLive
  <2> QED BY <1>4, <2>1, <2>2
<1>10. \/ me'[w].pc = "idle" /\ me'[w].cache = {}
       \/ /\ me'[w].pc = "merge" /\ me'[w].cache = me[w].cache
          /\ me'[w].orphans = me[w].orphans /\ me'[w].gid = me[w].gid
  <2>1. me'[w] = IF me[w].task = "import" THEN Idle ELSE [me[w] EXCEPT !.pc = "merge", !.val = 0]
    BY <1>4, BecomesIs
  <2>2. CASE me'[w] = Idle
    BY <2>2 DEF Idle
  <2>3. CASE me'[w] = [me[w] EXCEPT !.pc = "merge", !.val = 0]
    BY <1>1, <2>3 DEF Process
  <2> QED BY <2>1, <2>2, <2>3
<1>11. Leads(w)'
  BY <1>2, <1>10, LeadsOn DEF GroupExists
<1>12. Aware(w)' /\ Lacking(w)'
  BY <1>2, <1>5, <1>6, <1>10, <1>11 DEF Aware, Lacking, Leads
<1>13. Single => Single'
  BY <1>2 DEF Single
<1> QED BY <1>2, <1>7, <1>8, <1>9, <1>12, <1>13, SoundTurn

\* _merge_duplicate_remote_groups.
LEMMA SkipIs ==
    ASSUME Typed, NEW w \in Workers, Skip(w)
    PROVE  /\ me'[w].pc = "merge" /\ me'[w].cache = me[w].cache
           /\ me'[w].orphans = me[w].orphans /\ me'[w].gid = me[w].gid
<1>1. me'[w] = [me[w] EXCEPT !.pc = "merge", !.orphan = 0, !.todo = {}, !.names = {}]
  BY BecomesIs DEF Skip
<1> QED BY <1>1 DEF Typed, Process

LEMMA SkipSound ==
    ASSUME Typed, Sound, NEW w \in Workers, Turn(w), ~raced', Skip(w),
           me[w].pc \in {"compare", "each", "drop group"},
           UNCHANGED <<row, local, groups, values>>, mishaps \subseteq mishaps'
    PROVE  Sound'
<1>1. /\ me'[w].pc = "merge" /\ me'[w].cache = me[w].cache
      /\ me'[w].orphans = me[w].orphans /\ me'[w].gid = me[w].gid
  BY SkipIs
<1>2. Leads(w)'
  BY <1>1, LeadsOn DEF GroupExists
<1>3. /\ row.id \notin me[w].orphans
      /\ \A o \in me[w].orphans : o # me[w].gid /\ NotFirst(o, me[w].cache)
  BY DEF Sound, Aware
<1>4. Aware(w)' /\ Lacking(w)'
  BY <1>1, <1>2, <1>3 DEF Aware, Lacking, Leads
<1> QED BY <1>4, StillTurn

LEMMA MergeFailsSound ==
    ASSUME Typed, Sound, NEW w \in Workers, Turn(w), ~raced', MergeFails(w)
    PROVE  Sound'
BY SkipSound DEF MergeFails, At, shop

LEMMA MergeDoneSound ==
    ASSUME Typed, Sound, NEW w \in Workers, Turn(w), ~raced', MergeDone(w)
    PROVE  Sound'
<1>1. me[w].pc = "merge" /\ me[w] \in Process
  BY DEF MergeDone, At, Typed
<1>2. UNCHANGED <<row, local, groups, values, mishaps>> /\ mishaps \subseteq mishaps'
  BY DEF MergeDone, shop
<1>3. me'[w].pc \in {"idle", "value"} /\ me'[w].cache \in {me[w].cache, {}}
  <2>1. me'[w] = IF me[w].task = "merge" THEN Idle ELSE [me[w] EXCEPT !.pc = "value"]
    BY BecomesIs DEF MergeDone
  <2>2. CASE me'[w] = Idle
    BY <2>2 DEF Idle
  <2>3. CASE me'[w] = [me[w] EXCEPT !.pc = "value"]
    BY <1>1, <2>3 DEF Process
  <2> QED BY <2>1, <2>2, <2>3
<1> QED BY <1>1, <1>2, <1>3, IgnorantTurn DEF Ignorant

LEMMA ListOrphanSound ==
    ASSUME Typed, Sound, NEW w \in Workers, Turn(w), ~raced', ListOrphan(w)
    PROVE  Sound'
<1>1. me[w].pc = "merge" /\ me[w] \in Process
  BY DEF ListOrphan, At, Typed
<1>2. UNCHANGED <<row, local, groups, values, mishaps>> /\ mishaps \subseteq mishaps'
  BY DEF ListOrphan, shop
<1>3. PICK o \in me[w].orphans :
        Becomes(w, [me[w] EXCEPT !.pc = "compare", !.orphan = o, !.orphans = @ \ {o}, !.todo = In(o)])
  BY DEF ListOrphan
<1>4. me'[w] = [me[w] EXCEPT !.pc = "compare", !.orphan = o, !.orphans = @ \ {o}, !.todo = In(o)]
  BY <1>3, BecomesIs
<1>5. /\ me'[w].pc = "compare" /\ me'[w].cache = me[w].cache /\ me'[w].orphan = o
      /\ me'[w].orphans = me[w].orphans \ {o} /\ me'[w].gid = me[w].gid /\ me'[w].todo = In(o)
  BY <1>1, <1>4 DEF Process
<1>6. Leads(w)'
  BY <1>2, <1>5, LeadsOn DEF GroupExists
<1>7. /\ row.id \notin me[w].orphans
      /\ \A i \in me[w].orphans : i # me[w].gid /\ NotFirst(i, me[w].cache)
  BY <1>1 DEF Sound, Aware
<1>8. Aware(w)' /\ Lacking(w)'
  BY <1>2, <1>3, <1>5, <1>6, <1>7 DEF Aware, Lacking, Leads, In
<1> QED BY <1>1, <1>2, <1>8, StillTurn

LEMMA CompareSound ==
    ASSUME Typed, Sound, NEW w \in Workers, Turn(w), ~raced', Compare(w)
    PROVE  Sound'
<1>1. me[w].pc = "compare" /\ me[w] \in Process
  BY DEF Compare, At, Typed
<1>2. UNCHANGED <<row, local, groups, values, mishaps>> /\ mishaps \subseteq mishaps'
  BY DEF Compare, shop
<1>3. me'[w] = [me[w] EXCEPT !.pc = "each", !.names = {v.name : v \in In(me[w].gid)}]
  BY BecomesIs DEF Compare
<1>4. /\ me'[w].pc = "each" /\ me'[w].names = {v.name : v \in In(me[w].gid)}
      /\ UNCHANGED <<me[w].cache, me[w].orphan, me[w].orphans, me[w].gid, me[w].todo>>
  BY <1>1, <1>3 DEF Process
<1>5. Leads(w)'
  BY <1>2, <1>4, LeadsOn DEF GroupExists
<1>6. /\ row.id \notin me[w].orphans
      /\ \A i \in me[w].orphans : i # me[w].gid /\ NotFirst(i, me[w].cache)
      /\ me[w].orphan \notin {me[w].gid, row.id} /\ NotFirst(me[w].orphan, me[w].cache)
      /\ me[w].todo \subseteq In(me[w].orphan)
  BY <1>1 DEF Sound, Aware
<1>7. Aware(w)'
  BY <1>2, <1>4, <1>5, <1>6 DEF Aware, Leads, In
<1>8. Lacking(w)'
  BY <1>2, <1>4 DEF Lacking, In
<1> QED BY <1>1, <1>2, <1>7, <1>8, StillTurn

LEMMA RemainingSound ==
    ASSUME Typed, Sound, NEW w \in Workers, Turn(w), ~raced', Remaining(w)
    PROVE  Sound'
<1>1. me[w].pc = "each" /\ me[w] \in Process
  BY DEF Remaining, At, Typed
<1>2. UNCHANGED <<row, local, groups, values, mishaps>> /\ mishaps \subseteq mishaps'
  BY DEF Remaining, shop
<1>3. CASE Skip(w)
  BY <1>1, <1>2, <1>3, SkipSound
<1>4. CASE In(me[w].orphan) = {} /\ Goto(w, "drop group")
  <2>1. me'[w] = [me[w] EXCEPT !.pc = "drop group"]
    BY <1>4, BecomesIs DEF Goto
  <2>2. /\ me'[w].pc = "drop group"
        /\ UNCHANGED <<me[w].cache, me[w].orphan, me[w].orphans, me[w].gid>>
    BY <1>1, <2>1 DEF Process
  <2>3. Leads(w)'
    BY <1>2, <2>2, LeadsOn DEF GroupExists
  <2>4. /\ row.id \notin me[w].orphans
        /\ \A i \in me[w].orphans : i # me[w].gid /\ NotFirst(i, me[w].cache)
        /\ me[w].orphan \notin {me[w].gid, row.id} /\ NotFirst(me[w].orphan, me[w].cache)
    BY <1>1 DEF Sound, Aware
  <2>5. Aware(w)' /\ Lacking(w)'
    BY <1>2, <1>4, <2>2, <2>3, <2>4 DEF Aware, Lacking, Leads, In
  <2> QED BY <1>1, <1>2, <2>5, StillTurn
<1> QED BY <1>3, <1>4 DEF Remaining

LEMMA StillMerging ==
    ASSUME Sound, NEW w \in Workers, me[w].pc \in {"each", "forget"}, UNCHANGED <<row, groups>>,
           me'[w].pc \in {"each", "forget"}, me'[w].cache \in {me[w].cache, {}},
           UNCHANGED <<me[w].orphan, me[w].orphans, me[w].gid>>,
           \A v \in me'[w].todo : v \in values' /\ v.group = me[w].orphan,
           \A n \in me'[w].names : \E u \in values' : u.group = me[w].gid /\ u.name = n
    PROVE  Aware(w)'
<1>1. Leads(w)'
  BY LeadsOn DEF GroupExists
<1>2. /\ row.id \notin me[w].orphans
      /\ \A i \in me[w].orphans : i # me[w].gid /\ NotFirst(i, me[w].cache)
      /\ me[w].orphan \notin {me[w].gid, row.id} /\ NotFirst(me[w].orphan, me[w].cache)
  BY DEF Sound, Aware
<1>3. \A i : NotFirst(i, me[w].cache) => NotFirst(i, me'[w].cache)
  BY DEF NotFirst
<1>4. /\ row'.id \notin me'[w].orphans
      /\ \A i \in me'[w].orphans : i # me'[w].gid /\ NotFirst(i, me'[w].cache)
      /\ me'[w].orphan \notin {me'[w].gid, row'.id} /\ NotFirst(me'[w].orphan, me'[w].cache)
  BY <1>2, <1>3
<1>5. /\ me'[w].todo \subseteq {v \in values' : v.group = me'[w].orphan}
      /\ me'[w].names \subseteq {u.name : u \in {v \in values' : v.group = me'[w].gid}}
  OBVIOUS
<1> QED BY <1>1, <1>4, <1>5 DEF Aware, Leads, In

LEMMA EachKnows ==
    ASSUME Sound, NEW w \in Workers, me[w].pc \in {"each", "forget"}
    PROVE  /\ \A v \in me[w].todo : v \in values /\ v.group = me[w].orphan
           /\ \A n \in me[w].names : \E u \in values : u.group = me[w].gid /\ u.name = n
           /\ me[w].orphan # me[w].gid
BY DEF Sound, Aware, In

LEMMA DoneIs ==
    ASSUME Typed, NEW w \in Workers, NEW v, Becomes(w, Done(w, v))
    PROVE  /\ me'[w].todo = me[w].todo \ {v}
           /\ UNCHANGED <<me[w].pc, me[w].cache, me[w].orphan, me[w].orphans, me[w].gid, me[w].names,
                          me[w].val, me[w].want>>
<1>1. me'[w] = [me[w] EXCEPT !.todo = @ \ {v}]
  BY BecomesIs DEF Done
<1> QED BY <1>1 DEF Typed, Process

LEMMA NextTwin ==
    ASSUME Typed, Sound, NEW w \in Workers, Turn(w), ~raced', me[w].pc = "each",
           NEW v, Becomes(w, Done(w, v)), UNCHANGED <<row, local, groups, values, mishaps>>
    PROVE  Sound'
<1>1. Aware(w)'
  BY DoneIs, EachKnows, StillMerging
<1>2. Lacking(w) => Lacking(w)'
  BY DoneIs DEF Lacking, In
<1> QED BY <1>1, <1>2, StillTurn

LEMMA DeleteTwinSound ==
    ASSUME Typed, Sound, NEW w \in Workers, Turn(w), ~raced', DeleteTwin(w)
    PROVE  Sound'
<1>1. me[w].pc = "each" /\ me[w] \in Process /\ Merging(w)
  BY DEF DeleteTwin, At, Typed, Merging
<1>2. UNCHANGED <<row, local, groups>> /\ mishaps \subseteq mishaps'
  BY DEF DeleteTwin, Note
<1>3. PICK v \in me[w].todo :
        \/ /\ values' = {u \in values : u.id # v.id}
           /\ \/ /\ Becomes(w, [Done(w, v) EXCEPT !.pc = "forget", !.val = v.id])
                 /\ UNCHANGED mishaps
              \/ Becomes(w, Done(w, v)) /\ Note("row kept", Known(v.id))
        \/ Becomes(w, Done(w, v)) /\ UNCHANGED <<values, mishaps>>
  BY DEF DeleteTwin
<1>4. CASE Becomes(w, Done(w, v)) /\ UNCHANGED <<values, mishaps>>
  BY <1>1, <1>2, <1>4, NextTwin
<1>5. CASE values' = {u \in values : u.id # v.id}
  <2>1. /\ \A x \in me[w].todo : x \in values /\ x.group = me[w].orphan
        /\ \A n \in me[w].names : \E u \in values : u.group = me[w].gid /\ u.name = n
        /\ me[w].orphan # me[w].gid
    BY <1>1, EachKnows
  <2>2. \A x \in values : x.id = v.id <=> x = v
    BY <1>3, <2>1 DEF Typed, Tables, UniqueIds
  <2>3. values' = values \ {v}
    BY <1>5, <2>2
  <2>4. ~GroupIsDead'
    BY <1>2 DEF Sound, GroupIsDead, GroupExists
  <2>5. Single => Single'
    BY <2>3 DEF Single
  <2>6. /\ \A x \in me[w].todo \ {v} : x \in values' /\ x.group = me[w].orphan
        /\ \A n \in me[w].names : \E u \in values' : u.group = me[w].gid /\ u.name = n
    BY <2>1, <2>3
  <2>7. ASSUME me'[w].pc \in {"each", "forget"}, me'[w].todo = me[w].todo \ {v},
               UNCHANGED <<me[w].cache, me[w].orphan, me[w].orphans, me[w].gid, me[w].names>>
        PROVE  Aware(w)' /\ (Lacking(w) => Lacking(w)')
    <3>1. Aware(w)'
      BY <1>1, <1>2, <2>6, <2>7, StillMerging
    <3>2. Lacking(w) => Lacking(w)'
      BY <1>1, <2>3, <2>7 DEF Lacking, In
    <3> QED BY <3>1, <3>2
  <2>8. ASSUME NEW u \in Workers, me[u].pc = "forget"
        PROVE  me'[u] = me[u]
    BY <1>1, <2>8, TurnOthers
  <2>9. CASE /\ Becomes(w, [Done(w, v) EXCEPT !.pc = "forget", !.val = v.id])
             /\ UNCHANGED mishaps
    <3>1. me'[w] = [[me[w] EXCEPT !.todo = @ \ {v}] EXCEPT !.pc = "forget", !.val = v.id]
      BY <2>9, BecomesIs DEF Done
    <3>2. /\ me'[w].pc = "forget" /\ me'[w].todo = me[w].todo \ {v} /\ me'[w].val = v.id
          /\ UNCHANGED <<me[w].cache, me[w].orphan, me[w].orphans, me[w].gid, me[w].names>>
      BY <1>1, <3>1 DEF Process
    <3>3. RowsLive => RowsLive'
      BY <1>2, <2>2, <2>3, <2>8, <3>2 DEF RowsLive, Forgetting, At
    <3> QED BY <1>1, <1>2, <2>4, <2>5, <2>7, <2>9, <3>2, <3>3, SoundTurn
  <2>10. CASE Becomes(w, Done(w, v)) /\ Note("row kept", Known(v.id))
    <3>1. /\ me'[w].pc = "each" /\ me'[w].todo = me[w].todo \ {v}
          /\ UNCHANGED <<me[w].cache, me[w].orphan, me[w].orphans, me[w].gid, me[w].names>>
      BY <1>1, <2>10, DoneIs
    <3>2. CASE Known(v.id)
      <4>1. "row kept" \in mishaps'
        BY <2>10, <3>2 DEF Note
      <4> QED BY <1>1, <1>2, <2>4, <2>5, <2>7, <3>1, <4>1, SoundTurn
    <3>3. CASE ~Known(v.id)
      <4>1. RowsLive => RowsLive'
        BY <1>2, <2>3, <2>8, <3>3 DEF RowsLive, Forgetting, At, Known
      <4> QED BY <1>1, <1>2, <2>4, <2>5, <2>7, <3>1, <4>1, SoundTurn
    <3> QED BY <3>2, <3>3
  <2> QED BY <1>3, <1>4, <2>9, <2>10
<1> QED BY <1>3, <1>4, <1>5

LEMMA ForgetTwinSound ==
    ASSUME Typed, Sound, NEW w \in Workers, Turn(w), ~raced', ForgetTwin(w)
    PROVE  Sound'
<1>1. me[w].pc = "forget" /\ me[w] \in Process /\ Merging(w)
  BY DEF ForgetTwin, At, Typed, Merging
<1>2. UNCHANGED <<row, groups, values, mishaps>> /\ mishaps \subseteq mishaps'
  BY DEF ForgetTwin, shop
<1>3. me'[w] = [me[w] EXCEPT !.pc = "each", !.val = 0]
  BY BecomesIs DEF ForgetTwin
<1>4. /\ me'[w].pc = "each"
      /\ UNCHANGED <<me[w].cache, me[w].orphan, me[w].orphans, me[w].gid, me[w].names, me[w].todo>>
  BY <1>1, <1>3 DEF Process
<1>5. Aware(w)'
  BY <1>1, <1>2, <1>4, EachKnows, StillMerging
<1>6. Lacking(w) => Lacking(w)'
  BY <1>1, <1>2, <1>4 DEF Lacking, In
<1>7. RowsLive => RowsLive'
  <2>1. ASSUME RowsLive, NEW v \in Values, local'[v] # 0
        PROVE  \/ \E u \in Workers : me'[u].pc = "forget" /\ me'[u].val = local'[v]
               \/ \E x \in values' : x.id = local'[v] /\ x.name = v
    <3>1. local'[v] = local[v] /\ local[v] # me[w].val
      BY <2>1 DEF ForgetTwin
    <3>2. CASE Forgetting(local[v])
      <4>1. PICK u \in Workers : me[u].pc = "forget" /\ me[u].val = local[v]
        BY <3>2 DEF Forgetting, At
      <4>2. me'[u] = me[u]
        BY <3>1, <4>1, TurnOthers
      <4> QED BY <3>1, <4>1, <4>2
    <3> QED BY <1>2, <2>1, <3>1, <3>2 DEF RowsLive
  <2> QED BY <2>1 DEF RowsLive, Forgetting, At
<1>8. ~GroupIsDead'
  BY <1>2 DEF Sound, GroupIsDead, GroupExists
<1>9. Single => Single'
  BY <1>2 DEF Single
<1> QED BY <1>1, <1>2, <1>5, <1>6, <1>7, <1>8, <1>9, SoundTurn

LEMMA MoveTwinSound ==
    ASSUME Typed, Sound, NEW w \in Workers, Turn(w), ~raced', MoveTwin(w)
    PROVE  Sound'
<1>1. me[w].pc = "each" /\ me[w] \in Process /\ Merging(w)
  BY DEF MoveTwin, At, Typed, Merging
<1>2. UNCHANGED <<row, local, groups>> /\ mishaps \subseteq mishaps' /\ me[w].gid \in GroupIds
  BY <1>1, GidTyped DEF MoveTwin, Note
<1>3. PICK v \in me[w].todo :
        /\ v.name \notin me[w].names
        /\ \/ /\ values' = Moved(v.id, me[w].gid)
              /\ \/ /\ Becomes(w, [Done(w, v) EXCEPT !.names = @ \cup {v.name},
                                                     !.listed = FALSE, !.cache = {}])
                    /\ UNCHANGED mishaps
                 \/ Becomes(w, Done(w, v)) /\ Note("moved unnoticed", TRUE)
           \/ Becomes(w, Done(w, v)) /\ UNCHANGED <<values, mishaps>>
  BY DEF MoveTwin
<1>4. CASE Becomes(w, Done(w, v)) /\ UNCHANGED <<values, mishaps>>
  BY <1>1, <1>2, <1>4, NextTwin
<1>5. CASE values' = Moved(v.id, me[w].gid)
  <2>1. /\ UniqueIds(values')
        /\ \A u \in values : \E x \in values' : x.id = u.id /\ x.name = u.name
        /\ \A x \in values' : \/ x \in values
                              \/ /\ x.id = v.id /\ x.group = me[w].gid
                                 /\ \E u \in values : u.id = v.id /\ x.name = u.name
        /\ \A x \in values' : x.id = v.id => x.group = me[w].gid
    BY <1>2, <1>5, MovedValues
  <2>2. /\ \A x \in me[w].todo : x \in values /\ x.group = me[w].orphan
        /\ \A n \in me[w].names : \E u \in values : u.group = me[w].gid /\ u.name = n
        /\ me[w].orphan # me[w].gid
    BY <1>1, EachKnows
  <2>3. \A x, y \in values : x.id = y.id => x = y
    BY DEF Typed, Tables, UniqueIds
  <2>4. \A x \in values' : x \in values \/ (x.group = me[w].gid /\ x.name = v.name)
    BY <1>3, <2>1, <2>2, <2>3
  <2>5. ASSUME NEW x \in values, x # v
        PROVE  x \in values'
    <3>1. v \in values /\ x.id # v.id
      BY <1>3, <2>2, <2>3, <2>5
    <3>2. PICK y \in values' : y.id = x.id
      BY <2>1
    <3>3. y \in values
      BY <2>1, <3>1, <3>2
    <3> QED BY <2>3, <3>2, <3>3
  <2>6. \E x \in values' : x.group = me[w].gid /\ x.name = v.name
    BY <1>3, <2>1, <2>2
  <2>7. \A x \in me[w].todo \ {v} : x \in values' /\ x.group = me[w].orphan
    BY <2>2, <2>5
  <2>8. \A n \in me[w].names \cup {v.name} : \E u \in values' : u.group = me[w].gid /\ u.name = n
    BY <1>3, <2>2, <2>5, <2>6
  <2>9. ~GroupIsDead'
    BY <1>2 DEF Sound, GroupIsDead, GroupExists
  <2>10. "row kept" \in mishaps \/ RowsLive => ("row kept" \in mishaps \/ RowsLive)'
    BY <1>1, <1>2, <2>1, LocalStays
  <2>11. CASE Becomes(w, [Done(w, v) EXCEPT !.names = @ \cup {v.name}, !.listed = FALSE, !.cache = {}])
    <3>1. me'[w] = [[me[w] EXCEPT !.todo = @ \ {v}] EXCEPT !.names = @ \cup {v.name},
                                                           !.listed = FALSE, !.cache = {}]
      BY <2>11, BecomesIs DEF Done
    <3>2. /\ me'[w].pc = "each" /\ me'[w].todo = me[w].todo \ {v} /\ me'[w].cache = {}
          /\ me'[w].names = me[w].names \cup {v.name}
          /\ UNCHANGED <<me[w].orphan, me[w].orphans, me[w].gid>>
      BY <1>1, <3>1 DEF Process
    <3>3. Aware(w)'
      BY <1>1, <1>2, <2>7, <2>8, <3>2, StillMerging
    <3>4. ASSUME Single, Lacking(w)
          PROVE  Single' /\ Lacking(w)'
      <4>1. \A u \in values : u.group = me[w].gid => u.name \in me[w].names
        BY <1>1, <3>4 DEF Lacking, In
      <4>2. \A u \in values : ~(u.group = me[w].gid /\ u.name = v.name)
        BY <1>3, <4>1
      <4>3. \A x \in values' : x.group = me[w].gid /\ x.name = v.name => x.id = v.id
        BY <2>1, <4>2
      <4>4. ASSUME NEW x \in values', NEW y \in values', x.group = y.group, x.name = y.name
            PROVE  x = y
        BY <2>1, <2>4, <3>4, <4>3, <4>4 DEF Single, UniqueIds
      <4>5. \A u \in values' : u.group = me[w].gid => u.name \in me'[w].names
        BY <2>4, <3>2, <4>1
      <4> QED BY <3>2, <4>4, <4>5 DEF Single, Lacking, In
    <3> QED BY <1>1, <1>2, <2>9, <2>10, <3>3, <3>4, SoundTurn
  <2>12. CASE Becomes(w, Done(w, v)) /\ Note("moved unnoticed", TRUE)
    <3>1. Aware(w)'
      BY <1>1, <1>2, <2>7, <2>8, <2>12, DoneIs, StillMerging
    <3>2. "moved unnoticed" \in mishaps'
      BY <2>12 DEF Note
    <3> QED BY <1>1, <1>2, <2>9, <2>10, <3>1, <3>2, SoundTurn
  <2> QED BY <1>3, <1>4, <2>11, <2>12
<1> QED BY <1>3, <1>4, <1>5

LEMMA DropGroupSound ==
    ASSUME Typed, Sound, NEW w \in Workers, Turn(w), ~raced', DropGroup(w)
    PROVE  Sound'
<1>1. me[w].pc = "drop group" /\ me[w] \in Process /\ Merging(w)
  BY DEF DropGroup, At, Typed, Merging
<1>2. UNCHANGED <<row, local, mishaps>> /\ mishaps \subseteq mishaps'
  BY DEF DropGroup
<1>3. /\ me[w].orphan # row.id /\ NotFirst(me[w].orphan, me[w].cache) /\ In(me[w].orphan) = {}
      /\ row.id \notin me[w].orphans
      /\ \A o \in me[w].orphans : o # me[w].gid /\ NotFirst(o, me[w].cache)
      /\ \A g \in me[w].cache : GroupExists(g.id) \/ NotFirst(g.id, me[w].cache)
  BY <1>1 DEF Sound, Aware
<1>4. values' = values
  BY <1>3 DEF DropGroup, In
<1>5. \A i : GroupExists(i) /\ i # me[w].orphan => \E g \in groups' : g.id = i
  BY DEF DropGroup, GroupExists
<1>6. ~GroupIsDead'
  BY <1>2, <1>3, <1>5 DEF Sound, GroupIsDead, GroupExists
<1>7. "row kept" \in mishaps \/ RowsLive => ("row kept" \in mishaps \/ RowsLive)'
  BY <1>1, <1>2, <1>4, LocalStays
<1>8. /\ me'[w].pc = "merge" /\ me'[w].cache \in {me[w].cache, {}}
      /\ me'[w].orphans = me[w].orphans /\ me'[w].gid = me[w].gid
  <2>1. CASE Skip(w)
    BY <2>1, SkipIs
  <2>2. CASE Becomes(w, [me[w] EXCEPT !.pc = "merge", !.orphan = 0, !.todo = {}, !.names = {},
                                      !.listed = FALSE, !.cache = {}])
    <3>1. me'[w] = [me[w] EXCEPT !.pc = "merge", !.orphan = 0, !.todo = {}, !.names = {},
                                 !.listed = FALSE, !.cache = {}]
      BY <2>2, BecomesIs
    <3> QED BY <1>1, <3>1 DEF Process
  <2> QED BY <2>1, <2>2 DEF DropGroup
<1>9. /\ \A o \in me'[w].orphans : o # me'[w].gid /\ NotFirst(o, me'[w].cache)
      /\ \A g \in me'[w].cache : (\E h \in groups' : h.id = g.id) \/ NotFirst(g.id, me'[w].cache)
  BY <1>3, <1>5, <1>8 DEF NotFirst
<1>10. Aware(w)' /\ Lacking(w)'
  BY <1>2, <1>3, <1>8, <1>9 DEF Aware, Lacking, GroupExists
<1>11. Single => Single'
  BY <1>4 DEF Single
<1> QED BY <1>1, <1>2, <1>6, <1>7, <1>10, <1>11, SoundTurn

\* The commands.
LEMMA CleanLocalSound ==
    ASSUME Typed, Sound, NEW w \in Workers, Turn(w), ~raced', CleanLocal(w)
    PROVE  Sound'
<1>1. me[w].pc = "clean" /\ me[w] \in Process /\ Merging(w)
  BY DEF CleanLocal, At, Typed, Merging, InPlace
<1>2. UNCHANGED <<row, groups, values, mishaps>> /\ mishaps \subseteq mishaps'
  BY DEF CleanLocal, shop
<1>3. me'[w] = [me[w] EXCEPT !.pc = "clean all"]
  BY BecomesIs DEF CleanLocal, Goto
<1>4. /\ me'[w].pc = "clean all"
      /\ UNCHANGED <<me[w].cache, me[w].val, me[w].want, me[w].todo>>
  BY <1>1, <1>3 DEF Process
<1>5. Leads(w)'
  BY <1>2, <1>4, LeadsOn DEF GroupExists
<1>6. /\ \E u \in values : u.id = me[w].val /\ u.name = me[w].want
      /\ \A v \in me[w].todo : v.id # me[w].val /\ v.name = me[w].want
      /\ me[w].todo \subseteq values
  BY <1>1 DEF Sound, Aware
<1>7. me'[w].val \in {u.id : u \in {x \in values' : x.name = me'[w].want}}
  BY <1>2, <1>4, <1>6
<1>8. Aware(w)' /\ Lacking(w)'
  BY <1>2, <1>4, <1>5, <1>6, <1>7 DEF Aware, Lacking, Leads
<1>9. RowsLive => RowsLive'
  <2>1. ASSUME RowsLive, NEW v \in Values, local'[v] # 0
        PROVE  \/ \E u \in Workers : me'[u].pc = "forget" /\ me'[u].val = local'[v]
               \/ \E x \in values' : x.id = local'[v] /\ x.name = v
    <3>1. local'[v] = local[v] \/ (v = me[w].want /\ local'[v] = me[w].val)
      BY DEF CleanLocal, Typed, Tables
    <3>2. CASE local'[v] = local[v] /\ Forgetting(local[v])
      <4>1. PICK u \in Workers : me[u].pc = "forget" /\ me[u].val = local[v]
        BY <3>2 DEF Forgetting, At
      <4>2. me'[u] = me[u]
        BY <1>1, <4>1, TurnOthers
      <4> QED BY <3>2, <4>1, <4>2
    <3> QED BY <1>2, <1>6, <2>1, <3>1, <3>2 DEF RowsLive
  <2> QED BY <2>1 DEF RowsLive, Forgetting, At
<1>10. ~GroupIsDead'
  BY <1>2 DEF Sound, GroupIsDead, GroupExists
<1>11. Single => Single'
  BY <1>2 DEF Single
<1> QED BY <1>1, <1>2, <1>8, <1>9, <1>10, <1>11, SoundTurn

LEMMA CleanValueSound ==
    ASSUME Typed, Sound, NEW w \in Workers, Turn(w), ~raced', CleanValue(w)
    PROVE  Sound'
<1>1. me[w].pc = "clean all" /\ me[w] \in Process /\ Merging(w)
  BY DEF CleanValue, At, Typed, Merging, InPlace
<1>2. UNCHANGED <<row, local, groups>> /\ mishaps \subseteq mishaps'
  BY DEF CleanValue, Note
<1>3. CASE Becomes(w, Idle) /\ UNCHANGED <<values, mishaps>>
  BY <1>1, <1>2, <1>3, FailedSound
<1>4. ASSUME NEW v \in me[w].todo, Becomes(w, Done(w, v)),
             \/ values' = {u \in values : u.id # v.id} /\ Note("row kept", Known(v.id))
             \/ UNCHANGED <<values, mishaps>>
      PROVE  Sound'
  <2>1. /\ me'[w].pc = "clean all" /\ me'[w].todo = me[w].todo \ {v}
        /\ UNCHANGED <<me[w].cache, me[w].val, me[w].want>>
    BY <1>1, <1>4, DoneIs
  <2>2. /\ \E u \in values : u.id = me[w].val /\ u.name = me[w].want
        /\ \A x \in me[w].todo : x.id # me[w].val /\ x.name = me[w].want
        /\ me[w].todo \subseteq values
    BY <1>1 DEF Sound, Aware
  <2>3. \A x, y \in values : x.id = y.id => x = y
    BY DEF Typed, Tables, UniqueIds
  <2>4. /\ \E u \in values' : u.id = me[w].val /\ u.name = me[w].want
        /\ me[w].todo \ {v} \subseteq values'
        /\ values' \subseteq values
    BY <1>4, <2>2, <2>3
  <2>5. Leads(w)'
    BY <1>2, <2>1, LeadsOn DEF GroupExists
  <2>6. me'[w].val \in {u.id : u \in {x \in values' : x.name = me'[w].want}}
    BY <2>1, <2>4
  <2>7. Aware(w)' /\ Lacking(w)'
    BY <2>1, <2>2, <2>4, <2>5, <2>6 DEF Aware, Lacking, Leads
  <2>8. ~GroupIsDead'
    BY <1>2 DEF Sound, GroupIsDead, GroupExists
  <2>9. Single => Single'
    BY <2>4 DEF Single
  <2>10. ASSUME NEW u \in Workers, me[u].pc = "forget"
         PROVE  me'[u] = me[u]
    BY <1>1, <2>10, TurnOthers
  <2>11. "row kept" \in mishaps \/ RowsLive => ("row kept" \in mishaps \/ RowsLive)'
    <3>1. CASE UNCHANGED values
      BY <1>1, <1>2, <3>1, LocalStays
    <3>2. CASE values' = {u \in values : u.id # v.id} /\ Note("row kept", Known(v.id)) /\ Known(v.id)
      BY <3>2 DEF Note
    <3>3. CASE values' = {u \in values : u.id # v.id} /\ Note("row kept", Known(v.id)) /\ ~Known(v.id)
      <4>1. RowsLive => RowsLive'
        BY <1>2, <2>10, <3>3 DEF RowsLive, Forgetting, At, Known
      <4>2. mishaps' = mishaps
        BY <3>3 DEF Note
      <4> QED BY <4>1, <4>2
    <3> QED BY <1>4, <3>1, <3>2, <3>3
  <2> QED BY <1>1, <1>2, <2>7, <2>8, <2>9, <2>11, SoundTurn
<1> QED BY <1>3, <1>4 DEF CleanValue

LEMMA ReconcileListSound ==
    ASSUME Typed, Sound, NEW w \in Workers, Turn(w), ~raced', ReconcileList(w)
    PROVE  Sound'
<1>1. me[w].pc = "reconcile" /\ me[w] \in Process
  BY DEF ReconcileList, At, Typed
<1>2. UNCHANGED <<row, local, groups, values, mishaps>> /\ mishaps \subseteq mishaps'
  BY DEF ReconcileList, shop
<1>3. me'[w] = [me[w] EXCEPT !.pc = "apply", !.todo = In(me[w].gid)]
  BY BecomesIs DEF ReconcileList
<1>4. /\ me'[w].pc = "apply" /\ me'[w].todo = In(me[w].gid)
      /\ UNCHANGED <<me[w].cache, me[w].gid>>
  BY <1>1, <1>3 DEF Process
<1>5. Leads(w)'
  BY <1>2, <1>4, LeadsOn DEF GroupExists
<1>6. me[w].gid = 0 \/ \E g \in groups' : g.id = me[w].gid
  BY <1>1, <1>2 DEF Sound, Aware, GroupExists
<1>7. me'[w].todo \subseteq values'
  BY <1>2, <1>4 DEF In
<1>8. Aware(w)' /\ Lacking(w)'
  BY <1>4, <1>5, <1>6, <1>7 DEF Aware, Lacking, Leads, GroupExists
<1> QED BY <1>1, <1>2, <1>8, StillTurn

LEMMA ReconcileApplySound ==
    ASSUME Typed, Sound, NEW w \in Workers, Turn(w), ~raced', ReconcileApply(w)
    PROVE  Sound'
<1>1. me[w].pc = "apply" /\ me[w] \in Process /\ Merging(w)
  BY DEF ReconcileApply, At, Typed, Merging, InPlace
<1>2. UNCHANGED <<groups, values, mishaps>> /\ mishaps \subseteq mishaps'
  BY DEF ReconcileApply, shop
<1>3. me'[w].pc = "idle" /\ me'[w].cache = {}
  BY BecomesIs DEF ReconcileApply, Idle
<1>4. Leads(w)'
  BY <1>2, <1>3, LeadsOn DEF GroupExists
<1>5. Aware(w)' /\ Lacking(w)'
  BY <1>3, <1>4, IgnorantAware DEF Ignorant, Lacking
<1>6. /\ me[w].gid = 0 \/ \E g \in groups' : g.id = me[w].gid
      /\ me[w].todo \subseteq values
  BY <1>1, <1>2 DEF Sound, Aware, GroupExists
<1>7. ~GroupIsDead'
  <2>1. row'.id \in {0, me[w].gid} \/ row' = row
    BY DEF ReconcileApply, Typed, Tables
  <2> QED BY <1>2, <1>6, <2>1 DEF Sound, GroupIsDead, GroupExists
<1>8. RowsLive => RowsLive'
  <2>1. ASSUME RowsLive, NEW v \in Values, local'[v] # 0
        PROVE  \/ \E u \in Workers : me'[u].pc = "forget" /\ me'[u].val = local'[v]
               \/ \E x \in values' : x.id = local'[v] /\ x.name = v
    <3>1. \/ \E x \in me[w].todo : x.name = v /\ x.id = local'[v]
          \/ local'[v] = local[v]
      BY <2>1 DEF ReconcileApply, Last
    <3>2. CASE local'[v] = local[v] /\ Forgetting(local[v])
      <4>1. PICK u \in Workers : me[u].pc = "forget" /\ me[u].val = local[v]
        BY <3>2 DEF Forgetting, At
      <4>2. me'[u] = me[u]
        BY <1>1, <4>1, TurnOthers
      <4> QED BY <3>2, <4>1, <4>2
    <3> QED BY <1>2, <1>6, <2>1, <3>1, <3>2 DEF RowsLive
  <2> QED BY <2>1 DEF RowsLive, Forgetting, At
<1>9. Single => Single'
  BY <1>2 DEF Single
<1> QED BY <1>1, <1>2, <1>5, <1>7, <1>8, <1>9, SoundTurn

LEMMA CommandStarts ==
    ASSUME Typed, NEW w \in Workers, NEW p, Command(w, p)
    PROVE  /\ me'[w] = p /\ me[w].pc = "idle"
           /\ UNCHANGED <<row, local, groups, values, mishaps>> /\ mishaps \subseteq mishaps'
BY BecomesIs DEF Command, At, shop

LEMMA MergeCommandSound ==
    ASSUME Typed, Sound, NEW w \in Workers, Turn(w), ~raced', MergeCommand(w)
    PROVE  Sound'
<1>1. PICK ids \in SUBSET {g.id : g \in groups} : \E kept \in ids :
        /\ row.id \in ids => kept = row.id
        /\ Command(w, [Idle EXCEPT !.task = "merge", !.pc = "merge", !.gid = kept, !.orphans = ids \ {kept}])
  BY DEF MergeCommand
<1>2. PICK kept \in ids :
        /\ row.id \in ids => kept = row.id
        /\ Command(w, [Idle EXCEPT !.task = "merge", !.pc = "merge", !.gid = kept, !.orphans = ids \ {kept}])
  BY <1>1
<1> DEFINE p == [Idle EXCEPT !.task = "merge", !.pc = "merge", !.gid = kept, !.orphans = ids \ {kept}]
<1>3. p.pc = "merge" /\ p.gid = kept /\ p.orphans = ids \ {kept} /\ p.cache = {}
  BY DEF Idle
<1>4. Command(w, p)
  BY <1>2
<1> HIDE DEF p
<1>5. /\ me'[w] = p /\ me[w].pc = "idle"
      /\ UNCHANGED <<row, local, groups, values, mishaps>> /\ mishaps \subseteq mishaps'
  BY <1>4, CommandStarts
<1>6. Aware(w)' /\ Lacking(w)'
  BY <1>2, <1>3, <1>5 DEF Aware, Lacking, NotFirst
<1> QED BY <1>5, <1>6, StillTurn

LEMMA CleanCommandSound ==
    ASSUME Typed, Sound, NEW w \in Workers, Turn(w), ~raced', CleanCommand(w)
    PROVE  Sound'
<1>1. PICK v \in Values : \E kept \in Named(row.id, v) :
        Command(w, [Idle EXCEPT !.task = "clean", !.pc = "clean", !.want = v, !.val = kept,
                    !.todo = {u \in In(row.id) : u.id \in Named(row.id, v) \ {kept}}])
  BY DEF CleanCommand
<1>2. PICK kept \in Named(row.id, v) :
        Command(w, [Idle EXCEPT !.task = "clean", !.pc = "clean", !.want = v, !.val = kept,
                    !.todo = {u \in In(row.id) : u.id \in Named(row.id, v) \ {kept}}])
  BY <1>1
<1> DEFINE p == [Idle EXCEPT !.task = "clean", !.pc = "clean", !.want = v, !.val = kept,
                    !.todo = {u \in In(row.id) : u.id \in Named(row.id, v) \ {kept}}]
<1>3. /\ p.pc = "clean" /\ p.want = v /\ p.val = kept /\ p.cache = {} /\ p.orphans = {}
      /\ p.todo = {u \in In(row.id) : u.id \in Named(row.id, v) \ {kept}}
  BY DEF Idle
<1>4. Command(w, p)
  BY <1>2
<1> HIDE DEF p
<1>5. /\ me'[w] = p /\ me[w].pc = "idle"
      /\ UNCHANGED <<row, local, groups, values, mishaps>> /\ mishaps \subseteq mishaps'
  BY <1>4, CommandStarts
<1>6. \E u \in values : u.id = kept /\ u.name = v
  BY <1>2 DEF Named, In
<1>7. \A x, y \in values : x.id = y.id => x = y
  BY DEF Typed, Tables, UniqueIds
<1>8. p.todo \subseteq values /\ \A x \in p.todo : x.id # kept /\ x.name = v
  BY <1>3, <1>7 DEF Named, In
<1>9. me'[w].val \in {u.id : u \in {x \in values' : x.name = me'[w].want}}
  BY <1>3, <1>5, <1>6
<1>10. Aware(w)' /\ Lacking(w)'
  BY <1>3, <1>5, <1>8, <1>9 DEF Aware, Lacking
<1> QED BY <1>5, <1>10, StillTurn

LEMMA ImportCommandSound ==
    ASSUME Typed, Sound, NEW w \in Workers, Turn(w), ~raced', ImportCommand(w)
    PROVE  Sound'
<1>1. PICK g \in groups :
        Command(w, [Idle EXCEPT !.task = "import", !.pc = "remap",
                                !.gid = g.id, !.name = psid, !.val = row.id])
  BY DEF ImportCommand
<1> DEFINE p == [Idle EXCEPT !.task = "import", !.pc = "remap",
                             !.gid = g.id, !.name = psid, !.val = row.id]
<1>2. p.pc = "remap" /\ p.gid = g.id /\ p.val = row.id /\ p.cache = {} /\ p.orphans = {}
  BY DEF Idle
<1>3. Command(w, p)
  BY <1>1
<1> HIDE DEF p
<1>4. /\ me'[w] = p /\ me[w].pc = "idle"
      /\ UNCHANGED <<row, local, groups, values, mishaps>> /\ mishaps \subseteq mishaps'
  BY <1>3, CommandStarts
<1>5. Aware(w)' /\ Lacking(w)'
  BY <1>2, <1>4 DEF Aware, Lacking, GroupExists
<1> QED BY <1>4, <1>5, StillTurn

LEMMA ReconcileCommandSound ==
    ASSUME Typed, Sound, NEW w \in Workers, Turn(w), ~raced', ReconcileCommand(w)
    PROVE  Sound'
<1>1. PICK match \in {0} \cup GroupIds :
        /\ IF Match(groups, Preferred) # {} THEN First(match, Match(groups, Preferred))
           ELSE match = IF GroupExists(row.id) THEN row.id ELSE 0
        /\ Command(w, [Idle EXCEPT !.task = "reconcile", !.pc = "reconcile", !.gid = match])
  BY DEF ReconcileCommand
<1>2. match = 0 \/ \E g \in groups : g.id = match
  BY <1>1 DEF Match, First, GroupExists
<1> DEFINE p == [Idle EXCEPT !.task = "reconcile", !.pc = "reconcile", !.gid = match]
<1>3. p.pc = "reconcile" /\ p.gid = match /\ p.cache = {} /\ p.orphans = {}
  BY DEF Idle
<1>4. Command(w, p)
  BY <1>1
<1> HIDE DEF p
<1>5. /\ me'[w] = p /\ me[w].pc = "idle"
      /\ UNCHANGED <<row, local, groups, values, mishaps>> /\ mishaps \subseteq mishaps'
  BY <1>4, CommandStarts
<1>6. Aware(w)' /\ Lacking(w)'
  BY <1>2, <1>3, <1>5 DEF Aware, Lacking, GroupExists
<1> QED BY <1>5, <1>6, StillTurn

\* All steps.
LEMMA StepSound ==
    ASSUME Typed, Sound, NEW w \in Workers, ~raced',
           \/ Step(w) \/ Operator(w) \/ Fails(w) \/ MergeFails(w) \/ LockTimesOut(w) \/ Stop(w)
           \/ EndBatch(w) \/ \E v \in Values : Ensure(w, v)
    PROVE  Sound'
<1>1. Turn(w)
  BY StepTyped
<1>2. CASE Group_(w)
  BY <1>1, <1>2, FindGroupSound, RemapSound, SearchGroupSound, NewGroupSound, AdoptSound DEF Group_
<1>3. CASE Merge_(w)
  BY <1>1, <1>3, MergeDoneSound, ListOrphanSound, CompareSound, DeleteTwinSound, ForgetTwinSound,
     MoveTwinSound, RemainingSound, DropGroupSound DEF Merge_
<1>4. CASE Value_(w)
  BY <1>1, <1>4, LookingSound, MoveFoundSound, CreateValueSound, StoreSound DEF Value_
<1>5. CASE Maintain(w)
  BY <1>1, <1>5, CleanLocalSound, CleanValueSound, ReconcileListSound, ReconcileApplySound DEF Maintain
<1>6. CASE Operator(w)
  BY <1>1, <1>6, MergeCommandSound, CleanCommandSound, ImportCommandSound, ReconcileCommandSound
     DEF Operator
<1>7. CASE MergeFails(w)
  BY <1>1, <1>7, MergeFailsSound
<1>8. CASE Fails(w) \/ LockTimesOut(w) \/ Stop(w) \/ EndBatch(w) \/ \E v \in Values : Ensure(w, v)
  BY <1>1, <1>8, EndsSound
<1> QED BY <1>2, <1>3, <1>4, <1>5, <1>6, <1>7, <1>8 DEF Step

LEMMA NobodySound ==
    ASSUME Sound, UNCHANGED <<row, local, values, me, mishaps>>,
           \A i : (\E g \in groups : g.id = i) => \E g \in groups' : g.id = i
    PROVE  Sound'
<1>1. ~GroupIsDead'
  BY DEF Sound, GroupIsDead, GroupExists
<1>2. ("row kept" \in mishaps \/ RowsLive)'
  BY DEF Sound, RowsLive, Forgetting, At
<1>3. ASSUME NEW w \in Workers
      PROVE  Aware(w)' /\ (Lacking(w) => Lacking(w)')
  BY DEF Sound, Aware, Lacking, GroupExists, In, Named
<1>4. Single => Single'
  BY DEF Single
<1> QED BY <1>1, <1>2, <1>3, <1>4 DEF Sound

LEMMA NextSound == Typed /\ (raced \/ Sound) /\ [Next]_vars => (raced \/ Sound)'
<1> SUFFICES ASSUME Typed, raced \/ Sound, [Next]_vars, ~raced'
             PROVE  Sound'
  OBVIOUS
<1>1. CASE UNCHANGED vars
  BY <1>1, NobodySound DEF vars, shop
<1>2. ASSUME NEW w \in Workers,
             \/ Step(w) \/ Operator(w) \/ Fails(w) \/ MergeFails(w) \/ LockTimesOut(w) \/ Stop(w)
             \/ EndBatch(w) \/ \E v \in Values : Ensure(w, v)
      PROVE  Sound'
  <2>1. ~raced
    BY <1>2, StepTyped, NotRaced
  <2> QED BY <1>2, <2>1, StepSound
<1>3. CASE NewProduct
  BY <1>3, NobodySound DEF NewProduct, shop
<1>4. CASE Rename
  <2>1. PICK g \in groups : groups' = (groups \ {g}) \cup {[g EXCEPT !.name = Preferred]}
    BY <1>4 DEF Rename
  <2>2. [g EXCEPT !.name = Preferred].id = g.id
    BY DEF Typed, Tables, Group
  <2>3. \A i : (\E h \in groups : h.id = i) => \E h \in groups' : h.id = i
    BY <2>1, <2>2
  <2> QED BY <1>4, <2>3, NobodySound DEF Rename
<1> QED BY <1>1, <1>2, <1>3, <1>4 DEF Next

LEMMA InitSound == Init => Sound
<1> SUFFICES ASSUME Init PROVE Sound
  OBVIOUS
<1>1. UniqueIds(values)
  BY InitTyped DEF Typed, Tables
<1>2. \A v \in values : v.group = v.id
  <2>1. PICK gs \in SUBSET groups, f \in [1..2 -> Values] :
            values = {[id |-> g.id, group |-> g.id, name |-> f[g.id]] : g \in gs}
    BY DEF Init
  <2> QED BY <2>1
<1>3. Single
  BY <1>1, <1>2 DEF Single, UniqueIds
<1>4. me = [w \in Workers |-> Idle] /\ row.id = 0 /\ local = [v \in Values |-> 0]
  BY DEF Init
<1>5. ASSUME NEW w \in Workers
      PROVE  Aware(w) /\ Lacking(w)
  <2>1. me[w].pc = "idle" /\ me[w].cache = {}
    BY <1>4 DEF Idle
  <2> QED BY <2>1 DEF Aware, Lacking
<1>6. RowsLive /\ ~GroupIsDead
  BY <1>4 DEF RowsLive, GroupIsDead
<1> QED BY <1>3, <1>5, <1>6 DEF Sound

\* All of the following hold because of this one: as long as nobody has raced, what
\* each process has read of the shop is still so and the groups lack what is about to
\* be created in them (services.py:526-866).
THEOREM ValuesStayTrue == Spec => []ValuesInv
<1>1. Init => Typed /\ (raced \/ Sound)
  BY InitTyped, InitSound
<1>2. Typed /\ (raced \/ Sound) /\ [Next]_vars => (Typed /\ (raced \/ Sound))'
  BY NextTyped, NextSound
<1>3. Typed /\ (raced \/ Sound) => ValuesInv
  <2>1. Typed => /\ UniqueIds(groups) /\ \A g \in groups : g.id <= groupIds
                 /\ \A v \in values : v.id <= valueIds
                 /\ Racing => raced
                 /\ \A w \in Workers : InPlace(w)
    BY DEF Typed, Tables
  <2>2. raced \/ Sound => MappedIsLive /\ NoTwins
    BY DEF Sound, MappedIsLive, NoTwins, RowsLive, Single
  <2> QED BY <2>1, <2>2 DEF Sound, ValuesInv
<1> QED BY <1>1, <1>2, <1>3, PTL DEF Spec

\* A local row is mapped to a value of the shop with its name, and the local group
\* to a group of the shop, whatever fails and however tasks interleave, unless a merge
\* or a command overlaps with another task.
THEOREM MappedStaysLive == Spec => []MappedIsLive
BY ValuesStayTrue, PTL DEF ValuesInv

\* Tasks that ensure a value at once, or after one that failed half-way, never make a
\* second one in the group.
THEOREM NoSecondValue == Spec => []NoTwins
BY ValuesStayTrue, PTL DEF ValuesInv

\* No name is lost in a step.
LEMMA DeleteKeeps ==
    ASSUME Typed, Sound, NEW w \in Workers, DeleteTwin(w)
    PROVE  \A u \in values : \E x \in values' : x.name = u.name
<1>1. me[w].pc = "each"
  BY DEF DeleteTwin, At
<1>2. PICK v \in me[w].todo : /\ v.name \in me[w].names
                              /\ values' = {u \in values : u.id # v.id} \/ values' = values
  BY DEF DeleteTwin
<1>3. /\ \A x \in me[w].todo : x \in values /\ x.group = me[w].orphan
      /\ \A n \in me[w].names : \E u \in values : u.group = me[w].gid /\ u.name = n
      /\ me[w].orphan # me[w].gid
  BY <1>1, EachKnows
<1>4. \A x, y \in values : x.id = y.id => x = y
  BY DEF Typed, Tables, UniqueIds
<1>5. PICK y \in values : y.group = me[w].gid /\ y.name = v.name
  BY <1>2, <1>3
<1>6. y # v /\ v \in values
  BY <1>3, <1>5
<1>7. \A u \in values : u # v => u \in values'
  BY <1>2, <1>4, <1>6
<1> QED BY <1>5, <1>6, <1>7

LEMMA CleanKeeps ==
    ASSUME Typed, Sound, NEW w \in Workers, CleanValue(w)
    PROVE  \A u \in values : \E x \in values' : x.name = u.name
<1>1. me[w].pc = "clean all"
  BY DEF CleanValue, At
<1>2. CASE values' = values
  BY <1>2
<1>3. ASSUME NEW v \in me[w].todo, values' = {u \in values : u.id # v.id}
      PROVE  \A u \in values : \E x \in values' : x.name = u.name
  <2>1. /\ \E u \in values : u.id = me[w].val /\ u.name = me[w].want
        /\ v \in values /\ v.id # me[w].val /\ v.name = me[w].want
    BY <1>1 DEF Sound, Aware
  <2>2. \A x, y \in values : x.id = y.id => x = y
    BY DEF Typed, Tables, UniqueIds
  <2>3. PICK y \in values' : y.name = v.name
    BY <1>3, <2>1
  <2>4. \A u \in values : u # v => u \in values'
    BY <1>3, <2>1, <2>2
  <2> QED BY <2>3, <2>4
<1> QED BY <1>2, <1>3 DEF CleanValue

LEMMA DropKeeps ==
    ASSUME Sound, NEW w \in Workers, DropGroup(w)
    PROVE  values' = values
<1>1. In(me[w].orphan) = {}
  BY DEF DropGroup, At, Sound, Aware
<1> QED BY <1>1 DEF DropGroup, In

LEMMA MoveKeeps ==
    ASSUME Typed, NEW w \in Workers, MoveTwin(w) \/ MoveFound(w)
    PROVE  \A u \in values : \E x \in values' : x.name = u.name
<1>1. me[w].gid \in GroupIds
  BY GidTyped DEF MoveTwin, MoveFound, At
<1>2. (\E i : values' = Moved(i, me[w].gid)) \/ values' = values
  BY DEF MoveTwin, MoveFound
<1>3. ASSUME NEW i, values' = Moved(i, me[w].gid)
      PROVE  \A u \in values : \E x \in values' : x.name = u.name
  BY <1>1, <1>3, MovedValues
<1> QED BY <1>2, <1>3

LEMMA StepKeeps ==
    ASSUME Typed, Sound, Next
    PROVE  \A u \in values : \E x \in values' : x.name = u.name
<1>1. CASE values \subseteq values'
  BY <1>1
<1>2. ASSUME NEW w \in Workers, Group_(w)
      PROVE  values' = values
  BY <1>2 DEF Group_, FindGroup, Remap, SearchGroup, NewGroup, Adopt, shop
<1>3. ASSUME NEW w \in Workers, Merge_(w)
      PROVE  \A u \in values : \E x \in values' : x.name = u.name
  <2>1. CASE MergeDone(w) \/ ListOrphan(w) \/ Compare(w) \/ ForgetTwin(w) \/ Remaining(w)
    BY <1>1, <2>1 DEF MergeDone, ListOrphan, Compare, ForgetTwin, Remaining, shop
  <2> QED BY <1>1, <1>3, <2>1, DeleteKeeps, DropKeeps, MoveKeeps DEF Merge_
<1>4. ASSUME NEW w \in Workers, Value_(w)
      PROVE  \A u \in values : \E x \in values' : x.name = u.name
  <2>1. CASE \/ FindValue(w) \/ LockValue(w) \/ CheckValue(w) \/ FindRemote(w) \/ FindTwins(w)
             \/ FindInTwin(w) \/ CreateValue(w) \/ Store(w)
    BY <1>1, <2>1 DEF FindValue, LockValue, CheckValue, FindRemote, FindTwins, FindInTwin,
       CreateValue, Store, shop
  <2> QED BY <1>4, <2>1, MoveKeeps DEF Value_
<1>5. ASSUME NEW w \in Workers, Maintain(w)
      PROVE  \A u \in values : \E x \in values' : x.name = u.name
  <2>1. CASE CleanLocal(w) \/ ReconcileList(w) \/ ReconcileApply(w)
    BY <1>1, <2>1 DEF CleanLocal, ReconcileList, ReconcileApply, shop
  <2> QED BY <1>5, <2>1, CleanKeeps DEF Maintain
<1>6. ASSUME NEW w \in Workers, Operator(w)
      PROVE  values' = values
  BY <1>6 DEF Operator, MergeCommand, CleanCommand, ImportCommand, ReconcileCommand, Command, shop
<1>7. ASSUME NEW w \in Workers,
             \/ Fails(w) \/ MergeFails(w) \/ LockTimesOut(w) \/ Stop(w)
             \/ EndBatch(w) \/ \E v \in Values : Ensure(w, v)
      PROVE  values' = values
  BY <1>7 DEF Fails, MergeFails, LockTimesOut, Stop, EndBatch, Ensure, shop
<1>8. CASE NewProduct \/ Rename
  BY <1>1, <1>8 DEF NewProduct, Rename, shop
<1> QED BY <1>1, <1>2, <1>3, <1>4, <1>5, <1>6, <1>7, <1>8 DEF Next, Step

LEMMA KeepsNames ==
    ASSUME Typed, raced \/ Sound, [Next]_vars
    PROVE  UNCHANGED vars \/ raced' \/ {v.name : v \in values} \subseteq {v.name : v \in values'}
<1>1. CASE Sound /\ Next
  <2>1. \A u \in values : \E x \in values' : x.name = u.name
    BY <1>1, StepKeeps
  <2> QED BY <2>1
<1>2. CASE raced /\ Next
  <2>1. ASSUME NEW w \in Workers,
             \/ Step(w) \/ Operator(w) \/ Fails(w) \/ MergeFails(w) \/ LockTimesOut(w) \/ Stop(w)
             \/ EndBatch(w) \/ \E v \in Values : Ensure(w, v)
        PROVE  raced'
    BY <1>2, <2>1, StepTyped DEF Turn
  <2>2. CASE NewProduct \/ Rename
    BY <1>2, <2>2 DEF NewProduct, Rename
  <2> QED BY <1>2, <2>1, <2>2 DEF Next
<1> QED BY <1>1, <1>2

\* Merging groups and cleaning up never takes the last value of a name from the shop:
\* a value is deleted only when the group that is kept has one of that name.
THEOREM NamesAreKept == Spec => NoValueLost
<1> DEFINE Kept == raced' \/ {v.name : v \in values} \subseteq {v.name : v \in values'}
<1>1. Init => Typed /\ (raced \/ Sound)
  BY InitTyped, InitSound
<1>2. Typed /\ (raced \/ Sound) /\ [Next]_vars => (Typed /\ (raced \/ Sound))'
  BY NextTyped, NextSound
<1>3. Typed /\ (raced \/ Sound) /\ [Next]_vars => [Kept]_vars
  BY KeepsNames DEF Kept
<1> QED BY <1>1, <1>2, <1>3, PTL DEF Spec, NoValueLost, Kept
=============================================================================
