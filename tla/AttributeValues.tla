-------------------------- MODULE AttributeValues --------------------------
(***************************************************************************)
(* The attribute values that combinations are made of: one local           *)
(* AttributeGroup with its AttributeValue rows, the groups and values of   *)
(* the shop, ensure_attribute_group and ensure_attribute_value of          *)
(* apps/prestashop/services.py, and the maintenance commands that work on  *)
(* the same rows.                                                          *)
(*                                                                         *)
(* The group is the size group, which all products share, or the color     *)
(* group of one product.  Its name in the shop is a number: a color group  *)
(* is named after a prestashop_id of its product, 1 and up, or after its   *)
(* reference, 0; the size group is named "Size", 0.                        *)
(***************************************************************************)
EXTENDS Naturals, FiniteSets

CONSTANTS
    Workers,        \* processes that export combinations, and operators
    Values,         \* the sizes or colors of ICG
    Free, Orphan,   \* of LeaseMutex
    MaxPsid,        \* bound: prestashop_ids that the product ever has
    MaxGroups,      \* bound: groups that the shop ever creates
    MaxValues,      \* bound: values that the shop ever creates
    MaxEvents       \* bound: failures, deaths, commands, what the shop does itself

ASSUME AttributeAssumption ==
    /\ MaxPsid \in Nat \ {0} /\ MaxEvents \in Nat
    /\ MaxGroups \in Nat \ {0, 1} /\ MaxValues \in Nat \ {0, 1}
    /\ Free # Orphan /\ {Free, Orphan} \cap Workers = {}

VARIABLES
    icg,            \* AttributeGroup.icg_type
    psid,           \* Product.prestashop_id, of the product of a color group
    row,            \* the AttributeGroup: its prestashop_id, 0 if none, and name
    local,          \* AttributeValue.prestashop_id by icg_value, 0 if none
    groups,         \* the groups of the shop
    values,         \* the values of the shop
    groupIds,       \* the last group id that the shop has given out
    valueIds,       \* the last value id that the shop has given out
    holder,         \* the locks of the values
    me,             \* what each process knows
    raced,          \* history: somebody was at work while somebody else merged
    mishaps,        \* history: what else the code does not guard against
    events          \* how many of those there were

shop == <<groups, values, groupIds, valueIds>>
vars == <<icg, psid, row, local, shop, holder, me, raced, mishaps, events>>
-----------------------------------------------------------------------------
GroupIds == 1..MaxGroups
ValueIds == 1..MaxValues
GroupNames == 0..MaxPsid
\* A value was deleted in the shop but its row was not; a value moved but the
\* answer got lost.
Mishaps == {"row kept", "moved unnoticed"}

Group == [id : GroupIds, name : GroupNames]
Value == [id : ValueIds, group : GroupIds, name : Values]
NoValue == "none"
Places == {"idle", "next", "group", "remap", "search", "new group", "adopt",
           "merge", "compare", "each", "forget", "drop group",
           "value", "lock", "check", "find", "twins", "twin", "move", "create", "store",
           "clean", "clean all", "reconcile", "apply"}

\* What is local to a process: what it does and where it is, the value it wants,
\* the group it uses and the name for it, _attribute_groups_cache, the groups and
\* values that it has yet to go through, and what it has read on the way.
Process ==
    [task : {"none", "ensure", "merge", "clean", "import", "reconcile"}, pc : Places,
     want : Values \cup {NoValue}, gid : {0} \cup GroupIds, name : GroupNames,
     listed : BOOLEAN, cache : SUBSET Group, orphans : SUBSET GroupIds, orphan : {0} \cup GroupIds,
     todo : SUBSET Value, names : SUBSET Values, val : {0} \cup ValueIds \cup GroupIds]

Idle == [task |-> "none", pc |-> "idle", want |-> NoValue, gid |-> 0, name |-> 0,
         listed |-> FALSE, cache |-> {}, orphans |-> {}, orphan |-> 0,
         todo |-> {}, names |-> {}, val |-> 0]

Lock == INSTANCE LeaseMutex WITH Keys <- GroupIds \X Values

TypeOK ==
    /\ icg \in {"size", "color"}
    /\ psid \in 1..MaxPsid
    /\ row \in [id : {0} \cup GroupIds, name : GroupNames]
    /\ local \in [Values -> {0} \cup ValueIds]
    /\ groups \subseteq Group
    /\ values \subseteq Value
    /\ \A u, v \in values : u.id = v.id => u = v
    /\ groupIds \in GroupIds
    /\ valueIds \in ValueIds
    /\ holder \in [GroupIds \X Values -> Workers \cup {Free, Orphan}]
    /\ me \in [Workers -> Process]
    /\ raced \in BOOLEAN /\ mishaps \subseteq Mishaps
    /\ events \in 0..MaxEvents

\* The catalog of the shop may be older than its mapping: up to two groups with
\* up to one value each.
Init ==
    /\ icg \in {"size", "color"}
    /\ psid = 1
    /\ row = [id |-> 0, name |-> 0]
    /\ local = [v \in Values |-> 0]
    /\ groups \in {{[id |-> i, name |-> f[i]] : i \in 1..n} :
                       n \in 0..2, f \in [1..2 -> IF icg = "color" THEN {0, 1} ELSE {0}]}
    /\ values \in {{[id |-> g.id, group |-> g.id, name |-> f[g.id]] : g \in gs} :
                       gs \in SUBSET groups, f \in [1..2 -> Values]}
    /\ groupIds = 2
    /\ valueIds = 2
    /\ Lock!Init
    /\ me = [w \in Workers |-> Idle]
    /\ raced = FALSE
    /\ mishaps = {}
    /\ events = 0
-----------------------------------------------------------------------------
Event == events < MaxEvents /\ events' = events + 1
NoEvent == UNCHANGED events

Note(mishap, happens) ==
    mishaps' = IF happens THEN mishaps \cup {mishap} ELSE mishaps

\* Somebody merges, cleans up or remaps while somebody else is at work, or has an
\* old list of the groups.
Merging(w) ==
    \/ me[w].task \in {"merge", "clean", "import", "reconcile"}
    \/ me[w].pc \in {"remap", "compare", "each", "forget", "drop group"}
    \/ me[w].pc \in {"adopt", "merge"} /\ me[w].orphans # {}

Racing ==
    \E w, v \in Workers :
        w # v /\ Merging(w) /\ (me[v].listed \/ me[v].pc \notin {"idle", "next"})

At(w, place) == me[w].pc = place

\* Every step of a process ends here.
Becomes(w, p) ==
    /\ me' = [me EXCEPT ![w] = p]
    /\ raced' = (raced \/ Racing')

Goto(w, place) == Becomes(w, [me[w] EXCEPT !.pc = place])

\* The name that the group should have.
Preferred == IF icg = "color" THEN psid ELSE 0

\* A local row is mapped to the value.
Known(i) == \E v \in Values : local[v] = i

GroupExists(i) == \E g \in groups : g.id = i
In(i) == {v \in values : v.group = i}
Named(i, n) == {v.id : v \in {u \in In(i) : u.name = n}}
First(i, ids) == i \in ids /\ \A j \in ids : i <= j
Last(i, ids) == i \in ids /\ \A j \in ids : j <= i

\* list_attribute_groups
Listing(w) == IF me[w].listed THEN me[w].cache ELSE groups

\* The groups with one of the preferred names: the first name counts most.
Match(list, name) ==
    LET best == {g.id : g \in {h \in list : h.name = name}}
    IN  IF best # {} THEN best ELSE {g.id : g \in {h \in list : h.name = 0}}

\* Other groups that have the name of a group.
Twins(list, i) ==
    {g.id : g \in {h \in list : h.id # i /\ [id |-> i, name |-> h.name] \in list}}

\* An exception leaves the with statement; a batch goes on with the same client.
Failed(w) ==
    /\ Lock!Unwind(w)
    /\ \/ Becomes(w, Idle)
       \/ /\ me[w].task = "ensure"
          /\ Becomes(w, [Idle EXCEPT !.task = "ensure", !.pc = "next",
                                     !.listed = me[w].listed, !.cache = me[w].cache])

\* A request of an export fails.
Fails(w) ==
    /\ \E place \in {"group", "search", "new group", "find", "twins", "twin", "create", "store"} :
        At(w, place)
    /\ Event
    /\ Failed(w)
    /\ UNCHANGED <<icg, psid, row, local, shop, mishaps>>

\* The batch is done, and with it the client.
EndBatch(w) ==
    /\ At(w, "next")
    /\ Becomes(w, Idle)
    /\ UNCHANGED <<icg, psid, row, local, shop, holder, mishaps, events>>

\* The process dies.
Stop(w) ==
    /\ me[w].pc \notin {"idle", "next"}
    /\ Event
    /\ Lock!Die(w)
    /\ Becomes(w, Idle)
    /\ Note("row kept", At(w, "forget") /\ Known(me[w].val))
    /\ UNCHANGED <<icg, psid, row, local, shop>>
-----------------------------------------------------------------------------
(* ensure_attribute_group *)

\* A combination of a batch, or of a task of its own, needs a value.
Ensure(w, v) ==
    /\ me[w].pc \in {"idle", "next"}
    /\ Becomes(w, [Idle EXCEPT !.task = "ensure", !.pc = "group", !.want = v,
                               !.listed = me[w].listed, !.cache = me[w].cache])
    /\ UNCHANGED <<icg, psid, row, local, shop, holder, mishaps, events>>

\* The group is known under its preferred name, or is looked up in the shop by
\* that name and by the older one.
FindGroup(w) ==
    /\ At(w, "group")
    /\ LET list == Listing(w)
           found == Match(list, Preferred)
           known == [me[w] EXCEPT !.pc = "value", !.gid = row.id]
           here == [me[w] EXCEPT !.listed = TRUE, !.cache = list, !.name = Preferred]
           mapped == row.id # 0
       IN  \/ /\ icg = "color" /\ mapped /\ row.name = Preferred
              /\ Becomes(w, known)
           \/ /\ icg = "color" /\ mapped /\ row.name # Preferred
              /\ \/ /\ \E g \in list : g.name = Preferred
                    /\ \E match \in found :
                        /\ First(match, found)
                        /\ Becomes(w, [here EXCEPT !.pc = "remap", !.gid = match, !.val = row.id,
                                                   !.orphans = Twins(list, match)])
                 \/ /\ ~\E g \in list : g.name = Preferred
                    /\ Becomes(w, [here EXCEPT !.pc = "value", !.gid = row.id])
           \/ /\ icg = "size" \/ ~mapped
              /\ \E match \in found :
                    /\ First(match, found)
                    /\ Becomes(w, [here EXCEPT !.pc = "adopt", !.gid = match,
                                               !.orphans = Twins(list, match)])
           \/ /\ icg = "size" /\ mapped
              /\ found = {}
              /\ Becomes(w, [here EXCEPT !.pc = "value", !.gid = row.id])
           \/ /\ ~mapped
              /\ found = {}
              /\ Becomes(w, [here EXCEPT !.pc = "search"])
    /\ UNCHANGED <<icg, psid, row, local, shop, holder, mishaps, events>>

\* The local group moves to the group that has the preferred name: one
\* transaction, that also drops the values of the group it had.  A row that is
\* there by now is left as it is, one that is gone by now is an error.
Remap(w) ==
    /\ At(w, "remap")
    /\ LET had == me[w].val
           then == IF me[w].task = "import" THEN Idle ELSE [me[w] EXCEPT !.pc = "merge", !.val = 0]
       IN  \/ /\ had = 0 <=> row.id = 0
              /\ row' = [id |-> me[w].gid, name |-> me[w].name]
              /\ local' = IF had # me[w].gid THEN [v \in Values |-> 0] ELSE local
              /\ Becomes(w, then)
              /\ UNCHANGED holder
           \/ /\ ~(had = 0 <=> row.id = 0)
              /\ IF had = 0 THEN Becomes(w, then) /\ UNCHANGED holder ELSE Failed(w)
              /\ UNCHANGED <<row, local>>
    /\ UNCHANGED <<icg, psid, shop, mishaps, events>>

\* find_attribute_group_id_by_name
SearchGroup(w) ==
    /\ At(w, "search")
    /\ LET found == {g.id : g \in {h \in groups : h.name = me[w].name}}
       IN  \/ found = {} /\ Goto(w, "new group")
           \/ \E match \in found :
                /\ First(match, found)
                /\ Becomes(w, [me[w] EXCEPT !.pc = "adopt", !.gid = match])
    /\ UNCHANGED <<icg, psid, row, local, shop, holder, mishaps, events>>

\* create_attribute_group, which also enters the group in the cache.
NewGroup(w) ==
    /\ At(w, "new group")
    /\ groupIds < MaxGroups
    /\ groupIds' = groupIds + 1
    /\ LET new == [id |-> groupIds', name |-> me[w].name]
       IN  /\ groups' = groups \cup {new}
           /\ \/ /\ Becomes(w, [me[w] EXCEPT !.pc = "adopt", !.gid = new.id, !.cache = @ \cup {new}])
                 /\ UNCHANGED <<holder, events>>
              \/ Event /\ Failed(w)
    /\ UNCHANGED <<icg, psid, row, local, values, valueIds, mishaps>>

\* update_or_create: the values that the local group has stay.
Adopt(w) ==
    /\ At(w, "adopt")
    /\ row' = [id |-> me[w].gid, name |-> me[w].name]
    /\ Goto(w, IF me[w].orphans = {} THEN "value" ELSE "merge")
    /\ UNCHANGED <<icg, psid, local, shop, holder, mishaps, events>>
-----------------------------------------------------------------------------
(* _merge_duplicate_remote_groups and merge_duplicate_attribute_groups *)

\* All orphans are done.
MergeDone(w) ==
    /\ At(w, "merge")
    /\ me[w].orphans = {}
    /\ Becomes(w, IF me[w].task = "merge" THEN Idle ELSE [me[w] EXCEPT !.pc = "value"])
    /\ UNCHANGED <<icg, psid, row, local, shop, holder, mishaps, events>>

\* The orphan is left as it is.
Skip(w) == Becomes(w, [me[w] EXCEPT !.pc = "merge", !.orphan = 0, !.todo = {}, !.names = {}])

ListOrphan(w) ==
    /\ At(w, "merge")
    /\ \E o \in me[w].orphans :
        Becomes(w, [me[w] EXCEPT !.pc = "compare", !.orphan = o, !.orphans = @ \ {o}, !.todo = In(o)])
    /\ UNCHANGED <<icg, psid, row, local, shop, holder, mishaps, events>>

\* Mutant: the values of the group are taken for those of the orphan.
Compare_all(w) ==
    /\ At(w, "compare")
    /\ Becomes(w, [me[w] EXCEPT !.pc = "each", !.names = Values])
    /\ UNCHANGED <<icg, psid, row, local, shop, holder, mishaps, events>>

Compare(w) ==
    /\ At(w, "compare")
    /\ Becomes(w, [me[w] EXCEPT !.pc = "each", !.names = {v.name : v \in In(me[w].gid)}])
    /\ UNCHANGED <<icg, psid, row, local, shop, holder, mishaps, events>>

\* One of the two listings, the last listing or a deletion of the group fails.
MergeFails(w) ==
    /\ At(w, "compare") \/ At(w, "drop group") \/ (At(w, "each") /\ me[w].todo = {})
    /\ Event
    /\ Skip(w)
    /\ UNCHANGED <<icg, psid, row, local, shop, holder, mishaps>>

Done(w, v) == [me[w] EXCEPT !.todo = @ \ {v}]

\* A value of the orphan that the group has, too, is deleted.  The command
\* leaves the local row of the value alone.
DeleteTwin(w) ==
    /\ At(w, "each")
    /\ \E v \in me[w].todo :
        /\ v.name \in me[w].names
        /\ LET there == \E u \in values : u.id = v.id
           IN  \/ /\ there
                  /\ values' = {u \in values : u.id # v.id}
                  /\ \/ /\ me[w].task = "ensure"
                        /\ Becomes(w, [Done(w, v) EXCEPT !.pc = "forget", !.val = v.id])
                        /\ NoEvent /\ UNCHANGED mishaps
                     \/ /\ IF me[w].task = "merge" THEN NoEvent ELSE Event
                        /\ Becomes(w, Done(w, v))
                        /\ Note("row kept", Known(v.id))
               \/ /\ IF there THEN Event ELSE NoEvent
                  /\ Becomes(w, Done(w, v))
                  /\ UNCHANGED <<values, mishaps>>
    /\ UNCHANGED <<icg, psid, row, local, groups, groupIds, valueIds, holder>>

\* Mutant: the row of the deleted value stays.
ForgetTwin_not(w) ==
    /\ At(w, "forget")
    /\ Becomes(w, [me[w] EXCEPT !.pc = "each", !.val = 0])
    /\ UNCHANGED <<icg, psid, row, local, shop, holder, mishaps, events>>

ForgetTwin(w) ==
    /\ At(w, "forget")
    /\ local' = [v \in Values |-> IF local[v] = me[w].val THEN 0 ELSE local[v]]
    /\ Becomes(w, [me[w] EXCEPT !.pc = "each", !.val = 0])
    /\ UNCHANGED <<icg, psid, row, shop, holder, mishaps, events>>

\* Mutant: the value is posted again.
Moved_again(i, g) == values \cup {[u EXCEPT !.group = g] : u \in {x \in values : x.id = i}}

\* GET and PUT of a value, with another group.
Moved(i, g) == {IF u.id = i THEN [u EXCEPT !.group = g] ELSE u : u \in values}
CanMove(i, g) == GroupExists(g) /\ \E u \in values : u.id = i

\* Any other value moves into the group; the client forgets its list of groups.
MoveTwin(w) ==
    /\ At(w, "each")
    /\ \E v \in me[w].todo :
        /\ v.name \notin me[w].names
        /\ \/ /\ CanMove(v.id, me[w].gid)
              /\ values' = Moved(v.id, me[w].gid)
              /\ \/ /\ Becomes(w, [Done(w, v) EXCEPT !.names = @ \cup {v.name},
                                                     !.listed = FALSE, !.cache = {}])
                    /\ UNCHANGED <<mishaps, events>>
                 \/ Event /\ Becomes(w, Done(w, v)) /\ Note("moved unnoticed", TRUE)
           \/ /\ IF CanMove(v.id, me[w].gid) THEN Event ELSE NoEvent
              /\ Becomes(w, Done(w, v))
              /\ UNCHANGED <<values, mishaps>>
    /\ UNCHANGED <<icg, psid, row, local, groups, groupIds, valueIds, holder>>

\* Is the orphan empty now?
Remaining(w) ==
    /\ At(w, "each")
    /\ me[w].todo = {}
    /\ \/ In(me[w].orphan) = {} /\ Goto(w, "drop group")
       \/ In(me[w].orphan) # {} /\ Skip(w)
    /\ UNCHANGED <<icg, psid, row, local, shop, holder, mishaps, events>>

\* The shop deletes the values of a group with it.
DropGroup(w) ==
    /\ At(w, "drop group")
    /\ groups' = {g \in groups : g.id # me[w].orphan}
    /\ values' = {v \in values : v.group # me[w].orphan}
    /\ \/ /\ GroupExists(me[w].orphan)
          /\ Becomes(w, [me[w] EXCEPT !.pc = "merge", !.orphan = 0, !.todo = {}, !.names = {},
                                      !.listed = FALSE, !.cache = {}])
          /\ NoEvent
       \/ /\ IF GroupExists(me[w].orphan) THEN Event ELSE NoEvent
          /\ Skip(w)
    /\ UNCHANGED <<icg, psid, row, local, groupIds, valueIds, holder, mishaps>>
-----------------------------------------------------------------------------
(* ensure_attribute_value *)

\* The combination gets the value; the batch goes on.
Ensured(w) == Becomes(w, [Idle EXCEPT !.task = "ensure", !.pc = "next",
                                      !.listed = me[w].listed, !.cache = me[w].cache])

Key(w) == <<me[w].gid, me[w].want>>

\* The local group is read again by its prestashop_id; the value may be known.
FindValue(w) ==
    /\ At(w, "value")
    /\ IF row.id # me[w].gid THEN Failed(w)
       ELSE /\ UNCHANGED holder
            /\ IF local[me[w].want] # 0 THEN Ensured(w) ELSE Goto(w, "lock")
    /\ UNCHANGED <<icg, psid, row, local, shop, mishaps, events>>

\* Mutant: no lock.
LockValue_not(w) ==
    /\ At(w, "lock")
    /\ Goto(w, "check")
    /\ UNCHANGED <<icg, psid, row, local, shop, holder, mishaps, events>>

\* sync_lock, tried once a second.
LockValue(w) ==
    /\ At(w, "lock")
    /\ Lock!Acquire(Key(w), w)
    /\ Goto(w, "check")
    /\ UNCHANGED <<icg, psid, row, local, shop, mishaps, events>>

\* The deadline is over.
LockTimesOut(w) ==
    /\ At(w, "lock")
    /\ Lock!Refused(Key(w))
    /\ Event
    /\ Failed(w)
    /\ UNCHANGED <<icg, psid, row, local, shop, mishaps>>

CheckValue(w) ==
    /\ At(w, "check")
    /\ IF local[me[w].want] # 0
       THEN Ensured(w) /\ Lock!Unwind(w)
       ELSE Goto(w, "find") /\ UNCHANGED holder
    /\ UNCHANGED <<icg, psid, row, local, shop, mishaps, events>>

\* find_attribute_value_id in the group itself
FindRemote(w) ==
    /\ At(w, "find")
    /\ LET found == Named(me[w].gid, me[w].want)
       IN  \/ /\ found # {}
              /\ \E i \in found : Becomes(w, [me[w] EXCEPT !.pc = "store", !.val = i])
           \/ found = {} /\ Goto(w, "twins")
    /\ UNCHANGED <<icg, psid, row, local, shop, holder, mishaps, events>>

\* _find_value_in_duplicate_groups: the groups with the name of the local one ...
FindTwins(w) ==
    /\ At(w, "twins")
    /\ IF row.id # me[w].gid THEN Goto(w, "create")
       ELSE LET list == Listing(w)
            IN  Becomes(w, [me[w] EXCEPT !.pc = "twin", !.listed = TRUE, !.cache = list,
                    !.orphans = {g.id : g \in {h \in list : h.id # row.id /\ h.name = row.name}}])
    /\ UNCHANGED <<icg, psid, row, local, shop, holder, mishaps, events>>

\* ... are searched one after the other
FindInTwin(w) ==
    /\ At(w, "twin")
    /\ \/ me[w].orphans = {} /\ Goto(w, "create")
       \/ \E o \in me[w].orphans :
            LET found == Named(o, me[w].want)
            IN  \/ /\ found = {}
                   /\ Becomes(w, [me[w] EXCEPT !.orphans = @ \ {o}])
                \/ \E i \in found : Becomes(w, [me[w] EXCEPT !.pc = "move", !.val = i, !.orphans = {}])
    /\ UNCHANGED <<icg, psid, row, local, shop, holder, mishaps, events>>

\* ... and what is found moves into the group.  When that fails a value is created.
MoveFound(w) ==
    /\ At(w, "move")
    /\ \/ /\ CanMove(me[w].val, me[w].gid)
          /\ values' = Moved(me[w].val, me[w].gid)
          /\ \/ /\ Becomes(w, [me[w] EXCEPT !.pc = "store", !.listed = FALSE, !.cache = {}])
                /\ UNCHANGED <<mishaps, events>>
             \/ /\ Event
                /\ Becomes(w, [me[w] EXCEPT !.pc = "create", !.val = 0])
                /\ Note("moved unnoticed", TRUE)
       \/ /\ IF CanMove(me[w].val, me[w].gid) THEN Event ELSE NoEvent
          /\ Becomes(w, [me[w] EXCEPT !.pc = "create", !.val = 0])
          /\ UNCHANGED <<values, mishaps>>
    /\ UNCHANGED <<icg, psid, row, local, groups, groupIds, valueIds, holder>>

\* create_attribute_value; the answer may get lost.
CreateValue(w) ==
    /\ At(w, "create")
    /\ \/ /\ GroupExists(me[w].gid)
          /\ valueIds < MaxValues
          /\ valueIds' = valueIds + 1
          /\ values' = values \cup {[id |-> valueIds', group |-> me[w].gid, name |-> me[w].want]}
          /\ \/ /\ Becomes(w, [me[w] EXCEPT !.pc = "store", !.val = valueIds'])
                /\ UNCHANGED <<holder, events>>
             \/ Event /\ Failed(w)
       \/ /\ ~GroupExists(me[w].gid)
          /\ Failed(w)
          /\ UNCHANGED <<values, valueIds, events>>
    /\ UNCHANGED <<icg, psid, row, local, groups, groupIds, mishaps>>

\* update_or_create, and the lock is released.
Store(w) ==
    /\ At(w, "store")
    /\ local' = [local EXCEPT ![me[w].want] = me[w].val]
    /\ Lock!Unwind(w)
    /\ Ensured(w)
    /\ UNCHANGED <<icg, psid, row, shop, mishaps, events>>
-----------------------------------------------------------------------------
(* Commands of operators, and the shop *)

Command(w, p) ==
    /\ At(w, "idle")
    /\ Event
    /\ Becomes(w, p)
    /\ UNCHANGED <<icg, psid, row, local, shop, holder, mishaps>>

\* merge_duplicate_attribute_groups, for one of the names: the group that Django
\* knows is kept, or the one with most values.
MergeCommand(w) ==
    \E name \in {g.name : g \in groups} :
        LET ids == {g.id : g \in {h \in groups : h.name = name}}
            size(i) == Cardinality(In(i))
            most == {i \in ids : \A j \in ids : size(j) <= size(i)}
        IN  \E kept \in ids :
            /\ IF row.id \in ids THEN kept = row.id ELSE First(kept, most)
            /\ ids # {kept}
            /\ Command(w, [Idle EXCEPT !.task = "merge", !.pc = "merge",
                                       !.gid = kept, !.orphans = ids \ {kept}])

\* cleanup_duplicate_attribute_values, for one of the names in the size group.
CleanCommand(w) ==
    \E v \in Values :
        LET ids == Named(row.id, v)
        IN  \E kept \in ids :
            /\ icg = "size"
            /\ IF local[v] \in ids THEN kept = local[v] ELSE First(kept, ids)
            /\ ids # {kept}
            /\ \A u \in Values \ {v} : local[u] \notin ids \ {kept}
            /\ Command(w, [Idle EXCEPT !.task = "clean", !.pc = "clean", !.want = v, !.val = kept,
                                       !.todo = {u \in In(row.id) : u.id \in ids \ {kept}}])

\* A local row with a dead prestashop_id gets the one that is kept.
CleanLocal(w) ==
    /\ At(w, "clean")
    /\ LET v == me[w].want
           ids == {u.id : u \in me[w].todo} \cup {me[w].val}
       IN  local' = IF local[v] # 0 /\ local[v] \notin ids
                    THEN [local EXCEPT ![v] = me[w].val] ELSE local
    /\ Goto(w, "clean all")
    /\ UNCHANGED <<icg, psid, row, shop, holder, mishaps, events>>

CleanValue(w) ==
    /\ At(w, "clean all")
    /\ \/ me[w].todo = {} /\ Becomes(w, Idle) /\ UNCHANGED <<values, mishaps, events>>
       \/ \E v \in me[w].todo :
            /\ Becomes(w, Done(w, v))
            /\ \/ /\ values' = {u \in values : u.id # v.id}
                  /\ Note("row kept", Known(v.id))
                  /\ NoEvent
               \/ Event /\ UNCHANGED <<values, mishaps>>
    /\ UNCHANGED <<icg, psid, row, local, groups, groupIds, valueIds, holder>>

\* import_missing_color_groups: the local group follows the name.
ImportCommand(w) ==
    LET named == {g.id : g \in {h \in groups : h.name = psid}}
    IN  /\ icg = "color"
        /\ row.id = 0 \/ row.name # psid
        /\ \E i \in named :
            Command(w, [Idle EXCEPT !.task = "import", !.pc = "remap",
                                    !.gid = i, !.name = psid, !.val = row.id])

\* reconcile_prestashop_attribute_mappings: the groups are listed, ...
ReconcileCommand(w) ==
    LET found == Match(groups, Preferred)
    IN  /\ row.id # 0
        /\ \E match \in {0} \cup GroupIds :
            /\ IF found # {} THEN First(match, found)
               ELSE match = IF GroupExists(row.id) THEN row.id ELSE 0
            /\ Command(w, [Idle EXCEPT !.task = "reconcile", !.pc = "reconcile", !.gid = match])

\* ... then the values of the group that matches, ...
ReconcileList(w) ==
    /\ At(w, "reconcile")
    /\ Becomes(w, [me[w] EXCEPT !.pc = "apply", !.todo = In(me[w].gid)])
    /\ UNCHANGED <<icg, psid, row, local, shop, holder, mishaps, events>>

\* ... and the ids follow.  What has no match is kept, or pruned with
\* --prune-missing-local.
ReconcileApply(w) ==
    /\ At(w, "apply")
    /\ LET g == me[w].gid
           ids(v) == {u.id : u \in {x \in me[w].todo : x.name = v}}
       IN  \E prune \in BOOLEAN :
            /\ row' = IF g # 0 THEN [row EXCEPT !.id = g]
                      ELSE IF prune THEN [id |-> 0, name |-> 0] ELSE row
            /\ local' \in {f \in [Values -> {0} \cup ValueIds] : \A v \in Values :
                    IF local[v] # 0 /\ ids(v) # {} THEN Last(f[v], ids(v))
                    ELSE f[v] = IF prune THEN 0 ELSE local[v]}
    /\ Becomes(w, Idle)
    /\ UNCHANGED <<icg, psid, shop, holder, mishaps, events>>

\* The product is created anew after its prestashop_id was reset.
NewProduct ==
    /\ icg = "color"
    /\ psid < MaxPsid
    /\ Event
    /\ psid' = psid + 1
    /\ UNCHANGED <<icg, row, local, shop, holder, me, raced, mishaps>>

\* Shop staff give a group the name that it should have.
Rename ==
    /\ \E g \in groups :
        /\ g.name # Preferred
        /\ groups' = (groups \ {g}) \cup {[g EXCEPT !.name = Preferred]}
    /\ Event
    /\ UNCHANGED <<icg, psid, row, local, values, groupIds, valueIds, holder, me, raced, mishaps>>
-----------------------------------------------------------------------------
Group_(w) == FindGroup(w) \/ Remap(w) \/ SearchGroup(w) \/ NewGroup(w) \/ Adopt(w)
Merge_(w) ==
    \/ MergeDone(w) \/ ListOrphan(w) \/ Compare(w) \/ DeleteTwin(w) \/ ForgetTwin(w)
    \/ MoveTwin(w) \/ Remaining(w) \/ DropGroup(w)
Value_(w) ==
    \/ FindValue(w) \/ LockValue(w) \/ CheckValue(w) \/ FindRemote(w) \/ FindTwins(w)
    \/ FindInTwin(w) \/ MoveFound(w) \/ CreateValue(w) \/ Store(w)
Maintain(w) == CleanLocal(w) \/ CleanValue(w) \/ ReconcileList(w) \/ ReconcileApply(w)
Step(w) == Group_(w) \/ Merge_(w) \/ Value_(w) \/ Maintain(w)

Operator(w) ==
    MergeCommand(w) \/ CleanCommand(w) \/ ImportCommand(w) \/ ReconcileCommand(w)

Next ==
    \/ \E w \in Workers :
        \/ Step(w) \/ Operator(w) \/ Fails(w) \/ MergeFails(w) \/ LockTimesOut(w) \/ Stop(w)
        \/ EndBatch(w) \/ \E v \in Values : Ensure(w, v)
    \/ NewProduct
    \/ Rename

Spec == Init /\ [][Next]_vars
-----------------------------------------------------------------------------
(* Properties *)

Forgetting(i) == \E w \in Workers : At(w, "forget") /\ me[w].val = i

GroupIsDead == row.id # 0 /\ ~GroupExists(row.id)

\* What a local row is mapped to is a value of the shop with that name, and the
\* local group is mapped to a group of the shop.  Failures, deaths and tasks that
\* ensure the same value at once do not change that; only a merge or a command that
\* overlaps with another task does, and a value that is deleted without its row.
MappedIsLive ==
    raced \/ /\ ~GroupIsDead
             /\ "row kept" \in mishaps \/ \A v \in Values :
                    \/ local[v] = 0
                    \/ Forgetting(local[v])
                    \/ \E u \in values : u.id = local[v] /\ u.name = v

\* Tasks that ensure a value at once, or one after another that failed half-way,
\* never make a second one in the group.
NoTwins ==
    \/ raced
    \/ "moved unnoticed" \in mishaps
    \/ \A u, v \in values : u.group = v.group /\ u.name = v.name => u = v

\* Merging groups and cleaning up never takes the last value of a name from the shop.
NoValueLost ==
    [][raced' \/ {v.name : v \in values} \subseteq {v.name : v \in values'}]_vars
-----------------------------------------------------------------------------
(* Why these hold *)

UniqueIds(S) == \A x, y \in S : x.id = y.id => x = y

\* The task of a process and its place agree, and so do its place and what it has
\* found on the way.
InPlace(w) ==
    LET p == me[w] IN
    /\ \/ p.task = "none" /\ p.pc = "idle"
       \/ p.task = "import" /\ p.pc = "remap"
       \/ p.task = "merge" /\ p.pc \in {"merge", "compare", "each", "drop group"}
       \/ p.task = "clean" /\ p.pc \in {"clean", "clean all"}
       \/ p.task = "reconcile" /\ p.pc \in {"reconcile", "apply"}
       \/ /\ p.task = "ensure" /\ p.pc \notin {"idle", "clean", "clean all", "reconcile", "apply"}
          /\ p.pc = "next" \/ p.want \in Values
    /\ p.pc \in {"idle", "next", "group", "search", "new group"} => p.orphans = {}
    /\ p.pc \notin {"idle", "next", "group", "search", "new group",
                    "clean", "clean all", "reconcile", "apply"} => p.gid # 0
    /\ p.pc \in {"clean", "clean all"} => p.want \in Values
    /\ p.pc \in {"clean", "move", "store"} => p.val \in ValueIds
    /\ p.pc \in {"search", "new group"} => p.listed
    /\ ~p.listed => p.cache = {}
    /\ UniqueIds(p.cache) /\ \A g \in p.cache : g.id <= groupIds
    /\ p.pc \in {"check", "find", "twins", "twin", "move", "create", "store"} => holder[Key(w)] = w

\* Another group of the same name comes first in the list.
NotFirst(o, list) ==
    \A g \in list : g.id = o => \E h \in list : h.name = g.name /\ h.id < g.id

\* What a process has read is still so, as long as nobody has raced.
Aware(w) ==
    LET p == me[w] IN
    /\ \A g \in p.cache : GroupExists(g.id) \/ NotFirst(g.id, p.cache)
    /\ p.pc \in {"remap", "adopt"} => GroupExists(p.gid)
    /\ p.pc = "remap" => p.val = row.id
    /\ p.pc \in {"remap", "adopt", "merge", "compare", "each", "forget", "drop group"} =>
        \A o \in p.orphans : o # p.gid /\ NotFirst(o, p.cache)
    /\ p.pc \in {"merge", "compare", "each", "forget", "drop group"} => row.id \notin p.orphans
    /\ p.pc \in {"compare", "each", "forget", "drop group"} =>
        p.orphan \notin {p.gid, row.id} /\ NotFirst(p.orphan, p.cache)
    /\ p.pc \in {"compare", "each", "forget"} => p.todo \subseteq In(p.orphan)
    /\ p.pc \in {"each", "forget"} => p.names \subseteq {u.name : u \in In(p.gid)}
    /\ p.pc = "drop group" => In(p.orphan) = {}
    /\ p.pc \in {"clean", "clean all"} =>
        /\ p.val \in {u.id : u \in {x \in values : x.name = p.want}}
        /\ \A v \in p.todo : v.id # p.val /\ v.name = p.want
    /\ p.pc \in {"reconcile", "apply"} => p.gid = 0 \/ GroupExists(p.gid)
    /\ p.pc \in {"clean", "clean all", "apply"} => p.todo \subseteq values
    /\ p.pc \in {"move", "store"} => \E u \in values : u.id = p.val /\ u.name = p.want

\* The group lacks the value that is about to be created or moved into it.
Lacking(w) ==
    LET p == me[w] IN
    /\ p.pc \in {"twins", "twin", "move", "create"} => Named(p.gid, p.want) = {}
    /\ p.pc \in {"each", "forget"} => \A u \in In(p.gid) : u.name \in p.names

\* The inductive invariant behind the properties above: while nobody races, what a
\* process has read stays so, and the lock of a value keeps others from creating it
\* (services.py:526-866).
ValuesInv ==
    /\ UniqueIds(groups) /\ \A g \in groups : g.id <= groupIds
    /\ \A v \in values : v.id <= valueIds
    /\ Racing => raced
    /\ \A w \in Workers : InPlace(w)
    /\ MappedIsLive /\ NoTwins
    /\ raced \/ \A w \in Workers : Aware(w)
    /\ raced \/ "moved unnoticed" \in mishaps \/ \A w \in Workers : Lacking(w)
=============================================================================
