------------------------- MODULE OrderExport_proofs -------------------------
(***************************************************************************)
(* Proofs about OrderExport for any number of processes, orders, versions  *)
(* and lines, and any page size.  IInv is inductive.  A step of a process  *)
(* leaves the others alone (Others), and what is in the shop or in the     *)
(* mirror stays there (Grows); so each part of IInv needs a look only at   *)
(* the process that moves.                                                 *)
(***************************************************************************)
EXTENDS OrderExport, FiniteSetTheorems, TLAPS

\* What the types and the assumptions say of the initial values.
LEMMA Zeros ==
    /\ NoDocument \in Document
    /\ NotMirrored \in Mirrored
    /\ NoReading \in Reading
    /\ 0 \in 0..MaxOrder
    /\ "none" \notin Tasks
  BY OrderAssumption DEF OrderAssumption, NoDocument, NotMirrored, NoReading, Document, Mirrored,
     Reading, State, ExportStatus, Versions

\* The types of the variables that belong to the processes.
ProcessTypes ==
    /\ holder \in [{Key} -> Workers \cup {Free, Orphan}]
    /\ task \in [Workers -> {"none"} \cup Tasks]
    /\ pc \in [Workers -> Place]
    /\ list \in [Workers -> SUBSET Orders]
    /\ order \in [Workers -> 0..MaxOrder]
    /\ snap \in [Workers -> Document]
    /\ read \in [Workers -> Reading]

\* A process that forgets keeps the types.
LEMMA ForgetTypes ==
    ASSUME TypeOK, NEW w \in Workers, Forget(w),
           holder' \in [{Key} -> Workers \cup {Free, Orphan}]
    PROVE  ProcessTypes'
  BY Zeros DEF TypeOK, ProcessTypes, Forget, Go, Place

\* A task that leaves an order keeps the types.
LEMMA LeaveTypes ==
    ASSUME TypeOK, NEW w \in Workers, Leave(w)
    PROVE  ProcessTypes'
<1>1. CASE task[w] \in {"sales", "recheck"} /\ UNCHANGED <<holder, task, mine>>
           /\ (Go(w, "advance") \/ Go(w, "next"))
  BY <1>1 DEF TypeOK, ProcessTypes, Go, Place, mine
<1>2. CASE End(w)
  <2>1. holder' \in [{Key} -> Workers \cup {Free, Orphan}]
    BY <1>2 DEF End, TypeOK, Lease!Release
  <2> QED
    BY <1>2, <2>1, ForgetTypes DEF End
<1> QED
  BY <1>1, <1>2 DEF Leave

\* The types of what all processes share.
SharedTypes ==
    /\ shop \in [Orders -> Document]
    /\ mirror \in [Orders -> Mirrored]
    /\ icg \in [Orders -> SUBSET FacturasWebRow]
    /\ cursor \in 0..MaxOrder
    /\ pending \subseteq Orders

\* The type invariant has two halves.
LEMMA Halves == TypeOK <=> SharedTypes /\ ProcessTypes
  BY DEF TypeOK, SharedTypes, ProcessTypes

\* A write of upsert_order_snapshot has the type of a mirror.
LEMMA UpdatedType ==
    ASSUME NEW old \in Mirrored, NEW new \in Document
    PROVE  Updated(old, new) \in Mirrored /\ Updated(old, new).state = new.state
  BY DEF Updated, Mirrored, Document, ExportStatus

\* The start of a task keeps the types.
LEMMA StartTypes ==
    ASSUME IInv, NEW w \in Workers, Start(w)
    PROVE  TypeOK'
<1> SUFFICES ASSUME TRUE PROVE SharedTypes' /\ ProcessTypes'
  BY Halves, PTL
<1> USE DEF IInv, TypeOK, SharedTypes, ProcessTypes, Begin, Go, Place, outside
<1>1. CASE SalesStart(w)
  BY <1>1 DEF SalesStart, NewOrders
<1>2. CASE RecheckStart(w)
  BY <1>2 DEF RecheckStart, Lease!Acquire
<1>3. CASE RetryStart(w)
  BY <1>3 DEF RetryStart, Lease!Acquire, Orders
<1>4. CASE EntityStart(w)
  BY <1>4 DEF EntityStart, Lease!Acquire, Orders
<1>5. CASE RefreshStart(w)
  BY <1>5 DEF RefreshStart, Orders
<1> QED
  BY <1>1, <1>2, <1>3, <1>4, <1>5 DEF Start

\* A process that works on an order keeps the types.
LEMMA StepTypes ==
    ASSUME IInv, NEW w \in Workers, Step(w)
    PROVE  TypeOK'
<1> SUFFICES ASSUME TRUE PROVE SharedTypes' /\ ProcessTypes'
  BY Halves, PTL
<1>a. TypeOK
  BY DEF IInv
<1>b. pc[w] \in WithOrder => order[w] \in Orders
  BY DEF IInv, AtWork
<1> USE <1>a DEF TypeOK, SharedTypes, ProcessTypes, Go, Place, WithOrder, outside, mine
<1>1. CASE SalesEnter(w)
  <2>1. CASE Forget(w) /\ UNCHANGED holder
    BY <1>1, <2>1, ForgetTypes DEF SalesEnter
  <2> QED
    BY <1>1, <2>1 DEF SalesEnter, Lease!Acquire
<1>2. CASE NextOrder(w)
  BY <1>2 DEF NextOrder, Orders
<1>3. CASE Finish(w)
  <2>1. holder' \in [{Key} -> Workers \cup {Free, Orphan}]
    BY <1>3 DEF Finish, Lease!Release
  <2> QED
    BY <1>3, <2>1, ForgetTypes DEF Finish
<1>4. CASE Fetch(w)
  BY <1>4, <1>b DEF Fetch
<1>5. CASE FetchFails(w)
  <2>1. ProcessTypes'
    <3>1. CASE Leave(w)
      BY <3>1, LeaveTypes
    <3>2. CASE End(w)
      <4>1. holder' \in [{Key} -> Workers \cup {Free, Orphan}]
        BY <3>2 DEF End, Lease!Release
      <4> QED
        BY <3>2, <4>1, ForgetTypes DEF End
    <3> QED
      BY <1>5, <3>1, <3>2 DEF FetchFails
  <2> QED
    BY <1>5, <1>b, <2>1 DEF FetchFails
<1>6. CASE Upsert(w)
  <2>1. ProcessTypes'
    BY <1>6, LeaveTypes DEF Upsert
  <2>2. Updated(mirror[order[w]], snap[w]) \in Mirrored
    BY <1>6, <1>b, UpdatedType DEF Upsert
  <2> QED
    BY <1>6, <1>b, <2>1, <2>2 DEF Upsert
<1>7. CASE Check(w)
  BY <1>7 DEF Check
<1>8. CASE ReadHeader(w)
  BY <1>8, <1>b DEF ReadHeader, Reading, Mirrored
<1>9. CASE ReadLines(w)
  BY <1>9, <1>b DEF ReadLines, Reading, Mirrored
<1>10. CASE EnsureCustomer(w)
  BY <1>10 DEF EnsureCustomer
<1>11. CASE MirrorFails(w)
  BY <1>11 DEF MirrorFails
<1>12. CASE SelectRows(w)
  <2>1. (1..Lines[read[w].body]) \ LineNumbers(icg[order[w]]) \subseteq Nat
    OBVIOUS
  <2> QED
    BY <1>12, <2>1 DEF SelectRows, Reading
<1>13. CASE CommitRows(w)
  <2>1. {[line |-> n, head |-> read[w].head, body |-> read[w].body] : n \in read[w].missing}
            \subseteq FacturasWebRow
    BY DEF Reading, FacturasWebRow
  <2> QED
    BY <1>13, <1>b, <2>1 DEF CommitRows
<1>14. CASE ExportFails(w)
  BY <1>14, <1>b DEF ExportFails, Mirrored, ExportStatus
<1>15. CASE SaveStatus(w)
  BY <1>15, <1>b DEF SaveStatus, Mirrored, ExportStatus
<1>16. CASE RecordSuccess(w)
  BY <1>16, LeaveTypes DEF RecordSuccess
<1>17. CASE RecordFailure(w)
  BY <1>17, <1>b, LeaveTypes DEF RecordFailure
<1>18. CASE Advance(w)
  BY <1>18 DEF Advance
<1> QED
  BY <1>1, <1>2, <1>3, <1>4, <1>5, <1>6, <1>7, <1>8, <1>9, <1>10, <1>11, <1>12, <1>13, <1>14,
     <1>15, <1>16, <1>17, <1>18 DEF Step

\* Every step keeps the types.
LEMMA TypeStep ==
    ASSUME IInv, [Next]_vars
    PROVE  TypeOK'
<1> SUFFICES ASSUME TRUE PROVE SharedTypes' /\ ProcessTypes'
  BY Halves, PTL
<1>a. TypeOK
  BY DEF IInv
<1> USE <1>a DEF TypeOK, SharedTypes, ProcessTypes, outside, mine
<1>1. ASSUME NEW w \in Workers, Start(w) PROVE SharedTypes' /\ ProcessTypes'
  BY <1>1, StartTypes
<1>2. ASSUME NEW w \in Workers, Step(w) PROVE SharedTypes' /\ ProcessTypes'
  BY <1>2, StepTypes
<1>3. ASSUME NEW w \in Workers, Stop(w) PROVE SharedTypes' /\ ProcessTypes'
  <2>1. holder' \in [{Key} -> Workers \cup {Free, Orphan}]
    BY <1>3 DEF Stop, Lease!Die, Lease!Unwind
  <2> QED
    BY <1>3, <2>1, ForgetTypes DEF Stop
<1>4. CASE SetCursor
  BY <1>4 DEF SetCursor, Orders
<1>5. CASE NewOrder
  BY <1>5 DEF NewOrder, Document, State
<1>6. CASE ChangeState
  BY <1>6 DEF ChangeState, Document, State
<1>7. CASE EditOrder
  BY <1>7 DEF EditOrder, Document
<1>8. CASE UNCHANGED vars
  BY <1>8 DEF vars
<1> QED
  BY <1>1, <1>2, <1>3, <1>4, <1>5, <1>6, <1>7, <1>8 DEF Next, Shop
-----------------------------------------------------------------------------
\* A step of a process.
Move(w) == Start(w) \/ Step(w) \/ Stop(w)

\* A process keeps what it has, and the lock.
Same(v) ==
    /\ task'[v] = task[v]
    /\ pc'[v] = pc[v]
    /\ list'[v] = list[v]
    /\ order'[v] = order[v]
    /\ snap'[v] = snap[v]
    /\ read'[v] = read[v]
    /\ holder[Key] = v => holder'[Key] = v

\* Forgetting concerns one process, and so does leaving the lock.
LEMMA ForgetOthers ==
    ASSUME TypeOK, NEW w \in Workers, NEW v \in Workers, v # w, Forget(w),
           holder[Key] = v => holder'[Key] = v
    PROVE  Same(v)
  BY DEF TypeOK, Forget, Go, Same

LEMMA LeaveOthers ==
    ASSUME TypeOK, NEW w \in Workers, NEW v \in Workers, v # w, Leave(w)
    PROVE  Same(v)
<1>1. CASE UNCHANGED <<holder, task, mine>> /\ (Go(w, "advance") \/ Go(w, "next"))
  BY <1>1 DEF TypeOK, Go, mine, Same
<1>2. CASE End(w)
  <2>1. holder[Key] = v => holder'[Key] = v
    BY <1>2 DEF End, TypeOK, Lease!Release
  <2> QED
    BY <1>2, <2>1, ForgetOthers DEF End
<1> QED
  BY <1>1, <1>2 DEF Leave

\* A step of one process leaves the others alone, and the lock with whoever
\* else has it.
LEMMA Others ==
    ASSUME TypeOK, NEW w \in Workers, NEW v \in Workers, v # w, Move(w)
    PROVE  Same(v)
<1>a. holder[Key] = v => holder[Key] \notin {Free, Orphan}
  BY OrderAssumption DEF OrderAssumption
<1> USE DEF TypeOK, Same, Begin, Go, mine
<1>1. ASSUME Start(w) PROVE Same(v)
  BY <1>1, <1>a DEF Start, SalesStart, RecheckStart, RetryStart, EntityStart, RefreshStart,
     Lease!Acquire
<1>2. CASE SalesEnter(w)
  BY <1>2, <1>a, ForgetOthers DEF SalesEnter, Lease!Acquire
<1>3. CASE NextOrder(w)
  BY <1>3 DEF NextOrder
<1>4. CASE Finish(w)
  <2>1. holder[Key] = v => holder'[Key] = v
    BY <1>4 DEF Finish, Lease!Release
  <2> QED
    BY <1>4, <2>1, ForgetOthers DEF Finish
<1>5. CASE FetchFails(w)
  <2>1. CASE End(w)
    <3>1. holder[Key] = v => holder'[Key] = v
      BY <2>1 DEF End, Lease!Release
    <3> QED
      BY <2>1, <3>1, ForgetOthers DEF End
  <2> QED
    BY <1>5, <2>1, LeaveOthers DEF FetchFails
<1>6. CASE Upsert(w)
  BY <1>6, LeaveOthers DEF Upsert
<1>7. CASE RecordSuccess(w) \/ RecordFailure(w)
  BY <1>7, LeaveOthers DEF RecordSuccess, RecordFailure
<1>8. CASE Fetch(w) \/ ReadHeader(w) \/ ReadLines(w) \/ SelectRows(w)
  BY <1>8 DEF Fetch, ReadHeader, ReadLines, SelectRows
<1>9. CASE Check(w) \/ EnsureCustomer(w) \/ MirrorFails(w) \/ CommitRows(w) \/ ExportFails(w)
           \/ SaveStatus(w) \/ Advance(w)
  BY <1>9 DEF Check, EnsureCustomer, MirrorFails, CommitRows, ExportFails, SaveStatus, Advance
<1>10. CASE Stop(w)
  <2>1. holder[Key] = v => holder'[Key] = v
    BY <1>10 DEF Stop, Lease!Die, Lease!Unwind
  <2> QED
    BY <1>10, <2>1, ForgetOthers DEF Stop
<1> QED
  BY <1>1, <1>2, <1>3, <1>4, <1>5, <1>6, <1>7, <1>8, <1>9, <1>10 DEF Move, Step

\* What a step of a process does to the shared variables.
LEMMA Effects ==
    ASSUME NEW w \in Workers, Move(w)
    PROVE  /\ shop' = shop
           /\ \/ mirror' = mirror
              \/ /\ pc[w] = "fetched"
                 /\ mirror' = [mirror EXCEPT ![order[w]] = Updated(@, snap[w])]
              \/ \E status \in ExportStatus :
                    mirror' = [mirror EXCEPT ![order[w]].status = status]
           /\ icg' = icg \/ CommitRows(w)
           /\ cursor' = cursor \/ Advance(w)
           /\ \/ pending' \subseteq pending
              \/ pc[w] \in WithOrder /\ pending' \subseteq pending \cup {order[w]}
<1> USE DEF outside
<1>1. CASE Start(w)
  BY <1>1 DEF Start, SalesStart, RecheckStart, RetryStart, EntityStart, RefreshStart
<1>2. CASE Stop(w)
  BY <1>2 DEF Stop
<1>3. CASE Upsert(w)
  BY <1>3 DEF Upsert
<1>4. CASE ExportFails(w) \/ SaveStatus(w)
  BY <1>4 DEF ExportFails, SaveStatus, ExportStatus
<1>5. CASE FetchFails(w) \/ RecordFailure(w) \/ RecordSuccess(w)
  BY <1>5 DEF FetchFails, RecordFailure, RecordSuccess, WithOrder, Place
<1>6. CASE SalesEnter(w) \/ NextOrder(w) \/ Finish(w) \/ Fetch(w) \/ Check(w)
  BY <1>6 DEF SalesEnter, NextOrder, Finish, Fetch, Check
<1>7. CASE ReadHeader(w) \/ ReadLines(w) \/ EnsureCustomer(w) \/ MirrorFails(w) \/ SelectRows(w)
  BY <1>7 DEF ReadHeader, ReadLines, EnsureCustomer, MirrorFails, SelectRows
<1>8. CASE CommitRows(w)
  BY <1>8 DEF CommitRows
<1>9. CASE Advance(w)
  BY <1>9 DEF Advance
<1> QED
  BY <1>1, <1>2, <1>3, <1>4, <1>5, <1>6, <1>7, <1>8, <1>9 DEF Move, Step

\* What is in the shop or in the mirror stays there.
Grown == \A o \in Orders :
    /\ shop[o].state # "none" => shop'[o].state # "none"
    /\ InMirror(o) => mirror'[o].state # "none"

LEMMA Grows ==
    ASSUME IInv, [Next]_vars
    PROVE  Grown
<1>a. TypeOK
  BY DEF IInv
<1> USE <1>a DEF TypeOK, Grown, InMirror
<1>1. ASSUME NEW w \in Workers, Move(w) PROVE Grown
  <2>1. shop' = shop
    BY <1>1, Effects
  <2>2. CASE mirror' = mirror
    BY <2>1, <2>2
  <2>3. CASE pc[w] = "fetched" /\ mirror' = [mirror EXCEPT ![order[w]] = Updated(@, snap[w])]
    <3>1. order[w] \in Orders /\ snap[w].state # "none"
      BY <2>3 DEF IInv, AtWork, WithOrder, Place
    <3>2. Updated(mirror[order[w]], snap[w]).state = snap[w].state
      BY <3>1, UpdatedType
    <3> QED
      BY <2>1, <2>3, <3>1, <3>2
  <2>4. ASSUME NEW status \in ExportStatus,
               mirror' = [mirror EXCEPT ![order[w]].status = status]
        PROVE  Grown
    BY <2>1, <2>4 DEF Mirrored
  <2> QED
    BY <1>1, <2>2, <2>3, <2>4, Effects
<1>2. CASE NewOrder
  BY <1>2 DEF NewOrder, Document
<1>3. CASE ChangeState
  BY <1>3 DEF ChangeState, Document
<1>4. CASE EditOrder
  BY <1>4 DEF EditOrder, Document
<1>5. CASE SetCursor \/ UNCHANGED vars
  BY <1>5 DEF SetCursor, vars
<1> QED
  BY <1>1, <1>2, <1>3, <1>4, <1>5 DEF Next, Shop, Move

\* What is before an order are orders.
LEMMA Before ==
    ASSUME NEW o \in Orders, NEW p \in 1..(o - 1)
    PROVE  p \in Orders /\ p < o
  BY OrderAssumption DEF OrderAssumption, Orders

\* Once all orders before an order are in the mirror, they stay there.
LEMMA ReachedStays ==
    ASSUME Grown, NEW o \in Orders, Reached(o)
    PROVE  Reached(o)'
  BY Before DEF Reached, Grown, InMirror

\* A process brings only the order it works on into the mirror.
LEMMA Newly ==
    ASSUME IInv, NEW w \in Workers, Move(w), NEW o \in Orders, InMirror(o)'
    PROVE  InMirror(o) \/ (pc[w] \in WithOrder /\ o = order[w])
<1> USE DEF InMirror
<1>1. CASE mirror' = mirror
  BY <1>1
<1>2. CASE pc[w] = "fetched" /\ mirror' = [mirror EXCEPT ![order[w]] = Updated(@, snap[w])]
  BY <1>2 DEF IInv, TypeOK, WithOrder, Place
<1>3. ASSUME NEW status \in ExportStatus, mirror' = [mirror EXCEPT ![order[w]].status = status]
      PROVE  InMirror(o)
  BY <1>3 DEF IInv, TypeOK, Mirrored
<1> QED
  BY <1>1, <1>2, <1>3, Effects

\* NoGaps is preserved.
LEMMA NoGapsStep ==
    ASSUME IInv, [Next]_vars
    PROVE  NoGaps'
<1>a. Grown
  BY Grows
<1>1. ASSUME NEW w \in Workers, Move(w) PROVE NoGaps'
  <2>a. pc[w] \in WithOrder =>
            order[w] \in Orders /\ Reached(order[w]) /\ shop[order[w]].state # "none"
    BY DEF IInv, AtWork
  <2>1. shop' = shop
    BY <1>1, Effects
  <2>2. ASSUME NEW o \in Orders, InMirror(o)' PROVE Reached(o)' /\ shop'[o].state # "none"
    <3>1. Reached(o) /\ shop[o].state # "none"
      BY <1>1, <2>a, <2>2, Newly DEF IInv, NoGaps
    <3> QED
      BY <1>a, <2>1, <3>1, ReachedStays
  <2>3. ASSUME NEW o \in pending' PROVE Reached(o)' /\ shop'[o].state # "none"
    <3>1. o \in Orders /\ Reached(o) /\ shop[o].state # "none"
      BY <1>1, <2>a, <2>3, Effects DEF IInv, TypeOK, NoGaps
    <3> QED
      BY <1>a, <2>1, <3>1, ReachedStays
  <2> QED
    BY <2>1, <2>2, <2>3 DEF IInv, NoGaps
<1>2. CASE Shop
  <2>1. UNCHANGED <<mirror, pending>>
    BY <1>2 DEF Shop, NewOrder, ChangeState, EditOrder
  <2>2. ASSUME NEW o \in Orders, shop'[o].state # "none", NEW p \in 1..(o - 1)
        PROVE  shop'[p].state # "none"
    <3>1. p \in Orders
      BY Before
    <3>2. CASE shop[o].state # "none"
      BY <1>a, <3>1, <3>2 DEF IInv, NoGaps, Grown
    <3>3. CASE shop[o].state = "none"
      <4>1. \A q \in 1..(o - 1) : shop[q].state # "none"
        BY <1>2, <2>2, <3>3 DEF IInv, TypeOK, Document, Shop, NewOrder, ChangeState, EditOrder
      <4> QED
        BY <1>a, <3>1, <4>1 DEF Grown
    <3> QED
      BY <3>2, <3>3
  <2>3. \A o \in Orders : InMirror(o)' = InMirror(o) /\ Reached(o)' = Reached(o)
    BY <2>1 DEF InMirror, Reached
  <2>4. pending \subseteq Orders
    BY DEF IInv, TypeOK
  <2> QED
    BY <1>a, <2>1, <2>2, <2>3, <2>4 DEF IInv, NoGaps, Grown
<1>3. CASE SetCursor \/ UNCHANGED vars
  BY <1>3 DEF SetCursor, vars, IInv, NoGaps, InMirror, Reached
<1> QED
  BY <1>1, <1>2, <1>3 DEF Next, Move

\* CursorBehindMirror is preserved.
LEMMA CursorStep ==
    ASSUME IInv, [Next]_vars
    PROVE  CursorBehindMirror'
<1>a. Grown
  BY Grows
<1>b. cursor \in Orders => InMirror(cursor) /\ Reached(cursor)
  BY DEF IInv, CursorBehindMirror
<1>c. ASSUME cursor' \in Orders => InMirror(cursor') /\ Reached(cursor')
      PROVE  CursorBehindMirror'
  BY <1>a, <1>c, ReachedStays DEF CursorBehindMirror, Grown, InMirror, Reached
<1>1. ASSUME NEW w \in Workers, Move(w) PROVE CursorBehindMirror'
  <2>1. CASE Advance(w)
    <3>1. cursor' = order[w] /\ InMirror(order[w]) /\ Reached(order[w])
      BY <2>1 DEF Advance, IInv, AtWork, WithOrder, Place
    <3> QED
      BY <1>c, <3>1
  <2>2. CASE cursor' = cursor
    BY <1>b, <1>c, <2>2
  <2> QED
    BY <1>1, <2>1, <2>2, Effects
<1>2. CASE SetCursor
  <2>1. cursor' \in Orders /\ InMirror(cursor')
    BY <1>2 DEF SetCursor
  <2> QED
    BY <1>c, <2>1 DEF IInv, NoGaps
<1>3. CASE Shop \/ UNCHANGED vars
  <2>1. cursor' = cursor
    BY <1>3 DEF Shop, NewOrder, ChangeState, EditOrder, vars
  <2> QED
    BY <1>b, <1>c, <2>1
<1> QED
  BY <1>1, <1>2, <1>3 DEF Next, Move
-----------------------------------------------------------------------------
\* The part of IInv about one process.
Sound(v) == AtWork(v) /\ ListComplete(v) /\ Fresh(v)

\* A list stays complete as long as its process goes on with its order.
LEMMA ListStays ==
    ASSUME TypeOK, Grown, NEW v \in Workers, ListComplete(v),
           list'[v] = list[v], task'[v] = task[v],
           pc[v] \in WithOrder => pc'[v] \in WithOrder /\ order'[v] = order[v]
    PROVE  ListComplete(v)'
<1>1. list[v] \subseteq Orders
  BY DEF TypeOK
<1> QED
  BY <1>1, Before DEF ListComplete, Grown, InMirror

\* What holds of an order stays so.
LEMMA OrderStays ==
    ASSUME IInv, Grown, NEW v \in Workers, order'[v] = order[v], pc[v] \in WithOrder
    PROVE  /\ order'[v] \in Orders
           /\ Reached(order[v])'
           /\ shop'[order'[v]].state # "none"
           /\ InMirror(order[v]) => InMirror(order[v])'
<1>1. order[v] \in Orders /\ Reached(order[v]) /\ shop[order[v]].state # "none"
  BY DEF IInv, AtWork
<1>2. \A p \in 1..(order[v] - 1) : mirror'[p].state # "none"
  BY <1>1, Before DEF Reached, InMirror, Grown
<1>3. Reached(order[v])'
  BY <1>2 DEF Reached, InMirror
<1> QED
  BY <1>1, <1>3 DEF Grown, InMirror

\* A process that others leave alone stays sound.
LEMMA SoundStays ==
    ASSUME IInv, Grown, NEW v \in Workers, Same(v),
           pc[v] = "insert" => icg' = icg
    PROVE  Sound(v)'
<1>a. TypeOK /\ AtWork(v) /\ ListComplete(v) /\ Fresh(v)
  BY DEF IInv
<1>1. ListComplete(v)'
  BY <1>a, ListStays DEF Same
<1>2. Fresh(v)'
  BY <1>a DEF Fresh, Same
<1>3. AtWork(v)'
  <2>1. CASE pc[v] \in WithOrder
    <3>1. /\ order'[v] \in Orders
          /\ Reached(order[v])'
          /\ shop'[order'[v]].state # "none"
          /\ InMirror(order[v]) => InMirror(order[v])'
      BY <2>1, OrderStays DEF Same
    <3> QED
      BY <1>a, <3>1 DEF AtWork, Same
  <2>2. CASE pc[v] \notin WithOrder
    BY <1>a, <2>2 DEF AtWork, Same, WithOrder, Place, Locked
  <2> QED
    BY <2>1, <2>2
<1> QED
  BY <1>1, <1>2, <1>3 DEF Sound

\* A process without a task is sound.
LEMMA ForgetSound ==
    ASSUME TypeOK, NEW w \in Workers, Forget(w)
    PROVE  Sound(w)'
<1>1. pc'[w] = "idle" /\ task'[w] = "none" /\ list'[w] = {}
  BY DEF TypeOK, Forget, Go
<1> QED
  BY <1>1 DEF Sound, AtWork, ListComplete, Fresh, WithOrder, Locked

\* A task that leaves an order is sound.
LEMMA LeaveSound ==
    ASSUME IInv, Grown, NEW w \in Workers, Leave(w), pc[w] \in WithOrder,
           task[w] = "sales" => mirror'[order[w]].state # "none"
    PROVE  Sound(w)'
<1>a. TypeOK /\ AtWork(w) /\ ListComplete(w)
  BY DEF IInv
<1>1. CASE task[w] = "sales" /\ Go(w, "advance") /\ UNCHANGED <<holder, task, mine>>
  <2>1. /\ pc'[w] = "advance" /\ task'[w] = "sales" /\ list'[w] = list[w]
        /\ order'[w] = order[w] /\ holder' = holder
    BY <1>a, <1>1 DEF TypeOK, Go, mine
  <2>2. ListComplete(w)'
    BY <1>a, <1>1, <2>1, ListStays DEF WithOrder, Place
  <2>3. holder[Key] = w
    BY <1>a, <1>1 DEF AtWork, WithOrder, Locked, Place
  <2>4. \A p \in list[w] : order[w] < p
    BY <1>a, <1>1 DEF AtWork
  <2>5. order'[w] \in Orders /\ Reached(order[w])' /\ shop'[order'[w]].state # "none"
    BY <2>1, OrderStays
  <2>6. InMirror(order[w])'
    BY <1>1, <2>1 DEF InMirror
  <2>7. AtWork(w)'
    BY <2>1, <2>3, <2>4, <2>5, <2>6 DEF AtWork, WithOrder, Locked, Place
  <2> QED
    BY <2>1, <2>2, <2>7 DEF Sound, Fresh
<1>2. CASE task[w] = "recheck" /\ Go(w, "next") /\ UNCHANGED <<holder, task, mine>>
  <2>1. pc'[w] = "next" /\ task'[w] = "recheck" /\ list'[w] = list[w] /\ holder' = holder
    BY <1>a, <1>2 DEF TypeOK, Go, mine
  <2>2. ListComplete(w)'
    <3>1. ASSUME NEW o \in list[w]
          PROVE  o \in Orders /\ shop[o].state # "none" /\ InMirror(o) /\ Reached(o)
      BY <1>a, <1>2 DEF TypeOK, ListComplete, IInv, NoGaps
    <3> QED
      BY <2>1, <3>1, ReachedStays DEF ListComplete, Grown, InMirror, Reached
  <2>3. holder[Key] = w
    BY <1>a, <1>2 DEF AtWork, WithOrder, Locked, Place
  <2>4. AtWork(w)'
    BY <2>1, <2>3 DEF AtWork, WithOrder, Locked, Place
  <2> QED
    BY <2>1, <2>2, <2>4 DEF Sound, Fresh
<1>3. CASE End(w)
  BY <1>a, <1>3, ForgetSound DEF End
<1> QED
  BY <1>1, <1>2, <1>3 DEF Leave

\* A process that goes on with its order remains at work on it.
LEMMA Onward ==
    ASSUME IInv, Grown, NEW w \in Workers, NEW place \in WithOrder \ {"advance"},
           pc[w] \in WithOrder, pc'[w] = place,
           task[w] \notin {"none", "refresh"} \/ place = "fetched",
           UNCHANGED <<holder, task, list, order>>,
           place = "check" => task[w] = "recheck",
           place = "fetched" => snap'[w].state # "none",
           place \notin {"refresh", "fetched"} => InMirror(order[w])'
    PROVE  AtWork(w)' /\ ListComplete(w)'
<1>a. TypeOK /\ AtWork(w) /\ ListComplete(w)
  BY DEF IInv
<1>1. ListComplete(w)'
  BY <1>a, ListStays
<1>2. order'[w] \in Orders /\ Reached(order[w])' /\ shop'[order'[w]].state # "none"
  BY OrderStays
<1>3. /\ task[w] # "none"
      /\ task[w] \notin {"sales", "recheck"} => list[w] = {}
      /\ task[w] # "refresh" => holder[Key] = w
      /\ task[w] = "sales" => \A p \in list[w] : order[w] < p
  BY <1>a DEF AtWork, WithOrder, Place, Locked
<1>4. place \notin {"idle", "lock", "next", "advance"}
  BY DEF WithOrder
<1>5. AtWork(w)'
  BY <1>2, <1>3, <1>4 DEF AtWork, WithOrder, Locked
<1> QED
  BY <1>1, <1>5

\* The start of a task leaves its process sound.
LEMMA StartSound ==
    ASSUME IInv, Grown, NEW w \in Workers, Start(w)
    PROVE  Sound(w)'
<1>a. TypeOK /\ AtWork(w) /\ NoGaps /\ UNCHANGED <<shop, mirror>>
  BY DEF IInv, Start, SalesStart, RecheckStart, RetryStart, EntityStart, RefreshStart, outside
<1>b. "none" \notin Tasks
  BY Zeros
<1>c. \A o \in Orders : Reached(o)' = Reached(o) /\ InMirror(o)' = InMirror(o)
  BY <1>a DEF Reached, InMirror
<1>1. CASE SalesStart(w)
  <2>1. pc'[w] = "lock" /\ task'[w] = "sales" /\ list'[w] = NewOrders(cursor)
    BY <1>1, <1>a DEF TypeOK, SalesStart, Begin, Go
  <2>2. ASSUME NEW o \in NewOrders(cursor)
        PROVE  /\ shop[o].state # "none"
               /\ \A p \in 1..(o - 1) : p \in NewOrders(cursor) \/ InMirror(p)
    <3> DEFINE new == {q \in Orders : q > cursor /\ shop[q].state # "none"}
    <3>1. o \in Orders /\ o \in new /\ Cardinality({q \in new : q < o}) < PageLimit
      BY <2>2 DEF NewOrders
    <3>2. ASSUME NEW p \in 1..(o - 1) PROVE p \in NewOrders(cursor) \/ InMirror(p)
      <4>1. p \in Orders /\ p < o /\ shop[p].state # "none"
        BY <1>a, <3>1, Before DEF NoGaps
      <4>2. CASE p > cursor
        <5>1. IsFiniteSet({q \in new : q < o})
          <6>1. IsFiniteSet(1..MaxOrder)
            BY FS_Interval, OrderAssumption DEF OrderAssumption
          <6>2. {q \in new : q < o} \subseteq 1..MaxOrder
            BY DEF Orders
          <6> QED
            BY <6>1, <6>2, FS_Subset
        <5>2. {q \in new : q < p} \subseteq {q \in new : q < o}
          BY <3>1, <4>1 DEF Orders
        <5>3. /\ Cardinality({q \in new : q < p}) \in Nat
              /\ Cardinality({q \in new : q < o}) \in Nat
              /\ Cardinality({q \in new : q < p}) <= Cardinality({q \in new : q < o})
          BY <5>1, <5>2, FS_Subset, FS_CardinalityType
        <5>4. Cardinality({q \in new : q < p}) < PageLimit
          BY <3>1, <5>3, OrderAssumption DEF OrderAssumption
        <5>5. p \in new
          BY <4>1, <4>2
        <5> QED
          BY <5>4, <5>5 DEF NewOrders
      <4>3. CASE ~(p > cursor)
        <5>1. cursor \in Orders /\ (p = cursor \/ p \in 1..(cursor - 1))
          BY <1>a, <4>1, <4>3, OrderAssumption DEF OrderAssumption, TypeOK, Orders
        <5> QED
          BY <5>1 DEF IInv, CursorBehindMirror, Reached
      <4> QED
        BY <4>2, <4>3
    <3> QED
      BY <3>1, <3>2
  <2>3. ListComplete(w)'
    BY <1>a, <2>1, <2>2 DEF ListComplete, InMirror
  <2>4. AtWork(w)'
    BY <2>1 DEF AtWork, WithOrder, Locked
  <2> QED
    BY <2>1, <2>3, <2>4 DEF Sound, Fresh
<1>2. CASE RecheckStart(w)
  <2>1. /\ pc'[w] = "next" /\ task'[w] = "recheck" /\ holder'[Key] = w
        /\ \A o \in list'[w] : o \in Orders /\ InMirror(o)
    BY <1>2, <1>a DEF TypeOK, RecheckStart, Begin, Go, Lease!Acquire
  <2>2. ListComplete(w)'
    BY <1>a, <2>1 DEF ListComplete, NoGaps, Reached, InMirror
  <2>3. AtWork(w)'
    BY <2>1 DEF AtWork, WithOrder, Locked
  <2> QED
    BY <2>1, <2>2, <2>3 DEF Sound, Fresh
<1>3. ASSUME RetryStart(w) \/ EntityStart(w) \/ RefreshStart(w)
      PROVE  Sound(w)'
  <2>1. /\ list'[w] = {}
        /\ task'[w] \in {"retry", "entity", "refresh"}
        /\ order'[w] \in Orders /\ Reached(order'[w]) /\ shop[order'[w]].state # "none"
        /\ \/ pc'[w] = "refresh" /\ task'[w] # "entity"
           \/ pc'[w] = "header" /\ task'[w] # "refresh" /\ InMirror(order'[w])
        /\ task'[w] # "refresh" => holder'[Key] = w
    <3>1. list[w] = {}
      BY <1>3, <1>a DEF AtWork, RetryStart, EntityStart, RefreshStart, Begin
    <3>2. CASE RetryStart(w)
      BY <3>1, <3>2, <1>a DEF TypeOK, NoGaps, RetryStart, Begin, Go, Lease!Acquire
    <3>3. CASE EntityStart(w)
      BY <3>1, <3>3, <1>a DEF TypeOK, NoGaps, EntityStart, Begin, Go, Lease!Acquire, outside
    <3>4. CASE RefreshStart(w)
      BY <3>1, <3>4, <1>a DEF TypeOK, NoGaps, RefreshStart, Begin, Go, outside
    <3> QED
      BY <1>3, <3>2, <3>3, <3>4
  <2>2. Reached(order[w])' /\ InMirror(order'[w]) = InMirror(order[w])'
    BY <1>a, <2>1 DEF Reached, InMirror
  <2>3. AtWork(w)'
    BY <1>a, <2>1, <2>2 DEF AtWork, WithOrder, Locked, Place
  <2> QED
    BY <2>1, <2>3 DEF Sound, Fresh, ListComplete
<1> QED
  BY <1>1, <1>2, <1>3 DEF Start

\* A step leaves its process sound.
LEMMA StepSound ==
    ASSUME IInv, Grown, NEW w \in Workers, Step(w)
    PROVE  Sound(w)'
<1>a. TypeOK /\ AtWork(w) /\ ListComplete(w) /\ Fresh(w) /\ NoGaps
  BY DEF IInv
<1>b. pc[w] \in WithOrder \ {"refresh", "fetched"} =>
        /\ InMirror(order[w])
        /\ mirror'[order[w]].state # "none"
        /\ task[w] \notin {"none", "refresh"}
  BY <1>a DEF AtWork, Grown, InMirror, WithOrder, Place, Locked
<1>c. order[w] \in Orders => (InMirror(order[w]) => mirror'[order[w]].state # "none")
  BY DEF Grown, InMirror
<1>1. CASE SalesEnter(w)
  <2>1. CASE Forget(w)
    BY <1>a, <2>1, ForgetSound
  <2>2. CASE Lease!Acquire(Key, w) /\ Go(w, "next") /\ UNCHANGED <<task, mine>>
    <3>1. /\ pc'[w] = "next" /\ task'[w] = "sales" /\ holder'[Key] = w
          /\ list'[w] = list[w] /\ pc[w] = "lock"
      BY <1>1, <1>a, <2>2 DEF SalesEnter, TypeOK, AtWork, Lease!Acquire, Go, mine
    <3>2. ListComplete(w)'
      BY <1>a, <3>1, ListStays DEF WithOrder, AtWork
    <3>3. AtWork(w)'
      BY <3>1 DEF AtWork, WithOrder, Locked
    <3> QED
      BY <3>1, <3>2, <3>3 DEF Sound, Fresh
  <2> QED
    BY <1>1, <2>1, <2>2 DEF SalesEnter
<1>2. CASE NextOrder(w)
  <2>1. PICK o \in list[w] :
            /\ \A p \in list[w] : o <= p
            /\ order' = [order EXCEPT ![w] = o]
            /\ list' = [list EXCEPT ![w] = @ \ {o}]
    BY <1>2 DEF NextOrder
  <2>2. /\ order'[w] = o /\ list'[w] = list[w] \ {o} /\ pc'[w] = "refresh" /\ pc[w] = "next"
        /\ UNCHANGED <<shop, mirror, holder, task>>
    BY <1>2, <1>a, <2>1 DEF NextOrder, TypeOK, Go, outside
  <2>3. o \in Orders /\ list[w] \subseteq Orders
    BY <1>a DEF TypeOK
  <2>4. \A p \in 1..(o - 1) : p \in Orders /\ p \notin list[w]
    BY <2>1, <2>3, Before DEF Orders
  <2>5. Reached(o) /\ shop[o].state # "none"
    BY <1>a, <2>2, <2>4 DEF ListComplete, Reached, WithOrder
  <2>6. \A p \in list'[w] : o < p
    BY <2>1, <2>2, <2>3, OrderAssumption DEF Orders, OrderAssumption
  <2>7. ListComplete(w)'
    BY <1>a, <2>2 DEF ListComplete, InMirror, WithOrder, Place
  <2>8. Reached(order[w])'
    BY <2>2, <2>5 DEF Reached, InMirror
  <2>9. task[w] \in {"sales", "recheck"} /\ holder[Key] = w
    BY <1>a, <2>2 DEF AtWork, Locked
  <2>10. AtWork(w)'
    BY <2>2, <2>3, <2>5, <2>6, <2>8, <2>9 DEF AtWork, WithOrder, Locked
  <2> QED
    BY <2>2, <2>7, <2>10 DEF Sound, Fresh
<1>3. CASE Finish(w)
  BY <1>3, <1>a, ForgetSound DEF Finish
<1>4. CASE Fetch(w)
  <2>1. pc[w] = "refresh" /\ pc'[w] = "fetched" /\ snap'[w].state # "none"
    BY <1>4, <1>a DEF Fetch, TypeOK, AtWork, Go, WithOrder, Place
  <2>2. UNCHANGED <<holder, task, list, order>>
    BY <1>4 DEF Fetch
  <2> QED
    BY <2>1, <2>2, Onward DEF Sound, Fresh, WithOrder, Place
<1>5. CASE FetchFails(w)
  <2>1. pc[w] \in WithOrder
    BY <1>5 DEF FetchFails, WithOrder, Place
  <2>2. CASE End(w)
    BY <1>a, <2>2, ForgetSound DEF End
  <2>3. CASE Leave(w) /\ (task[w] = "sales" => InMirror(order[w]))
    BY <1>a, <1>c, <2>1, <2>3, LeaveSound DEF AtWork
  <2> QED
    BY <1>5, <2>2, <2>3 DEF FetchFails
<1>6. CASE Upsert(w)
  <2>1. pc[w] = "fetched" /\ order[w] \in Orders /\ snap[w].state # "none"
    BY <1>6, <1>a DEF Upsert, AtWork, WithOrder, Place
  <2>2. mirror'[order[w]].state # "none"
    BY <1>6, <1>a, <2>1, UpdatedType DEF Upsert, TypeOK
  <2>3. CASE Leave(w)
    BY <2>1, <2>2, <2>3, LeaveSound DEF WithOrder, Place
  <2>4. CASE /\ task[w] \in {"retry", "sales"} /\ Go(w, "header")
             /\ UNCHANGED <<holder, task, mine>>
    <3>1. pc'[w] = "header"
      BY <1>a, <2>4 DEF TypeOK, Go
    <3> QED
      BY <2>1, <2>2, <2>4, <3>1, Onward DEF Sound, Fresh, InMirror, mine, WithOrder, Place
  <2>5. CASE task[w] = "recheck" /\ Go(w, "check") /\ UNCHANGED <<holder, task, mine>>
    <3>1. pc'[w] = "check"
      BY <1>a, <2>5 DEF TypeOK, Go
    <3> QED
      BY <2>1, <2>2, <2>5, <3>1, Onward DEF Sound, Fresh, InMirror, mine, WithOrder, Place
  <2> QED
    BY <1>6, <2>3, <2>4, <2>5 DEF Upsert
<1>7. CASE Check(w)
  <2>1. /\ pc[w] = "check" /\ task[w] = "recheck" /\ UNCHANGED <<holder, task, list, order>>
        /\ pc'[w] \in {"header", "next"}
    BY <1>7, <1>a DEF Check, TypeOK, Go, AtWork, mine
  <2>2. CASE pc'[w] = "header"
    BY <1>b, <2>1, <2>2, Onward DEF Sound, Fresh, InMirror, WithOrder, Place
  <2>3. CASE pc'[w] = "next"
    <3>1. ASSUME NEW o \in list[w]
          PROVE  o \in Orders /\ shop[o].state # "none" /\ InMirror(o) /\ Reached(o)
      BY <1>a, <2>1 DEF TypeOK, ListComplete, NoGaps
    <3>2. ListComplete(w)'
      BY <2>1, <3>1, ReachedStays DEF ListComplete, Grown, InMirror, Reached
    <3>3. AtWork(w)'
      BY <1>a, <2>1, <2>3 DEF AtWork, WithOrder, Locked, Place
    <3> QED
      BY <2>3, <3>2, <3>3 DEF Sound, Fresh
  <2> QED
    BY <2>1, <2>2, <2>3
<1>8. CASE ReadHeader(w) \/ ReadLines(w) \/ EnsureCustomer(w) \/ MirrorFails(w) \/ CommitRows(w)
           \/ ExportFails(w) \/ SaveStatus(w)
  <2>1. /\ pc[w] \in WithOrder \ {"refresh", "fetched"}
        /\ pc'[w] \in {"lines", "customer", "select", "failed", "inserted", "ok"}
        /\ UNCHANGED <<holder, task, list, order>>
    BY <1>8, <1>a DEF TypeOK, Go, WithOrder, Place, mine, ReadHeader, ReadLines, EnsureCustomer,
       MirrorFails, CommitRows, ExportFails, SaveStatus
  <2> QED
    BY <1>b, <2>1, Onward DEF Sound, Fresh, InMirror, WithOrder, Place
<1>9. CASE SelectRows(w)
  <2>1. /\ pc[w] = "select" /\ pc'[w] = "insert" /\ UNCHANGED <<holder, task, list, order, icg>>
        /\ read'[w].missing = (1..Lines[read[w].body]) \ LineNumbers(icg[order[w]])
    BY <1>9, <1>a DEF SelectRows, TypeOK, Go, Reading, outside
  <2>2. Fresh(w)'
    BY <2>1 DEF Fresh, LineNumbers
  <2> QED
    BY <1>b, <2>1, <2>2, Onward DEF Sound, InMirror, WithOrder, Place
<1>10. CASE RecordSuccess(w) \/ RecordFailure(w)
  <2>1. pc[w] \in {"ok", "failed"} /\ Leave(w)
    BY <1>10 DEF RecordSuccess, RecordFailure
  <2> QED
    BY <1>b, <2>1, LeaveSound DEF WithOrder, Place
<1>11. CASE Advance(w)
  <2>1. /\ pc[w] = "advance" /\ pc'[w] = "next" /\ UNCHANGED <<shop, mirror, holder, task, list>>
        /\ task[w] = "sales"
    BY <1>11, <1>a DEF Advance, TypeOK, AtWork, Go, mine
  <2>2. InMirror(order[w]) /\ holder[Key] = w
    BY <1>a, <2>1 DEF AtWork, WithOrder, Place, Locked
  <2>3. ListComplete(w)'
    BY <1>a, <2>1, <2>2 DEF ListComplete, InMirror
  <2>4. AtWork(w)'
    BY <2>1, <2>2 DEF AtWork, WithOrder, Locked
  <2> QED
    BY <2>1, <2>3, <2>4 DEF Sound, Fresh
<1> QED
  BY <1>1, <1>2, <1>3, <1>4, <1>5, <1>6, <1>7, <1>8, <1>9, <1>10, <1>11 DEF Step

\* Every step leaves every process sound.
LEMMA SoundStep ==
    ASSUME IInv, [Next]_vars
    PROVE  \A v \in Workers : Sound(v)'
<1>a. TypeOK /\ Grown
  BY Grows DEF IInv
<1>1. ASSUME NEW v \in Workers, NEW w \in Workers, Move(w) PROVE Sound(v)'
  <2>1. CASE v = w
    <3>1. CASE Start(w)
      BY <1>a, <2>1, <3>1, StartSound
    <3>2. CASE Step(w)
      BY <1>a, <2>1, <3>2, StepSound
    <3>3. CASE Stop(w)
      BY <1>a, <2>1, <3>3, ForgetSound DEF Stop
    <3> QED
      BY <1>1, <3>1, <3>2, <3>3 DEF Move
  <2>2. CASE v # w
    <3>1. Same(v)
      BY <1>1, <1>a, <2>2, Others
    <3>2. CASE CommitRows(w)
      <4>1. pc[v] # "insert"
        BY <2>2, <3>2 DEF IInv, AtWork, CommitRows, Locked
      <4> QED
        BY <1>a, <3>1, <4>1, SoundStays
    <3>3. CASE icg' = icg
      BY <1>a, <3>1, <3>3, SoundStays
    <3> QED
      BY <1>1, <3>2, <3>3, Effects
  <2> QED
    BY <2>1, <2>2
<1>2. ASSUME NEW v \in Workers,
             SetCursor \/ Shop \/ UNCHANGED vars
      PROVE  Sound(v)'
  <2>1. Same(v) /\ icg' = icg
    BY <1>2 DEF Same, SetCursor, Shop, NewOrder, ChangeState, EditOrder, vars, mine
  <2> QED
    BY <1>a, <2>1, SoundStays
<1> QED
  BY <1>1, <1>2 DEF Next, Move

\* IInv holds at the start ...
LEMMA Initially ==
    ASSUME Init
    PROVE  IInv
<1>1. TypeOK
  BY Zeros DEF Init, TypeOK, Place, Lease!Init
<1>2. NoGaps
  BY DEF Init, NoGaps, InMirror, NoDocument, NotMirrored
<1>3. CursorBehindMirror
  BY DEF Init, CursorBehindMirror, Orders
<1>4. ASSUME NEW w \in Workers PROVE AtWork(w) /\ ListComplete(w) /\ Fresh(w)
  BY DEF Init, AtWork, ListComplete, Fresh, WithOrder, Locked
<1> QED
  BY <1>1, <1>2, <1>3, <1>4 DEF IInv

\* ... and is kept by every step.
LEMMA Inductive ==
    ASSUME IInv, [Next]_vars
    PROVE  IInv'
<1>1. \A v \in Workers : AtWork(v)' /\ ListComplete(v)' /\ Fresh(v)'
  BY SoundStep DEF Sound
<1> QED
  BY <1>1, TypeStep, NoGapsStep, CursorStep DEF IInv

\* The invariant of the orders holds in every state, whatever fails and whoever
\* dies (export_new_orders_to_icg, recheck, retries, admin).
THEOREM Invariant == Spec => []IInv
  BY Initially, Inductive, PTL DEF Spec

\* The types are right in every state.
THEOREM TypeCorrect == Spec => []TypeOK
<1>1. IInv => TypeOK
  BY DEF IInv
<1> QED
  BY <1>1, Invariant, PTL

\* The sales cursor never passes an order that has no mirror: the break of
\* export_new_orders_to_icg is what this needs, and it is enough, for any page
\* size, any number of tasks at once and any use of set_sales_sync_cursor.
THEOREM CursorsStayBehind == Spec => []CursorBehindMirror
<1>1. IInv => CursorBehindMirror
  BY DEF IInv
<1> QED
  BY <1>1, Invariant, PTL

\* insert_order_rows never inserts a line number of an order twice: every export
\* runs under the sales lock from its SELECT to its commit.
THEOREM NothingIsInsertedTwice == Spec => NoDoubleInsert
<1>1. ASSUME IInv, NEW w \in Workers, CommitRows(w)
      PROVE  read[w].missing \cap LineNumbers(icg[order[w]]) = {}
  BY <1>1 DEF IInv, Fresh, CommitRows
<1>2. IInv => [\A w \in Workers : CommitRows(w) =>
                  read[w].missing \cap LineNumbers(icg[order[w]]) = {}]_vars
  BY <1>1
<1> QED
  BY <1>2, Invariant, PTL DEF NoDoubleInsert

-----------------------------------------------------------------------------
(***************************************************************************)
(* Without refresh_prestashop_order, which takes no lock, whoever writes   *)
(* to the mirror or to ICG holds the sales lock; then ExportsCurrent is    *)
(* inductive together with IInv.                                           *)
(***************************************************************************)
AllLocked == "refresh" \notin Tasks

\* Who works on an order holds the lock.
LEMMA WorksLocked ==
    ASSUME AllLocked, IInv, NEW w \in Workers, pc[w] \in WithOrder
    PROVE  holder[Key] = w /\ order[w] \in Orders
<1>1. task[w] # "refresh"
  BY DEF AllLocked, IInv, TypeOK
<1> QED
  BY <1>1 DEF IInv, AtWork, WithOrder, Place, Locked

\* Who does not work on an order writes neither to the mirror nor to ICG.
LEMMA Idlers ==
    ASSUME NEW w \in Workers, Move(w), pc[w] \notin WithOrder
    PROVE  UNCHANGED <<mirror, icg>>
<1>1. ~Upsert(w) /\ ~ExportFails(w) /\ ~SaveStatus(w) /\ ~CommitRows(w)
  BY DEF Upsert, ExportFails, SaveStatus, CommitRows, WithOrder, Place
<1> QED
  BY <1>1 DEF Move, Start, SalesStart, RecheckStart, RetryStart, EntityStart, RefreshStart, Stop,
     Step, SalesEnter, NextOrder, Finish, Fetch, FetchFails, Check, ReadHeader, ReadLines,
     EnsureCustomer, MirrorFails, SelectRows, RecordSuccess, RecordFailure, Advance, outside

\* A step of one process leaves the exports of the others current.
LEMMA CurrentStays ==
    ASSUME AllLocked, IInv, NEW w \in Workers, Move(w), NEW v \in Workers, v # w, Current(v)
    PROVE  Current(v)'
<1>1. Same(v)
  BY Others DEF IInv
<1>2. CASE pc[v] \in WithOrder
  <2>1. pc[w] \notin WithOrder
    BY <1>2, WorksLocked
  <2> QED
    BY <1>1, <2>1, Idlers DEF Current, Same, LineNumbers
<1>3. CASE pc[v] \notin WithOrder
  BY <1>1, <1>3 DEF Current, Same, WithOrder, Place
<1> QED
  BY <1>2, <1>3

\* A process that forgets or leaves its order is at none of the places.
LEMMA NotExporting ==
    ASSUME TypeOK, NEW w \in Workers, Forget(w) \/ Leave(w)
    PROVE  Current(w)'
<1>1. pc'[w] \in {"idle", "advance", "next"}
  BY DEF TypeOK, Forget, Leave, End, Go
<1> QED
  BY <1>1 DEF Current

\* A step leaves the export of its own process current.
LEMMA OwnCurrent ==
    ASSUME AllLocked, IInv, NEW w \in Workers, Move(w), Current(w)
    PROVE  Current(w)'
<1>a. TypeOK /\ (pc[w] \in WithOrder => order[w] \in Orders)
  BY WorksLocked DEF IInv
<1> USE DEF TypeOK, Go, outside, mine
<1>1. CASE Start(w)
  <2>1. pc'[w] \in {"lock", "next", "refresh"} \/ (pc'[w] = "header" /\ task'[w] \in {"retry", "entity"})
    BY <1>1, <1>a DEF Start, SalesStart, RecheckStart, RetryStart, EntityStart, RefreshStart, Begin
  <2> QED
    BY <2>1 DEF Current
<1>2. CASE Forget(w) \/ Leave(w)
  BY <1>a, <1>2, NotExporting
<1>3. CASE \/ (SalesEnter(w) /\ ~Forget(w)) \/ NextOrder(w) \/ Fetch(w) \/ MirrorFails(w)
           \/ ExportFails(w) \/ SaveStatus(w) \/ Advance(w)
  <2>1. pc'[w] \in {"next", "refresh", "fetched", "failed", "ok"}
    BY <1>3, <1>a DEF SalesEnter, NextOrder, Fetch, MirrorFails, ExportFails, SaveStatus, Advance
  <2> QED
    BY <2>1 DEF Current
<1>4. CASE Upsert(w) /\ ~Leave(w)
  <2>1. \/ pc'[w] = "check"
        \/ /\ pc'[w] = "header" /\ task'[w] = task[w] /\ order'[w] = order[w]
           /\ task[w] = "retry" \/ (task[w] = "sales" /\ snap[w].state = "paid")
    BY <1>4, <1>a DEF Upsert
  <2>2. order[w] \in Orders
    BY <1>4, <1>a DEF Upsert, WithOrder, Place
  <2>3. mirror'[order[w]].state = snap[w].state
    BY <1>4, <1>a, <2>2, UpdatedType DEF Upsert
  <2> QED
    BY <2>1, <2>3 DEF Current
<1>5. CASE Check(w)
  BY <1>5, <1>a DEF Check, Current
<1>6. CASE ReadHeader(w) \/ ReadLines(w) \/ EnsureCustomer(w)
  <2>1. order[w] \in Orders /\ read[w] \in Reading
    BY <1>6, <1>a DEF ReadHeader, ReadLines, EnsureCustomer, WithOrder, Place
  <2> QED
    BY <1>6, <1>a, <2>1 DEF ReadHeader, ReadLines, EnsureCustomer, Current, Reading
<1>7. CASE SelectRows(w)
  <2>1. /\ pc[w] = "select" /\ pc'[w] = "insert" /\ UNCHANGED <<mirror, icg, task, order>>
        /\ read'[w].body = read[w].body
        /\ read'[w].missing = (1..Lines[read[w].body]) \ LineNumbers(icg[order[w]])
    BY <1>7, <1>a DEF SelectRows, Reading
  <2> QED
    BY <2>1 DEF Current, LineNumbers
<1>8. CASE CommitRows(w)
  <2>1. /\ pc[w] = "insert" /\ pc'[w] = "inserted" /\ UNCHANGED <<mirror, task, order, read>>
        /\ order[w] \in Orders
    BY <1>8, <1>a DEF CommitRows, WithOrder, Place
  <2> DEFINE rows == {[line |-> n, head |-> read[w].head, body |-> read[w].body] : n \in read[w].missing}
  <2>2. icg'[order[w]] = icg[order[w]] \cup rows
    BY <1>8, <1>a, <2>1 DEF CommitRows
  <2>3. LineNumbers(icg'[order[w]]) = LineNumbers(icg[order[w]]) \cup read[w].missing
    <3>1. LineNumbers(rows) = read[w].missing
      <4>1. \A r \in rows : r.line \in read[w].missing
        OBVIOUS
      <4>2. ASSUME NEW n \in read[w].missing PROVE n \in LineNumbers(rows)
        <5>1. [line |-> n, head |-> read[w].head, body |-> read[w].body] \in rows
          OBVIOUS
        <5>2. [line |-> n, head |-> read[w].head, body |-> read[w].body].line = n
          OBVIOUS
        <5> QED
          BY <5>1, <5>2 DEF LineNumbers
      <4> QED
        BY <4>1, <4>2 DEF LineNumbers
    <3>2. LineNumbers(icg[order[w]] \cup rows) = LineNumbers(icg[order[w]]) \cup LineNumbers(rows)
      BY DEF LineNumbers
    <3> QED
      BY <2>2, <3>1, <3>2
  <2>4. 1..Lines[read[w].body] \subseteq read[w].missing \cup LineNumbers(icg[order[w]])
    BY <2>1 DEF Current
  <2>5. 1..Lines[read[w].body] \subseteq LineNumbers(icg'[order[w]])
    BY <2>3, <2>4
  <2>6. read[w].body = mirror[order[w]].version
    BY <2>1 DEF Current
  <2> QED
    BY <2>1, <2>5, <2>6 DEF Current, LineNumbers
<1> QED
  BY <1>1, <1>2, <1>3, <1>4, <1>5, <1>6, <1>7, <1>8
     DEF Move, Step, Stop, SalesEnter, Finish, FetchFails, End, RecordSuccess, RecordFailure

\* Only an export that has inserted its rows marks an order SUCCEEDED.
LEMMA CompleteStep ==
    ASSUME AllLocked, IInv, ExportsCurrent, [Next]_vars
    PROVE  SucceededIsComplete'
<1>a. TypeOK /\ SucceededIsComplete
  BY DEF IInv, ExportsCurrent
<1>1. ASSUME NEW w \in Workers, Move(w) PROVE SucceededIsComplete'
  <2> SUFFICES ASSUME NEW o \in Orders, mirror'[o].status = "succeeded"
               PROVE  1..Lines[mirror'[o].version] \subseteq LineNumbers(icg'[o])
    BY DEF SucceededIsComplete, LineNumbers
  <2>b. pc[w] \in WithOrder => order[w] \in Orders
    BY WorksLocked
  <2>1. LineNumbers(icg[o]) \subseteq LineNumbers(icg'[o])
    <3>1. CASE CommitRows(w)
      <4>1. icg[o] \subseteq icg'[o]
        BY <1>a, <3>1 DEF CommitRows, TypeOK
      <4> QED
        BY <4>1 DEF LineNumbers
    <3>2. CASE icg' = icg
      BY <3>2
    <3> QED
      BY <1>1, <3>1, <3>2, Effects
  <2>2. CASE mirror[o].status = "succeeded" /\ mirror'[o].version = mirror[o].version
    BY <1>a, <2>1, <2>2 DEF SucceededIsComplete
  <2>3. CASE Upsert(w)
    <3>1. order[w] \in Orders
      BY <2>3, <2>b DEF Upsert, WithOrder, Place
    <3>2. o # order[w] => mirror'[o] = mirror[o]
      BY <1>a, <2>3 DEF Upsert, TypeOK
    <3>3. o = order[w] => mirror'[o] = Updated(mirror[o], snap[w])
      BY <1>a, <2>3, <3>1 DEF Upsert, TypeOK
    <3> QED
      BY <2>2, <3>2, <3>3 DEF Updated
  <2>4. CASE ExportFails(w)
    <3>1. order[w] \in Orders
      BY <2>4, <2>b DEF ExportFails, WithOrder, Place
    <3>2. mirror'[o] = IF o = order[w] THEN [mirror[o] EXCEPT !.status = "failed"] ELSE mirror[o]
      BY <1>a, <2>4, <3>1 DEF ExportFails, TypeOK
    <3> QED
      BY <1>a, <2>2, <3>2 DEF TypeOK, Mirrored
  <2>5. CASE SaveStatus(w)
    <3>1. order[w] \in Orders /\ pc[w] = "inserted" /\ icg' = icg
      BY <2>5, <2>b DEF SaveStatus, WithOrder, Place
    <3>2. mirror'[o] = IF o = order[w] THEN [mirror[o] EXCEPT !.status = "succeeded"] ELSE mirror[o]
      BY <1>a, <2>5, <3>1 DEF SaveStatus, TypeOK
    <3>3. mirror'[o].version = mirror[o].version
      BY <1>a, <3>2 DEF TypeOK, Mirrored
    <3>4. o = order[w] => 1..Lines[mirror[o].version] \subseteq LineNumbers(icg[o])
      BY <3>1 DEF ExportsCurrent, Current
    <3> QED
      BY <2>2, <3>1, <3>2, <3>3, <3>4
  <2>6. CASE mirror' = mirror
    BY <2>2, <2>6
  <2>7. mirror' = mirror \/ Upsert(w) \/ ExportFails(w) \/ SaveStatus(w)
    BY <1>1 DEF Move, Start, SalesStart, RecheckStart, RetryStart, EntityStart, RefreshStart, Stop,
       Step, SalesEnter, NextOrder, Finish, Fetch, FetchFails, Check, ReadHeader, ReadLines,
       EnsureCustomer, MirrorFails, SelectRows, CommitRows, RecordSuccess, RecordFailure, Advance,
       outside
  <2> QED
    BY <2>3, <2>4, <2>5, <2>6, <2>7
<1>2. CASE SetCursor \/ Shop \/ UNCHANGED vars
  <2>1. UNCHANGED <<mirror, icg>>
    BY <1>2 DEF SetCursor, Shop, NewOrder, ChangeState, EditOrder, vars
  <2> QED
    BY <1>a, <2>1 DEF SucceededIsComplete, LineNumbers
<1> QED
  BY <1>1, <1>2 DEF Next, Move

\* ExportsCurrent holds when everything that works on an order takes the lock.
THEOREM ExportsStayCurrent == AllLocked => (Spec => []ExportsCurrent)
<1> SUFFICES ASSUME AllLocked
             PROVE  Spec => []ExportsCurrent
  OBVIOUS
<1>1. Init => ExportsCurrent
  BY DEF Init, ExportsCurrent, SucceededIsComplete, Current, NotMirrored
<1>2. IInv /\ ExportsCurrent /\ [Next]_vars => ExportsCurrent'
  <2> SUFFICES ASSUME IInv, ExportsCurrent, [Next]_vars
               PROVE  ExportsCurrent'
    OBVIOUS
  <2>1. SucceededIsComplete'
    BY CompleteStep
  <2>2. ASSUME NEW v \in Workers PROVE Current(v)'
    <3>1. ASSUME NEW w \in Workers, Move(w) PROVE Current(v)'
      BY <3>1, CurrentStays, OwnCurrent DEF ExportsCurrent
    <3>2. CASE SetCursor \/ Shop \/ UNCHANGED vars
      <4>1. UNCHANGED <<mirror, icg, pc, task, read, order>>
        BY <3>2 DEF SetCursor, Shop, NewOrder, ChangeState, EditOrder, vars, mine
      <4> QED
        BY <4>1 DEF ExportsCurrent, Current, LineNumbers
    <3> QED
      BY <3>1, <3>2 DEF Next, Move
  <2> QED
    BY <2>1, <2>2 DEF ExportsCurrent
<1> QED
  BY <1>1, <1>2, Invariant, PTL DEF Spec

\* An order that is marked SUCCEEDED, which no task exports again by itself, has
\* all lines of its mirrored version in ICG, whatever failed, died or answered
\* too late before - if staff do not refresh orders, which takes no lock
\* (export_order_to_icg_from_mirror, upsert_order_snapshot).
THEOREM SucceededOrdersAreComplete == AllLocked => (Spec => []SucceededIsComplete)
<1> SUFFICES ASSUME AllLocked
             PROVE  Spec => []SucceededIsComplete
  OBVIOUS
<1>1. ExportsCurrent => SucceededIsComplete
  BY DEF ExportsCurrent
<1> QED
  BY <1>1, ExportsStayCurrent, PTL

\* The tasks for new orders and the recheck write to ICG only orders that the
\* mirror says are paid, though the check was made several steps before, under
\* the same condition (export_new_orders_to_icg,
\* recheck_order_payment_states).
THEOREM ScheduledExportsArePaid == AllLocked => (Spec => ScheduledOnlyPaid)
<1> SUFFICES ASSUME AllLocked
             PROVE  Spec => ScheduledOnlyPaid
  OBVIOUS
<1>1. ASSUME ExportsCurrent, NEW w \in Workers, CommitRows(w), task[w] \in {"sales", "recheck"}
      PROVE  mirror[order[w]].state = "paid"
  BY <1>1 DEF ExportsCurrent, Current, CommitRows
<1>2. ExportsCurrent => [\A w \in Workers : CommitRows(w) /\ task[w] \in {"sales", "recheck"} =>
                            mirror[order[w]].state = "paid"]_vars
  BY <1>1
<1> QED
  BY <1>2, ExportsStayCurrent, PTL DEF ScheduledOnlyPaid
=============================================================================
