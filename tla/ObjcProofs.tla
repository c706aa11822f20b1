----------------------------- MODULE ObjcProofs -----------------------------
(***************************************************************************)
(* The object runtime, for all objects, __weak variables, threads and      *)
(* bounds.  In this order:                                                 *)
(*  - the side table of weak references is exact (WeakTable): an invariant *)
(*    of the table and the variables alone;                                *)
(*  - the types (TypeCorrect);                                             *)
(*  - the calls in progress by their level, which they keep, so that a     *)
(*    step disturbs one level only, and the references counted that way;   *)
(*  - DyingInv: what is being deallocated is so once (DeallocatedOnce);    *)
(*  - Atomic: what the program keeps to (LawfulProgram) says of the calls  *)
(*    in progress;                                                         *)
(*  - CountInv: the reference counts are exact, and the pools are where    *)
(*    they should be (CountsExact, PoolsKept and the theorems after them). *)
(***************************************************************************)
EXTENDS ObjcRuntime, QueueProofs

WeakTables == [Ids -> [Slots -> Nat]]

WeakType ==
    /\ slot \in [Slots -> Ids \cup {Nil}]
    /\ weakRefs \in WeakTables

WeakInv == WeakType /\ WeakTableExact

\* The invariant holds initially.
LEMMA WeakInit == ASSUME Init PROVE WeakInv
<1>1. WeakType
  BY DEF Init, ObjectsInit, WeakType, WeakTables, Unregistered
<1>2. WeakTableExact
  BY ObjectsAssumption
  DEF Init, ObjectsInit, WeakTableExact, Unregistered, ObjectsAssumption
<1> QED BY <1>1, <1>2 DEF WeakInv

\* It holds on while nothing touches the weak variables and their table.
LEMMA WeakUnchanged == ASSUME WeakInv, UNCHANGED weakVars PROVE WeakInv'
BY DEF WeakInv, WeakType, WeakTableExact, weakVars

\* The end of an object takes it out of the variables and out of the table.
LEMMA WeakDealloc == ASSUME WeakInv, NEW o, DeallocObject(o) PROVE WeakInv'
<1> USE DEF WeakInv, WeakType, WeakTables
<1>1. /\ slot' = [s \in Slots |-> IF weakRefs[o][s] > 0 /\ slot[s] = o
                                  THEN Nil ELSE slot[s]]
      /\ weakRefs' = [weakRefs EXCEPT ![o] = Unregistered]
  BY DEF DeallocObject
<1>2. WeakType'
  BY <1>1 DEF Unregistered
<1>3. ASSUME NEW p \in Ids, NEW s \in Slots
      PROVE  weakRefs'[p][s] = IF slot'[s] = p THEN 1 ELSE 0
  <2>1. weakRefs[p][s] = IF slot[s] = p THEN 1 ELSE 0
    BY DEF WeakTableExact
  <2>2. CASE p = o
    BY <1>1, <2>1, <2>2, ObjectsAssumption DEF Unregistered, ObjectsAssumption
  <2>3. CASE p # o
    BY <1>1, <2>1, <2>3, ObjectsAssumption DEF ObjectsAssumption
  <2> QED BY <2>2, <2>3
<1> QED BY <1>2, <1>3 DEF WeakTableExact

\* A release deallocates the object or leaves the weak variables alone.
LEMMA WeakRelease ==
    ASSUME WeakInv, NEW o, NEW frames, ReleaseThen(o, frames) PROVE WeakInv'
BY WeakUnchanged, WeakDealloc DEF ReleaseThen

\* What the functions on the table return.
LEMMA Unregistering ==
    ASSUME WeakType, NEW o \in Ids \cup {Nil}, NEW s \in Slots
    PROVE  /\ Unregister(weakRefs, o, s) \in WeakTables
           /\ \A p \in Ids, r \in Slots :
                Unregister(weakRefs, o, s)[p][r] =
                    IF p = o /\ r = s THEN 0 ELSE weakRefs[p][r]
BY ObjectsAssumption
DEF WeakType, WeakTables, Unregister, ObjectsAssumption

\* Registering a variable adds one entry.
LEMMA Registering ==
    ASSUME NEW refs \in WeakTables,
           NEW o \in Ids \cup {Nil}, NEW s \in Slots
    PROVE  /\ RegisterWeak(refs, o, s) \in WeakTables
           /\ \A p \in Ids, r \in Slots :
                RegisterWeak(refs, o, s)[p][r] =
                    IF p = o /\ r = s THEN refs[p][r] + 1 ELSE refs[p][r]
BY ObjectsAssumption DEF WeakTables, RegisterWeak, ObjectsAssumption

\* The objc_*Weak calls.
LEMMA WeakStores ==
    ASSUME WeakInv, WeakStep PROVE WeakInv'
<1> USE DEF WeakInv
<1> PICK s \in Slots :
        \/ \E o \in Ids \cup {Nil} :
            \/ StoreWeak(s, o)
            \/ Storable(o) /\ InitWeak(s, o)
        \/ \E from \in Slots : CopyWeak(s, from) \/ MoveWeak(s, from)
        \/ DestroyWeak(s)
        \/ LoadWeakRetained(s)
  BY DEF WeakStep
<1>t. slot[s] \in Ids \cup {Nil} /\ WeakType
  BY DEF WeakType
<1>1. ASSUME NEW o \in Ids \cup {Nil}, InitWeak(s, o) PROVE WeakInv'
  <2>1. /\ slot[s] = Nil
        /\ slot' = [slot EXCEPT ![s] = o]
        /\ weakRefs' = RegisterWeak(weakRefs, o, s)
    BY <1>1 DEF InitWeak
  <2>2. weakRefs \in WeakTables
    BY DEF WeakType
  <2>a. /\ RegisterWeak(weakRefs, o, s) \in WeakTables
        /\ \A p \in Ids, r \in Slots :
             RegisterWeak(weakRefs, o, s)[p][r] =
                 IF p = o /\ r = s THEN weakRefs[p][r] + 1 ELSE weakRefs[p][r]
    BY <2>2, Registering
  <2>3. WeakType'
    BY <2>1, <2>a DEF WeakType
  <2>4. \A p \in Ids, r \in Slots :
            weakRefs'[p][r] = IF p = o /\ r = s THEN weakRefs[p][r] + 1
                                                ELSE weakRefs[p][r]
    BY <2>1, <2>a
  <2>5. WeakTableExact'
    BY <2>1, <2>4, ObjectsAssumption DEF WeakTableExact, WeakType, ObjectsAssumption
  <2> QED BY <2>3, <2>5
<1>2. ASSUME NEW o \in Ids \cup {Nil}, StoreWeak(s, o) PROVE WeakInv'
  <2> DEFINE without == Unregister(weakRefs, slot[s], s)
  <2>1. /\ slot' = [slot EXCEPT ![s] = o]
        /\ weakRefs' = RegisterWeak(without, o, s)
    BY <1>2 DEF StoreWeak
  <2>2. /\ without \in WeakTables
        /\ \A p \in Ids, r \in Slots :
             without[p][r] = IF p = slot[s] /\ r = s THEN 0 ELSE weakRefs[p][r]
    BY <1>t, Unregistering
  <2> HIDE DEF without
  <2>a. /\ RegisterWeak(without, o, s) \in WeakTables
        /\ \A p \in Ids, r \in Slots :
             RegisterWeak(without, o, s)[p][r] =
                 IF p = o /\ r = s THEN without[p][r] + 1 ELSE without[p][r]
    BY <2>2, Registering
  <2>3. WeakType'
    BY <2>1, <2>a DEF WeakType
  <2>4. \A p \in Ids, r \in Slots :
            weakRefs'[p][r] = IF p = o /\ r = s THEN without[p][r] + 1
                                                ELSE without[p][r]
    BY <2>1, <2>a
  <2>5. WeakTableExact'
    BY <2>1, <2>2, <2>4, ObjectsAssumption
    DEF WeakTableExact, WeakType, ObjectsAssumption
  <2> QED BY <2>3, <2>5
<1>3. ASSUME NEW from \in Slots, MoveWeak(s, from) PROVE WeakInv'
  <2> DEFINE o == slot[from]
             without == Unregister(weakRefs, o, from)
  <2>1. /\ s # from /\ slot[s] = Nil
        /\ slot' = [slot EXCEPT ![s] = o, ![from] = Nil]
        /\ weakRefs' = RegisterWeak(without, o, s)
    BY <1>3 DEF MoveWeak
  <2>o. o \in Ids \cup {Nil}
    BY DEF WeakType
  <2>2. /\ without \in WeakTables
        /\ \A p \in Ids, r \in Slots :
             without[p][r] = IF p = o /\ r = from THEN 0 ELSE weakRefs[p][r]
    BY <1>t, <2>o, Unregistering
  <2> HIDE DEF without, o
  <2>a. /\ RegisterWeak(without, o, s) \in WeakTables
        /\ \A p \in Ids, r \in Slots :
             RegisterWeak(without, o, s)[p][r] =
                 IF p = o /\ r = s THEN without[p][r] + 1 ELSE without[p][r]
    BY <2>2, <2>o, Registering
  <2>3. WeakType'
    BY <2>1, <2>a, <2>o DEF WeakType
  <2>4. \A p \in Ids, r \in Slots :
            weakRefs'[p][r] = IF p = o /\ r = s THEN without[p][r] + 1
                                                ELSE without[p][r]
    BY <2>1, <2>a
  <2>5. WeakTableExact'
    BY <2>1, <2>2, <2>4, <2>o, ObjectsAssumption
    DEF WeakTableExact, WeakType, ObjectsAssumption, o
  <2> QED BY <2>3, <2>5
<1>4. ASSUME DestroyWeak(s) PROVE WeakInv'
  <2>1. /\ slot' = [slot EXCEPT ![s] = Nil]
        /\ weakRefs' = Unregister(weakRefs, slot[s], s)
    BY <1>4 DEF DestroyWeak
  <2> DEFINE without == Unregister(weakRefs, slot[s], s)
  <2>a. /\ without \in WeakTables
        /\ \A p \in Ids, r \in Slots :
             without[p][r] = IF p = slot[s] /\ r = s THEN 0 ELSE weakRefs[p][r]
    BY <1>t, Unregistering
  <2>2. /\ weakRefs' \in WeakTables
        /\ \A p \in Ids, r \in Slots :
             weakRefs'[p][r] = IF p = slot[s] /\ r = s THEN 0 ELSE weakRefs[p][r]
    BY <2>1, <2>a
  <2>3. WeakType'
    BY <2>1, <2>2 DEF WeakType
  <2>4. WeakTableExact'
    BY <2>1, <2>2, ObjectsAssumption DEF WeakTableExact, WeakType, ObjectsAssumption
  <2> QED BY <2>3, <2>4
<1>5. ASSUME LoadWeakRetained(s) PROVE WeakInv'
  BY <1>5, WeakUnchanged DEF LoadWeakRetained
<1>6. ASSUME NEW from \in Slots, CopyWeak(s, from) PROVE WeakInv'
  BY <1>1, <1>6 DEF CopyWeak, WeakType
<1> QED BY <1>1, <1>2, <1>3, <1>4, <1>5, <1>6

\* The invariant is inductive.
LEMMA WeakNext == ASSUME WeakInv, [Next]_vars PROVE WeakInv'
<1>1. CASE WeakStep
  BY <1>1, WeakStores
<1>2. CASE ObjectStep
  <2>1. ASSUME NEW o \in Ids, Alloc(o) \/ Retain(o) PROVE WeakInv'
    BY <2>1, WeakUnchanged DEF Alloc, Retain
  <2>2. ASSUME NEW o \in Ids, Release(o) PROVE WeakInv'
    BY <2>2, WeakRelease DEF Release
  <2>3. ASSUME SuperDealloc PROVE WeakInv'
    BY <2>3, WeakDealloc DEF SuperDealloc
  <2>4. ASSUME NEW t \in Tasks, SwitchTo(t) PROVE WeakInv'
    BY <2>4, WeakUnchanged DEF SwitchTo
  <2> QED BY <1>2, <2>1, <2>2, <2>3, <2>4 DEF ObjectStep
<1>3. CASE HostStep
  <2> DEFINE frame == Head(stack[running])
  <2>1. ASSUME DrainNextPool(frame) PROVE WeakInv'
    BY <2>1, WeakDealloc DEF DrainNextPool
  <2>2. ASSUME DrainNextObject(frame) PROVE WeakInv'
    BY <2>2, WeakRelease DEF DrainNextObject
  <2>3. ASSUME DrainDone(frame) PROVE WeakInv'
    BY <2>3, WeakUnchanged DEF DrainDone
  <2>4. ASSUME AssociateNew(frame) PROVE WeakInv'
    BY <2>4, WeakUnchanged DEF AssociateNew
  <2> QED BY <1>3, <2>1, <2>2, <2>3, <2>4 DEF HostStep
<1>4. CASE GuestStep
  <2>1. ASSUME NEW o \in Ids, NEW frames, DropAssociation(o, frames) PROVE WeakInv'
    BY <2>1, WeakUnchanged, WeakRelease DEF DropAssociation
  <2>2. ASSUME NEW p \in Ids, NewPool(p) \/ Autorelease(p) PROVE WeakInv'
    BY <2>2, WeakUnchanged DEF NewPool, Autorelease
  <2>3. ASSUME NEW p \in Ids, NEW t \in Tasks, DrainPool(p, t) PROVE WeakInv'
    BY <2>3, WeakUnchanged DEF DrainPool
  <2>4. ASSUME NEW s \in Slots, LoadWeak(s) PROVE WeakInv'
    BY <2>4, WeakUnchanged DEF LoadWeak
  <2>5. ASSUME NEW o \in Ids, RemoveAssociatedObjects(o) PROVE WeakInv'
    BY <2>1, <2>5 DEF RemoveAssociatedObjects
  <2>6. ASSUME NEW o \in Ids, NEW new \in NewAssociations,
               SetAssociatedObject(o, new)
        PROVE  WeakInv'
    BY <2>1, <2>6 DEF SetAssociatedObject
  <2> QED BY <1>4, <2>2, <2>3, <2>4, <2>5, <2>6 DEF GuestStep
<1>5. CASE UNCHANGED vars
  BY <1>5, WeakUnchanged DEF vars, weakVars
<1> QED BY <1>1, <1>2, <1>3, <1>4, <1>5 DEF Next

LEMMA WeakInvariant == Spec => []WeakInv
<1>1. Init => WeakInv
  BY WeakInit
<1>2. WeakInv /\ [Next]_vars => WeakInv'
  BY WeakNext
<1> QED BY <1>1, <1>2, PTL DEF Spec

\* Every __weak variable is listed once, under the object it refers to, and
\* nowhere else, whatever threads, -dealloc methods, drains and associations do.
THEOREM WeakTable == Spec => []WeakTableExact
<1>1. WeakInv => WeakTableExact
  BY DEF WeakInv
<1> QED BY <1>1, WeakInvariant, PTL

-----------------------------------------------------------------------------
(***************************************************************************)
(* Types.                                                                  *)
(***************************************************************************)
LEMMA FrameKinds ==
    /\ \A o \in Ids : DeallocFrame(o) \in FrameType
    /\ \A q, r \in Seq(Ids) : DrainFrame(q, r) \in FrameType
    /\ \A o \in Ids, new \in NewAssociations : AssociateFrame(o, new) \in FrameType
    /\ \A f \in FrameType :
        /\ f.kind \in {"dealloc", "drain", "associate"}
        /\ f.kind = "dealloc" => f.of \in Ids
        /\ f.kind = "drain" => f.remaining \in Seq(Ids) /\ f.pools \in Seq(Ids)
        /\ f.kind = "associate" => f.of \in Ids /\ f.new \in NewAssociations
BY DEF FrameType, DeallocFrame, DrainFrame, AssociateFrame

\* A call in progress that goes on as frames of the right type.
LEMMA ContinueType ==
    ASSUME TypeOK, NEW frames \in Seq(FrameType), Continue(frames)
    PROVE  stack' \in [Tasks -> Seq(FrameType)]
BY DEF TypeOK, Continue

LEMMA DeallocType ==
    ASSUME TypeOK, NEW o \in Ids, DeallocObject(o)
    PROVE  /\ objects' \subseteq Ids
           /\ refcount' \in [Ids -> Nat]
           /\ \A p \in Ids \ objects' : refcount'[p] = 0
           /\ slot' \in [Slots -> Ids \cup {Nil}]
           /\ weakRefs' \in [Ids -> [Slots -> Nat]]
BY DEF TypeOK, DeallocObject, Unregistered

LEMMA IncrementType ==
    ASSUME TypeOK, NEW o \in Ids, Increment(o)
    PROVE  /\ refcount' \in [Ids -> Nat]
           /\ \A p \in Ids \ objects : refcount'[p] = 0
BY DEF TypeOK, Increment

LEMMA PushType ==
    ASSUME NEW f \in FrameType, NEW frames \in Seq(FrameType)
    PROVE  <<f>> \o frames \in Seq(FrameType)
OBVIOUS

LEMMA ReleaseType ==
    ASSUME TypeOK, NEW o \in Ids, NEW frames \in Seq(FrameType), ReleaseThen(o, frames)
    PROVE  /\ stack' \in [Tasks -> Seq(FrameType)]
           /\ objects' \subseteq Ids
           /\ refcount' \in [Ids -> Nat]
           /\ \A p \in Ids \ objects' : refcount'[p] = 0
           /\ slot' \in [Slots -> Ids \cup {Nil}]
           /\ weakRefs' \in [Ids -> [Slots -> Nat]]
<1>0. /\ refcount \in [Ids -> Nat] /\ \A p \in Ids \ objects : refcount[p] = 0
      /\ objects \subseteq Ids
      /\ slot \in [Slots -> Ids \cup {Nil}]
      /\ weakRefs \in [Ids -> [Slots -> Nat]]
  BY DEF TypeOK
<1>1. CASE /\ refcount[o] > 1
           /\ refcount' = [refcount EXCEPT ![o] = @ - 1]
           /\ Continue(frames)
           /\ UNCHANGED <<objects, weakVars>>
  BY <1>0, <1>1, ContinueType DEF weakVars
<1>2. CASE /\ refcount[o] = 1
           /\ refcount' = [refcount EXCEPT ![o] = 0]
           /\ Continue(<<DeallocFrame(o)>> \o frames)
           /\ UNCHANGED <<objects, weakVars>>
  <2>1. <<DeallocFrame(o)>> \o frames \in Seq(FrameType)
    BY FrameKinds, PushType
  <2> QED BY <1>0, <1>2, <2>1, ContinueType DEF weakVars
<1>3. CASE DeallocObject(o) /\ Continue(frames)
  BY <1>3, DeallocType, ContinueType
<1>4. CASE Continue(frames) /\ UNCHANGED <<tableVars, weakVars>>
  BY <1>0, <1>4, ContinueType DEF tableVars, weakVars
<1> QED BY <1>1, <1>2, <1>3, <1>4 DEF ReleaseThen

LEMMA TopType ==
    ASSUME TypeOK, stack[running] # <<>>
    PROVE  /\ Head(stack[running]) \in FrameType
           /\ Tail(stack[running]) \in Seq(FrameType)
BY DEF TypeOK

LEMMA ObjectsType ==
    ASSUME TypeOK, ObjectStep, UNCHANGED <<poolVars, association>> PROVE TypeOK'
<1>0. stack[running] \in Seq(FrameType)
  BY DEF TypeOK
<1>1. ASSUME NEW o \in Ids, Alloc(o) PROVE TypeOK'
  <2>1. held' \in [Ids -> 0 .. MaxRefs]
    BY <1>1, ObjectsAssumption DEF Alloc, Hold, TypeOK
  <2>2. /\ objects' = objects \cup {o} /\ refcount' = [refcount EXCEPT ![o] = 1]
        /\ UNCHANGED <<weakVars, taskVars>>
    BY <1>1 DEF Alloc, Register
  <2> QED BY <2>1, <2>2 DEF TypeOK, weakVars, taskVars, poolVars
<1>2. ASSUME NEW o \in Ids, Retain(o) PROVE TypeOK'
  <2>1. held' \in [Ids -> 0 .. MaxRefs]
    BY <1>2, ObjectsAssumption DEF Retain, Hold, TypeOK
  <2> QED BY <1>2, <2>1, IncrementType
          DEF TypeOK, Retain, weakVars, taskVars, poolVars
<1>3. ASSUME NEW o \in Ids, Release(o) PROVE TypeOK'
  <2>1. held' \in [Ids -> 0 .. MaxRefs]
    BY <1>3, ObjectsAssumption DEF Release, GiveUp, TypeOK
  <2> QED BY <1>0, <1>3, <2>1, ReleaseType DEF TypeOK, Release, poolVars
<1>4. CASE SuperDealloc
  <2>1. /\ Head(stack[running]).of \in Ids /\ Tail(stack[running]) \in Seq(FrameType)
    BY <1>4, TopType, FrameKinds DEF SuperDealloc
  <2> QED BY <1>4, <2>1, DeallocType, ContinueType DEF TypeOK, SuperDealloc, poolVars
<1>5. ASSUME NEW t \in Tasks, SwitchTo(t) PROVE TypeOK'
  BY <1>5 DEF TypeOK, SwitchTo, tableVars, weakVars, poolVars
<1> QED BY <1>1, <1>2, <1>3, <1>4, <1>5 DEF ObjectStep

\* A pool that is not empty takes the object, or it is leaked.
LEMMA AddType ==
    ASSUME TypeOK, NEW o \in Ids, AddObject(o)
    PROVE  /\ poolStack' \in [Tasks -> Seq(Ids)]
           /\ poolObjects' \in [Ids -> Seq(Ids)]
           /\ leaked' \in [Ids -> Nat]
<1>0. /\ running \in Tasks /\ poolStack \in [Tasks -> Seq(Ids)]
      /\ poolObjects \in [Ids -> Seq(Ids)] /\ leaked \in [Ids -> Nat]
  BY DEF TypeOK
<1>1. CASE poolStack[running] = <<>>
  <2>1. /\ leaked' = [leaked EXCEPT ![o] = @ + 1]
        /\ poolStack' = poolStack /\ poolObjects' = poolObjects
    BY <1>1 DEF AddObject
  <2> QED BY <1>0, <2>1
<1>2. CASE poolStack[running] # <<>>
  <2>1. Last(poolStack[running]) \in Ids
    BY <1>0, <1>2 DEF Last
  <2>2. /\ poolObjects' = [poolObjects EXCEPT ![Last(poolStack[running])] = Append(@, o)]
        /\ poolStack' = poolStack /\ leaked' = leaked
    BY <1>2 DEF AddObject
  <2> QED BY <1>0, <2>1, <2>2
<1> QED BY <1>1, <1>2

LEMMA WeakStepType ==
    ASSUME TypeOK, WeakInv, WeakStep, UNCHANGED <<poolVars, association>> PROVE TypeOK'
<1>1. WeakInv'
  BY WeakStores
<1>2. UNCHANGED <<objects, taskVars, poolVars, association>>
  BY DEF WeakStep, StoreWeak, InitWeak, CopyWeak, MoveWeak, DestroyWeak, LoadWeakRetained,
         tableVars
<1>3. /\ refcount' \in [Ids -> Nat]
      /\ \A p \in Ids \ objects : refcount'[p] = 0
      /\ held' \in [Ids -> 0 .. MaxRefs]
  <2>1. ASSUME NEW s \in Slots, LoadWeakRetained(s)
        PROVE  /\ refcount' \in [Ids -> Nat]
               /\ \A p \in Ids \ objects : refcount'[p] = 0
               /\ held' \in [Ids -> 0 .. MaxRefs]
    <3>1. slot[s] \in Ids
      BY <2>1 DEF LoadWeakRetained, TypeOK
    <3>2. held' \in [Ids -> 0 .. MaxRefs]
      BY <2>1, <3>1, ObjectsAssumption DEF LoadWeakRetained, Hold, TypeOK
    <3> QED BY <2>1, <3>1, <3>2, IncrementType DEF LoadWeakRetained
  <2> QED BY <2>1
          DEF WeakStep, StoreWeak, InitWeak, CopyWeak, MoveWeak, DestroyWeak, tableVars, TypeOK
<1> QED BY <1>1, <1>2, <1>3 DEF TypeOK, WeakInv, WeakType, WeakTables, taskVars, poolVars

LEMMA HostStepType == ASSUME TypeOK, HostStep PROVE TypeOK'
<1> DEFINE top == Head(stack[running])
<1>0. top \in FrameType /\ Tail(stack[running]) \in Seq(FrameType)
  BY TopType DEF HostStep
<1> DEFINE rest == Tail(stack[running])
<1> HIDE DEF top, rest
<1>1. CASE DrainNextPool(top)
  <2>1. /\ top.pools \in Seq(Ids) /\ top.pools # <<>>
        /\ Head(top.pools) \in Ids /\ Tail(top.pools) \in Seq(Ids)
    BY <1>0, <1>1, FrameKinds DEF DrainNextPool
  <2>2. poolObjects[Head(top.pools)] \in Seq(Ids)
    BY <2>1 DEF TypeOK
  <2>3. <<DrainFrame(poolObjects[Head(top.pools)], Tail(top.pools))>> \o rest
            \in Seq(FrameType)
    BY <1>0, <2>1, <2>2, FrameKinds, PushType DEF rest
  <2>4. /\ poolObjects' = [poolObjects EXCEPT ![Head(top.pools)] = <<>>]
        /\ DeallocObject(Head(top.pools))
        /\ Continue(<<DrainFrame(poolObjects[Head(top.pools)], Tail(top.pools))>> \o rest)
        /\ UNCHANGED <<running, held, poolStack, leaked, association>>
    BY <1>1 DEF DrainNextPool, rest
  <2>5. stack' \in [Tasks -> Seq(FrameType)]
    BY <2>3, <2>4, ContinueType
  <2>6. poolObjects' \in [Ids -> Seq(Ids)]
    <3>1. poolObjects \in [Ids -> Seq(Ids)] /\ <<>> \in Seq(Ids)
      BY DEF TypeOK
    <3>2. poolObjects' = [poolObjects EXCEPT ![Head(top.pools)] = <<>>]
      BY <2>4
    <3> QED BY <3>1, <3>2
  <2>7. /\ objects' \subseteq Ids
        /\ refcount' \in [Ids -> Nat]
        /\ \A p \in Ids \ objects' : refcount'[p] = 0
        /\ slot' \in [Slots -> Ids \cup {Nil}]
        /\ weakRefs' \in [Ids -> [Slots -> Nat]]
    BY <2>1, <2>4, DeallocType
  <2> QED BY <2>4, <2>5, <2>6, <2>7 DEF TypeOK
<1>2. CASE DrainNextObject(top)
  <2>1. /\ Head(top.remaining) \in Ids /\ Tail(top.remaining) \in Seq(Ids)
        /\ top.pools \in Seq(Ids)
    BY <1>0, <1>2, FrameKinds DEF DrainNextObject
  <2>2. <<DrainFrame(Tail(top.remaining), top.pools)>> \o rest \in Seq(FrameType)
    BY <1>0, <2>1, FrameKinds, PushType DEF rest
  <2>3. /\ ReleaseThen(Head(top.remaining), <<DrainFrame(Tail(top.remaining), top.pools)>> \o rest)
        /\ UNCHANGED <<running, held, poolVars, association>>
    BY <1>2 DEF DrainNextObject, rest
  <2> QED BY <2>1, <2>2, <2>3, ReleaseType DEF TypeOK, poolVars
<1>3. CASE DrainDone(top)
  BY <1>0, <1>3, ContinueType DEF TypeOK, DrainDone, tableVars, weakVars, poolVars
<1>4. CASE AssociateNew(top)
  <2>1. top.of \in Ids /\ top.new \in NewAssociations
    BY <1>0, <1>4, FrameKinds DEF AssociateNew
  <2>2. stack' \in [Tasks -> Seq(FrameType)]
    BY <1>0, <1>4, ContinueType DEF AssociateNew
  <2>3. UNCHANGED <<objects, weakVars, running, held, poolVars>>
    BY <1>4 DEF AssociateNew
  <2>4. CASE top.new.value = Nil
    BY <1>4, <2>2, <2>3, <2>4 DEF AssociateNew, TypeOK, weakVars, poolVars
  <2>5. CASE top.new.value # Nil
    <3>1. top.new.value \in Ids
      BY <2>1, <2>5 DEF NewAssociations, NoAssociation
    <3>2. association' = [association EXCEPT ![top.of] = top.new]
      BY <1>4, <2>5 DEF AssociateNew
    <3>3. Increment(top.new.value) \/ UNCHANGED refcount
      BY <1>4, <2>5 DEF AssociateNew
    <3>4. refcount' \in [Ids -> Nat] /\ \A p \in Ids \ objects : refcount'[p] = 0
      BY <3>1, <3>3, IncrementType DEF TypeOK
    <3> QED BY <2>1, <2>2, <2>3, <3>2, <3>4 DEF TypeOK, weakVars, poolVars
  <2> QED BY <2>4, <2>5
<1> QED BY <1>1, <1>2, <1>3, <1>4 DEF HostStep, top

LEMMA DropType ==
    ASSUME TypeOK, NEW o \in Ids, NEW frames \in Seq(FrameType), DropAssociation(o, frames)
    PROVE  TypeOK'
<1>1. /\ association' \in [Ids -> NewAssociations]
      /\ UNCHANGED <<running, held, poolVars>>
  BY DEF DropAssociation, TypeOK, NewAssociations
<1>2. CASE association[o].retained
  <2>1. association[o].value \in Ids
    BY <1>2 DEF TypeOK, NewAssociations, NoAssociation
  <2>2. ReleaseThen(association[o].value, frames)
    BY <1>2 DEF DropAssociation
  <2> QED BY <1>1, <2>1, <2>2, ReleaseType DEF TypeOK, poolVars
<1>3. CASE ~ association[o].retained
  <2>1. Continue(frames) /\ UNCHANGED <<tableVars, weakVars>>
    BY <1>3 DEF DropAssociation
  <2> QED BY <1>1, <2>1, ContinueType DEF TypeOK, poolVars, tableVars, weakVars
<1> QED BY <1>2, <1>3

\* The pools that the release of the pool at position i of a stack drains.
DrainedPools(t, i) == Reverse(SubSeq(poolStack[t], i, Len(poolStack[t])))

LEMMA DrainedType ==
    ASSUME TypeOK, NEW t \in Tasks, NEW i \in 1 .. Len(poolStack[t])
    PROVE  /\ DrainedPools(t, i) \in Seq(Ids)
           /\ Len(DrainedPools(t, i)) = Len(poolStack[t]) + 1 - i
           /\ \A j \in 1 .. Len(poolStack[t]) + 1 - i :
                DrainedPools(t, i)[j] = poolStack[t][Len(poolStack[t]) + 1 - j]
           /\ SubSeq(poolStack[t], 1, i - 1) \in Seq(Ids)
           /\ Len(SubSeq(poolStack[t], 1, i - 1)) = i - 1
           /\ \A j \in 1 .. i - 1 : SubSeq(poolStack[t], 1, i - 1)[j] = poolStack[t][j]
<1> DEFINE q == poolStack[t]
           tail == SubSeq(q, i, Len(q))
<1>1. q \in Seq(Ids) /\ Len(q) \in Nat
  BY DEF TypeOK
<1> HIDE DEF q
<1>2. /\ i \in 1 .. Len(q)
      /\ tail \in Seq(Ids) /\ Len(tail) = Len(q) + 1 - i
      /\ \A j \in 1 .. Len(q) + 1 - i : tail[j] = q[i + j - 1]
  BY <1>1 DEF q
<1> HIDE DEF tail
<1>3. /\ Reverse(tail) \in Seq(Ids)
      /\ Len(Reverse(tail)) = Len(tail)
      /\ \A j \in 1 .. Len(tail) : Reverse(tail)[j] = tail[Len(tail) - j + 1]
  BY <1>2 DEF Reverse
<1>4. \A j \in 1 .. Len(q) + 1 - i : Reverse(tail)[j] = q[Len(q) + 1 - j]
  <2> TAKE j \in 1 .. Len(q) + 1 - i
  <2>1. Reverse(tail)[j] = tail[Len(q) + 1 - i - j + 1]
    BY <1>2, <1>3
  <2>2. Len(q) + 1 - i - j + 1 \in 1 .. Len(q) + 1 - i
    BY <1>1, <1>2
  <2>3. i + (Len(q) + 1 - i - j + 1) - 1 = Len(q) + 1 - j
    BY <1>1, <1>2
  <2> QED BY <1>2, <2>1, <2>2, <2>3
<1>5. /\ SubSeq(q, 1, i - 1) \in Seq(Ids)
      /\ Len(SubSeq(q, 1, i - 1)) = i - 1
      /\ \A j \in 1 .. i - 1 : SubSeq(q, 1, i - 1)[j] = q[j]
  BY <1>1, <1>2
<1> QED BY <1>2, <1>3, <1>4, <1>5 DEF q, tail, DrainedPools

\* What the release of a pool does.
LEMMA DrainPoolEffect ==
    ASSUME TypeOK, NEW p \in Ids, NEW t \in Tasks, DrainPool(p, t)
    PROVE  \E i \in 1 .. Len(poolStack[t]) :
             /\ poolStack[t][i] = p
             /\ poolStack' = [poolStack EXCEPT ![t] = SubSeq(@, 1, i - 1)]
             /\ Continue(<<DrainFrame(<<>>, DrainedPools(t, i))>> \o stack[running])
             /\ refcount' = [refcount EXCEPT ![p] = 0]
             /\ UNCHANGED <<objects, weakVars, running, held, poolObjects, leaked, association>>
<1>1. DOMAIN poolStack[t] = 1 .. Len(poolStack[t])
  BY DEF TypeOK
<1> QED BY <1>1 DEF DrainPool, DrainedPools

LEMMA GuestStepType == ASSUME TypeOK, GuestStep PROVE TypeOK'
<1>0. stack[running] \in Seq(FrameType) /\ <<>> \in Seq(Ids)
  BY DEF TypeOK
<1>1. ASSUME NEW p \in Ids, NewPool(p) PROVE TypeOK'
  <2>1. poolStack' \in [Tasks -> Seq(Ids)]
    BY <1>1 DEF NewPool, TypeOK
  <2>2. /\ objects' = objects \cup {p} /\ refcount' = [refcount EXCEPT ![p] = 1]
        /\ UNCHANGED <<weakVars, taskVars, held, poolObjects, leaked, association>>
    BY <1>1 DEF NewPool, Register
  <2> QED BY <2>1, <2>2 DEF TypeOK, weakVars, taskVars
<1>2. ASSUME NEW o \in Ids, Autorelease(o) PROVE TypeOK'
  <2>1. held' \in [Ids -> 0 .. MaxRefs]
    BY <1>2, ObjectsAssumption DEF Autorelease, GiveUp, TypeOK
  <2>2. AddObject(o) /\ UNCHANGED <<tableVars, weakVars, taskVars, association>>
    BY <1>2 DEF Autorelease
  <2> QED BY <2>1, <2>2, AddType DEF TypeOK, weakVars, taskVars, tableVars
<1>3. ASSUME NEW p \in Ids, NEW t \in Tasks, DrainPool(p, t) PROVE TypeOK'
  <2>1. PICK i \in 1 .. Len(poolStack[t]) :
             /\ poolStack[t][i] = p
             /\ poolStack' = [poolStack EXCEPT ![t] = SubSeq(@, 1, i - 1)]
             /\ Continue(<<DrainFrame(<<>>, DrainedPools(t, i))>> \o stack[running])
             /\ refcount' = [refcount EXCEPT ![p] = 0]
             /\ UNCHANGED <<objects, weakVars, running, held, poolObjects, leaked, association>>
    BY <1>3, DrainPoolEffect
  <2>2. <<DrainFrame(<<>>, DrainedPools(t, i))>> \o stack[running] \in Seq(FrameType)
    BY <1>0, DrainedType, FrameKinds, PushType
  <2>3. stack' \in [Tasks -> Seq(FrameType)]
    BY <2>1, <2>2, ContinueType
  <2>4. poolStack' \in [Tasks -> Seq(Ids)]
    BY <2>1, DrainedType DEF TypeOK
  <2>5. refcount' \in [Ids -> Nat] /\ \A o \in Ids \ objects : refcount'[o] = 0
    BY <2>1 DEF TypeOK
  <2> QED BY <2>1, <2>3, <2>4, <2>5 DEF TypeOK, weakVars
<1>4. ASSUME NEW s \in Slots, LoadWeak(s) PROVE TypeOK'
  <2>1. slot[s] \in Ids
    BY <1>4 DEF LoadWeak, TypeOK
  <2>2. /\ Increment(slot[s]) /\ AddObject(slot[s])
        /\ UNCHANGED <<objects, weakVars, taskVars, held, association>>
    BY <1>4 DEF LoadWeak
  <2> QED BY <2>1, <2>2, AddType, IncrementType DEF TypeOK, weakVars, taskVars
<1>5. ASSUME NEW o \in Ids, RemoveAssociatedObjects(o) PROVE TypeOK'
  BY <1>0, <1>5, DropType DEF RemoveAssociatedObjects
<1>6. ASSUME NEW o \in Ids, NEW new \in NewAssociations, SetAssociatedObject(o, new)
      PROVE  TypeOK'
  <2>1. <<AssociateFrame(o, new)>> \o stack[running] \in Seq(FrameType)
    BY <1>0, FrameKinds, PushType
  <2> QED BY <1>6, <2>1, DropType DEF SetAssociatedObject
<1> QED BY <1>1, <1>2, <1>3, <1>4, <1>5, <1>6 DEF GuestStep

\* Every variable of the object runtime keeps its type.
THEOREM TypeCorrect == Spec => []TypeOK
<1>1. Init => TypeOK
  BY ObjectsAssumption DEF Init, ObjectsInit, TypeOK, Unregistered, NewAssociations
<1>2. ASSUME TypeOK, WeakInv, [Next]_vars PROVE TypeOK'
  <2>1. CASE ObjectStep /\ UNCHANGED <<poolVars, association>>
    BY <1>2, <2>1, ObjectsType
  <2>2. CASE WeakStep /\ UNCHANGED <<poolVars, association>>
    BY <1>2, <2>2, WeakStepType
  <2>3. CASE HostStep
    BY <1>2, <2>3, HostStepType
  <2>4. CASE GuestStep
    BY <1>2, <2>4, GuestStepType
  <2>5. CASE UNCHANGED vars
    BY <1>2, <2>5 DEF vars, tableVars, weakVars, taskVars, poolVars, TypeOK
  <2> QED BY <1>2, <2>1, <2>2, <2>3, <2>4, <2>5 DEF Next
<1>3. TypeOK /\ WeakInv /\ [Next]_vars => TypeOK'
  BY <1>2
<1> QED BY <1>1, <1>3, WeakInvariant, PTL DEF Spec

-----------------------------------------------------------------------------
(***************************************************************************)
(* The calls in progress, by their level: the outermost call of a thread   *)
(* is at level 1, and a call keeps its level for as long as it lasts.      *)
(***************************************************************************)
Blank == DrainFrame(<<>>, <<>>)

Level(s, d) == IF d \in 1 .. Len(s) THEN s[Len(s) + 1 - d] ELSE Blank

\* What a call has still to release, and the pools it has still to drain.
RemOf(f) == IF f.kind = "drain" THEN f.remaining ELSE <<>>
PoolsOf(f) == IF f.kind = "drain" THEN f.pools ELSE <<>>
DeallocOf(f, o) == f.kind = "dealloc" /\ f.of = o

Rem(t, d) == RemOf(Level(stack[t], d))
PoolsAt(t, d) == IF d = 0 THEN poolStack[t] ELSE PoolsOf(Level(stack[t], d))
Dies(t, d, o) == DeallocOf(Level(stack[t], d), o)

LEMMA BlankFrame ==
    /\ Blank \in FrameType /\ Blank.kind = "drain"
    /\ RemOf(Blank) = <<>> /\ PoolsOf(Blank) = <<>>
    /\ \A o : ~ DeallocOf(Blank, o)
<1>1. <<>> \in Seq(Ids)
  OBVIOUS
<1> QED BY <1>1, FrameKinds DEF Blank, DrainFrame, RemOf, PoolsOf, DeallocOf

LEMMA FrameParts ==
    /\ \A q, r : RemOf(DrainFrame(q, r)) = q /\ PoolsOf(DrainFrame(q, r)) = r
    /\ \A q, r, o : ~ DeallocOf(DrainFrame(q, r), o)
    /\ \A p : RemOf(DeallocFrame(p)) = <<>> /\ PoolsOf(DeallocFrame(p)) = <<>>
    /\ \A p, o : DeallocOf(DeallocFrame(p), o) => o = p
    /\ \A p, new : /\ RemOf(AssociateFrame(p, new)) = <<>>
                   /\ PoolsOf(AssociateFrame(p, new)) = <<>>
    /\ \A p, new, o : ~ DeallocOf(AssociateFrame(p, new), o)
BY DEF DrainFrame, DeallocFrame, AssociateFrame, RemOf, PoolsOf, DeallocOf

LEMMA FrameParted ==
    ASSUME NEW f \in FrameType
    PROVE  /\ RemOf(f) \in Seq(Ids) /\ PoolsOf(f) \in Seq(Ids)
           /\ \A o : DeallocOf(f, o) => o \in Ids /\ RemOf(f) = <<>> /\ PoolsOf(f) = <<>>
BY FrameKinds DEF RemOf, PoolsOf, DeallocOf

LEMMA LevelType ==
    ASSUME NEW s \in Seq(FrameType), NEW d
    PROVE  Level(s, d) \in FrameType
<1>1. CASE d \in 1 .. Len(s)
  <2>1. Len(s) + 1 - d \in 1 .. Len(s)
    BY <1>1
  <2> QED BY <1>1, <2>1 DEF Level
<1>2. CASE d \notin 1 .. Len(s)
  BY <1>2, BlankFrame DEF Level
<1> QED BY <1>1, <1>2

LEMMA LevelPush ==
    ASSUME NEW s \in Seq(FrameType), NEW f \in FrameType, NEW d \in Nat
    PROVE  /\ Level(<<f>> \o s, d) = IF d = Len(s) + 1 THEN f ELSE Level(s, d)
           /\ Level(s, Len(s) + 1) = Blank
           /\ Len(s) \in Nat
<1> DEFINE r == <<f>> \o s
<1>1. /\ Len(r) = Len(s) + 1 /\ Len(s) \in Nat
      /\ r[1] = f /\ \A i \in 1 .. Len(s) : r[i + 1] = s[i]
  OBVIOUS
<1> HIDE DEF r
<1>2. CASE d = Len(s) + 1
  BY <1>1, <1>2 DEF Level
<1>3. CASE d \in 1 .. Len(s)
  <2>1. r[(Len(s) + 1 - d) + 1] = s[Len(s) + 1 - d]
    BY <1>1, <1>3
  <2> QED BY <1>1, <1>3, <2>1 DEF Level
<1>4. CASE d \notin 1 .. Len(s) + 1
  BY <1>1, <1>4 DEF Level
<1> QED BY <1>1, <1>2, <1>3, <1>4 DEF Level, r

LEMMA LevelTop ==
    ASSUME NEW s \in Seq(FrameType), s # <<>>, NEW d \in Nat
    PROVE  /\ Level(s, Len(s)) = Head(s)
           /\ Level(Tail(s), d) = IF d = Len(s) THEN Blank ELSE Level(s, d)
           /\ Len(Tail(s)) + 1 = Len(s) /\ Len(s) \in Nat \ {0}
           /\ Tail(s) \in Seq(FrameType)
<1> DEFINE r == Tail(s)
<1>1. /\ r \in Seq(FrameType) /\ Len(r) = Len(s) - 1 /\ Len(s) \in Nat \ {0}
      /\ Head(s) = s[1] /\ \A i \in 1 .. Len(s) - 1 : r[i] = s[i + 1]
  OBVIOUS
<1> HIDE DEF r
<1>2. Level(s, Len(s)) = Head(s)
  BY <1>1 DEF Level
<1>3. Level(r, d) = IF d = Len(s) THEN Blank ELSE Level(s, d)
  <2>1. CASE d \in 1 .. Len(s) - 1
    <3>1. Level(r, d) = r[Len(s) - d] /\ Level(s, d) = s[(Len(s) - d) + 1]
      <4>1. Len(r) + 1 - d = Len(s) - d /\ Len(s) + 1 - d = (Len(s) - d) + 1
        BY <1>1, <2>1
      <4> QED BY <1>1, <2>1, <4>1 DEF Level
    <3>2. Len(s) - d \in 1 .. Len(s) - 1 /\ d # Len(s)
      BY <1>1, <2>1
    <3> QED BY <1>1, <3>1, <3>2
  <2>2. CASE d = Len(s)
    BY <1>1, <2>2 DEF Level
  <2>3. CASE d \notin 1 .. Len(s)
    BY <1>1, <2>3 DEF Level
  <2> QED BY <1>1, <2>1, <2>2, <2>3
<1>4. /\ Level(r, d) = IF d = Len(s) THEN Blank ELSE Level(s, d)
      /\ Len(r) + 1 = Len(s) /\ Len(s) \in Nat \ {0} /\ r \in Seq(FrameType)
  BY <1>1, <1>3
<1> QED BY <1>2, <1>4 DEF r

\* The call in progress is replaced.
LEMMA LevelReplace ==
    ASSUME NEW s \in Seq(FrameType), s # <<>>, NEW f \in FrameType, NEW d \in Nat
    PROVE  Level(<<f>> \o Tail(s), d) = IF d = Len(s) THEN f ELSE Level(s, d)
<1>1. /\ Tail(s) \in Seq(FrameType) /\ Len(Tail(s)) + 1 = Len(s)
      /\ Level(Tail(s), d) = IF d = Len(s) THEN Blank ELSE Level(s, d)
  BY LevelTop
<1>2. Level(<<f>> \o Tail(s), d) = IF d = Len(Tail(s)) + 1 THEN f ELSE Level(Tail(s), d)
  BY <1>1, LevelPush
<1> QED BY <1>1, <1>2

-----------------------------------------------------------------------------
(***************************************************************************)
(* The references to an object, in terms of levels.                        *)
(***************************************************************************)
\* The places of o in a sequence, counted from its end: an element keeps its
\* place when the first one is removed.
Back(q, o) == {n \in 1 .. Len(q) : q[Len(q) + 1 - n] = o}

Unreleased(o) == {x \in Tasks \X Nat \X Nat : x[3] \in Back(Rem(x[1], x[2]), o)}

Kept(o) == leaked[o] + Cardinality(Pooled(o))

Refs(o) == held[o] + Kept(o) + Cardinality(Unreleased(o)) + Cardinality(Associated(o))

FiniteRefs(o) ==
    IsFiniteSet(Pooled(o)) /\ IsFiniteSet(Unreleased(o)) /\ IsFiniteSet(Associated(o))

LEMMA RefsType ==
    ASSUME TypeOK, NEW o \in Ids, FiniteRefs(o)
    PROVE  /\ Refs(o) \in Nat /\ Kept(o) \in Nat /\ held[o] \in Nat /\ leaked[o] \in Nat
           /\ Cardinality(Pooled(o)) \in Nat
           /\ Cardinality(Unreleased(o)) \in Nat
           /\ Cardinality(Associated(o)) \in Nat
<1>1. held[o] \in Nat /\ leaked[o] \in Nat
  BY ObjectsAssumption DEF TypeOK
<1> QED BY <1>1, FS_CardinalityType DEF FiniteRefs, Refs, Kept

\* Sets of which one is a renaming of the other have as many members.
LEMMA Renaming ==
    ASSUME NEW S, NEW T, IsFiniteSet(S), NEW f \in [S -> T],
           \A x, y \in S : f[x] = f[y] => x = y,
           \A y \in T : \E x \in S : f[x] = y
    PROVE  IsFiniteSet(T) /\ Cardinality(T) = Cardinality(S)
<1>1. f \in Injection(S, T) /\ f \in Surjection(S, T)
  BY DEF Injection, IsInjective, Surjection
<1>2. ExistsBijection(S, T)
  BY <1>1 DEF ExistsBijection, Bijection
<1> QED BY <1>2, FS_Bijection

\* An object is as often in a sequence counted from the end.
LEMMA BackCount ==
    ASSUME NEW q \in Seq(Ids), NEW o
    PROVE  /\ IsFiniteSet(Back(q, o)) /\ IsFiniteSet({i \in DOMAIN q : q[i] = o})
           /\ Cardinality(Back(q, o)) = Cardinality({i \in DOMAIN q : q[i] = o})
<1> DEFINE S == Back(q, o)
           T == {i \in DOMAIN q : q[i] = o}
           f == [n \in S |-> Len(q) + 1 - n]
<1>0. Len(q) \in Nat /\ DOMAIN q = 1 .. Len(q)
  OBVIOUS
<1>1. IsFiniteSet(S)
  <2>1. IsFiniteSet(1 .. Len(q))
    BY <1>0, FS_Interval
  <2> QED BY <2>1, FS_Subset DEF Back
<1>2. f \in [S -> T] /\ \A x, y \in S : f[x] = f[y] => x = y
  BY <1>0 DEF Back
<1>3. ASSUME NEW y \in T PROVE \E x \in S : f[x] = y
  <2>1. Len(q) + 1 - y \in S
    BY <1>0 DEF Back
  <2>2. f[Len(q) + 1 - y] = y
    BY <1>0, <2>1
  <2> QED BY <2>1, <2>2
<1> HIDE DEF S, T, f
<1>4. IsFiniteSet(T) /\ Cardinality(T) = Cardinality(S)
  BY <1>1, <1>2, <1>3, Renaming
<1> QED BY <1>1, <1>4 DEF S, T

LEMMA Named ==
    ASSUME NEW a, NEW S, IsFiniteSet(S)
    PROVE  IsFiniteSet({a} \X S) /\ Cardinality({a} \X S) = Cardinality(S)
<1> DEFINE T == {a} \X S
           f == [x \in S |-> <<a, x>>]
<1>1. f \in [S -> T] /\ \A x, y \in S : f[x] = f[y] => x = y
  OBVIOUS
<1>2. \A y \in T : \E x \in S : f[x] = y
  OBVIOUS
<1> HIDE DEF T, f
<1>3. IsFiniteSet(T) /\ Cardinality(T) = Cardinality(S)
  BY <1>1, <1>2, Renaming
<1> QED BY <1>3 DEF T

\* The places in terms of levels are the places.
LEMMA DrainingCount ==
    ASSUME TypeOK, NEW o \in Ids, IsFiniteSet(Unreleased(o))
    PROVE  Cardinality(Draining(o)) = Cardinality(Unreleased(o))
<1> DEFINE Above(t) == Len(stack[t]) + 1
           f == [x \in Unreleased(o) |->
                    <<<<x[1], Above(x[1]) - x[2]>>, Len(Rem(x[1], x[2])) + 1 - x[3]>>]
<1>0. ASSUME NEW t \in Tasks
      PROVE  stack[t] \in Seq(FrameType) /\ Len(stack[t]) \in Nat
             /\ DOMAIN stack[t] = 1 .. Len(stack[t])
  BY DEF TypeOK
<1>1. ASSUME NEW x \in Unreleased(o)
      PROVE  /\ x = <<x[1], x[2], x[3]>> /\ x[1] \in Tasks
             /\ x[2] \in 1 .. Len(stack[x[1]])
             /\ Above(x[1]) - x[2] \in 1 .. Len(stack[x[1]])
             /\ stack[x[1]][Above(x[1]) - x[2]].kind = "drain"
             /\ Rem(x[1], x[2]) = stack[x[1]][Above(x[1]) - x[2]].remaining
             /\ Rem(x[1], x[2]) \in Seq(Ids)
             /\ x[3] \in 1 .. Len(Rem(x[1], x[2]))
             /\ Rem(x[1], x[2])[Len(Rem(x[1], x[2])) + 1 - x[3]] = o
  <2>1. /\ x = <<x[1], x[2], x[3]>> /\ x[1] \in Tasks /\ x[2] \in Nat
        /\ x[3] \in 1 .. Len(Rem(x[1], x[2]))
        /\ Rem(x[1], x[2])[Len(Rem(x[1], x[2])) + 1 - x[3]] = o
    BY DEF Unreleased, Back
  <2>2. Rem(x[1], x[2]) # <<>>
    BY <2>1
  <2>3. x[2] \in 1 .. Len(stack[x[1]])
    BY <2>2, BlankFrame DEF Rem, Level
  <2>4. Level(stack[x[1]], x[2]) = stack[x[1]][Above(x[1]) - x[2]]
    BY <2>3 DEF Level
  <2>5. /\ Level(stack[x[1]], x[2]).kind = "drain"
        /\ Rem(x[1], x[2]) = Level(stack[x[1]], x[2]).remaining
    BY <2>2 DEF Rem, RemOf
  <2>6. Rem(x[1], x[2]) \in Seq(Ids)
    BY <1>0, <2>1, LevelType, FrameParted DEF Rem
  <2>7. Above(x[1]) - x[2] \in 1 .. Len(stack[x[1]])
    BY <1>0, <2>1, <2>3
  <2> QED BY <2>1, <2>3, <2>4, <2>5, <2>6, <2>7
<1>2. ASSUME NEW t \in Tasks, NEW k \in 1 .. Len(stack[t]), NEW i,
             stack[t][k].kind = "drain",
             i \in DOMAIN stack[t][k].remaining, stack[t][k].remaining[i] = o
      PROVE  \E x \in Unreleased(o) : f[x] = <<<<t, k>>, i>>
  <2> DEFINE d == Above(t) - k
             q == stack[t][k].remaining
             n == Len(q) + 1 - i
  <2>1. d \in 1 .. Len(stack[t]) /\ Above(t) - d = k
    BY <1>0
  <2>2. Level(stack[t], d) = stack[t][k]
    BY <1>0, <2>1 DEF Level
  <2>3. Rem(t, d) = q
    BY <1>2, <2>2 DEF Rem, RemOf
  <2>4. q \in Seq(Ids)
    BY <1>0, <2>2, <2>3, LevelType, FrameParted DEF Rem
  <2>5. n \in 1 .. Len(q) /\ Len(q) + 1 - n = i /\ n \in Nat
    BY <1>2, <2>4
  <2>6. n \in Back(Rem(t, d), o)
    BY <1>2, <2>3, <2>5 DEF Back
  <2>7. <<t, d, n>> \in Unreleased(o)
    BY <2>1, <2>5, <2>6, <1>0 DEF Unreleased
  <2>8. f[<<t, d, n>>] = <<<<t, k>>, i>>
    BY <2>1, <2>3, <2>5, <2>7
  <2> QED BY <2>7, <2>8
<1>3. \A y \in Draining(o) : \E t \in Tasks : \E k \in 1 .. Len(stack[t]) : \E i :
          /\ y = <<<<t, k>>, i>>
          /\ stack[t][k].kind = "drain"
          /\ i \in DOMAIN stack[t][k].remaining /\ stack[t][k].remaining[i] = o
  BY <1>0 DEF Draining, Entries, CallsOf, CallPlaces, CallAt
<1>4. ASSUME NEW y \in Draining(o) PROVE \E x \in Unreleased(o) : f[x] = y
  <2> HIDE DEF f
  <2>1. PICK t \in Tasks : \E k \in 1 .. Len(stack[t]) : \E i :
            /\ y = <<<<t, k>>, i>>
            /\ stack[t][k].kind = "drain"
            /\ i \in DOMAIN stack[t][k].remaining /\ stack[t][k].remaining[i] = o
    BY <1>3
  <2>2. PICK k \in 1 .. Len(stack[t]) : \E i :
            /\ y = <<<<t, k>>, i>>
            /\ stack[t][k].kind = "drain"
            /\ i \in DOMAIN stack[t][k].remaining /\ stack[t][k].remaining[i] = o
    BY <2>1
  <2> QED BY <1>2, <2>2
<1>5. f \in [Unreleased(o) -> Draining(o)]
  <2> SUFFICES ASSUME NEW x \in Unreleased(o) PROVE f[x] \in Draining(o)
    OBVIOUS
  <2> DEFINE t == x[1]
             k == Above(x[1]) - x[2]
             i == Len(Rem(x[1], x[2])) + 1 - x[3]
  <2>1. /\ t \in Tasks /\ k \in 1 .. Len(stack[t]) /\ stack[t][k].kind = "drain"
        /\ stack[t][k].remaining = Rem(x[1], x[2])
        /\ stack[t][k].remaining \in Seq(Ids)
        /\ i \in 1 .. Len(stack[t][k].remaining)
        /\ stack[t][k].remaining[i] = o
    BY <1>1
  <2>2. f[x] = <<<<t, k>>, i>>
    OBVIOUS
  <2> HIDE DEF t, k, i, f
  <2>3. <<t, k>> \in CallsOf("drain")
    BY <1>0, <2>1 DEF CallsOf, CallPlaces, CallAt
  <2>4. <<<<t, k>>, i>> \in Entries(<<t, k>>, CallAt(<<t, k>>).remaining, o)
    BY <2>1 DEF Entries, CallAt
  <2> QED BY <2>2, <2>3, <2>4 DEF Draining
<1>6. ASSUME NEW x \in Unreleased(o), NEW y \in Unreleased(o), f[x] = f[y] PROVE x = y
  <2>1. /\ x[1] = y[1] /\ Above(x[1]) - x[2] = Above(y[1]) - y[2]
        /\ Len(Rem(x[1], x[2])) + 1 - x[3] = Len(Rem(y[1], y[2])) + 1 - y[3]
    BY <1>6
  <2>2. x[2] = y[2]
    <3>1. x[2] \in Nat /\ y[2] \in Nat /\ Len(stack[x[1]]) \in Nat
      BY <1>0, <1>1
    <3>2. Above(y[1]) = Above(x[1])
      BY <2>1
    <3> QED BY <2>1, <3>1, <3>2
  <2>3. x[3] = y[3]
    BY <1>1, <2>1, <2>2
  <2> QED BY <1>1, <2>1, <2>2, <2>3
<1> HIDE DEF f
<1> QED BY <1>4, <1>5, <1>6, Renaming

LEMMA RefsAreReferences ==
    ASSUME TypeOK, NEW o \in Ids, FiniteRefs(o) PROVE Refs(o) = References(o)
<1>1. Cardinality(Draining(o)) = Cardinality(Unreleased(o))
  BY DrainingCount DEF FiniteRefs
<1> QED BY <1>1, RefsType DEF Refs, Kept, References
-----------------------------------------------------------------------------
(***************************************************************************)
(* What the actions do to the calls in progress.                           *)
(***************************************************************************)
Lev(t, d) == Level(stack[t], d)

\* The calls in progress, if the running thread goes on as frames.
Planned(frames, t, d) == IF t = running THEN Level(frames, d) ELSE Lev(t, d)

Depth(t) == Len(stack[t])

LEMMA Continued ==
    ASSUME TypeOK, NEW frames \in Seq(FrameType), Continue(frames), NEW t \in Tasks, NEW d
    PROVE  Lev(t, d)' = Planned(frames, t, d)
<1>1. stack'[t] = IF t = running THEN frames ELSE stack[t]
  BY DEF Continue, TypeOK
<1> QED BY <1>1 DEF Lev, Planned

LEMMA PlannedSame ==
    ASSUME NEW t, NEW d PROVE Planned(stack[running], t, d) = Lev(t, d)
BY DEF Planned, Lev

LEMMA PlannedPush ==
    ASSUME TypeOK, NEW f \in FrameType, NEW t \in Tasks, NEW d \in Nat
    PROVE  /\ Planned(<<f>> \o stack[running], t, d) =
                IF t = running /\ d = Depth(running) + 1 THEN f ELSE Lev(t, d)
           /\ Lev(running, Depth(running) + 1) = Blank
           /\ Depth(running) \in Nat /\ running \in Tasks
<1>1. stack[running] \in Seq(FrameType) /\ running \in Tasks
  BY DEF TypeOK
<1>2. /\ Level(<<f>> \o stack[running], d) =
            IF d = Depth(running) + 1 THEN f ELSE Level(stack[running], d)
      /\ Level(stack[running], Depth(running) + 1) = Blank
      /\ Depth(running) \in Nat
  BY <1>1, LevelPush DEF Depth
<1> QED BY <1>1, <1>2 DEF Planned, Lev

LEMMA PlannedPop ==
    ASSUME TypeOK, stack[running] # <<>>, NEW t \in Tasks, NEW d \in Nat
    PROVE  /\ Planned(Tail(stack[running]), t, d) =
                IF t = running /\ d = Depth(running) THEN Blank ELSE Lev(t, d)
           /\ Lev(running, Depth(running)) = Head(stack[running])
           /\ Depth(running) \in Nat \ {0} /\ running \in Tasks
<1>1. stack[running] \in Seq(FrameType) /\ running \in Tasks
  BY DEF TypeOK
<1>2. /\ Level(Tail(stack[running]), d) =
            IF d = Depth(running) THEN Blank ELSE Level(stack[running], d)
      /\ Level(stack[running], Depth(running)) = Head(stack[running])
      /\ Depth(running) \in Nat \ {0}
  BY <1>1, LevelTop DEF Depth
<1> QED BY <1>1, <1>2 DEF Planned, Lev

LEMMA PlannedReplace ==
    ASSUME TypeOK, stack[running] # <<>>, NEW f \in FrameType, NEW t \in Tasks, NEW d \in Nat
    PROVE  /\ Planned(<<f>> \o Tail(stack[running]), t, d) =
                IF t = running /\ d = Depth(running) THEN f ELSE Lev(t, d)
           /\ Len(<<f>> \o Tail(stack[running])) = Depth(running)
<1>1. stack[running] \in Seq(FrameType)
  BY DEF TypeOK
<1>2. Level(<<f>> \o Tail(stack[running]), d) =
          IF d = Depth(running) THEN f ELSE Level(stack[running], d)
  BY <1>1, LevelReplace DEF Depth
<1>3. /\ Len(Tail(stack[running])) + 1 = Depth(running)
      /\ Tail(stack[running]) \in Seq(FrameType)
  BY <1>1, LevelTop DEF Depth
<1>4. Len(<<f>> \o Tail(stack[running])) = Depth(running)
  BY <1>3
<1> QED BY <1>2, <1>4 DEF Planned, Lev

\* A release adds at most the -dealloc of the object, which holds nothing.
LEMMA ReleaseFrames ==
    ASSUME TypeOK, NEW x \in Ids, NEW frames \in Seq(FrameType), ReleaseThen(x, frames),
           NEW t \in Tasks, NEW d \in Nat
    PROVE  /\ RemOf(Lev(t, d)') = RemOf(Planned(frames, t, d))
           /\ PoolsOf(Lev(t, d)') = PoolsOf(Planned(frames, t, d))
           /\ \A o : DeallocOf(Lev(t, d)', o) =>
                \/ DeallocOf(Planned(frames, t, d), o)
                \/ /\ o = x /\ t = running /\ d = Len(frames) + 1
                   /\ refcount[x] = 1 /\ GuestDealloc /\ refcount'[x] = 0
                   /\ UNCHANGED objects
<1>1. CASE Continue(frames)
  BY <1>1, Continued
<1>2. CASE /\ refcount[x] = 1 /\ GuestDealloc
           /\ refcount' = [refcount EXCEPT ![x] = 0]
           /\ Continue(<<DeallocFrame(x)>> \o frames)
           /\ UNCHANGED <<objects, weakVars>>
  <2>1. DeallocFrame(x) \in FrameType /\ <<DeallocFrame(x)>> \o frames \in Seq(FrameType)
    BY FrameKinds, PushType
  <2>2. Lev(t, d)' = Planned(<<DeallocFrame(x)>> \o frames, t, d)
    BY <1>2, <2>1, Continued
  <2>3. /\ Level(<<DeallocFrame(x)>> \o frames, d) =
             IF d = Len(frames) + 1 THEN DeallocFrame(x) ELSE Level(frames, d)
        /\ Level(frames, Len(frames) + 1) = Blank
    BY <2>1, LevelPush
  <2>4. refcount'[x] = 0
    BY <1>2 DEF TypeOK
  <2>5. CASE t = running /\ d = Len(frames) + 1
    <3>1. Lev(t, d)' = DeallocFrame(x) /\ Planned(frames, t, d) = Blank
      BY <2>2, <2>3, <2>5 DEF Planned
    <3> QED BY <1>2, <2>4, <2>5, <3>1, FrameParts, BlankFrame
  <2>6. CASE ~ (t = running /\ d = Len(frames) + 1)
    <3>1. Lev(t, d)' = Planned(frames, t, d)
      BY <2>2, <2>3, <2>6 DEF Planned
    <3> QED BY <3>1
  <2> QED BY <2>5, <2>6
<1> QED BY <1>1, <1>2 DEF ReleaseThen

\* What it does to the table.
LEMMA ReleaseTables ==
    ASSUME TypeOK, NEW x \in Ids, NEW frames, ReleaseThen(x, frames)
    PROVE  /\ refcount[x] = 0 => UNCHANGED <<tableVars, weakVars>>
           /\ refcount[x] > 0 =>
                /\ x \in objects
                /\ refcount' = [refcount EXCEPT ![x] = @ - 1]
                /\ \/ UNCHANGED <<objects, weakVars>> /\ (GuestDealloc \/ refcount[x] > 1)
                   \/ refcount[x] = 1 /\ DeallocObject(x)
<1>1. refcount[x] \in Nat /\ (x \notin objects => refcount[x] = 0)
  BY DEF TypeOK
<1>2. ASSUME refcount[x] = 1, DeallocObject(x) PROVE refcount' = [refcount EXCEPT ![x] = @ - 1]
  BY <1>2 DEF DeallocObject, TypeOK
<1>3. CASE refcount[x] = 0
  BY <1>1, <1>3 DEF ReleaseThen
<1>4. CASE refcount[x] = 1
  BY <1>1, <1>2, <1>4 DEF ReleaseThen
<1>5. CASE refcount[x] > 1
  BY <1>1, <1>5 DEF ReleaseThen
<1> QED BY <1>1, <1>3, <1>4, <1>5

-----------------------------------------------------------------------------
(***************************************************************************)
(* An object is deallocated once: while its -dealloc runs it is in the     *)
(* table, without a count, and a second -dealloc is not sent.              *)
(***************************************************************************)
DyingInv ==
    /\ \A o \in Ids, t \in Tasks, d \in Nat :
        Dies(t, d, o) => o \in objects /\ refcount[o] = 0
    /\ \A o \in Ids, t, u \in Tasks, d, e \in Nat :
        Dies(t, d, o) /\ Dies(u, e, o) => t = u /\ d = e

LEMMA DyingKept ==
    ASSUME DyingInv,
           \A o \in Ids, t \in Tasks, d \in Nat :
               Dies(t, d, o)' => /\ Dies(t, d, o)
                                 /\ o \in objects => o \in objects'
                                 /\ refcount[o] = 0 => refcount'[o] = 0
    PROVE  DyingInv'
BY DEF DyingInv

LEMMA SameStack ==
    ASSUME UNCHANGED stack PROVE \A t, d, o : Dies(t, d, o)' = Dies(t, d, o)
BY DEF Dies

LEMMA DyingRelease ==
    ASSUME TypeOK, DyingInv, NEW x \in Ids, NEW frames \in Seq(FrameType),
           ReleaseThen(x, frames),
           \A t \in Tasks, d \in Nat, o \in Ids :
               DeallocOf(Planned(frames, t, d), o) => Dies(t, d, o)
    PROVE  DyingInv'
<1>0. refcount \in [Ids -> Nat] /\ \A o \in Ids \ objects : refcount[o] = 0
  BY DEF TypeOK
<1>1. \A t \in Tasks, d \in Nat, o \in Ids : Dies(t, d, o)' =>
          \/ Dies(t, d, o)
          \/ /\ o = x /\ t = running /\ d = Len(frames) + 1
             /\ refcount[x] = 1 /\ refcount'[x] = 0 /\ UNCHANGED objects
  BY ReleaseFrames DEF Dies, Lev
<1>2. CASE refcount[x] = 0
  <2>1. UNCHANGED tableVars
    BY <1>2, ReleaseTables
  <2> QED BY <1>1, <1>2, <2>1, DyingKept DEF tableVars
<1>3. CASE refcount[x] > 0
  <2>1. /\ x \in objects /\ refcount' = [refcount EXCEPT ![x] = @ - 1]
        /\ objects' = objects \/ objects' = objects \ {x}
    BY <1>3, ReleaseTables DEF DeallocObject
  <2>2. \A t \in Tasks, d \in Nat : ~ Dies(t, d, x)
    BY <1>3 DEF DyingInv
  <2>3. ASSUME NEW o \in Ids, NEW t \in Tasks, NEW d \in Nat, Dies(t, d, o)'
        PROVE  o \in objects' /\ refcount'[o] = 0
    <3>1. CASE o = x
      BY <1>0, <1>1, <1>3, <2>1, <2>2, <2>3, <3>1
    <3>2. CASE o # x
      BY <1>0, <1>1, <2>1, <2>3, <3>2 DEF DyingInv
    <3> QED BY <3>1, <3>2
  <2>4. ASSUME NEW o \in Ids, NEW t \in Tasks, NEW u \in Tasks, NEW d \in Nat, NEW e \in Nat,
               Dies(t, d, o)', Dies(u, e, o)'
        PROVE  t = u /\ d = e
    <3>1. CASE o = x
      BY <1>1, <2>2, <2>4, <3>1
    <3>2. CASE o # x
      <4>1. Dies(t, d, o) /\ Dies(u, e, o)
        BY <1>1, <2>4, <3>2
      <4> QED BY <4>1 DEF DyingInv
    <3> QED BY <3>1, <3>2
  <2> QED BY <2>3, <2>4 DEF DyingInv
<1> QED BY <1>0, <1>2, <1>3

\* A drain that is about to free a pool.
PoolFreed(p) ==
    /\ stack[running] # <<>>
    /\ Head(stack[running]).kind = "drain" /\ Head(stack[running]).pools # <<>>
    /\ Head(Head(stack[running]).pools) = p

LEMMA DyingObjects == ASSUME TypeOK, DyingInv, ObjectStep PROVE DyingInv'
<1>1. ASSUME NEW o \in Ids, Alloc(o) PROVE DyingInv'
  <2>1. /\ o \notin objects /\ objects' = objects \cup {o}
        /\ refcount' = [refcount EXCEPT ![o] = 1] /\ UNCHANGED stack
    BY <1>1 DEF Alloc, Register, taskVars
  <2>2. \A p \in Ids, t \in Tasks, d \in Nat : Dies(t, d, p) => p # o
    BY <2>1 DEF DyingInv
  <2>3. refcount \in [Ids -> Nat]
    BY DEF TypeOK
  <2>4. \A p \in Ids : p # o => refcount'[p] = refcount[p]
    BY <2>1, <2>3
  <2> QED BY <2>1, <2>2, <2>4, SameStack, DyingKept
<1>2. ASSUME NEW o \in Ids, Retain(o) PROVE DyingInv'
  <2>1. UNCHANGED <<objects, stack>> /\ \A p \in Ids : refcount[p] = 0 => refcount'[p] = 0
    BY <1>2 DEF Retain, Increment, taskVars, TypeOK
  <2> QED BY <2>1, SameStack, DyingKept
<1>3. ASSUME NEW o \in Ids, Release(o) PROVE DyingInv'
  <2>1. ReleaseThen(o, stack[running]) /\ stack[running] \in Seq(FrameType)
    BY <1>3 DEF Release, TypeOK
  <2> QED BY <2>1, PlannedSame, DyingRelease DEF Dies, Lev
<1>4. CASE SuperDealloc
  <2> DEFINE x == Head(stack[running]).of
  <2>1. /\ stack[running] # <<>> /\ Head(stack[running]).kind = "dealloc"
        /\ DeallocObject(x) /\ Continue(Tail(stack[running]))
    BY <1>4 DEF SuperDealloc
  <2>2. x \in Ids /\ Tail(stack[running]) \in Seq(FrameType) /\ running \in Tasks
    BY <2>1, TopType, FrameKinds DEF TypeOK
  <2>3. Dies(running, Depth(running), x) /\ Depth(running) \in Nat
    BY <2>1, <2>2, PlannedPop DEF Dies, Lev, DeallocOf
  <2>4. \A t \in Tasks, d \in Nat, o \in Ids : Dies(t, d, o)' =>
            Dies(t, d, o) /\ ~ (t = running /\ d = Depth(running))
    <3> SUFFICES ASSUME NEW t \in Tasks, NEW d \in Nat, NEW o \in Ids, Dies(t, d, o)'
                 PROVE  Dies(t, d, o) /\ ~ (t = running /\ d = Depth(running))
      OBVIOUS
    <3>1. Lev(t, d)' = IF t = running /\ d = Depth(running) THEN Blank ELSE Lev(t, d)
      BY <2>1, <2>2, Continued, PlannedPop
    <3>2. DeallocOf(Lev(t, d)', o)
      BY DEF Dies, Lev
    <3> QED BY <3>1, <3>2, BlankFrame DEF Dies, Lev
  <2>5. \A t \in Tasks, d \in Nat, o \in Ids : Dies(t, d, o)' => o # x
    BY <2>2, <2>3, <2>4 DEF DyingInv
  <2>6. objects' = objects \ {x} /\ \A o \in Ids : o # x => refcount'[o] = refcount[o]
    BY <2>1 DEF DeallocObject, TypeOK
  <2> HIDE DEF x
  <2> QED BY <2>4, <2>5, <2>6, DyingKept
<1>5. ASSUME NEW t \in Tasks, SwitchTo(t) PROVE DyingInv'
  BY <1>5, SameStack, DyingKept DEF SwitchTo, tableVars
<1> QED BY <1>1, <1>2, <1>3, <1>4, <1>5 DEF ObjectStep

LEMMA DyingWeak == ASSUME TypeOK, DyingInv, WeakStep PROVE DyingInv'
<1>1. UNCHANGED <<objects, stack>>
  BY DEF WeakStep, StoreWeak, InitWeak, CopyWeak, MoveWeak, DestroyWeak, LoadWeakRetained,
         tableVars, taskVars
<1>2. UNCHANGED refcount \/ \E o : Increment(o)
  BY DEF WeakStep, StoreWeak, InitWeak, CopyWeak, MoveWeak, DestroyWeak, LoadWeakRetained,
         tableVars
<1>3. \A p \in Ids : refcount[p] = 0 => refcount'[p] = 0
  BY <1>2 DEF Increment, TypeOK
<1> QED BY <1>1, <1>3, SameStack, DyingKept

\* The call in progress ends, or makes way for one of a host function.
LEMMA DyingReplaced ==
    ASSUME TypeOK, DyingInv, NEW frames \in Seq(FrameType), Continue(frames),
           \A t \in Tasks, d \in Nat, o \in Ids :
               DeallocOf(Planned(frames, t, d), o) => Dies(t, d, o),
           \A t \in Tasks, d \in Nat, o \in Ids :
               Dies(t, d, o) => /\ o \in objects => o \in objects'
                                /\ refcount[o] = 0 => refcount'[o] = 0
    PROVE  DyingInv'
<1>1. \A t \in Tasks, d \in Nat, o \in Ids : Dies(t, d, o)' => Dies(t, d, o)
  BY Continued DEF Dies, Lev
<1> QED BY <1>1, DyingKept

\* Frames that are not a -dealloc add nothing.
LEMMA HarmlessPush ==
    ASSUME TypeOK, NEW f \in FrameType, \A o : ~ DeallocOf(f, o)
    PROVE  \A t \in Tasks, d \in Nat, o \in Ids :
             DeallocOf(Planned(<<f>> \o stack[running], t, d), o) => Dies(t, d, o)
BY PlannedPush DEF Dies, Lev

LEMMA HarmlessReplace ==
    ASSUME TypeOK, stack[running] # <<>>, NEW f \in FrameType, \A o : ~ DeallocOf(f, o)
    PROVE  \A t \in Tasks, d \in Nat, o \in Ids :
             DeallocOf(Planned(<<f>> \o Tail(stack[running]), t, d), o) => Dies(t, d, o)
BY PlannedReplace DEF Dies, Lev

LEMMA HarmlessPop ==
    ASSUME TypeOK, stack[running] # <<>>
    PROVE  \A t \in Tasks, d \in Nat, o \in Ids :
             DeallocOf(Planned(Tail(stack[running]), t, d), o) => Dies(t, d, o)
BY PlannedPop, BlankFrame DEF Dies, Lev

LEMMA DyingHost ==
    ASSUME TypeOK, DyingInv, HostStep,
           \A p \in Ids : PoolFreed(p) => \A t \in Tasks, d \in Nat : ~ Dies(t, d, p)
    PROVE  DyingInv'
<1> DEFINE top == Head(stack[running])
<1>0. /\ top \in FrameType /\ stack[running] # <<>>
      /\ Tail(stack[running]) \in Seq(FrameType)
  BY TopType DEF HostStep
<1> HIDE DEF top
<1>1. CASE DrainNextPool(top)
  <2> DEFINE p == Head(top.pools)
             f == DrainFrame(poolObjects[p], Tail(top.pools))
  <2>1. /\ top.kind = "drain" /\ top.pools # <<>> /\ DeallocObject(p)
        /\ Continue(<<f>> \o Tail(stack[running]))
    BY <1>1 DEF DrainNextPool
  <2>2. p \in Ids /\ Tail(top.pools) \in Seq(Ids) /\ poolObjects[p] \in Seq(Ids)
    BY <1>0, <2>1, FrameKinds DEF TypeOK
  <2>3. PoolFreed(p)
    BY <1>0, <2>1 DEF PoolFreed, top
  <2>4. f \in FrameType /\ <<f>> \o Tail(stack[running]) \in Seq(FrameType)
    BY <1>0, <2>2, FrameKinds, PushType
  <2>5. \A o : ~ DeallocOf(f, o)
    BY FrameParts
  <2>6. \A t \in Tasks, d \in Nat, o \in Ids : Dies(t, d, o) => o # p
    BY <2>2, <2>3
  <2>7. objects' = objects \ {p} /\ \A o \in Ids : o # p => refcount'[o] = refcount[o]
    BY <2>1, <2>2 DEF DeallocObject, TypeOK
  <2> HIDE DEF f, p
  <2>8. \A t \in Tasks, d \in Nat, o \in Ids :
             DeallocOf(Planned(<<f>> \o Tail(stack[running]), t, d), o) => Dies(t, d, o)
    BY <1>0, <2>4, <2>5, HarmlessReplace
  <2> QED BY <2>1, <2>4, <2>6, <2>7, <2>8, DyingReplaced
<1>2. CASE DrainNextObject(top)
  <2> DEFINE x == Head(top.remaining)
             f == DrainFrame(Tail(top.remaining), top.pools)
  <2>1. /\ top.kind = "drain" /\ top.remaining # <<>>
        /\ ReleaseThen(x, <<f>> \o Tail(stack[running]))
    BY <1>2 DEF DrainNextObject
  <2>2. x \in Ids /\ Tail(top.remaining) \in Seq(Ids) /\ top.pools \in Seq(Ids)
    BY <1>0, <2>1, FrameKinds
  <2>3. f \in FrameType /\ <<f>> \o Tail(stack[running]) \in Seq(FrameType)
    BY <1>0, <2>2, FrameKinds, PushType
  <2>4. \A o : ~ DeallocOf(f, o)
    BY FrameParts
  <2> HIDE DEF f, x
  <2>5. \A t \in Tasks, d \in Nat, o \in Ids :
             DeallocOf(Planned(<<f>> \o Tail(stack[running]), t, d), o) => Dies(t, d, o)
    BY <1>0, <2>3, <2>4, HarmlessReplace
  <2> QED BY <2>1, <2>2, <2>3, <2>5, DyingRelease
<1>3. CASE DrainDone(top)
  <2>1. Continue(Tail(stack[running])) /\ UNCHANGED tableVars
    BY <1>3 DEF DrainDone
  <2> QED BY <1>0, <2>1, HarmlessPop, DyingReplaced DEF tableVars
<1>4. CASE AssociateNew(top)
  <2>1. /\ Continue(Tail(stack[running])) /\ UNCHANGED objects
        /\ UNCHANGED refcount \/ \E o : Increment(o)
    BY <1>4 DEF AssociateNew
  <2>2. \A p \in Ids : refcount[p] = 0 => refcount'[p] = 0
    BY <2>1 DEF Increment, TypeOK
  <2> QED BY <1>0, <2>1, <2>2, HarmlessPop, DyingReplaced
<1> QED BY <1>1, <1>2, <1>3, <1>4 DEF HostStep, top

LEMMA DyingDrop ==
    ASSUME TypeOK, DyingInv, NEW o \in Ids, NEW frames \in Seq(FrameType),
           DropAssociation(o, frames),
           \A t \in Tasks, d \in Nat, x \in Ids :
               DeallocOf(Planned(frames, t, d), x) => Dies(t, d, x)
    PROVE  DyingInv'
<1>1. CASE association[o].retained
  <2>1. association[o].value \in Ids
    BY <1>1 DEF TypeOK, NewAssociations, NoAssociation
  <2>2. ReleaseThen(association[o].value, frames)
    BY <1>1 DEF DropAssociation
  <2> QED BY <2>1, <2>2, DyingRelease
<1>2. CASE ~ association[o].retained
  <2>1. Continue(frames) /\ UNCHANGED tableVars
    BY <1>2 DEF DropAssociation
  <2> QED BY <2>1, DyingReplaced DEF tableVars
<1> QED BY <1>1, <1>2

LEMMA DyingGuest == ASSUME TypeOK, DyingInv, GuestStep PROVE DyingInv'
<1>0. stack[running] \in Seq(FrameType) /\ <<>> \in Seq(Ids)
  BY DEF TypeOK
<1>1. ASSUME NEW p \in Ids, NewPool(p) PROVE DyingInv'
  <2>1. /\ p \notin objects /\ objects' = objects \cup {p}
        /\ refcount' = [refcount EXCEPT ![p] = 1] /\ UNCHANGED stack
    BY <1>1 DEF NewPool, Register, taskVars
  <2>2. \A o \in Ids, t \in Tasks, d \in Nat : Dies(t, d, o) => o # p
    BY <2>1 DEF DyingInv
  <2>3. \A o \in Ids : o # p => refcount'[o] = refcount[o]
    BY <2>1 DEF TypeOK
  <2> QED BY <2>1, <2>2, <2>3, SameStack, DyingKept
<1>2. ASSUME NEW o \in Ids, Autorelease(o) PROVE DyingInv'
  BY <1>2, SameStack, DyingKept DEF Autorelease, tableVars, taskVars
<1>3. ASSUME NEW p \in Ids, NEW t \in Tasks, DrainPool(p, t) PROVE DyingInv'
  <2>1. PICK i \in 1 .. Len(poolStack[t]) :
             /\ Continue(<<DrainFrame(<<>>, DrainedPools(t, i))>> \o stack[running])
             /\ refcount' = [refcount EXCEPT ![p] = 0]
             /\ UNCHANGED objects
    BY <1>3, DrainPoolEffect
  <2> DEFINE f == DrainFrame(<<>>, DrainedPools(t, i))
  <2>2. f \in FrameType /\ <<f>> \o stack[running] \in Seq(FrameType)
    BY <1>0, DrainedType, FrameKinds, PushType
  <2>3. \A o : ~ DeallocOf(f, o)
    BY FrameParts
  <2>4. Continue(<<f>> \o stack[running])
    BY <2>1
  <2>5. \A o \in Ids : refcount[o] = 0 => refcount'[o] = 0
    BY <2>1 DEF TypeOK
  <2> HIDE DEF f
  <2> QED BY <2>1, <2>2, <2>3, <2>4, <2>5, HarmlessPush, DyingReplaced
<1>4. ASSUME NEW s \in Slots, LoadWeak(s) PROVE DyingInv'
  <2>1. UNCHANGED <<objects, stack>> /\ Increment(slot[s])
    BY <1>4 DEF LoadWeak, taskVars
  <2>2. \A p \in Ids : refcount[p] = 0 => refcount'[p] = 0
    BY <2>1 DEF Increment, TypeOK
  <2> QED BY <2>1, <2>2, SameStack, DyingKept
<1>5. ASSUME NEW o \in Ids, RemoveAssociatedObjects(o) PROVE DyingInv'
  <2>1. DropAssociation(o, stack[running])
    BY <1>5 DEF RemoveAssociatedObjects
  <2> QED BY <1>0, <2>1, PlannedSame, DyingDrop DEF Dies, Lev
<1>6. ASSUME NEW o \in Ids, NEW new \in NewAssociations, SetAssociatedObject(o, new)
      PROVE  DyingInv'
  <2> DEFINE f == AssociateFrame(o, new)
  <2>1. f \in FrameType /\ <<f>> \o stack[running] \in Seq(FrameType)
    BY <1>0, FrameKinds, PushType
  <2>2. \A x : ~ DeallocOf(f, x)
    BY FrameParts
  <2>3. DropAssociation(o, <<f>> \o stack[running])
    BY <1>6 DEF SetAssociatedObject
  <2> HIDE DEF f
  <2> QED BY <2>1, <2>2, <2>3, HarmlessPush, DyingDrop
<1> QED BY <1>1, <1>2, <1>3, <1>4, <1>5, <1>6 DEF GuestStep

LEMMA DyingNext ==
    ASSUME TypeOK, DyingInv, [Next]_vars,
           \A p \in Ids : PoolFreed(p) => \A t \in Tasks, d \in Nat : ~ Dies(t, d, p)
    PROVE  DyingInv'
<1>1. CASE UNCHANGED vars
  BY <1>1, SameStack, DyingKept DEF vars, tableVars, taskVars
<1> QED BY <1>1, DyingObjects, DyingWeak, DyingHost, DyingGuest DEF Next

LEMMA DyingInit == ASSUME Init PROVE DyingInv
<1>1. \A t \in Tasks, d \in Nat : Level(stack[t], d) = Blank
  BY DEF Init, ObjectsInit, Level
<1> QED BY <1>1, BlankFrame DEF DyingInv, Dies

\* At most one call is the -dealloc of an object.
LEMMA DyingOnce ==
    ASSUME TypeOK, DyingInv PROVE DeallocOnce
<1> SUFFICES ASSUME NEW o \in Ids
             PROVE  Cardinality({d \in CallsOf("dealloc") : CallAt(d).of = o}) <=
                        IF o \in objects /\ refcount[o] = 0 THEN 1 ELSE 0
  BY DEF DeallocOnce
<1> DEFINE S == {d \in CallsOf("dealloc") : CallAt(d).of = o}
<1>1. ASSUME NEW x \in S
      PROVE  /\ x = <<x[1], x[2]>> /\ x[1] \in Tasks /\ x[2] \in 1 .. Len(stack[x[1]])
             /\ Len(stack[x[1]]) \in Nat
             /\ Dies(x[1], Len(stack[x[1]]) + 1 - x[2], o)
  <2>1. PICK t \in Tasks : x \in {t} \X DOMAIN stack[t]
    BY DEF CallsOf, CallPlaces
  <2>2. x = <<t, x[2]>> /\ x[1] = t /\ x[2] \in DOMAIN stack[t]
    BY <2>1
  <2>3. stack[t] \in Seq(FrameType)
    BY DEF TypeOK
  <2>4. x[2] \in 1 .. Len(stack[t]) /\ Len(stack[t]) \in Nat
    BY <2>2, <2>3
  <2>5. stack[t][x[2]].kind = "dealloc" /\ stack[t][x[2]].of = o
    BY <2>2 DEF CallsOf, CallAt
  <2>6. Level(stack[t], Len(stack[t]) + 1 - x[2]) = stack[t][x[2]]
    <3>1. /\ Len(stack[t]) + 1 - x[2] \in 1 .. Len(stack[t])
          /\ Len(stack[t]) + 1 - (Len(stack[t]) + 1 - x[2]) = x[2]
      BY <2>4
    <3> QED BY <3>1 DEF Level
  <2> QED BY <2>2, <2>4, <2>5, <2>6 DEF Dies, DeallocOf
<1>2. ASSUME NEW x \in S, NEW y \in S PROVE x = y
  <2>1. /\ Len(stack[x[1]]) + 1 - x[2] \in Nat /\ Len(stack[y[1]]) + 1 - y[2] \in Nat
    BY <1>1
  <2>2. /\ x[1] = y[1]
        /\ Len(stack[x[1]]) + 1 - x[2] = Len(stack[y[1]]) + 1 - y[2]
    BY <1>1, <2>1 DEF DyingInv
  <2>3. Len(stack[y[1]]) = Len(stack[x[1]])
    BY <2>2
  <2>4. x[2] \in Nat /\ y[2] \in Nat /\ Len(stack[x[1]]) \in Nat
    BY <1>1
  <2>5. x[2] = y[2]
    BY <2>2, <2>3, <2>4
  <2> QED BY <1>1, <2>2, <2>5
<1>3. ASSUME NEW x \in S PROVE o \in objects /\ refcount[o] = 0
  <2>1. Len(stack[x[1]]) + 1 - x[2] \in Nat
    BY <1>1
  <2> QED BY <1>1, <2>1 DEF DyingInv
<1> HIDE DEF S
<1>4. CASE S = {}
  BY <1>4, FS_EmptySet DEF S
<1>5. CASE S # {}
  <2>1. PICK x : x \in S
    BY <1>5
  <2>2. S = {x}
    BY <1>2, <2>1
  <2>3. Cardinality(S) = 1
    BY <2>2, FS_Singleton
  <2> QED BY <1>3, <2>1, <2>3 DEF S
<1> QED BY <1>4, <1>5

-----------------------------------------------------------------------------
(***************************************************************************)
(* What the actions do to the sets of references.                          *)
(***************************************************************************)
LEMMA UnreleasedSame ==
    ASSUME \A t \in Tasks, d \in Nat : Rem(t, d)' = Rem(t, d), NEW o
    PROVE  Unreleased(o)' = Unreleased(o)
BY DEF Unreleased

\* The first element of a sequence has the last place from the end.
LEMMA BackTail ==
    ASSUME NEW q \in Seq(Ids), q # <<>>, NEW o
    PROVE  /\ Back(Tail(q), o) = Back(q, o) \ {Len(q)}
           /\ Len(q) \in Nat /\ (Len(q) \in Back(q, o) <=> Head(q) = o)
<1>1. /\ Len(q) \in Nat \ {0} /\ Len(Tail(q)) = Len(q) - 1 /\ Head(q) = q[1]
      /\ \A i \in 1 .. Len(q) - 1 : Tail(q)[i] = q[i + 1]
  OBVIOUS
<1>2. ASSUME NEW n \in 1 .. Len(q) - 1
      PROVE  Tail(q)[Len(Tail(q)) + 1 - n] = q[Len(q) + 1 - n]
  <2>1. /\ Len(Tail(q)) + 1 - n = Len(q) - n /\ Len(q) - n \in 1 .. Len(q) - 1
        /\ (Len(q) - n) + 1 = Len(q) + 1 - n
    BY <1>1
  <2>2. Tail(q)[Len(q) - n] = q[(Len(q) - n) + 1]
    BY <1>1, <2>1
  <2> QED BY <2>1, <2>2
<1>3. Back(Tail(q), o) = {n \in 1 .. Len(q) - 1 : q[Len(q) + 1 - n] = o}
  BY <1>1, <1>2 DEF Back
<1>4. 1 .. Len(q) - 1 = (1 .. Len(q)) \ {Len(q)}
  BY <1>1
<1>5. Back(Tail(q), o) = Back(q, o) \ {Len(q)}
  BY <1>3, <1>4 DEF Back
<1>6. Len(q) \in Back(q, o) <=> q[Len(q) + 1 - Len(q)] = o
  BY <1>1 DEF Back
<1>7. Len(q) + 1 - Len(q) = 1
  BY <1>1
<1> QED BY <1>1, <1>5, <1>6, <1>7

\* A drain takes the next object that it has to release.
LEMMA UnreleasedTail ==
    ASSUME NEW u \in Tasks, NEW e \in Nat, Rem(u, e) \in Seq(Ids), Rem(u, e) # <<>>,
           \A t \in Tasks, d \in Nat :
               Rem(t, d)' = IF t = u /\ d = e THEN Tail(Rem(u, e)) ELSE Rem(t, d),
           NEW o, IsFiniteSet(Unreleased(o))
    PROVE  /\ IsFiniteSet(Unreleased(o)')
           /\ Cardinality(Unreleased(o)) =
                Cardinality(Unreleased(o)') + IF o = Head(Rem(u, e)) THEN 1 ELSE 0
<1> DEFINE q == Rem(u, e)
           place == <<u, e, Len(q)>>
<1>1. /\ Back(Tail(q), o) = Back(q, o) \ {Len(q)}
      /\ Len(q) \in Nat /\ (Len(q) \in Back(q, o) <=> Head(q) = o)
  BY BackTail
<1>2. Unreleased(o)' = {x \in Tasks \X Nat \X Nat : x[3] \in Back(Rem(x[1], x[2])', o)}
  BY DEF Unreleased
<1>3. ASSUME NEW x \in Tasks \X Nat \X Nat
      PROVE  x[3] \in Back(Rem(x[1], x[2])', o) <=>
                 x[3] \in Back(Rem(x[1], x[2]), o) /\ x # place
  <2>1. x = <<x[1], x[2], x[3]>> /\ x[1] \in Tasks /\ x[2] \in Nat /\ x[3] \in Nat
    OBVIOUS
  <2>2. x = place <=> x[1] = u /\ x[2] = e /\ x[3] = Len(q)
    BY <2>1
  <2>3. CASE x[1] = u /\ x[2] = e
    <3>1. Rem(x[1], x[2])' = Tail(q) /\ Rem(x[1], x[2]) = q
      BY <2>1, <2>3
    <3> QED BY <1>1, <2>2, <2>3, <3>1
  <2>4. CASE ~ (x[1] = u /\ x[2] = e)
    <3>1. Rem(x[1], x[2])' = Rem(x[1], x[2])
      BY <2>1, <2>4
    <3> QED BY <2>2, <2>4, <3>1
  <2> QED BY <2>3, <2>4
<1>4. Unreleased(o)' = Unreleased(o) \ {place}
  BY <1>2, <1>3 DEF Unreleased
<1>5. place \in Unreleased(o) <=> Head(q) = o
  BY <1>1 DEF Unreleased
<1>6. /\ IsFiniteSet(Unreleased(o) \ {place})
      /\ Cardinality(Unreleased(o) \ {place}) =
            IF place \in Unreleased(o) THEN Cardinality(Unreleased(o)) - 1
                                       ELSE Cardinality(Unreleased(o))
  BY FS_RemoveElement
<1>7. Cardinality(Unreleased(o)) \in Nat
  BY FS_CardinalityType
<1> HIDE DEF place, q
<1> QED BY <1>4, <1>5, <1>6, <1>7 DEF q

\* A drain takes the objects of its next pool.
LEMMA Moved ==
    ASSUME TypeOK, NEW u \in Tasks, NEW e \in Nat, NEW p \in Ids, Rem(u, e) = <<>>,
           \A t \in Tasks, d \in Nat :
               Rem(t, d)' = IF t = u /\ d = e THEN poolObjects[p] ELSE Rem(t, d),
           poolObjects' = [poolObjects EXCEPT ![p] = <<>>],
           NEW o, IsFiniteSet(Unreleased(o)), IsFiniteSet(Pooled(o))
    PROVE  /\ IsFiniteSet(Unreleased(o)') /\ IsFiniteSet(Pooled(o)')
           /\ Cardinality(Unreleased(o)') + Cardinality(Pooled(o)') =
                Cardinality(Unreleased(o)) + Cardinality(Pooled(o))
<1> DEFINE q == poolObjects[p]
           E == Entries(p, q, o)
           N == {<<u, e, n>> : n \in Back(q, o)}
           f == [n \in Back(q, o) |-> <<u, e, n>>]
<1>1. q \in Seq(Ids)
  BY DEF TypeOK
<1>2. /\ IsFiniteSet(Back(q, o)) /\ IsFiniteSet({i \in DOMAIN q : q[i] = o})
      /\ Cardinality(Back(q, o)) = Cardinality({i \in DOMAIN q : q[i] = o})
  BY <1>1, BackCount
<1>3. IsFiniteSet(E) /\ Cardinality(E) = Cardinality(Back(q, o))
  BY <1>2, Named DEF Entries
<1>4. IsFiniteSet(N) /\ Cardinality(N) = Cardinality(Back(q, o))
  <2>1. f \in [Back(q, o) -> N] /\ \A x, y \in Back(q, o) : f[x] = f[y] => x = y
    OBVIOUS
  <2>2. \A y \in N : \E x \in Back(q, o) : f[x] = y
    OBVIOUS
  <2> HIDE DEF f, N
  <2> QED BY <1>2, <2>1, <2>2, Renaming
<1>5. Unreleased(o)' = Unreleased(o) \cup N
  <2>1. Unreleased(o)' = {x \in Tasks \X Nat \X Nat : x[3] \in Back(Rem(x[1], x[2])', o)}
    BY DEF Unreleased
  <2>2. Back(<<>>, o) = {}
    BY DEF Back
  <2>3. \A n \in Back(q, o) : n \in Nat
    BY <1>1 DEF Back
  <2>4. ASSUME NEW x \in Tasks \X Nat \X Nat
        PROVE  x[3] \in Back(Rem(x[1], x[2])', o) <=>
                   x[3] \in Back(Rem(x[1], x[2]), o) \/ x \in N
    <3>1. x = <<x[1], x[2], x[3]>> /\ x[1] \in Tasks /\ x[2] \in Nat /\ x[3] \in Nat
      OBVIOUS
    <3>2. x \in N <=> x[1] = u /\ x[2] = e /\ x[3] \in Back(q, o)
      BY <3>1
    <3>3. CASE x[1] = u /\ x[2] = e
      BY <2>2, <3>1, <3>2, <3>3
    <3>4. CASE ~ (x[1] = u /\ x[2] = e)
      BY <3>1, <3>2, <3>4
    <3> QED BY <3>3, <3>4
  <2>5. N \subseteq Tasks \X Nat \X Nat
    BY <2>3
  <2> QED BY <2>1, <2>4, <2>5 DEF Unreleased
<1>6. Unreleased(o) \cap N = {}
  BY DEF Unreleased, Back
<1>7. E \subseteq Pooled(o) /\ Pooled(o)' = Pooled(o) \ E
  <2>1. ASSUME NEW r \in Ids
        PROVE  Entries(r, poolObjects[r], o)' = IF r = p THEN {} ELSE Entries(r, poolObjects[r], o)
    BY DEF Entries, TypeOK
  <2>2. \A r \in Ids : \A x \in Entries(r, poolObjects[r], o) : x[1] = r
    BY DEF Entries
  <2>3. \A x \in E : x[1] = p
    BY DEF Entries
  <2>4. Pooled(o)' = UNION {Entries(r, poolObjects[r], o)' : r \in Ids}
    BY DEF Pooled
  <2> QED BY <2>1, <2>2, <2>3, <2>4 DEF Pooled
<1> HIDE DEF E, N, q, f
<1>8. /\ IsFiniteSet(Unreleased(o) \cup N)
      /\ Cardinality(Unreleased(o) \cup N) =
            Cardinality(Unreleased(o)) + Cardinality(N) - Cardinality(Unreleased(o) \cap N)
  BY <1>4, FS_Union
<1>9. /\ IsFiniteSet(Pooled(o) \ E)
      /\ Cardinality(Pooled(o) \ E) = Cardinality(Pooled(o)) - Cardinality(Pooled(o) \cap E)
  BY <1>3, FS_Difference
<1>10. Pooled(o) \cap E = E
  BY <1>7
<1>11. Cardinality({}) = 0
  BY FS_EmptySet
<1>12. /\ Cardinality(Unreleased(o)) \in Nat /\ Cardinality(N) \in Nat
       /\ Cardinality(Pooled(o)) \in Nat /\ Cardinality(E) \in Nat
  BY <1>3, <1>4, FS_CardinalityType
<1>13. Cardinality(Unreleased(o)') = Cardinality(Unreleased(o)) + Cardinality(N)
  <2>1. Cardinality(Unreleased(o) \cap N) = 0
    BY <1>6, <1>11
  <2>2. Cardinality(Unreleased(o) \cup N) = Cardinality(Unreleased(o)) + Cardinality(N)
    BY <1>8, <1>12, <2>1
  <2> QED BY <1>5, <2>2
<1>14. Cardinality(Pooled(o)') = Cardinality(Pooled(o)) - Cardinality(E)
  BY <1>7, <1>9, <1>10
<1>15. Cardinality(E) = Cardinality(N)
  BY <1>3, <1>4
<1> QED BY <1>5, <1>7, <1>8, <1>9, <1>12, <1>13, <1>14, <1>15

LEMMA LastType ==
    ASSUME NEW q \in Seq(Ids), q # <<>>
    PROVE  /\ Last(q) \in Ids /\ Len(q) \in Nat \ {0} /\ Last(q) = q[Len(q)]
<1>1. Len(q) \in Nat \ {0}
  OBVIOUS
<1>2. Last(q) = q[Len(q)]
  BY DEF Last
<1> QED BY <1>1, <1>2

\* An object is added to the innermost pool, or leaked.
LEMMA KeptAdd ==
    ASSUME TypeOK, NEW x \in Ids, AddObject(x), NEW o \in Ids, IsFiniteSet(Pooled(o))
    PROVE  /\ IsFiniteSet(Pooled(o)')
           /\ Kept(o)' = Kept(o) + IF o = x THEN 1 ELSE 0
           /\ UNCHANGED poolStack
           /\ \/ poolObjects'[o] = poolObjects[o]
              \/ poolStack[running] # <<>> /\ o = Last(poolStack[running])
<1>0. /\ running \in Tasks /\ poolStack[running] \in Seq(Ids)
      /\ poolObjects \in [Ids -> Seq(Ids)] /\ leaked \in [Ids -> Nat]
      /\ leaked[o] \in Nat
  BY DEF TypeOK
<1>1. Cardinality(Pooled(o)) \in Nat
  BY FS_CardinalityType
<1>2. CASE poolStack[running] = <<>>
  <2>1. /\ leaked' = [leaked EXCEPT ![x] = @ + 1]
        /\ poolStack' = poolStack /\ poolObjects' = poolObjects
    BY <1>2 DEF AddObject
  <2>2. Pooled(o)' = Pooled(o)
    BY <2>1 DEF Pooled
  <2>3. leaked'[o] = leaked[o] + IF o = x THEN 1 ELSE 0
    BY <1>0, <2>1
  <2>4. Kept(o)' = leaked'[o] + Cardinality(Pooled(o))
    BY <2>2 DEF Kept
  <2>5. Kept(o)' = Kept(o) + IF o = x THEN 1 ELSE 0
    <3>1. Kept(o) = leaked[o] + Cardinality(Pooled(o))
      BY DEF Kept
    <3> QED BY <1>0, <1>1, <2>3, <2>4, <3>1
  <2> QED BY <2>1, <2>2, <2>5
<1>3. CASE poolStack[running] # <<>>
  <2> DEFINE p == Last(poolStack[running])
             q == poolObjects[p]
             place == <<p, Len(q) + 1>>
  <2>1. /\ poolObjects' = [poolObjects EXCEPT ![p] = Append(@, x)]
        /\ poolStack' = poolStack /\ leaked' = leaked
    BY <1>3 DEF AddObject
  <2>2. p \in Ids
    BY <1>0, <1>3, LastType
  <2>3. q \in Seq(Ids) /\ Len(q) \in Nat /\ poolObjects'[p] = Append(q, x)
    BY <1>0, <2>1, <2>2
  <2> HIDE DEF p
  <2>4. \A r \in Ids : r # p => poolObjects'[r] = poolObjects[r]
    BY <1>0, <2>1
  <2> HIDE DEF q
  <2>5. /\ DOMAIN Append(q, x) = DOMAIN q \cup {Len(q) + 1}
        /\ Append(q, x)[Len(q) + 1] = x /\ DOMAIN q = 1 .. Len(q)
        /\ \A i \in 1 .. Len(q) : Append(q, x)[i] = q[i]
    BY <2>3
  <2>6. Len(q) + 1 \notin DOMAIN q
    BY <2>3, <2>5
  <2>7. Entries(p, Append(q, x), o) =
            Entries(p, q, o) \cup IF o = x THEN {place} ELSE {}
    BY <2>5, <2>6 DEF Entries
  <2>8. Pooled(o)' = Pooled(o) \cup IF o = x THEN {place} ELSE {}
    <3>1. ASSUME NEW r \in Ids
          PROVE  Entries(r, poolObjects'[r], o) =
                     Entries(r, poolObjects[r], o) \cup IF r = p /\ o = x THEN {place} ELSE {}
      <4>1. CASE r = p
        BY <2>3, <2>7, <4>1 DEF q
      <4>2. CASE r # p
        BY <2>4, <4>2
      <4> QED BY <4>1, <4>2
    <3>2. Pooled(o)' = UNION {Entries(r, poolObjects'[r], o) : r \in Ids}
      BY DEF Pooled, Entries
    <3> HIDE DEF place
    <3> QED BY <2>2, <3>1, <3>2 DEF Pooled
  <2>9. place \notin Pooled(o)
    <3>1. ASSUME place \in Pooled(o) PROVE FALSE
      <4>1. PICK r \in Ids : place \in Entries(r, poolObjects[r], o)
        BY <3>1 DEF Pooled
      <4>2. r = p /\ Len(q) + 1 \in DOMAIN q
        BY <4>1 DEF Entries, q
      <4> QED BY <2>6, <4>2
    <3> QED BY <3>1
  <2> HIDE DEF place
  <2>10. /\ IsFiniteSet(Pooled(o)')
         /\ Cardinality(Pooled(o)') = Cardinality(Pooled(o)) + IF o = x THEN 1 ELSE 0
    <3>1. CASE o = x
      <4>1. Pooled(o)' = Pooled(o) \cup {place}
        BY <2>8, <3>1
      <4> QED BY <2>9, <3>1, <4>1, FS_AddElement
    <3>2. CASE o # x
      <4>1. Pooled(o)' = Pooled(o)
        BY <2>8, <3>2
      <4> QED BY <1>1, <3>2, <4>1
    <3> QED BY <3>1, <3>2
  <2>11. Kept(o)' = leaked[o] + Cardinality(Pooled(o)')
    BY <2>1 DEF Kept
  <2>12. Kept(o)' = Kept(o) + IF o = x THEN 1 ELSE 0
    <3>1. Kept(o) = leaked[o] + Cardinality(Pooled(o))
      BY DEF Kept
    <3> QED BY <1>0, <1>1, <2>10, <2>11, <3>1
  <2> QED BY <1>3, <2>1, <2>4, <2>10, <2>12 DEF p
<1> QED BY <1>2, <1>3

\* An association that holds no reference is entered.
LEMMA AssociatedAdd ==
    ASSUME TypeOK, NEW x \in Ids, NEW new \in NewAssociations, ~ association[x].retained,
           association' = [association EXCEPT ![x] = new],
           NEW o \in Ids, IsFiniteSet(Associated(o))
    PROVE  /\ IsFiniteSet(Associated(o)')
           /\ Cardinality(Associated(o)') =
                Cardinality(Associated(o)) + IF new.retained /\ o = new.value THEN 1 ELSE 0
<1>1. /\ association'[x] = new /\ \A y \in Ids : y # x => association'[y] = association[y]
  BY DEF TypeOK
<1>2. Associated(o)' = {y \in Ids : association'[y].retained /\ association'[y].value = o}
  BY DEF Associated
<1>3. x \notin Associated(o) /\ Cardinality(Associated(o)) \in Nat
  BY FS_CardinalityType DEF Associated
<1>4. CASE new.retained /\ o = new.value
  <2>1. Associated(o)' = Associated(o) \cup {x}
    BY <1>1, <1>2, <1>4 DEF Associated
  <2> QED BY <1>3, <1>4, <2>1, FS_AddElement
<1>5. CASE ~ (new.retained /\ o = new.value)
  <2>1. Associated(o)' = Associated(o)
    BY <1>1, <1>2, <1>3, <1>5 DEF Associated
  <2> QED BY <1>3, <1>5, <2>1
<1> QED BY <1>4, <1>5

\* An association is removed.
LEMMA AssociatedDrop ==
    ASSUME TypeOK, NEW x \in Ids, association' = [association EXCEPT ![x] = NoAssociation],
           NEW o \in Ids, IsFiniteSet(Associated(o))
    PROVE  /\ IsFiniteSet(Associated(o)')
           /\ Cardinality(Associated(o)) = Cardinality(Associated(o)') +
                IF association[x].retained /\ o = association[x].value THEN 1 ELSE 0
<1>1. /\ association'[x] = NoAssociation /\ NoAssociation.retained = FALSE
      /\ \A y \in Ids : y # x => association'[y] = association[y]
  BY DEF TypeOK, NoAssociation
<1>2. Associated(o)' = {y \in Ids : association'[y].retained /\ association'[y].value = o}
  BY DEF Associated
<1>3. Cardinality(Associated(o)) \in Nat
  BY FS_CardinalityType
<1>4. x \in Associated(o) <=> association[x].retained /\ o = association[x].value
  BY DEF Associated
<1>5. Associated(o)' = Associated(o) \ {x}
  <2>1. ~ association'[x].retained
    BY <1>1
  <2> QED BY <1>1, <1>2, <2>1 DEF Associated
<1>6. /\ IsFiniteSet(Associated(o) \ {x})
      /\ Cardinality(Associated(o) \ {x}) =
            IF x \in Associated(o) THEN Cardinality(Associated(o)) - 1
                                   ELSE Cardinality(Associated(o))
  BY FS_RemoveElement
<1> QED BY <1>3, <1>4, <1>5, <1>6

-----------------------------------------------------------------------------
(***************************************************************************)
(* Pools that are in use: on a stack of pools, or in a drain that has not  *)
(* got to them.                                                            *)
(***************************************************************************)
Pending(p) ==
    \E t \in Tasks, d \in Nat : \E i \in 1 .. Len(PoolsAt(t, d)) : PoolsAt(t, d)[i] = p

PoolsOnce ==
    \A t, u \in Tasks, d, e \in Nat :
        \A i \in 1 .. Len(PoolsAt(t, d)), j \in 1 .. Len(PoolsAt(u, e)) :
            PoolsAt(t, d)[i] = PoolsAt(u, e)[j] => t = u /\ d = e /\ i = j

LEMMA PoolsType ==
    ASSUME TypeOK, NEW t \in Tasks, NEW d \in Nat
    PROVE  PoolsAt(t, d) \in Seq(Ids) /\ Rem(t, d) \in Seq(Ids)
<1>1. stack[t] \in Seq(FrameType) /\ poolStack[t] \in Seq(Ids)
  BY DEF TypeOK
<1>2. Level(stack[t], d) \in FrameType
  BY <1>1, LevelType
<1> QED BY <1>1, <1>2, FrameParted DEF PoolsAt, Rem

LEMMA PoolsSame ==
    ASSUME \A t \in Tasks, d \in Nat : PoolsAt(t, d)' = PoolsAt(t, d)
    PROVE  PoolsOnce => PoolsOnce' /\ \A p : Pending(p)' <=> Pending(p)
<1>1. PoolsOnce => PoolsOnce'
  BY DEF PoolsOnce
<1>2. \A p : Pending(p)' <=> Pending(p)
  BY DEF Pending
<1> QED BY <1>1, <1>2

\* A pool is pushed.
LEMMA PoolsPush ==
    ASSUME TypeOK, PoolsOnce, NEW p \in Ids, NEW u \in Tasks, ~ Pending(p),
           \A t \in Tasks, d \in Nat :
               PoolsAt(t, d)' = IF t = u /\ d = 0 THEN Append(PoolsAt(u, 0), p) ELSE PoolsAt(t, d)
    PROVE  PoolsOnce' /\ \A o : Pending(o)' <=> Pending(o) \/ o = p
<1> DEFINE q == PoolsAt(u, 0)
<1>1. q \in Seq(Ids)
  BY PoolsType
<1>2. /\ Len(Append(q, p)) = Len(q) + 1 /\ Len(q) \in Nat
      /\ Append(q, p)[Len(q) + 1] = p
      /\ \A i \in 1 .. Len(q) : Append(q, p)[i] = q[i]
  BY <1>1
<1>3. \A t \in Tasks, d \in Nat : \A i \in 1 .. Len(PoolsAt(t, d)') :
          \/ i \in 1 .. Len(PoolsAt(t, d)) /\ PoolsAt(t, d)'[i] = PoolsAt(t, d)[i]
          \/ t = u /\ d = 0 /\ i = Len(q) + 1 /\ PoolsAt(t, d)'[i] = p
  BY <1>2
<1>4. \A t \in Tasks, d \in Nat : \A i \in 1 .. Len(PoolsAt(t, d)) : PoolsAt(t, d)[i] # p
  BY DEF Pending
<1>5. PoolsOnce'
  <2> SUFFICES ASSUME NEW t \in Tasks, NEW r \in Tasks, NEW d \in Nat, NEW e \in Nat,
                      NEW i \in 1 .. Len(PoolsAt(t, d)'), NEW j \in 1 .. Len(PoolsAt(r, e)'),
                      PoolsAt(t, d)'[i] = PoolsAt(r, e)'[j]
               PROVE  t = r /\ d = e /\ i = j
    BY DEF PoolsOnce
  <2>1. \/ i \in 1 .. Len(PoolsAt(t, d)) /\ PoolsAt(t, d)'[i] = PoolsAt(t, d)[i]
        \/ t = u /\ d = 0 /\ i = Len(q) + 1 /\ PoolsAt(t, d)'[i] = p
    BY <1>3
  <2>2. \/ j \in 1 .. Len(PoolsAt(r, e)) /\ PoolsAt(r, e)'[j] = PoolsAt(r, e)[j]
        \/ r = u /\ e = 0 /\ j = Len(q) + 1 /\ PoolsAt(r, e)'[j] = p
    BY <1>3
  <2>3. CASE PoolsAt(t, d)'[i] = p
    <3>1. PoolsAt(r, e)'[j] = p
      BY <2>3
    <3>2. t = u /\ d = 0 /\ i = Len(q) + 1
      BY <1>4, <2>1, <2>3
    <3>3. r = u /\ e = 0 /\ j = Len(q) + 1
      BY <1>4, <2>2, <3>1
    <3> QED BY <3>2, <3>3
  <2>4. CASE PoolsAt(t, d)'[i] # p
    <3>1. /\ i \in 1 .. Len(PoolsAt(t, d)) /\ j \in 1 .. Len(PoolsAt(r, e))
          /\ PoolsAt(t, d)[i] = PoolsAt(r, e)[j]
      BY <2>1, <2>2, <2>4
    <3> QED BY <3>1 DEF PoolsOnce
  <2> QED BY <2>3, <2>4
<1>6. ASSUME NEW o, Pending(o)' PROVE Pending(o) \/ o = p
  <2>1. PICK t \in Tasks, d \in Nat : \E i \in 1 .. Len(PoolsAt(t, d)') : PoolsAt(t, d)'[i] = o
    BY <1>6 DEF Pending
  <2> QED BY <1>3, <2>1 DEF Pending
<1>7. ASSUME NEW o, Pending(o) PROVE Pending(o)'
  <2>1. PICK t \in Tasks, d \in Nat : \E i \in 1 .. Len(PoolsAt(t, d)) : PoolsAt(t, d)[i] = o
    BY <1>7 DEF Pending
  <2>2. \E i \in 1 .. Len(PoolsAt(t, d)') : PoolsAt(t, d)'[i] = o
    BY <1>2, <2>1
  <2> QED BY <2>2 DEF Pending
<1>8. Pending(p)'
  <2>1. Len(q) + 1 \in 1 .. Len(PoolsAt(u, 0)') /\ PoolsAt(u, 0)'[Len(q) + 1] = p
    BY <1>2
  <2> QED BY <2>1 DEF Pending
<1> QED BY <1>5, <1>6, <1>7, <1>8

\* A drain goes on with its next pool.
LEMMA PoolsRest ==
    ASSUME TypeOK, PoolsOnce, NEW u \in Tasks, NEW e \in Nat, PoolsAt(u, e) # <<>>,
           \A t \in Tasks, d \in Nat :
               PoolsAt(t, d)' = IF t = u /\ d = e THEN Tail(PoolsAt(u, e)) ELSE PoolsAt(t, d)
    PROVE  /\ PoolsOnce'
           /\ \A o : Pending(o)' <=> Pending(o) /\ o # Head(PoolsAt(u, e))
           /\ Pending(Head(PoolsAt(u, e)))
<1> DEFINE q == PoolsAt(u, e)
<1>1. q \in Seq(Ids)
  BY PoolsType
<1>2. /\ Len(Tail(q)) = Len(q) - 1 /\ Len(q) \in Nat \ {0} /\ Head(q) = q[1]
      /\ \A i \in 1 .. Len(q) - 1 : Tail(q)[i] = q[i + 1]
  BY <1>1
<1> DEFINE Shift(t, d) == IF t = u /\ d = e THEN 1 ELSE 0
<1>3. ASSUME NEW t \in Tasks, NEW d \in Nat, NEW i \in 1 .. Len(PoolsAt(t, d)')
      PROVE  /\ i + Shift(t, d) \in 1 .. Len(PoolsAt(t, d))
             /\ PoolsAt(t, d)'[i] = PoolsAt(t, d)[i + Shift(t, d)]
             /\ ~ (t = u /\ d = e /\ i + Shift(t, d) = 1)
  <2>1. CASE t = u /\ d = e
    BY <1>2, <2>1
  <2>2. CASE ~ (t = u /\ d = e)
    BY <2>2
  <2> QED BY <2>1, <2>2
<1>4. PoolsOnce'
  <2> SUFFICES ASSUME NEW t \in Tasks, NEW r \in Tasks, NEW d \in Nat, NEW c \in Nat,
                      NEW i \in 1 .. Len(PoolsAt(t, d)'), NEW j \in 1 .. Len(PoolsAt(r, c)'),
                      PoolsAt(t, d)'[i] = PoolsAt(r, c)'[j]
               PROVE  t = r /\ d = c /\ i = j
    BY DEF PoolsOnce
  <2>1. t = r /\ d = c /\ i + Shift(t, d) = j + Shift(r, c)
    BY <1>3 DEF PoolsOnce
  <2> QED BY <2>1
<1>5. 1 \in 1 .. Len(q) /\ q[1] = Head(q)
  BY <1>2
<1>6. ASSUME NEW o, Pending(o)' PROVE Pending(o) /\ o # Head(q)
  <2>1. PICK t \in Tasks, d \in Nat : \E i \in 1 .. Len(PoolsAt(t, d)') : PoolsAt(t, d)'[i] = o
    BY <1>6 DEF Pending
  <2>2. PICK i \in 1 .. Len(PoolsAt(t, d)') : PoolsAt(t, d)'[i] = o
    BY <2>1
  <2>3. /\ i + Shift(t, d) \in 1 .. Len(PoolsAt(t, d))
        /\ o = PoolsAt(t, d)[i + Shift(t, d)]
        /\ ~ (t = u /\ d = e /\ i + Shift(t, d) = 1)
    BY <1>3, <2>2
  <2> HIDE DEF Shift
  <2>4. Pending(o)
    BY <2>3 DEF Pending
  <2>5. o # Head(q)
    BY <1>5, <2>3 DEF PoolsOnce
  <2> QED BY <2>4, <2>5
<1>7. ASSUME NEW o, Pending(o), o # Head(q) PROVE Pending(o)'
  <2>1. PICK t \in Tasks, d \in Nat : \E i \in 1 .. Len(PoolsAt(t, d)) : PoolsAt(t, d)[i] = o
    BY <1>7 DEF Pending
  <2>2. PICK i \in 1 .. Len(PoolsAt(t, d)) : PoolsAt(t, d)[i] = o
    BY <2>1
  <2>3. \E j \in 1 .. Len(PoolsAt(t, d)') : PoolsAt(t, d)'[j] = o
    <3>1. CASE t = u /\ d = e
      <4>1. i \in 1 .. Len(q) /\ q[i] = o /\ i # 1
        BY <1>2, <1>7, <2>2, <3>1
      <4>2. i - 1 \in 1 .. Len(q) - 1 /\ (i - 1) + 1 = i
        BY <1>2, <4>1
      <4>3. Tail(q)[i - 1] = o
        BY <1>2, <4>1, <4>2
      <4> QED BY <1>2, <3>1, <4>2, <4>3
    <3>2. CASE ~ (t = u /\ d = e)
      BY <2>2, <3>2
    <3> QED BY <3>1, <3>2
  <2> QED BY <2>3 DEF Pending
<1>8. Pending(Head(q))
  BY <1>5 DEF Pending
<1> QED BY <1>4, <1>6, <1>7, <1>8

\* The top of a stack of pools becomes a drain's, in reverse.
LEMMA PoolsDrained ==
    ASSUME TypeOK, PoolsOnce, NEW v \in Tasks, NEW k \in 1 .. Len(PoolsAt(v, 0)),
           NEW u \in Tasks, NEW e \in Nat \ {0}, PoolsAt(u, e) = <<>>,
           Len(PoolsAt(v, 0)') = k - 1,
           \A i \in 1 .. k - 1 : PoolsAt(v, 0)'[i] = PoolsAt(v, 0)[i],
           Len(PoolsAt(u, e)') = Len(PoolsAt(v, 0)) + 1 - k,
           \A i \in 1 .. Len(PoolsAt(v, 0)) + 1 - k :
               PoolsAt(u, e)'[i] = PoolsAt(v, 0)[Len(PoolsAt(v, 0)) + 1 - i],
           \A t \in Tasks, d \in Nat :
               ~ (t = v /\ d = 0) /\ ~ (t = u /\ d = e) => PoolsAt(t, d)' = PoolsAt(t, d)
    PROVE  PoolsOnce' /\ \A o : Pending(o)' <=> Pending(o)
<1> DEFINE q == PoolsAt(v, 0)
           n == Len(q)
           Place(t, d, i) == IF t = u /\ d = e THEN n + 1 - i ELSE i
<1>1. q \in Seq(Ids) /\ n \in Nat /\ k \in 1 .. n
  BY PoolsType
<1>2. ASSUME NEW t \in Tasks, NEW d \in Nat, NEW i \in 1 .. Len(PoolsAt(t, d)')
      PROVE  LET r == IF t = u /\ d = e THEN v ELSE t
                 c == IF t = u /\ d = e THEN 0 ELSE d
             IN  /\ r \in Tasks /\ c \in Nat /\ i \in Nat
                 /\ Place(t, d, i) \in 1 .. Len(PoolsAt(r, c))
                 /\ PoolsAt(t, d)'[i] = PoolsAt(r, c)[Place(t, d, i)]
                 /\ (r = v /\ c = 0) => (Place(t, d, i) >= k <=> t = u /\ d = e)
  <2>1. CASE t = u /\ d = e
    <3>1. PoolsAt(t, d)' = PoolsAt(u, e)' /\ ~ (t = v /\ d = 0)
      BY <2>1
    <3>2. i \in 1 .. n + 1 - k
      BY <3>1
    <3>3. n + 1 - i \in 1 .. n /\ n + 1 - i >= k
      BY <1>1, <3>2
    <3> QED BY <2>1, <3>1, <3>2, <3>3
  <2>2. CASE t = v /\ d = 0
    <3>1. PoolsAt(t, d)' = PoolsAt(v, 0)' /\ ~ (t = u /\ d = e)
      BY <2>2
    <3>2. i \in 1 .. k - 1
      BY <3>1
    <3>3. i \in 1 .. n /\ ~ (i >= k)
      BY <1>1, <3>2
    <3> QED BY <2>2, <3>1, <3>2, <3>3
  <2>3. CASE ~ (t = u /\ d = e) /\ ~ (t = v /\ d = 0)
    BY <2>3
  <2> QED BY <2>1, <2>2, <2>3
<1>3. PoolsOnce'
  <2> SUFFICES ASSUME NEW t \in Tasks, NEW r \in Tasks, NEW d \in Nat, NEW c \in Nat,
                      NEW i \in 1 .. Len(PoolsAt(t, d)'), NEW j \in 1 .. Len(PoolsAt(r, c)'),
                      PoolsAt(t, d)'[i] = PoolsAt(r, c)'[j]
               PROVE  t = r /\ d = c /\ i = j
    BY DEF PoolsOnce
  <2> DEFINE t1 == IF t = u /\ d = e THEN v ELSE t
             d1 == IF t = u /\ d = e THEN 0 ELSE d
             r1 == IF r = u /\ c = e THEN v ELSE r
             c1 == IF r = u /\ c = e THEN 0 ELSE c
             i1 == Place(t, d, i)
             j1 == Place(r, c, j)
  <2>1. /\ t1 \in Tasks /\ d1 \in Nat /\ i1 \in 1 .. Len(PoolsAt(t1, d1)) /\ i \in Nat
        /\ PoolsAt(t, d)'[i] = PoolsAt(t1, d1)[i1]
        /\ (t1 = v /\ d1 = 0) => (i1 >= k <=> t = u /\ d = e)
    BY <1>2
  <2>2. /\ r1 \in Tasks /\ c1 \in Nat /\ j1 \in 1 .. Len(PoolsAt(r1, c1)) /\ j \in Nat
        /\ PoolsAt(r, c)'[j] = PoolsAt(r1, c1)[j1]
        /\ (r1 = v /\ c1 = 0) => (j1 >= k <=> r = u /\ c = e)
    BY <1>2
  <2>3. t1 = r1 /\ d1 = c1 /\ i1 = j1
    <3> HIDE DEF t1, d1, i1, r1, c1, j1
    <3>1. PoolsAt(t1, d1)[i1] = PoolsAt(r1, c1)[j1]
      BY <2>1, <2>2
    <3> QED BY <2>1, <2>2, <3>1 DEF PoolsOnce
  <2>4. (t = u /\ d = e) <=> (r = u /\ c = e)
    BY <2>1, <2>2, <2>3
  <2> QED BY <1>1, <2>1, <2>2, <2>3, <2>4
<1>4. ASSUME NEW o, Pending(o)' PROVE Pending(o)
  <2>1. PICK t \in Tasks, d \in Nat : \E i \in 1 .. Len(PoolsAt(t, d)') : PoolsAt(t, d)'[i] = o
    BY <1>4 DEF Pending
  <2>2. PICK i \in 1 .. Len(PoolsAt(t, d)') : PoolsAt(t, d)'[i] = o
    BY <2>1
  <2> DEFINE t1 == IF t = u /\ d = e THEN v ELSE t
             d1 == IF t = u /\ d = e THEN 0 ELSE d
             i1 == Place(t, d, i)
  <2>3. /\ t1 \in Tasks /\ d1 \in Nat /\ i1 \in 1 .. Len(PoolsAt(t1, d1))
        /\ o = PoolsAt(t1, d1)[i1]
    BY <1>2, <2>2
  <2> HIDE DEF t1, d1, i1
  <2> QED BY <2>3 DEF Pending
<1>5. ASSUME NEW o, Pending(o) PROVE Pending(o)'
  <2>1. PICK t \in Tasks, d \in Nat : \E i \in 1 .. Len(PoolsAt(t, d)) : PoolsAt(t, d)[i] = o
    BY <1>5 DEF Pending
  <2>2. PICK i \in 1 .. Len(PoolsAt(t, d)) : PoolsAt(t, d)[i] = o
    BY <2>1
  <2>3. CASE t = v /\ d = 0 /\ i >= k
    <3>2. n + 1 - i \in 1 .. Len(q) + 1 - k /\ n + 1 - (n + 1 - i) = i
      BY <1>1, <2>2, <2>3
    <3>3. PoolsAt(u, e)'[n + 1 - i] = q[i]
      BY <3>2
    <3>4. n + 1 - i \in 1 .. Len(PoolsAt(u, e)') /\ PoolsAt(u, e)'[n + 1 - i] = o
      BY <2>2, <2>3, <3>2, <3>3
    <3> QED BY <3>4 DEF Pending
  <2>4. CASE t = v /\ d = 0 /\ i < k
    <3>1. PoolsAt(t, d)' = PoolsAt(v, 0)' /\ i \in 1 .. k - 1
      BY <1>1, <2>2, <2>4
    <3>2. i \in 1 .. Len(PoolsAt(t, d)') /\ PoolsAt(t, d)'[i] = o
      BY <2>2, <2>4, <3>1
    <3> QED BY <3>2 DEF Pending
  <2>5. CASE ~ (t = v /\ d = 0)
    <3>1. ~ (t = u /\ d = e)
      BY <2>2
    <3>2. PoolsAt(t, d)' = PoolsAt(t, d)
      BY <2>5, <3>1
    <3> QED BY <2>2, <3>2 DEF Pending
  <2> QED BY <1>1, <2>2, <2>3, <2>4, <2>5
<1> QED BY <1>3, <1>4, <1>5

-----------------------------------------------------------------------------
(***************************************************************************)
(* The calls that neither hold objects to release nor pools to drain.      *)
(***************************************************************************)
Plain(frames) ==
    \A t \in Tasks, d \in Nat :
        /\ RemOf(Planned(frames, t, d)) = Rem(t, d)
        /\ PoolsOf(Planned(frames, t, d)) = PoolsOf(Lev(t, d))

LEMMA PlainSame == Plain(stack[running])
BY PlannedSame DEF Plain, Rem, Lev

LEMMA PlainPush ==
    ASSUME TypeOK, NEW f \in FrameType, RemOf(f) = <<>>, PoolsOf(f) = <<>>
    PROVE  Plain(<<f>> \o stack[running])
<1> SUFFICES ASSUME NEW t \in Tasks, NEW d \in Nat
             PROVE  /\ RemOf(Planned(<<f>> \o stack[running], t, d)) = Rem(t, d)
                    /\ PoolsOf(Planned(<<f>> \o stack[running], t, d)) = PoolsOf(Lev(t, d))
  BY DEF Plain
<1>1. CASE t = running /\ d = Depth(running) + 1
  BY <1>1, PlannedPush, BlankFrame DEF Rem, Lev
<1>2. CASE ~ (t = running /\ d = Depth(running) + 1)
  <2>1. Planned(<<f>> \o stack[running], t, d) = Lev(t, d)
    BY <1>2, PlannedPush
  <2> QED BY <2>1 DEF Rem, Lev
<1> QED BY <1>1, <1>2

LEMMA PlainPop ==
    ASSUME TypeOK, stack[running] # <<>>,
           RemOf(Head(stack[running])) = <<>>, PoolsOf(Head(stack[running])) = <<>>
    PROVE  Plain(Tail(stack[running]))
<1> SUFFICES ASSUME NEW t \in Tasks, NEW d \in Nat
             PROVE  /\ RemOf(Planned(Tail(stack[running]), t, d)) = Rem(t, d)
                    /\ PoolsOf(Planned(Tail(stack[running]), t, d)) = PoolsOf(Lev(t, d))
  BY DEF Plain
<1>1. CASE t = running /\ d = Depth(running)
  BY <1>1, PlannedPop, BlankFrame DEF Rem, Lev
<1>2. CASE ~ (t = running /\ d = Depth(running))
  <2>1. Planned(Tail(stack[running]), t, d) = Lev(t, d)
    BY <1>2, PlannedPop
  <2> QED BY <2>1 DEF Rem, Lev
<1> QED BY <1>1, <1>2

\* Steps that take nothing from a drain or a pool and give it nothing.
Quiet ==
    \A t \in Tasks, d \in Nat : Rem(t, d)' = Rem(t, d) /\ PoolsAt(t, d)' = PoolsAt(t, d)

LEMMA QuietSame == ASSUME UNCHANGED <<stack, poolStack>> PROVE Quiet
BY DEF Quiet, Rem, PoolsAt

LEMMA QuietContinue ==
    ASSUME TypeOK, NEW frames \in Seq(FrameType), Plain(frames), UNCHANGED poolStack,
           Continue(frames)
    PROVE  Quiet
<1> SUFFICES ASSUME NEW t \in Tasks, NEW d \in Nat
             PROVE  Rem(t, d)' = Rem(t, d) /\ PoolsAt(t, d)' = PoolsAt(t, d)
  BY DEF Quiet
<1>1. Lev(t, d)' = Planned(frames, t, d)
  BY Continued
<1>2. RemOf(Lev(t, d)') = Rem(t, d) /\ PoolsOf(Lev(t, d)') = PoolsOf(Lev(t, d))
  BY <1>1 DEF Plain
<1> QED BY <1>2 DEF Rem, PoolsAt, Lev

LEMMA QuietRelease ==
    ASSUME TypeOK, NEW x \in Ids, NEW frames \in Seq(FrameType), Plain(frames),
           UNCHANGED poolStack, ReleaseThen(x, frames)
    PROVE  Quiet
<1> SUFFICES ASSUME NEW t \in Tasks, NEW d \in Nat
             PROVE  Rem(t, d)' = Rem(t, d) /\ PoolsAt(t, d)' = PoolsAt(t, d)
  BY DEF Quiet
<1>1. RemOf(Lev(t, d)') = Rem(t, d) /\ PoolsOf(Lev(t, d)') = PoolsOf(Lev(t, d))
  BY ReleaseFrames DEF Plain
<1> QED BY <1>1 DEF Rem, PoolsAt, Lev

\* A drain releases its next object.
LEMMA DrainTakes ==
    ASSUME TypeOK, NEW x \in Ids, stack[running] # <<>>,
           Head(stack[running]).kind = "drain", NEW q \in Seq(Ids),
           LET f == DrainFrame(q, Head(stack[running]).pools)
           IN  ReleaseThen(x, <<f>> \o Tail(stack[running])),
           UNCHANGED poolStack
    PROVE  \A t \in Tasks, d \in Nat :
             /\ Rem(t, d)' = IF t = running /\ d = Depth(running) THEN q ELSE Rem(t, d)
             /\ PoolsAt(t, d)' = PoolsAt(t, d)
<1> DEFINE top == Head(stack[running])
           f == DrainFrame(q, top.pools)
           frames == <<f>> \o Tail(stack[running])
<1>1. f \in FrameType /\ frames \in Seq(FrameType) /\ ReleaseThen(x, frames)
  <2>1. top \in FrameType /\ Tail(stack[running]) \in Seq(FrameType)
    BY TopType
  <2>2. top.pools \in Seq(Ids)
    BY <2>1, FrameKinds
  <2>3. f \in FrameType
    BY <2>2, FrameKinds
  <2> QED BY <2>1, <2>3, PushType
<1>2. RemOf(f) = q /\ PoolsOf(f) = PoolsOf(top)
  BY FrameParts DEF PoolsOf
<1>3. Lev(running, Depth(running)) = top /\ Depth(running) \in Nat
  BY PlannedPop DEF TypeOK
<1> HIDE DEF f, top
<1> SUFFICES ASSUME NEW t \in Tasks, NEW d \in Nat
             PROVE  /\ Rem(t, d)' = IF t = running /\ d = Depth(running) THEN q ELSE Rem(t, d)
                    /\ PoolsAt(t, d)' = PoolsAt(t, d)
  OBVIOUS
<1>4. Planned(frames, t, d) = IF t = running /\ d = Depth(running) THEN f ELSE Lev(t, d)
  BY <1>1, PlannedReplace
<1> HIDE DEF frames
<1>5. /\ RemOf(Lev(t, d)') = RemOf(Planned(frames, t, d))
      /\ PoolsOf(Lev(t, d)') = PoolsOf(Planned(frames, t, d))
  BY <1>1, ReleaseFrames
<1>6. /\ RemOf(Lev(t, d)') = IF t = running /\ d = Depth(running) THEN q ELSE RemOf(Lev(t, d))
      /\ PoolsOf(Lev(t, d)') = PoolsOf(Lev(t, d))
  BY <1>2, <1>3, <1>4, <1>5
<1> QED BY <1>6 DEF Rem, PoolsAt, Lev

\* The call in progress is replaced by the drain of other things, which
\* also says what a drain that starts or goes on does.
LEMMA DrainSet ==
    ASSUME NEW u \in Tasks, NEW e \in Nat \ {0}, NEW f \in FrameType,
           \A t \in Tasks, d \in Nat : Lev(t, d)' = IF t = u /\ d = e THEN f ELSE Lev(t, d)
    PROVE  \A t \in Tasks, d \in Nat :
             /\ Rem(t, d)' = IF t = u /\ d = e THEN RemOf(f) ELSE Rem(t, d)
             /\ d # 0 => PoolsAt(t, d)' = IF t = u /\ d = e THEN PoolsOf(f) ELSE PoolsAt(t, d)
             /\ d = 0 => PoolsAt(t, d)' = poolStack'[t] /\ PoolsAt(t, d) = poolStack[t]
BY DEF Rem, PoolsAt, Lev

-----------------------------------------------------------------------------
(***************************************************************************)
(* What holds of each object.                                              *)
(***************************************************************************)
Sound(o) ==
    /\ FiniteRefs(o)
    /\ Pending(o) => /\ o \in objects /\ Refs(o) = 0
                     /\ \A t \in Tasks, d \in Nat : ~ Dies(t, d, o)
    /\ ~ Pending(o) => refcount[o] = Refs(o) /\ poolObjects[o] = <<>>
    /\ (\E s \in Slots : slot[s] = o) => o \in objects /\ ~ Pending(o)
    /\ ~ GuestDealloc /\ o \in objects => Pending(o) \/ refcount[o] > 0

\* An object that somebody has a reference to.
LEMMA Referenced ==
    ASSUME TypeOK, NEW o \in Ids, Sound(o), Refs(o) # 0
    PROVE  /\ ~ Pending(o) /\ o \in objects /\ refcount[o] = Refs(o)
           /\ Refs(o) \in Nat /\ refcount[o] > 0
<1>1. Refs(o) \in Nat
  BY RefsType DEF Sound
<1> QED BY <1>1 DEF Sound, TypeOK

LEMMA HasReference ==
    ASSUME TypeOK, NEW o \in Ids, Sound(o),
           held[o] > 0 \/ Unreleased(o) # {} \/ Associated(o) # {}
    PROVE  Refs(o) # 0
<1>1. /\ Refs(o) \in Nat /\ Kept(o) \in Nat /\ held[o] \in Nat
      /\ Cardinality(Unreleased(o)) \in Nat /\ Cardinality(Associated(o)) \in Nat
  BY RefsType DEF Sound
<1>2. /\ Unreleased(o) # {} => Cardinality(Unreleased(o)) # 0
      /\ Associated(o) # {} => Cardinality(Associated(o)) # 0
  BY FS_EmptySet DEF Sound, FiniteRefs
<1>3. Refs(o) = held[o] + Kept(o) + Cardinality(Unreleased(o)) + Cardinality(Associated(o))
  BY DEF Refs
<1>4. \/ held[o] # 0 \/ Cardinality(Unreleased(o)) # 0 \/ Cardinality(Associated(o)) # 0
  BY <1>1, <1>2
<1>5. \A a, b, c, d \in Nat : a # 0 \/ c # 0 \/ d # 0 => a + b + c + d # 0
  OBVIOUS
<1> QED BY <1>1, <1>3, <1>4, <1>5

LEMMA SoundSame ==
    ASSUME NEW o, Sound(o), FiniteRefs(o)', Refs(o)' = Refs(o), refcount'[o] = refcount[o],
           o \in objects' <=> o \in objects,
           Pending(o)' <=> Pending(o),
           \A t \in Tasks, d \in Nat : Dies(t, d, o)' => Dies(t, d, o),
           \A s \in Slots : slot'[s] = o => slot[s] = o,
           Pending(o) \/ poolObjects'[o] = poolObjects[o]
    PROVE  Sound(o)'
BY DEF Sound

\* A release of an object, by the holder of a reference to it.
LEMMA SoundRelease ==
    ASSUME TypeOK, WeakInv, DyingInv, \A o \in Ids : Sound(o),
           NEW x \in Ids, NEW frames \in Seq(FrameType), ReleaseThen(x, frames),
           \A t \in Tasks, d \in Nat, o \in Ids :
               DeallocOf(Planned(frames, t, d), o) => Dies(t, d, o),
           \A o \in Ids : Pending(o)' <=> Pending(o),
           \A o \in Ids : FiniteRefs(o)' /\ Refs(o)' \in Nat
                            /\ Refs(o) = Refs(o)' + IF o = x THEN 1 ELSE 0,
           UNCHANGED poolObjects
    PROVE  \A o \in Ids : Sound(o)'
<1>1. Refs(x) # 0
  OBVIOUS
<1>2. ~ Pending(x) /\ x \in objects /\ refcount[x] = Refs(x) /\ refcount[x] > 0
  BY <1>1, Referenced
<1>3. /\ refcount' = [refcount EXCEPT ![x] = @ - 1]
      /\ \/ UNCHANGED <<objects, weakVars>> /\ (GuestDealloc \/ refcount[x] > 1)
         \/ refcount[x] = 1 /\ DeallocObject(x)
  BY <1>2, ReleaseTables
<1>4. \A t \in Tasks, d \in Nat, o \in Ids : o # x /\ Dies(t, d, o)' => Dies(t, d, o)
  BY ReleaseFrames DEF Dies, Lev
<1>5. ASSUME NEW s \in Slots
      PROVE  slot'[s] = slot[s] \/ slot'[s] \notin Ids
  BY <1>3, ObjectsAssumption DEF DeallocObject, weakVars
<1>6. ASSUME NEW s \in Slots, DeallocObject(x) PROVE slot'[s] # x
  <2>1. weakRefs[x][s] = IF slot[s] = x THEN 1 ELSE 0
    BY DEF WeakInv, WeakTableExact
  <2> QED BY <1>6, <2>1, ObjectsAssumption DEF DeallocObject
<1>7. refcount \in [Ids -> Nat] /\ objects \subseteq Ids
  BY DEF TypeOK
<1>8. ASSUME NEW o \in Ids, o # x PROVE Sound(o)'
  <2>1. refcount'[o] = refcount[o] /\ (o \in objects' <=> o \in objects)
    BY <1>3, <1>7, <1>8 DEF DeallocObject
  <2>2. FiniteRefs(o)' /\ Refs(o)' = Refs(o)
    BY <1>8
  <2> QED BY <1>4, <1>5, <1>8, <2>1, <2>2, SoundSame
<1>9. Sound(x)'
  <2>1. refcount'[x] = Refs(x)' /\ ~ Pending(x)' /\ poolObjects'[x] = <<>>
    BY <1>2, <1>3, <1>7 DEF Sound
  <2>2. CASE UNCHANGED <<objects, weakVars>> /\ (GuestDealloc \/ refcount[x] > 1)
    <3>1. ~ GuestDealloc => refcount'[x] > 0
      BY <1>3, <1>7, <2>2
    <3> QED BY <1>2, <2>1, <2>2, <3>1 DEF Sound, weakVars
  <2>3. CASE DeallocObject(x)
    <3>1. x \notin objects' /\ \A s \in Slots : slot'[s] # x
      BY <1>6, <2>3 DEF DeallocObject
    <3> QED BY <2>1, <3>1 DEF Sound
  <2> QED BY <1>3, <2>2, <2>3
<1> QED BY <1>8, <1>9

\* A retain of an object, by somebody who keeps the reference.
LEMMA SoundRetain ==
    ASSUME TypeOK, \A o \in Ids : Sound(o),
           NEW x \in Ids, ~ Pending(x), refcount[x] > 0, Increment(x),
           \A t \in Tasks, d \in Nat, o \in Ids : Dies(t, d, o)' => Dies(t, d, o),
           \A o \in Ids : Pending(o)' <=> Pending(o),
           \A o \in Ids : FiniteRefs(o)' /\ Refs(o)' = Refs(o) + IF o = x THEN 1 ELSE 0,
           \A o \in Ids : Pending(o) \/ poolObjects'[o] = poolObjects[o],
           UNCHANGED <<objects, weakVars>>
    PROVE  \A o \in Ids : Sound(o)'
<1>1. /\ refcount \in [Ids -> Nat] /\ refcount' = [refcount EXCEPT ![x] = @ + 1]
      /\ UNCHANGED slot
  BY DEF TypeOK, Increment, weakVars
<1>2. ASSUME NEW o \in Ids, o # x PROVE Sound(o)'
  <2>1. refcount'[o] = refcount[o] /\ FiniteRefs(o)'
    BY <1>1, <1>2
  <2>2. Refs(o)' = Refs(o)
    <3>1. Refs(o) \in Nat
      BY RefsType DEF Sound
    <3> QED BY <1>2, <3>1
  <2> QED BY <1>1, <2>1, <2>2, SoundSame
<1>3. Sound(x)'
  BY <1>1 DEF Sound
<1> QED BY <1>2, <1>3

\* Steps that change neither the table nor how many references there are.
LEMMA SoundKept ==
    ASSUME \A o \in Ids : Sound(o),
           \A t \in Tasks, d \in Nat, o \in Ids : Dies(t, d, o)' => Dies(t, d, o),
           \A o \in Ids : Pending(o)' <=> Pending(o),
           \A o \in Ids : FiniteRefs(o)' /\ Refs(o)' = Refs(o),
           \A o \in Ids : Pending(o) \/ poolObjects'[o] = poolObjects[o],
           UNCHANGED <<tableVars, weakVars>>
    PROVE  \A o \in Ids : Sound(o)'
BY SoundSame DEF tableVars, weakVars

\* A store to __weak variables, of objects that somebody owns.
LEMMA SoundStores ==
    ASSUME TypeOK, \A o \in Ids : Sound(o),
           UNCHANGED <<tableVars, taskVars, held, poolVars, association>>,
           \A s \in Slots, o \in Ids :
               slot'[s] = o => held[o] > 0 \/ \E r \in Slots : slot[r] = o
    PROVE  \A o \in Ids : Sound(o)'
<1>1. UNCHANGED <<objects, refcount, stack, held, poolStack, poolObjects, leaked, association>>
  BY DEF tableVars, taskVars, poolVars
<1>2. Quiet /\ \A t, d, o : Dies(t, d, o)' = Dies(t, d, o)
  BY <1>1, QuietSame, SameStack
<1>3. \A o : Pending(o)' <=> Pending(o)
  BY <1>2 DEF Pending, Quiet
<1> SUFFICES ASSUME NEW o \in Ids PROVE Sound(o)'
  OBVIOUS
<1>4. /\ Unreleased(o)' = Unreleased(o) /\ Associated(o)' = Associated(o)
      /\ Pooled(o)' = Pooled(o)
  BY <1>1, <1>2, UnreleasedSame DEF Quiet, Associated, Pooled
<1>5. (FiniteRefs(o)' <=> FiniteRefs(o)) /\ Refs(o)' = Refs(o)
  BY <1>1, <1>4 DEF FiniteRefs, Refs, Kept
<1>6. (\E s \in Slots : slot'[s] = o) => o \in objects /\ ~ Pending(o)
  <2>1. CASE held[o] > 0
    BY <2>1, HasReference, Referenced
  <2>2. CASE \E r \in Slots : slot[r] = o
    BY <2>2 DEF Sound
  <2> QED BY <2>1, <2>2
<1> QED BY <1>1, <1>2, <1>3, <1>5, <1>6 DEF Sound

-----------------------------------------------------------------------------
(***************************************************************************)
(* Guest programs whose references are all counted: no class overrides     *)
(* -dealloc, or the program neither loads __weak variables nor uses        *)
(* associated objects.  The other ones can own what is being deallocated,  *)
(* and overwrite what they have just entered.                              *)
(***************************************************************************)
LawfulProgram == ~ GuestDealloc \/ {"associate", "load_weak"} \cap Calling = {}

OtherFrames == {f \in FrameType : f.kind # "associate"}

\* A call that enters an association: nobody else does in the meantime.
Entering(f) ==
    f.kind = "associate" =>
        /\ association[f.of] = NoAssociation
        /\ f.new.value = Nil \/ held[f.new.value] > 0

\* Without a -dealloc of the guest's, a call is over before the guest's next.
Atomic ==
    /\ GuestDealloc => stack \in [Tasks -> Seq(OtherFrames)]
    /\ ~ GuestDealloc =>
        \A t \in Tasks :
            \/ stack[t] = <<>>
            \/ /\ t = running
               /\ \E f \in FrameType : stack[t] = <<f>> /\ f.kind # "dealloc" /\ Entering(f)

LEMMA AtomicCalls ==
    ASSUME Atomic, ~ GuestDealloc, GuestRuns PROVE \A t \in Tasks : stack[t] = <<>>
BY DEF Atomic, GuestRuns

LEMMA OtherSeqs ==
    /\ \A f \in OtherFrames, s \in Seq(OtherFrames) : <<f>> \o s \in Seq(OtherFrames)
    /\ \A s \in Seq(OtherFrames) : s # <<>> => Tail(s) \in Seq(OtherFrames)
    /\ \A o \in Ids : DeallocFrame(o) \in OtherFrames
    /\ \A q, r \in Seq(Ids) : DrainFrame(q, r) \in OtherFrames
<1>1. \A f \in OtherFrames, s \in Seq(OtherFrames) : <<f>> \o s \in Seq(OtherFrames)
  OBVIOUS
<1>2. \A s \in Seq(OtherFrames) : s # <<>> => Tail(s) \in Seq(OtherFrames)
  OBVIOUS
<1>3. /\ \A o \in Ids : DeallocFrame(o) \in OtherFrames
      /\ \A q, r \in Seq(Ids) : DrainFrame(q, r) \in OtherFrames
  BY FrameKinds DEF OtherFrames, DeallocFrame, DrainFrame
<1> QED BY <1>1, <1>2, <1>3

LEMMA AtomicContinue ==
    ASSUME TypeOK, Atomic, NEW frames, Continue(frames),
           UNCHANGED running,
           GuestDealloc => frames \in Seq(OtherFrames),
           ~ GuestDealloc => \/ frames = <<>>
                             \/ \E f \in FrameType :
                                  frames = <<f>> /\ f.kind # "dealloc" /\ Entering(f)'
    PROVE  Atomic'
<1>1. stack' = [stack EXCEPT ![running] = frames] /\ running \in Tasks
  BY DEF Continue, TypeOK
<1>2. stack \in [Tasks -> Seq(FrameType)]
  BY DEF TypeOK
<1>3. CASE GuestDealloc
  BY <1>1, <1>3 DEF Atomic
<1>4. CASE ~ GuestDealloc
  <2>1. ASSUME NEW t \in Tasks, t # running PROVE stack'[t] = <<>>
    BY <1>1, <1>2, <1>4, <2>1 DEF Atomic
  <2>2. stack'[running] = frames
    BY <1>1, <1>2
  <2> QED BY <1>1, <1>4, <2>1, <2>2 DEF Atomic
<1> QED BY <1>3, <1>4

LEMMA AtomicRelease ==
    ASSUME TypeOK, Atomic, NEW x \in Ids, NEW frames \in Seq(FrameType),
           ReleaseThen(x, frames), UNCHANGED running,
           GuestDealloc => frames \in Seq(OtherFrames),
           ~ GuestDealloc => \/ frames = <<>>
                             \/ \E f \in FrameType :
                                  frames = <<f>> /\ f.kind # "dealloc" /\ Entering(f)'
    PROVE  Atomic'
<1>1. \/ Continue(frames)
      \/ GuestDealloc /\ Continue(<<DeallocFrame(x)>> \o frames)
  BY DEF ReleaseThen
<1>2. CASE Continue(frames)
  BY <1>2, AtomicContinue
<1>3. CASE GuestDealloc /\ Continue(<<DeallocFrame(x)>> \o frames)
  <2>1. <<DeallocFrame(x)>> \o frames \in Seq(OtherFrames)
    BY <1>3, OtherSeqs
  <2> QED BY <1>3, <2>1, AtomicContinue
<1> QED BY <1>1, <1>2, <1>3

\* Steps after which no call is in progress that was not before.
LEMMA AtomicSame ==
    ASSUME Atomic, UNCHANGED <<taskVars, association>>,
           ~ GuestDealloc => GuestRuns \/ UNCHANGED held
    PROVE  Atomic'
<1>1. CASE GuestDealloc
  BY <1>1 DEF Atomic, taskVars
<1>2. CASE ~ GuestDealloc /\ GuestRuns
  BY <1>2, AtomicCalls DEF Atomic, taskVars
<1>3. CASE ~ GuestDealloc /\ UNCHANGED held
  BY <1>3 DEF Atomic, taskVars, Entering
<1> QED BY <1>1, <1>2, <1>3

LEMMA AtomicObjects ==
    ASSUME TypeOK, Atomic, ObjectStep, UNCHANGED association PROVE Atomic'
<1>0. stack[running] \in Seq(FrameType) /\ running \in Tasks
  BY DEF TypeOK
<1>1. ASSUME NEW o \in Ids, Alloc(o) \/ Retain(o) PROVE Atomic'
  BY <1>1, AtomicSame DEF Alloc, Retain, Calls
<1>2. ASSUME NEW o \in Ids, Release(o) PROVE Atomic'
  <2>1. ReleaseThen(o, stack[running]) /\ UNCHANGED running /\ GuestRuns
    BY <1>2 DEF Release, Calls
  <2>2. GuestDealloc => stack[running] \in Seq(OtherFrames)
    BY <1>0 DEF Atomic
  <2>3. ~ GuestDealloc => stack[running] = <<>>
    BY <1>0, <2>1, AtomicCalls
  <2> QED BY <1>0, <2>1, <2>2, <2>3, AtomicRelease
<1>3. CASE SuperDealloc
  <2>1. /\ stack[running] # <<>> /\ Head(stack[running]).kind = "dealloc"
        /\ Continue(Tail(stack[running])) /\ UNCHANGED running
    BY <1>3 DEF SuperDealloc
  <2>2. GuestRuns
    BY <2>1 DEF GuestRuns
  <2>3. GuestDealloc
    BY <1>0, <2>1, <2>2, AtomicCalls DEF Atomic
  <2>4. Tail(stack[running]) \in Seq(OtherFrames)
    BY <1>0, <2>1, <2>3, OtherSeqs DEF Atomic
  <2> QED BY <2>1, <2>3, <2>4, AtomicContinue
<1>4. ASSUME NEW t \in Tasks, SwitchTo(t) PROVE Atomic'
  <2>1. GuestRuns /\ UNCHANGED stack
    BY <1>4 DEF SwitchTo
  <2> QED BY <2>1, AtomicCalls DEF Atomic
<1> QED BY <1>1, <1>2, <1>3, <1>4 DEF ObjectStep

LEMMA AtomicHost == ASSUME TypeOK, Atomic, HostStep PROVE Atomic'
<1> DEFINE top == Head(stack[running])
           rest == Tail(stack[running])
<1>0. /\ top \in FrameType /\ stack[running] # <<>> /\ stack[running] \in Seq(FrameType)
      /\ rest \in Seq(FrameType) /\ running \in Tasks
  BY TopType DEF HostStep, TypeOK
<1>1. /\ GuestDealloc => top.kind # "associate" /\ rest \in Seq(OtherFrames)
      /\ ~ GuestDealloc => rest = <<>> /\ Entering(top)
  <2>1. CASE GuestDealloc
    <3>1. stack[running] \in Seq(OtherFrames)
      BY <1>0, <2>1 DEF Atomic
    <3>2. Head(stack[running]) \in OtherFrames /\ rest \in Seq(OtherFrames)
      BY <1>0, <3>1
    <3> QED BY <2>1, <3>2 DEF OtherFrames
  <2>2. CASE ~ GuestDealloc
    <3>1. PICK f \in FrameType : stack[running] = <<f>> /\ Entering(f)
      BY <1>0, <2>2 DEF Atomic
    <3> QED BY <2>2, <3>1
  <2> QED BY <2>1, <2>2
<1> HIDE DEF top, rest
<1>2. ASSUME NEW f \in OtherFrames, f.kind # "dealloc",
             \/ Continue(<<f>> \o rest)
             \/ \E x \in Ids : ReleaseThen(x, <<f>> \o rest),
             UNCHANGED running
      PROVE  Atomic'
  <2>1. f \in FrameType /\ f.kind # "associate"
    BY DEF OtherFrames
  <2>2. <<f>> \o rest \in Seq(FrameType)
    BY <1>0, <2>1, PushType
  <2>3. GuestDealloc => <<f>> \o rest \in Seq(OtherFrames)
    BY <1>1, OtherSeqs
  <2>4. ~ GuestDealloc => <<f>> \o rest = <<f>>
    BY <1>1
  <2>5. Entering(f)'
    BY <2>1 DEF Entering
  <2> QED BY <1>2, <2>1, <2>2, <2>3, <2>4, <2>5, AtomicContinue, AtomicRelease
<1>3. ASSUME Continue(rest), UNCHANGED running PROVE Atomic'
  BY <1>1, <1>3, AtomicContinue
<1>4. CASE DrainNextPool(top)
  <2>1. /\ top.pools \in Seq(Ids) /\ Head(top.pools) \in Ids /\ Tail(top.pools) \in Seq(Ids)
    BY <1>0, <1>4, FrameKinds DEF DrainNextPool
  <2>2. DrainFrame(poolObjects[Head(top.pools)], Tail(top.pools)) \in OtherFrames
    BY <2>1, OtherSeqs DEF TypeOK
  <2> QED BY <1>2, <1>4, <2>2 DEF DrainNextPool, DrainFrame, rest
<1>5. CASE DrainNextObject(top)
  <2>1. /\ Head(top.remaining) \in Ids /\ Tail(top.remaining) \in Seq(Ids)
        /\ top.pools \in Seq(Ids)
    BY <1>0, <1>5, FrameKinds DEF DrainNextObject
  <2>2. DrainFrame(Tail(top.remaining), top.pools) \in OtherFrames
    BY <2>1, OtherSeqs
  <2> QED BY <1>2, <1>5, <2>1, <2>2 DEF DrainNextObject, DrainFrame, rest
<1>6. CASE DrainDone(top) \/ AssociateNew(top)
  BY <1>3, <1>6 DEF DrainDone, AssociateNew, rest
<1> QED BY <1>4, <1>5, <1>6 DEF HostStep, top

LEMMA AtomicGuest == ASSUME TypeOK, LawfulProgram, Atomic, GuestStep PROVE Atomic'
<1>0. stack[running] \in Seq(FrameType) /\ running \in Tasks /\ <<>> \in Seq(Ids)
  BY DEF TypeOK
<1>1. /\ GuestDealloc => stack[running] \in Seq(OtherFrames)
      /\ ~ GuestDealloc /\ GuestRuns => stack[running] = <<>>
  BY <1>0, AtomicCalls DEF Atomic
<1>2. ASSUME NEW o \in Ids, NewPool(o) \/ Autorelease(o) PROVE Atomic'
  BY <1>2, AtomicSame DEF NewPool, Autorelease, Calls
<1>3. ASSUME NEW p \in Ids, NEW t \in Tasks, DrainPool(p, t) PROVE Atomic'
  <2>1. PICK i \in 1 .. Len(poolStack[t]) :
             /\ Continue(<<DrainFrame(<<>>, DrainedPools(t, i))>> \o stack[running])
             /\ UNCHANGED running
    BY <1>3, DrainPoolEffect
  <2>11. DrainFrame(<<>>, DrainedPools(t, i)) \in OtherFrames
    BY <1>0, DrainedType, OtherSeqs
  <2>12. PICK f \in OtherFrames : f = DrainFrame(<<>>, DrainedPools(t, i))
    BY <2>11
  <2>2. f.kind = "drain"
    BY <2>12 DEF DrainFrame
  <2>3. GuestRuns
    BY <1>3 DEF DrainPool, Calls
  <2>4. Continue(<<f>> \o stack[running])
    BY <2>1, <2>12
  <2>5. f \in FrameType /\ Entering(f)'
    BY <2>2 DEF OtherFrames, Entering
  <2>6. GuestDealloc => <<f>> \o stack[running] \in Seq(OtherFrames)
    BY <1>1, <2>2, OtherSeqs
  <2>7. ~ GuestDealloc => <<f>> \o stack[running] = <<f>>
    <3>1. ~ GuestDealloc => stack[running] = <<>>
      BY <1>1, <2>3
    <3>2. <<f>> \o <<>> = <<f>>
      OBVIOUS
    <3> QED BY <3>1, <3>2
  <2> QED BY <2>1, <2>2, <2>4, <2>5, <2>6, <2>7, AtomicContinue
<1>4. ASSUME NEW s \in Slots, LoadWeak(s) PROVE Atomic'
  BY <1>4, AtomicSame DEF LoadWeak, Calls
<1>5. ASSUME NEW o \in Ids, NEW frames \in Seq(FrameType), DropAssociation(o, frames),
             Calls("associate"),
             frames = <<>> \/ \E f \in FrameType :
                                frames = <<f>> /\ f.kind # "dealloc" /\ Entering(f)'
      PROVE  Atomic'
  <2>1. ~ GuestDealloc /\ UNCHANGED running
    BY <1>5 DEF LawfulProgram, Calls, DropAssociation
  <2>2. \/ Continue(frames)
        \/ ReleaseThen(association[o].value, frames) /\ association[o].value \in Ids
    BY <1>5 DEF DropAssociation, TypeOK, NewAssociations, NoAssociation
  <2> QED BY <1>5, <2>1, <2>2, AtomicContinue, AtomicRelease
<1>6. ASSUME NEW o \in Ids, RemoveAssociatedObjects(o) PROVE Atomic'
  <2>1. Calls("associate") /\ DropAssociation(o, stack[running])
    BY <1>6 DEF RemoveAssociatedObjects
  <2>2. stack[running] = <<>>
    BY <1>1, <2>1 DEF LawfulProgram, Calls
  <2> QED BY <1>0, <1>5, <2>1, <2>2
<1>7. ASSUME NEW o \in Ids, NEW new \in NewAssociations, SetAssociatedObject(o, new)
      PROVE  Atomic'
  <2> DEFINE f == AssociateFrame(o, new)
  <2>1. /\ Calls("associate") /\ DropAssociation(o, <<f>> \o stack[running])
        /\ Storable(new.value)
    BY <1>7 DEF SetAssociatedObject
  <2>2. stack[running] = <<>>
    BY <1>1, <2>1 DEF LawfulProgram, Calls
  <2>3. f \in FrameType /\ f.kind = "associate" /\ f.of = o /\ f.new = new
    BY FrameKinds DEF AssociateFrame
  <2>4. association'[o] = NoAssociation /\ UNCHANGED held
    BY <2>1 DEF DropAssociation, TypeOK
  <2> HIDE DEF f
  <2>5. Entering(f)'
    BY <2>1, <2>3, <2>4 DEF Entering, Storable
  <2>6. <<f>> \o stack[running] = <<f>> /\ <<f>> \in Seq(FrameType)
    BY <2>2, <2>3
  <2> QED BY <1>5, <2>1, <2>3, <2>5, <2>6
<1> QED BY <1>2, <1>3, <1>4, <1>6, <1>7 DEF GuestStep

LEMMA AtomicNext ==
    ASSUME TypeOK, LawfulProgram, Atomic, [Next]_vars PROVE Atomic'
<1>1. ASSUME WeakStep, UNCHANGED association PROVE Atomic'
  <2>1. UNCHANGED taskVars /\ GuestRuns
    BY <1>1 DEF WeakStep, StoreWeak, InitWeak, CopyWeak, MoveWeak, DestroyWeak,
                LoadWeakRetained, Calls
  <2> QED BY <1>1, <2>1, AtomicSame
<1>2. CASE UNCHANGED vars
  BY <1>2, AtomicSame DEF vars
<1> QED BY <1>1, <1>2, AtomicObjects, AtomicHost, AtomicGuest DEF Next

LEMMA AtomicInit == ASSUME Init PROVE Atomic
<1>1. <<>> \in Seq(OtherFrames)
  OBVIOUS
<1> QED BY <1>1 DEF Init, ObjectsInit, Atomic

-----------------------------------------------------------------------------
(***************************************************************************)
(* The references that a step adds and takes.                              *)
(***************************************************************************)
LEMMA QuietPools ==
    ASSUME Quiet, PoolsOnce PROVE PoolsOnce' /\ \A p : Pending(p)' <=> Pending(p)
BY PoolsSame DEF Quiet

LEMMA RefsSum ==
    ASSUME TypeOK, TypeOK', NEW o \in Ids, FiniteRefs(o), FiniteRefs(o)'
    PROVE  /\ held[o] \in Nat /\ Kept(o) \in Nat
           /\ Cardinality(Unreleased(o)) \in Nat /\ Cardinality(Associated(o)) \in Nat
           /\ Refs(o) = held[o] + Kept(o) + Cardinality(Unreleased(o))
                            + Cardinality(Associated(o))
           /\ held'[o] \in Nat /\ Kept(o)' \in Nat
           /\ Cardinality(Unreleased(o)') \in Nat /\ Cardinality(Associated(o)') \in Nat
           /\ Refs(o)' = held'[o] + Kept(o)' + Cardinality(Unreleased(o)')
                            + Cardinality(Associated(o)')
<1>1. held'[o] \in Nat /\ leaked'[o] \in Nat
  BY ObjectsAssumption DEF TypeOK
<1>2. /\ Cardinality(Unreleased(o)') \in Nat /\ Cardinality(Associated(o)') \in Nat
      /\ Cardinality(Pooled(o)') \in Nat
  BY FS_CardinalityType DEF FiniteRefs
<1>3. Kept(o)' \in Nat
  BY <1>1, <1>2 DEF Kept
<1> QED BY <1>1, <1>2, <1>3, RefsType DEF Refs

LEMMA RefsHeld ==
    ASSUME TypeOK, TypeOK', NEW o \in Ids, FiniteRefs(o), Quiet,
           UNCHANGED <<poolVars, association>>
    PROVE  /\ FiniteRefs(o)' /\ Refs(o) \in Nat /\ Refs(o)' \in Nat
           /\ held[o] \in Nat /\ held'[o] \in Nat
           /\ Refs(o)' + held[o] = Refs(o) + held'[o]
<1>1. /\ Unreleased(o)' = Unreleased(o) /\ Associated(o)' = Associated(o)
      /\ Pooled(o)' = Pooled(o) /\ Kept(o)' = Kept(o)
  BY UnreleasedSame DEF Quiet, Associated, Pooled, Kept, poolVars
<1>2. FiniteRefs(o)'
  BY <1>1 DEF FiniteRefs
<1>3. /\ held[o] \in Nat /\ Kept(o) \in Nat
      /\ Cardinality(Unreleased(o)) \in Nat /\ Cardinality(Associated(o)) \in Nat
      /\ Refs(o) = held[o] + Kept(o) + Cardinality(Unreleased(o)) + Cardinality(Associated(o))
      /\ held'[o] \in Nat
      /\ Refs(o)' = held'[o] + Kept(o)' + Cardinality(Unreleased(o)')
                        + Cardinality(Associated(o)')
  BY <1>2, RefsSum
<1>4. Refs(o)' = held'[o] + Kept(o) + Cardinality(Unreleased(o)) + Cardinality(Associated(o))
  BY <1>1, <1>3
<1> QED BY <1>2, <1>3, <1>4

LEMMA RefsAdd ==
    ASSUME TypeOK, TypeOK', NEW o \in Ids, FiniteRefs(o), Quiet, UNCHANGED association,
           NEW x \in Ids, AddObject(x)
    PROVE  /\ FiniteRefs(o)' /\ Refs(o) \in Nat /\ Refs(o)' \in Nat
           /\ held[o] \in Nat /\ held'[o] \in Nat
           /\ Refs(o)' + held[o] = Refs(o) + held'[o] + IF o = x THEN 1 ELSE 0
<1>1. Unreleased(o)' = Unreleased(o) /\ Associated(o)' = Associated(o)
  BY UnreleasedSame DEF Quiet, Associated
<1>2. IsFiniteSet(Pooled(o)') /\ Kept(o)' = Kept(o) + IF o = x THEN 1 ELSE 0
  BY KeptAdd DEF FiniteRefs
<1>3. FiniteRefs(o)'
  BY <1>1, <1>2 DEF FiniteRefs
<1>4. /\ held[o] \in Nat /\ Kept(o) \in Nat
      /\ Cardinality(Unreleased(o)) \in Nat /\ Cardinality(Associated(o)) \in Nat
      /\ Refs(o) = held[o] + Kept(o) + Cardinality(Unreleased(o)) + Cardinality(Associated(o))
      /\ held'[o] \in Nat /\ Kept(o)' \in Nat
      /\ Refs(o)' = held'[o] + Kept(o)' + Cardinality(Unreleased(o)')
                        + Cardinality(Associated(o)')
  BY <1>3, RefsSum
<1>5. Refs(o)' = held'[o] + Kept(o)' + Cardinality(Unreleased(o)) + Cardinality(Associated(o))
  BY <1>1, <1>4
<1>6. Refs(o)' + held[o] = Refs(o) + held'[o] + IF o = x THEN 1 ELSE 0
  BY <1>2, <1>4, <1>5
<1> QED BY <1>3, <1>4, <1>5, <1>6

\* The pool that takes an autoreleased object is in use.
LEMMA InnermostPending ==
    ASSUME TypeOK, poolStack[running] # <<>> PROVE Pending(Last(poolStack[running]))
<1>1. poolStack[running] \in Seq(Ids) /\ running \in Tasks
  BY DEF TypeOK
<1>2. /\ Len(poolStack[running]) \in Nat \ {0}
      /\ Last(poolStack[running]) = poolStack[running][Len(poolStack[running])]
  BY <1>1, LastType
<1>3. PoolsAt(running, 0) = poolStack[running] /\ 0 \in Nat
  BY DEF PoolsAt
<1>4. /\ Len(PoolsAt(running, 0)) \in 1 .. Len(PoolsAt(running, 0))
      /\ PoolsAt(running, 0)[Len(PoolsAt(running, 0))] = Last(poolStack[running])
  BY <1>2, <1>3
<1> QED BY <1>1, <1>3, <1>4 DEF Pending

\* What holds of the pools and of each object.
AllSound == PoolsOnce /\ \A o \in Ids : Sound(o)

CountInv == TypeOK /\ WeakInv /\ DyingInv /\ Atomic /\ AllSound

LEMMA CountedAlloc ==
    ASSUME CountInv, TypeOK', UNCHANGED <<poolVars, association>>, NEW x \in Ids, Alloc(x)
    PROVE  AllSound'
<1>0. TypeOK /\ PoolsOnce /\ \A o \in Ids : Sound(o)
  BY DEF CountInv, AllSound
<1>1. /\ x \notin objects /\ objects' = objects \cup {x}
      /\ refcount' = [refcount EXCEPT ![x] = 1]
      /\ held' = [held EXCEPT ![x] = @ + 1]
      /\ UNCHANGED <<weakVars, stack, poolStack, poolObjects>>
  BY DEF Alloc, Register, Hold, taskVars, poolVars
<1>2. Quiet /\ \A t, d, o : Dies(t, d, o)' = Dies(t, d, o)
  BY <1>1, QuietSame, SameStack
<1>3. PoolsOnce' /\ \A o : Pending(o)' <=> Pending(o)
  BY <1>0, <1>2, QuietPools
<1>4. ASSUME NEW o \in Ids
      PROVE  FiniteRefs(o)' /\ Refs(o)' = Refs(o) + (IF o = x THEN 1 ELSE 0) /\ Refs(o) \in Nat
  <2>1. /\ FiniteRefs(o)' /\ Refs(o) \in Nat /\ Refs(o)' \in Nat
        /\ held[o] \in Nat /\ held'[o] \in Nat
        /\ Refs(o)' + held[o] = Refs(o) + held'[o]
    BY <1>0, <1>2, RefsHeld DEF Sound
  <2>2. held'[o] = held[o] + IF o = x THEN 1 ELSE 0
    <3>1. held \in [Ids -> 0 .. MaxRefs]
      BY <1>0 DEF TypeOK
    <3>2. held'[x] = held[x] + 1
      BY <1>1, <3>1
    <3>3. o # x => held'[o] = held[o]
      BY <1>1, <3>1
    <3> QED BY <2>1, <3>2, <3>3
  <2> QED BY <2>1, <2>2
<1>5. ASSUME NEW o \in Ids, o # x PROVE Sound(o)'
  <2>1. refcount'[o] = refcount[o] /\ (o \in objects' <=> o \in objects) /\ UNCHANGED slot
    BY <1>0, <1>1, <1>5 DEF TypeOK, weakVars
  <2>2. Refs(o)' = Refs(o)
    BY <1>4, <1>5
  <2> QED BY <1>0, <1>1, <1>2, <1>3, <1>4, <2>1, <2>2, SoundSame
<1>6. Sound(x)'
  <2>1. ~ Pending(x) /\ refcount[x] = Refs(x) /\ refcount[x] = 0 /\ poolObjects[x] = <<>>
    BY <1>0, <1>1 DEF Sound, TypeOK
  <2>2. refcount'[x] = 1 /\ Refs(x)' = 1 /\ x \in objects'
    <3>1. refcount \in [Ids -> Nat]
      BY <1>0 DEF TypeOK
    <3>2. refcount'[x] = 1 /\ x \in objects'
      BY <1>1, <3>1
    <3>3. Refs(x)' = Refs(x) + 1 /\ Refs(x) = 0
      BY <1>4, <2>1
    <3> QED BY <3>2, <3>3
  <2>3. ~ Pending(x)' /\ poolObjects'[x] = <<>> /\ FiniteRefs(x)'
    BY <1>1, <1>3, <1>4, <2>1
  <2> QED BY <2>2, <2>3 DEF Sound
<1> QED BY <1>3, <1>5, <1>6 DEF AllSound

\* A retain by a call of the guest.
LEMMA CountedRetain ==
    ASSUME CountInv, TypeOK', UNCHANGED <<poolVars, association>>,
           NEW x \in Ids, ~ Pending(x), refcount[x] > 0, Increment(x), Hold(x),
           UNCHANGED <<objects, weakVars, taskVars>>
    PROVE  AllSound'
<1>0. TypeOK /\ PoolsOnce /\ \A o \in Ids : Sound(o)
  BY DEF CountInv, AllSound
<1>1. UNCHANGED <<stack, poolStack, poolObjects>> /\ held' = [held EXCEPT ![x] = @ + 1]
  BY DEF taskVars, poolVars, Hold
<1>2. Quiet /\ \A t, d, o : Dies(t, d, o)' = Dies(t, d, o)
  BY <1>1, QuietSame, SameStack
<1>3. PoolsOnce' /\ \A o : Pending(o)' <=> Pending(o)
  BY <1>0, <1>2, QuietPools
<1>4. ASSUME NEW o \in Ids
      PROVE  FiniteRefs(o)' /\ Refs(o)' = Refs(o) + IF o = x THEN 1 ELSE 0
  <2>1. /\ FiniteRefs(o)' /\ Refs(o) \in Nat /\ Refs(o)' \in Nat
        /\ held[o] \in Nat /\ held'[o] \in Nat
        /\ Refs(o)' + held[o] = Refs(o) + held'[o]
    BY <1>0, <1>2, RefsHeld DEF Sound
  <2>2. held'[o] = held[o] + IF o = x THEN 1 ELSE 0
    <3>1. held \in [Ids -> 0 .. MaxRefs]
      BY <1>0 DEF TypeOK
    <3>2. held'[x] = held[x] + 1
      BY <1>1, <3>1
    <3>3. o # x => held'[o] = held[o]
      BY <1>1, <3>1
    <3> QED BY <2>1, <3>2, <3>3
  <2> QED BY <2>1, <2>2
<1>5. \A o \in Ids : Sound(o)'
  BY <1>0, <1>1, <1>2, <1>3, <1>4, SoundRetain
<1> QED BY <1>3, <1>5 DEF AllSound

LEMMA CountedRelease ==
    ASSUME CountInv, TypeOK', UNCHANGED <<poolVars, association>>, NEW x \in Ids, Release(x)
    PROVE  AllSound'
<1>0. TypeOK /\ WeakInv /\ DyingInv /\ PoolsOnce /\ \A o \in Ids : Sound(o)
  BY DEF CountInv, AllSound
<1>1. /\ held[x] > 0 /\ held' = [held EXCEPT ![x] = @ - 1]
      /\ ReleaseThen(x, stack[running]) /\ stack[running] \in Seq(FrameType)
      /\ UNCHANGED <<poolStack, poolObjects>>
  BY <1>0 DEF Release, GiveUp, TypeOK, poolVars
<1>2. Quiet
  BY <1>0, <1>1, PlainSame, QuietRelease
<1>3. PoolsOnce' /\ \A o : Pending(o)' <=> Pending(o)
  BY <1>0, <1>2, QuietPools
<1>4. ASSUME NEW o \in Ids
      PROVE  FiniteRefs(o)' /\ Refs(o)' \in Nat /\ Refs(o) = Refs(o)' + IF o = x THEN 1 ELSE 0
  <2>1. /\ FiniteRefs(o)' /\ Refs(o) \in Nat /\ Refs(o)' \in Nat
        /\ held[o] \in Nat /\ held'[o] \in Nat
        /\ Refs(o)' + held[o] = Refs(o) + held'[o]
    BY <1>0, <1>2, RefsHeld DEF Sound
  <2>2. held[o] = held'[o] + IF o = x THEN 1 ELSE 0
    <3>1. held \in [Ids -> 0 .. MaxRefs]
      BY <1>0 DEF TypeOK
    <3>2. held'[x] = held[x] - 1
      BY <1>1, <3>1
    <3>3. o # x => held'[o] = held[o]
      BY <1>1, <3>1
    <3> QED BY <2>1, <3>2, <3>3
  <2> QED BY <2>1, <2>2
<1>5. \A t \in Tasks, d \in Nat, o \in Ids :
          DeallocOf(Planned(stack[running], t, d), o) => Dies(t, d, o)
  BY PlannedSame DEF Dies, Lev
<1>6. \A o \in Ids : Sound(o)'
  BY <1>0, <1>1, <1>3, <1>4, <1>5, SoundRelease
<1> QED BY <1>3, <1>6 DEF AllSound

\* The end of an object that nobody has a reference to.
LEMMA SoundFreed ==
    ASSUME TypeOK, WeakInv, \A o \in Ids : Sound(o),
           NEW x \in Ids, DeallocObject(x),
           Refs(x)' = 0, ~ Pending(x)', poolObjects'[x] = <<>>,
           \A t \in Tasks, d \in Nat, o \in Ids : Dies(t, d, o)' => Dies(t, d, o),
           \A o \in Ids : o # x =>
               /\ Pending(o)' <=> Pending(o)
               /\ Pending(o) \/ poolObjects'[o] = poolObjects[o]
               /\ Refs(o)' = Refs(o),
           \A o \in Ids : FiniteRefs(o)'
    PROVE  \A o \in Ids : Sound(o)'
<1>1. /\ objects' = objects \ {x} /\ refcount' = [refcount EXCEPT ![x] = 0]
      /\ refcount \in [Ids -> Nat]
  BY DEF DeallocObject, TypeOK
<1>2. ASSUME NEW s \in Slots
      PROVE  slot'[s] # x /\ (slot'[s] = slot[s] \/ slot'[s] \notin Ids)
  <2>1. weakRefs[x][s] = IF slot[s] = x THEN 1 ELSE 0
    BY DEF WeakInv, WeakTableExact
  <2> QED BY <2>1, ObjectsAssumption DEF DeallocObject
<1>3. ASSUME NEW o \in Ids, o # x PROVE Sound(o)'
  BY <1>1, <1>2, <1>3, SoundSame
<1>4. Sound(x)'
  <2>1. refcount'[x] = 0 /\ x \notin objects' /\ \A s \in Slots : slot'[s] # x
    BY <1>1, <1>2
  <2> QED BY <2>1 DEF Sound
<1> QED BY <1>3, <1>4

LEMMA CountedSuperDealloc ==
    ASSUME CountInv, TypeOK', UNCHANGED <<poolVars, association>>, SuperDealloc
    PROVE  AllSound'
<1>1. TypeOK /\ WeakInv /\ DyingInv /\ PoolsOnce /\ \A o \in Ids : Sound(o)
  BY DEF CountInv, AllSound
<1>2. /\ Head(stack[running]).of \in Ids /\ stack[running] # <<>>
      /\ Head(stack[running]).kind = "dealloc"
  BY <1>1, TopType, FrameKinds DEF SuperDealloc
<1>3. PICK x \in Ids : x = Head(stack[running]).of
  BY <1>2
<1>4. /\ stack[running] # <<>> /\ Head(stack[running]).kind = "dealloc"
      /\ DeallocObject(x) /\ Continue(Tail(stack[running]))
      /\ UNCHANGED <<held, poolStack, poolObjects>>
  BY <1>3 DEF SuperDealloc, poolVars
<1>5. x \in Ids /\ Tail(stack[running]) \in Seq(FrameType) /\ running \in Tasks
  BY <1>1, <1>4, TopType, FrameKinds DEF TypeOK
<1>6. Dies(running, Depth(running), x) /\ Depth(running) \in Nat
  BY <1>1, <1>4, <1>5, <1>3, PlannedPop DEF Dies, Lev, DeallocOf
<1>7. RemOf(Head(stack[running])) = <<>> /\ PoolsOf(Head(stack[running])) = <<>>
  BY <1>4 DEF RemOf, PoolsOf
<1>8. Quiet
  BY <1>1, <1>4, <1>5, <1>7, PlainPop, QuietContinue
<1>9. PoolsOnce' /\ \A o : Pending(o)' <=> Pending(o)
  BY <1>1, <1>8, QuietPools
<1>10. ASSUME NEW o \in Ids PROVE FiniteRefs(o)' /\ Refs(o)' = Refs(o)
  <2>1. /\ FiniteRefs(o)' /\ Refs(o) \in Nat /\ Refs(o)' \in Nat
        /\ held[o] \in Nat /\ held'[o] \in Nat
        /\ Refs(o)' + held[o] = Refs(o) + held'[o]
    BY <1>1, <1>8, RefsHeld DEF Sound
  <2> QED BY <1>4, <2>1
<1>11. \A t \in Tasks, d \in Nat, o \in Ids : Dies(t, d, o)' => Dies(t, d, o)
  BY <1>1, <1>4, <1>5, Continued, HarmlessPop DEF Dies, Lev
<1>12. ~ Pending(x) /\ refcount[x] = 0 /\ Refs(x) = 0 /\ poolObjects[x] = <<>>
  <2>1. refcount[x] = 0
    BY <1>1, <1>5, <1>6 DEF DyingInv
  <2>2. ~ Pending(x)
    BY <1>1, <1>5, <1>6 DEF Sound
  <2> QED BY <1>1, <1>5, <2>1, <2>2 DEF Sound
<1>13. Refs(x)' = 0 /\ ~ Pending(x)' /\ poolObjects'[x] = <<>>
  BY <1>4, <1>5, <1>9, <1>10, <1>12
<1>14. \A o \in Ids : Sound(o)'
  BY <1>1, <1>4, <1>5, <1>9, <1>10, <1>11, <1>13, SoundFreed
<1> QED BY <1>9, <1>14 DEF AllSound

\* Steps of calls that change neither the table nor the references.
LEMMA CountedQuiet ==
    ASSUME CountInv, TypeOK', Quiet, UNCHANGED <<tableVars, weakVars, held, poolVars>>,
           \A o \in Ids : IsFiniteSet(Associated(o)') /\
                            Cardinality(Associated(o)') = Cardinality(Associated(o)),
           \A t \in Tasks, d \in Nat, o \in Ids : Dies(t, d, o)' => Dies(t, d, o)
    PROVE  AllSound'
<1>0. TypeOK /\ PoolsOnce /\ \A o \in Ids : Sound(o)
  BY DEF CountInv, AllSound
<1>1. PoolsOnce' /\ \A o : Pending(o)' <=> Pending(o)
  BY <1>0, QuietPools
<1>2. ASSUME NEW o \in Ids PROVE FiniteRefs(o)' /\ Refs(o)' = Refs(o)
  <2>1. /\ Unreleased(o)' = Unreleased(o) /\ Pooled(o)' = Pooled(o) /\ Kept(o)' = Kept(o)
    BY UnreleasedSame DEF Quiet, Pooled, Kept, poolVars
  <2>2. FiniteRefs(o)'
    BY <1>0, <2>1 DEF Sound, FiniteRefs
  <2>3. Refs(o)' = held'[o] + Kept(o)' + Cardinality(Unreleased(o)')
                       + Cardinality(Associated(o)')
    BY DEF Refs
  <2>4. Refs(o)' = held[o] + Kept(o) + Cardinality(Unreleased(o)) + Cardinality(Associated(o))
    BY <2>1, <2>3
  <2> QED BY <2>2, <2>4 DEF Refs
<1>3. \A o \in Ids : Sound(o)'
  BY <1>0, <1>1, <1>2, SoundKept DEF poolVars
<1> QED BY <1>1, <1>3 DEF AllSound

LEMMA CountedStill ==
    ASSUME CountInv, TypeOK', UNCHANGED <<tableVars, weakVars, stack, held, poolVars, association>>
    PROVE  AllSound'
<1>1. Quiet /\ \A t, d, o : Dies(t, d, o)' = Dies(t, d, o)
  BY QuietSame, SameStack DEF poolVars
<1>2. \A o \in Ids : IsFiniteSet(Associated(o)') /\
                         Cardinality(Associated(o)') = Cardinality(Associated(o))
  BY DEF CountInv, AllSound, Sound, FiniteRefs, Associated
<1> QED BY <1>1, <1>2, CountedQuiet

LEMMA CountedObjects ==
    ASSUME CountInv, TypeOK', UNCHANGED <<poolVars, association>>, ObjectStep
    PROVE  AllSound'
<1>1. ASSUME NEW o \in Ids, Retain(o) PROVE AllSound'
  <2>1. /\ held[o] > 0 /\ Increment(o) /\ Hold(o)
        /\ UNCHANGED <<objects, weakVars, taskVars>>
    BY <1>1 DEF Retain
  <2>2. ~ Pending(o) /\ refcount[o] > 0
    BY <2>1, HasReference, Referenced DEF CountInv, AllSound
  <2> QED BY <2>1, <2>2, CountedRetain
<1>2. ASSUME NEW t \in Tasks, SwitchTo(t) PROVE AllSound'
  BY <1>2, CountedStill DEF SwitchTo
<1> QED BY <1>1, <1>2, CountedAlloc, CountedRelease, CountedSuperDealloc DEF ObjectStep

LEMMA CountedWeak ==
    ASSUME CountInv, LawfulProgram, TypeOK', UNCHANGED <<poolVars, association>>, WeakStep
    PROVE  AllSound'
<1>0. TypeOK /\ PoolsOnce /\ \A o \in Ids : Sound(o)
  BY DEF CountInv, AllSound
<1>1. ASSUME NEW s \in Slots, LoadWeakRetained(s) PROVE AllSound'
  <2>1. /\ slot[s] # Nil /\ Increment(slot[s]) /\ Hold(slot[s]) /\ ~ GuestDealloc
        /\ UNCHANGED <<objects, weakVars, taskVars>>
    BY <1>1 DEF LoadWeakRetained, Calls, LawfulProgram
  <2>2. slot[s] \in Ids
    BY <1>0, <2>1 DEF TypeOK
  <2>3. ~ Pending(slot[s]) /\ refcount[slot[s]] > 0
    BY <1>0, <2>1, <2>2 DEF Sound
  <2> QED BY <2>1, <2>2, <2>3, CountedRetain
<1>2. ASSUME UNCHANGED <<tableVars, taskVars, held>>,
             \A s \in Slots, o \in Ids :
                 slot'[s] = o => held[o] > 0 \/ \E r \in Slots : slot[r] = o
      PROVE  AllSound'
  <2>1. \A o \in Ids : Sound(o)'
    BY <1>0, <1>2, SoundStores
  <2>2. Quiet
    BY <1>2, QuietSame DEF taskVars, poolVars
  <2> QED BY <1>0, <2>1, <2>2, QuietPools DEF AllSound
<1>3. slot \in [Slots -> Ids \cup {Nil}] /\ Nil \notin Ids
  BY <1>0, ObjectsAssumption DEF TypeOK
<1>4. ASSUME NEW s \in Slots, NEW o \in Ids \cup {Nil}, StoreWeak(s, o) PROVE AllSound'
  <2>1. /\ UNCHANGED <<tableVars, taskVars, held>> /\ slot' = [slot EXCEPT ![s] = o]
        /\ Storable(o)
    BY <1>4 DEF StoreWeak
  <2>2. ASSUME NEW r \in Slots, NEW p \in Ids, slot'[r] = p
        PROVE  held[p] > 0 \/ \E q \in Slots : slot[q] = p
    BY <1>3, <2>1, <2>2 DEF Storable
  <2> QED BY <1>2, <2>1, <2>2
<1>5. ASSUME NEW s \in Slots, NEW o \in Ids \cup {Nil}, InitWeak(s, o),
             Storable(o) \/ \E from \in Slots : o = slot[from]
      PROVE  AllSound'
  <2>1. UNCHANGED <<tableVars, taskVars, held>> /\ slot' = [slot EXCEPT ![s] = o]
    BY <1>5 DEF InitWeak
  <2>2. ASSUME NEW r \in Slots, NEW p \in Ids, slot'[r] = p
        PROVE  held[p] > 0 \/ \E q \in Slots : slot[q] = p
    BY <1>3, <1>5, <2>1, <2>2 DEF Storable
  <2> QED BY <1>2, <2>1, <2>2
<1>6. ASSUME NEW s \in Slots, NEW from \in Slots, MoveWeak(s, from) PROVE AllSound'
  <2>1. /\ UNCHANGED <<tableVars, taskVars, held>>
        /\ slot' = [slot EXCEPT ![s] = slot[from], ![from] = Nil]
    BY <1>6 DEF MoveWeak
  <2>2. ASSUME NEW r \in Slots, NEW p \in Ids, slot'[r] = p
        PROVE  \E q \in Slots : slot[q] = p
    BY <1>3, <2>1, <2>2
  <2> QED BY <1>2, <2>1, <2>2
<1>7. ASSUME NEW s \in Slots, DestroyWeak(s) PROVE AllSound'
  <2>1. UNCHANGED <<tableVars, taskVars, held>> /\ slot' = [slot EXCEPT ![s] = Nil]
    BY <1>7 DEF DestroyWeak
  <2>2. ASSUME NEW r \in Slots, NEW p \in Ids, slot'[r] = p
        PROVE  \E q \in Slots : slot[q] = p
    BY <1>3, <2>1, <2>2
  <2> QED BY <1>2, <2>1, <2>2
<1>8. ASSUME NEW s \in Slots, NEW from \in Slots, CopyWeak(s, from) PROVE AllSound'
  <2>1. slot[from] \in Ids \cup {Nil}
    BY <1>3
  <2> QED BY <1>5, <1>8, <2>1 DEF CopyWeak
<1> QED BY <1>1, <1>4, <1>5, <1>6, <1>7, <1>8 DEF WeakStep

-----------------------------------------------------------------------------
LEMMA CountedNextPool ==
    ASSUME CountInv, TypeOK', stack[running] # <<>>, DrainNextPool(Head(stack[running]))
    PROVE  AllSound'
<1> DEFINE top == Head(stack[running])
<1>1. TypeOK /\ WeakInv /\ DyingInv /\ PoolsOnce /\ \A o \in Ids : Sound(o)
  BY DEF CountInv, AllSound
<1>2. /\ top \in FrameType /\ top.kind = "drain" /\ top.remaining = <<>>
      /\ top.pools \in Seq(Ids) /\ top.pools # <<>>
      /\ Head(top.pools) \in Ids /\ Tail(top.pools) \in Seq(Ids)
      /\ Tail(stack[running]) \in Seq(FrameType) /\ running \in Tasks
  BY <1>1, TopType, FrameKinds DEF DrainNextPool, TypeOK
<1>3. PICK p \in Ids : p = Head(top.pools)
  BY <1>2
<1>4. poolObjects[p] \in Seq(Ids)
  BY <1>1 DEF TypeOK
<1>5. DrainFrame(poolObjects[p], Tail(top.pools)) \in FrameType
  BY <1>2, <1>4, FrameKinds
<1>6. PICK f \in FrameType : f = DrainFrame(poolObjects[p], Tail(top.pools))
  BY <1>5
<1>7. /\ poolObjects' = [poolObjects EXCEPT ![p] = <<>>] /\ DeallocObject(p)
      /\ Continue(<<f>> \o Tail(stack[running]))
      /\ UNCHANGED <<held, poolStack, leaked, association>>
  BY <1>3, <1>6 DEF DrainNextPool
<1>8. PICK u \in Tasks, e \in Nat \ {0} : u = running /\ e = Depth(running)
  BY <1>1, <1>2, PlannedPop
<1>9. /\ PoolsOf(f) = Tail(top.pools) /\ RemOf(f) = poolObjects[p]
      /\ \A o : ~ DeallocOf(f, o)
  BY <1>6, FrameParts
<1>10. PoolsAt(u, e) = top.pools /\ Rem(u, e) = <<>>
  <2>1. Lev(u, e) = top
    BY <1>1, <1>2, <1>8, PlannedPop
  <2> QED BY <1>2, <1>8, <2>1 DEF PoolsAt, PoolsOf, Rem, RemOf, Lev
<1>11. <<f>> \o Tail(stack[running]) \in Seq(FrameType)
  BY <1>2, PushType
<1>12. \A t \in Tasks, d \in Nat : Lev(t, d)' = IF t = u /\ d = e THEN f ELSE Lev(t, d)
  <2> TAKE t \in Tasks, d \in Nat
  <2>1. Lev(t, d)' = Planned(<<f>> \o Tail(stack[running]), t, d)
    BY <1>1, <1>7, <1>11, Continued
  <2>2. Planned(<<f>> \o Tail(stack[running]), t, d) =
            IF t = running /\ d = Depth(running) THEN f ELSE Lev(t, d)
    BY <1>1, <1>2, PlannedReplace
  <2> QED BY <1>8, <2>1, <2>2
<1> HIDE DEF top
<1>13. \A t \in Tasks, d \in Nat :
          /\ Rem(t, d)' = IF t = u /\ d = e THEN poolObjects[p] ELSE Rem(t, d)
          /\ PoolsAt(t, d)' = IF t = u /\ d = e THEN Tail(PoolsAt(u, e)) ELSE PoolsAt(t, d)
  <2>1. PoolsOf(f) = Tail(PoolsAt(u, e)) /\ RemOf(f) = poolObjects[p] /\ e # 0
    BY <1>9, <1>10
  <2>2. \A t \in Tasks, d \in Nat :
          /\ Rem(t, d)' = IF t = u /\ d = e THEN RemOf(f) ELSE Rem(t, d)
          /\ d # 0 => PoolsAt(t, d)' = IF t = u /\ d = e THEN PoolsOf(f) ELSE PoolsAt(t, d)
          /\ d = 0 => PoolsAt(t, d)' = poolStack'[t] /\ PoolsAt(t, d) = poolStack[t]
    BY <1>12, DrainSet
  <2> QED BY <1>7, <2>1, <2>2
<1>14. /\ PoolsOnce' /\ \A o : Pending(o)' <=> Pending(o) /\ o # p
       /\ Pending(p)
  <2>1. PoolsAt(u, e) # <<>> /\ Head(PoolsAt(u, e)) = p /\ e \in Nat
    BY <1>2, <1>3, <1>10
  <2>2. \A t \in Tasks, d \in Nat :
          PoolsAt(t, d)' = IF t = u /\ d = e THEN Tail(PoolsAt(u, e)) ELSE PoolsAt(t, d)
    BY <1>13
  <2>3. /\ PoolsOnce'
        /\ \A o : Pending(o)' <=> Pending(o) /\ o # Head(PoolsAt(u, e))
        /\ Pending(Head(PoolsAt(u, e)))
    BY <1>1, <2>1, <2>2, PoolsRest
  <2> QED BY <2>1, <2>3
<1>15. ASSUME NEW o \in Ids PROVE FiniteRefs(o)' /\ Refs(o)' = Refs(o)
  <2>1. /\ IsFiniteSet(Unreleased(o)') /\ IsFiniteSet(Pooled(o)')
        /\ Cardinality(Unreleased(o)') + Cardinality(Pooled(o)') =
                Cardinality(Unreleased(o)) + Cardinality(Pooled(o))
    BY <1>1, <1>7, <1>10, <1>13, Moved DEF Sound, FiniteRefs
  <2>2. Associated(o)' = Associated(o)
    BY <1>7 DEF Associated
  <2>3. FiniteRefs(o) /\ FiniteRefs(o)'
    BY <1>1, <2>1, <2>2 DEF Sound, FiniteRefs
  <2>4. /\ held[o] \in Nat /\ Cardinality(Unreleased(o)) \in Nat
        /\ Cardinality(Associated(o)) \in Nat
        /\ Refs(o) = held[o] + Kept(o) + Cardinality(Unreleased(o)) + Cardinality(Associated(o))
        /\ Cardinality(Unreleased(o)') \in Nat
        /\ Refs(o)' = held'[o] + Kept(o)' + Cardinality(Unreleased(o)')
                          + Cardinality(Associated(o)')
    BY <1>1, <2>3, RefsSum
  <2>5. /\ leaked[o] \in Nat /\ Cardinality(Pooled(o)) \in Nat /\ Cardinality(Pooled(o)') \in Nat
        /\ Kept(o) = leaked[o] + Cardinality(Pooled(o))
        /\ Kept(o)' = leaked[o] + Cardinality(Pooled(o)')
    BY <1>1, <1>7, <2>3, FS_CardinalityType DEF TypeOK, FiniteRefs, Kept
  <2>6. Refs(o)' = held[o] + Kept(o)' + Cardinality(Unreleased(o)') + Cardinality(Associated(o))
    BY <1>7, <2>2, <2>4
  <2>7. PICK h, l, k, k1, a \in Nat :
            /\ h = held[o] /\ l = leaked[o] /\ a = Cardinality(Associated(o))
            /\ k = Cardinality(Unreleased(o)) /\ k1 = Cardinality(Unreleased(o)')
    BY <2>4, <2>5
  <2>8. PICK c, c1 \in Nat : c = Cardinality(Pooled(o)) /\ c1 = Cardinality(Pooled(o)')
    BY <2>5
  <2>9. Refs(o)' = h + (l + c1) + k1 + a /\ Refs(o) = h + (l + c) + k + a
    BY <2>4, <2>5, <2>6, <2>7, <2>8
  <2>10. k1 + c1 = k + c
    BY <2>1, <2>7, <2>8
  <2>11. h + (l + c1) + k1 + a = h + (l + c) + k + a
    BY <2>10
  <2> QED BY <2>3, <2>9, <2>11
<1>16. Refs(p)' = 0 /\ ~ Pending(p)' /\ poolObjects'[p] = <<>>
  BY <1>1, <1>7, <1>14, <1>15 DEF Sound, TypeOK
<1>17. \A o \in Ids : o # p => poolObjects'[o] = poolObjects[o]
  BY <1>1, <1>7 DEF TypeOK
<1>18. \A t \in Tasks, d \in Nat, o \in Ids : Dies(t, d, o)' => Dies(t, d, o)
  BY <1>9, <1>12 DEF Dies, Lev
<1>19. \A o \in Ids : Sound(o)'
  BY <1>1, <1>7, <1>14, <1>15, <1>16, <1>17, <1>18, SoundFreed
<1> QED BY <1>14, <1>19 DEF AllSound

LEMMA CountedNextObject ==
    ASSUME CountInv, TypeOK', stack[running] # <<>>, DrainNextObject(Head(stack[running]))
    PROVE  AllSound'
<1> DEFINE top == Head(stack[running])
<1>1. TypeOK /\ WeakInv /\ DyingInv /\ PoolsOnce /\ \A o \in Ids : Sound(o)
  BY DEF CountInv, AllSound
<1>2. /\ top \in FrameType /\ top.kind = "drain"
      /\ top.pools \in Seq(Ids) /\ top.remaining \in Seq(Ids) /\ top.remaining # <<>>
      /\ Head(top.remaining) \in Ids /\ Tail(top.remaining) \in Seq(Ids)
      /\ Tail(stack[running]) \in Seq(FrameType) /\ running \in Tasks
  BY <1>1, TopType, FrameKinds DEF DrainNextObject, TypeOK
<1>3. PICK x \in Ids : x = Head(top.remaining)
  BY <1>2
<1>4. PICK q \in Seq(Ids) : q = Tail(top.remaining)
  BY <1>2
<1>5. DrainFrame(q, top.pools) \in FrameType
  BY <1>2, FrameKinds
<1>6. PICK f \in FrameType : f = DrainFrame(q, top.pools)
  BY <1>5
<1>7. /\ ReleaseThen(x, <<f>> \o Tail(stack[running]))
      /\ UNCHANGED <<held, poolVars, association>>
  BY <1>3, <1>4, <1>6 DEF DrainNextObject
<1>8. PICK u \in Tasks, e \in Nat \ {0} : u = running /\ e = Depth(running)
  BY <1>1, <1>2, PlannedPop
<1>9. Rem(u, e) = top.remaining
  <2>1. Lev(u, e) = top
    BY <1>1, <1>2, <1>8, PlannedPop
  <2> QED BY <1>2, <2>1 DEF Rem, RemOf, Lev
<1>10. /\ <<f>> \o Tail(stack[running]) \in Seq(FrameType)
       /\ \A o : ~ DeallocOf(f, o)
  BY <1>2, <1>6, PushType, FrameParts
<1>11. \A t \in Tasks, d \in Nat :
           /\ Rem(t, d)' = IF t = u /\ d = e THEN q ELSE Rem(t, d)
           /\ PoolsAt(t, d)' = PoolsAt(t, d)
  BY <1>1, <1>2, <1>6, <1>7, <1>8, DrainTakes DEF poolVars
<1>12. PoolsOnce' /\ \A o : Pending(o)' <=> Pending(o)
  BY <1>1, <1>11, PoolsSame
<1> HIDE DEF top
<1>13. /\ Rem(u, e) \in Seq(Ids) /\ Rem(u, e) # <<>> /\ Head(Rem(u, e)) = x
       /\ \A t \in Tasks, d \in Nat :
            Rem(t, d)' = IF t = u /\ d = e THEN Tail(Rem(u, e)) ELSE Rem(t, d)
  BY <1>2, <1>3, <1>4, <1>9, <1>11
<1>14. ASSUME NEW o \in Ids
       PROVE  FiniteRefs(o)' /\ Refs(o)' \in Nat /\ Refs(o) = Refs(o)' + IF o = x THEN 1 ELSE 0
  <2>1. /\ IsFiniteSet(Unreleased(o)')
        /\ Cardinality(Unreleased(o)) = Cardinality(Unreleased(o)') + IF o = x THEN 1 ELSE 0
    BY <1>1, <1>13, UnreleasedTail DEF Sound, FiniteRefs
  <2>2. Associated(o)' = Associated(o) /\ Pooled(o)' = Pooled(o) /\ Kept(o)' = Kept(o)
    BY <1>7 DEF Associated, Pooled, Kept, poolVars
  <2>3. FiniteRefs(o) /\ FiniteRefs(o)'
    BY <1>1, <2>1, <2>2 DEF Sound, FiniteRefs
  <2>4. /\ held[o] \in Nat /\ Kept(o) \in Nat /\ Cardinality(Unreleased(o)) \in Nat
        /\ Cardinality(Associated(o)) \in Nat
        /\ Refs(o) = held[o] + Kept(o) + Cardinality(Unreleased(o)) + Cardinality(Associated(o))
        /\ Cardinality(Unreleased(o)') \in Nat
        /\ Refs(o)' = held'[o] + Kept(o)' + Cardinality(Unreleased(o)')
                          + Cardinality(Associated(o)')
    BY <1>1, <2>3, RefsSum
  <2>5. Refs(o)' = held[o] + Kept(o) + Cardinality(Unreleased(o)') + Cardinality(Associated(o))
    BY <1>7, <2>2, <2>4
  <2>6. PICK r \in Nat : r = held[o] + Kept(o) + Cardinality(Associated(o))
    BY <2>4
  <2>7. PICK n \in Nat : n = IF o = x THEN 1 ELSE 0
    OBVIOUS
  <2>8. Cardinality(Unreleased(o)) = Cardinality(Unreleased(o)') + n
    BY <2>1, <2>7
  <2>9. Refs(o) = Refs(o)' + n /\ Refs(o)' \in Nat
    <3>1. PICK k1 \in Nat : k1 = Cardinality(Unreleased(o)')
      BY <2>4
    <3>2. PICK k \in Nat : k = Cardinality(Unreleased(o))
      BY <2>4
    <3>3. k = k1 + n
      BY <2>8, <3>1, <3>2
    <3>4. Refs(o) = r + k
      BY <2>4, <2>6, <3>2
    <3>5. Refs(o)' = r + k1
      BY <2>4, <2>5, <2>6, <3>1
    <3> QED BY <3>3, <3>4, <3>5
  <2> QED BY <2>3, <2>7, <2>9
<1>15. \A t \in Tasks, d \in Nat, o \in Ids :
           DeallocOf(Planned(<<f>> \o Tail(stack[running]), t, d), o) => Dies(t, d, o)
  BY <1>1, <1>10, HarmlessReplace
<1>16. \A o \in Ids : Sound(o)'
  BY <1>1, <1>7, <1>10, <1>12, <1>14, <1>15, SoundRelease DEF poolVars
<1> QED BY <1>12, <1>16 DEF AllSound

\* A call that has nothing to release any more ends.
LEMMA CountedEnd ==
    ASSUME CountInv, TypeOK', stack[running] # <<>>,
           RemOf(Head(stack[running])) = <<>>, PoolsOf(Head(stack[running])) = <<>>,
           Continue(Tail(stack[running])), UNCHANGED poolStack
    PROVE  /\ Quiet
           /\ \A t \in Tasks, d \in Nat, o \in Ids : Dies(t, d, o)' => Dies(t, d, o)
<1>1. TypeOK /\ Tail(stack[running]) \in Seq(FrameType)
  BY TopType DEF CountInv
<1>2. Quiet
  BY <1>1, PlainPop, QuietContinue
<1>3. \A t \in Tasks, d \in Nat, o \in Ids : Dies(t, d, o)' => Dies(t, d, o)
  BY <1>1, Continued, HarmlessPop DEF Dies, Lev
<1> QED BY <1>2, <1>3

LEMMA CountedAssociateNew ==
    ASSUME CountInv, TypeOK', stack[running] # <<>>, AssociateNew(Head(stack[running]))
    PROVE  AllSound'
<1> DEFINE top == Head(stack[running])
<1>1. TypeOK /\ PoolsOnce /\ \A o \in Ids : Sound(o)
  BY DEF CountInv, AllSound
<1>2. /\ top \in FrameType /\ top.kind = "associate" /\ top.of \in Ids
      /\ top.new \in NewAssociations /\ running \in Tasks
  BY <1>1, TopType, FrameKinds DEF AssociateNew, TypeOK
<1>3. /\ RemOf(top) = <<>> /\ PoolsOf(top) = <<>>
      /\ Continue(Tail(stack[running]))
      /\ UNCHANGED <<objects, weakVars, held, poolVars>>
  BY <1>2 DEF AssociateNew, RemOf, PoolsOf
<1>4. Quiet /\ \A t \in Tasks, d \in Nat, o \in Ids : Dies(t, d, o)' => Dies(t, d, o)
  BY <1>3, CountedEnd DEF poolVars
<1>5. Entering(top)
  <2>1. CASE GuestDealloc
    <3>1. stack[running] \in Seq(OtherFrames)
      BY <1>2, <2>1 DEF CountInv, Atomic
    <3>2. top \in OtherFrames
      BY <3>1
    <3> QED BY <1>2, <3>2 DEF OtherFrames
  <2>2. CASE ~ GuestDealloc
    <3>1. PICK f \in FrameType : stack[running] = <<f>> /\ Entering(f)
      BY <1>2, <2>2 DEF CountInv, Atomic
    <3> QED BY <3>1
  <2> QED BY <2>1, <2>2
<1>6. PICK x \in Ids, new \in NewAssociations : x = top.of /\ new = top.new
  BY <1>2
<1>7. /\ association[x] = NoAssociation /\ ~ association[x].retained
      /\ new.value = Nil \/ held[new.value] > 0
  BY <1>2, <1>5, <1>6 DEF Entering, NoAssociation
<1>8. CASE new.value = Nil
  <2>1. UNCHANGED <<tableVars, weakVars, held, poolVars, association>>
    BY <1>3, <1>6, <1>8 DEF AssociateNew, tableVars
  <2>2. \A o \in Ids : IsFiniteSet(Associated(o)') /\
                           Cardinality(Associated(o)') = Cardinality(Associated(o))
    BY <1>1, <2>1 DEF Associated, Sound, FiniteRefs
  <2> QED BY <1>4, <2>1, <2>2, CountedQuiet
<1>9. CASE new.value # Nil
  <2>1. new.value \in Ids
    BY <1>9 DEF NewAssociations, NoAssociation
  <2>2. association' = [association EXCEPT ![x] = new]
    BY <1>6, <1>9 DEF AssociateNew
  <2>3. ASSUME NEW o \in Ids
        PROVE  /\ IsFiniteSet(Associated(o)')
               /\ Cardinality(Associated(o)') =
                    Cardinality(Associated(o)) + IF new.retained /\ o = new.value THEN 1 ELSE 0
    BY <1>1, <1>7, <2>2, AssociatedAdd DEF Sound, FiniteRefs
  <2>4. CASE ~ new.retained
    <3>1. UNCHANGED refcount
      BY <1>6, <1>9, <2>4 DEF AssociateNew
    <3>2. ASSUME NEW o \in Ids
          PROVE  /\ IsFiniteSet(Associated(o)')
                 /\ Cardinality(Associated(o)') = Cardinality(Associated(o))
      <4>1. Cardinality(Associated(o)) \in Nat
        BY <1>1, RefsType DEF Sound
      <4> QED BY <2>3, <2>4, <4>1
    <3> QED BY <1>3, <1>4, <3>1, <3>2, CountedQuiet DEF tableVars
  <2>5. CASE new.retained
    <3>1. Increment(new.value)
      BY <1>6, <1>9, <2>5 DEF AssociateNew
    <3>2. ~ Pending(new.value) /\ refcount[new.value] > 0
      BY <1>1, <1>7, <1>9, <2>1, HasReference, Referenced
    <3>3. PoolsOnce' /\ \A o : Pending(o)' <=> Pending(o)
      BY <1>1, <1>4, QuietPools
    <3>4. ASSUME NEW o \in Ids
          PROVE  FiniteRefs(o)' /\ Refs(o)' = Refs(o) + IF o = new.value THEN 1 ELSE 0
      <4>1. /\ Unreleased(o)' = Unreleased(o) /\ Pooled(o)' = Pooled(o) /\ Kept(o)' = Kept(o)
        BY <1>3, <1>4, UnreleasedSame DEF Quiet, Pooled, Kept, poolVars
      <4>2. FiniteRefs(o) /\ FiniteRefs(o)'
        BY <1>1, <2>3, <4>1 DEF Sound, FiniteRefs
      <4>3. /\ held[o] \in Nat /\ Kept(o) \in Nat /\ Cardinality(Unreleased(o)) \in Nat
            /\ Cardinality(Associated(o)) \in Nat
            /\ Refs(o) = held[o] + Kept(o) + Cardinality(Unreleased(o))
                             + Cardinality(Associated(o))
            /\ Refs(o)' = held'[o] + Kept(o)' + Cardinality(Unreleased(o)')
                              + Cardinality(Associated(o)')
        BY <1>1, <4>2, RefsSum
      <4>4. Refs(o)' = held[o] + Kept(o) + Cardinality(Unreleased(o))
                           + Cardinality(Associated(o)')
        BY <1>3, <4>1, <4>3
      <4> QED BY <2>3, <2>5, <4>2, <4>3, <4>4
    <3>5. \A o \in Ids : Sound(o)'
      BY <1>1, <1>3, <1>4, <2>1, <3>1, <3>2, <3>3, <3>4, SoundRetain DEF poolVars
    <3> QED BY <3>3, <3>5 DEF AllSound
  <2> QED BY <2>4, <2>5
<1> QED BY <1>8, <1>9

LEMMA CountedHost == ASSUME CountInv, TypeOK', HostStep PROVE AllSound'
<1> DEFINE top == Head(stack[running])
<1>1. stack[running] # <<>>
  BY DEF HostStep
<1>2. CASE DrainDone(top)
  <2>1. /\ RemOf(top) = <<>> /\ PoolsOf(top) = <<>> /\ Continue(Tail(stack[running]))
        /\ UNCHANGED <<tableVars, weakVars, held, poolVars, association>>
    BY <1>2 DEF DrainDone, RemOf, PoolsOf
  <2>2. Quiet /\ \A t \in Tasks, d \in Nat, o \in Ids : Dies(t, d, o)' => Dies(t, d, o)
    BY <1>1, <2>1, CountedEnd DEF poolVars
  <2>3. \A o \in Ids : IsFiniteSet(Associated(o)') /\
                           Cardinality(Associated(o)') = Cardinality(Associated(o))
    BY <2>1 DEF CountInv, AllSound, Associated, Sound, FiniteRefs
  <2> QED BY <2>1, <2>2, <2>3, CountedQuiet
<1> QED BY <1>1, <1>2, CountedNextPool, CountedNextObject, CountedAssociateNew DEF HostStep

-----------------------------------------------------------------------------
LEMMA CountedNewPool ==
    ASSUME CountInv, TypeOK', NEW p \in Ids, NewPool(p)
    PROVE  AllSound'
<1>1. TypeOK /\ DyingInv /\ PoolsOnce /\ \A o \in Ids : Sound(o)
  BY DEF CountInv, AllSound
<1>2. /\ p \notin objects /\ objects' = objects \cup {p}
      /\ refcount' = [refcount EXCEPT ![p] = 1]
      /\ poolStack' = [poolStack EXCEPT ![running] = Append(@, p)]
      /\ UNCHANGED <<weakVars, stack, held, poolObjects, leaked, association>>
  BY DEF NewPool, Register, taskVars
<1>3. PICK u \in Tasks : u = running
  BY <1>1 DEF TypeOK
<1>4. \A t \in Tasks, d \in Nat :
          /\ Rem(t, d)' = Rem(t, d)
          /\ PoolsAt(t, d)' = IF t = u /\ d = 0 THEN Append(PoolsAt(u, 0), p) ELSE PoolsAt(t, d)
  BY <1>1, <1>2, <1>3 DEF Rem, PoolsAt, TypeOK
<1>5. ~ Pending(p) /\ (\A s \in Slots : slot[s] # p)
  BY <1>1, <1>2 DEF Sound
<1>6. PoolsOnce' /\ \A o : Pending(o)' <=> Pending(o) \/ o = p
  BY <1>1, <1>4, <1>5, PoolsPush
<1>7. ASSUME NEW o \in Ids PROVE FiniteRefs(o)' /\ Refs(o)' = Refs(o)
  <2>1. /\ Unreleased(o)' = Unreleased(o) /\ Associated(o)' = Associated(o)
        /\ Pooled(o)' = Pooled(o)
    BY <1>2, <1>4, UnreleasedSame DEF Associated, Pooled
  <2> QED BY <1>1, <1>2, <2>1 DEF Sound, FiniteRefs, Refs, Kept
<1>8. \A t, d, o : Dies(t, d, o)' = Dies(t, d, o)
  BY <1>2, SameStack
<1>9. ASSUME NEW o \in Ids, o # p PROVE Sound(o)'
  <2>1. refcount'[o] = refcount[o] /\ (o \in objects' <=> o \in objects) /\ UNCHANGED slot
    BY <1>1, <1>2, <1>9 DEF TypeOK, weakVars
  <2> QED BY <1>1, <1>2, <1>6, <1>7, <1>8, <1>9, <2>1, SoundSame
<1>10. Sound(p)'
  <2>1. refcount[p] = 0 /\ Refs(p) = 0
    BY <1>1, <1>2, <1>5 DEF Sound, TypeOK
  <2>2. Pending(p)' /\ p \in objects' /\ Refs(p)' = 0 /\ FiniteRefs(p)'
    BY <1>2, <1>6, <1>7, <2>1
  <2>3. \A t \in Tasks, d \in Nat : ~ Dies(t, d, p)'
    BY <1>1, <1>2, <1>8 DEF DyingInv
  <2>4. \A s \in Slots : slot'[s] # p
    BY <1>2, <1>5 DEF weakVars
  <2> QED BY <2>2, <2>3, <2>4 DEF Sound
<1> QED BY <1>6, <1>9, <1>10 DEF AllSound

LEMMA CountedDrainPool ==
    ASSUME CountInv, TypeOK', NEW p \in Ids, NEW v \in Tasks, DrainPool(p, v)
    PROVE  AllSound'
<1>1. TypeOK /\ PoolsOnce /\ \A o \in Ids : Sound(o)
  BY DEF CountInv, AllSound
<1>2. PICK k \in 1 .. Len(poolStack[v]) :
             /\ poolStack[v][k] = p
             /\ poolStack' = [poolStack EXCEPT ![v] = SubSeq(@, 1, k - 1)]
             /\ Continue(<<DrainFrame(<<>>, DrainedPools(v, k))>> \o stack[running])
             /\ refcount' = [refcount EXCEPT ![p] = 0]
             /\ UNCHANGED <<objects, weakVars, held, poolObjects, leaked, association>>
  BY <1>1, DrainPoolEffect
<1>3. /\ DrainedPools(v, k) \in Seq(Ids)
      /\ Len(DrainedPools(v, k)) = Len(poolStack[v]) + 1 - k
      /\ \A j \in 1 .. Len(poolStack[v]) + 1 - k :
           DrainedPools(v, k)[j] = poolStack[v][Len(poolStack[v]) + 1 - j]
      /\ Len(SubSeq(poolStack[v], 1, k - 1)) = k - 1
      /\ \A j \in 1 .. k - 1 : SubSeq(poolStack[v], 1, k - 1)[j] = poolStack[v][j]
  BY <1>1, DrainedType
<1>4. PICK drained \in Seq(Ids) : drained = DrainedPools(v, k)
  BY <1>3
<1>5. PICK kept : kept = SubSeq(poolStack[v], 1, k - 1)
  OBVIOUS
<1>6. <<>> \in Seq(Ids) /\ stack[running] \in Seq(FrameType)
  BY <1>1 DEF TypeOK
<1>7. DrainFrame(<<>>, drained) \in FrameType
  BY <1>6, FrameKinds
<1>8. PICK f \in FrameType : f = DrainFrame(<<>>, drained)
  BY <1>7
<1>9. /\ RemOf(f) = <<>> /\ PoolsOf(f) = drained /\ \A o : ~ DeallocOf(f, o)
  BY <1>8, FrameParts
<1>10. <<f>> \o stack[running] \in Seq(FrameType) /\ Continue(<<f>> \o stack[running])
  BY <1>2, <1>4, <1>6, <1>8, PushType
<1>11. Depth(running) \in Nat /\ running \in Tasks /\ Lev(running, Depth(running) + 1) = Blank
  BY <1>1, <1>7, PlannedPush DEF TypeOK
<1>12. PICK u \in Tasks, e \in Nat \ {0} : u = running /\ e = Depth(running) + 1
  BY <1>11
<1>13. \A t \in Tasks, d \in Nat : Lev(t, d)' = IF t = u /\ d = e THEN f ELSE Lev(t, d)
  <2> TAKE t \in Tasks, d \in Nat
  <2>1. Lev(t, d)' = Planned(<<f>> \o stack[running], t, d)
    BY <1>1, <1>10, Continued
  <2>2. Planned(<<f>> \o stack[running], t, d) =
            IF t = running /\ d = Depth(running) + 1 THEN f ELSE Lev(t, d)
    BY <1>1, PlannedPush
  <2> QED BY <1>12, <2>1, <2>2
<1>14. \A t \in Tasks, d \in Nat :
          /\ Rem(t, d)' = IF t = u /\ d = e THEN RemOf(f) ELSE Rem(t, d)
          /\ d # 0 => PoolsAt(t, d)' = IF t = u /\ d = e THEN PoolsOf(f) ELSE PoolsAt(t, d)
          /\ d = 0 => PoolsAt(t, d)' = poolStack'[t] /\ PoolsAt(t, d) = poolStack[t]
  BY <1>13, DrainSet
<1>15. Rem(u, e) = <<>> /\ PoolsAt(u, e) = <<>>
  BY <1>11, <1>12, BlankFrame DEF Rem, PoolsAt, Lev
<1>16. /\ poolStack'[v] = kept /\ PoolsAt(v, 0) = poolStack[v]
       /\ \A t \in Tasks : t # v => poolStack'[t] = poolStack[t]
  BY <1>1, <1>2, <1>5, <1>14 DEF TypeOK
<1>17. \A t \in Tasks, d \in Nat :
           /\ Rem(t, d)' = Rem(t, d)
           /\ PoolsAt(t, d)' = IF t = v /\ d = 0 THEN kept
                               ELSE IF t = u /\ d = e THEN drained ELSE PoolsAt(t, d)
  BY <1>9, <1>14, <1>15, <1>16
<1>18. PoolsOnce' /\ \A o : Pending(o)' <=> Pending(o)
  <2>1. PoolsAt(v, 0)' = kept /\ PoolsAt(u, e)' = drained
    BY <1>17
  <2>2. /\ k \in 1 .. Len(PoolsAt(v, 0))
        /\ Len(PoolsAt(v, 0)') = k - 1
        /\ \A i \in 1 .. k - 1 : PoolsAt(v, 0)'[i] = PoolsAt(v, 0)[i]
    BY <1>3, <1>5, <1>16, <2>1
  <2>3. /\ Len(PoolsAt(u, e)') = Len(PoolsAt(v, 0)) + 1 - k
        /\ \A i \in 1 .. Len(PoolsAt(v, 0)) + 1 - k :
             PoolsAt(u, e)'[i] = PoolsAt(v, 0)[Len(PoolsAt(v, 0)) + 1 - i]
    BY <1>3, <1>4, <1>16, <2>1
  <2>4. \A t \in Tasks, d \in Nat :
            ~ (t = v /\ d = 0) /\ ~ (t = u /\ d = e) => PoolsAt(t, d)' = PoolsAt(t, d)
    BY <1>17
  <2> QED BY ONLY <1>1, <1>15, <2>2, <2>3, <2>4, PoolsDrained
<1>19. Pending(p)
  BY <1>2, <1>16 DEF Pending
<1>20. ASSUME NEW o \in Ids PROVE FiniteRefs(o)' /\ Refs(o)' = Refs(o)
  <2>1. /\ Unreleased(o)' = Unreleased(o) /\ Associated(o)' = Associated(o)
        /\ Pooled(o)' = Pooled(o)
    BY <1>2, <1>17, UnreleasedSame DEF Associated, Pooled
  <2> QED BY <1>1, <1>2, <2>1 DEF Sound, FiniteRefs, Refs, Kept
<1>21. \A t \in Tasks, d \in Nat, o \in Ids : Dies(t, d, o)' => Dies(t, d, o)
  BY <1>9, <1>13 DEF Dies, Lev
<1>22. UNCHANGED <<slot, objects, poolObjects>>
  BY <1>2 DEF weakVars
<1>23. ASSUME NEW o \in Ids, o # p PROVE Sound(o)'
  <2>1. refcount'[o] = refcount[o]
    BY <1>1, <1>2, <1>23 DEF TypeOK
  <2> QED BY <1>1, <1>18, <1>20, <1>21, <1>22, <2>1, SoundSame
<1>24. Sound(p)'
  <2>1. /\ p \in objects' /\ Refs(p)' = 0 /\ Pending(p)' /\ FiniteRefs(p)'
        /\ \A t \in Tasks, d \in Nat : ~ Dies(t, d, p)'
        /\ \A s \in Slots : slot'[s] # p
    BY <1>1, <1>18, <1>19, <1>20, <1>21, <1>22 DEF Sound
  <2> QED BY <2>1 DEF Sound
<1> QED BY <1>18, <1>23, <1>24 DEF AllSound

LEMMA CountedAutorelease ==
    ASSUME CountInv, TypeOK', NEW x \in Ids, Autorelease(x) PROVE AllSound'
<1>1. TypeOK /\ PoolsOnce /\ \A o \in Ids : Sound(o)
  BY DEF CountInv, AllSound
<1>2. /\ held[x] > 0 /\ held' = [held EXCEPT ![x] = @ - 1] /\ AddObject(x)
      /\ UNCHANGED <<tableVars, weakVars, stack, association>>
  BY DEF Autorelease, GiveUp, taskVars
<1>3. UNCHANGED poolStack
  BY <1>2 DEF AddObject
<1>4. Quiet /\ \A t, d, o : Dies(t, d, o)' = Dies(t, d, o)
  BY <1>2, <1>3, QuietSame, SameStack
<1>5. PoolsOnce' /\ \A o : Pending(o)' <=> Pending(o)
  BY <1>1, <1>4, QuietPools
<1>6. ASSUME NEW o \in Ids PROVE FiniteRefs(o)' /\ Refs(o)' = Refs(o)
  <2>1. /\ FiniteRefs(o)' /\ Refs(o) \in Nat /\ Refs(o)' \in Nat
        /\ held[o] \in Nat /\ held'[o] \in Nat
        /\ Refs(o)' + held[o] = Refs(o) + held'[o] + IF o = x THEN 1 ELSE 0
    BY <1>1, <1>2, <1>4, RefsAdd DEF Sound
  <2>2. held[o] = held'[o] + IF o = x THEN 1 ELSE 0
    <3>1. held \in [Ids -> 0 .. MaxRefs]
      BY <1>1 DEF TypeOK
    <3>2. held'[x] = held[x] - 1
      BY <1>2, <3>1
    <3>3. o # x => held'[o] = held[o]
      BY <1>2, <3>1
    <3> QED BY <2>1, <3>2, <3>3
  <2>3. PICK n \in Nat : n = IF o = x THEN 1 ELSE 0
    OBVIOUS
  <2>4. \A r, r1, h, h1 \in Nat : r1 + h = r + h1 + n /\ h = h1 + n => r1 = r
    OBVIOUS
  <2> QED BY <2>1, <2>2, <2>3, <2>4
<1>7. ASSUME NEW o \in Ids PROVE Pending(o) \/ poolObjects'[o] = poolObjects[o]
  BY <1>1, <1>2, KeptAdd, InnermostPending DEF Sound, FiniteRefs
<1>8. \A o \in Ids : Sound(o)'
  BY <1>1, <1>2, <1>4, <1>5, <1>6, <1>7, SoundKept
<1> QED BY <1>5, <1>8 DEF AllSound

LEMMA CountedLoadWeak ==
    ASSUME CountInv, LawfulProgram, TypeOK', NEW s \in Slots, LoadWeak(s) PROVE AllSound'
<1>1. TypeOK /\ PoolsOnce /\ \A o \in Ids : Sound(o)
  BY DEF CountInv, AllSound
<1>2. slot[s] \in Ids /\ ~ GuestDealloc
  BY <1>1 DEF LoadWeak, Calls, LawfulProgram, TypeOK
<1>3. PICK x \in Ids : x = slot[s]
  BY <1>2
<1>4. /\ Increment(x) /\ AddObject(x)
      /\ UNCHANGED <<objects, weakVars, stack, held, association>>
  BY <1>3 DEF LoadWeak, taskVars
<1>5. UNCHANGED poolStack
  BY <1>4 DEF AddObject
<1>6. Quiet /\ \A t, d, o : Dies(t, d, o)' = Dies(t, d, o)
  BY <1>4, <1>5, QuietSame, SameStack
<1>7. PoolsOnce' /\ \A o : Pending(o)' <=> Pending(o)
  BY <1>1, <1>6, QuietPools
<1>8. ~ Pending(x) /\ refcount[x] > 0
  BY <1>1, <1>2, <1>3 DEF Sound
<1>9. ASSUME NEW o \in Ids PROVE FiniteRefs(o)' /\ Refs(o)' = Refs(o) + IF o = x THEN 1 ELSE 0
  <2>1. /\ FiniteRefs(o)' /\ Refs(o) \in Nat /\ Refs(o)' \in Nat /\ held[o] \in Nat
        /\ Refs(o)' + held[o] = Refs(o) + held'[o] + IF o = x THEN 1 ELSE 0
    BY <1>1, <1>4, <1>6, RefsAdd DEF Sound
  <2>2. PICK n \in Nat : n = IF o = x THEN 1 ELSE 0
    OBVIOUS
  <2>3. \A r, r1, h \in Nat : r1 + h = r + h + n => r1 = r + n
    OBVIOUS
  <2> QED BY <1>4, <2>1, <2>2, <2>3
<1>10. ASSUME NEW o \in Ids PROVE Pending(o) \/ poolObjects'[o] = poolObjects[o]
  BY <1>1, <1>4, KeptAdd, InnermostPending DEF Sound, FiniteRefs
<1>11. \A o \in Ids : Sound(o)'
  BY <1>1, <1>4, <1>6, <1>7, <1>8, <1>9, <1>10, SoundRetain
<1> QED BY <1>7, <1>11 DEF AllSound

LEMMA CountedDrop ==
    ASSUME CountInv, TypeOK', NEW x \in Ids, NEW frames \in Seq(FrameType), Plain(frames),
           DropAssociation(x, frames),
           \A t \in Tasks, d \in Nat, o \in Ids :
               DeallocOf(Planned(frames, t, d), o) => Dies(t, d, o)
    PROVE  AllSound'
<1>1. TypeOK /\ WeakInv /\ DyingInv /\ PoolsOnce /\ \A o \in Ids : Sound(o)
  BY DEF CountInv, AllSound
<1>2. /\ association' = [association EXCEPT ![x] = NoAssociation]
      /\ UNCHANGED <<running, held, poolVars>>
  BY DEF DropAssociation
<1>3. ASSUME NEW o \in Ids
      PROVE  /\ IsFiniteSet(Associated(o)')
             /\ Cardinality(Associated(o)) = Cardinality(Associated(o)') +
                  IF association[x].retained /\ o = association[x].value THEN 1 ELSE 0
  BY <1>1, <1>2, AssociatedDrop DEF Sound, FiniteRefs
<1>4. CASE ~ association[x].retained
  <2>1. Continue(frames) /\ UNCHANGED <<tableVars, weakVars>>
    BY <1>4 DEF DropAssociation
  <2>2. Quiet
    BY <1>1, <1>2, <2>1, QuietContinue DEF poolVars
  <2>3. \A t \in Tasks, d \in Nat, o \in Ids : Dies(t, d, o)' => Dies(t, d, o)
    BY <1>1, <2>1, Continued DEF Dies, Lev
  <2>4. ASSUME NEW o \in Ids
        PROVE  /\ IsFiniteSet(Associated(o)')
               /\ Cardinality(Associated(o)') = Cardinality(Associated(o))
    <3>1. Cardinality(Associated(o)') \in Nat
      BY <1>3, FS_CardinalityType
    <3> QED BY <1>3, <1>4, <3>1
  <2> QED BY <1>2, <2>1, <2>2, <2>3, <2>4, CountedQuiet
<1>5. CASE association[x].retained
  <2>1. association[x].value \in Ids
    BY <1>1, <1>5 DEF TypeOK, NewAssociations, NoAssociation
  <2>2. PICK v \in Ids : v = association[x].value
    BY <2>1
  <2>3. ReleaseThen(v, frames)
    BY <1>5, <2>2 DEF DropAssociation
  <2>4. Quiet
    BY <1>1, <1>2, <2>3, QuietRelease DEF poolVars
  <2>5. PoolsOnce' /\ \A o : Pending(o)' <=> Pending(o)
    BY <1>1, <2>4, QuietPools
  <2>6. ASSUME NEW o \in Ids
        PROVE  FiniteRefs(o)' /\ Refs(o)' \in Nat /\ Refs(o) = Refs(o)' + IF o = v THEN 1 ELSE 0
    <3>1. /\ Unreleased(o)' = Unreleased(o) /\ Pooled(o)' = Pooled(o) /\ Kept(o)' = Kept(o)
      BY <1>2, <2>4, UnreleasedSame DEF Quiet, Pooled, Kept, poolVars
    <3>2. FiniteRefs(o) /\ FiniteRefs(o)'
      BY <1>1, <1>3, <3>1 DEF Sound, FiniteRefs
    <3>3. /\ held[o] \in Nat /\ Kept(o) \in Nat /\ Cardinality(Unreleased(o)) \in Nat
          /\ Refs(o) = held[o] + Kept(o) + Cardinality(Unreleased(o))
                           + Cardinality(Associated(o))
          /\ Cardinality(Associated(o)') \in Nat
          /\ Refs(o)' = held'[o] + Kept(o)' + Cardinality(Unreleased(o)')
                            + Cardinality(Associated(o)')
      BY <1>1, <3>2, RefsSum
    <3>4. Refs(o)' = held[o] + Kept(o) + Cardinality(Unreleased(o))
                         + Cardinality(Associated(o)')
      BY <1>2, <3>1, <3>3
    <3>5. PICK n \in Nat : n = IF o = v THEN 1 ELSE 0
      OBVIOUS
    <3>6. Cardinality(Associated(o)) = Cardinality(Associated(o)') + n
      BY <1>3, <1>5, <2>2, <3>5
    <3>7. Refs(o) = Refs(o)' + n /\ Refs(o)' \in Nat
      BY <3>3, <3>4, <3>6
    <3> QED BY <3>2, <3>5, <3>7
  <2>7. \A o \in Ids : Sound(o)'
    BY <1>1, <1>2, <2>3, <2>5, <2>6, SoundRelease DEF poolVars
  <2> QED BY <2>5, <2>7 DEF AllSound
<1> QED BY <1>4, <1>5

LEMMA CountedGuest ==
    ASSUME CountInv, LawfulProgram, TypeOK', GuestStep PROVE AllSound'
<1>1. TypeOK /\ stack[running] \in Seq(FrameType)
  BY DEF CountInv, TypeOK
<1>2. ASSUME NEW o \in Ids, RemoveAssociatedObjects(o) PROVE AllSound'
  <2>1. DropAssociation(o, stack[running])
    BY <1>2 DEF RemoveAssociatedObjects
  <2> QED BY <1>1, <2>1, PlainSame, PlannedSame, CountedDrop DEF Dies, Lev
<1>3. ASSUME NEW o \in Ids, NEW new \in NewAssociations, SetAssociatedObject(o, new)
      PROVE  AllSound'
  <2> DEFINE f == AssociateFrame(o, new)
  <2>1. /\ f \in FrameType /\ <<f>> \o stack[running] \in Seq(FrameType)
        /\ RemOf(f) = <<>> /\ PoolsOf(f) = <<>> /\ \A x : ~ DeallocOf(f, x)
    BY <1>1, FrameKinds, PushType, FrameParts
  <2>2. DropAssociation(o, <<f>> \o stack[running])
    BY <1>3 DEF SetAssociatedObject
  <2> HIDE DEF f
  <2>3. Plain(<<f>> \o stack[running])
    BY <1>1, <2>1, PlainPush
  <2>4. \A t \in Tasks, d \in Nat, x \in Ids :
            DeallocOf(Planned(<<f>> \o stack[running], t, d), x) => Dies(t, d, x)
    BY <1>1, <2>1, HarmlessPush
  <2> QED BY <2>1, <2>2, <2>3, <2>4, CountedDrop
<1> QED BY <1>2, <1>3, CountedNewPool, CountedAutorelease, CountedDrainPool, CountedLoadWeak
        DEF GuestStep

-----------------------------------------------------------------------------
(***************************************************************************)
(* The inductive invariant of the object runtime.                          *)
(***************************************************************************)
LEMMA TypeStep == ASSUME TypeOK, WeakInv, [Next]_vars PROVE TypeOK'
<1>1. CASE UNCHANGED vars
  BY <1>1 DEF vars, tableVars, weakVars, taskVars, poolVars, TypeOK
<1> QED BY <1>1, ObjectsType, WeakStepType, HostStepType, GuestStepType DEF Next

\* A pool that a drain is about to free is in use.
LEMMA FreedPending ==
    ASSUME TypeOK, NEW p \in Ids, PoolFreed(p) PROVE Pending(p)
<1> DEFINE s == stack[running]
<1>1. s \in Seq(FrameType) /\ s # <<>> /\ running \in Tasks
  BY DEF TypeOK, PoolFreed
<1>2. Level(s, Len(s)) = Head(s) /\ Len(s) \in Nat \ {0}
  BY <1>1, LevelTop
<1>3. PoolsOf(Head(s)) = Head(s).pools /\ Head(s).pools # <<>> /\ Head(Head(s).pools) = p
  BY DEF PoolFreed, PoolsOf
<1>4. PoolsAt(running, Len(s)) = Head(s).pools
  BY <1>2, <1>3 DEF PoolsAt
<1> HIDE DEF s
<1>5. PoolsAt(running, Len(s)) \in Seq(Ids)
  BY <1>1, <1>2, PoolsType
<1>6. 1 \in 1 .. Len(PoolsAt(running, Len(s))) /\ PoolsAt(running, Len(s))[1] = p
  BY <1>3, <1>4, <1>5
<1> QED BY <1>1, <1>2, <1>6 DEF Pending

LEMMA CountNext ==
    ASSUME CountInv, LawfulProgram, [Next]_vars PROVE CountInv'
<1>1. TypeOK /\ WeakInv /\ DyingInv /\ Atomic /\ \A o \in Ids : Sound(o)
  BY DEF CountInv, AllSound
<1>2. TypeOK' /\ WeakInv'
  BY <1>1, TypeStep, WeakNext
<1>3. DyingInv'
  <2>1. \A p \in Ids : PoolFreed(p) => \A t \in Tasks, d \in Nat : ~ Dies(t, d, p)
    BY <1>1, FreedPending DEF Sound
  <2> QED BY <1>1, <2>1, DyingNext
<1>4. Atomic'
  BY <1>1, AtomicNext
<1>5. AllSound'
  <2>1. CASE UNCHANGED vars
    BY <1>2, <2>1, CountedStill DEF vars, taskVars
  <2> QED BY <1>2, <2>1, CountedObjects, CountedWeak, CountedHost, CountedGuest DEF Next
<1> QED BY <1>2, <1>3, <1>4, <1>5 DEF CountInv

LEMMA CountInit == ASSUME Init, TypeOK, WeakInv PROVE CountInv
<1>1. /\ stack = [t \in Tasks |-> <<>>] /\ poolStack = [t \in Tasks |-> <<>>]
      /\ poolObjects = [p \in Ids |-> <<>>] /\ leaked = [o \in Ids |-> 0]
      /\ association = [o \in Ids |-> NoAssociation] /\ held = [o \in Ids |-> 0]
      /\ refcount = [o \in Ids |-> 0] /\ objects = {} /\ slot = [s \in Slots |-> Nil]
  BY DEF Init, ObjectsInit
<1>2. \A t \in Tasks, d \in Nat : Level(stack[t], d) = Blank
  BY <1>1 DEF Level
<1>3. \A t \in Tasks, d \in Nat : Rem(t, d) = <<>> /\ PoolsAt(t, d) = <<>>
  BY <1>1, <1>2, BlankFrame DEF Rem, PoolsAt
<1>4. PoolsOnce /\ \A o : ~ Pending(o)
  BY <1>3 DEF PoolsOnce, Pending
<1>5. ASSUME NEW o \in Ids PROVE Sound(o)
  <2>1. Unreleased(o) = {}
    BY <1>3 DEF Unreleased, Back
  <2>2. Pooled(o) = {}
    BY <1>1 DEF Pooled, Entries
  <2>3. Associated(o) = {}
    BY <1>1 DEF Associated, NoAssociation
  <2>4. IsFiniteSet({}) /\ Cardinality({}) = 0
    BY FS_EmptySet
  <2>5. FiniteRefs(o) /\ Refs(o) = 0
    BY <1>1, <2>1, <2>2, <2>3, <2>4 DEF FiniteRefs, Refs, Kept
  <2>6. \A s \in Slots : slot[s] # o
    BY <1>1, ObjectsAssumption
  <2> QED BY <1>1, <1>4, <2>5, <2>6 DEF Sound
<1> QED BY <1>4, <1>5, DyingInit, AtomicInit DEF CountInv, AllSound

LEMMA CountInvariant == ASSUME LawfulProgram PROVE Spec => []CountInv
<1>1. Init /\ TypeOK /\ WeakInv => CountInv
  BY CountInit
<1>2. CountInv /\ [Next]_vars => CountInv'
  BY CountNext
<1> QED BY <1>1, <1>2, TypeCorrect, WeakInvariant, PTL DEF Spec

-----------------------------------------------------------------------------
(***************************************************************************)
(* A program that never makes a pool, or never drains one, frees no pool   *)
(* while anything else happens to it.                                      *)
(***************************************************************************)
Undraining == ~ {"new_pool", "drain"} \subseteq Calling

UndrainedFrames == {f \in FrameType : f.kind # "drain"}

Undrained ==
    /\ stack \in [Tasks -> Seq(UndrainedFrames)]
    /\ "new_pool" \notin Calling => \A t \in Tasks : poolStack[t] = <<>>

LEMMA UndrainedCall ==
    ASSUME TypeOK, Undrained, UNCHANGED poolStack, NEW frames \in Seq(UndrainedFrames),
           Continue(frames) \/ \E o \in Ids : ReleaseThen(o, frames)
    PROVE  Undrained'
<1>1. CASE Continue(frames)
  BY <1>1 DEF Continue, Undrained, TypeOK
<1>2. ASSUME NEW o \in Ids, Continue(<<DeallocFrame(o)>> \o frames) PROVE Undrained'
  <2>1. DeallocFrame(o) \in UndrainedFrames
    BY FrameKinds DEF DeallocFrame, UndrainedFrames
  <2>2. <<DeallocFrame(o)>> \o frames \in Seq(UndrainedFrames)
    BY <2>1
  <2> QED BY <1>2, <2>2 DEF Continue, Undrained, TypeOK
<1> QED BY <1>1, <1>2 DEF ReleaseThen

LEMMA UndrainedSame ==
    ASSUME Undrained, UNCHANGED <<stack, poolStack>> PROVE Undrained'
BY DEF Undrained

LEMMA UndrainedGuest ==
    ASSUME TypeOK, Undraining, Undrained, GuestStep PROVE Undrained'
<1>0. stack[running] \in Seq(UndrainedFrames)
  BY DEF TypeOK, Undrained
<1>1. ASSUME NEW p \in Ids, NewPool(p) PROVE Undrained'
  <2>1. "new_pool" \in Calling /\ UNCHANGED stack
    BY <1>1 DEF NewPool, Calls, taskVars
  <2> QED BY <2>1 DEF Undrained
<1>2. ASSUME NEW o \in Ids, AddObject(o), UNCHANGED stack PROVE Undrained'
  BY <1>2, UndrainedSame DEF AddObject
<1>3. ASSUME NEW p \in Ids, NEW t \in Tasks, DrainPool(p, t) PROVE FALSE
  <2>1. "new_pool" \notin Calling /\ \E i \in DOMAIN poolStack[t] : TRUE
    BY <1>3 DEF DrainPool, Calls, Undraining
  <2> QED BY <2>1 DEF Undrained
<1>4. ASSUME NEW o \in Ids, NEW frames \in Seq(UndrainedFrames), DropAssociation(o, frames)
      PROVE  Undrained'
  <2>1. UNCHANGED poolStack
    BY <1>4 DEF DropAssociation, poolVars
  <2>2. Continue(frames) \/ \E v \in Ids : ReleaseThen(v, frames)
    BY <1>4 DEF DropAssociation, TypeOK, NewAssociations, NoAssociation
  <2> QED BY <2>1, <2>2, UndrainedCall
<1>5. ASSUME NEW o \in Ids, RemoveAssociatedObjects(o) PROVE Undrained'
  BY <1>0, <1>4, <1>5 DEF RemoveAssociatedObjects
<1>6. ASSUME NEW o \in Ids, NEW new \in NewAssociations, SetAssociatedObject(o, new)
      PROVE  Undrained'
  <2> DEFINE f == AssociateFrame(o, new)
  <2>1. f \in UndrainedFrames
    BY FrameKinds DEF AssociateFrame, UndrainedFrames
  <2>2. DropAssociation(o, <<f>> \o stack[running])
    BY <1>6 DEF SetAssociatedObject
  <2> HIDE DEF f
  <2>3. <<f>> \o stack[running] \in Seq(UndrainedFrames)
    BY <1>0, <2>1
  <2> QED BY <1>4, <2>2, <2>3
<1>7. ASSUME NEW o \in Ids, Autorelease(o) PROVE Undrained'
  BY <1>2, <1>7 DEF Autorelease, taskVars
<1>8. ASSUME NEW s \in Slots, LoadWeak(s) PROVE Undrained'
  <2>1. slot[s] \in Ids /\ AddObject(slot[s]) /\ UNCHANGED stack
    BY <1>8 DEF LoadWeak, TypeOK, taskVars
  <2> QED BY <1>2, <2>1
<1> QED BY <1>1, <1>3, <1>5, <1>6, <1>7, <1>8 DEF GuestStep

LEMMA UndrainedNext ==
    ASSUME TypeOK, Undraining, Undrained, [Next]_vars PROVE Undrained'
<1>0. /\ stack[running] \in Seq(UndrainedFrames)
      /\ stack[running] # <<>> => /\ Head(stack[running]) \in UndrainedFrames
                                  /\ Tail(stack[running]) \in Seq(UndrainedFrames)
  BY DEF TypeOK, Undrained
<1>1. CASE ObjectStep /\ UNCHANGED <<poolVars, association>>
  <2>1. \/ UNCHANGED stack
        \/ \E o \in Ids : ReleaseThen(o, stack[running])
        \/ stack[running] # <<>> /\ Continue(Tail(stack[running]))
    BY <1>1 DEF ObjectStep, Alloc, Retain, Release, SuperDealloc, SwitchTo, taskVars
  <2>2. UNCHANGED poolStack
    BY <1>1 DEF poolVars
  <2> QED BY <1>0, <2>1, <2>2, UndrainedSame, UndrainedCall
<1>2. CASE WeakStep /\ UNCHANGED <<poolVars, association>>
  <2>1. UNCHANGED <<stack, poolStack>>
    BY <1>2 DEF WeakStep, StoreWeak, InitWeak, CopyWeak, MoveWeak, DestroyWeak,
                LoadWeakRetained, taskVars, poolVars
  <2> QED BY <2>1, UndrainedSame
<1>3. CASE HostStep
  <2>1. stack[running] # <<>> /\ Head(stack[running]).kind # "drain"
    BY <1>0, <1>3 DEF HostStep, UndrainedFrames
  <2>2. Continue(Tail(stack[running])) /\ UNCHANGED poolStack
    BY <1>3, <2>1 DEF HostStep, DrainNextPool, DrainNextObject, DrainDone, AssociateNew,
                      poolVars
  <2> QED BY <1>0, <2>1, <2>2, UndrainedCall
<1>4. CASE UNCHANGED vars
  BY <1>4, UndrainedSame DEF vars, taskVars, poolVars
<1> QED BY <1>1, <1>2, <1>3, <1>4, UndrainedGuest DEF Next

LEMMA UndrainedInit == ASSUME Init PROVE Undrained
<1>1. <<>> \in Seq(UndrainedFrames)
  OBVIOUS
<1> QED BY <1>1 DEF Init, ObjectsInit, Undrained

\* Nothing is freed by a drain, then.
LEMMA UndrainedFrees ==
    ASSUME TypeOK, Undrained, NEW p PROVE ~ PoolFreed(p)
<1>1. stack[running] \in Seq(UndrainedFrames)
  BY DEF TypeOK, Undrained
<1>2. stack[running] # <<>> => Head(stack[running]) \in UndrainedFrames
  BY <1>1
<1> QED BY <1>2 DEF PoolFreed, UndrainedFrames

\* The last release of an object sends -dealloc, once, and the object stays in
\* the table, without a count, while it runs: a resurrection is impossible
\* (ReleaseThen, Increment).  It needs no pool that is freed while a -dealloc
\* of it runs: the program is lawful, or it drains no pools.
THEOREM DeallocatedOnce ==
    ASSUME LawfulProgram \/ Undraining PROVE Spec => []DeallocOnce
<1>1. TypeOK /\ DyingInv => DeallocOnce
  BY DyingOnce
<1>2. CASE LawfulProgram
  <2>1. CountInv => TypeOK /\ DyingInv
    BY DEF CountInv
  <2>2. Spec => []CountInv
    BY <1>2, CountInvariant
  <2> QED BY <1>1, <2>1, <2>2, PTL
<1>3. CASE Undraining
  <2>1. Init => DyingInv /\ Undrained
    BY DyingInit, UndrainedInit
  <2>2. TypeOK /\ DyingInv /\ Undrained /\ [Next]_vars => DyingInv' /\ Undrained'
    BY <1>3, UndrainedNext, UndrainedFrees, DyingNext
  <2> QED BY <1>1, <2>1, <2>2, TypeCorrect, PTL DEF Spec
<1> QED BY <1>2, <1>3

-----------------------------------------------------------------------------
(***************************************************************************)
(* What the invariant says of the tables themselves.                       *)
(***************************************************************************)
\* The places of a pool, named by the level of the call.
Holding(p) == {x \in Tasks \X Nat \X Nat : x[3] \in 1 .. Len(PoolsAt(x[1], x[2]))
                                             /\ PoolsAt(x[1], x[2])[x[3]] = p}

\* A pool on a stack of pools is at level 0.
LEMMA StackPlace ==
    ASSUME TypeOK, NEW p, NEW y \in OnStacks(p)
    PROVE  /\ y = <<y[1], y[2]>> /\ y[1] \in Tasks
           /\ <<y[1], 0, y[2]>> \in Holding(p)
<1>1. PICK t \in Tasks : y \in {t} \X {i \in DOMAIN poolStack[t] : poolStack[t][i] = p}
  BY DEF OnStacks, Entries
<1>2. y = <<t, y[2]>> /\ y[1] = t /\ y[2] \in DOMAIN poolStack[t] /\ poolStack[t][y[2]] = p
  BY <1>1
<1>3. poolStack[t] \in Seq(Ids) /\ PoolsAt(t, 0) = poolStack[t]
  BY DEF TypeOK, PoolsAt
<1>4. y[2] \in 1 .. Len(PoolsAt(t, 0)) /\ y[2] \in Nat
  BY <1>2, <1>3
<1> QED BY <1>2, <1>3, <1>4 DEF Holding

\* A pool in a drain is at the level of the drain.
LEMMA DrainPlace ==
    ASSUME TypeOK, NEW p, NEW y \in InDrains(p)
    PROVE  /\ y = <<<<y[1][1], y[1][2]>>, y[2]>> /\ y[1][1] \in Tasks
           /\ y[1][2] \in 1 .. Len(stack[y[1][1]]) /\ Len(stack[y[1][1]]) \in Nat
           /\ <<y[1][1], Len(stack[y[1][1]]) + 1 - y[1][2], y[2]>> \in Holding(p)
<1>1. PICK c \in CallsOf("drain") :
          y \in {c} \X {i \in DOMAIN CallAt(c).pools : CallAt(c).pools[i] = p}
  BY DEF InDrains, Entries
<1>2. y = <<c, y[2]>> /\ y[1] = c /\ y[2] \in DOMAIN CallAt(c).pools /\ CallAt(c).pools[y[2]] = p
  BY <1>1
<1>3. PICK t \in Tasks : c \in {t} \X DOMAIN stack[t]
  BY DEF CallsOf, CallPlaces
<1>4. c = <<t, c[2]>> /\ c[1] = t /\ c[2] \in DOMAIN stack[t]
  BY <1>3
<1>5. PICK k : k = c[2]
  OBVIOUS
<1>6. stack[t] \in Seq(FrameType)
  BY DEF TypeOK
<1>7. k \in 1 .. Len(stack[t]) /\ Len(stack[t]) \in Nat
  BY <1>4, <1>5, <1>6
<1>8. PICK d \in Nat : d = Len(stack[t]) + 1 - k
  <2>1. \A n \in Nat : \A i \in 1 .. n : n + 1 - i \in Nat
    OBVIOUS
  <2>2. Len(stack[t]) + 1 - k \in Nat
    BY <1>7, <2>1
  <2> QED BY <2>2
<1>9. d \in 1 .. Len(stack[t]) /\ Len(stack[t]) + 1 - d = k
  BY <1>7, <1>8
<1>10. Level(stack[t], d) = stack[t][k] /\ d # 0
  BY <1>9 DEF Level
<1>11. stack[t][k].kind = "drain" /\ CallAt(c) = stack[t][k]
  BY <1>4, <1>5 DEF CallsOf, CallAt
<1>12. PoolsAt(t, d) = CallAt(c).pools
  BY <1>10, <1>11 DEF PoolsAt, PoolsOf
<1>13. PoolsAt(t, d) \in Seq(Ids)
  BY <1>8, PoolsType
<1>14. y[2] \in 1 .. Len(PoolsAt(t, d)) /\ y[2] \in Nat
  BY <1>2, <1>12, <1>13
<1>15. <<t, d, y[2]>> \in Holding(p)
  BY <1>2, <1>12, <1>14 DEF Holding
<1> QED BY <1>2, <1>4, <1>5, <1>7, <1>8, <1>15

LEMMA StackedIsPending ==
    ASSUME TypeOK, NEW p PROVE p \in PendingPools => Pending(p)
<1>1. ASSUME NEW x \in Holding(p) PROVE Pending(p)
  BY DEF Holding, Pending
<1>2. ASSUME NEW y \in OnStacks(p) PROVE Pending(p)
  BY <1>1, StackPlace
<1>3. ASSUME NEW y \in InDrains(p) PROVE Pending(p)
  BY <1>1, DrainPlace
<1> QED BY <1>2, <1>3 DEF PendingPools

LEMMA PendingIsStacked ==
    ASSUME TypeOK, NEW p, Pending(p) PROVE p \in PendingPools
<1>1. PICK t \in Tasks, d \in Nat : \E i \in 1 .. Len(PoolsAt(t, d)) : PoolsAt(t, d)[i] = p
  BY DEF Pending
<1>2. PICK i \in 1 .. Len(PoolsAt(t, d)) : PoolsAt(t, d)[i] = p
  BY <1>1
<1>3. PoolsAt(t, d) \in Seq(Ids)
  BY PoolsType
<1>4. p \in Ids /\ i \in DOMAIN PoolsAt(t, d)
  BY <1>2, <1>3
<1>5. CASE d = 0
  <2>1. <<t, i>> \in Entries(t, poolStack[t], p)
    BY <1>2, <1>4, <1>5 DEF Entries, PoolsAt
  <2> QED BY <1>4, <2>1 DEF OnStacks, PendingPools
<1>6. CASE d # 0
  <2>1. PoolsAt(t, d) = PoolsOf(Level(stack[t], d))
    BY <1>6 DEF PoolsAt
  <2>2. d \in 1 .. Len(stack[t])
    BY <1>2, <1>3, <2>1, BlankFrame DEF Level
  <2>3. Level(stack[t], d) = stack[t][Len(stack[t]) + 1 - d]
    BY <2>2 DEF Level
  <2>4. Len(stack[t]) \in Nat /\ stack[t] \in Seq(FrameType)
    BY DEF TypeOK
  <2>5. PICK k \in DOMAIN stack[t] : k = Len(stack[t]) + 1 - d
    BY <2>2, <2>4
  <2>6. stack[t][k].kind = "drain" /\ PoolsAt(t, d) = stack[t][k].pools
    BY <1>2, <1>3, <2>1, <2>3, <2>5 DEF PoolsOf
  <2>7. <<t, k>> \in CallsOf("drain") /\ CallAt(<<t, k>>) = stack[t][k]
    BY <2>5, <2>6 DEF CallsOf, CallPlaces, CallAt
  <2>8. <<<<t, k>>, i>> \in Entries(<<t, k>>, CallAt(<<t, k>>).pools, p)
    BY <1>2, <1>4, <2>6, <2>7 DEF Entries
  <2> QED BY <1>4, <2>7, <2>8 DEF InDrains, PendingPools
<1> QED BY <1>5, <1>6

\* A pool in use is in one place.
LEMMA OnePlace ==
    ASSUME TypeOK, PoolsOnce, NEW p \in PendingPools
    PROVE  Cardinality(OnStacks(p)) + Cardinality(InDrains(p)) = 1
<1>1. ASSUME NEW x \in Holding(p), NEW y \in Holding(p)
      PROVE  x[1] = y[1] /\ x[2] = y[2] /\ x[3] = y[3]
  BY DEF Holding, PoolsOnce
<1>2. ASSUME NEW x \in OnStacks(p), NEW y \in OnStacks(p) PROVE x = y
  <2>1. <<x[1], 0, x[2]>> \in Holding(p) /\ <<y[1], 0, y[2]>> \in Holding(p)
    BY StackPlace
  <2>2. x[1] = y[1] /\ x[2] = y[2]
    BY <1>1, <2>1
  <2>3. x = <<x[1], x[2]>> /\ y = <<y[1], y[2]>>
    BY StackPlace
  <2> QED BY <2>2, <2>3
<1>3. ASSUME NEW x \in InDrains(p), NEW y \in InDrains(p) PROVE x = y
  <2> DEFINE dx == Len(stack[x[1][1]]) + 1 - x[1][2]
             dy == Len(stack[y[1][1]]) + 1 - y[1][2]
  <2>1. <<x[1][1], dx, x[2]>> \in Holding(p) /\ <<y[1][1], dy, y[2]>> \in Holding(p)
    BY DrainPlace
  <2>2. x[1][1] = y[1][1] /\ dx = dy /\ x[2] = y[2]
    <3> HIDE DEF dx, dy
    <3> QED BY <1>1, <2>1
  <2>3. /\ x[1][2] \in 1 .. Len(stack[x[1][1]]) /\ Len(stack[x[1][1]]) \in Nat
        /\ y[1][2] \in 1 .. Len(stack[y[1][1]])
    BY DrainPlace
  <2>4. x[1][2] = y[1][2]
    <3>1. PICK n \in Nat : n = Len(stack[x[1][1]]) /\ n = Len(stack[y[1][1]])
      BY <2>2, <2>3
    <3>2. n + 1 - x[1][2] = n + 1 - y[1][2]
      BY <2>2, <3>1
    <3>3. \A i, j \in 1 .. n : n + 1 - i = n + 1 - j => i = j
      OBVIOUS
    <3> HIDE DEF dx, dy
    <3> QED BY <2>3, <3>1, <3>2, <3>3
  <2>5. x = <<<<x[1][1], x[1][2]>>, x[2]>> /\ y = <<<<y[1][1], y[1][2]>>, y[2]>>
    BY DrainPlace
  <2> QED BY <2>2, <2>4, <2>5
<1>4. ASSUME NEW x \in OnStacks(p), NEW y \in InDrains(p) PROVE FALSE
  <2>1. /\ <<x[1], 0, x[2]>> \in Holding(p)
        /\ <<y[1][1], Len(stack[y[1][1]]) + 1 - y[1][2], y[2]>> \in Holding(p)
    BY StackPlace, DrainPlace
  <2>2. 0 = Len(stack[y[1][1]]) + 1 - y[1][2]
    BY <1>1, <2>1
  <2>3. y[1][2] \in 1 .. Len(stack[y[1][1]]) /\ Len(stack[y[1][1]]) \in Nat
    BY DrainPlace
  <2> QED BY <2>2, <2>3
<1>5. CASE OnStacks(p) # {}
  <2>1. PICK x : x \in OnStacks(p)
    BY <1>5
  <2>2. OnStacks(p) = {x} /\ InDrains(p) = {}
    BY <1>2, <1>4, <2>1
  <2>3. Cardinality(OnStacks(p)) = 1 /\ Cardinality(InDrains(p)) = 0
    BY <2>2, FS_Singleton, FS_EmptySet
  <2> QED BY <2>3
<1>6. CASE OnStacks(p) = {} /\ InDrains(p) # {}
  <2>1. PICK x : x \in InDrains(p)
    BY <1>6
  <2>2. InDrains(p) = {x}
    BY <1>3, <2>1
  <2>3. Cardinality(InDrains(p)) = 1 /\ Cardinality(OnStacks(p)) = 0
    BY <1>6, <2>2, FS_Singleton, FS_EmptySet
  <2> QED BY <2>3
<1> QED BY <1>5, <1>6 DEF PendingPools

-----------------------------------------------------------------------------
(***************************************************************************)
(* The results, of a program that keeps to LawfulProgram.                  *)
(***************************************************************************)
\* The count of an object is the number of references that somebody has still
\* to release (HostObjectEntry::refcount): through nested drains, the -dealloc
\* methods they run, and pools drained by another thread.
THEOREM CountsExact == ASSUME LawfulProgram PROVE Spec => []RefcountExact
<1>1. CountInv => RefcountExact
  <2> SUFFICES ASSUME CountInv, NEW o \in Ids \ PendingPools PROVE refcount[o] = References(o)
    BY DEF RefcountExact
  <2>1. TypeOK /\ Sound(o)
    BY DEF CountInv, AllSound
  <2>2. ~ Pending(o)
    BY <2>1, PendingIsStacked
  <2> QED BY <2>1, <2>2, RefsAreReferences DEF Sound
<1> QED BY <1>1, CountInvariant, PTL

\* A pool is on one stack or in one drain, once, and is in the table until its
\* turn; what is in no such place holds no autoreleased object.
THEOREM PoolsKept == ASSUME LawfulProgram PROVE Spec => []PoolsConsistent
<1>1. CountInv => PoolsConsistent
  <2> SUFFICES ASSUME CountInv PROVE PoolsConsistent
    OBVIOUS
  <2>1. TypeOK /\ PoolsOnce /\ \A o \in Ids : Sound(o)
    BY DEF CountInv, AllSound
  <2>2. ASSUME NEW p \in PendingPools
        PROVE  Cardinality(OnStacks(p)) + Cardinality(InDrains(p)) = 1 /\ p \in objects
    <3>1. p \in Ids /\ Pending(p)
      BY <2>1, StackedIsPending DEF PendingPools
    <3> QED BY <2>1, <3>1, OnePlace DEF Sound
  <2>3. ASSUME NEW p \in Ids \ PendingPools PROVE poolObjects[p] = <<>>
    BY <2>1, PendingIsStacked DEF Sound
  <2> QED BY <2>2, <2>3 DEF PoolsConsistent
<1> QED BY <1>1, CountInvariant, PTL

\* A __weak variable never refers to an object that is gone: the end of an
\* object zeroes the ones that refer to it (zero_weak_references_for).
THEOREM WeakStaysAlive == ASSUME LawfulProgram PROVE Spec => []WeakAlive
<1>1. CountInv => WeakAlive
  BY DEF CountInv, AllSound, Sound, TypeOK, WeakAlive
<1> QED BY <1>1, CountInvariant, PTL

\* What the guest owns a reference to is not being deallocated (weak.rs:24-25
\* says so of what objc_loadWeakRetained returns).
THEOREM OwnedStaysRetained == ASSUME LawfulProgram PROVE Spec => []OwnedIsRetained
<1>1. CountInv => OwnedIsRetained
  <2> SUFFICES ASSUME CountInv, NEW o \in Ids, held[o] > 0 PROVE refcount[o] > 0
    BY DEF OwnedIsRetained
  <2>1. TypeOK /\ Sound(o)
    BY DEF CountInv, AllSound
  <2>2. Refs(o) > 0
    <3>1. /\ held[o] \in Nat /\ Kept(o) \in Nat /\ Cardinality(Unreleased(o)) \in Nat
          /\ Cardinality(Associated(o)) \in Nat
      BY <2>1, RefsType DEF Sound
    <3> QED BY <3>1 DEF Refs
  <2> QED BY <2>1, <2>2 DEF Sound
<1> QED BY <1>1, CountInvariant, PTL

\* A retained associated object is not overwritten but released (objc.rs:168).
THEOREM OverwrittenReleased == ASSUME LawfulProgram PROVE Spec => OverwrittenIsReleased
<1>1. CountInv /\ [Next]_vars =>
          [\A o \in Ids : association[o].retained =>
               association'[o] \in {association[o], NoAssociation}]_vars
  <2> SUFFICES ASSUME CountInv, Next, NEW o \in Ids, association[o].retained
               PROVE  association'[o] \in {association[o], NoAssociation}
    OBVIOUS
  <2>0. association \in [Ids -> NewAssociations] /\ TypeOK /\ Atomic
    BY DEF CountInv, TypeOK
  <2>1. CASE UNCHANGED association
    BY <2>1
  <2>2. ASSUME NEW x \in Ids, NEW frames, DropAssociation(x, frames)
        PROVE  association'[o] \in {association[o], NoAssociation}
    BY <2>0, <2>2 DEF DropAssociation
  <2>3. ASSUME stack[running] # <<>>, AssociateNew(Head(stack[running]))
        PROVE  association'[o] \in {association[o], NoAssociation}
    <3> DEFINE f == Head(stack[running])
    <3>1. f \in FrameType /\ f.kind = "associate" /\ running \in Tasks
      BY <2>0, <2>3, TopType DEF AssociateNew, TypeOK
    <3>2. ~ GuestDealloc
      <4>1. GuestDealloc => f \in OtherFrames
        BY <2>0, <2>3, <3>1 DEF Atomic
      <4> QED BY <3>1, <4>1 DEF OtherFrames
    <3>3. stack[running] = <<f>> /\ Entering(f)
      BY <2>0, <2>3, <3>1, <3>2 DEF Atomic
    <3>4. association[f.of] = NoAssociation
      BY <3>1, <3>3 DEF Entering
    <3> HIDE DEF f
    <3>5. f.of # o
      BY <3>4 DEF NoAssociation
    <3>6. UNCHANGED association \/ association' = [association EXCEPT ![f.of] = f.new]
      BY <2>3 DEF AssociateNew, f
    <3> QED BY <2>0, <3>5, <3>6
  <2>4. CASE HostStep
    BY <2>1, <2>3, <2>4 DEF HostStep, DrainNextPool, DrainNextObject, DrainDone
  <2>5. CASE GuestStep
    BY <2>1, <2>2, <2>5 DEF GuestStep, NewPool, Autorelease, DrainPool, LoadWeak,
                            RemoveAssociatedObjects, SetAssociatedObject
  <2> QED BY <2>1, <2>4, <2>5 DEF Next
<1> QED BY <1>1, CountInvariant, PTL DEF Spec, OverwrittenIsReleased
=============================================================================
