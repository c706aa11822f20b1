---------------------------- MODULE ObjcRuntime ----------------------------
(***************************************************************************)
(* What keeps references to objects on the guest's behalf: autorelease     *)
(* pools (src/src/frameworks/foundation/ns_autorelease_pool.rs) and        *)
(* associated objects (src/src/objc.rs); and the specification of the      *)
(* object runtime as a whole.                                              *)
(***************************************************************************)
EXTENDS Objects, SequencesExt

CONSTANTS
    MaxPool,  \* bound on the objects in one pool
    MaxPools  \* bound on the pools of one thread

ASSUME RuntimeAssumption == MaxPool \in Nat /\ MaxPools \in Nat

VARIABLES
    poolStack,   \* State::pool_stacks
    poolObjects, \* NSAutoreleasePoolHostObject::objects
    leaked,      \* history variable: references autoreleased without a pool
    association  \* ObjC::associated_objects, for one key

poolVars == <<poolStack, poolObjects, leaked>>

vars == <<tableVars, weakVars, taskVars, held, poolVars, association>>

NoAssociation == [value |-> Nil, retained |-> FALSE]

\* The drain of a pool: what it has still to release, and the pools that it
\* goes on with, from the top of the stack down to the one that was released.
DrainFrame(remaining, pools) ==
    [kind |-> "drain", remaining |-> remaining, pools |-> pools]

\* objc_setAssociatedObject, while the old value is released.
AssociateFrame(o, new) == [kind |-> "associate", of |-> o, new |-> new]

Init ==
    /\ ObjectsInit
    /\ poolStack = [t \in Tasks |-> <<>>]
    /\ poolObjects = [p \in Ids |-> <<>>]
    /\ leaked = [o \in Ids |-> 0]
    /\ association = [o \in Ids |-> NoAssociation]

-----------------------------------------------------------------------------
(***************************************************************************)
(* Autorelease pools.                                                      *)
(***************************************************************************)
\* [[NSAutoreleasePool alloc] init].
NewPool(p) ==
    /\ Calls("new_pool")
    /\ Len(poolStack[running]) < MaxPools
    /\ Register(p)
    /\ poolStack' = [poolStack EXCEPT ![running] = Append(@, p)]
    /\ UNCHANGED <<weakVars, taskVars, held, poolObjects, leaked, association>>

\* +[NSAutoreleasePool addObject:]; without a pool the object is leaked.
AddObject(o) ==
    IF poolStack[running] = <<>>
    THEN /\ leaked[o] < MaxRefs
         /\ leaked' = [leaked EXCEPT ![o] = @ + 1]
         /\ UNCHANGED <<poolStack, poolObjects>>
    ELSE /\ Len(poolObjects[Last(poolStack[running])]) < MaxPool
         /\ poolObjects' = [poolObjects EXCEPT ![Last(poolStack[running])] =
                                Append(@, o)]
         /\ UNCHANGED <<poolStack, leaked>>

Autorelease(o) ==
    /\ Calls("autorelease")
    /\ GiveUp(o)
    /\ AddObject(o)
    /\ UNCHANGED <<tableVars, weakVars, taskVars, association>>

\* objc_loadWeak: the object is retained and autoreleased.
LoadWeak(s) ==
    /\ Calls("load_weak")
    /\ slot[s] # Nil
    /\ Increment(slot[s])
    /\ AddObject(slot[s])
    /\ UNCHANGED <<objects, weakVars, taskVars, held, association>>

\* Mutant: the pools above p are drained with it, but only p is popped.
DrainPoolRemoves(p, t) ==
    /\ Calls("drain")
    /\ t = running \/ "drain_elsewhere" \in Calling
    /\ \E i \in DOMAIN poolStack[t] :
        /\ poolStack[t][i] = p
        /\ Continue(<<DrainFrame(<<>>, Reverse(SubSeq(poolStack[t], i,
                                                      Len(poolStack[t]))))>>
                    \o stack[running])
    /\ poolStack' = [poolStack EXCEPT ![t] = Remove(@, p)]
    /\ refcount' = [refcount EXCEPT ![p] = 0]
    /\ UNCHANGED <<objects, weakVars, running, held, poolObjects, leaked,
                   association>>

\* The last release of pool p, of thread t: p and the pools above it leave
\* the stack of t, which should be the running thread.
DrainPool(p, t) ==
    /\ Calls("drain")
    /\ t = running \/ "drain_elsewhere" \in Calling
    /\ \E i \in DOMAIN poolStack[t] :
        /\ poolStack[t][i] = p
        /\ poolStack' = [poolStack EXCEPT ![t] = SubSeq(@, 1, i - 1)]
        /\ Continue(<<DrainFrame(<<>>, Reverse(SubSeq(poolStack[t], i,
                                                      Len(poolStack[t]))))>>
                    \o stack[running])
    /\ refcount' = [refcount EXCEPT ![p] = 0]
    /\ UNCHANGED <<objects, weakVars, running, held, poolObjects, leaked,
                   association>>

\* Mutant: the objects are released while they are still in the pool.
DrainNextPoolKeeps(frame) ==
    /\ frame.kind = "drain" /\ frame.remaining = <<>> /\ frame.pools # <<>>
    /\ DeallocObject(Head(frame.pools))
    /\ Continue(<<DrainFrame(poolObjects[Head(frame.pools)], Tail(frame.pools))>>
                \o Tail(stack[running]))
    /\ UNCHANGED <<running, held, poolVars, association>>

\* take(objects), then dealloc_object of the pool.
DrainNextPool(frame) ==
    /\ frame.kind = "drain" /\ frame.remaining = <<>> /\ frame.pools # <<>>
    /\ poolObjects' = [poolObjects EXCEPT ![Head(frame.pools)] = <<>>]
    /\ DeallocObject(Head(frame.pools))
    /\ Continue(<<DrainFrame(poolObjects[Head(frame.pools)], Tail(frame.pools))>>
                \o Tail(stack[running]))
    /\ UNCHANGED <<running, held, poolStack, leaked, association>>

DrainNextObject(frame) ==
    /\ frame.kind = "drain" /\ frame.remaining # <<>>
    /\ ReleaseThen(Head(frame.remaining),
                   <<DrainFrame(Tail(frame.remaining), frame.pools)>>
                       \o Tail(stack[running]))
    /\ UNCHANGED <<running, held, poolVars, association>>

DrainDone(frame) ==
    /\ frame.kind = "drain" /\ frame.remaining = <<>> /\ frame.pools = <<>>
    /\ Continue(Tail(stack[running]))
    /\ UNCHANGED <<tableVars, weakVars, running, held, poolVars, association>>

-----------------------------------------------------------------------------
(***************************************************************************)
(* Associated objects.                                                     *)
(***************************************************************************)
\* The association of o is removed, and its value released if it was retained,
\* by a call that goes on as `frames`.
DropAssociation(o, frames) ==
    /\ association' = [association EXCEPT ![o] = NoAssociation]
    /\ IF association[o].retained
       THEN ReleaseThen(association[o].value, frames)
       ELSE Continue(frames) /\ UNCHANGED <<tableVars, weakVars>>
    /\ UNCHANGED <<running, held, poolVars>>

SetAssociatedObject(o, new) ==
    /\ Calls("associate")
    /\ held[o] > 0 /\ Storable(new.value)
    /\ DropAssociation(o, <<AssociateFrame(o, new)>> \o stack[running])

\* The rest of it: the new value, unless it is nil, is retained and entered.
AssociateNew(frame) ==
    /\ frame.kind = "associate"
    /\ IF frame.new.value = Nil THEN UNCHANGED <<refcount, association>>
       ELSE /\ IF frame.new.retained THEN Increment(frame.new.value)
                                     ELSE UNCHANGED refcount
            /\ association' = [association EXCEPT ![frame.of] = frame.new]
    /\ Continue(Tail(stack[running]))
    /\ UNCHANGED <<objects, weakVars, running, held, poolVars>>

RemoveAssociatedObjects(o) ==
    /\ Calls("associate")
    /\ held[o] > 0
    /\ DropAssociation(o, stack[running])

-----------------------------------------------------------------------------
HostStep ==
    /\ stack[running] # <<>>
    /\ LET frame == Head(stack[running]) IN
       \/ DrainNextPool(frame)
       \/ DrainNextObject(frame)
       \/ DrainDone(frame)
       \/ AssociateNew(frame)

NewAssociations == [value : Ids, retained : BOOLEAN] \cup {NoAssociation}

GuestStep ==
    \/ \E p \in Ids : NewPool(p) \/ Autorelease(p)
    \/ \E p \in Ids, t \in Tasks : DrainPool(p, t)
    \/ \E s \in Slots : LoadWeak(s)
    \/ \E o \in Ids : \/ RemoveAssociatedObjects(o)
                      \/ \E new \in NewAssociations : SetAssociatedObject(o, new)

Next ==
    \/ ObjectStep /\ UNCHANGED <<poolVars, association>>
    \/ WeakStep /\ UNCHANGED <<poolVars, association>>
    \/ HostStep
    \/ GuestStep

Spec == Init /\ [][Next]_vars

-----------------------------------------------------------------------------
(***************************************************************************)
(* Properties.                                                             *)
(***************************************************************************)
\* The unfinished calls of all threads, by their places.
CallPlaces == UNION {{t} \X DOMAIN stack[t] : t \in Tasks}

CallAt(place) == stack[place[1]][place[2]]

CallsOf(kind) == {place \in CallPlaces : CallAt(place).kind = kind}

FrameType ==
    [kind : {"dealloc"}, of : Ids]
        \cup [kind : {"drain"}, remaining : Seq(Ids), pools : Seq(Ids)]
        \cup [kind : {"associate"}, of : Ids, new : NewAssociations]

\* Every variable has its type; an id that is not in the table has no count.
TypeOK ==
    /\ running \in Tasks
    /\ stack \in [Tasks -> Seq(FrameType)]
    /\ objects \subseteq Ids
    /\ refcount \in [Ids -> Nat]
    /\ \A o \in Ids \ objects : refcount[o] = 0
    /\ slot \in [Slots -> Ids \cup {Nil}]
    /\ weakRefs \in [Ids -> [Slots -> Nat]]
    /\ held \in [Ids -> 0 .. MaxRefs]
    /\ poolStack \in [Tasks -> Seq(Ids)]
    /\ poolObjects \in [Ids -> Seq(Ids)]
    /\ leaked \in [Ids -> Nat]
    /\ association \in [Ids -> NewAssociations]

\* The places of o in a sequence of that name.
Entries(name, seq, o) == {name} \X {i \in DOMAIN seq : seq[i] = o}

\* The places of o in the pools and in what the drains have still to release,
\* and the objects that o is a retained associated object of.
Pooled(o) == UNION {Entries(p, poolObjects[p], o) : p \in Ids}
Draining(o) == UNION {Entries(d, CallAt(d).remaining, o) : d \in CallsOf("drain")}
Associated(o) == {x \in Ids : association[x].retained /\ association[x].value = o}

\* The references to o that its reference count stands for.
References(o) ==
    held[o] + leaked[o] + Cardinality(Pooled(o)) + Cardinality(Draining(o))
        + Cardinality(Associated(o))

\* The places of pool p on the stacks of pools and in the drains.
OnStacks(p) == UNION {Entries(t, poolStack[t], p) : t \in Tasks}
InDrains(p) == UNION {Entries(d, CallAt(d).pools, p) : d \in CallsOf("drain")}

PendingPools == {p \in Ids : OnStacks(p) # {} \/ InDrains(p) # {}}

\* The reference count of an object is the number of references that somebody
\* has still to release: through nested drains, the -dealloc methods they
\* run, and pools drained by another thread, none is released twice or lost.
RefcountExact ==
    \A o \in Ids \ PendingPools : refcount[o] = References(o)

\* A pool is on one stack or in one drain, once, and is not freed before its
\* turn; an object in no such pool holds nothing for the next thread's pool.
PoolsConsistent ==
    /\ \A p \in PendingPools :
        /\ Cardinality(OnStacks(p)) + Cardinality(InDrains(p)) = 1
        /\ p \in objects
    /\ \A p \in Ids \ PendingPools : poolObjects[p] = <<>>

\* The side table lists a __weak variable once, under the object it refers to.
WeakTableExact ==
    \A o \in Ids, s \in Slots : weakRefs[o][s] = IF slot[s] = o THEN 1 ELSE 0

\* No __weak variable refers to an object that is gone.
WeakAlive == \A s \in Slots : slot[s] = Nil \/ slot[s] \in objects

\* The last release of an object sends -dealloc, once, and the object stays in
\* the table while it runs, whatever guest code does to it meanwhile.
DeallocOnce ==
    \A o \in Ids :
        Cardinality({d \in CallsOf("dealloc") : CallAt(d).of = o}) <=
            IF o \in objects /\ refcount[o] = 0 THEN 1 ELSE 0

\* "objc_loadWeakRetained(location) returns *location retained (or nil if the
\* referent has already been deallocated)" (weak.rs:24-25): an object the
\* guest owns a reference to is not being deallocated.
OwnedIsRetained == \A o \in Ids : held[o] > 0 => refcount[o] > 0

\* "the value will be released when the association is [...] removed, or the
\* object is deallocated" (objc.rs:168-169): an object that is gone has no
\* association that holds a reference.
AssociationsEnd ==
    \A o \in Ids : association[o].retained => o \in objects

\* "the value will be released when the association is overwritten"
\* (objc.rs:168-169): no step enters a value over a retained one, which only
\* DropAssociation releases.
OverwrittenIsReleased ==
    [][\A o \in Ids : association[o].retained =>
           association'[o] \in {association[o], NoAssociation}]_vars
=============================================================================
