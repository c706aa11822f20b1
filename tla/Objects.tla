------------------------------ MODULE Objects ------------------------------
(***************************************************************************)
(* The object table of the Objective-C runtime: ObjC::objects              *)
(* (src/src/objc/objects.rs), reference counts and ARC's zeroing weak      *)
(* references (src/src/objc/weak.rs).                                      *)
(*                                                                         *)
(* Calls are made by guest threads that take turns.  A host function is    *)
(* not interrupted until it calls back into the guest; what a thread has   *)
(* still to do when that happens is its `stack` of frames.  The last       *)
(* release of an object sends it -dealloc, which the guest may override,   *)
(* so that between the last release and the end of the object guest code   *)
(* of any thread runs.                                                     *)
(***************************************************************************)
EXTENDS Naturals, Sequences, FiniteSets

CONSTANTS
    Ids,          \* addresses of objects; a freed one may be allocated again
    Nil,          \* nil
    Slots,        \* the guest's __weak variables
    Tasks,        \* guest threads
    MaxDepth,     \* bound on the unfinished calls of one thread that makes more
    MaxRefs,      \* bound on the references of one kind to one object
    GuestDealloc, \* some classes of the guest override -dealloc
    Calling       \* the calls this guest program makes

ASSUME ObjectsAssumption ==
    /\ Nil \notin Ids
    /\ MaxRefs \in Nat \ {0}
    /\ MaxDepth \in Nat
    /\ GuestDealloc \in BOOLEAN

VARIABLES
    running,   \* Environment::current_thread
    stack,     \* of each thread, its unfinished calls, the innermost first
    objects,   \* the keys of ObjC::objects
    refcount,  \* HostObjectEntry::refcount, 0 for None
    slot,      \* guest memory: the value of each __weak variable
    weakRefs,  \* ObjC::weak_refs: how often each list holds each slot
    held       \* history variable: the references guest code owns

tableVars == <<objects, refcount>>
weakVars  == <<slot, weakRefs>>
taskVars  == <<running, stack>>

Unregistered == [s \in Slots |-> 0]

ObjectsInit ==
    /\ running \in Tasks
    /\ stack = [t \in Tasks |-> <<>>]
    /\ objects = {}
    /\ refcount = [o \in Ids |-> 0]
    /\ slot = [s \in Slots |-> Nil]
    /\ weakRefs = [o \in Ids |-> Unregistered]
    /\ held = [o \in Ids |-> 0]

\* The guest's own -dealloc of object o runs.
DeallocFrame(o) == [kind |-> "dealloc", of |-> o]

GuestRuns == stack[running] # <<>> => Head(stack[running]).kind = "dealloc"

Calls(op) == GuestRuns /\ Len(stack[running]) < MaxDepth /\ op \in Calling

\* The call in progress goes on as `frames`.
Continue(frames) == stack' = [stack EXCEPT ![running] = frames]

-----------------------------------------------------------------------------
(***************************************************************************)
(* Objects.                                                                *)
(***************************************************************************)
Register(o) ==
    /\ o \notin objects
    /\ objects' = objects \cup {o}
    /\ refcount' = [refcount EXCEPT ![o] = 1]

\* Mutant: the weak references are not zeroed.
DeallocObjectOnly(o) ==
    /\ objects' = objects \ {o}
    /\ refcount' = [refcount EXCEPT ![o] = 0]
    /\ UNCHANGED weakVars

\* zero_weak_references_for, then the entry and the memory go.
DeallocObject(o) ==
    /\ slot' = [s \in Slots |-> IF weakRefs[o][s] > 0 /\ slot[s] = o THEN Nil
                                                                     ELSE slot[s]]
    /\ weakRefs' = [weakRefs EXCEPT ![o] = Unregistered]
    /\ objects' = objects \ {o}
    /\ refcount' = [refcount EXCEPT ![o] = 0]

\* -[NSObject release] by a call that goes on as `frames`.  The last one sends
\* -dealloc: the guest's own, or at once -[NSObject dealloc].  An object whose
\* count is None is left alone.
ReleaseThen(o, frames) ==
    \/ /\ refcount[o] > 1
       /\ refcount' = [refcount EXCEPT ![o] = @ - 1]
       /\ Continue(frames)
       /\ UNCHANGED <<objects, weakVars>>
    \/ /\ refcount[o] = 1
       /\ GuestDealloc
       /\ refcount' = [refcount EXCEPT ![o] = 0]
       /\ Continue(<<DeallocFrame(o)>> \o frames)
       /\ UNCHANGED <<objects, weakVars>>
    \/ /\ refcount[o] = 1
       /\ DeallocObject(o)
       /\ Continue(frames)
    \/ /\ refcount[o] = 0
       /\ Continue(frames)
       /\ UNCHANGED <<tableVars, weakVars>>

\* Mutant: an object that is being deallocated comes back.
IncrementRevives(o) == refcount' = [refcount EXCEPT ![o] = @ + 1]

\* increment_refcount: None stays None.
Increment(o) ==
    refcount' = [refcount EXCEPT ![o] = IF @ > 0 THEN @ + 1 ELSE @]

Hold(o) == held[o] < MaxRefs /\ held' = [held EXCEPT ![o] = @ + 1]

GiveUp(o) == held[o] > 0 /\ held' = [held EXCEPT ![o] = @ - 1]

-----------------------------------------------------------------------------
(***************************************************************************)
(* The calls of the guest, which retains and releases what it owns.        *)
(***************************************************************************)
Alloc(o) ==
    /\ Calls("alloc")
    /\ Register(o)
    /\ Hold(o)
    /\ UNCHANGED <<weakVars, taskVars>>

Retain(o) ==
    /\ Calls("retain")
    /\ held[o] > 0
    /\ Increment(o)
    /\ Hold(o)
    /\ UNCHANGED <<objects, weakVars, taskVars>>

Release(o) ==
    /\ Calls("release")
    /\ GiveUp(o)
    /\ ReleaseThen(o, stack[running])
    /\ UNCHANGED running

\* The guest's -dealloc calls [super dealloc], which ends in dealloc_object.
SuperDealloc ==
    /\ stack[running] # <<>>
    /\ Head(stack[running]).kind = "dealloc"
    /\ DeallocObject(Head(stack[running]).of)
    /\ Continue(Tail(stack[running]))
    /\ UNCHANGED <<running, held>>

\* The thread in guest code is preempted or blocks.
SwitchTo(t) ==
    /\ GuestRuns
    /\ t # running
    /\ running' = t
    /\ UNCHANGED <<stack, tableVars, weakVars, held>>

ObjectStep ==
    \/ \E o \in Ids : Alloc(o) \/ Retain(o) \/ Release(o)
    \/ SuperDealloc
    \/ \E t \in Tasks : SwitchTo(t)

-----------------------------------------------------------------------------
(***************************************************************************)
(* Weak references.                                                        *)
(***************************************************************************)
\* The tables after s is taken out of the list of o, or put into it.
Unregister(refs, o, s) ==
    IF o = Nil THEN refs ELSE [refs EXCEPT ![o][s] = 0]

RegisterWeak(refs, o, s) ==
    IF o = Nil THEN refs ELSE [refs EXCEPT ![o][s] = @ + 1]

\* A value the guest may store: nil, or an object it owns.
Storable(o) == o = Nil \/ (o \in Ids /\ held[o] > 0)

\* Mutant: the variable stays in the list of the object it referred to.
StoreWeakOnly(s, o) ==
    /\ Calls("store_weak")
    /\ Storable(o)
    /\ slot' = [slot EXCEPT ![s] = o]
    /\ weakRefs' = RegisterWeak(weakRefs, o, s)
    /\ UNCHANGED <<tableVars, taskVars, held>>

StoreWeak(s, o) ==
    /\ Calls("store_weak")
    /\ Storable(o)
    /\ slot' = [slot EXCEPT ![s] = o]
    /\ weakRefs' = RegisterWeak(Unregister(weakRefs, slot[s], s), o, s)
    /\ UNCHANGED <<tableVars, taskVars, held>>

\* objc_initWeak of a variable that is not in use.
InitWeak(s, o) ==
    /\ Calls("init_weak")
    /\ slot[s] = Nil
    /\ slot' = [slot EXCEPT ![s] = o]
    /\ weakRefs' = RegisterWeak(weakRefs, o, s)
    /\ UNCHANGED <<tableVars, taskVars, held>>

CopyWeak(to, from) == InitWeak(to, slot[from])

DestroyWeak(s) ==
    /\ Calls("destroy_weak")
    /\ slot' = [slot EXCEPT ![s] = Nil]
    /\ weakRefs' = Unregister(weakRefs, slot[s], s)
    /\ UNCHANGED <<tableVars, taskVars, held>>

MoveWeak(to, from) ==
    /\ Calls("move_weak")
    /\ to # from /\ slot[to] = Nil
    /\ slot' = [slot EXCEPT ![to] = slot[from], ![from] = Nil]
    /\ weakRefs' = RegisterWeak(Unregister(weakRefs, slot[from], from),
                                slot[from], to)
    /\ UNCHANGED <<tableVars, taskVars, held>>

\* The caller owns what it gets, unless that is nil.
LoadWeakRetained(s) ==
    /\ Calls("load_weak")
    /\ slot[s] # Nil
    /\ Increment(slot[s])
    /\ Hold(slot[s])
    /\ UNCHANGED <<objects, weakVars, taskVars>>

WeakStep ==
    \E s \in Slots :
        \/ \E o \in Ids \cup {Nil} :
            \/ StoreWeak(s, o)
            \/ Storable(o) /\ InitWeak(s, o)
        \/ \E from \in Slots : CopyWeak(s, from) \/ MoveWeak(s, from)
        \/ DestroyWeak(s)
        \/ LoadWeakRetained(s)
=============================================================================
