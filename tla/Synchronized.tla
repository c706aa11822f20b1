---------------------------- MODULE Synchronized ----------------------------
(***************************************************************************)
(* @synchronized blocks (src/src/objc/synchronization.rs) and the setters  *)
(* and getters of properties (src/src/objc/properties.rs): both find a     *)
(* recursive mutex by the address of an object.  Of the mutexes the module *)
(* has what Mutex says of them: one owner, and none is destroyed that is   *)
(* locked or waited for.                                                   *)
(***************************************************************************)
EXTENDS GuestCalls, Naturals, FiniteSets

CONSTANTS
    Objects,  \* the addresses of objects that have blocks and a property
    Mutexes,  \* mutex ids
    NoMutex,  \* no entry
    Nobody,   \* the owner of an unlocked mutex
    Values,   \* the addresses of values of the properties
    NoValue,  \* nil
    MaxNested \* bound on the blocks a thread nests on an object

\* init_mutex always finds an id: it counts up.
ASSUME SynchronizedAssumption ==
    /\ NoMutex \notin Mutexes \cup Threads
    /\ NoValue \notin Values
    /\ Nobody \notin Threads \cup {NoMutex}
    /\ IsFiniteSet(Objects)
    /\ IsFiniteSet(Mutexes) => Cardinality(Mutexes) >= 2 * Cardinality(Objects)

VARIABLES
    syncMutexes, \* ObjC::sync_mutexes
    propLocks,   \* ObjC::property_locks
    owner,       \* the owner of every mutex; NoMutex if it does not exist
    lockCount,   \* the lock count of every mutex
    ivar,        \* the instance variable behind the property of every object
    valueRefs,   \* reference counts of the values; 0: deallocated
    held,        \* the values the guest holds a reference to
    inside       \* history: the blocks on every object a thread is inside of

mutexVars == <<syncMutexes, propLocks, owner, lockCount>>
valueVars == <<ivar, valueRefs, held>>
syncVars == <<mutexVars, valueVars, inside>>

EnterCall(o, m) == [kind |-> "sync", stage |-> "sleep", object |-> o, mutex |-> m]

\* objc_setProperty; `mutex` is NoMutex if the property is not atomic.
SetCall(o, v, copy, m, stage) ==
    [kind |-> "set", stage |-> stage, object |-> o, value |-> v,
     copy |-> copy /\ v # NoValue, mutex |-> m, old |-> NoValue]

GetCall(m) == [kind |-> "get", stage |-> "sleep", mutex |-> m]

Waiting(m) ==
    \E th \in Threads : /\ calls[th] # <<>>
                        /\ Top(th).kind \in {"sync", "set", "get"}
                        /\ Top(th).stage = "sleep"
                        /\ Top(th).mutex = m

\* The setters of o's property that are in progress in thread th.
Setters(th, o) == {c \in Range(calls[th]) : c.kind = "set" /\ c.object = o}

SynchronizedInit ==
    /\ syncMutexes = [o \in Objects |-> NoMutex]
    /\ propLocks = [o \in Objects |-> NoMutex]
    /\ owner = [m \in Mutexes |-> NoMutex]
    /\ lockCount = [m \in Mutexes |-> 0]
    /\ ivar = [o \in Objects |-> NoValue]
    /\ valueRefs = [v \in Values |-> 0]
    /\ held = {}
    /\ inside = [th \in Threads |-> [o \in Objects |-> 0]]

-----------------------------------------------------------------------------
\* The entry of the table for o, or a mutex that init_mutex makes.
MutexOf(table, o) ==
    IF table[o] # NoMutex THEN table[o] ELSE CHOOSE m \in Mutexes : owner[m] = NoMutex

CanLock(th, m) == owner[m] \in {NoMutex, Nobody, th}

LockMutex(th, m) ==
    /\ owner' = [owner EXCEPT ![m] = th]
    /\ lockCount' = [lockCount EXCEPT ![m] = @ + 1]

UnlockMutex(m) ==
    /\ owner' = [owner EXCEPT ![m] = IF lockCount[m] = 1 THEN Nobody ELSE @]
    /\ lockCount' = [lockCount EXCEPT ![m] = @ - 1]

Enters(th, o) == inside' = [inside EXCEPT ![th][o] = @ + 1]

ObjcSyncEnter(th, o) ==
    /\ GuestRuns(th)
    /\ inside[th][o] < MaxNested
    /\ LET m == MutexOf(syncMutexes, o)
       IN IF CanLock(th, m)
          THEN /\ LockMutex(th, m)
               /\ syncMutexes' = [syncMutexes EXCEPT ![o] = m]
               /\ Enters(th, o)
               /\ UNCHANGED calls
          ELSE /\ Len(calls[th]) < MaxCalls
               /\ Enter(th, EnterCall(o, m))
               /\ UNCHANGED <<owner, lockCount, syncMutexes, inside>>
    /\ UNCHANGED <<propLocks, valueVars, host>>

\* The scheduler lets a thread through that waits for its mutex.
SyncEntered(th) ==
    /\ At(th, "sync", "sleep")
    /\ CanLock(th, Top(th).mutex)
    /\ LockMutex(th, Top(th).mutex)
    /\ Enters(th, Top(th).object)
    /\ Leave(th)
    /\ UNCHANGED <<syncMutexes, propLocks, valueVars, host>>

\* Mutant: the entry is removed although the mutex is waited for.
ForgetMutex(o) == syncMutexes' = [syncMutexes EXCEPT ![o] = NoMutex]

\* destroy_mutex fails if the mutex is waited for; then the entry stays.
DropMutex(o) ==
    syncMutexes' = IF Waiting(syncMutexes[o]) THEN syncMutexes
                   ELSE [syncMutexes EXCEPT ![o] = NoMutex]

\* The exit of a block that the thread is not in changes nothing.
ObjcSyncExit(th, o) ==
    /\ GuestRuns(th)
    /\ LET m == syncMutexes[o]
       IN /\ m # NoMutex
          /\ owner[m] = th
          /\ IF lockCount[m] = 1
             THEN /\ DropMutex(o)
                  /\ owner' = [owner EXCEPT ![m] = IF Waiting(m) THEN Nobody ELSE NoMutex]
                  /\ lockCount' = [lockCount EXCEPT ![m] = 0]
             ELSE UnlockMutex(m) /\ UNCHANGED syncMutexes
    /\ inside' = [inside EXCEPT ![th][o] = @ - 1]
    /\ UNCHANGED <<propLocks, valueVars, calls, host>>

-----------------------------------------------------------------------------
NewValue(th, v) ==
    /\ GuestRuns(th)
    /\ valueRefs[v] = 0
    /\ valueRefs' = [valueRefs EXCEPT ![v] = 1]
    /\ held' = held \cup {v}
    /\ UNCHANGED <<mutexVars, ivar, inside, calls, host>>

\* The guest keeps a value that it has passed to a setter until that returns.
ReleaseValue(th, v) ==
    /\ GuestRuns(th)
    /\ v \in held
    /\ \A c \in AllCalls : c.kind = "set" => c.value # v
    /\ valueRefs' = [valueRefs EXCEPT ![v] = @ - 1]
    /\ held' = held \ {v}
    /\ UNCHANGED <<mutexVars, ivar, inside, calls, host>>

\* objc_setProperty up to the lock.
SetProperty(th, o, v, copy, atomic) ==
    /\ CanCall(th)
    /\ v \in held \cup {NoValue}
    /\ Lawful("set_in_copy", \A c \in Setters(th, o) : c.stage # "copy")
    /\ Lawful("nonatomic_in_threads",
              ~atomic => \A u \in Threads \ {th} : Setters(u, o) = {})
    /\ Lawful("nonatomic_in_threads",
              \A u \in Threads \ {th} : \A c \in Setters(u, o) : c.mutex # NoMutex)
    /\ IF atomic
       THEN LET m == MutexOf(propLocks, o)
            IN /\ propLocks' = [propLocks EXCEPT ![o] = m]
               /\ IF CanLock(th, m)
                  THEN LockMutex(th, m) /\ Enter(th, SetCall(o, v, copy, m, "read"))
                  ELSE /\ Enter(th, SetCall(o, v, copy, m, "sleep"))
                       /\ UNCHANGED <<owner, lockCount>>
       ELSE /\ Enter(th, SetCall(o, v, copy, NoMutex, "read"))
            /\ UNCHANGED <<propLocks, owner, lockCount>>
    /\ UNCHANGED <<syncMutexes, valueVars, inside, host>>

SetterLocked(th) ==
    /\ At(th, "set", "sleep")
    /\ CanLock(th, Top(th).mutex)
    /\ LockMutex(th, Top(th).mutex)
    /\ Continue(th, [Top(th) EXCEPT !.stage = "read"])
    /\ UNCHANGED <<syncMutexes, propLocks, valueVars, inside, host>>

\* The old value is read; the new one is retained, or the guest copies it.
ReadOld(th) ==
    /\ At(th, "set", "read")
    /\ LET v == Top(th).value
           call == [Top(th) EXCEPT !.old = ivar[Top(th).object]]
       IN IF call.copy
          THEN Continue(th, [call EXCEPT !.stage = "copy"]) /\ UNCHANGED valueRefs
          ELSE /\ Continue(th, [call EXCEPT !.stage = "store"])
               /\ valueRefs' = IF v = NoValue THEN valueRefs
                               ELSE [valueRefs EXCEPT ![v] = @ + 1]
    /\ UNCHANGED <<mutexVars, ivar, held, inside, host>>

\* copyWithZone: returns the copy, or the value itself, retained.
EndCopy(th, v) ==
    /\ At(th, "set", "copy")
    /\ v = Top(th).value \/ valueRefs[v] = 0
    /\ valueRefs' = [valueRefs EXCEPT ![v] = @ + 1]
    /\ Continue(th, [Top(th) EXCEPT !.stage = "store", !.value = v])
    /\ UNCHANGED <<mutexVars, ivar, held, inside, host>>

\* The old value is released, with the lock held; its -dealloc may run.
Store(th) ==
    /\ At(th, "set", "store")
    /\ LET old == Top(th).old
       IN /\ ivar' = [ivar EXCEPT ![Top(th).object] = Top(th).value]
          /\ IF old = NoValue \/ valueRefs[old] > 1
             THEN Continue(th, [Top(th) EXCEPT !.stage = "end"])
             ELSE Continue(th, [Top(th) EXCEPT !.stage = "dealloc"])
          /\ IF old # NoValue /\ valueRefs[old] = 0
             THEN host' = "panic" /\ UNCHANGED valueRefs
             ELSE /\ valueRefs' = IF old = NoValue THEN valueRefs
                                  ELSE [valueRefs EXCEPT ![old] = @ - 1]
                  /\ UNCHANGED host
    /\ UNCHANGED <<mutexVars, held, inside>>

EndDealloc(th) ==
    /\ At(th, "set", "dealloc")
    /\ Continue(th, [Top(th) EXCEPT !.stage = "end"])
    /\ UNCHANGED <<syncVars, host>>

EndSet(th) ==
    /\ At(th, "set", "end")
    /\ IF Top(th).mutex = NoMutex THEN UNCHANGED <<owner, lockCount>>
       ELSE UnlockMutex(Top(th).mutex)
    /\ Leave(th)
    /\ UNCHANGED <<syncMutexes, propLocks, valueVars, inside, host>>

\* An atomic getter waits for the lock, and gives it up when it has the value.
GetProperty(th, o) ==
    /\ CanCall(th)
    /\ LET m == MutexOf(propLocks, o)
       IN /\ propLocks' = [propLocks EXCEPT ![o] = m]
          /\ IF CanLock(th, m)
             THEN owner' = [owner EXCEPT ![m] = IF @ = th THEN th ELSE Nobody] /\ UNCHANGED calls
             ELSE Enter(th, GetCall(m)) /\ UNCHANGED owner
    /\ UNCHANGED <<syncMutexes, lockCount, valueVars, inside, host>>

GetterLocked(th) ==
    /\ At(th, "get", "sleep")
    /\ CanLock(th, Top(th).mutex)
    /\ Leave(th)
    /\ UNCHANGED <<syncVars, host>>

BlockCalls(th) == \E o \in Objects : ObjcSyncEnter(th, o) \/ ObjcSyncExit(th, o)

PropertyCalls(th) ==
    \/ \E o \in Objects, v \in Values \cup {NoValue}, copy \in BOOLEAN, atomic \in BOOLEAN :
           SetProperty(th, o, v, copy, atomic)
    \/ \E o \in Objects : GetProperty(th, o)
    \/ \E v \in Values : NewValue(th, v) \/ ReleaseValue(th, v)

SynchronizedHost(th) ==
    \/ SyncEntered(th)
    \/ SetterLocked(th)
    \/ GetterLocked(th)
    \/ ReadOld(th)
    \/ Store(th)
    \/ EndSet(th)

SynchronizedReturns(th) ==
    \/ \E v \in Values : EndCopy(th, v)
    \/ EndDealloc(th)

-----------------------------------------------------------------------------
\* "Sections of code that, for a given object, only allow one thread inside
\* any @synchronized block with that object" (synchronization.rs:8-9), while
\* mutexes are made and destroyed under threads that wait; and the table holds
\* a mutex exactly as long as somebody is inside or waits, so that none is left
\* to the next object at the address.
SynchronizedExcludes ==
    \A o \in Objects :
        /\ Cardinality({th \in Threads : inside[th][o] > 0}) <= 1
        /\ syncMutexes[o] # NoMutex <=>
               \/ \E th \in Threads : inside[th][o] > 0
               \/ \E c \in AllCalls : c.kind = "sync" /\ c.object = o
        /\ \A c \in AllCalls : c.kind = "sync" /\ c.object = o => c.mutex = syncMutexes[o]

\* A value has the references of the guest, of the properties it is the value
\* of and of the setters that are about to store it: a setter loses none and
\* releases none twice, though -dealloc methods set properties again and other
\* threads run between its steps.  (A copyWithZone: that sets the property, and
\* nonatomic setters in two threads, are the exceptions.)
PropertyRefsExact ==
    \A v \in Values :
        valueRefs[v] = (IF v \in held THEN 1 ELSE 0)
                       + Cardinality({o \in Objects : ivar[o] = v})
                       + Cardinality({p \in Threads \X (1 .. MaxCalls) :
                             /\ p[2] <= Len(calls[p[1]])
                             /\ LET c == calls[p[1]][p[2]]
                                IN c.kind = "set" /\ c.stage = "store" /\ c.value = v})
=============================================================================
