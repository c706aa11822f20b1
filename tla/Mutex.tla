------------------------------- MODULE Mutex -------------------------------
(***************************************************************************)
(* The emulator's mutexes (src/src/environment/mutex.rs): the state behind *)
(* pthread mutexes, read-write locks, NSLock and @synchronized.            *)
(***************************************************************************)
EXTENDS Threads

CONSTANTS
    MaxMutexes,   \* bound on mutex_count: the code's is 2^64
    MutexTypes,   \* the types the guest initialises mutexes with
    MaxLockCount  \* bound on the lock count of a recursive mutex

MutexId == 0 .. MaxMutexes - 1
MutexType == {"NORMAL", "ERRORCHECK", "RECURSIVE"}

ASSUME MutexAssumption ==
    /\ MaxMutexes \in Nat
    /\ MutexTypes \subseteq MutexType
    /\ MaxLockCount \in Nat \ {0}

VARIABLES
    mutexCount,    \* MutexState::mutex_count: ids are never reused
    mutexes,       \* the keys of MutexState::mutexes
    mutexType,     \* Mutex::type_
    owner,         \* Mutex::locked: the thread, or NoThread for None
    lockCount,     \* Mutex::locked: the number of locks
    waitingCount   \* Mutex::waiting_count

mutexVars == <<mutexCount, mutexes, mutexType, owner, lockCount, waitingCount>>
lockVars  == <<mutexCount, mutexes, mutexType, waitingCount>>

OnMutex(m) == [kind |-> "Mutex", on |-> m]

MutexInit ==
    /\ mutexCount = 0
    /\ mutexes = {}
    /\ mutexType = [m \in MutexId |-> "NORMAL"]
    /\ owner = [m \in MutexId |-> NoThread]
    /\ lockCount = [m \in MutexId |-> 0]
    /\ waitingCount = [m \in MutexId |-> 0]

\* mutex_is_locked: an unknown id counts as unlocked.
MutexIsLocked(m) == m \in mutexes /\ owner[m] # NoThread

-----------------------------------------------------------------------------
InitMutex(type) ==
    /\ Calls("init_mutex")
    /\ mutexCount < MaxMutexes
    /\ mutexCount' = mutexCount + 1
    /\ mutexes' = mutexes \cup {mutexCount}
    /\ mutexType' = [mutexType EXCEPT ![mutexCount] = type]
    /\ UNCHANGED <<owner, lockCount, waitingCount, threadVars>>

\* A locked or awaited mutex is kept and the caller gets EBUSY.
DestroyMutex(m) ==
    /\ Calls("destroy_mutex")
    /\ m \in mutexes
    /\ Lawful("destroy_awaited_mutex",
              \A t \in Existing : blockedBy[t] # OnMutex(m) /\ frame[t].mutex # m)
    /\ owner[m] = NoThread
    /\ waitingCount[m] = 0
    /\ mutexes' = mutexes \ {m}
    /\ UNCHANGED <<mutexCount, mutexType, owner, lockCount, waitingCount,
                   threadVars>>

Take(t, m) ==
    /\ owner' = [owner EXCEPT ![m] = t]
    /\ lockCount' = [lockCount EXCEPT ![m] = 1]

\* An owner that locks again gets EDEADLK unless the mutex is recursive.
LockMutex(m) ==
    /\ Calls("lock_mutex")
    /\ m \in mutexes
    /\ \/ /\ owner[m] = NoThread
          /\ Take(current, m)
          /\ UNCHANGED <<lockVars, threadVars>>
       \/ /\ owner[m] = current
          /\ mutexType[m] = "RECURSIVE"
          /\ lockCount[m] < MaxLockCount
          /\ lockCount' = [lockCount EXCEPT ![m] = @ + 1]
          /\ UNCHANGED <<owner, lockVars, threadVars>>
       \/ /\ owner[m] \notin {NoThread, current}
          /\ waitingCount' = [waitingCount EXCEPT ![m] = @ + 1]
          /\ YieldThread(OnMutex(m))
          /\ UNCHANGED <<mutexCount, mutexes, mutexType, owner, lockCount,
                         len, active, suspended, frame>>

\* unlock_mutex returns Ok: a NORMAL mutex may be unlocked by any thread.
MayUnlock(m) ==
    /\ owner[m] # NoThread
    /\ owner[m] = current \/ mutexType[m] = "NORMAL"

Release(m) ==
    /\ lockCount' = [lockCount EXCEPT ![m] = @ - 1]
    /\ owner' = [owner EXCEPT ![m] = IF lockCount[m] = 1 THEN NoThread ELSE @]

UnlockMutex(m) ==
    /\ Calls("unlock_mutex")
    /\ m \in mutexes
    /\ Lawful("unlock_for_another_thread", owner[m] = current)
    /\ MayUnlock(m)
    /\ Release(m)
    /\ UNCHANGED <<lockVars, threadVars>>

\* Mutant: the waiter that gets the mutex still counts as waiting.
RelockKeepsCount(t, m) ==
    /\ Take(t, m)
    /\ UNCHANGED lockVars

\* Mutant: the subtraction is not guarded.
RelockUnguarded(t, m) ==
    /\ Take(t, m)
    /\ waitingCount' = [waitingCount EXCEPT ![m] = @ - 1]
    /\ UNCHANGED <<mutexCount, mutexes, mutexType>>

\* relock_unblocked_mutex_for_thread, called by the scheduler for every
\* thread it lets through a mutex, condition waiters included.
RelockUnblockedMutex(t, m) ==
    /\ Take(t, m)
    /\ waitingCount' = [waitingCount EXCEPT ![m] = IF @ > 0 THEN @ - 1 ELSE @]
    /\ UNCHANGED <<mutexCount, mutexes, mutexType>>

MutexStep ==
    \/ \E type \in MutexTypes : InitMutex(type)
    \/ \E m \in MutexId : DestroyMutex(m) \/ LockMutex(m) \/ UnlockMutex(m)
=============================================================================
