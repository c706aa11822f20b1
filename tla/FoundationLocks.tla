-------------------------- MODULE FoundationLocks --------------------------
(***************************************************************************)
(* NSCondition and NSConditionLock                                         *)
(* (src/src/frameworks/foundation/ns_condition.rs): one object of each,    *)
(* shared by guest threads.                                                *)
(*                                                                         *)
(* These classes do not use the emulator's mutexes.  A thread that has to  *)
(* wait queues itself and suspends itself, and is woken by setting its     *)
(* ThreadBlock to NotBlocked; what it waited for is free for any thread    *)
(* until it runs.  A host function runs undisturbed until it suspends the  *)
(* thread or returns: one step is the code between two such points.        *)
(***************************************************************************)
EXTENDS Queues, FiniteSets

CONSTANTS
    Threads,        \* guest threads
    Conditions,     \* the values of NSConditionLock's condition
    Start,          \* the one given to initWithCondition:
    AnyCondition,   \* Option<NSInteger>::None
    MaxSuspensions, \* bound on the suspensions of one thread by others
    Classes,        \* the classes this guest program uses
    Misuse          \* what this guest program does that it ought not to

ASSUME FoundationLocksAssumption ==
    /\ Start \in Conditions
    /\ AnyCondition \notin Conditions
    /\ MaxSuspensions \in Nat

VARIABLES
    suspended,    \* per thread, the count of ThreadBlock::Suspended
    asleep,       \* per thread, whether Sleeping is its block, or is in it
    call,         \* the host function the thread is suspended in
    late,         \* whether the limit date of that call has passed
    others,       \* per thread, thread_suspend calls that await thread_resume
    locked,       \* NSCondition: locked
    lockWaiting,  \* NSCondition: lock_waiting_threads
    waiting,      \* NSCondition: waiting_threads
    holders,      \* history: the threads that locked the NSCondition
    clLocked,     \* NSConditionLock: locked
    condition,    \* NSConditionLock: condition
    clWaiting,    \* NSConditionLock: waiting_threads
    clHolders     \* history: the threads that locked the NSConditionLock

blockVars     == <<suspended, asleep>>
conditionVars == <<locked, lockWaiting, waiting, holders>>
clVars        == <<clLocked, condition, clWaiting, clHolders>>
vars == <<blockVars, call, late, others, conditionVars, clVars>>

Call(kind, want) == [kind |-> kind, want |-> want]

\* The thread executes guest code.
Guest == Call("guest", AnyCondition)

Init ==
    /\ suspended = [t \in Threads |-> 0]
    /\ asleep = [t \in Threads |-> FALSE]
    /\ call = [t \in Threads |-> Guest]
    /\ late = [t \in Threads |-> FALSE]
    /\ others = [t \in Threads |-> 0]
    /\ locked = FALSE /\ lockWaiting = <<>> /\ waiting = <<>>
    /\ clLocked = FALSE /\ condition = Start /\ clWaiting = <<>>
    /\ holders = {} /\ clHolders = {}

\* The guest may break the precondition P only if Misuse names it.
Lawful(precondition, P) == precondition \notin Misuse => P

\* The scheduler may let t run.
Runs(t) == suspended[t] = 0 /\ ~ asleep[t]

InGuest(t, class) == class \in Classes /\ Runs(t) /\ call[t] = Guest

Resumes(t, kinds) == Runs(t) /\ call[t].kind \in kinds

Become(t, new) ==
    /\ call' = [call EXCEPT ![t] = new]
    /\ late' = [late EXCEPT ![t] = new # Guest /\ @]

Front1(queue) == {queue[i] : i \in 1 .. Len(queue) \cap {1}}

Behind(queue) == SubSeq(queue, 2, Len(queue))

\* threads[u].blocked_by = NotBlocked for each u of woken; then t suspends
\* itself, or yields until its limit date, or does neither.
BlockAndWake(woken, suspends, sleeps) ==
    /\ suspended' = [t \in Threads |->
                        IF t \in suspends THEN 1
                        ELSE IF t \in woken THEN 0 ELSE suspended[t]]
    /\ asleep' = [t \in Threads |->
                     t \in sleeps \/ (asleep[t] /\ t \notin woken)]

-----------------------------------------------------------------------------
(***************************************************************************)
(* NSCondition.                                                            *)
(***************************************************************************)
\* One round of the loop of `lock`; the call goes on as `after` or `again`.
LockRound(t, after, again) ==
    IF locked
    THEN /\ lockWaiting' = Append(lockWaiting, t)
         /\ BlockAndWake({}, {t}, {})
         /\ Become(t, again)
         /\ UNCHANGED <<locked, holders>>
    ELSE /\ locked' = TRUE
         /\ holders' = holders \cup {t}
         /\ Become(t, after)
         /\ UNCHANGED <<lockWaiting, blockVars>>

Lock(t) ==
    /\ InGuest(t, "NSCondition")
    /\ Lawful("lock_twice", t \notin holders)
    /\ LockRound(t, Guest, Call("lock", AnyCondition))
    /\ UNCHANGED <<others, waiting, clVars>>

\* locked = false, and the first of lock_waiting_threads is dequeued.
GiveUp(t) ==
    /\ locked' = FALSE
    /\ holders' = holders \ {t}
    /\ lockWaiting' = Behind(lockWaiting)

Unlock(t) ==
    /\ InGuest(t, "NSCondition")
    /\ Lawful("unlock_for_another_thread", t \in holders)
    /\ GiveUp(t)
    /\ BlockAndWake(Front1(lockWaiting), {}, {})
    /\ UNCHANGED <<call, late, others, waiting, clVars>>

Wait(t) ==
    /\ InGuest(t, "NSCondition")
    /\ Lawful("wait_without_lock", t \in holders)
    /\ GiveUp(t)
    /\ waiting' = Append(waiting, t)
    /\ BlockAndWake(Front1(lockWaiting), {t}, {})
    /\ Become(t, Call("wait", AnyCondition))
    /\ UNCHANGED <<others, clVars>>

\* With a limit date that has passed it returns FALSE and changes nothing.
WaitUntilDate(t) ==
    /\ InGuest(t, "NSCondition")
    /\ Lawful("wait_without_lock", t \in holders)
    /\ GiveUp(t)
    /\ waiting' = Append(waiting, t)
    /\ BlockAndWake(Front1(lockWaiting), {}, {t})
    /\ Become(t, Call("waitUntilDate", AnyCondition))
    /\ UNCHANGED <<others, clVars>>

\* Mutant: a thread that timed out keeps its place among the waiters.
StillWaiting(t) == waiting

\* waitUntilDate: takes itself off the queue if nobody did.
NoLongerWaiting(t) ==
    IF call[t].kind = "waitUntilDate" THEN Without(waiting, t) ELSE waiting

\* The thread was woken: it locks, for the first time or again.
LockAgain(t) ==
    /\ Resumes(t, {"lock", "wait", "waitUntilDate"})
    /\ LockRound(t, Guest, Call("lock", AnyCondition))
    /\ waiting' = NoLongerWaiting(t)
    /\ UNCHANGED <<others, clVars>>

Signal(t) ==
    /\ InGuest(t, "NSCondition")
    /\ waiting' = Behind(waiting)
    /\ BlockAndWake(Front1(waiting), {}, {})
    /\ UNCHANGED <<call, late, others, locked, lockWaiting, holders, clVars>>

Broadcast(t) ==
    /\ InGuest(t, "NSCondition")
    /\ waiting' = <<>>
    /\ BlockAndWake(Elems(waiting), {}, {})
    /\ UNCHANGED <<call, late, others, locked, lockWaiting, holders, clVars>>

ConditionStep(t) ==
    \/ Lock(t) \/ Unlock(t) \/ Wait(t) \/ WaitUntilDate(t)
    \/ LockAgain(t) \/ Signal(t) \/ Broadcast(t)

-----------------------------------------------------------------------------
(***************************************************************************)
(* NSConditionLock.  An entry of waiting_threads is a thread and what it   *)
(* waits for.                                                              *)
(***************************************************************************)
Entry(t, want) == [thread |-> t, want |-> want]

Available(want) == ~ clLocked /\ want \in {AnyCondition, condition}

TakeCL(t) == clLocked' = TRUE /\ clHolders' = clHolders \cup {t}

\* The first position of a queue that satisfies P; 0 if there is none.
FirstOf(queue, P(_)) ==
    LET found == {i \in 1 .. Len(queue) : P(queue[i])}
    IN IF found = {} THEN 0 ELSE CHOOSE i \in found : \A j \in found : i <= j

WithoutPosition(queue, i) ==
    SubSeq(queue, 1, i - 1) \o SubSeq(queue, i + 1, Len(queue))

\* lockWhenCondition:beforeDate: takes itself off the queue when it wakes up.
Dequeued(t) ==
    LET isOfThread(entry) == entry.thread = t
        i == FirstOf(clWaiting, isOfThread)
    IN IF i = 0 THEN clWaiting ELSE WithoutPosition(clWaiting, i)

\* One round of the loop of `lock` and lockWhenCondition:.
CLRound(t, want) ==
    /\ UNCHANGED condition
    /\ IF Available(want)
       THEN TakeCL(t) /\ Become(t, Guest) /\ UNCHANGED <<clWaiting, blockVars>>
       ELSE /\ clWaiting' = Append(clWaiting, Entry(t, want))
            /\ BlockAndWake({}, {t}, {})
            /\ Become(t, Call("clLock", want))
            /\ UNCHANGED <<clLocked, clHolders>>

\* Mutant: the date is looked at only before the first sleep.
CLRoundNoDate(t, want, queue, passed) ==
    /\ UNCHANGED condition
    /\ IF Available(want)
       THEN /\ TakeCL(t)
            /\ clWaiting' = queue
            /\ Become(t, Guest)
            /\ UNCHANGED blockVars
       ELSE /\ clWaiting' = Append(queue, Entry(t, want))
            /\ BlockAndWake({}, {}, {t})
            /\ Become(t, Call("clLockBefore", want))
            /\ UNCHANGED <<clLocked, clHolders>>

\* Mutant: a thread that woke up in time has the lock.
CLRoundTrusts(t, want, queue, passed) ==
    /\ UNCHANGED <<condition, blockVars>>
    /\ clWaiting' = queue
    /\ Become(t, Guest)
    /\ IF passed THEN UNCHANGED <<clLocked, clHolders>> ELSE TakeCL(t)

\* One round of lockWhenCondition:beforeDate:, with `queue` the waiters.
CLRoundBefore(t, want, queue, passed) ==
    /\ UNCHANGED condition
    /\ IF Available(want)
       THEN /\ TakeCL(t)
            /\ clWaiting' = queue
            /\ Become(t, Guest)
            /\ UNCHANGED blockVars
       ELSE IF passed
       THEN /\ clWaiting' = queue
            /\ Become(t, Guest)
            /\ UNCHANGED <<clLocked, clHolders, blockVars>>
       ELSE /\ clWaiting' = Append(queue, Entry(t, want))
            /\ BlockAndWake({}, {}, {t})
            /\ Become(t, Call("clLockBefore", want))
            /\ UNCHANGED <<clLocked, clHolders>>

MayLockCL(t) ==
    /\ InGuest(t, "NSConditionLock")
    /\ Lawful("lock_twice", t \notin clHolders)

\* lock and lockWhenCondition:
CLLock(t, want) ==
    /\ MayLockCL(t)
    /\ CLRound(t, want)
    /\ UNCHANGED <<others, conditionVars>>

CLLockBefore(t, want) ==
    /\ MayLockCL(t)
    /\ \E passed \in BOOLEAN : CLRoundBefore(t, want, clWaiting, passed)
    /\ UNCHANGED <<others, conditionVars>>

CLLockAgain(t) ==
    /\ Resumes(t, {"clLock"})
    /\ CLRound(t, call[t].want)
    /\ UNCHANGED <<others, conditionVars>>

CLLockBeforeAgain(t) ==
    /\ Resumes(t, {"clLockBefore"})
    /\ CLRoundBefore(t, call[t].want, Dequeued(t), late[t])
    /\ UNCHANGED <<others, conditionVars>>

\* tryLock and tryLockWhenCondition:; if they fail they change nothing.
CLTryLock(t, want) ==
    /\ InGuest(t, "NSConditionLock")
    /\ Available(want)
    /\ TakeCL(t)
    /\ UNCHANGED <<blockVars, call, late, others, condition, clWaiting,
                   conditionVars>>

\* Mutant: the condition that was set before decides who is woken.
CLUnlockToOld(t, new) ==
    LET mayLock(entry) == entry.want \in {AnyCondition, condition}
        i == FirstOf(clWaiting, mayLock)
    IN /\ clLocked' = FALSE
       /\ condition' = new
       /\ clHolders' = clHolders \ {t}
       /\ clWaiting' = IF i = 0 THEN clWaiting ELSE WithoutPosition(clWaiting, i)
       /\ BlockAndWake(IF i = 0 THEN {} ELSE {clWaiting[i].thread}, {}, {})

\* The first thread that waits for `new`, or for the lock alone, is woken.
CLUnlockTo(t, new) ==
    LET mayLock(entry) == entry.want \in {AnyCondition, new}
        i == FirstOf(clWaiting, mayLock)
    IN /\ clLocked' = FALSE
       /\ condition' = new
       /\ clHolders' = clHolders \ {t}
       /\ clWaiting' = IF i = 0 THEN clWaiting ELSE WithoutPosition(clWaiting, i)
       /\ BlockAndWake(IF i = 0 THEN {} ELSE {clWaiting[i].thread}, {}, {})

\* unlock, which keeps the condition, and unlockWithCondition:
CLUnlock(t, new) ==
    /\ InGuest(t, "NSConditionLock")
    /\ Lawful("unlock_for_another_thread", t \in clHolders)
    /\ CLUnlockTo(t, new)
    /\ UNCHANGED <<call, late, others, conditionVars>>

ConditionLockStep(t) ==
    \/ CLLockAgain(t)
    \/ CLLockBeforeAgain(t)
    \/ \E want \in Conditions \cup {AnyCondition} : CLLock(t, want) \/ CLTryLock(t, want)
    \/ \E want \in Conditions : CLLockBefore(t, want) \/ CLUnlock(t, want)

-----------------------------------------------------------------------------
(***************************************************************************)
(* Time, and the calls that suspend other threads.                         *)
(***************************************************************************)
\* The limit date of t passes; if t sleeps until then its sleep ends.
TimePasses(t) ==
    /\ call[t].kind \in {"waitUntilDate", "clLockBefore"}
    /\ ~ late[t] \/ asleep[t]
    /\ late' = [late EXCEPT ![t] = TRUE]
    /\ asleep' = [asleep EXCEPT ![t] = FALSE]
    /\ UNCHANGED <<suspended, call, others, conditionVars, clVars>>

\* thread_suspend, of a thread that no class of this module has suspended.
ThreadSuspend(t, u) ==
    /\ InGuest(t, "thread_suspend")
    /\ Lawful("suspend_waiter", call[u] = Guest)
    /\ others[u] < MaxSuspensions
    /\ suspended' = [suspended EXCEPT ![u] = @ + 1]
    /\ others' = [others EXCEPT ![u] = @ + 1]
    /\ UNCHANGED <<asleep, call, late, conditionVars, clVars>>

\* thread_resume, by a guest that resumes what it suspended and no more; of a
\* thread that is not suspended it only logs a warning.
ThreadResume(t, u) ==
    /\ InGuest(t, "thread_suspend")
    /\ others[u] > 0
    /\ suspended' = [suspended EXCEPT ![u] = IF @ > 0 THEN @ - 1 ELSE @]
    /\ others' = [others EXCEPT ![u] = @ - 1]
    /\ UNCHANGED <<asleep, call, late, conditionVars, clVars>>

Next ==
    \E t \in Threads :
        \/ ConditionStep(t)
        \/ ConditionLockStep(t)
        \/ TimePasses(t)
        \/ \E u \in Threads : ThreadSuspend(t, u) \/ ThreadResume(t, u)

Spec == Init /\ [][Next]_vars

\* Round robin lets a thread that is not blocked run, and time goes on.
Fairness ==
    \A t \in Threads :
        /\ WF_vars(LockAgain(t))
        /\ WF_vars(CLLockAgain(t))
        /\ WF_vars(CLLockBeforeAgain(t))
        /\ WF_vars(TimePasses(t))

FairSpec == Spec /\ Fairness

-----------------------------------------------------------------------------
TypeOK ==
    /\ suspended \in [Threads -> Nat]
    /\ asleep \in [Threads -> BOOLEAN]
    /\ call \in [Threads -> [kind : {"guest", "lock", "wait", "waitUntilDate",
                                     "clLock", "clLockBefore"},
                             want : Conditions \cup {AnyCondition}]]
    /\ late \in [Threads -> BOOLEAN]
    /\ others \in [Threads -> 0 .. MaxSuspensions]
    /\ locked \in BOOLEAN /\ clLocked \in BOOLEAN
    /\ condition \in Conditions
    /\ lockWaiting \in Seq(Threads) /\ waiting \in Seq(Threads)
    /\ clWaiting \in Seq([thread : Threads, want : Conditions \cup {AnyCondition}])
    /\ holders \subseteq Threads /\ clHolders \subseteq Threads

\* At most one thread has returned from a lock or a wait of each object and
\* not unlocked it since, and the object is locked exactly while there is one.
MutualExclusion ==
    /\ Cardinality(holders) <= 1 /\ (locked <=> holders # {})
    /\ Cardinality(clHolders) <= 1 /\ (clLocked <=> clHolders # {})

\* The suspensions of a thread that come from a call of these classes.
OwnSuspensions(t) == IF suspended[t] >= others[t] THEN suspended[t] - others[t] ELSE 0

\* The threads of a queue of condition lock entries.
CLQueued == {clWaiting[i].thread : i \in 1 .. Len(clWaiting)}

\* A thread is in a queue, once, exactly while it has suspended itself, or
\* sleeps, in the call that queued it: whoever is woken has left its queue, and
\* nobody who left is woken in its place.
QueuesExact ==
    /\ TypeOK
    /\ Distinct(lockWaiting) /\ Distinct(waiting)
    /\ Cardinality(CLQueued) = Len(clWaiting)
    /\ \A t \in Threads :
        LET self == OwnSuspensions(t) = 1
            kind == call[t].kind
        IN /\ OwnSuspensions(t) \in {0, 1}
           /\ self => kind \in {"lock", "wait", "clLock"}
           /\ t \in Elems(lockWaiting) <=> self /\ kind = "lock"
           /\ t \in Elems(waiting) => kind \in {"wait", "waitUntilDate"}
           /\ t \in CLQueued => kind \in {"clLock", "clLockBefore"}
           /\ kind = "wait" => (t \in Elems(waiting) <=> self)
           /\ kind = "clLock" => (t \in CLQueued <=> self)
           /\ asleep[t] => t \in Elems(waiting) \cup CLQueued

\* Was dequeued and will look at the lock again.
IsWoken(t) == OwnSuspensions(t) = 0 /\ ~ asleep[t]

\* While an object is free and a thread that could lock it is queued, another
\* one has been woken for it: no wakeup is lost, although a woken thread may
\* find the lock taken again, and a thread that times out is one that some
\* unlock may have chosen.
NoWakeupLost ==
    /\ ~ locked /\ lockWaiting # <<>> =>
        \E t \in Threads : IsWoken(t) /\ call[t].kind \in {"lock", "wait", "waitUntilDate"}
    /\ \A i \in 1 .. Len(clWaiting) : Available(clWaiting[i].want) =>
        \E t \in Threads : /\ IsWoken(t)
                           /\ call[t].kind \in {"clLock", "clLockBefore"}
                           /\ Available(call[t].want)

\* A thread that others suspended does not run before they resume it: the
\* "suspend count and [the] previous thread state" are "restored upon resuming".
SuspensionHolds == \A t \in Threads : suspended[t] >= others[t]

\* A call with a limit date ends its wait, whatever the others do.
TimedCallsEnd ==
    \A t \in Threads : \A kind \in {"waitUntilDate", "clLockBefore"} :
        call[t].kind = kind ~> call[t].kind # kind
=============================================================================
