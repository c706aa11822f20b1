----------------------------- MODULE Scheduler -----------------------------
(***************************************************************************)
(* Environment::run with schedule_next_thread (src/src/environment.rs):    *)
(* the loop that decides which guest thread runs next and grants it what   *)
(* it was blocked on.  One step of this module is one iteration of the     *)
(* scheduler's `for` loop, or one call of the running guest thread.        *)
(***************************************************************************)
EXTENDS Cond, Semaphore

CONSTANT MaxGrace  \* 3: the retries before the scheduler declares a deadlock

ASSUME SchedulerAssumption == MaxGrace \in Nat

VARIABLE grace     \* DEADLOCK_GRACE_COUNT

vars == <<threadVars, mutexVars, condVars, semVars, grace>>

Init ==
    /\ ThreadsInit
    /\ MutexInit
    /\ CondInit
    /\ SemaphoreInit
    /\ grace = 0

-----------------------------------------------------------------------------
(***************************************************************************)
(* schedule_next_thread.                                                   *)
(***************************************************************************)
\* Mutant: the scan starts with the thread that ran last.
CandidateFromCurrent == (current + scan) % len

Candidate == (current + 1 + scan) % len

\* The scan looks at the block of t: it is active and not Suspended.
Examines(t) ==
    /\ phase = "schedule"
    /\ scan < len
    /\ t = Candidate
    /\ active[t]
    /\ suspended[t] = 0

\* Mutant: the block of the thread is not lifted.
DispatchBlocked(t) ==
    /\ phase' = "run"
    /\ current' = t
    /\ scan' = 0
    /\ awakening' = FALSE
    /\ UNCHANGED blockedBy

\* return thread_id: t runs next.
Dispatch(t) ==
    /\ phase' = "run"
    /\ current' = t
    /\ scan' = 0
    /\ awakening' = FALSE
    /\ blockedBy' = [blockedBy EXCEPT ![t] = NotBlocked]

\* On to the next candidate; a deadline in the future is noted.
KeepScanning(deadline) ==
    /\ scan' = scan + 1
    /\ awakening' = (awakening \/ deadline)
    /\ UNCHANGED <<phase, current>>

ScanSkip ==
    /\ phase = "schedule"
    /\ scan < len
    /\ ~ active[Candidate] \/ suspended[Candidate] > 0
    /\ KeepScanning(FALSE)
    /\ UNCHANGED <<len, active, blockedBy, suspended, frame, mutexVars,
                   condVars, semVars, grace>>

ScanNotBlocked(t) ==
    /\ Examines(t)
    /\ blockedBy[t] = NotBlocked
    /\ Dispatch(t)
    /\ UNCHANGED <<len, active, suspended, frame, mutexVars, condVars,
                   semVars, grace>>

\* Mutant: a sleeper is no reason to wait for a deadline.
ScanSleepingForgotten(t, expired) ==
    /\ Examines(t)
    /\ blockedBy[t] = Sleeping
    /\ IF expired
       THEN Dispatch(t)
       ELSE KeepScanning(FALSE) /\ UNCHANGED blockedBy
    /\ UNCHANGED <<len, active, suspended, frame, mutexVars, condVars,
                   semVars, grace>>

ScanSleeping(t, expired) ==
    /\ Examines(t)
    /\ blockedBy[t] = Sleeping
    /\ IF expired
       THEN Dispatch(t)
       ELSE KeepScanning(TRUE) /\ UNCHANGED blockedBy
    /\ UNCHANGED <<len, active, suspended, frame, mutexVars, condVars,
                   semVars, grace>>

\* relock_unblocked_mutex_for_thread unwraps the entry of m.
Relock(t, m) ==
    IF m \in mutexes
    THEN RelockUnblockedMutex(t, m) /\ Dispatch(t)
    ELSE HostPanic /\ UNCHANGED <<blockedBy, mutexVars>>

\* Mutant: the mutex is handed over without asking whether it is free.
ScanMutexSteals(t) ==
    /\ Examines(t)
    /\ \E m \in MutexId : blockedBy[t] = OnMutex(m) /\ Relock(t, m)
    /\ UNCHANGED <<len, active, suspended, frame, condVars, semVars, grace>>

ScanMutex(t) ==
    /\ Examines(t)
    /\ \E m \in MutexId :
        /\ blockedBy[t] = OnMutex(m)
        /\ IF MutexIsLocked(m)
           THEN KeepScanning(FALSE) /\ UNCHANGED <<blockedBy, mutexVars>>
           ELSE Relock(t, m)
    /\ UNCHANGED <<len, active, suspended, frame, condVars, semVars, grace>>

\* waiting.remove(&self.current_thread): not t, whose wait it is that ends.
ScanSemaphore(t) ==
    /\ Examines(t)
    /\ \E s \in Sems :
        /\ blockedBy[t] = OnSemaphore(s)
        /\ \/ /\ s \notin openSems
              /\ HostPanic
              /\ UNCHANGED <<blockedBy, semVars>>
           \/ /\ s \in openSems
              /\ semValue[s] = 0
              /\ KeepScanning(FALSE)
              /\ UNCHANGED <<blockedBy, semVars>>
           \/ /\ s \in openSems
              /\ semValue[s] > 0
              /\ semValue' = [semValue EXCEPT ![s] = @ - 1]
              /\ semWaiting' = [semWaiting EXCEPT ![s] = @ \ {current}]
              /\ UNCHANGED openSems
              /\ Dispatch(t)
    /\ UNCHANGED <<len, active, suspended, frame, mutexVars, condVars, grace>>

ScanJoining(t) ==
    /\ Examines(t)
    /\ \E joinee \in ThreadId :
        /\ blockedBy[t] = Joining(joinee)
        /\ IF active[joinee]
           THEN KeepScanning(FALSE) /\ UNCHANGED blockedBy
           ELSE Dispatch(t)
    /\ UNCHANGED <<len, active, suspended, frame, mutexVars, condVars,
                   semVars, grace>>

-----------------------------------------------------------------------------
\* Thread t is blocked on condition variable c and the scan examines it.
ExaminesWaiter(t, c) ==
    /\ Examines(t)
    /\ blockedBy[t] \in {OnCond(c, TRUE), OnCond(c, FALSE)}

\* t is the front of `waking` and the mutex of c is free.
MayWake(t, c) ==
    /\ waking[c] # <<>>
    /\ Head(waking[c]) = t
    /\ ~ MutexIsLocked(currMutex[c])

\* get_mut(&cond).unwrap() and curr_mutex.unwrap()
ScanCondGone(t, c) ==
    /\ ExaminesWaiter(t, c)
    /\ c \notin conds \/ currMutex[c] = NoObject
    /\ HostPanic
    /\ UNCHANGED <<len, active, blockedBy, suspended, frame, mutexVars,
                   condVars, semVars, grace>>

ScanCondWake(t, c) ==
    /\ ExaminesWaiter(t, c)
    /\ c \in conds /\ currMutex[c] # NoObject
    /\ MayWake(t, c)
    /\ waking' = [waking EXCEPT ![c] = Tail(@)]
    /\ Relock(t, currMutex[c])
    /\ UNCHANGED <<conds, waiting, currMutex, timedOut, len, active,
                   suspended, frame, semVars, grace>>

\* Of a timeout that adds `noted` to timed_out and dequeues t by `remove`.
TimeoutWith(t, c, noted, remove(_), locked(_)) ==
    /\ ExaminesWaiter(t, c)
    /\ c \in conds /\ currMutex[c] # NoObject
    /\ ~ MayWake(t, c)
    /\ blockedBy[t] = OnCond(c, TRUE)
    /\ timedOut' = [timedOut EXCEPT ![c] = @ \cup noted]
    /\ waking' = [waking EXCEPT ![c] = remove(@)]
    /\ waiting' = [waiting EXCEPT ![c] = Without(@, t)]
    /\ UNCHANGED <<conds, currMutex, len, active, suspended, frame, semVars,
                   grace>>
    /\ IF MutexIsLocked(currMutex[c]) THEN locked(currMutex[c])
       ELSE Relock(t, currMutex[c])

\* Mutant: a thread that was signalled before it timed out stays in waking.
ScanCondTimeoutLeaves(t, c) ==
    LET remove(queue) == queue
        locked(m) == /\ blockedBy' = [blockedBy EXCEPT ![t] = OnMutex(m)]
                     /\ KeepScanning(FALSE)
                     /\ UNCHANGED mutexVars
    IN TimeoutWith(t, c, {t}, remove, locked)

\* Mutant: a thread that timed out is not noted in timed_out.
ScanCondTimeoutSilent(t, c) ==
    LET remove(queue) == Without(queue, t)
        locked(m) == /\ blockedBy' = [blockedBy EXCEPT ![t] = OnMutex(m)]
                     /\ KeepScanning(FALSE)
                     /\ UNCHANGED mutexVars
    IN TimeoutWith(t, c, {}, remove, locked)

\* Mutant: a thread that timed out runs although its mutex is locked.
ScanCondTimeoutBarges(t, c) ==
    LET remove(queue) == Without(queue, t)
        locked(m) == Dispatch(t) /\ UNCHANGED mutexVars
    IN TimeoutWith(t, c, {t}, remove, locked)

\* Mutant: a deadline is looked at only while the mutex is free.
ScanCondTimeoutPatient(t, c) ==
    LET remove(queue) == Without(queue, t)
        locked(m) == FALSE
    IN TimeoutWith(t, c, {t}, remove, locked)

\* The deadline passed: t is dequeued and gets the mutex or waits for it.
ScanCondTimeout(t, c) ==
    /\ ExaminesWaiter(t, c)
    /\ c \in conds /\ currMutex[c] # NoObject
    /\ ~ MayWake(t, c)
    /\ blockedBy[t] = OnCond(c, TRUE)
    /\ IF t \in timedOut[c]
       THEN HostPanic /\ UNCHANGED <<blockedBy, mutexVars, condVars>>
       ELSE /\ timedOut' = [timedOut EXCEPT ![c] = @ \cup {t}]
            /\ waking' = [waking EXCEPT ![c] = Without(@, t)]
            /\ waiting' = [waiting EXCEPT ![c] = Without(@, t)]
            /\ UNCHANGED <<conds, currMutex>>
            /\ IF MutexIsLocked(currMutex[c])
               THEN /\ blockedBy' = [blockedBy EXCEPT ![t] =
                                         OnMutex(currMutex[c])]
                    /\ KeepScanning(FALSE)
                    /\ UNCHANGED mutexVars
               ELSE Relock(t, currMutex[c])
    /\ UNCHANGED <<len, active, suspended, frame, semVars, grace>>

\* Mutant: the deadline of a timed wait is not noted.
ScanCondWaitForgotten(t, c) ==
    /\ ExaminesWaiter(t, c)
    /\ c \in conds /\ currMutex[c] # NoObject
    /\ ~ MayWake(t, c)
    /\ KeepScanning(FALSE)
    /\ UNCHANGED <<len, active, blockedBy, suspended, frame, mutexVars,
                   condVars, semVars, grace>>

\* Neither woken nor timed out: an untimed wait leaves no deadline.
ScanCondWait(t, c) ==
    /\ ExaminesWaiter(t, c)
    /\ c \in conds /\ currMutex[c] # NoObject
    /\ ~ MayWake(t, c)
    /\ KeepScanning(blockedBy[t] = OnCond(c, TRUE))
    /\ UNCHANGED <<len, active, blockedBy, suspended, frame, mutexVars,
                   condVars, semVars, grace>>

-----------------------------------------------------------------------------
\* The scan found nobody.
ScanDone == phase = "schedule" /\ scan = len

\* Somebody has a deadline: sleep until about then and scan again.
SleepUntilAwakening ==
    /\ ScanDone
    /\ awakening
    /\ EnterScheduler
    /\ UNCHANGED <<len, active, blockedBy, suspended, frame, mutexVars,
                   condVars, semVars, grace>>

\* Mutant: the scans that found nobody are not counted.
DeclareDeadlockNever ==
    /\ ScanDone
    /\ ~ awakening
    /\ EnterScheduler
    /\ UNCHANGED <<len, active, blockedBy, suspended, frame, mutexVars,
                   condVars, semVars, grace>>

\* Nobody has: after MaxGrace more scans the scheduler panics.
DeclareDeadlock ==
    /\ ScanDone
    /\ ~ awakening
    /\ \/ /\ grace < MaxGrace
          /\ grace' = grace + 1
          /\ EnterScheduler
       \/ /\ grace = MaxGrace
          /\ grace' = 0
          /\ phase' = "deadlock"
          /\ UNCHANGED <<current, scan, awakening>>
    /\ UNCHANGED <<len, active, blockedBy, suspended, frame, mutexVars,
                   condVars, semVars>>

ScanStep ==
    \/ ScanSkip
    \/ \E t \in ThreadId :
        \/ ScanNotBlocked(t)
        \/ \E expired \in BOOLEAN : ScanSleeping(t, expired)
        \/ ScanMutex(t)
        \/ ScanSemaphore(t)
        \/ ScanJoining(t)
        \/ \E c \in Conds : \/ ScanCondGone(t, c)
                            \/ ScanCondWake(t, c)
                            \/ ScanCondTimeout(t, c)
                            \/ ScanCondWait(t, c)
    \/ SleepUntilAwakening
    \/ DeclareDeadlock

GuestStep ==
    \/ ThreadStep /\ UNCHANGED <<mutexVars, condVars, semVars, grace>>
    \/ MutexStep /\ UNCHANGED <<condVars, semVars, grace>>
    \/ CondStep /\ UNCHANGED <<semVars, grace>>
    \/ SemStep /\ UNCHANGED <<mutexVars, condVars, grace>>

Next == ScanStep \/ GuestStep

Spec == Init /\ [][Next]_vars

(***************************************************************************)
(* Fairness.  The main loop never stops scanning; the tick budget ends the *)
(* turn of every thread that does not yield by itself; a host call that    *)
(* was resumed runs to its end; and time goes on, so that a deadline the   *)
(* scan keeps looking at passes.  The guest itself promises nothing.       *)
(***************************************************************************)
TickBudget == Preempt /\ UNCHANGED <<mutexVars, condVars, semVars, grace>>

HostCallReturns == PthreadCondReturn /\ UNCHANGED <<semVars, grace>>

Fairness ==
    /\ WF_vars(ScanStep)
    /\ WF_vars(TickBudget)
    /\ WF_vars(HostCallReturns)
    /\ \A t \in ThreadId :
        /\ SF_vars(ScanSleeping(t, TRUE))
        /\ \A c \in Conds : SF_vars(ScanCondTimeout(t, c))

FairSpec == Spec /\ Fairness

-----------------------------------------------------------------------------
(***************************************************************************)
(* Type correctness.                                                       *)
(***************************************************************************)
ThreadBlock ==
    {NotBlocked, Sleeping} \cup {Joining(t) : t \in ThreadId}
        \cup {OnMutex(m) : m \in MutexId} \cup {OnSemaphore(s) : s \in Sems}
        \cup {OnCond(c, timed) : c \in Conds, timed \in BOOLEAN}

PhaseTypeOK ==
    /\ phase \in {"run", "schedule", "deadlock", "panic"}
    /\ awakening \in BOOLEAN

PositionTypeOK ==
    /\ len \in 1 .. MaxThreads
    /\ current \in Existing
    /\ scan \in 0 .. len

TableTypeOK ==
    /\ active \in [ThreadId -> BOOLEAN]
    /\ blockedBy \in [ThreadId -> ThreadBlock]
    /\ suspended \in [ThreadId -> 0 .. MaxSuspend]
    /\ frame \in [ThreadId -> [cond : Conds \cup {NoObject},
                              mutex : MutexId \cup {NoObject},
                              timed : BOOLEAN]]
    /\ \A t \in ThreadId \ Existing :
        /\ ~ active[t]
        /\ blockedBy[t] = NotBlocked
        /\ suspended[t] = 0
        /\ frame[t] = NoFrame

ThreadsTypeOK == PhaseTypeOK /\ PositionTypeOK /\ TableTypeOK

MutexTypeOK ==
    /\ mutexCount \in 0 .. MaxMutexes
    /\ mutexes \subseteq 0 .. mutexCount - 1
    /\ mutexType \in [MutexId -> MutexType]
    /\ owner \in [MutexId -> ThreadId \cup {NoThread}]
    /\ lockCount \in [MutexId -> 0 .. MaxLockCount]
    /\ waitingCount \in [MutexId -> Nat]
    /\ \A m \in MutexId : owner[m] = NoThread <=> lockCount[m] = 0

CondTypeOK ==
    /\ conds \subseteq Conds
    /\ waiting \in [Conds -> Seq(ThreadId)]
    /\ waking \in [Conds -> Seq(ThreadId)]
    /\ currMutex \in [Conds -> MutexId \cup {NoObject}]
    /\ timedOut \in [Conds -> SUBSET ThreadId]

SemTypeOK ==
    /\ openSems \subseteq Sems
    /\ semValue \in [Sems -> 0 .. MaxValue]
    /\ semWaiting \in [Sems -> SUBSET ThreadId]

\* Every variable has its type, the entries of threads that do not exist yet
\* are blank, and a mutex has an owner exactly while its lock count is not 0.
TypeOK ==
    ThreadsTypeOK /\ MutexTypeOK /\ CondTypeOK /\ SemTypeOK /\ grace \in 0 .. MaxGrace

-----------------------------------------------------------------------------
(***************************************************************************)
(* Safety.                                                                 *)
(***************************************************************************)
\* The thread whose coroutine runs is active and not blocked or suspended,
\* as both assertions of yield_thread say.
RunnerUnblocked ==
    phase = "run" => /\ active[current]
                     /\ blockedBy[current] = NotBlocked
                     /\ suspended[current] = 0

\* No sequence of calls of a guest that keeps every precondition, and that
\* destroys a condition variable only after all its waiters have returned,
\* makes an assertion or an unwrap() of the emulator fail.
NoHostPanic == phase # "panic"

BlockedOnCond(t, c) == blockedBy[t] \in {OnCond(c, TRUE), OnCond(c, FALSE)}

\* A thread is queued on a condition variable, once, exactly while it is
\* blocked on it: no waiter is forgotten by a signal, a broadcast or another
\* thread's timeout, and no thread that left is signalled in its place.
CondQueuesConsistent ==
    \A c \in Conds :
        /\ Distinct(waiting[c])
        /\ Distinct(waking[c])
        /\ Elems(waiting[c]) \cap Elems(waking[c]) = {}
        /\ \A t \in ThreadId :
            t \in Elems(waiting[c]) \cup Elems(waking[c]) <=> BlockedOnCond(t, c)

\* curr_mutex of a condition variable is the mutex each of its waiters gave
\* up, although one field serves them all.
CondMutexAgree ==
    \A t \in ThreadId, c \in Conds :
        BlockedOnCond(t, c) => /\ frame[t].cond = c
                               /\ frame[t].mutex = currMutex[c]

\* pthread_cond_wait and pthread_cond_timedwait return with the mutex they
\* were given locked by the caller: signalled, timed out, or timed out and
\* then blocked on the mutex.
ReturnsWithMutex ==
    phase = "run" /\ frame[current] # NoFrame =>
        owner[frame[current].mutex] = current

\* waiting_count is the number of threads that wait for the mutex, so that
\* destroy_mutex refuses exactly while there are some.
WaitingCountAccurate ==
    \A m \in mutexes :
        waitingCount[m] = Cardinality({t \in ThreadId : blockedBy[t] = OnMutex(m)})

\* A mutex that a thread waits for in lock_mutex is not destroyed: "Add to
\* the waiting count, so that the mutex isn't destroyed."
LockersKeepMutex ==
    \A t \in ThreadId, m \in MutexId :
        blockedBy[t] = OnMutex(m) /\ frame[t] = NoFrame => m \in mutexes

\* The scheduler could let t go on without any other thread's help.
Releasable(t) ==
    /\ active[t]
    /\ suspended[t] = 0
    /\ \/ blockedBy[t] \in {NotBlocked, Sleeping}
       \/ \E m \in MutexId : blockedBy[t] = OnMutex(m) /\ owner[m] = NoThread
       \/ \E s \in Sems : blockedBy[t] = OnSemaphore(s) /\ semValue[s] > 0
       \/ \E u \in ThreadId : blockedBy[t] = Joining(u) /\ ~ active[u]
       \/ \E c \in Conds :
            \/ blockedBy[t] = OnCond(c, TRUE)
            \/ /\ blockedBy[t] = OnCond(c, FALSE)
               /\ t \in Elems(waking[c])
               /\ ~ MutexIsLocked(currMutex[c])

\* "No active threads, program has deadlocked!" is true when the scheduler
\* panics with it: no thread could go on, now or after a deadline.
DeadlockPanicSound ==
    phase = "deadlock" => \A t \in ThreadId : ~ Releasable(t)

\* A scan that finds neither a thread nor a deadline is never followed by one
\* that does: the grace period the scheduler grants changes nothing.
DeadlockIsFinal == grace > 0 => phase \in {"schedule", "deadlock"}

\* The scheduler gives up exactly when nothing can change any more.
DeadlockVerdict == DeadlockPanicSound /\ DeadlockIsFinal

-----------------------------------------------------------------------------
(***************************************************************************)
(* The invariant, until a panic, of a guest that keeps the documented      *)
(* preconditions.  A thread with a frame is inside pthread_cond_wait; the  *)
(* invariant says where such a thread can be, and that what it is blocked  *)
(* on is still there.                                                      *)
(***************************************************************************)
\* Still queued, or timed out and waiting for the mutex, or just resumed.
FramePlace(t) ==
    \/ BlockedOnCond(t, frame[t].cond)
    \/ blockedBy[t] = OnMutex(frame[t].mutex) /\ frame[t].timed
    \/ /\ phase = "run" /\ t = current /\ owner[frame[t].mutex] = t
       /\ frame[t].timed \/ frame[t].cond \in conds

FramesConsistent ==
    \A t \in ThreadId :
        frame[t] # NoFrame => /\ frame[t].cond \in Conds
                              /\ frame[t].mutex \in mutexes
                              /\ FramePlace(t)

WaitersConsistent ==
    \A t \in ThreadId, c \in Conds :
        BlockedOnCond(t, c) =>
            /\ c \in conds
            /\ frame[t] = Frame(c, currMutex[c], blockedBy[t] = OnCond(c, TRUE))
            /\ t \notin timedOut[c]

TimedOutConsistent ==
    \A t \in ThreadId, c \in Conds :
        t \in timedOut[c] => frame[t].cond = c /\ frame[t].timed

AwaitedExists ==
    \A t \in ThreadId :
        /\ \A m \in MutexId : blockedBy[t] = OnMutex(m) => m \in mutexes
        /\ \A s \in Sems : blockedBy[t] = OnSemaphore(s) => s \in openSems

LawfulInv ==
    /\ NoHostPanic
    /\ RunnerUnblocked
    /\ CondQueuesConsistent
    /\ FramesConsistent
    /\ WaitersConsistent
    /\ TimedOutConsistent
    /\ AwaitedExists

-----------------------------------------------------------------------------
(***************************************************************************)
(* Action properties.                                                      *)
(***************************************************************************)
\* Only its owner, while it runs, gives up a mutex, and the scheduler grants
\* a mutex only if it is free and only to the thread it dispatches.
HandsOver ==
    \A m \in MutexId :
        owner'[m] # owner[m] =>
            \/ owner[m] = NoThread /\ owner'[m] = current' /\ phase' = "run"
            \/ owner[m] = current /\ owner'[m] = NoThread /\ phase = "run"

MutexHandover == [][HandsOver]_vars

\* The threads that a step lets through a semaphore.
Passes(s) == {t \in ThreadId : /\ blockedBy[t] = OnSemaphore(s)
                               /\ blockedBy'[t] # OnSemaphore(s)}

\* The threads a scan lets through a semaphore are as many as the permits it
\* takes from it; the guest's own calls let nobody else through.
TakesPermits ==
    \A s \in openSems \cap openSems' :
        Cardinality(Passes(s)) = IF phase = "schedule" THEN semValue[s] - semValue'[s] ELSE 0

SemaphorePermits == [][TakesPermits]_vars

\* Nobody gets past a mutex or a semaphore that was not granted to it.
GrantsExact == MutexHandover /\ SemaphorePermits

\* The step destroys a condition variable all of whose waiters are signalled,
\* before they are through: cond.rs asserts that `waking` is empty.
DestroysSignalled ==
    /\ phase = "run"
    /\ frame[current] = NoFrame
    /\ \E c \in conds \ conds' : waiting[c] = <<>> /\ waking[c] # <<>>

\* The step ends a wait that timed out and whose condition variable was
\* destroyed while it waited for the mutex: cond.rs unwraps its entry.
ReturnsToDestroyed ==
    /\ phase = "run"
    /\ frame[current] # NoFrame
    /\ frame[current].timed
    /\ frame[current].cond \notin conds

\* The only assertions and unwraps of the emulator that a guest can make fail
\* which keeps what POSIX asks are the two that a pthread_cond_destroy meets
\* that comes after the last waiter was signalled or timed out, but before it
\* has returned.
OnlyDestroyPanicsStep ==
    phase # "panic" /\ phase' = "panic" => DestroysSignalled \/ ReturnsToDestroyed

OnlyDestroyPanics == [][OnlyDestroyPanicsStep]_vars

-----------------------------------------------------------------------------
(***************************************************************************)
(* Liveness, under FairSpec.                                               *)
(***************************************************************************)
Stopped == phase \in {"deadlock", "panic"}

\* The scheduler always comes to a decision: a thread to run, or a panic.
SchedulerDecides == phase = "schedule" ~> phase # "schedule"

\* Round robin: a thread that is not blocked gets its turn, whatever the
\* others do, unless one of them suspends it.
RunnableRuns ==
    \A t \in ThreadId :
        active[t] /\ blockedBy[t] = NotBlocked
            ~> (phase = "run" /\ current = t) \/ suspended[t] > 0 \/ Stopped

\* A wait with a deadline leaves the condition variable, even if nobody ever
\* signals it and even while another thread keeps the mutex.
TimedWaitEnds ==
    \A t \in ThreadId, c \in Conds :
        blockedBy[t] = OnCond(c, TRUE)
            ~> blockedBy[t] # OnCond(c, TRUE) \/ suspended[t] > 0 \/ Stopped
=============================================================================
