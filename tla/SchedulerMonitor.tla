-------------------------- MODULE SchedulerMonitor --------------------------
(***************************************************************************)
(* Scheduler implements Monitor: the mapping.  The scheduler's position,   *)
(* the order of the queues, the thread that runs and the blocks of threads *)
(* are hidden; what is left of a wait is read off the frame, the block and *)
(* the queues of its thread.                                               *)
(***************************************************************************)
EXTENDS Scheduler

\* How far the wait of t has come.
WaitAt(t) ==
    IF frame[t] = NoFrame THEN "outside"
    ELSE IF BlockedOnCond(t, frame[t].cond)
    THEN IF t \in Elems(waking[frame[t].cond]) THEN "woken" ELSE "waiting"
    ELSE IF blockedBy[t] = OnMutex(frame[t].mutex) THEN "late" ELSE "back"

WaitOf(t) ==
    [at |-> WaitAt(t), cond |-> frame[t].cond, mutex |-> frame[t].mutex,
     timed |-> frame[t].timed,
     expired |-> frame[t] # NoFrame /\ t \in timedOut[frame[t].cond]]

waits == [t \in ThreadId |-> WaitOf(t)]

Mesa == INSTANCE Monitor
            WITH Threads <- ThreadId, Mutexes <- MutexId, Nobody <- NoThread,
                 Nothing <- NoObject, holder <- owner, depth <- lockCount,
                 visit <- waits

\* Threads that share mutexes and condition variables through the scheduler
\* observe a Mesa monitor: pthread_cond_wait is atomic, no wait ends without a
\* signal or a deadline of its own, and its result tells which.
ImplementsMonitor == Mesa!Spec
=============================================================================
