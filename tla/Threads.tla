------------------------------ MODULE Threads ------------------------------
(***************************************************************************)
(* The thread table of `Environment` (src/src/environment.rs) and the      *)
(* calls that create, block, suspend and end threads.                      *)
(*                                                                         *)
(* Guest threads are coroutines on one host thread.  At any moment either  *)
(* the coroutine of `current` runs (phase "run"), or the main loop `run`   *)
(* is inside `schedule_next_thread` (phase "schedule").  A Rust panic ends *)
(* the emulator: "deadlock" is the scheduler's own, "panic" any failed     *)
(* assert!, unwrap() or checked arithmetic.                                *)
(***************************************************************************)
EXTENDS Naturals, Sequences, FiniteSets

CONSTANTS
    MaxThreads,  \* bound on threads.len(): the code has none
    NoThread,    \* Option<ThreadId>::None
    NoObject,    \* the payload of a ThreadBlock variant that has none
    MaxSuspend,  \* bound on the suspend count of ThreadBlock::Suspended
    GuestOps,    \* the calls this guest program makes
    Misuse       \* the documented preconditions this guest program breaks

ThreadId == 0 .. MaxThreads - 1

ASSUME ThreadsAssumption ==
    /\ MaxThreads \in Nat \ {0}
    /\ MaxSuspend \in Nat \ {0}
    /\ NoThread \notin ThreadId

VARIABLES
    phase,      \* "run", "schedule", "deadlock" or "panic"
    current,    \* Environment::current_thread
    len,        \* Environment::threads.len(); entries are never removed
    active,     \* Thread::active
    blockedBy,  \* Thread::blocked_by, without a Suspended wrapper
    suspended,  \* the count of the Suspended wrapper, 0 when there is none
    scan,       \* i, the loop variable of schedule_next_thread
    awakening,  \* next_awakening.is_some()
    frame       \* the host call that goes on when the thread is resumed

schedVars  == <<phase, current, scan, awakening>>
threadVars == <<phase, current, len, active, blockedBy, suspended, scan,
                awakening, frame>>

(***************************************************************************)
(* ThreadBlock.  A timed and an untimed condition wait are two kinds, for  *)
(* the Option<Duration> of ThreadBlock::Condition; the instants themselves *)
(* are abstracted to "has the deadline passed", which the scan chooses.    *)
(***************************************************************************)
NotBlocked == [kind |-> "NotBlocked", on |-> NoObject]
Sleeping   == [kind |-> "Sleeping", on |-> NoObject]
Joining(t) == [kind |-> "Joining", on |-> t]

\* The call stack of a thread that is not inside a condition wait.
NoFrame == [cond |-> NoObject, mutex |-> NoObject, timed |-> FALSE]

Existing == 0 .. len - 1

\* The guest may break the precondition P only if Misuse names it.
Lawful(precondition, P) == precondition \in Misuse \/ P

\* The coroutine of `current` runs guest code and makes the call op.
Calls(op) == phase = "run" /\ frame[current] = NoFrame /\ op \in GuestOps

ThreadsInit ==
    /\ phase = "run"
    /\ current = 0
    /\ len = 1
    /\ active = [t \in ThreadId |-> t = 0]
    /\ blockedBy = [t \in ThreadId |-> NotBlocked]
    /\ suspended = [t \in ThreadId |-> 0]
    /\ scan = 0
    /\ awakening = FALSE
    /\ frame = [t \in ThreadId |-> NoFrame]

\* The main loop takes over and calls schedule_next_thread.
EnterScheduler ==
    /\ phase' = "schedule"
    /\ scan' = 0
    /\ awakening' = FALSE
    /\ UNCHANGED current

\* yield_thread: the coroutine suspends until `block` is lifted.
YieldThread(block) ==
    /\ blockedBy' = [blockedBy EXCEPT ![current] = block]
    /\ EnterScheduler

HostPanic == phase' = "panic" /\ UNCHANGED <<current, scan, awakening>>

-----------------------------------------------------------------------------
\* run_inner: the budget of 100,000 ticks is used up.
Preempt ==
    /\ phase = "run"
    /\ frame[current] = NoFrame
    /\ YieldThread(NotBlocked)
    /\ UNCHANGED <<len, active, suspended, frame>>

NewThread ==
    /\ Calls("new_thread")
    /\ len < MaxThreads
    /\ len' = len + 1
    /\ active' = [active EXCEPT ![len] = TRUE]
    /\ blockedBy' = [blockedBy EXCEPT ![len] = NotBlocked]
    /\ UNCHANGED <<schedVars, suspended, frame>>

\* The start routine returned: the coroutine of a secondary thread ends.
ThreadExit ==
    /\ Calls("exit")
    /\ current # 0
    /\ active' = [active EXCEPT ![current] = FALSE]
    /\ EnterScheduler
    /\ UNCHANGED <<len, blockedBy, suspended, frame>>

Sleep ==
    /\ Calls("sleep")
    /\ YieldThread(Sleeping)
    /\ UNCHANGED <<len, active, suspended, frame>>

JoinWithThread(t) ==
    /\ Calls("join")
    /\ t \in Existing \ {0, current}
    /\ YieldThread(Joining(t))
    /\ UNCHANGED <<len, active, suspended, frame>>

\* A thread that suspends itself yields; another one is only marked.
SuspendThread(t) ==
    /\ Calls("suspend")
    /\ t \in Existing
    /\ suspended[t] < MaxSuspend
    /\ suspended' = [suspended EXCEPT ![t] = @ + 1]
    /\ IF t = current THEN EnterScheduler ELSE UNCHANGED schedVars
    /\ UNCHANGED <<len, active, blockedBy, frame>>

\* Resuming a thread that is not suspended only logs a warning.
ResumeThread(t) ==
    /\ Calls("resume")
    /\ t \in Existing
    /\ suspended[t] > 0
    /\ suspended' = [suspended EXCEPT ![t] = @ - 1]
    /\ UNCHANGED <<schedVars, len, active, blockedBy, frame>>

ThreadStep ==
    \/ Preempt
    \/ NewThread
    \/ ThreadExit
    \/ Sleep
    \/ \E t \in ThreadId : JoinWithThread(t) \/ SuspendThread(t)
                               \/ ResumeThread(t)
=============================================================================
