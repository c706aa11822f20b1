-------------------------------- MODULE Cond --------------------------------
(***************************************************************************)
(* pthread condition variables (src/src/libc/pthread/cond.rs).  A waiter   *)
(* is queued in `waiting`, moved to `waking` when it is signalled, and let *)
(* through by the scheduler, which relocks the mutex for it.               *)
(***************************************************************************)
EXTENDS Mutex, Queues

CONSTANT Conds  \* the addresses the guest keeps its pthread_cond_t at

ASSUME CondAssumption == NoObject \notin Conds \cup MutexId

VARIABLES
    conds,      \* the keys of State::condition_variables
    waiting,    \* CondHostObject::waiting, a queue of threads
    waking,     \* CondHostObject::waking, a queue of threads
    currMutex,  \* CondHostObject::curr_mutex, NoObject for None
    timedOut    \* CondHostObject::timed_out, a set of threads

condVars == <<conds, waiting, waking, currMutex, timedOut>>

OnCond(c, timed) ==
    [kind |-> IF timed THEN "TimedCondition" ELSE "Condition", on |-> c]

Frame(c, m, timed) == [cond |-> c, mutex |-> m, timed |-> timed]

\* A pthread_cond_t starts as PTHREAD_COND_INITIALIZER, which
\* check_or_register_cond turns into an initialised one at its first use.
CondInit ==
    /\ conds = Conds
    /\ waiting = [c \in Conds |-> <<>>]
    /\ waking = [c \in Conds |-> <<>>]
    /\ currMutex = [c \in Conds |-> NoObject]
    /\ timedOut = [c \in Conds |-> {}]

-----------------------------------------------------------------------------
\* unwrap() of the entry of a variable that was destroyed: its magic number
\* stays MAGIC_COND, so check_or_register_cond lets it through.
CondGone(c) ==
    /\ c \notin conds
    /\ HostPanic
    /\ UNCHANGED <<condVars, len, active, blockedBy, suspended, frame>>

\* pthread_cond_init replaces whatever was registered at the address.  One
\* that was destroyed may be created again while late waiters still return.
PthreadCondInit(c) ==
    /\ Calls("cond_init")
    /\ Lawful("reinit_awaited_cond",
              c \in conds => \A t \in Existing : frame[t].cond # c)
    /\ conds' = conds \cup {c}
    /\ waiting' = [waiting EXCEPT ![c] = <<>>]
    /\ waking' = [waking EXCEPT ![c] = <<>>]
    /\ currMutex' = [currMutex EXCEPT ![c] = NoObject]
    /\ timedOut' = [timedOut EXCEPT ![c] = {}]
    /\ UNCHANGED <<mutexVars, threadVars>>

\* assert!(waiting.is_empty() && waking.is_empty()) after the removal.  POSIX
\* asks that every waiter is signalled or timed out.  "destroy_signalled_cond"
\* names what the code needs beyond POSIX: that they all have returned.
PthreadCondDestroy(c) ==
    /\ Calls("cond_destroy")
    /\ Lawful("use_destroyed_cond", c \in conds)
    /\ Lawful("destroy_awaited_cond", waiting[c] = <<>>)
    /\ Lawful("destroy_signalled_cond", \A t \in Existing : frame[t].cond # c)
    /\ \/ CondGone(c)
       \/ /\ c \in conds
          /\ conds' = conds \ {c}
          /\ IF waiting[c] = <<>> /\ waking[c] = <<>>
             THEN UNCHANGED schedVars
             ELSE HostPanic
          /\ UNCHANGED <<waiting, waking, currMutex, timedOut>>
    /\ UNCHANGED <<mutexVars, len, active, blockedBy, suspended, frame>>

\* Mutant: only the waiters that are not signalled yet are looked at.
SameMutexWaiting(c, m) == currMutex[c] = m \/ waiting[c] = <<>>

\* assert!(the waiters of c, if it has any, gave up the mutex m)
SameMutex(c, m) == currMutex[c] = m \/ (waiting[c] = <<>> /\ waking[c] = <<>>)

\* pthread_cond_wait and pthread_cond_timedwait up to their yield_thread.
\* A mutex the caller may not unlock makes them return its error.
PthreadCondWait(c, m, timed) ==
    /\ Calls("cond_wait")
    /\ Lawful("use_destroyed_cond", c \in conds)
    /\ m \in mutexes
    /\ Lawful("wait_with_two_mutexes",
              \A t \in Existing :
                  blockedBy[t] \in {OnCond(c, TRUE), OnCond(c, FALSE)}
                      => frame[t].mutex = m)
    /\ Lawful("unlock_for_another_thread", owner[m] = current)
    /\ MayUnlock(m)
    /\ Release(m)
    /\ UNCHANGED <<lockVars, conds, waking, timedOut, len, active, suspended>>
    /\ \/ CondGone(c)
       \/ /\ c \in conds /\ ~ SameMutex(c, m)
          /\ HostPanic
          /\ UNCHANGED <<waiting, currMutex, blockedBy, frame>>
       \/ /\ c \in conds /\ SameMutex(c, m)
          /\ currMutex' = [currMutex EXCEPT ![c] = m]
          /\ waiting' = [waiting EXCEPT ![c] = Append(@, current)]
          /\ frame' = [frame EXCEPT ![current] = Frame(c, m, timed)]
          /\ YieldThread(OnCond(c, timed))

\* Mutant: a thread that timed out stays in timed_out.
PthreadCondReturnKeeps ==
    /\ phase = "run"
    /\ frame[current] # NoFrame
    /\ frame' = [frame EXCEPT ![current] = NoFrame]
    /\ UNCHANGED <<schedVars, condVars, mutexVars, len, active, blockedBy,
                   suspended>>

\* Their tail, after yield_thread returned: the result is ETIMEDOUT if the
\* thread is in timed_out, which an untimed wait asserts it is not.
PthreadCondReturn ==
    /\ phase = "run"
    /\ frame[current] # NoFrame
    /\ LET c == frame[current].cond IN
       \/ /\ \/ c \notin conds
             \/ ~ frame[current].timed /\ current \in timedOut[c]
          /\ HostPanic
          /\ UNCHANGED <<timedOut, frame>>
       \/ /\ c \in conds
          /\ frame[current].timed \/ current \notin timedOut[c]
          /\ timedOut' = [timedOut EXCEPT ![c] = @ \ {current}]
          /\ frame' = [frame EXCEPT ![current] = NoFrame]
          /\ UNCHANGED schedVars
    /\ UNCHANGED <<conds, waiting, waking, currMutex, mutexVars, len, active,
                   blockedBy, suspended>>

PthreadCondSignal(c) ==
    /\ Calls("cond_signal")
    /\ Lawful("use_destroyed_cond", c \in conds)
    /\ \/ CondGone(c)
       \/ /\ c \in conds
          /\ waiting[c] # <<>>
          /\ waking' = [waking EXCEPT ![c] = Append(@, Head(waiting[c]))]
          /\ waiting' = [waiting EXCEPT ![c] = Tail(@)]
          /\ UNCHANGED <<conds, currMutex, timedOut, threadVars>>
    /\ UNCHANGED mutexVars

PthreadCondBroadcast(c) ==
    /\ Calls("cond_broadcast")
    /\ Lawful("use_destroyed_cond", c \in conds)
    /\ \/ CondGone(c)
       \/ /\ c \in conds
          /\ waking' = [waking EXCEPT ![c] = @ \o waiting[c]]
          /\ waiting' = [waiting EXCEPT ![c] = <<>>]
          /\ UNCHANGED <<conds, currMutex, timedOut, threadVars>>
    /\ UNCHANGED mutexVars

CondStep ==
    \/ PthreadCondReturn
    \/ \E c \in Conds :
        \/ PthreadCondInit(c)
        \/ PthreadCondDestroy(c)
        \/ PthreadCondSignal(c)
        \/ PthreadCondBroadcast(c)
        \/ \E m \in MutexId, timed \in BOOLEAN : PthreadCondWait(c, m, timed)
=============================================================================
