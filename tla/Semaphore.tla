----------------------------- MODULE Semaphore -----------------------------
(***************************************************************************)
(* POSIX semaphores (src/src/libc/semaphore.rs) and the blocking half of   *)
(* them in Environment (sem_decrement, sem_increment).                     *)
(***************************************************************************)
EXTENDS Threads

CONSTANTS
    Sems,      \* the addresses the guest keeps its sem_t at
    MaxValue   \* bound on a semaphore's value: the code's is that of i32

ASSUME SemaphoreAssumption == MaxValue \in Nat

VARIABLES
    openSems,    \* the keys of State::open_semaphores
    semValue,    \* SemaphoreHostObject::value
    semWaiting   \* SemaphoreHostObject::waiting

semVars == <<openSems, semValue, semWaiting>>

OnSemaphore(s) == [kind |-> "Semaphore", on |-> s]

SemaphoreInit ==
    /\ openSems = {}
    /\ semValue = [s \in Sems |-> 0]
    /\ semWaiting = [s \in Sems |-> {}]

-----------------------------------------------------------------------------
\* Initialising an open semaphore again leaves it as it is.
SemInit(s, value) ==
    /\ Calls("sem_init")
    /\ s \notin openSems
    /\ openSems' = openSems \cup {s}
    /\ semValue' = [semValue EXCEPT ![s] = value]
    /\ semWaiting' = [semWaiting EXCEPT ![s] = {}]
    /\ UNCHANGED threadVars

SemDestroy(s) ==
    /\ Calls("sem_destroy")
    /\ s \in openSems
    /\ Lawful("destroy_awaited_semaphore",
              \A t \in Existing : blockedBy[t] # OnSemaphore(s))
    /\ openSems' = openSems \ {s}
    /\ UNCHANGED <<semValue, semWaiting, threadVars>>

SemPost(s) ==
    /\ Calls("sem_post")
    /\ s \in openSems
    /\ semValue[s] < MaxValue
    /\ semValue' = [semValue EXCEPT ![s] = @ + 1]
    /\ UNCHANGED <<openSems, semWaiting, threadVars>>

\* sem_trywait differs only where the value is 0: it fails instead.
SemWait(s) ==
    /\ Calls("sem_wait")
    /\ s \in openSems
    /\ \/ /\ semValue[s] > 0
          /\ semValue' = [semValue EXCEPT ![s] = @ - 1]
          /\ UNCHANGED <<openSems, semWaiting, threadVars>>
       \/ /\ semValue[s] = 0
          /\ semWaiting' = [semWaiting EXCEPT ![s] = @ \cup {current}]
          /\ YieldThread(OnSemaphore(s))
          /\ UNCHANGED <<openSems, semValue, len, active, suspended, frame>>

SemStep ==
    \E s \in Sems :
        \/ \E value \in 0 .. MaxValue : SemInit(s, value)
        \/ SemDestroy(s)
        \/ SemPost(s)
        \/ SemWait(s)
=============================================================================
