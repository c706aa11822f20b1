------------------------------ MODULE Monitor ------------------------------
(***************************************************************************)
(* What guest threads are promised of mutexes and condition variables: a   *)
(* Mesa monitor with deadlines.  There is no scheduler here, no queue and  *)
(* no thread that runs, only what the threads can observe: who holds a     *)
(* mutex, and how far each call of pthread_cond_wait or                    *)
(* pthread_cond_timedwait has come.                                        *)
(*                                                                         *)
(* A wait gives up its mutex and starts to wait in one step.  It goes on   *)
(* only after a signal or its own deadline, with the mutex, and it reports *)
(* ETIMEDOUT exactly if it was the deadline.                               *)
(***************************************************************************)
EXTENDS Naturals

CONSTANTS Threads, Mutexes, Conds, Nobody, Nothing

VARIABLES
    holder,  \* of each mutex, the thread that holds it, or Nobody
    depth,   \* of each mutex, how often its holder locked it
    visit    \* of each thread, the wait it is in

lockVars == <<holder, depth>>
vars     == <<holder, depth, visit>>

Visit(at, c, m, timed, expired) ==
    [at |-> at, cond |-> c, mutex |-> m, timed |-> timed, expired |-> expired]

\* The wait v, come as far as `at`.
Stage(v, at, expired) == Visit(at, v.cond, v.mutex, v.timed, expired)

Outside == Visit("outside", Nothing, Nothing, FALSE, FALSE)

Init ==
    /\ holder = [m \in Mutexes |-> Nobody]
    /\ depth = [m \in Mutexes |-> 0]
    /\ visit = [t \in Threads |-> Outside]

-----------------------------------------------------------------------------
Grant(t, m) ==
    /\ holder[m] = Nobody
    /\ holder' = [holder EXCEPT ![m] = t]
    /\ depth' = [depth EXCEPT ![m] = 1]

GiveUp(t, m) ==
    /\ holder[m] = t
    /\ depth' = [depth EXCEPT ![m] = @ - 1]
    /\ holder' = [holder EXCEPT ![m] = IF depth[m] = 1 THEN Nobody ELSE @]

Lock(t, m) ==
    /\ visit[t] = Outside
    /\ \/ Grant(t, m)
       \/ /\ holder[m] = t
          /\ depth' = [depth EXCEPT ![m] = @ + 1]
          /\ UNCHANGED holder
    /\ UNCHANGED visit

Unlock(t, m) ==
    /\ visit[t] = Outside
    /\ GiveUp(t, m)
    /\ UNCHANGED visit

-----------------------------------------------------------------------------
\* The threads that wait for a signal on c, and those that have had one.
Sleepers(c) == {t \in Threads : visit[t].at = "waiting" /\ visit[t].cond = c}

Woken(c) == {t \in Threads : visit[t].at = "woken" /\ visit[t].cond = c}

Wait(t, c, m, timed) ==
    /\ visit[t] = Outside
    /\ \A u \in Sleepers(c) \cup Woken(c) : visit[u].mutex = m
    /\ GiveUp(t, m)
    /\ visit' = [visit EXCEPT ![t] = Visit("waiting", c, m, timed, FALSE)]

\* A signal reaches one of those that wait, a broadcast all of them.
Wakes(signalled) ==
    visit' = [t \in Threads |-> IF t \in signalled
                                THEN Stage(visit[t], "woken", FALSE)
                                ELSE visit[t]]

Signal(c) ==
    /\ \E t \in Sleepers(c) : Wakes({t})
    /\ UNCHANGED lockVars

Broadcast(c) ==
    /\ Wakes(Sleepers(c))
    /\ UNCHANGED lockVars

\* The thread gets its mutex back, and its call goes on.
Resume(t, m) ==
    /\ visit[t].at \in {"woken", "late"}
    /\ visit[t].mutex = m
    /\ Grant(t, m)
    /\ visit' = [visit EXCEPT ![t] = Stage(@, "back", @.expired)]

\* The deadline passes, signalled or not: with the mutex, or in want of it.
Expire(t, m) ==
    /\ visit[t].at \in {"waiting", "woken"}
    /\ visit[t].timed
    /\ visit[t].mutex = m
    /\ \/ /\ Grant(t, m)
          /\ visit' = [visit EXCEPT ![t] = Stage(@, "back", TRUE)]
       \/ /\ visit' = [visit EXCEPT ![t] = Stage(@, "late", TRUE)]
          /\ UNCHANGED lockVars

Return(t) ==
    /\ visit[t].at = "back"
    /\ holder[visit[t].mutex] = t
    /\ visit' = [visit EXCEPT ![t] = Outside]
    /\ UNCHANGED lockVars

Next ==
    \/ \E t \in Threads, m \in Mutexes :
        \/ Lock(t, m) \/ Unlock(t, m) \/ Resume(t, m) \/ Expire(t, m)
        \/ \E c \in Conds, timed \in BOOLEAN : Wait(t, c, m, timed)
    \/ \E c \in Conds : Signal(c) \/ Broadcast(c)
    \/ \E t \in Threads : Return(t)

Spec == Init /\ [][Next]_vars
=============================================================================
