----------------------------- MODULE GuestCalls -----------------------------
(***************************************************************************)
(* The host functions that guest threads are inside of, as the Foundation  *)
(* modules use them.  A host function is not interrupted: another thread   *)
(* runs only while every thread executes guest code or sleeps, because the *)
(* scheduler is entered from there alone (Environment::run_inner,          *)
(* src/src/environment.rs).                                                *)
(***************************************************************************)
EXTENDS Naturals, Sequences, SequencesExt

CONSTANTS
    Threads,   \* guest threads
    MaxCalls,  \* bound on the nesting of host functions in a thread
    Misuse     \* the things the guest program does that it ought not to

ASSUME CallsAssumption == MaxCalls \in Nat

VARIABLES
    calls,     \* the host functions each thread is inside of, innermost last
    host       \* "up", or "panic" after a failed assert! or unwrap()

\* Stages in which a host function has called guest code, or sleeps.
GuestStages == {"callback", "main", "completion", "copy", "dealloc"}

Top(th) == Last(calls[th])

\* Guest code of th runs and may call the host.
InGuest(th) == calls[th] # <<>> => Top(th).stage \in GuestStages

Interruptible(th) ==
    calls[th] # <<>> => Top(th).stage \in GuestStages \cup {"sleep"}

GuestRuns(th) ==
    /\ host = "up"
    /\ InGuest(th)
    /\ \A u \in Threads : Interruptible(u)

\* The innermost host function of th is at this stage and runs.
At(th, kind, stage) ==
    /\ host = "up"
    /\ calls[th] # <<>>
    /\ Top(th).kind = kind
    /\ Top(th).stage = stage
    /\ \A u \in Threads \ {th} : Interruptible(u)

CanCall(th) == GuestRuns(th) /\ Len(calls[th]) < MaxCalls

Enter(th, call) == calls' = [calls EXCEPT ![th] = Append(@, call)]

Continue(th, call) == calls' = [calls EXCEPT ![th] = Append(Front(@), call)]

Leave(th) == calls' = [calls EXCEPT ![th] = Front(@)]

\* Every host function that some thread is inside of.
AllCalls == UNION {Range(calls[th]) : th \in Threads}

\* The guest may break the precondition P only if Misuse names it.
Lawful(precondition, P) == precondition \notin Misuse => P
=============================================================================
