----------------------------- MODULE Operations -----------------------------
(***************************************************************************)
(* NSOperation and NSOperationQueue                                        *)
(* (src/src/frameworks/foundation/ns_operation.rs): a queue runs an        *)
(* operation in addOperation:, in the thread that adds it.                 *)
(***************************************************************************)
EXTENDS GuestCalls, Naturals, FiniteSets

CONSTANTS
    Ops,       \* operations
    Queues     \* operation queues

VARIABLES
    opState,   \* NSOperationHostObject::state
    cancelled, \* NSOperationHostObject::cancelled
    deps,      \* NSOperationHostObject::dependencies
    queued,    \* NSOperationQueueHostObject::operations
    suspended, \* NSOperationQueueHostObject::suspended
    returned   \* history: operations whose addOperation: has returned

opVars == <<opState, cancelled, deps, queued, suspended, returned>>

\* `start`, called by addOperation: (queue = {q}) or the guest (queue = {}).
StartCall(o, queue) ==
    [kind |-> "start", stage |-> "main", op |-> o, queue |-> queue]

OperationsInit ==
    /\ opState = [o \in Ops |-> "Ready"]
    /\ cancelled = [o \in Ops |-> FALSE]
    /\ deps = [o \in Ops |-> {}]
    /\ queued = [q \in Queues |-> {}]
    /\ suspended = [q \in Queues |-> FALSE]
    /\ returned = {}

IsReady(o) == opState[o] = "Ready" /\ \A d \in deps[o] : opState[d] = "Finished"

\* `start` of an operation that is Ready: a cancelled one finishes at once.
Start(th, o, queue) ==
    \/ /\ cancelled[o]
       /\ opState' = [opState EXCEPT ![o] = "Finished"]
       /\ returned' = IF queue = {} THEN returned ELSE returned \cup {o}
       /\ UNCHANGED <<calls, queued>>
    \/ /\ ~cancelled[o]
       /\ opState' = [opState EXCEPT ![o] = "Executing"]
       /\ queued' = [q \in Queues |-> IF q \in queue THEN queued[q] \cup {o} ELSE queued[q]]
       /\ Enter(th, StartCall(o, queue))
       /\ UNCHANGED returned

-----------------------------------------------------------------------------
\* [op start] by the guest, which is to wait for the dependencies itself: the
\* code only warns.
StartOperation(th, o) ==
    /\ CanCall(th)
    /\ opState[o] = "Ready"
    /\ Lawful("start_early", IsReady(o))
    /\ Start(th, o, {})
    /\ UNCHANGED <<cancelled, deps, suspended, host>>

\* addOperation: of an operation that the queue runs.
AddOperation(th, o, q) ==
    /\ CanCall(th)
    /\ ~suspended[q]
    /\ IsReady(o)
    /\ Start(th, o, {q})
    /\ UNCHANGED <<cancelled, deps, suspended, host>>

\* addOperation: of one that it does not run.  The entry it makes goes again
\* before guest code runs (unless the guest overrides isReady, which is not
\* modelled), so it is not shown.  (removeObject: finds the entry of an
\* addOperation: that is running it too, and removes one of the two, as the
\* second index is then out of bounds.)
DropOperation(th, o, q) ==
    /\ GuestRuns(th)
    /\ (IsReady(o) => suspended[q])
    /\ returned' = returned \cup {o}
    /\ UNCHANGED <<opState, cancelled, deps, queued, suspended, calls, host>>

\* `main` returns; the completion block is called, if there is one.
EndMain(th) ==
    /\ At(th, "start", "main")
    /\ opState' = [opState EXCEPT ![Top(th).op] = "Finished"]
    /\ \/ Continue(th, [Top(th) EXCEPT !.stage = "completion"])
       \/ Continue(th, [Top(th) EXCEPT !.stage = "end"])
    /\ UNCHANGED <<cancelled, deps, queued, suspended, returned, host>>

EndCompletion(th) ==
    /\ At(th, "start", "completion")
    /\ Continue(th, [Top(th) EXCEPT !.stage = "end"])
    /\ UNCHANGED <<opVars, host>>

\* Mutant: the operation stays in its queue.
KeepQueued(c) == UNCHANGED queued

Dequeue(c) ==
    queued' = [q \in Queues |-> IF q \in c.queue THEN queued[q] \ {c.op} ELSE queued[q]]

EndStart(th) ==
    /\ At(th, "start", "end")
    /\ Dequeue(Top(th))
    /\ Leave(th)
    /\ returned' = IF Top(th).queue = {} THEN returned ELSE returned \cup {Top(th).op}
    /\ UNCHANGED <<opState, cancelled, deps, suspended, host>>

AcceptsDependency(o) == opState[o] = "Ready"

AddDependency(th, o, d) ==
    /\ GuestRuns(th)
    /\ d # o
    /\ AcceptsDependency(o)
    /\ deps' = [deps EXCEPT ![o] = @ \cup {d}]
    /\ UNCHANGED <<opState, cancelled, queued, suspended, returned, calls, host>>

RemoveDependency(th, o, d) ==
    /\ GuestRuns(th)
    /\ d \in deps[o]
    /\ deps' = [deps EXCEPT ![o] = @ \ {d}]
    /\ UNCHANGED <<opState, cancelled, queued, suspended, returned, calls, host>>

Cancel(th, o) ==
    /\ GuestRuns(th)
    /\ cancelled' = [cancelled EXCEPT ![o] = TRUE]
    /\ UNCHANGED <<opState, deps, queued, suspended, returned, calls, host>>

CancelAllOperations(th, q) ==
    /\ GuestRuns(th)
    /\ queued[q] # {}
    /\ cancelled' = [o \in Ops |-> cancelled[o] \/ o \in queued[q]]
    /\ UNCHANGED <<opState, deps, queued, suspended, returned, calls, host>>

\* setSuspended: NO goes on to start the operations of the queue that are ready
\* and not started.  There are none, as QueuedAreStarted says of every state,
\* so that the loop over them changes nothing.
SetSuspended(th, q, suspend) ==
    /\ GuestRuns(th)
    /\ suspended[q] # suspend
    /\ suspended' = [suspended EXCEPT ![q] = suspend]
    /\ UNCHANGED <<opState, cancelled, deps, queued, returned, calls, host>>

OperationCalls(th) ==
    \/ \E o \in Ops :
           \/ StartOperation(th, o)
           \/ Cancel(th, o)
           \/ \E q \in Queues : AddOperation(th, o, q) \/ DropOperation(th, o, q)
           \/ \E d \in Ops : AddDependency(th, o, d) \/ RemoveDependency(th, o, d)
    \/ \E q \in Queues :
           \/ CancelAllOperations(th, q)
           \/ \E suspend \in BOOLEAN : SetSuspended(th, q, suspend)

-----------------------------------------------------------------------------
\* An operation is executed after the operations it depends on, whichever
\* thread adds or starts it, cancels or adds dependencies meanwhile.
DependenciesFirst ==
    \A o \in Ops :
        opState[o] = "Executing" => \A d \in deps[o] : opState[d] = "Finished"

\* The operations in a queue are being executed by their addOperation:, so
\* that setSuspended: NO never finds one to start ("If resuming, start ready
\* operations", ns_operation.rs:500).
QueuedAreStarted ==
    \A q \in Queues : \A o \in queued[q] :
        /\ opState[o] # "Ready"
        /\ \E c \in AllCalls : c.kind = "start" /\ c.op = o /\ q \in c.queue

\* Operations wait for their dependencies, and for nothing else: a queue holds
\* none that is left behind.
OperationsOrdered == DependenciesFirst /\ QueuedAreStarted

\* "All operations added to the queue have already finished by the time
\* addOperation: returns" (ns_operation.rs:550-551).
AddedHaveFinished ==
    \A o \in returned : opState[o] = "Finished"
=============================================================================
