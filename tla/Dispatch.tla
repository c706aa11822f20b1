------------------------------ MODULE Dispatch ------------------------------
(***************************************************************************)
(* Grand Central Dispatch (src/src/libc/dispatch.rs): a block is called    *)
(* at once in the thread that submits it; one stack, for all threads,      *)
(* keeps the queues whose blocks are being executed.  pthread_once         *)
(* (src/src/libc/pthread/once.rs) works as dispatch_once does.             *)
(***************************************************************************)
EXTENDS GuestCalls, Integers

CONSTANTS
    DispatchQueues, \* queues
    MainQueue,      \* MAIN_QUEUE_PTR
    Tokens,         \* predicates of dispatch_once
    MaxPermits      \* bound on the value of a semaphore, and below zero

ASSUME DispatchAssumption == MaxPermits \in Nat

VARIABLES
    queueStack,     \* State::current_queue_stack
    onceTokens,     \* State::once_tokens
    permits,        \* State::semaphores, of one semaphore
    onceRuns        \* history: how often the block of each token was called

dispatchVars == <<queueStack, onceTokens, permits, onceRuns>>

\* A block of the queue q, of which `left` iterations are to be executed, and
\* whether q was put on the stack.
BlockCall(q, left, pushed) ==
    [kind |-> "block", stage |-> "callback", dq |-> q, left |-> left, pushed |-> pushed]

OnceCall(token) == [kind |-> "once", stage |-> "callback", token |-> token]

InProgress(token) == \E c \in AllCalls : c.kind = "once" /\ c.token = token

\* Where the blocks that th executes are in its stack.
BlockPlaces(th) == {i \in 1 .. Len(calls[th]) : calls[th][i].kind = "block"}

\* No other thread executes a block.
AloneInBlocksOf(th) ==
    Lawful("blocks_in_threads", \A u \in Threads \ {th} : BlockPlaces(u) = {})

\* The queue of the innermost block that th executes.
CurrentQueue(th) ==
    IF BlockPlaces(th) = {} THEN MainQueue ELSE calls[th][Max(BlockPlaces(th))].dq

\* The queue that dispatch_get_specific looks up.
RunningQueue == IF queueStack = <<>> THEN MainQueue ELSE Last(queueStack)

DispatchInit ==
    /\ queueStack = <<>>
    /\ onceTokens = {}
    /\ permits = 0
    /\ onceRuns = [token \in Tokens |-> 0]

-----------------------------------------------------------------------------
\* The token is recorded before its block is called: another caller returns at
\* once, though the block may still be in progress.
DispatchOnce(th, token) ==
    /\ CanCall(th)
    /\ IF token \in onceTokens THEN UNCHANGED <<onceTokens, onceRuns, calls>>
       ELSE /\ onceTokens' = onceTokens \cup {token}
            /\ onceRuns' = [onceRuns EXCEPT ![token] = @ + 1]
            /\ Enter(th, OnceCall(token))
    /\ UNCHANGED <<queueStack, permits, host>>

EndOnce(th) ==
    /\ At(th, "once", "callback")
    /\ Leave(th)
    /\ UNCHANGED <<dispatchVars, host>>

\* dispatch_async and dispatch_sync, and their barriers.
DispatchBlock(th, q) ==
    /\ CanCall(th)
    /\ AloneInBlocksOf(th)
    /\ queueStack' = Append(queueStack, q)
    /\ Enter(th, BlockCall(q, 1, TRUE))
    /\ UNCHANGED <<onceTokens, permits, onceRuns, host>>

\* dispatch_after, the group functions, and those that take a function: they
\* leave the stack alone.
DispatchDirect(th, q) ==
    /\ CanCall(th)
    /\ AloneInBlocksOf(th)
    /\ Lawful("query_direct_block", q = CurrentQueue(th))
    /\ Enter(th, BlockCall(q, 1, FALSE))
    /\ UNCHANGED <<dispatchVars, host>>

DispatchApply(th, q, n) ==
    /\ CanCall(th)
    /\ AloneInBlocksOf(th)
    /\ Lawful("query_direct_block", q = CurrentQueue(th))
    /\ Enter(th, BlockCall(q, n, FALSE))
    /\ UNCHANGED <<dispatchVars, host>>

\* Mutant: the bottom of the stack is taken away.
PopOldest == queueStack' = Tail(queueStack)

PopQueue == queueStack' = Front(queueStack)

MoreIterations(c) == c.left > 1

EndBlock(th) ==
    /\ At(th, "block", "callback")
    /\ IF MoreIterations(Top(th))
       THEN Continue(th, [Top(th) EXCEPT !.left = @ - 1]) /\ UNCHANGED queueStack
       ELSE Leave(th) /\ IF Top(th).pushed THEN PopQueue ELSE UNCHANGED queueStack
    /\ UNCHANGED <<onceTokens, permits, onceRuns, host>>

\* dispatch_semaphore_wait never waits: the value becomes negative.
SemaphoreWait(th) ==
    /\ GuestRuns(th)
    /\ permits > -MaxPermits
    /\ permits' = permits - 1
    /\ UNCHANGED <<queueStack, onceTokens, onceRuns, calls, host>>

SemaphoreSignal(th) ==
    /\ GuestRuns(th)
    /\ permits < MaxPermits
    /\ permits' = permits + 1
    /\ UNCHANGED <<queueStack, onceTokens, onceRuns, calls, host>>

DispatchCalls(th) ==
    \/ \E token \in Tokens : DispatchOnce(th, token)
    \/ \E q \in DispatchQueues :
           \/ DispatchBlock(th, q)
           \/ DispatchDirect(th, q)
           \/ DispatchApply(th, q, 2)
    \/ SemaphoreWait(th)
    \/ SemaphoreSignal(th)

-----------------------------------------------------------------------------
\* dispatch_get_specific resolves against "the queue currently executing the
\* caller" (dispatch.rs:643-647), which is that of its innermost block.
CurrentQueueFound ==
    \A th \in Threads : BlockPlaces(th) # {} => RunningQueue = CurrentQueue(th)

\* dispatch_once and dispatch_once_f call the block of a token "exactly once",
\* "at most once" (dispatch.rs:125, 150), however calls for it nest and overlap.
OnceOnly == \A token \in Tokens : onceRuns[token] <= 1

\* What blocks rely on: the queue they find is their own, and what they put
\* in the hands of dispatch_once is done once.
BlocksAreServed == CurrentQueueFound /\ OnceOnly
=============================================================================
