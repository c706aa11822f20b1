----------------------------- MODULE EventLoop -----------------------------
(***************************************************************************)
(* Guest threads that use the run loops, the notification center,          *)
(* operation queues, Grand Central Dispatch, @synchronized blocks and      *)
(* properties and send messages, from the callbacks of these as well as    *)
(* from their own code.                                                    *)
(***************************************************************************)
EXTENDS RunLoop, Notifications, Operations, Dispatch, Messages, Synchronized

CONSTANT Programs   \* for every guest program, what each thread calls: some of
                    \* "timers", "loops", "notifications", "operations", "dispatch",
                    \* "messages", "load", "synchronized", "properties"

VARIABLE program    \* the program that is executed

vars == <<calls, host, loopVars, centerVars, opVars, dispatchVars, classVars, syncVars, program>>

Init ==
    /\ program \in Programs
    /\ calls = [th \in Threads |-> <<>>]
    /\ host = "up"
    /\ RunLoopInit
    /\ NotificationsInit
    /\ OperationsInit
    /\ DispatchInit
    /\ MessagesInit
    /\ SynchronizedInit

OnLoop == UNCHANGED <<centerVars, opVars, dispatchVars, classVars, syncVars, program>>
OnCenter == UNCHANGED <<loopVars, opVars, dispatchVars, classVars, syncVars, program>>
OnOperations == UNCHANGED <<loopVars, centerVars, dispatchVars, classVars, syncVars, program>>
OnDispatch == UNCHANGED <<loopVars, centerVars, opVars, classVars, syncVars, program>>
OnClasses == UNCHANGED <<loopVars, centerVars, opVars, dispatchVars, syncVars, program>>
OnLocks == UNCHANGED <<loopVars, centerVars, opVars, dispatchVars, classVars, program>>

\* The loops of the threads that run one.
LoopsRun == {th \in Threads : "timers" \in program[th]}

GuestStep(th) ==
    \/ "timers" \in program[th] /\ TimerCalls(th) /\ OnLoop
    \/ "loops" \in program[th] /\ RemoteCalls(th, LoopsRun) /\ OnLoop
    \/ "notifications" \in program[th] /\ NotificationCalls(th) /\ OnCenter
    \/ "operations" \in program[th] /\ OperationCalls(th) /\ OnOperations
    \/ "dispatch" \in program[th] /\ DispatchCalls(th) /\ OnDispatch
    \/ "messages" \in program[th] /\ MessageCalls(th) /\ OnClasses
    \/ "load" \in program[th] /\ BeginLoads(th) /\ OnClasses
    \/ "synchronized" \in program[th] /\ BlockCalls(th) /\ OnLocks
    \/ "properties" \in program[th] /\ PropertyCalls(th) /\ OnLocks

HostStep(th) ==
    \/ RunLoopHost(th) /\ OnLoop
    \/ NotificationHost(th) /\ OnCenter
    \/ EndStart(th) /\ OnOperations
    \/ MessageHost(th) /\ OnClasses
    \/ SynchronizedHost(th) /\ OnLocks

WakeUp(th) == Wake(th) /\ OnLoop

\* The guest code that a host function called returns.
GuestReturns(th) ==
    \/ EndTimer(th) /\ OnLoop
    \/ EndFire(th) /\ OnLoop
    \/ EndDelivery(th) /\ OnCenter
    \/ EndMain(th) /\ OnOperations
    \/ EndCompletion(th) /\ OnOperations
    \/ EndBlock(th) /\ OnDispatch
    \/ EndOnce(th) /\ OnDispatch
    \/ EndSend(th) /\ OnClasses
    \/ SynchronizedReturns(th) /\ OnLocks

TimePasses == \E t \in Timers : BecomeDue(t) /\ OnLoop

Next ==
    \/ \E th \in Threads : GuestStep(th) \/ HostStep(th) \/ WakeUp(th) \/ GuestReturns(th)
    \/ TimePasses

Spec == Init /\ [][Next]_vars

(***************************************************************************)
(* A pass over the timers runs to its end, sleeps end, and every callback  *)
(* of a timer returns, at whatever depth it is and however often the guest *)
(* makes other calls.                                                      *)
(***************************************************************************)
\* The threads that run a loop in some program.
LoopThreads == {th \in Threads : \E p \in Programs : "timers" \in p[th]}

EndsTimerCall(th) == (EndTimer(th) \/ EndFire(th)) /\ OnLoop

FairSpec ==
    /\ Spec
    /\ \A th \in LoopThreads :
           /\ WF_vars(RunLoopHost(th) /\ OnLoop)
           /\ SF_vars(WakeUp(th))
           /\ \A depth \in 1 .. MaxCalls :
                  SF_vars(EndsTimerCall(th) /\ Len(calls[th]) = depth)

-----------------------------------------------------------------------------
\* Every variable has its type, and a block that is called is to be.
TypeOK ==
    /\ program \in Programs
    /\ host \in {"up", "panic"}
    /\ \A th \in Threads :
           \A c \in Range(calls[th]) :
               /\ c.stage \in GuestStages \cup {"timers", "sleep", "deliver", "end", "initialize",
                                             "find", "walk", "next", "read", "store"}
               /\ c.kind = "block" => c.left \in Nat \ {0}
    /\ timers \in [Threads -> SUBSET Timers]
    /\ stopped \in [Threads -> BOOLEAN]
    /\ refs \in [Timers -> Nat]
    /\ owned \subseteq Timers
    /\ due \in [Timers -> {"none", "later", "now"}]
    /\ repeats \in [Timers -> BOOLEAN]
    /\ target \in [Timers -> Targets]
    /\ inCallback \in [Timers -> BOOLEAN]
    /\ runLoop \in [Timers -> Threads \cup {NoLoop}]
    /\ observers \subseteq Registrations
    /\ objRefs \in [Observers \cup Blocks \cup Posters -> Nat]
    /\ objOwned \subseteq Observers
    /\ opState \in [Ops -> {"Ready", "Executing", "Finished"}]
    /\ cancelled \in [Ops -> BOOLEAN]
    /\ deps \in [Ops -> SUBSET Ops]
    /\ queued \in [Queues -> SUBSET Ops]
    /\ suspended \in [Queues -> BOOLEAN]
    /\ queueStack \in Seq(DispatchQueues)
    /\ onceTokens \subseteq Tokens
    /\ onceRuns \in [Tokens -> Nat]
    /\ permits \in -MaxPermits .. MaxPermits
    /\ initialized \subseteq Classes
    /\ started \in BOOLEAN
    /\ loads \in Seq(Loaders)
    /\ initializes \in Seq(Classes)
    /\ swallowed \subseteq Classes \X {"initialize", "load"}
    /\ syncMutexes \in [Objects -> Mutexes \cup {NoMutex}]
    /\ propLocks \in [Objects -> Mutexes \cup {NoMutex}]
    /\ owner \in [Mutexes -> Threads \cup {NoMutex, Nobody}]
    /\ lockCount \in [Mutexes -> Nat]
    /\ ivar \in [Objects -> Values \cup {NoValue}]
    /\ valueRefs \in [Values -> Nat]
    /\ held \subseteq Values
    /\ inside \in [Threads -> [Objects -> Nat]]

\* Every reference to a timer, every reference of the notification center to
\* an observer or a block, and every reference of a property to its value is
\* held by somebody and released once, so that no unwrap() or assert! fails,
\* whichever lawful calls callbacks make: Misuse names the unlawful ones.
ReferencesExact ==
    TypeOK /\ host = "up" /\ TimerRefsExact /\ CenterRefsExact /\ PropertyRefsExact

\* Whoever may pass dispatch_once finds its block done, as the callers of
\* dispatch_once and pthread_once have to assume; false of this code, which
\* records a token before its block runs.
PassersFindItDone ==
    \A th \in Threads : \A token \in onceTokens : CanCall(th) => ~InProgress(token)
=============================================================================
