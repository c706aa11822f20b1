----------------------------- MODULE AudioQueue -----------------------------
(***************************************************************************)
(* Output audio queues                                                     *)
(* (src/src/frameworks/audio_toolbox/audio_queue.rs): the guest gives      *)
(* buffers to a queue, the run loop's pass over the queue copies them to   *)
(* an OpenAL source and hands those that were played back to the guest.    *)
(*                                                                         *)
(* One guest thread makes the calls and runs the run loop.  `calls` is its *)
(* stack of host functions: guest code runs when it is empty, or inside a  *)
(* callback; the mixer of OpenAL moves between any two steps.              *)
(***************************************************************************)
EXTENDS OpenAL, FiniteSets

CONSTANTS
    Refs,      \* the addresses an OpaqueAudioQueue can be allocated at
    NoSource,  \* Option<ALuint>::None
    MaxQueued, \* bounds on buffer_queue.len(), by queue: the code has none
    MaxCalls,  \* bound on the depth of `calls`
    Misuse     \* the things this guest program does that break the queue

VARIABLES
    live,              \* the keys of State::audio_queues
    supported,         \* is_supported_audio_format of its format
    buffers,           \* AudioQueueHostObject::buffers
    bufferQueue,       \* AudioQueueHostObject::buffer_queue
    isRunning,         \* AudioQueueHostObject::is_running
    alSource,          \* AudioQueueHostObject::al_source
    isRunningHandler,  \* AudioQueueHostObject::is_running_handler
    calls,             \* the host functions that are being executed
    host               \* "up", or "panic" after a failed assert! or unwrap()

queueVars == <<live, supported, buffers, bufferQueue, isRunning, alSource,
               isRunningHandler>>
vars == <<alVars, queueVars, calls, host>>

(***************************************************************************)
(* A host function: handle_audio_queue ("pass"), AudioQueuePrime or        *)
(* AudioQueueStart on the queue aq.  `source` is the al_source that        *)
(* handle_audio_queue reads at its start, `reuse` its buffers_to_reuse,    *)
(* the first of which is being given to the callback.                      *)
(***************************************************************************)
Call(task, aq) == [task |-> task, aq |-> aq, stage |-> "prime",
                   source |-> NoSource, reuse |-> <<>>]

Top == Last(calls)
Continue(call) == calls' = Append(Front(calls), call)
Return == calls' = Front(calls)

\* Guest code is running and may make a call.
GuestRuns == host = "up" /\ (calls # <<>> => Top.stage \in {"callback", "listener"})

\* The host function on top of the stack runs and is at this stage.
At(task, stage) ==
    host = "up" /\ calls # <<>> /\ Top.task = task /\ Top.stage = stage

HasSource(q) == alSource[q] # NoSource

\* The guest may break the precondition P only if Misuse names it.
Lawful(precondition, P) == precondition \in Misuse \/ P

HostPanic == host' = "panic" /\ UNCHANGED <<alVars, queueVars, calls>>

\* The passes over aq that are being executed.
Passes(aq) == {c \in Range(calls) : c.task = "pass" /\ c.aq = aq}

Init ==
    /\ ALInit
    /\ live = {}
    /\ supported = [q \in Refs |-> TRUE]
    /\ buffers = [q \in Refs |-> {}]
    /\ bufferQueue = [q \in Refs |-> <<>>]
    /\ isRunning = [q \in Refs |-> "Stopped"]
    /\ alSource = [q \in Refs |-> NoSource]
    /\ isRunningHandler = [q \in Refs |-> FALSE]
    /\ calls = <<>>
    /\ host = "up"

-----------------------------------------------------------------------------
\* The guest's allocator finds the memory of q free: it may be that of a queue
\* which the guest has disposed of.
AudioQueueNewOutput(q, ok) ==
    /\ GuestRuns
    /\ q \notin live
    /\ Lawful("reuse_in_pass", Passes(q) = {})
    /\ live' = live \cup {q}
    /\ supported' = [supported EXCEPT ![q] = ok]
    /\ buffers' = [buffers EXCEPT ![q] = {}]
    /\ bufferQueue' = [bufferQueue EXCEPT ![q] = <<>>]
    /\ isRunning' = [isRunning EXCEPT ![q] = "Stopped"]
    /\ alSource' = [alSource EXCEPT ![q] = NoSource]
    /\ isRunningHandler' = [isRunningHandler EXCEPT ![q] = FALSE]
    /\ UNCHANGED <<alVars, calls, host>>

AudioQueueAllocateBuffer(q, b) ==
    /\ GuestRuns
    /\ q \in live
    /\ b \notin UNION {buffers[p] : p \in live}
    /\ buffers' = [buffers EXCEPT ![q] = @ \cup {b}]
    /\ UNCHANGED <<alVars, live, supported, bufferQueue, isRunning, alSource,
                   isRunningHandler, calls, host>>

AudioQueueEnqueueBuffer(q, b) ==
    /\ GuestRuns
    /\ q \in live
    /\ b \in buffers[q]
    /\ Len(bufferQueue[q]) < MaxQueued[q]
    /\ Lawful("feed_stopping_queue", isRunning[q] # "Stopping")
    /\ bufferQueue' = [bufferQueue EXCEPT ![q] = Append(@, b)]
    /\ UNCHANGED <<alVars, live, supported, buffers, isRunning, alSource,
                   isRunningHandler, calls, host>>

\* A buffer in the queue is kept: kAudioQueueErr_BufferInQueue.  One that a
\* pass has taken out of the queue and not given to the callback yet is freed.
AudioQueueFreeBuffer(q, b) ==
    /\ GuestRuns
    /\ q \in live
    /\ b \in buffers[q] \ Range(bufferQueue[q])
    /\ buffers' = [buffers EXCEPT ![q] = @ \ {b}]
    /\ UNCHANGED <<alVars, live, supported, bufferQueue, isRunning, alSource,
                   isRunningHandler, calls, host>>

-----------------------------------------------------------------------------
(***************************************************************************)
(* prime_audio_queue, one iteration of its loop at a time: at most two     *)
(* buffers that are not processed are kept on the source.                  *)
(***************************************************************************)
CanPrime(q) ==
    q \in live /\ supported[q]

Primed(q) ==
    LET s == alSource[q]
    IN \/ Len(alQueue[s]) - Processed(s) > 1
       \/ Len(alQueue[s]) = Len(bufferQueue[q])

EndPrime ==
    /\ IF Top.task = "prime" THEN Return ELSE Continue([Top EXCEPT !.stage = "play"])
    /\ UNCHANGED <<alVars, queueVars, host>>

\* The source is created on the first call.  alGenSources fails when the pool
\* is exhausted, by the guest's own use of OpenAL too: the queue stays without.
PrimeSource(q) ==
    \/ \E s \in Sources :
           /\ GenSource(s)
           /\ alSource' = [alSource EXCEPT ![q] = s]
           /\ UNCHANGED <<live, supported, buffers, bufferQueue, isRunning,
                          isRunningHandler, calls, host>>
    \/ EndPrime

\* Mutant: the buffer at the head of the queue is decoded every time.
PrimeHead(q) ==
    LET s == alSource[q]
    IN IF Primed(q) THEN EndPrime
       ELSE /\ QueueBuffer(s, Head(bufferQueue[q]))
            /\ UNCHANGED <<queueVars, calls, host>>

\* Mutant: the assertion wants the source's queue to be shorter.
PrimeShorter(q) ==
    IF Len(alQueue[alSource[q]]) >= Len(bufferQueue[q]) THEN HostPanic
    ELSE PrimeHead(q)

PrimeBuffer(q) ==
    LET s == alSource[q]
    IN CASE Len(alQueue[s]) > Len(bufferQueue[q]) -> HostPanic
         [] Len(alQueue[s]) <= Len(bufferQueue[q]) /\ Primed(q) -> EndPrime
         [] OTHER ->
              /\ QueueBuffer(s, bufferQueue[q][Len(alQueue[s]) + 1])
              /\ UNCHANGED <<queueVars, calls, host>>

PrimeStep ==
    /\ \E task \in {"pass", "prime", "start"} : At(task, "prime")
    /\ LET q == Top.aq
       IN IF ~CanPrime(q) THEN EndPrime
          ELSE IF ~HasSource(q) THEN PrimeSource(q)
          ELSE PrimeBuffer(q)

BeginCall(task, q) ==
    /\ GuestRuns
    /\ q \in live
    /\ Len(calls) < MaxCalls
    /\ calls' = Append(calls, Call(task, q))
    /\ UNCHANGED <<alVars, queueVars, host>>

AudioQueuePrime(q) ==
    /\ Lawful("prime_running_queue", isRunning[q] = "Stopped")
    /\ BeginCall("prime", q)

AudioQueueStart(q) ==
    /\ Lawful("start_running_queue", isRunning[q] # "Running")
    /\ BeginCall("start", q)

\* AudioQueueStart after prime_audio_queue.  The listener is called last,
\* as one more stretch of guest code.
StartPlay ==
    /\ At("start", "play")
    /\ Return
    /\ LET q == Top.aq
       IN /\ isRunning' = IF CanPrime(q) THEN [isRunning EXCEPT ![q] = "Running"]
                          ELSE isRunning
          /\ IF CanPrime(q) /\ HasSource(q) THEN SourcePlay(alSource[q])
             ELSE UNCHANGED alVars
    /\ UNCHANGED <<live, supported, buffers, bufferQueue, alSource,
                   isRunningHandler, host>>

AudioQueuePause(q) ==
    /\ GuestRuns
    /\ q \in live
    /\ isRunning' = [isRunning EXCEPT ![q] = "Stopped"]
    /\ IF ~HasSource(q) THEN UNCHANGED alVars ELSE SourcePause(alSource[q])
    /\ UNCHANGED <<live, supported, buffers, bufferQueue, alSource,
                   isRunningHandler, calls, host>>

-----------------------------------------------------------------------------
\* AudioQueueReset unqueues a buffer that has no entry in buffer_queue.
ResetFails(q) ==
    /\ HasSource(q)
    /\ StoppedState(alSource[q]) = "STOPPED"
    /\ Len(alQueue[alSource[q]]) > Len(bufferQueue[q])

\* AudioQueueReset: every buffer unqueued has its entry.
ResetQueue(q) ==
    /\ IF ~HasSource(q) THEN UNCHANGED alVars
       ELSE SourceStopAndUnqueue(alSource[q])
    /\ bufferQueue' = [bufferQueue EXCEPT ![q] = <<>>]

\* No buffer is queued on a source that has never been played.
ResetLawful(q) ==
    Lawful("reset_primed_queue",
           (HasSource(q) /\ sourceState[alSource[q]] = "INITIAL")
               => alQueue[alSource[q]] = <<>>)

AudioQueueReset(q) ==
    /\ GuestRuns
    /\ q \in live
    /\ ResetLawful(q)
    /\ IF ResetFails(q) THEN HostPanic
       ELSE /\ ResetQueue(q)
            /\ UNCHANGED <<live, supported, buffers, isRunning, alSource,
                           isRunningHandler, calls, host>>

\* An immediate stop, with finish_stopping_audio_queue: its listener is called
\* last.
AudioQueueStopNow(q) ==
    /\ GuestRuns
    /\ q \in live
    /\ ResetLawful(q)
    /\ IF ResetFails(q) THEN HostPanic
       ELSE /\ ResetQueue(q)
            /\ isRunning' = [isRunning EXCEPT ![q] = "Stopped"]
            /\ UNCHANGED <<live, supported, buffers, alSource, isRunningHandler,
                           calls, host>>

\* A stop once the buffers have been played, which a later pass completes.
AudioQueueStopLater(q) ==
    /\ GuestRuns
    /\ q \in live
    /\ isRunning[q] = "Running"
    /\ isRunning' = [isRunning EXCEPT ![q] = "Stopping"]
    /\ UNCHANGED <<alVars, live, supported, buffers, bufferQueue, alSource,
                   isRunningHandler, calls, host>>

\* The callback of a pass may do this as well: the queue is forgotten, its
\* memory and its buffers' free, and the pass in progress goes on without it.
AudioQueueDispose(q) ==
    /\ GuestRuns
    /\ q \in live
    /\ live' = live \ {q}
    /\ buffers' = [buffers EXCEPT ![q] = {}]
    /\ bufferQueue' = [bufferQueue EXCEPT ![q] = <<>>]
    /\ alSource' = [alSource EXCEPT ![q] = NoSource]
    /\ IF ~HasSource(q) THEN UNCHANGED alVars ELSE DeleteSource(alSource[q])
    /\ isRunning' = [isRunning EXCEPT ![q] = "Stopped"]
    /\ isRunningHandler' = [isRunningHandler EXCEPT ![q] = FALSE]
    /\ supported' = [supported EXCEPT ![q] = TRUE]
    /\ UNCHANGED <<calls, host>>

-----------------------------------------------------------------------------
(***************************************************************************)
(* handle_audio_queue.                                                     *)
(***************************************************************************)
AfterCallbacks(reuse) == IF reuse = <<>> THEN "prime" ELSE "callback"

\* The processed buffers leave both queues, and the first callback is called;
\* one that has no entry in buffer_queue is skipped.
BeginPass(q) ==
    /\ GuestRuns
    /\ Len(calls) < MaxCalls
    /\ q \in live
    /\ supported[q]
    /\ HasSource(q)
    /\ ~isRunningHandler[q]
    /\ isRunningHandler' = [isRunningHandler EXCEPT ![q] = TRUE]
    /\ LET s == alSource[q]
           n == Processed(s)
           reuse == IF n <= Len(bufferQueue[q]) THEN SubSeq(bufferQueue[q], 1, n)
                    ELSE bufferQueue[q]
       IN /\ UnqueueProcessed(s)
          /\ bufferQueue' = [bufferQueue EXCEPT ![q] = SubSeq(@, n + 1, Len(@))]
          /\ calls' = Append(calls, [Call("pass", q) EXCEPT !.source = s,
                                        !.stage = AfterCallbacks(reuse),
                                        !.reuse = reuse])
    /\ UNCHANGED <<live, supported, buffers, isRunning, alSource, host>>

\* The callback returns; the next buffer is given, or the queue primed.
EndCallback ==
    /\ At("pass", "callback")
    /\ Continue([Top EXCEPT !.reuse = Tail(@), !.stage = AfterCallbacks(Tail(Top.reuse))])
    /\ UNCHANGED <<alVars, queueVars, host>>

\* Mutant: the flag is left set.
EndPassMarked(q) == Return /\ UNCHANGED isRunningHandler

\* The pass is over: the queue is looked up again to clear the flag.
EndPass(q) ==
    /\ Return
    /\ isRunningHandler' = [isRunningHandler EXCEPT ![q] = FALSE]

\* Mutant: the queue is reset, and goes on stopping.
ResetOnly(q) ==
    /\ ResetQueue(q)
    /\ EndPass(q)
    /\ UNCHANGED <<live, supported, buffers, isRunning, alSource, host>>

\* finish_stopping_audio_queue at the end of a pass, which calls the listener
\* for kAudioQueueProperty_IsRunning if the guest has added one.
FinishStopping(q) ==
    /\ ResetQueue(q)
    /\ isRunning' = [isRunning EXCEPT ![q] = "Stopped"]
    /\ \/ Continue([Top EXCEPT !.stage = "listener"]) /\ UNCHANGED isRunningHandler
       \/ EndPass(q)
    /\ UNCHANGED <<live, supported, buffers, alSource, host>>

\* Mutant: a source that ran out of data is left alone.
PassNoRestart ==
    /\ At("pass", "play")
    /\ LET q == Top.aq
       IN IF isRunning[q] = "Stopping" /\ sourceState[Top.source] = "STOPPED"
          THEN FinishStopping(q)
          ELSE /\ EndPass(q)
               /\ UNCHANGED <<alVars, live, supported, buffers, bufferQueue,
                              isRunning, alSource, host>>

\* Mutant: the queue is not looked up again after the callbacks.
PassPlayBlind ==
    /\ At("pass", "play")
    /\ LET q == Top.aq
           state == sourceState[Top.source]
       IN IF isRunning[q] = "Stopping" /\ state = "STOPPED" THEN FinishStopping(q)
          ELSE /\ EndPass(q)
               /\ IF (q \in live => isRunning[q] = "Running") /\ state = "STOPPED"
                  THEN SourcePlay(Top.source) ELSE UNCHANGED alVars
               /\ UNCHANGED <<live, supported, buffers, bufferQueue,
                              isRunning, alSource, host>>

\* A source that ran out of data is started again, a stop is completed, unless
\* the queue is gone.
PassPlay ==
    /\ At("pass", "play")
    /\ LET q == Top.aq
           state == sourceState[Top.source]
           found == q \in live
       IN CASE found /\ isRunning[q] # "Stopped" /\ state = "DELETED" -> HostPanic
            [] found /\ isRunning[q] = "Stopping" /\ state = "STOPPED" ->
                 IF ResetFails(q) THEN HostPanic ELSE FinishStopping(q)
            [] OTHER ->
                 /\ EndPass(q)
                 /\ IF found /\ isRunning[q] = "Running" /\ state = "STOPPED"
                    THEN SourcePlay(Top.source) ELSE UNCHANGED alVars
                 /\ UNCHANGED <<live, supported, buffers, bufferQueue,
                                isRunning, alSource, host>>

EndListener ==
    /\ At("pass", "listener")
    /\ EndPass(Top.aq)
    /\ UNCHANGED <<alVars, live, supported, buffers, bufferQueue, isRunning,
                   alSource, host>>

-----------------------------------------------------------------------------
Mixer == \E s \in Sources : MixerStep(s) /\ UNCHANGED <<queueVars, calls, host>>

GuestStep ==
    \E q \in Refs :
        \/ \E ok \in BOOLEAN : AudioQueueNewOutput(q, ok)
        \/ \E b \in Bufs : \/ AudioQueueAllocateBuffer(q, b)
                           \/ AudioQueueEnqueueBuffer(q, b)
                           \/ AudioQueueFreeBuffer(q, b)
        \/ AudioQueuePrime(q)
        \/ AudioQueueStart(q)
        \/ AudioQueuePause(q)
        \/ AudioQueueReset(q)
        \/ AudioQueueStopNow(q)
        \/ AudioQueueStopLater(q)
        \/ AudioQueueDispose(q)

HostStep == PrimeStep \/ StartPlay \/ PassPlay

GuestReturns(q) == (EndCallback \/ EndListener) /\ Top.aq = q

Next ==
    \/ GuestStep
    \/ HostStep
    \/ EndCallback
    \/ EndListener
    \/ \E q \in Refs : BeginPass(q)
    \/ Mixer

Spec == Init /\ [][Next]_vars

(***************************************************************************)
(* Host code runs to its end.  The mixer keeps playing and, as a buffer is *)
(* long compared with a pass, does not always end one while host code      *)
(* runs.  A guest program comes back to its run loop, and each of its      *)
(* callbacks returns, however many calls it makes meanwhile.               *)
(***************************************************************************)
FairSpec ==
    /\ Spec
    /\ WF_vars(HostStep)
    /\ SF_vars(Mixer /\ GuestRuns)
    /\ \A q \in Refs : SF_vars(GuestReturns(q)) /\ SF_vars(BeginPass(q))

-----------------------------------------------------------------------------
CallType ==
    [task : {"pass", "prime", "start"}, aq : Refs, source : Sources \cup {NoSource},
     stage : {"callback", "prime", "play", "listener"},
     reuse : Seq(Bufs)]

\* Every variable has its type, and a callback is given a buffer.
TypeOK ==
    /\ sourceState \in
           [Sources -> {"INITIAL", "PLAYING", "PAUSED", "STOPPED", "DELETED"}]
    /\ alQueue \in [Sources -> Seq(Bufs)]
    /\ played \in [Sources -> Nat]
    /\ live \subseteq Refs
    /\ supported \in [Refs -> BOOLEAN]
    /\ buffers \in [Refs -> SUBSET Bufs]
    /\ bufferQueue \in [Refs -> Seq(Bufs)]
    /\ isRunning \in [Refs -> {"Running", "Stopping", "Stopped"}]
    /\ alSource \in [Refs -> Sources \cup {NoSource}]
    /\ isRunningHandler \in [Refs -> BOOLEAN]
    /\ calls \in Seq(CallType)
    /\ \A c \in Range(calls) : c.stage = "callback" => c.reuse # <<>>
    /\ host \in {"up", "panic"}

\* "the nth item in this queue must also be the nth item in the OpenAL queue,
\* though the OpenAL queue may be shorter" (audio_queue.rs:94-96), whatever
\* the mixer, the callbacks and the passes do to the two.
InStep ==
    /\ TypeOK
    /\ \A q \in live : HasSource(q) =>
           IsPrefix(alQueue[alSource[q]], bufferQueue[q])

\* No assert! or unwrap() of audio_queue.rs fails: when the queue of a pass
\* exists after the callbacks, so does the source that was read before them,
\* and the queues are in step.
NoHostPanic == host = "up"

\* A host function touches no OpenAL source but the one that its queue, which
\* still exists, has: not in a pass whose callback disposed of the queue either,
\* although another queue may have been given the source since.  (A queue made
\* in that callback at the old address is the exception, "reuse_in_pass".)
PassesKeepToTheirQueue ==
    [][\A s \in Sources :
           HostStep /\ <<sourceState[s], alQueue[s], played[s]>>'
                        # <<sourceState[s], alQueue[s], played[s]>>
               => Top.aq \in live /\ alSource'[Top.aq] = s]_vars

\* A buffer that a pass is still to hand to the callback is one of its queue's;
\* false of this code, whose callbacks may free it or dispose of the queue.
PendingBuffersAlive ==
    \A c \in Range(calls) : c.task = "pass" => Range(c.reuse) \subseteq buffers[c.aq]

\* A pass takes a buffer of a running queue back only after the mixer has
\* played it: none that was put on a source that had stopped is dropped.
RunningBuffersHeard ==
    [][\A q \in Refs : (isRunning[q] = "Running" /\ BeginPass(q)) =>
           Processed(alSource[q]) <= played[alSource[q]]]_vars

\* A running queue that has buffers calls the guest back, unless it is stopped
\* or reset: it recovers from every underrun, wherever the mixer stops between
\* the steps of a pass.
KeepsCallingBack ==
    \A q \in Refs :
        (isRunning[q] = "Running" /\ HasSource(q) /\ bufferQueue[q] # <<>>) ~>
            \/ isRunning[q] # "Running"
            \/ bufferQueue[q] = <<>>
            \/ \E c \in Passes(q) : c.reuse # <<>>

\* An asynchronous stop is completed once the buffers have been played.
StopEnds ==
    \A q \in Refs : (isRunning[q] = "Stopping" /\ HasSource(q)) ~> isRunning[q] # "Stopping"
=============================================================================
