------------------------------- MODULE OpenAL -------------------------------
(***************************************************************************)
(* The streaming sources of OpenAL, as far as audio_queue.rs uses them.    *)
(* The library is not part of the repository: this is the state machine of *)
(* a source in the OpenAL 1.1 specification.  Its mixer plays on a thread  *)
(* of its own, at the same time as any code of the emulator.               *)
(***************************************************************************)
EXTENDS Naturals, Sequences, SequencesExt

CONSTANTS
    Sources,  \* the finite pool that alGenSources takes names from
    Bufs      \* the sound data: named by the guest buffer it was decoded from

VARIABLES
    sourceState,  \* AL_SOURCE_STATE, or "DELETED" for a name not in use
    alQueue,      \* the buffers queued on a source
    played        \* how many of them the mixer has finished since the start

alVars == <<sourceState, alQueue, played>>

ALInit ==
    /\ sourceState = [s \in Sources |-> "DELETED"]
    /\ alQueue = [s \in Sources |-> <<>>]
    /\ played = [s \in Sources |-> 0]

\* AL_BUFFERS_PROCESSED: everything on a stopped source, nothing on one that
\* was never played.
Processed(s) ==
    CASE sourceState[s] = "INITIAL" -> 0
      [] sourceState[s] = "STOPPED" -> Len(alQueue[s])
      [] OTHER -> played[s]

GenSource(s) ==
    /\ sourceState[s] = "DELETED"
    /\ sourceState' = [sourceState EXCEPT ![s] = "INITIAL"]
    /\ alQueue' = [alQueue EXCEPT ![s] = <<>>]
    /\ played' = [played EXCEPT ![s] = 0]

DeleteSource(s) ==
    /\ sourceState' = [sourceState EXCEPT ![s] = "DELETED"]
    /\ alQueue' = [alQueue EXCEPT ![s] = <<>>]
    /\ played' = [played EXCEPT ![s] = 0]

QueueBuffer(s, b) ==
    /\ alQueue' = [alQueue EXCEPT ![s] = Append(@, b)]
    /\ UNCHANGED <<sourceState, played>>

\* Takes all processed buffers off the source.
UnqueueProcessed(s) ==
    /\ alQueue' = [alQueue EXCEPT ![s] = SubSeq(@, Processed(s) + 1, Len(@))]
    /\ played' = [played EXCEPT ![s] = 0]
    /\ UNCHANGED sourceState

\* A paused source goes on; any other one starts with the head of its queue,
\* and stops at once when that is empty.
SourcePlay(s) ==
    /\ sourceState' = [sourceState EXCEPT ![s] =
                           IF alQueue[s] = <<>> THEN "STOPPED" ELSE "PLAYING"]
    /\ played' = [played EXCEPT ![s] = IF sourceState[s] = "PAUSED" THEN @ ELSE 0]
    /\ UNCHANGED alQueue

SourcePause(s) ==
    /\ sourceState' = [sourceState EXCEPT ![s] =
                           IF @ = "PLAYING" THEN "PAUSED" ELSE @]
    /\ UNCHANGED <<alQueue, played>>

\* alSourceStop has no effect on a source in the initial state.
StoppedState(s) ==
    IF sourceState[s] = "INITIAL" THEN "INITIAL" ELSE "STOPPED"

\* alSourceStop, and unqueue_buffers after it.
SourceStopAndUnqueue(s) ==
    /\ sourceState' = [sourceState EXCEPT ![s] = StoppedState(s)]
    /\ alQueue' = [alQueue EXCEPT ![s] =
                       IF StoppedState(s) = "STOPPED" THEN <<>> ELSE @]
    /\ played' = [played EXCEPT ![s] = 0]

\* The mixer reaches the end of a buffer; after the last one the source stops.
MixerStep(s) ==
    /\ sourceState[s] = "PLAYING"
    /\ played' = [played EXCEPT ![s] = @ + 1]
    /\ sourceState' = [sourceState EXCEPT ![s] =
                           IF played[s] + 1 >= Len(alQueue[s]) THEN "STOPPED" ELSE @]
    /\ UNCHANGED alQueue
=============================================================================
