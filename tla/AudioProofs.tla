---------------------------- MODULE AudioProofs ----------------------------
(***************************************************************************)
(* Theorems about AudioQueue, for any number of queues, buffers and        *)
(* sources, and any nesting of callbacks: the buffers on a source are the  *)
(* first ones of its queue, no assertion fails, a pass touches no source   *)
(* but that of its queue, and no buffer of a running queue is taken back   *)
(* unplayed.                                                               *)
(***************************************************************************)
EXTENDS AudioQueue, QueueProofs

-----------------------------------------------------------------------------
(***************************************************************************)
(* Queues of buffers, and the sources of OpenAL.                           *)
(***************************************************************************)

\* The members of `short` are the first ones of `long`.
Follows(short, long) ==
    /\ Len(short) <= Len(long)
    /\ \A i \in 1 .. Len(short) : short[i] = long[i]

\* It is what IsPrefix says.
LEMMA PrefixFollows ==
    ASSUME NEW S, NEW short \in Seq(S), NEW long \in Seq(S)
    PROVE  IsPrefix(short, long) <=> Follows(short, long)
<1> DEFINE n == Len(short)
<1>1. n \in Nat /\ Len(long) \in Nat
  OBVIOUS
<1>2. SubSeq(short, 1, n) = [i \in 1 .. n |-> short[i]]
  BY <1>1
<1>3. ASSUME n <= Len(long)
      PROVE  SubSeq(long, 1, n) = [i \in 1 .. n |-> long[i]]
  BY <1>1, <1>3
<1>4. IsPrefix(short, long) => Follows(short, long)
  <2> HAVE IsPrefix(short, long)
  <2>1. n <= Len(long) /\ SubSeq(short, 1, n) = SubSeq(long, 1, n)
    BY DEF IsPrefix
  <2>2. \A i \in 1 .. n : [j \in 1 .. n |-> short[j]][i] = [j \in 1 .. n |-> long[j]][i]
    BY <1>2, <1>3, <2>1
  <2> QED BY <2>1, <2>2 DEF Follows
<1>5. Follows(short, long) => IsPrefix(short, long)
  BY <1>2, <1>3 DEF Follows, IsPrefix
<1> QED BY <1>4, <1>5

\* A pass takes as many buffers off the one queue as off the other.
LEMMA FollowsRest ==
    ASSUME NEW S, NEW short \in Seq(S), NEW long \in Seq(S), Follows(short, long),
           NEW n \in 0 .. Len(short)
    PROVE  /\ SubSeq(short, n + 1, Len(short)) \in Seq(S)
           /\ SubSeq(long, n + 1, Len(long)) \in Seq(S)
           /\ Len(SubSeq(short, n + 1, Len(short))) = Len(short) - n
           /\ Follows(SubSeq(short, n + 1, Len(short)), SubSeq(long, n + 1, Len(long)))
<1>1. Len(short) \in Nat /\ Len(long) \in Nat /\ Len(short) <= Len(long)
  BY DEF Follows
<1>2. /\ SubSeq(short, n + 1, Len(short)) \in Seq(S)
      /\ Len(SubSeq(short, n + 1, Len(short))) = Len(short) - n
      /\ \A i \in 1 .. Len(short) - n : SubSeq(short, n + 1, Len(short))[i] = short[i + n]
  BY <1>1
<1>3. /\ SubSeq(long, n + 1, Len(long)) \in Seq(S)
      /\ Len(SubSeq(long, n + 1, Len(long))) = Len(long) - n
      /\ \A i \in 1 .. Len(long) - n : SubSeq(long, n + 1, Len(long))[i] = long[i + n]
  BY <1>1
<1>4. \A i \in 1 .. Len(short) - n : i + n \in 1 .. Len(short) /\ i \in 1 .. Len(long) - n
  BY <1>1
<1>5. \A i \in 1 .. Len(short) - n : short[i + n] = long[i + n]
  BY <1>4 DEF Follows
<1>6. \A i \in 1 .. Len(short) - n :
          SubSeq(short, n + 1, Len(short))[i] = SubSeq(long, n + 1, Len(long))[i]
  BY <1>2, <1>3, <1>4, <1>5
<1>7. Len(short) - n <= Len(long) - n
  BY <1>1
<1> QED BY <1>2, <1>3, <1>6, <1>7 DEF Follows

\* Enqueueing keeps the beginning, and a buffer that is primed is the next one.
LEMMA FollowsAppend ==
    ASSUME NEW S, NEW short \in Seq(S), NEW long \in Seq(S), Follows(short, long)
    PROVE  /\ \A b \in S : Follows(short, Append(long, b))
           /\ Len(short) # Len(long) =>
                  /\ Len(short) + 1 \in 1 .. Len(long)
                  /\ long[Len(short) + 1] \in S
                  /\ Follows(Append(short, long[Len(short) + 1]), long)
<1>1. Len(short) \in Nat /\ Len(long) \in Nat /\ Len(short) <= Len(long)
  BY DEF Follows
<1>2. ASSUME NEW b \in S PROVE Follows(short, Append(long, b))
  <2>1. Len(Append(long, b)) = Len(long) + 1
    OBVIOUS
  <2>2. \A i \in 1 .. Len(long) : Append(long, b)[i] = long[i]
    OBVIOUS
  <2> QED BY <1>1, <2>1, <2>2 DEF Follows
<1>3. ASSUME Len(short) # Len(long)
      PROVE  /\ Len(short) + 1 \in 1 .. Len(long)
             /\ long[Len(short) + 1] \in S
             /\ Follows(Append(short, long[Len(short) + 1]), long)
  <2>1. Len(short) + 1 \in 1 .. Len(long)
    BY <1>1, <1>3
  <2>2. long[Len(short) + 1] \in S
    BY <2>1
  <2> DEFINE b == long[Len(short) + 1]
  <2>3. Len(Append(short, b)) = Len(short) + 1
    OBVIOUS
  <2>4. \A i \in 1 .. Len(short) : Append(short, b)[i] = short[i]
    OBVIOUS
  <2>5. Append(short, b)[Len(short) + 1] = b
    OBVIOUS
  <2>6. \A i \in 1 .. Len(short) + 1 : Append(short, b)[i] = long[i]
    BY <1>1, <2>4, <2>5 DEF Follows
  <2> QED BY <1>1, <2>1, <2>2, <2>3, <2>6 DEF Follows
<1> QED BY <1>2, <1>3

-----------------------------------------------------------------------------
\* The variables of OpenAL have their types, and what the mixer has finished
\* is on the source; a source that plays or is paused has something left.
ALType ==
    /\ sourceState \in
           [Sources -> {"INITIAL", "PLAYING", "PAUSED", "STOPPED", "DELETED"}]
    /\ alQueue \in [Sources -> Seq(Bufs)]
    /\ played \in [Sources -> Nat]

ALPlayed ==
    \A s \in Sources :
        /\ played[s] <= Len(alQueue[s])
        /\ sourceState[s] \in {"PLAYING", "PAUSED"} => played[s] < Len(alQueue[s])
        /\ sourceState[s] \in {"INITIAL", "DELETED"} => played[s] = 0

\* What a step does to one source.
SourceStep(s) ==
    \/ GenSource(s)
    \/ DeleteSource(s)
    \/ \E b \in Bufs : QueueBuffer(s, b)
    \/ UnqueueProcessed(s)
    \/ SourcePlay(s)
    \/ SourcePause(s)
    \/ SourceStopAndUnqueue(s)
    \/ MixerStep(s)

\* At most as many buffers are processed as are on the source.
LEMMA ProcessedBound ==
    ASSUME ALType, ALPlayed, NEW s \in Sources
    PROVE  Processed(s) \in 0 .. Len(alQueue[s])
<1>1. alQueue[s] \in Seq(Bufs) /\ played[s] \in Nat /\ played[s] <= Len(alQueue[s])
  BY DEF ALType, ALPlayed
<1> QED BY <1>1 DEF Processed

\* Every operation on a source keeps this.
LEMMA SourceStepKeeps ==
    ASSUME ALType, ALPlayed, NEW s \in Sources, SourceStep(s)
    PROVE  ALType' /\ ALPlayed' 
<1>1. /\ alQueue[s] \in Seq(Bufs) /\ played[s] \in Nat
      /\ Len(alQueue[s]) \in Nat
      /\ sourceState[s] \in {"INITIAL", "PLAYING", "PAUSED", "STOPPED", "DELETED"}
      /\ played[s] <= Len(alQueue[s])
      /\ sourceState[s] \in {"PLAYING", "PAUSED"} => played[s] < Len(alQueue[s])
      /\ sourceState[s] \in {"INITIAL", "DELETED"} => played[s] = 0
  BY DEF ALType, ALPlayed
<1>2. \E st \in {"INITIAL", "PLAYING", "PAUSED", "STOPPED", "DELETED"},
         aq \in Seq(Bufs), n \in Nat :
          /\ sourceState' = [sourceState EXCEPT ![s] = st]
          /\ alQueue' = [alQueue EXCEPT ![s] = aq]
          /\ played' = [played EXCEPT ![s] = n]
          /\ n <= Len(aq)
          /\ st \in {"PLAYING", "PAUSED"} => n < Len(aq)
          /\ st \in {"INITIAL", "DELETED"} => n = 0
  <2>0. /\ sourceState = [sourceState EXCEPT ![s] = sourceState[s]]
        /\ alQueue = [alQueue EXCEPT ![s] = alQueue[s]]
        /\ played = [played EXCEPT ![s] = played[s]]
    BY DEF ALType
  <2>e. <<>> \in Seq(Bufs) /\ Len(<<>>) = 0
    OBVIOUS
  <2>1. CASE GenSource(s) \/ DeleteSource(s)
    <3> DEFINE none == <<>>
    <3>1. none \in Seq(Bufs) /\ 0 <= Len(none)
      BY <2>e
    <3>2. PICK st \in {"INITIAL", "DELETED"} :
             /\ sourceState' = [sourceState EXCEPT ![s] = st]
             /\ alQueue' = [alQueue EXCEPT ![s] = none]
             /\ played' = [played EXCEPT ![s] = 0]
      BY <2>1 DEF GenSource, DeleteSource
    <3> HIDE DEF none
    <3> QED BY <3>1, <3>2
  <2>2. CASE \E b \in Bufs : QueueBuffer(s, b)
    <3>1. PICK b \in Bufs : QueueBuffer(s, b)
      BY <2>2
    <3>2. Append(alQueue[s], b) \in Seq(Bufs) /\ Len(Append(alQueue[s], b)) = Len(alQueue[s]) + 1
      BY <1>1
    <3>3. /\ played[s] <= Len(Append(alQueue[s], b))
          /\ sourceState[s] \in {"PLAYING", "PAUSED"} => played[s] < Len(Append(alQueue[s], b))
      BY <1>1, <3>2
    <3> QED BY <1>1, <2>0, <3>1, <3>2, <3>3 DEF QueueBuffer
  <2>3. CASE UnqueueProcessed(s)
    <3> DEFINE rest == SubSeq(alQueue[s], Processed(s) + 1, Len(alQueue[s]))
    <3>1. Processed(s) \in 0 .. Len(alQueue[s])
      BY ProcessedBound
    <3>2. rest \in Seq(Bufs) /\ Len(rest) = Len(alQueue[s]) - Processed(s)
      BY <1>1, <3>1
    <3>3. sourceState[s] \in {"PLAYING", "PAUSED"} => 0 < Len(rest)
      BY <1>1, <3>2 DEF Processed
    <3>4. 0 <= Len(rest)
      BY <3>2
    <3> QED BY <1>1, <2>0, <2>3, <3>2, <3>3, <3>4 DEF UnqueueProcessed
  <2>4. CASE SourcePlay(s)
    <3> DEFINE st == IF alQueue[s] = <<>> THEN "STOPPED" ELSE "PLAYING"
    <3> DEFINE n == IF sourceState[s] = "PAUSED" THEN played[s] ELSE 0
    <3>1. alQueue[s] # <<>> => Len(alQueue[s]) > 0
      BY <1>1
    <3>2. n \in Nat /\ n <= Len(alQueue[s]) /\ (st = "PLAYING" => n < Len(alQueue[s]))
      BY <1>1, <3>1
    <3> QED BY <1>1, <2>0, <2>4, <3>2 DEF SourcePlay
  <2>5. CASE SourcePause(s)
    BY <1>1, <2>0, <2>5 DEF SourcePause
  <2>6. CASE SourceStopAndUnqueue(s)
    <3> DEFINE st == StoppedState(s)
    <3> DEFINE rest == IF st = "STOPPED" THEN <<>> ELSE alQueue[s]
    <3>1. st \in {"INITIAL", "STOPPED"} /\ rest \in Seq(Bufs) /\ 0 <= Len(rest)
      BY <1>1, <2>e DEF StoppedState
    <3>2. /\ sourceState' = [sourceState EXCEPT ![s] = st]
          /\ alQueue' = [alQueue EXCEPT ![s] = rest]
          /\ played' = [played EXCEPT ![s] = 0]
      BY <2>6 DEF SourceStopAndUnqueue
    <3> HIDE DEF st, rest
    <3> QED BY <3>1, <3>2
  <2>7. CASE MixerStep(s)
    <3>1. played[s] + 1 \in Nat /\ played[s] + 1 <= Len(alQueue[s])
      BY <1>1, <2>7 DEF MixerStep
    <3>2. ~(played[s] + 1 >= Len(alQueue[s])) => played[s] + 1 < Len(alQueue[s])
      BY <1>1, <3>1
    <3> QED BY <1>1, <2>0, <2>7, <3>1, <3>2 DEF MixerStep
  <2> QED BY <2>1, <2>2, <2>3, <2>4, <2>5, <2>6, <2>7 DEF SourceStep
<1>3. PICK st \in {"INITIAL", "PLAYING", "PAUSED", "STOPPED", "DELETED"},
         aq \in Seq(Bufs), n \in Nat :
          /\ sourceState' = [sourceState EXCEPT ![s] = st]
          /\ alQueue' = [alQueue EXCEPT ![s] = aq]
          /\ played' = [played EXCEPT ![s] = n]
          /\ n <= Len(aq)
          /\ st \in {"PLAYING", "PAUSED"} => n < Len(aq)
          /\ st \in {"INITIAL", "DELETED"} => n = 0
  BY <1>2
<1>4. ALType'
  BY <1>3 DEF ALType
<1>5. ALPlayed'
  BY <1>3 DEF ALType, ALPlayed
<1> QED BY <1>4, <1>5

-----------------------------------------------------------------------------
(***************************************************************************)
(* The host functions in progress, and what each does next.                *)
(***************************************************************************)

\* What the operations on a stack do to the set of calls in it.
LEMMA StackPush ==
    ASSUME NEW S, NEW stack \in Seq(S), NEW c \in S
    PROVE  /\ Append(stack, c) \in Seq(S)
           /\ Range(Append(stack, c)) = Range(stack) \cup {c}
           /\ Last(Append(stack, c)) = c
<1>1. Range(stack) = Elems(stack)
  BY DEF Range, Elems
<1>2. Append(stack, c) \in Seq(S) /\ Elems(Append(stack, c)) = Elems(stack) \cup {c}
  BY QueueAppend
<1>3. Range(Append(stack, c)) = Elems(Append(stack, c))
  BY <1>2 DEF Range, Elems
<1>4. Last(Append(stack, c)) = c
  BY DEF Last
<1> QED BY <1>1, <1>2, <1>3, <1>4

\* The same for a pop.
LEMMA StackPop ==
    ASSUME NEW S, NEW stack \in Seq(S), stack # <<>>
    PROVE  /\ Front(stack) \in Seq(S)
           /\ Last(stack) \in S
           /\ Range(stack) = Range(Front(stack)) \cup {Last(stack)}
<1>1. Len(stack) \in Nat \ {0}
  OBVIOUS
<1>2. Range(stack) = Elems(stack)
  BY DEF Range, Elems
<1>3. 1 \in 1 .. Len(stack) + 1 /\ Len(stack) - 1 \in 0 .. Len(stack)
  BY <1>1
<1>4. /\ Front(stack) \in Seq(S)
      /\ Elems(Front(stack)) = {stack[k] : k \in 1 .. Len(stack) - 1}
  BY <1>3, QueueSubSeq DEF Front
<1>5. Range(Front(stack)) = Elems(Front(stack))
  BY <1>4 DEF Range, Elems
<1>6. Last(stack) \in S
  BY <1>1 DEF Last
<1>7. Elems(stack) = Elems(Front(stack)) \cup {stack[Len(stack)]}
  <2>1. 1 .. Len(stack) = (1 .. Len(stack) - 1) \cup {Len(stack)}
    BY <1>1
  <2> QED BY <1>4, <2>1 DEF Elems
<1> QED BY <1>2, <1>4, <1>5, <1>6, <1>7 DEF Last

\* The same of the calls in progress.
CallsType ==
    /\ calls \in Seq(CallType)
    /\ \A c \in Range(calls) : c.stage = "callback" => c.reuse # <<>>

\* The call on top is one of those in progress.
LEMMA TopCall ==
    ASSUME calls \in Seq(CallType), calls # <<>>
    PROVE  /\ Top \in CallType /\ Top \in Range(calls)
           /\ Front(calls) \in Seq(CallType)
           /\ Range(calls) = Range(Front(calls)) \cup {Top}
BY StackPop DEF Top

\* The calls in progress after a host function is entered, goes on or returns.
LEMMA Pushed ==
    ASSUME calls \in Seq(CallType), NEW c \in CallType, calls' = Append(calls, c)
    PROVE  /\ calls' \in Seq(CallType) /\ calls' # <<>>
           /\ Range(calls') = Range(calls) \cup {c}
           /\ Top' = c
BY StackPush DEF Top

\* The same for a function that goes on.
LEMMA Continued ==
    ASSUME calls \in Seq(CallType), calls # <<>>, NEW c \in CallType, Continue(c)
    PROVE  /\ calls' \in Seq(CallType) /\ calls' # <<>>
           /\ Range(calls') = Range(Front(calls)) \cup {c}
           /\ Range(calls) = Range(Front(calls)) \cup {Top}
           /\ Top' = c
<1>1. /\ Front(calls) \in Seq(CallType)
      /\ Range(calls) = Range(Front(calls)) \cup {Top}
  BY TopCall
<1>2. calls' = Append(Front(calls), c)
  BY DEF Continue
<1> QED BY <1>1, <1>2, StackPush DEF Top

\* The same for one that returns.
LEMMA Returned ==
    ASSUME calls \in Seq(CallType), calls # <<>>, Return
    PROVE  /\ calls' \in Seq(CallType)
           /\ Range(calls) = Range(calls') \cup {Top}
BY TopCall DEF Return

\* The calls keep their type.
LEMMA CallsTypeKept ==
    ASSUME CallsType,
           \/ UNCHANGED calls
           \/ calls # <<>> /\ Return
           \/ \E c \in CallType :
                  /\ c.stage = "callback" => c.reuse # <<>>
                  /\ calls' = Append(calls, c) \/ (calls # <<>> /\ Continue(c))
    PROVE  CallsType'
<1>1. calls \in Seq(CallType)
  BY DEF CallsType
<1>2. CASE UNCHANGED calls
  BY <1>2 DEF CallsType
<1>3. CASE calls # <<>> /\ Return
  BY <1>1, <1>3, Returned DEF CallsType
<1>4. ASSUME NEW c \in CallType, c.stage = "callback" => c.reuse # <<>>,
             calls' = Append(calls, c) \/ (calls # <<>> /\ Continue(c))
      PROVE  CallsType'
  <2>1. CASE calls' = Append(calls, c)
    BY <1>1, <1>4, <2>1, Pushed DEF CallsType
  <2>2. CASE calls # <<>> /\ Continue(c)
    BY <1>1, <1>4, <2>2, Continued DEF CallsType
  <2> QED BY <1>4, <2>1, <2>2
<1> QED BY <1>2, <1>3, <1>4

\* The variables of the queues have their types.
QueueType ==
    /\ live \subseteq Refs
    /\ supported \in [Refs -> BOOLEAN]
    /\ buffers \in [Refs -> SUBSET Bufs]
    /\ bufferQueue \in [Refs -> Seq(Bufs)]
    /\ isRunning \in [Refs -> {"Running", "Stopping", "Stopped"}]
    /\ alSource \in [Refs -> Sources \cup {NoSource}]
    /\ isRunningHandler \in [Refs -> BOOLEAN]
    /\ host \in {"up", "panic"}

\* The type invariant in parts.
LEMMA TypeParts == TypeOK <=> ALType /\ QueueType /\ CallsType
BY DEF TypeOK, ALType, QueueType, CallsType

\* Inside a host function, the queue it is about and its source.
LEMMA AtTop ==
    ASSUME TypeOK, NEW task, NEW stage, At(task, stage)
    PROVE  /\ host = "up" /\ calls # <<>>
           /\ Top \in CallType /\ Top \in Range(calls)
           /\ Top.aq \in Refs /\ Top.source \in Sources \cup {NoSource}
           /\ Top.reuse \in Seq(Bufs)
           /\ Top.task = task /\ Top.stage = stage
<1>1. calls \in Seq(CallType) /\ calls # <<>> /\ host = "up" /\ Top.task = task /\ Top.stage = stage
  BY DEF TypeOK, At
<1>2. Top \in CallType /\ Top \in Range(calls)
  BY <1>1, TopCall
<1> QED BY <1>1, <1>2 DEF CallType

\* A queue with a source has one of OpenAL's.
LEMMA HasOne ==
    ASSUME TypeOK, NEW q \in Refs, HasSource(q)
    PROVE  alSource[q] \in Sources
BY DEF TypeOK, HasSource

\* Playing a source that is not OpenAL's changes nothing.
LEMMA NoStranger ==
    ASSUME ALType, NEW s, s \notin Sources, SourcePlay(s)
    PROVE  UNCHANGED alVars
BY DEF ALType, SourcePlay, alVars

-----------------------------------------------------------------------------
\* The disjuncts of what host code does next, each with its guard.
PrimeEnds == EndPrime /\ (~CanPrime(Top.aq) \/ ~HasSource(Top.aq) \/ Primed(Top.aq))

PrimeMakes(s) ==
    /\ CanPrime(Top.aq) /\ ~HasSource(Top.aq)
    /\ GenSource(s)
    /\ alSource' = [alSource EXCEPT ![Top.aq] = s]
    /\ UNCHANGED <<live, supported, buffers, bufferQueue, isRunning,
                   isRunningHandler, calls, host>>

PrimeQueues ==
    LET q == Top.aq
        s == alSource[q]
    IN /\ CanPrime(q) /\ HasSource(q) /\ ~Primed(q)
       /\ Len(alQueue[s]) <= Len(bufferQueue[q])
       /\ QueueBuffer(s, bufferQueue[q][Len(alQueue[s]) + 1])
       /\ UNCHANGED <<queueVars, calls, host>>

PrimePanics ==
    LET q == Top.aq
    IN /\ CanPrime(q) /\ HasSource(q)
       /\ Len(alQueue[alSource[q]]) > Len(bufferQueue[q])
       /\ HostPanic

\* One of them is what priming does next.
LEMMA PrimeSteps ==
    ASSUME TypeOK, PrimeStep
    PROVE  /\ \E task \in {"pass", "prime", "start"} : At(task, "prime")
           /\ \/ PrimeEnds
              \/ \E s \in Sources : PrimeMakes(s)
              \/ PrimeQueues
              \/ PrimePanics
<1>1. PICK task \in {"pass", "prime", "start"} : At(task, "prime")
  BY DEF PrimeStep
<1>2. Top.aq \in Refs
  BY <1>1, AtTop
<1> DEFINE q == Top.aq
<1>3. CASE ~CanPrime(q)
  BY <1>1, <1>3 DEF PrimeStep, PrimeEnds
<1>4. CASE CanPrime(q) /\ ~HasSource(q)
  BY <1>1, <1>4 DEF PrimeStep, PrimeSource, PrimeEnds, PrimeMakes
<1>5. CASE CanPrime(q) /\ HasSource(q)
  <2>1. alSource[q] \in Sources
    BY <1>2, <1>5, HasOne
  <2>2. Len(alQueue[alSource[q]]) \in Nat /\ Len(bufferQueue[q]) \in Nat
    BY <1>2, <2>1 DEF TypeOK
  <2>3. PrimeBuffer(q)
    BY <1>5 DEF PrimeStep
  <2>4. CASE Len(alQueue[alSource[q]]) > Len(bufferQueue[q])
    <3>1. HostPanic
      BY <2>2, <2>3, <2>4 DEF PrimeBuffer
    <3> QED BY <1>1, <1>5, <2>4, <3>1 DEF PrimePanics
  <2>5. CASE Len(alQueue[alSource[q]]) <= Len(bufferQueue[q]) /\ Primed(q)
    <3>1. EndPrime
      BY <2>2, <2>3, <2>5 DEF PrimeBuffer
    <3> QED BY <1>1, <2>5, <3>1 DEF PrimeEnds
  <2>6. CASE Len(alQueue[alSource[q]]) <= Len(bufferQueue[q]) /\ ~Primed(q)
    <3>1. /\ QueueBuffer(alSource[q], bufferQueue[q][Len(alQueue[alSource[q]]) + 1])
          /\ UNCHANGED <<queueVars, calls, host>>
      BY <2>2, <2>3, <2>6 DEF PrimeBuffer
    <3> QED BY <1>1, <1>5, <2>6, <3>1 DEF PrimeQueues
  <2> QED BY <2>2, <2>4, <2>5, <2>6
<1> QED BY <1>3, <1>4, <1>5

\* The end of a pass.
PassFinds(q) == /\ At("pass", "play")
                /\ q = Top.aq

PassFinishes(q) ==
    /\ PassFinds(q)
    /\ q \in live /\ isRunning[q] = "Stopping" /\ sourceState[Top.source] = "STOPPED"
    /\ ~ResetFails(q)
    /\ FinishStopping(q)

PassEnds(q) ==
    /\ PassFinds(q)
    /\ EndPass(q)
    /\ IF q \in live /\ isRunning[q] = "Running" /\ sourceState[Top.source] = "STOPPED"
       THEN SourcePlay(Top.source) ELSE UNCHANGED alVars
    /\ UNCHANGED <<live, supported, buffers, bufferQueue, isRunning, alSource, host>>

PassPanics(q) ==
    /\ PassFinds(q)
    /\ q \in live /\ (sourceState[Top.source] = "DELETED" \/ ResetFails(q))
    /\ HostPanic

\* One of them is what a pass does at its end.
LEMMA PassSteps ==
    ASSUME TypeOK, PassPlay
    PROVE  \E q \in Refs : PassFinishes(q) \/ PassEnds(q) \/ PassPanics(q)
<1>1. At("pass", "play") /\ Top.aq \in Refs
  BY AtTop DEF PassPlay
<1> DEFINE q == Top.aq
<1> DEFINE state == sourceState[Top.source]
<1>2. CASE q \in live /\ isRunning[q] # "Stopped" /\ state = "DELETED"
  <2>1. HostPanic
    BY <1>2 DEF PassPlay
  <2> QED BY <1>1, <1>2, <2>1 DEF PassPanics, PassFinds
<1>3. CASE q \in live /\ isRunning[q] = "Stopping" /\ state = "STOPPED"
  <2>1. IF ResetFails(q) THEN HostPanic ELSE FinishStopping(q)
    BY <1>3 DEF PassPlay
  <2> QED BY <1>1, <1>3, <2>1 DEF PassFinishes, PassFinds, PassPanics
<1>4. CASE /\ ~(q \in live /\ isRunning[q] # "Stopped" /\ state = "DELETED")
           /\ ~(q \in live /\ isRunning[q] = "Stopping" /\ state = "STOPPED")
  <2>1. /\ EndPass(q)
        /\ IF q \in live /\ isRunning[q] = "Running" /\ state = "STOPPED"
           THEN SourcePlay(Top.source) ELSE UNCHANGED alVars
        /\ UNCHANGED <<live, supported, buffers, bufferQueue, isRunning, alSource, host>>
    BY <1>4 DEF PassPlay
  <2> QED BY <1>1, <2>1 DEF PassEnds, PassFinds
<1> QED BY <1>1, <1>2, <1>3, <1>4

-----------------------------------------------------------------------------
(***************************************************************************)
(* Type correctness, whatever the guest does.                              *)
(***************************************************************************)

\* Calls that are made have their type.
LEMMA CallTyped ==
    ASSUME NEW task \in {"pass", "prime", "start"}, NEW q \in Refs
    PROVE  /\ Call(task, q) \in CallType
           /\ Call(task, q).task = task /\ Call(task, q).aq = q
           /\ Call(task, q).stage = "prime" /\ Call(task, q).reuse = <<>>
<1>1. <<>> \in Seq(Bufs)
  OBVIOUS
<1> QED BY <1>1 DEF Call, CallType

\* The source of a queue has the queue of OpenAL's.
LEMMA SourceOf ==
    ASSUME TypeOK, NEW q \in Refs, NEW s, HasSource(q), s = alSource[q]
    PROVE  s \in Sources /\ alQueue[s] \in Seq(Bufs) /\ played[s] \in Nat
BY HasOne DEF TypeOK

\* Every step is an operation on one source, or leaves them alone.
LEMMA SourceSteps ==
    ASSUME TypeOK, [Next]_vars
    PROVE  UNCHANGED alVars \/ \E s \in Sources : SourceStep(s)
<1>1. CASE \E q \in Refs : AudioQueuePause(q)
  BY <1>1, HasOne DEF AudioQueuePause, SourceStep
<1>2. CASE \E q \in Refs : ResetQueue(q)
  BY <1>2, HasOne DEF ResetQueue, SourceStep
<1>3. CASE \E q \in Refs : AudioQueueDispose(q)
  BY <1>3, HasOne DEF AudioQueueDispose, SourceStep
<1>4. CASE PrimeStep
  <2>1. Top.aq \in Refs
    BY <1>4, PrimeSteps, AtTop
  <2>2. CASE PrimeEnds \/ PrimePanics
    BY <2>2 DEF PrimeEnds, EndPrime, PrimePanics, HostPanic
  <2>3. CASE \E s \in Sources : PrimeMakes(s)
    BY <2>3 DEF PrimeMakes, SourceStep
  <2>4. CASE PrimeQueues
    <3> DEFINE q == Top.aq
    <3> DEFINE s == alSource[q]
    <3>1. s \in Sources /\ alQueue[s] \in Seq(Bufs)
      BY <2>1, <2>4, SourceOf DEF PrimeQueues
    <3>2. bufferQueue[q] \in Seq(Bufs)
      BY <2>1 DEF TypeOK
    <3>3. Len(alQueue[s]) + 1 \in 1 .. Len(bufferQueue[q])
      BY <2>4, <3>1, <3>2 DEF PrimeQueues, Primed
    <3>4. bufferQueue[q][Len(alQueue[s]) + 1] \in Bufs
      BY <3>2, <3>3
    <3> QED BY <2>4, <3>1, <3>4 DEF PrimeQueues, SourceStep
  <2> QED BY <1>4, <2>2, <2>3, <2>4, PrimeSteps
<1>5. CASE StartPlay
  <2>1. Top.aq \in Refs
    BY <1>5, AtTop DEF StartPlay
  <2> QED BY <1>5, <2>1, HasOne DEF StartPlay, SourceStep
<1>6. CASE PassPlay
  <2>1. PICK q \in Refs : PassFinishes(q) \/ PassEnds(q) \/ PassPanics(q)
    BY <1>6, PassSteps
  <2>2. CASE PassFinishes(q)
    BY <1>2, <2>2 DEF PassFinishes, FinishStopping
  <2>3. CASE PassEnds(q)
    BY <2>3, NoStranger, TypeParts DEF PassEnds, SourceStep
  <2>4. CASE PassPanics(q)
    BY <2>4 DEF PassPanics, HostPanic
  <2> QED BY <2>1, <2>2, <2>3, <2>4
<1>7. CASE \E q \in Refs : BeginPass(q)
  BY <1>7, HasOne DEF BeginPass, SourceStep
<1>8. CASE Mixer
  BY <1>8 DEF Mixer, SourceStep
<1>9. CASE \/ \E q \in Refs :
                \/ \E ok \in BOOLEAN : AudioQueueNewOutput(q, ok)
                \/ \E b \in Bufs : \/ AudioQueueAllocateBuffer(q, b)
                                   \/ AudioQueueEnqueueBuffer(q, b)
                                   \/ AudioQueueFreeBuffer(q, b)
                \/ AudioQueuePrime(q)
                \/ AudioQueueStart(q)
                \/ AudioQueueStopLater(q)
           \/ EndCallback
           \/ EndListener
           \/ UNCHANGED vars
  BY <1>9 DEF AudioQueueNewOutput, AudioQueueAllocateBuffer, AudioQueueEnqueueBuffer,
     AudioQueueFreeBuffer, AudioQueuePrime, AudioQueueStart, BeginCall, AudioQueueStopLater,
     EndCallback, EndListener, vars
<1>10. CASE \E q \in Refs : AudioQueueReset(q) \/ AudioQueueStopNow(q)
  BY <1>2, <1>10 DEF AudioQueueReset, AudioQueueStopNow, HostPanic
<1> QED BY <1>1, <1>3, <1>4, <1>5, <1>6, <1>7, <1>8, <1>9, <1>10
        DEF Next, GuestStep, HostStep

\* The queues keep their types.
LEMMA QueuesTyped ==
    ASSUME TypeOK, [Next]_vars
    PROVE  QueueType'
<1> USE DEF QueueType
<1>t. QueueType
  BY TypeParts
<1>0. \A q \in Refs : [bufferQueue EXCEPT ![q] = <<>>] \in [Refs -> Seq(Bufs)]
  <2> TAKE q \in Refs
  <2> DEFINE none == <<>>
  <2>1. none \in Seq(Bufs)
    OBVIOUS
  <2> HIDE DEF none
  <2>2. [bufferQueue EXCEPT ![q] = none] \in [Refs -> Seq(Bufs)]
    BY <1>t, <2>1
  <2> QED BY <2>2 DEF none
<1>1. ASSUME NEW q \in Refs,
             \/ \E ok \in BOOLEAN : AudioQueueNewOutput(q, ok)
             \/ \E b \in Bufs : \/ AudioQueueAllocateBuffer(q, b)
                                \/ AudioQueueFreeBuffer(q, b)
      PROVE  QueueType'
  <2>1. CASE \E ok \in BOOLEAN : AudioQueueNewOutput(q, ok)
    BY <1>t, <1>0, <2>1 DEF AudioQueueNewOutput
  <2>2. CASE \E b \in Bufs : AudioQueueAllocateBuffer(q, b) \/ AudioQueueFreeBuffer(q, b)
    <3>1. PICK b \in Bufs : AudioQueueAllocateBuffer(q, b) \/ AudioQueueFreeBuffer(q, b)
      BY <2>2
    <3>2. PICK rest \in SUBSET Bufs : buffers' = [buffers EXCEPT ![q] = rest]
      BY <1>t, <3>1 DEF AudioQueueAllocateBuffer, AudioQueueFreeBuffer
    <3> QED BY <1>t, <3>1, <3>2 DEF AudioQueueAllocateBuffer, AudioQueueFreeBuffer
  <2> QED BY <1>1, <2>1, <2>2
<1>2. ASSUME NEW q \in Refs, NEW b \in Bufs, AudioQueueEnqueueBuffer(q, b)
      PROVE  QueueType'
  <2>1. Append(bufferQueue[q], b) \in Seq(Bufs)
    BY <1>t
  <2> QED BY <1>t, <1>2, <2>1 DEF AudioQueueEnqueueBuffer
<1>3. ASSUME NEW q \in Refs, AudioQueuePrime(q) \/ AudioQueueStart(q)
      PROVE  QueueType'
  BY <1>t, <1>3 DEF AudioQueuePrime, AudioQueueStart, BeginCall, queueVars
<1>4. ASSUME NEW q \in Refs, AudioQueuePause(q) \/ AudioQueueStopLater(q)
      PROVE  QueueType'
  BY <1>t, <1>4 DEF AudioQueuePause, AudioQueueStopLater
<1>5. ASSUME NEW q \in Refs, AudioQueueReset(q) \/ AudioQueueStopNow(q) \/ AudioQueueDispose(q)
      PROVE  QueueType'
  BY <1>t, <1>0, <1>5 DEF AudioQueueReset, AudioQueueStopNow, AudioQueueDispose, ResetQueue,
     HostPanic, queueVars
<1>6. CASE PrimeStep
  <2>1. Top.aq \in Refs
    BY <1>6, PrimeSteps, AtTop
  <2>2. CASE PrimeEnds \/ PrimePanics \/ PrimeQueues
    BY <1>t, <2>2 DEF PrimeEnds, EndPrime, PrimePanics, HostPanic, PrimeQueues, queueVars
  <2>3. CASE \E s \in Sources : PrimeMakes(s)
    BY <1>t, <2>1, <2>3 DEF PrimeMakes
  <2> QED BY <1>6, <2>2, <2>3, PrimeSteps
<1>7. CASE StartPlay
  <2>1. Top.aq \in Refs
    BY <1>7, AtTop DEF StartPlay
  <2> QED BY <1>t, <1>7, <2>1 DEF StartPlay
<1>8. CASE PassPlay
  <2>1. PICK q \in Refs : PassFinishes(q) \/ PassEnds(q) \/ PassPanics(q)
    BY <1>8, PassSteps
  <2>2. CASE PassFinishes(q)
    BY <1>t, <1>0, <2>2 DEF PassFinishes, FinishStopping, EndPass, ResetQueue
  <2>3. CASE PassEnds(q)
    BY <1>t, <2>3 DEF PassEnds, EndPass
  <2>4. CASE PassPanics(q)
    BY <1>t, <2>4 DEF PassPanics, HostPanic, queueVars
  <2> QED BY <2>1, <2>2, <2>3, <2>4
<1>9. ASSUME NEW q \in Refs, BeginPass(q)
      PROVE  QueueType'
  <2> DEFINE n == Processed(alSource[q])
  <2> DEFINE rest == SubSeq(bufferQueue[q], n + 1, Len(bufferQueue[q]))
  <2>1. n \in Nat
    BY <1>9, SourceOf DEF BeginPass, Processed
  <2>2. bufferQueue[q] \in Seq(Bufs)
    BY <1>t
  <2>3. rest \in Seq(Bufs)
    BY <2>1, <2>2
  <2>4. bufferQueue' = [bufferQueue EXCEPT ![q] = rest]
    BY <1>9 DEF BeginPass
  <2> HIDE DEF rest
  <2> QED BY <1>t, <1>9, <2>3, <2>4 DEF BeginPass
<1>10. CASE EndCallback
  BY <1>t, <1>10 DEF EndCallback, queueVars
<1>11. CASE EndListener
  <2>1. Top.aq \in Refs
    BY <1>11, AtTop DEF EndListener
  <2> QED BY <1>t, <1>11, <2>1 DEF EndListener, EndPass
<1>12. CASE Mixer \/ UNCHANGED vars
  BY <1>t, <1>12 DEF Mixer, vars, queueVars
<1> QED BY <1>1, <1>2, <1>3, <1>4, <1>5, <1>6, <1>7, <1>8, <1>9, <1>10, <1>11, <1>12
        DEF Next, GuestStep, HostStep

\* What becomes of the calls in every step.
LEMMA CallSteps ==
    ASSUME TypeOK, ALPlayed, [Next]_vars
    PROVE  \/ UNCHANGED calls
           \/ calls # <<>> /\ Return
           \/ \E c \in CallType :
                  /\ c.stage = "callback" => c.reuse # <<>>
                  /\ calls' = Append(calls, c) \/ (calls # <<>> /\ Continue(c))
<1>1. ASSUME NEW q \in Refs, AudioQueuePrime(q) \/ AudioQueueStart(q)
      PROVE  \E c \in CallType : c.stage # "callback" /\ calls' = Append(calls, c)
  <2>1. PICK task \in {"prime", "start"} : calls' = Append(calls, Call(task, q))
    BY <1>1 DEF AudioQueuePrime, AudioQueueStart, BeginCall
  <2> QED BY <2>1, CallTyped
<1>2. CASE PrimeStep
  <2>1. Top \in CallType /\ calls # <<>>
    BY <1>2, PrimeSteps, AtTop
  <2>2. [Top EXCEPT !.stage = "play"] \in CallType /\ [Top EXCEPT !.stage = "play"].stage # "callback"
    BY <2>1 DEF CallType
  <2>3. CASE PrimeEnds
    BY <2>1, <2>2, <2>3 DEF PrimeEnds, EndPrime
  <2>4. CASE PrimePanics \/ PrimeQueues \/ \E s \in Sources : PrimeMakes(s)
    BY <2>4 DEF PrimePanics, HostPanic, PrimeQueues, PrimeMakes
  <2> QED BY <1>2, <2>3, <2>4, PrimeSteps
<1>3. CASE StartPlay
  BY <1>3, AtTop DEF StartPlay
<1>4. CASE PassPlay
  <2>1. PICK q \in Refs : PassFinishes(q) \/ PassEnds(q) \/ PassPanics(q)
    BY <1>4, PassSteps
  <2>2. Top \in CallType /\ calls # <<>>
    BY <2>1, AtTop DEF PassFinishes, PassEnds, PassPanics, PassFinds
  <2>3. [Top EXCEPT !.stage = "listener"] \in CallType
        /\ [Top EXCEPT !.stage = "listener"].stage # "callback"
    BY <2>2 DEF CallType
  <2> QED BY <2>1, <2>2, <2>3 DEF PassFinishes, FinishStopping, PassEnds, EndPass, PassPanics, HostPanic
<1>5. ASSUME NEW q \in Refs, BeginPass(q)
      PROVE  \E c \in CallType : (c.stage = "callback" => c.reuse # <<>>) /\ calls' = Append(calls, c)
  <2> DEFINE n == Processed(alSource[q])
  <2> DEFINE reuse == IF n <= Len(bufferQueue[q]) THEN SubSeq(bufferQueue[q], 1, n)
                      ELSE bufferQueue[q]
  <2>1. alSource[q] \in Sources /\ n \in Nat
    BY <1>5, SourceOf DEF BeginPass, Processed
  <2>2. bufferQueue[q] \in Seq(Bufs)
    BY DEF TypeOK
  <2>3. PICK c : /\ c = [Call("pass", q) EXCEPT !.source = alSource[q],
                                                !.stage = AfterCallbacks(reuse),
                                                !.reuse = reuse]
                 /\ calls' = Append(calls, c)
    BY <1>5 DEF BeginPass
  <2>4. reuse \in Seq(Bufs)
    BY <2>1, <2>2
  <2>5. AfterCallbacks(reuse) \in {"callback", "prime"} /\ (AfterCallbacks(reuse) = "callback" => reuse # <<>>)
    BY DEF AfterCallbacks
  <2> HIDE DEF reuse
  <2>6. c \in CallType /\ (c.stage = "callback" => c.reuse # <<>>)
    BY <2>1, <2>3, <2>4, <2>5 DEF Call, CallType
  <2> QED BY <2>3, <2>6
<1>6. CASE EndCallback
  <2>1. Top \in CallType /\ calls # <<>> /\ Top \in Range(calls) /\ Top.stage = "callback"
    BY <1>6, AtTop DEF EndCallback
  <2>2. Top.reuse \in Seq(Bufs) /\ Top.reuse # <<>>
    BY <2>1 DEF TypeOK, CallType
  <2> DEFINE reuse == Tail(Top.reuse)
  <2>3. reuse \in Seq(Bufs)
    BY <2>2
  <2>4. AfterCallbacks(reuse) \in {"callback", "prime"} /\ (AfterCallbacks(reuse) = "callback" => reuse # <<>>)
    BY DEF AfterCallbacks
  <2> DEFINE c == [Top EXCEPT !.reuse = reuse, !.stage = AfterCallbacks(reuse)]
  <2>5. Continue(c)
    BY <1>6 DEF EndCallback
  <2> HIDE DEF reuse
  <2>6. c \in CallType /\ (c.stage = "callback" => c.reuse # <<>>)
    BY <2>1, <2>3, <2>4 DEF CallType
  <2> QED BY <2>1, <2>5, <2>6
<1>7. CASE EndListener
  BY <1>7, AtTop DEF EndListener, EndPass
<1>8. CASE \/ \E q \in Refs :
                \/ \E ok \in BOOLEAN : AudioQueueNewOutput(q, ok)
                \/ \E b \in Bufs : \/ AudioQueueAllocateBuffer(q, b)
                                   \/ AudioQueueEnqueueBuffer(q, b)
                                   \/ AudioQueueFreeBuffer(q, b)
                \/ AudioQueuePause(q)
                \/ AudioQueueReset(q)
                \/ AudioQueueStopNow(q)
                \/ AudioQueueStopLater(q)
                \/ AudioQueueDispose(q)
           \/ Mixer
           \/ UNCHANGED vars
  BY <1>8 DEF AudioQueueNewOutput, AudioQueueAllocateBuffer, AudioQueueEnqueueBuffer,
     AudioQueueFreeBuffer, AudioQueuePause, AudioQueueReset, AudioQueueStopNow, HostPanic,
     AudioQueueStopLater, AudioQueueDispose, Mixer, vars
<1> QED BY <1>1, <1>2, <1>3, <1>4, <1>5, <1>6, <1>7, <1>8 DEF Next, GuestStep, HostStep

\* The types hold at first.
LEMMA TypeInit == Init => TypeOK /\ ALPlayed
<1> HAVE Init
<1>1. <<>> \in Seq(Bufs) /\ <<>> \in Seq(CallType) /\ Range(<<>>) = {} /\ Len(<<>>) = 0
  BY DEF Range
<1> QED BY <1>1 DEF Init, ALInit, TypeOK, ALPlayed

\* Every step keeps the types.
LEMMA TypeStep ==
    ASSUME TypeOK, ALPlayed, [Next]_vars
    PROVE  TypeOK' /\ ALPlayed'
<1>1. ALType /\ CallsType
  BY TypeParts
<1>2. ALType' /\ ALPlayed'
  <2>1. CASE UNCHANGED alVars
    BY <1>1, <2>1 DEF ALType, ALPlayed, alVars
  <2>2. CASE \E s \in Sources : SourceStep(s)
    BY <1>1, <2>2, SourceStepKeeps
  <2> QED BY <2>1, <2>2, SourceSteps
<1>3. CallsType'
  BY <1>1, CallSteps, CallsTypeKept
<1>4. QueueType'
  BY QueuesTyped
<1> QED BY <1>2, <1>3, <1>4, TypeParts DEF TypeOK, ALType, QueueType, CallsType

\* Every variable has its type, whatever the guest does.
THEOREM TypeCorrect == Spec => [](TypeOK /\ ALPlayed)
<1>1. TypeOK /\ ALPlayed /\ [Next]_vars => (TypeOK /\ ALPlayed)'
  BY TypeStep
<1> QED BY <1>1, TypeInit, PTL DEF Spec

-----------------------------------------------------------------------------
(***************************************************************************)
(* The queues of buffers stay in step: AudioInv is inductive for a guest   *)
(* that may dispose of a queue inside a pass over it, makes no other at    *)
(* the same address before the pass is over, and does not reset a queue    *)
(* that is primed and was never started.                                   *)
(***************************************************************************)

\* Every source in use is that of one queue, which exists.
Attached ==
    /\ \A q \in Refs : HasSource(q) => q \in live /\ sourceState[alSource[q]] # "DELETED"
    /\ \A p, q \in Refs : HasSource(p) /\ HasSource(q) /\ alSource[p] = alSource[q] => p = q

\* A pass goes on with the source of its queue, as long as there is the queue.
PassesHold ==
    \A c \in Range(calls) :
        c.task = "pass" /\ c.aq \in live => HasSource(c.aq) /\ alSource[c.aq] = c.source

\* The two queues are in step.
QueuesFollow ==
    \A q \in Refs : HasSource(q) => Follows(alQueue[alSource[q]], bufferQueue[q])

AudioInv ==
    /\ TypeOK /\ ALPlayed
    /\ Attached
    /\ PassesHold
    /\ QueuesFollow
    /\ NoHostPanic

\* A queue that was disposed of in a pass over it leaves its address to no new
\* queue before the pass is over, and no queue is reset that has been primed and
\* never started.
LawfulQueues == {"reuse_in_pass", "reset_primed_queue"} \cap Misuse = {}

-----------------------------------------------------------------------------
\* What a step does to the queues.
SameNames == \A s \in Sources : sourceState'[s] = "DELETED" <=> sourceState[s] = "DELETED"

QuietStep == UNCHANGED <<alQueue, bufferQueue, alSource, live>> /\ SameNames

RequeueStep(q) ==
    /\ UNCHANGED <<alSource, live>> /\ SameNames
    /\ \A p \in Refs \ {q} : bufferQueue'[p] = bufferQueue[p]
    /\ \A s \in Sources : s # alSource[q] => alQueue'[s] = alQueue[s]
    /\ HasSource(q) => Follows(alQueue'[alSource[q]], bufferQueue'[q])

AttachStep(q, s) == PrimeMakes(s) /\ q = Top.aq

\* The queue has no source before or after it.
LEMMA OthersFollow ==
    ASSUME AudioInv, NEW q \in Refs, NEW s \in Sources,
           \A p \in Refs : HasSource(p) /\ p # q => alSource[p] # s,
           \A p \in Refs \ {q} : alSource'[p] = alSource[p] /\ bufferQueue'[p] = bufferQueue[p],
           \A u \in Sources : u # s => alQueue'[u] = alQueue[u],
           HasSource(q)' => Follows(alQueue'[alSource'[q]], bufferQueue'[q])
    PROVE  QueuesFollow'
<1> SUFFICES ASSUME NEW p \in Refs, HasSource(p)'
             PROVE  Follows(alQueue'[alSource'[p]], bufferQueue'[p])
  BY DEF QueuesFollow
<1>1. CASE p = q
  BY <1>1
<1>2. CASE p # q
  <2>1. HasSource(p) /\ alSource'[p] = alSource[p] /\ bufferQueue'[p] = bufferQueue[p]
    BY <1>2 DEF HasSource
  <2>2. alSource[p] \in Sources /\ alSource[p] # s
    BY <1>2, <2>1, HasOne DEF AudioInv
  <2>3. alQueue'[alSource[p]] = alQueue[alSource[p]]
    BY <2>2
  <2> QED BY <2>1, <2>3 DEF AudioInv, QueuesFollow
<1> QED BY <1>1, <1>2

\* A step that leaves the queues alone keeps them in step.
LEMMA QuietKeeps ==
    ASSUME AudioInv, QuietStep PROVE Attached' /\ QueuesFollow'
<1>1. \A q \in Refs : HasSource(q)' <=> HasSource(q)
  BY DEF HasSource, QuietStep
<1>2. \A q \in Refs : HasSource(q) => alSource[q] \in Sources
  BY HasOne DEF AudioInv
<1>3. Attached'
  BY <1>1, <1>2 DEF AudioInv, Attached, QuietStep, SameNames
<1>4. QueuesFollow'
  BY <1>1 DEF AudioInv, QueuesFollow, QuietStep
<1> QED BY <1>3, <1>4

\* So does one that changes the two queues of one audio queue alike.
LEMMA RequeueKeeps ==
    ASSUME AudioInv, NEW q \in Refs, RequeueStep(q) PROVE Attached' /\ QueuesFollow'
<1>1. \A p \in Refs : HasSource(p)' <=> HasSource(p)
  BY DEF HasSource, RequeueStep
<1>2. \A p \in Refs : HasSource(p) => alSource[p] \in Sources
  BY HasOne DEF AudioInv
<1>3. Attached'
  BY <1>1, <1>2 DEF AudioInv, Attached, RequeueStep, SameNames
<1>4. QueuesFollow'
  <2> SUFFICES ASSUME NEW p \in Refs, HasSource(p)
               PROVE  Follows(alQueue'[alSource[p]], bufferQueue'[p])
    BY <1>1 DEF QueuesFollow, RequeueStep
  <2>1. CASE p = q
    BY <2>1 DEF RequeueStep
  <2>2. CASE p # q /\ HasSource(q)
    <3>1. alSource[p] # alSource[q] /\ alSource[p] \in Sources
      BY <1>2, <2>2 DEF AudioInv, Attached
    <3> QED BY <2>2, <3>1 DEF AudioInv, QueuesFollow, RequeueStep
  <2>3. CASE p # q /\ ~HasSource(q)
    <3>1. alSource[p] # alSource[q] /\ alSource[p] \in Sources
      BY <1>2, <2>3 DEF HasSource
    <3> QED BY <2>3, <3>1 DEF AudioInv, QueuesFollow, RequeueStep
  <2> QED BY <2>1, <2>2, <2>3
<1> QED BY <1>3, <1>4

\* A new source is empty.
LEMMA AttachKeeps ==
    ASSUME AudioInv, NEW s \in Sources, NEW task, At(task, "prime"), PrimeMakes(s)
    PROVE  Attached' /\ QueuesFollow'
<1> DEFINE q == Top.aq
<1>0. q \in Refs /\ q \in live /\ ~HasSource(q)
  BY AtTop DEF AudioInv, PrimeMakes, CanPrime
<1>1. /\ sourceState[s] = "DELETED"
      /\ sourceState' = [sourceState EXCEPT ![s] = "INITIAL"]
      /\ alQueue' = [alQueue EXCEPT ![s] = <<>>]
      /\ alSource' = [alSource EXCEPT ![q] = s]
      /\ bufferQueue' = bufferQueue /\ live' = live
  BY DEF PrimeMakes, GenSource
<1>2. DOMAIN sourceState = Sources /\ DOMAIN alQueue = Sources /\ DOMAIN alSource = Refs
      /\ bufferQueue[q] \in Seq(Bufs)
  BY <1>0 DEF AudioInv, TypeOK
<1>3. \A p \in Refs : HasSource(p) => alSource[p] \in Sources /\ alSource[p] # s
  BY <1>1, HasOne DEF AudioInv, Attached
<1>4. alSource'[q] = s /\ \A p \in Refs : p # q => alSource'[p] = alSource[p]
  BY <1>0, <1>1, <1>2
<1>5. Attached'
  <2>1. sourceState'[s] = "INITIAL" /\ \A u \in Sources : u # s => sourceState'[u] = sourceState[u]
    BY <1>1, <1>2
  <2>2. \A p \in Refs : p # q => (HasSource(p)' <=> HasSource(p))
    BY <1>4 DEF HasSource
  <2>3. \A p \in Refs : HasSource(p)' => p \in live' /\ sourceState'[alSource'[p]] # "DELETED"
    BY <1>0, <1>1, <1>3, <1>4, <2>1, <2>2 DEF AudioInv, Attached
  <2>4. \A p, r \in Refs : HasSource(p)' /\ HasSource(r)' /\ alSource'[p] = alSource'[r] => p = r
    BY <1>3, <1>4, <2>2 DEF AudioInv, Attached
  <2> QED BY <2>3, <2>4 DEF Attached
<1>6. QueuesFollow'
  <2>1. alQueue'[s] = <<>> /\ \A u \in Sources : u # s => alQueue'[u] = alQueue[u]
    BY <1>1, <1>2
  <2>2. Follows(alQueue'[alSource'[q]], bufferQueue'[q])
    BY <1>1, <1>2, <1>4, <2>1 DEF Follows
  <2> QED BY <1>0, <1>1, <1>3, <1>4, <2>1, <2>2, OthersFollow
<1> QED BY <1>5, <1>6

\* A queue is disposed of with its source.
LEMMA DisposeKeeps ==
    ASSUME AudioInv, NEW q \in Refs, AudioQueueDispose(q)
    PROVE  Attached' /\ QueuesFollow'
<1>1. /\ alSource' = [alSource EXCEPT ![q] = NoSource]
      /\ bufferQueue' = [bufferQueue EXCEPT ![q] = <<>>]
      /\ live' = live \ {q}
  BY DEF AudioQueueDispose
<1>2. DOMAIN sourceState = Sources /\ DOMAIN alQueue = Sources /\ DOMAIN alSource = Refs
      /\ DOMAIN bufferQueue = Refs
  BY DEF AudioInv, TypeOK
<1>3. /\ ~HasSource(q)'
      /\ \A p \in Refs : p # q => /\ HasSource(p)' <=> HasSource(p)
                                  /\ alSource'[p] = alSource[p]
                                  /\ bufferQueue'[p] = bufferQueue[p]
  BY <1>1, <1>2 DEF HasSource
<1>4. \A p \in Refs : HasSource(p) => alSource[p] \in Sources
  BY HasOne DEF AudioInv
<1>5. \A s \in Sources : s = alSource[q] \/ (sourceState'[s] = sourceState[s] /\ alQueue'[s] = alQueue[s])
  <2>1. CASE HasSource(q)
    BY <1>2, <1>4, <2>1 DEF AudioQueueDispose, DeleteSource
  <2>2. CASE ~HasSource(q)
    BY <2>2 DEF AudioQueueDispose, alVars
  <2> QED BY <2>1, <2>2
<1>6. \A p \in Refs : HasSource(p) /\ p # q => alSource[p] # alSource[q]
  BY DEF AudioInv, Attached, HasSource
<1>7. Attached'
  BY <1>1, <1>3, <1>4, <1>5, <1>6 DEF AudioInv, Attached
<1>8. QueuesFollow'
  BY <1>3, <1>4, <1>5, <1>6 DEF AudioInv, QueuesFollow
<1> QED BY <1>7, <1>8

\* A new queue has no source.
LEMMA NewKeeps ==
    ASSUME AudioInv, NEW q \in Refs, NEW ok \in BOOLEAN, AudioQueueNewOutput(q, ok)
    PROVE  Attached' /\ QueuesFollow'
<1>1. /\ alSource' = [alSource EXCEPT ![q] = NoSource]
      /\ bufferQueue' = [bufferQueue EXCEPT ![q] = <<>>]
      /\ live' = live \cup {q}
      /\ UNCHANGED <<sourceState, alQueue>>
  BY DEF AudioQueueNewOutput, alVars
<1>2. DOMAIN alSource = Refs /\ DOMAIN bufferQueue = Refs
  BY DEF AudioInv, TypeOK
<1>3. /\ ~HasSource(q)'
      /\ \A p \in Refs : p # q => /\ HasSource(p)' <=> HasSource(p)
                                  /\ alSource'[p] = alSource[p]
                                  /\ bufferQueue'[p] = bufferQueue[p]
  BY <1>1, <1>2 DEF HasSource
<1>4. Attached'
  BY <1>1, <1>3 DEF AudioInv, Attached
<1>5. QueuesFollow'
  BY <1>1, <1>3 DEF AudioInv, QueuesFollow
<1> QED BY <1>4, <1>5

\* The guest's calls, and the mixer.
LEMMA QuietSteps ==
    ASSUME AudioInv,
           \/ \E q \in Refs : \/ \E b \in Bufs : \/ AudioQueueAllocateBuffer(q, b)
                                                 \/ AudioQueueFreeBuffer(q, b)
                              \/ AudioQueuePrime(q) \/ AudioQueueStart(q)
                              \/ AudioQueuePause(q) \/ AudioQueueStopLater(q)
           \/ PrimeEnds \/ PrimePanics
           \/ StartPlay
           \/ \E q \in Refs : PassEnds(q) \/ PassPanics(q)
           \/ EndCallback \/ EndListener
           \/ Mixer
           \/ UNCHANGED vars
    PROVE  QuietStep
<1> USE DEF QuietStep, SameNames
<1>t. TypeOK /\ sourceState \in
           [Sources -> {"INITIAL", "PLAYING", "PAUSED", "STOPPED", "DELETED"}]
  BY DEF AudioInv, TypeOK
<1>1. ASSUME NEW q \in Refs,
             \/ \E b \in Bufs : AudioQueueAllocateBuffer(q, b) \/ AudioQueueFreeBuffer(q, b)
             \/ AudioQueuePrime(q) \/ AudioQueueStart(q)
             \/ AudioQueueStopLater(q)
      PROVE  QuietStep
  BY <1>1 DEF AudioQueueAllocateBuffer, AudioQueueFreeBuffer, AudioQueuePrime,
     AudioQueueStart, BeginCall, AudioQueueStopLater, alVars, queueVars
<1>2. ASSUME NEW q \in Refs, AudioQueuePause(q)
      PROVE  QuietStep
  <2>1. HasSource(q) => alSource[q] \in Sources
    BY <1>t, HasOne
  <2> QED BY <1>t, <1>2, <2>1 DEF AudioQueuePause, SourcePause, alVars
<1>3. CASE PrimeEnds \/ PrimePanics \/ EndCallback \/ EndListener \/ UNCHANGED vars
  BY <1>3 DEF PrimeEnds, EndPrime, PrimePanics, HostPanic, EndCallback, EndListener, EndPass,
     vars, alVars, queueVars
<1>4. CASE StartPlay
  <2> DEFINE q == Top.aq
  <2>1. q \in Refs
    BY <1>4, <1>t, AtTop DEF StartPlay
  <2>2. HasSource(q) => alSource[q] \in Sources /\ sourceState[alSource[q]] # "DELETED"
    BY <1>t, <2>1, HasOne DEF AudioInv, Attached
  <2>3. CASE HasSource(q) /\ SourcePlay(alSource[q])
    BY <1>t, <1>4, <2>2, <2>3 DEF StartPlay, SourcePlay
  <2>4. CASE UNCHANGED alVars
    BY <1>4, <2>4 DEF StartPlay, alVars
  <2> QED BY <1>4, <2>3, <2>4 DEF StartPlay
<1>5. ASSUME NEW q \in Refs, PassEnds(q)
      PROVE  QuietStep
  <2>1. Top \in Range(calls) /\ Top.task = "pass" /\ Top.aq = q
    BY <1>5, <1>t, AtTop DEF PassEnds, PassFinds
  <2>2. q \in live => HasSource(q) /\ Top.source = alSource[q]
    BY <2>1 DEF AudioInv, PassesHold
  <2>3. q \in live => Top.source \in Sources /\ sourceState[Top.source] # "DELETED"
    BY <1>t, <2>2, HasOne DEF AudioInv, Attached
  <2>4. CASE q \in live /\ SourcePlay(Top.source)
    BY <1>t, <1>5, <2>3, <2>4 DEF PassEnds, SourcePlay
  <2>5. CASE UNCHANGED alVars
    BY <1>5, <2>5 DEF PassEnds, alVars
  <2> QED BY <1>5, <2>4, <2>5 DEF PassEnds
<1>6. ASSUME NEW q \in Refs, PassPanics(q)
      PROVE  QuietStep
  BY <1>6 DEF PassPanics, HostPanic, alVars, queueVars
<1>7. CASE Mixer
  BY <1>t, <1>7 DEF Mixer, MixerStep, queueVars
<1> QED BY <1>1, <1>2, <1>3, <1>4, <1>5, <1>6, <1>7

\* What is enqueued, primed, reset or handed back.
LEMMA EnqueueStep ==
    ASSUME AudioInv, NEW q \in Refs, NEW b \in Bufs, AudioQueueEnqueueBuffer(q, b)
    PROVE  RequeueStep(q)
<1>1. /\ UNCHANGED <<alSource, live, sourceState, alQueue>>
      /\ bufferQueue' = [bufferQueue EXCEPT ![q] = Append(@, b)]
  BY DEF AudioQueueEnqueueBuffer, alVars
<1>2. bufferQueue \in [Refs -> Seq(Bufs)]
  BY DEF AudioInv, TypeOK
<1>3. ASSUME HasSource(q) PROVE Follows(alQueue'[alSource[q]], bufferQueue'[q])
  <2>1. alQueue[alSource[q]] \in Seq(Bufs) /\ Follows(alQueue[alSource[q]], bufferQueue[q])
    BY <1>3, SourceOf DEF AudioInv, QueuesFollow
  <2>2. Follows(alQueue[alSource[q]], Append(bufferQueue[q], b))
    BY <1>2, <2>1, FollowsAppend
  <2> QED BY <1>1, <1>2, <2>2
<1> QED BY <1>1, <1>2, <1>3 DEF RequeueStep, SameNames

\* The next buffer of the queue is put on the source.
LEMMA PrimedStep ==
    ASSUME AudioInv, NEW task, At(task, "prime"), PrimeQueues
    PROVE  Top.aq \in Refs /\ RequeueStep(Top.aq)
<1> DEFINE q == Top.aq
<1> DEFINE s == alSource[q]
<1>0. q \in Refs
  BY AtTop DEF AudioInv
<1>1. /\ UNCHANGED <<alSource, live, sourceState, bufferQueue>>
      /\ alQueue' = [alQueue EXCEPT ![s] = Append(@, bufferQueue[q][Len(alQueue[s]) + 1])]
      /\ HasSource(q) /\ ~Primed(q)
  BY DEF PrimeQueues, QueueBuffer, queueVars
<1>2. /\ alQueue \in [Sources -> Seq(Bufs)] /\ s \in Sources
      /\ bufferQueue[q] \in Seq(Bufs)
      /\ Follows(alQueue[s], bufferQueue[q])
  BY <1>0, <1>1, SourceOf DEF AudioInv, TypeOK, QueuesFollow
<1>3. Len(alQueue[s]) # Len(bufferQueue[q])
  BY <1>1 DEF Primed
<1>4. Follows(Append(alQueue[s], bufferQueue[q][Len(alQueue[s]) + 1]), bufferQueue[q])
  BY <1>2, <1>3, FollowsAppend
<1>5. Follows(alQueue'[s], bufferQueue'[q])
  BY <1>1, <1>2, <1>4
<1> QED BY <1>0, <1>1, <1>2, <1>5 DEF RequeueStep, SameNames

\* A reset empties both queues.
LEMMA ResetStep ==
    ASSUME AudioInv, NEW q \in Refs, ResetQueue(q), UNCHANGED <<alSource, live>>,
           HasSource(q) /\ sourceState[alSource[q]] = "INITIAL" => alQueue[alSource[q]] = <<>>
    PROVE  RequeueStep(q)
<1> DEFINE s == alSource[q]
<1>1. bufferQueue' = [bufferQueue EXCEPT ![q] = <<>>] /\ bufferQueue \in [Refs -> Seq(Bufs)]
  BY DEF ResetQueue, AudioInv, TypeOK
<1>2. CASE ~HasSource(q)
  BY <1>1, <1>2 DEF ResetQueue, RequeueStep, SameNames, alVars
<1>3. CASE HasSource(q)
  <2>1. s \in Sources /\ sourceState[s] # "DELETED"
    BY <1>3, HasOne DEF AudioInv, Attached
  <2>2. /\ sourceState' = [sourceState EXCEPT ![s] = StoppedState(s)]
        /\ alQueue' = [alQueue EXCEPT ![s] = <<>>]
    BY <1>3 DEF ResetQueue, SourceStopAndUnqueue, StoppedState
  <2>3. DOMAIN sourceState = Sources /\ DOMAIN alQueue = Sources
    BY DEF AudioInv, TypeOK
  <2>4. Follows(alQueue'[s], bufferQueue'[q])
    BY <1>1, <2>1, <2>2, <2>3 DEF Follows
  <2> QED BY <1>1, <2>1, <2>2, <2>3, <2>4 DEF RequeueStep, SameNames, StoppedState
<1> QED BY <1>2, <1>3

\* A pass takes as many buffers off both queues.
LEMMA BeginStep ==
    ASSUME AudioInv, NEW q \in Refs, BeginPass(q)
    PROVE  RequeueStep(q)
<1> DEFINE s == alSource[q]
<1> DEFINE n == Processed(s)
<1>1. /\ UNCHANGED <<alSource, live, sourceState>>
      /\ alQueue' = [alQueue EXCEPT ![s] = SubSeq(@, n + 1, Len(@))]
      /\ bufferQueue' = [bufferQueue EXCEPT ![q] = SubSeq(@, n + 1, Len(@))]
      /\ HasSource(q)
  BY DEF BeginPass, UnqueueProcessed
<1>2. /\ alQueue \in [Sources -> Seq(Bufs)] /\ s \in Sources
      /\ bufferQueue \in [Refs -> Seq(Bufs)]
      /\ Follows(alQueue[s], bufferQueue[q])
  BY <1>1, SourceOf DEF AudioInv, TypeOK, QueuesFollow
<1>3. n \in 0 .. Len(alQueue[s])
  BY <1>2, ProcessedBound, TypeParts DEF AudioInv
<1> HIDE DEF n
<1>4. Follows(SubSeq(alQueue[s], n + 1, Len(alQueue[s])),
              SubSeq(bufferQueue[q], n + 1, Len(bufferQueue[q])))
  BY <1>2, <1>3, FollowsRest
<1>5. Follows(alQueue'[s], bufferQueue'[q])
  BY <1>1, <1>2, <1>4
<1> QED BY <1>1, <1>2, <1>5 DEF RequeueStep, SameNames

\* In step, no reset meets a buffer without an entry.
LEMMA ResetSucceeds ==
    ASSUME AudioInv, NEW q \in Refs PROVE ~ResetFails(q)
<1> SUFFICES ASSUME HasSource(q) PROVE ~(Len(alQueue[alSource[q]]) > Len(bufferQueue[q]))
  BY DEF ResetFails
<1>1. alQueue[alSource[q]] \in Seq(Bufs) /\ bufferQueue[q] \in Seq(Bufs)
  BY SourceOf DEF AudioInv, TypeOK
<1>2. Len(alQueue[alSource[q]]) <= Len(bufferQueue[q])
  BY DEF AudioInv, QueuesFollow, Follows
<1> QED BY <1>1, <1>2

\* Every step of a lawful guest keeps the queues in step.
LEMMA FollowStep ==
    ASSUME AudioInv, LawfulQueues, [Next]_vars
    PROVE  Attached' /\ QueuesFollow'
<1>t. TypeOK
  BY DEF AudioInv
<1>1. ASSUME NEW q \in Refs, AudioQueueReset(q) \/ AudioQueueStopNow(q)
      PROVE  Attached' /\ QueuesFollow'
  <2>1. ~ResetFails(q)
    BY ResetSucceeds
  <2>2. ResetQueue(q) /\ ResetLawful(q) /\ UNCHANGED <<alSource, live>>
    BY <1>1, <2>1 DEF AudioQueueReset, AudioQueueStopNow
  <2>3. HasSource(q) /\ sourceState[alSource[q]] = "INITIAL" => alQueue[alSource[q]] = <<>>
    BY <2>2 DEF ResetLawful, Lawful, LawfulQueues
  <2> QED BY <2>2, <2>3, ResetStep, RequeueKeeps
<1>2. CASE PrimeStep
  <2>1. PICK task \in {"pass", "prime", "start"} : At(task, "prime")
    BY <1>2, <1>t, PrimeSteps
  <2>2. CASE PrimeEnds \/ PrimePanics
    BY <2>2, QuietSteps, QuietKeeps
  <2>3. CASE \E s \in Sources : PrimeMakes(s)
    BY <2>1, <2>3, AttachKeeps
  <2>4. CASE PrimeQueues
    BY <2>1, <2>4, PrimedStep, RequeueKeeps
  <2> QED BY <1>2, <1>t, <2>2, <2>3, <2>4, PrimeSteps
<1>3. CASE PassPlay
  <2>1. PICK q \in Refs : PassFinishes(q) \/ PassEnds(q) \/ PassPanics(q)
    BY <1>3, <1>t, PassSteps
  <2>2. CASE PassFinishes(q)
    <3>1. Top \in Range(calls) /\ Top.task = "pass" /\ Top.aq = q /\ q \in live
      BY <1>t, <2>2, AtTop DEF PassFinishes, PassFinds
    <3>2. Top.source = alSource[q] /\ sourceState[alSource[q]] = "STOPPED"
      BY <2>2, <3>1 DEF AudioInv, PassesHold, PassFinishes
    <3>3. ResetQueue(q) /\ UNCHANGED <<alSource, live>>
      BY <2>2 DEF PassFinishes, FinishStopping
    <3> QED BY <3>2, <3>3, ResetStep, RequeueKeeps
  <2>3. CASE PassEnds(q) \/ PassPanics(q)
    BY <2>3, QuietSteps, QuietKeeps
  <2> QED BY <2>1, <2>2, <2>3
<1>4. ASSUME NEW q \in Refs, BeginPass(q)
      PROVE  Attached' /\ QueuesFollow'
  BY <1>4, BeginStep, RequeueKeeps
<1>5. ASSUME NEW q \in Refs,
             \/ \E ok \in BOOLEAN : AudioQueueNewOutput(q, ok)
             \/ \E b \in Bufs : AudioQueueEnqueueBuffer(q, b)
             \/ AudioQueueDispose(q)
      PROVE  Attached' /\ QueuesFollow'
  BY <1>5, NewKeeps, EnqueueStep, RequeueKeeps, DisposeKeeps
<1>6. CASE \/ \E q \in Refs :
                \/ \E b \in Bufs : \/ AudioQueueAllocateBuffer(q, b)
                                   \/ AudioQueueFreeBuffer(q, b)
                \/ AudioQueuePrime(q)
                \/ AudioQueueStart(q)
                \/ AudioQueuePause(q)
                \/ AudioQueueStopLater(q)
           \/ StartPlay
           \/ EndCallback \/ EndListener
           \/ Mixer
           \/ UNCHANGED vars
  BY <1>6, QuietSteps, QuietKeeps
<1> QED BY <1>1, <1>2, <1>3, <1>4, <1>5, <1>6 DEF Next, GuestStep, HostStep

-----------------------------------------------------------------------------
(***************************************************************************)
(* A pass goes on with the source it began with, so that it fails no       *)
(* assertion.                                                              *)
(***************************************************************************)

\* The pass c goes on from the pass d.
GoesOn(d, c) == d.task = "pass" /\ d.aq = c.aq /\ d.source = c.source

\* A pass begins with the source of its queue.
Begins(q, c) == BeginPass(q) /\ c.aq = q /\ c.source = alSource[q]

\* Every pass in progress after a step was in progress before it, or begins.
LEMMA PassCalls ==
    ASSUME TypeOK, ALPlayed, [Next]_vars, NEW c \in Range(calls'), c.task = "pass"
    PROVE  \/ \E d \in Range(calls) : GoesOn(d, c)
           \/ \E q \in Refs : Begins(q, c)
<1>t. calls \in Seq(CallType)
  BY DEF TypeOK
<1>s. c \in Range(calls) => \E d \in Range(calls) : GoesOn(d, c)
  BY DEF GoesOn
<1>1. ASSUME NEW q \in Refs, AudioQueuePrime(q) \/ AudioQueueStart(q)
      PROVE  c \in Range(calls)
  <2>1. PICK task \in {"prime", "start"} : calls' = Append(calls, Call(task, q))
    BY <1>1 DEF AudioQueuePrime, AudioQueueStart, BeginCall
  <2>2. /\ Call(task, q) \in CallType /\ Call(task, q).task # "pass"
    BY CallTyped
  <2>3. Range(calls') = Range(calls) \cup {Call(task, q)}
    BY <1>t, <2>1, <2>2, Pushed
  <2> QED BY <2>2, <2>3
<1>2. CASE calls # <<>> /\ Return
  BY <1>t, <1>s, <1>2, Returned
<1>3. CASE UNCHANGED calls
  BY <1>s, <1>3
<1>4. ASSUME NEW stage \in {"play", "listener"}, calls # <<>>, Continue([Top EXCEPT !.stage = stage])
      PROVE  \E d \in Range(calls) : GoesOn(d, c)
  <2> DEFINE e == [Top EXCEPT !.stage = stage]
  <2>1. Top \in CallType /\ Top \in Range(calls)
    BY <1>t, <1>4, TopCall
  <2>2. e \in CallType /\ e.task = Top.task /\ e.aq = Top.aq /\ e.source = Top.source /\ e.reuse = Top.reuse
    BY <2>1 DEF CallType
  <2>3. Range(calls') = Range(Front(calls)) \cup {e} /\ Range(Front(calls)) \subseteq Range(calls)
    BY <1>t, <1>4, <2>2, Continued
  <2>4. CASE c = e
    BY <2>1, <2>2, <2>4 DEF GoesOn
  <2> QED BY <1>s, <2>3, <2>4
<1>5. CASE PrimeStep
  <2>1. calls # <<>>
    BY <1>5, PrimeSteps, AtTop
  <2>2. CASE PrimeEnds
    BY <1>2, <1>4, <2>1, <2>2 DEF PrimeEnds, EndPrime
  <2>3. CASE PrimePanics \/ PrimeQueues \/ \E s \in Sources : PrimeMakes(s)
    BY <1>3, <2>3 DEF PrimePanics, HostPanic, PrimeQueues, PrimeMakes
  <2> QED BY <1>5, <2>2, <2>3, PrimeSteps
<1>6. CASE StartPlay \/ EndListener
  BY <1>2, <1>6, AtTop DEF StartPlay, EndListener, EndPass
<1>7. CASE PassPlay
  <2>1. PICK q \in Refs : PassFinishes(q) \/ PassEnds(q) \/ PassPanics(q)
    BY <1>7, PassSteps
  <2>2. calls # <<>>
    BY <2>1, AtTop DEF PassFinishes, PassEnds, PassPanics, PassFinds
  <2> QED BY <1>2, <1>3, <1>4, <2>1, <2>2
          DEF PassFinishes, FinishStopping, PassEnds, EndPass, PassPanics, HostPanic
<1>8. ASSUME NEW q \in Refs, BeginPass(q)
      PROVE  c \in Range(calls) \/ Begins(q, c)
  <2> DEFINE n == Processed(alSource[q])
  <2> DEFINE reuse == IF n <= Len(bufferQueue[q]) THEN SubSeq(bufferQueue[q], 1, n)
                      ELSE bufferQueue[q]
  <2>1. alSource[q] \in Sources /\ n \in Nat
    BY <1>8, SourceOf DEF BeginPass, Processed
  <2>2. bufferQueue[q] \in Seq(Bufs)
    BY DEF TypeOK
  <2>3. PICK e : /\ e = [Call("pass", q) EXCEPT !.source = alSource[q],
                                                !.stage = AfterCallbacks(reuse),
                                                !.reuse = reuse]
                 /\ calls' = Append(calls, e)
    BY <1>8 DEF BeginPass
  <2>4. reuse \in Seq(Bufs)
    <3> HIDE DEF n
    <3> QED BY <2>1, <2>2
  <2>5. AfterCallbacks(reuse) \in {"callback", "prime"}
    BY DEF AfterCallbacks
  <2> HIDE DEF reuse, n
  <2>6. e \in CallType /\ e.aq = q /\ e.source = alSource[q] /\ e.reuse = reuse
    BY <2>1, <2>3, <2>4, <2>5 DEF Call, CallType
  <2>7. Range(calls') = Range(calls) \cup {e}
    BY <1>t, <2>3, <2>6, Pushed
  <2> QED BY <1>8, <2>4, <2>6, <2>7 DEF Begins
<1>9. CASE EndCallback
  <2>1. Top \in CallType /\ calls # <<>> /\ Top \in Range(calls) /\ Top.stage = "callback" /\ Top.task = "pass"
    BY <1>9, AtTop DEF EndCallback
  <2>2. Top.reuse \in Seq(Bufs) /\ Top.reuse # <<>>
    BY <2>1 DEF TypeOK, CallType
  <2> DEFINE reuse == Tail(Top.reuse)
  <2>3. reuse \in Seq(Bufs)
    BY <2>2
  <2>4. AfterCallbacks(reuse) \in {"callback", "prime"}
    BY DEF AfterCallbacks
  <2> DEFINE e == [Top EXCEPT !.reuse = reuse, !.stage = AfterCallbacks(reuse)]
  <2>5. Continue(e)
    BY <1>9 DEF EndCallback
  <2>7. e \in CallType /\ e.task = Top.task /\ e.aq = Top.aq /\ e.source = Top.source /\ e.reuse = reuse
    <3> HIDE DEF reuse
    <3> QED BY <2>1, <2>3, <2>4 DEF CallType
  <2>8. Range(calls') = Range(Front(calls)) \cup {e} /\ Range(Front(calls)) \subseteq Range(calls)
    BY <1>t, <2>1, <2>5, <2>7, Continued
  <2>9. CASE c = e
    <3>1. GoesOn(Top, c)
      BY <2>1, <2>7, <2>9 DEF GoesOn
    <3> QED BY <2>1, <3>1
  <2> QED BY <1>s, <2>8, <2>9
<1>10. CASE \/ \E q \in Refs :
                \/ \E ok \in BOOLEAN : AudioQueueNewOutput(q, ok)
                \/ \E b \in Bufs : \/ AudioQueueAllocateBuffer(q, b)
                                   \/ AudioQueueEnqueueBuffer(q, b)
                                   \/ AudioQueueFreeBuffer(q, b)
                \/ AudioQueuePause(q)
                \/ AudioQueueReset(q)
                \/ AudioQueueStopNow(q)
                \/ AudioQueueStopLater(q)
                \/ AudioQueueDispose(q)
            \/ Mixer
            \/ UNCHANGED vars
  BY <1>3, <1>10 DEF AudioQueueNewOutput, AudioQueueAllocateBuffer, AudioQueueEnqueueBuffer,
     AudioQueueFreeBuffer, AudioQueuePause, AudioQueueReset, AudioQueueStopNow, HostPanic,
     AudioQueueStopLater, AudioQueueDispose, Mixer, vars
<1> QED BY <1>s, <1>1, <1>5, <1>6, <1>7, <1>8, <1>9, <1>10 DEF Next, GuestStep, HostStep

\* The source of a queue is another one only after the queue was disposed of.
LEMMA SourceStays ==
    ASSUME TypeOK, [Next]_vars, NEW q \in Refs, HasSource(q), Attached
    PROVE  alSource'[q] = alSource[q] \/ AudioQueueDispose(q)
<1>t. alSource \in [Refs -> Sources \cup {NoSource}]
  BY DEF TypeOK
<1>1. ASSUME NEW p \in Refs, NEW ok \in BOOLEAN, AudioQueueNewOutput(p, ok)
      PROVE  alSource'[q] = alSource[q]
  <2>1. p # q /\ alSource' = [alSource EXCEPT ![p] = NoSource]
    BY <1>1 DEF AudioQueueNewOutput, Attached
  <2> QED BY <1>t, <2>1
<1>2. ASSUME NEW p \in Refs, AudioQueueDispose(p)
      PROVE  alSource'[q] = alSource[q] \/ AudioQueueDispose(q)
  BY <1>t, <1>2 DEF AudioQueueDispose
<1>3. CASE PrimeStep
  <2>1. Top.aq \in Refs
    BY <1>3, PrimeSteps, AtTop
  <2>2. CASE PrimeEnds \/ PrimePanics \/ PrimeQueues
    BY <2>2 DEF PrimeEnds, EndPrime, PrimePanics, HostPanic, PrimeQueues, queueVars
  <2>3. CASE \E s \in Sources : PrimeMakes(s)
    <3>1. Top.aq # q
      BY <2>3 DEF PrimeMakes
    <3> QED BY <1>t, <2>3, <3>1 DEF PrimeMakes
  <2> QED BY <1>3, <2>2, <2>3, PrimeSteps
<1>4. CASE PassPlay
  <2>1. PICK p \in Refs : PassFinishes(p) \/ PassEnds(p) \/ PassPanics(p)
    BY <1>4, PassSteps
  <2> QED BY <2>1 DEF PassFinishes, FinishStopping, PassEnds, PassPanics, HostPanic, queueVars
<1>5. CASE \/ \E p \in Refs :
                \/ \E b \in Bufs : \/ AudioQueueAllocateBuffer(p, b)
                                   \/ AudioQueueEnqueueBuffer(p, b)
                                   \/ AudioQueueFreeBuffer(p, b)
                \/ AudioQueuePrime(p) \/ AudioQueueStart(p)
                \/ AudioQueuePause(p)
                \/ AudioQueueReset(p)
                \/ AudioQueueStopNow(p)
                \/ AudioQueueStopLater(p)
                \/ BeginPass(p)
           \/ StartPlay \/ EndCallback \/ EndListener
           \/ Mixer
           \/ UNCHANGED vars
  BY <1>5 DEF AudioQueueAllocateBuffer, AudioQueueEnqueueBuffer, AudioQueuePrime, AudioQueueStart,
     AudioQueueFreeBuffer, AudioQueuePause, AudioQueueReset, AudioQueueStopNow, HostPanic, BeginCall,
     AudioQueueStopLater, BeginPass, StartPlay, EndCallback, EndListener, Mixer, vars, queueVars
<1> QED BY <1>1, <1>2, <1>3, <1>4, <1>5 DEF Next, GuestStep, HostStep

\* A queue exists after a step that existed before, or is created.
LEMMA LiveStep ==
    ASSUME TypeOK, [Next]_vars, NEW q \in live', q \notin live
    PROVE  \E ok \in BOOLEAN : AudioQueueNewOutput(q, ok)
<1>1. ASSUME NEW p \in Refs, NEW ok \in BOOLEAN, AudioQueueNewOutput(p, ok)
      PROVE  AudioQueueNewOutput(q, ok)
  <2>1. p = q
    BY <1>1 DEF AudioQueueNewOutput
  <2> QED BY <1>1, <2>1
<1>2. CASE PrimeStep
  BY <1>2, PrimeSteps DEF PrimeEnds, EndPrime, PrimePanics, HostPanic, PrimeQueues, PrimeMakes,
     queueVars
<1>3. CASE PassPlay
  <2>1. PICK p \in Refs : PassFinishes(p) \/ PassEnds(p) \/ PassPanics(p)
    BY <1>3, PassSteps
  <2> QED BY <2>1 DEF PassFinishes, FinishStopping, PassEnds, PassPanics, HostPanic, queueVars
<1>4. CASE \/ \E p \in Refs :
                \/ \E b \in Bufs : \/ AudioQueueAllocateBuffer(p, b)
                                   \/ AudioQueueEnqueueBuffer(p, b)
                                   \/ AudioQueueFreeBuffer(p, b)
                \/ AudioQueuePrime(p) \/ AudioQueueStart(p)
                \/ AudioQueuePause(p)
                \/ AudioQueueReset(p)
                \/ AudioQueueStopNow(p)
                \/ AudioQueueStopLater(p)
                \/ AudioQueueDispose(p)
                \/ BeginPass(p)
           \/ StartPlay \/ EndCallback \/ EndListener
           \/ Mixer
           \/ UNCHANGED vars
  BY <1>4 DEF AudioQueueAllocateBuffer, AudioQueueEnqueueBuffer, AudioQueuePrime, AudioQueueStart,
     AudioQueueFreeBuffer, AudioQueuePause, AudioQueueReset, AudioQueueStopNow, HostPanic, BeginCall,
     AudioQueueStopLater, AudioQueueDispose, BeginPass, StartPlay, EndCallback, EndListener, Mixer,
     vars, queueVars
<1> QED BY <1>1, <1>2, <1>3, <1>4 DEF Next, GuestStep, HostStep

\* Every pass keeps the source of its queue, or loses the queue with it.
LEMMA PassesStep ==
    ASSUME AudioInv, LawfulQueues, [Next]_vars
    PROVE  PassesHold'
<1> SUFFICES ASSUME NEW c \in Range(calls'), c.task = "pass", c.aq \in live'
             PROVE  HasSource(c.aq)' /\ alSource'[c.aq] = c.source
  BY DEF PassesHold
<1>t. TypeOK /\ ALPlayed /\ Attached
  BY DEF AudioInv
<1>c. calls \in Seq(CallType)
  BY <1>t DEF TypeOK
<1>1. ASSUME NEW d \in Range(calls), GoesOn(d, c)
      PROVE  HasSource(c.aq)' /\ alSource'[c.aq] = c.source
  <2>1. d.task = "pass" /\ d.aq = c.aq /\ d.source = c.source
    BY <1>1 DEF GoesOn
  <2>2. c.aq \in live
    <3> SUFFICES ASSUME c.aq \notin live PROVE FALSE
      OBVIOUS
    <3>1. PICK ok \in BOOLEAN : AudioQueueNewOutput(c.aq, ok)
      BY <1>t, LiveStep
    <3>2. d \in Passes(c.aq)
      BY <2>1 DEF Passes
    <3> QED BY <3>1, <3>2 DEF AudioQueueNewOutput, Lawful, LawfulQueues
  <2>3. HasSource(c.aq) /\ alSource[c.aq] = c.source
    BY <2>1, <2>2 DEF AudioInv, PassesHold
  <2>4. c.aq \in Refs
    BY <1>t, <2>2 DEF TypeOK
  <2>5. ~AudioQueueDispose(c.aq)
    BY DEF AudioQueueDispose
  <2>6. alSource'[c.aq] = alSource[c.aq]
    BY <1>t, <2>3, <2>4, <2>5, SourceStays
  <2> QED BY <2>3, <2>6 DEF HasSource
<1>2. ASSUME NEW q \in Refs, Begins(q, c)
      PROVE  HasSource(c.aq)' /\ alSource'[c.aq] = c.source
  BY <1>2 DEF Begins, BeginPass, HasSource
<1> QED BY <1>t, <1>1, <1>2, PassCalls

\* No step fails an assertion.
LEMMA PanicStep ==
    ASSUME AudioInv, LawfulQueues, [Next]_vars
    PROVE  NoHostPanic'
<1>t. TypeOK /\ host = "up"
  BY DEF AudioInv, NoHostPanic
<1>1. CASE PrimeStep
  <2>1. PICK task \in {"pass", "prime", "start"} : At(task, "prime")
    BY <1>1, <1>t, PrimeSteps
  <2>2. ~PrimePanics
    <3> SUFFICES ASSUME PrimePanics PROVE FALSE
      OBVIOUS
    <3> DEFINE q == Top.aq
    <3>1. q \in Refs
      BY <1>t, <2>1, AtTop
    <3>2. HasSource(q) /\ Len(alQueue[alSource[q]]) > Len(bufferQueue[q])
      BY DEF PrimePanics
    <3>3. alQueue[alSource[q]] \in Seq(Bufs) /\ bufferQueue[q] \in Seq(Bufs)
      BY <1>t, <3>1, <3>2, SourceOf DEF TypeOK
    <3>4. Len(alQueue[alSource[q]]) <= Len(bufferQueue[q])
      BY <3>1, <3>2 DEF AudioInv, QueuesFollow, Follows
    <3> QED BY <3>2, <3>3, <3>4
  <2>3. PrimeEnds \/ PrimeQueues \/ \E s \in Sources : PrimeMakes(s)
    BY <1>1, <1>t, <2>2, PrimeSteps
  <2> QED BY <1>t, <2>3 DEF PrimeEnds, EndPrime, PrimeQueues, PrimeMakes, NoHostPanic
<1>2. CASE PassPlay
  <2>1. PICK q \in Refs : PassFinishes(q) \/ PassEnds(q) \/ PassPanics(q)
    BY <1>2, <1>t, PassSteps
  <2>2. ~PassPanics(q)
    <3> SUFFICES ASSUME PassPanics(q) PROVE FALSE
      OBVIOUS
    <3>1. Top \in Range(calls) /\ Top.task = "pass" /\ Top.aq = q /\ q \in live
      BY <1>t, AtTop DEF PassPanics, PassFinds
    <3>2. HasSource(q) /\ Top.source = alSource[q]
      BY <3>1 DEF AudioInv, PassesHold
    <3>3. sourceState[Top.source] # "DELETED"
      BY <3>2 DEF AudioInv, Attached
    <3> QED BY <3>3, ResetSucceeds DEF PassPanics
  <2> QED BY <1>t, <2>1, <2>2 DEF PassFinishes, FinishStopping, PassEnds, NoHostPanic
<1>3. ASSUME NEW q \in Refs, AudioQueueReset(q) \/ AudioQueueStopNow(q)
      PROVE  NoHostPanic'
  BY <1>t, <1>3, ResetSucceeds DEF AudioQueueReset, AudioQueueStopNow, NoHostPanic
<1>4. CASE \/ \E q \in Refs :
                \/ \E ok \in BOOLEAN : AudioQueueNewOutput(q, ok)
                \/ \E b \in Bufs : \/ AudioQueueAllocateBuffer(q, b)
                                   \/ AudioQueueEnqueueBuffer(q, b)
                                   \/ AudioQueueFreeBuffer(q, b)
                \/ AudioQueuePrime(q) \/ AudioQueueStart(q)
                \/ AudioQueuePause(q)
                \/ AudioQueueStopLater(q)
                \/ AudioQueueDispose(q)
                \/ BeginPass(q)
           \/ StartPlay \/ EndCallback \/ EndListener
           \/ Mixer
           \/ UNCHANGED vars
  BY <1>t, <1>4 DEF AudioQueueNewOutput, AudioQueueAllocateBuffer, AudioQueueEnqueueBuffer,
     AudioQueueFreeBuffer, AudioQueuePrime, AudioQueueStart, BeginCall, AudioQueuePause,
     AudioQueueStopLater, AudioQueueDispose, BeginPass, StartPlay, EndCallback, EndListener,
     Mixer, vars, NoHostPanic
<1> QED BY <1>1, <1>2, <1>3, <1>4 DEF Next, GuestStep, HostStep

\* The invariant holds at first.
LEMMA AudioInit == Init => AudioInv
<1> HAVE Init
<1>1. TypeOK /\ ALPlayed
  BY TypeInit
<1>2. \A q \in Refs : ~HasSource(q)
  BY DEF Init, HasSource
<1>3. Range(calls) = {}
  BY DEF Init, Range
<1>4. NoHostPanic
  BY DEF Init, NoHostPanic
<1> QED BY <1>1, <1>2, <1>3, <1>4 DEF AudioInv, Attached, PassesHold, QueuesFollow

\* Every step of a lawful guest keeps the invariant.
LEMMA AudioStep ==
    ASSUME AudioInv, LawfulQueues, [Next]_vars PROVE AudioInv'
<1>1. TypeOK' /\ ALPlayed'
  BY TypeStep DEF AudioInv
<1> QED BY <1>1, FollowStep, PassesStep, PanicStep DEF AudioInv

\* It holds at all times.
LEMMA AudioAlways == ASSUME LawfulQueues PROVE Spec => []AudioInv
<1>1. AudioInv /\ [Next]_vars => AudioInv'
  BY AudioStep
<1> QED BY <1>1, AudioInit, PTL DEF Spec

\* What it says of the properties.
LEMMA AudioImplies == AudioInv => InStep /\ NoHostPanic
<1> HAVE AudioInv
<1>1. ASSUME NEW q \in live, HasSource(q)
      PROVE  IsPrefix(alQueue[alSource[q]], bufferQueue[q])
  <2>1. q \in Refs
    BY DEF AudioInv, TypeOK
  <2>2. alQueue[alSource[q]] \in Seq(Bufs) /\ bufferQueue[q] \in Seq(Bufs)
    BY <1>1, <2>1, SourceOf DEF AudioInv, TypeOK
  <2>3. Follows(alQueue[alSource[q]], bufferQueue[q])
    BY <1>1, <2>1 DEF AudioInv, QueuesFollow
  <2> QED BY <2>2, <2>3, PrefixFollows
<1> QED BY <1>1 DEF AudioInv, InStep

\* The buffers on an OpenAL source are the first ones of the queue it belongs
\* to, in order.
THEOREM QueuesInStep == ASSUME LawfulQueues PROVE Spec => []InStep
BY AudioAlways, AudioImplies, PTL

\* No assertion or unwrap() of the audio queues fails.
THEOREM AudioNeverFails == ASSUME LawfulQueues PROVE Spec => []NoHostPanic
BY AudioAlways, AudioImplies, PTL

\* Host code works on the source of the queue it was called for.
LEMMA HostKeeps ==
    ASSUME AudioInv, HostStep, NEW s \in Sources,
           <<sourceState[s], alQueue[s], played[s]>>' # <<sourceState[s], alQueue[s], played[s]>>
    PROVE  Top.aq \in live /\ alSource'[Top.aq] = s
<1>t. TypeOK
  BY DEF AudioInv
<1>s. /\ DOMAIN sourceState = Sources /\ DOMAIN alQueue = Sources /\ DOMAIN played = Sources
      /\ DOMAIN alSource = Refs
  BY <1>t DEF TypeOK
<1>u. ~UNCHANGED alVars
  BY DEF alVars
<1>a. \A q \in Refs : HasSource(q) => q \in live /\ alSource[q] \in Sources
  BY <1>t, HasOne DEF AudioInv, Attached
<1>1. CASE PrimeStep
  <2>1. Top.aq \in Refs
    BY <1>1, <1>t, PrimeSteps, AtTop
  <2>2. CASE PrimeEnds \/ PrimePanics
    BY <1>u, <2>2 DEF PrimeEnds, EndPrime, PrimePanics, HostPanic
  <2>3. CASE PrimeQueues
    BY <1>s, <1>a, <2>1, <2>3 DEF PrimeQueues, QueueBuffer, queueVars
  <2>4. ASSUME NEW u \in Sources, PrimeMakes(u)
        PROVE  Top.aq \in live /\ alSource'[Top.aq] = s
    <3>1. u = s
      BY <1>s, <2>4 DEF PrimeMakes, GenSource
    <3> QED BY <1>s, <2>1, <2>4, <3>1 DEF PrimeMakes, CanPrime
  <2> QED BY <1>1, <1>t, <2>2, <2>3, <2>4, PrimeSteps
<1>2. CASE StartPlay
  <2>1. CanPrime(Top.aq) /\ HasSource(Top.aq) /\ SourcePlay(alSource[Top.aq])
    BY <1>2, <1>u DEF StartPlay
  <2> QED BY <1>2, <1>s, <2>1 DEF StartPlay, CanPrime, SourcePlay
<1>3. CASE PassPlay
  <2>1. PICK q \in Refs : PassFinishes(q) \/ PassEnds(q) \/ PassPanics(q)
    BY <1>3, <1>t, PassSteps
  <2>2. Top \in Range(calls) /\ Top.task = "pass" /\ Top.aq = q
    BY <1>t, <2>1, AtTop DEF PassFinishes, PassEnds, PassPanics, PassFinds
  <2>3. q \in live
    BY <1>u, <2>1 DEF PassFinishes, PassEnds, PassPanics
  <2>4. HasSource(q) /\ alSource[q] = Top.source
    BY <2>2, <2>3 DEF AudioInv, PassesHold
  <2>5. CASE PassFinishes(q)
    BY <1>s, <2>2, <2>3, <2>4, <2>5
       DEF PassFinishes, FinishStopping, ResetQueue, SourceStopAndUnqueue
  <2>6. CASE PassEnds(q)
    <3>1. SourcePlay(Top.source)
      BY <1>u, <2>6 DEF PassEnds
    <3> QED BY <1>s, <2>2, <2>3, <2>4, <2>6, <3>1 DEF PassEnds, SourcePlay
  <2>7. CASE PassPanics(q)
    BY <1>u, <2>7 DEF PassPanics, HostPanic
  <2> QED BY <2>1, <2>5, <2>6, <2>7
<1> QED BY <1>1, <1>2, <1>3 DEF HostStep

\* Whatever callbacks dispose of and create, a pass, a priming and a start touch
\* no source but that of their queue, and none once it is gone.
THEOREM PassesKeep == ASSUME LawfulQueues PROVE Spec => PassesKeepToTheirQueue
<1>1. AudioInv =>
          [\A s \in Sources :
               HostStep /\ <<sourceState[s], alQueue[s], played[s]>>'
                            # <<sourceState[s], alQueue[s], played[s]>>
                   => Top.aq \in live /\ alSource'[Top.aq] = s]_vars
  BY HostKeeps
<1> QED BY <1>1, AudioAlways, PTL DEF Spec, PassesKeepToTheirQueue

-----------------------------------------------------------------------------
(***************************************************************************)
(* No buffer of a running queue is lost.  A source that runs out of data   *)
(* between the steps of a pass has its next buffers put on it while it is  *)
(* stopped, where OpenAL counts them as processed: HeardInv says that the  *)
(* source is started before guest code, and with it the next pass, can     *)
(* run.                                                                    *)
(***************************************************************************)

\* A running queue has buffers on a source that has stopped before them.
Unheard(q) ==
    /\ isRunning[q] = "Running"
    /\ HasSource(q)
    /\ sourceState[alSource[q]] = "STOPPED"
    /\ played[alSource[q]] < Len(alQueue[alSource[q]])

\* Host functions that guest code is called from are passes.
Waits(c) == c.task = "pass" /\ c.stage \in {"callback", "listener"}

Nested ==
    calls # <<>> =>
        /\ \A c \in Range(Front(calls)) : Waits(c)
        /\ Top.stage \in {"callback", "listener"} => Waits(Top)
        /\ Top.task = "prime" => Top.stage = "prime" /\ isRunning[Top.aq] = "Stopped"

\* Host code that is about to start the source again is under way.
Restarts(q) ==
    /\ calls # <<>> /\ Top.aq = q
    /\ Top.task \in {"pass", "start"} /\ Top.stage \in {"prime", "play"}

HeardInv ==
    /\ Nested
    /\ \A q \in Refs : isRunning[q] # "Stopped" => supported[q]
    /\ \A q \in Refs : Unheard(q) => Restarts(q)

\* Only a queue that is stopped is primed.
LawfulPriming == LawfulQueues /\ "prime_running_queue" \notin Misuse

\* While guest code runs, nothing is unheard.
LEMMA GuestHears ==
    ASSUME HeardInv, calls # <<>> => Top.stage \in {"callback", "listener"}, NEW q \in Refs
    PROVE  ~Unheard(q)
BY DEF HeardInv, Restarts

\* What a step leaves alone stays heard.
LEMMA UnheardBefore ==
    ASSUME NEW q, Unheard(q)',
           alSource'[q] = alSource[q],
           isRunning'[q] = isRunning[q],
           sourceState'[alSource[q]] = sourceState[alSource[q]],
           played'[alSource[q]] = played[alSource[q]],
           alQueue'[alSource[q]] = alQueue[alSource[q]]
    PROVE  Unheard(q)
BY DEF Unheard, HasSource

\* The calls of the guest leave no buffer unheard.
LEMMA GuestUnheard ==
    ASSUME AudioInv, HeardInv, GuestStep, NEW q \in Refs
    PROVE  ~Unheard(q)'
<1>t. TypeOK
  BY DEF AudioInv
<1>g. GuestRuns
  BY DEF GuestStep, AudioQueueNewOutput, AudioQueueAllocateBuffer, AudioQueueEnqueueBuffer,
     AudioQueueFreeBuffer, AudioQueuePrime, AudioQueueStart, BeginCall, AudioQueuePause,
     AudioQueueReset, AudioQueueStopNow, AudioQueueStopLater, AudioQueueDispose
<1>h. ~Unheard(q)
  BY <1>g, GuestHears DEF GuestRuns
<1>s. /\ isRunning \in [Refs -> {"Running", "Stopping", "Stopped"}]
      /\ alSource \in [Refs -> Sources \cup {NoSource}]
      /\ DOMAIN sourceState = Sources /\ DOMAIN alQueue = Sources /\ DOMAIN played = Sources
  BY <1>t DEF TypeOK
<1>1. CASE \E p \in Refs : \/ \E b \in Bufs : \/ AudioQueueAllocateBuffer(p, b)
                                              \/ AudioQueueEnqueueBuffer(p, b)
                                              \/ AudioQueueFreeBuffer(p, b)
                           \/ AudioQueuePrime(p)
                           \/ AudioQueueStart(p)
  <2>1. UNCHANGED <<alSource, isRunning, sourceState, played, alQueue>>
    BY <1>1 DEF AudioQueueAllocateBuffer, AudioQueueEnqueueBuffer, AudioQueueFreeBuffer,
       AudioQueuePrime, AudioQueueStart, BeginCall, queueVars, alVars
  <2> QED BY <1>h, <2>1, UnheardBefore
<1>2. ASSUME NEW p \in Refs,
             \/ \E ok \in BOOLEAN : AudioQueueNewOutput(p, ok)
             \/ AudioQueueStopLater(p)
      PROVE  ~Unheard(q)'
  <2>1. UNCHANGED <<sourceState, played, alQueue>>
    BY <1>2 DEF AudioQueueNewOutput, AudioQueueStopLater, alVars
  <2>2. isRunning'[p] # "Running"
    BY <1>s, <1>2 DEF AudioQueueNewOutput, AudioQueueStopLater
  <2>3. p # q => isRunning'[q] = isRunning[q] /\ alSource'[q] = alSource[q]
    BY <1>s, <1>2 DEF AudioQueueNewOutput, AudioQueueStopLater
  <2> QED BY <1>h, <2>1, <2>2, <2>3, UnheardBefore DEF Unheard
<1>3. ASSUME NEW p \in Refs, AudioQueuePause(p)
      PROVE  ~Unheard(q)'
  <2>1. isRunning'[p] = "Stopped" /\ alSource' = alSource
    BY <1>s, <1>3 DEF AudioQueuePause
  <2>2. CASE p = q
    BY <2>1, <2>2 DEF Unheard
  <2>3. CASE p # q
    <3>1. isRunning'[q] = isRunning[q]
      BY <1>s, <1>3, <2>3 DEF AudioQueuePause
    <3>2. SUFFICES ASSUME Unheard(q)' PROVE FALSE
      OBVIOUS
    <3>3. HasSource(q) /\ alSource[q] \in Sources /\ (HasSource(p) => alSource[p] # alSource[q])
      BY <1>t, <2>1, <2>3, <3>2, HasOne DEF Unheard, HasSource, AudioInv, Attached
    <3>4. /\ sourceState'[alSource[q]] = sourceState[alSource[q]]
          /\ played' = played /\ alQueue' = alQueue
      BY <1>s, <1>3, <3>3 DEF AudioQueuePause, SourcePause, alVars
    <3> QED BY <1>h, <2>1, <3>1, <3>2, <3>4, UnheardBefore
  <2> QED BY <2>2, <2>3
<1>4. ASSUME NEW p \in Refs, AudioQueueReset(p) \/ AudioQueueStopNow(p)
      PROVE  ~Unheard(q)'
  <2>1. ResetQueue(p) /\ UNCHANGED <<alSource>>
    BY <1>4, ResetSucceeds DEF AudioQueueReset, AudioQueueStopNow
  <2>2. isRunning'[q] = isRunning[q] \/ isRunning'[q] = "Stopped"
    BY <1>s, <1>4, ResetSucceeds DEF AudioQueueReset, AudioQueueStopNow
  <2>3. SUFFICES ASSUME Unheard(q)' PROVE FALSE
    OBVIOUS
  <2>4. isRunning'[q] = isRunning[q] /\ HasSource(q) /\ alSource[q] \in Sources
    BY <1>t, <2>1, <2>2, <2>3, HasOne DEF Unheard, HasSource
  <2>5. CASE p = q
    <3>1. SourceStopAndUnqueue(alSource[q])
      BY <2>1, <2>4, <2>5 DEF ResetQueue
    <3>2. sourceState'[alSource[q]] = "STOPPED" => alQueue'[alSource[q]] = <<>> /\ played'[alSource[q]] = 0
      BY <1>s, <2>4, <3>1 DEF SourceStopAndUnqueue
    <3> QED BY <2>1, <2>3, <3>2 DEF Unheard
  <2>6. CASE p # q
    <3>1. HasSource(p) => alSource[p] # alSource[q]
      BY <2>4, <2>6 DEF AudioInv, Attached
    <3>2. /\ sourceState'[alSource[q]] = sourceState[alSource[q]]
          /\ played'[alSource[q]] = played[alSource[q]]
          /\ alQueue'[alSource[q]] = alQueue[alSource[q]]
      BY <1>s, <2>1, <2>4, <3>1 DEF ResetQueue, SourceStopAndUnqueue, alVars
    <3> QED BY <1>h, <2>1, <2>3, <2>4, <3>2, UnheardBefore
  <2> QED BY <2>5, <2>6
<1>5. ASSUME NEW p \in Refs, AudioQueueDispose(p)
      PROVE  ~Unheard(q)'
  <2>1. alSource' = [alSource EXCEPT ![p] = NoSource]
    BY <1>5 DEF AudioQueueDispose
  <2>2. CASE p = q
    BY <1>s, <2>1, <2>2 DEF Unheard, HasSource
  <2>3. CASE p # q
    <3>1. isRunning'[q] = isRunning[q] /\ alSource'[q] = alSource[q]
      BY <1>s, <1>5, <2>3 DEF AudioQueueDispose
    <3>2. SUFFICES ASSUME Unheard(q)' PROVE FALSE
      OBVIOUS
    <3>3. HasSource(q) /\ alSource[q] \in Sources /\ (HasSource(p) => alSource[p] # alSource[q])
      BY <1>t, <2>3, <3>1, <3>2, HasOne DEF Unheard, HasSource, AudioInv, Attached
    <3>4. /\ sourceState'[alSource[q]] = sourceState[alSource[q]]
          /\ played'[alSource[q]] = played[alSource[q]]
          /\ alQueue'[alSource[q]] = alQueue[alSource[q]]
      BY <1>s, <1>5, <3>3 DEF AudioQueueDispose, DeleteSource, alVars
    <3> QED BY <1>h, <3>1, <3>2, <3>4, UnheardBefore
  <2> QED BY <2>2, <2>3
<1> QED BY <1>1, <1>2, <1>3, <1>4, <1>5 DEF GuestStep

\* A pass takes what is on a source that has stopped.
LEMMA BeginUnheard ==
    ASSUME AudioInv, HeardInv, NEW p \in Refs, BeginPass(p), NEW q \in Refs
    PROVE  ~Unheard(q)'
<1>t. TypeOK
  BY DEF AudioInv
<1>h. ~Unheard(q)
  BY GuestHears DEF BeginPass, GuestRuns
<1> DEFINE s == alSource[p]
<1>1. /\ UNCHANGED <<alSource, isRunning, sourceState>> /\ HasSource(p)
      /\ alQueue' = [alQueue EXCEPT ![s] = SubSeq(@, Processed(s) + 1, Len(@))]
      /\ played' = [played EXCEPT ![s] = 0]
  BY DEF BeginPass, UnqueueProcessed
<1>2. s \in Sources /\ alQueue \in [Sources -> Seq(Bufs)] /\ DOMAIN played = Sources
  BY <1>t, <1>1, HasOne DEF TypeOK
<1>3. SUFFICES ASSUME Unheard(q)' PROVE FALSE
  OBVIOUS
<1>4. HasSource(q) /\ alSource[q] \in Sources
  BY <1>t, <1>1, <1>3, HasOne DEF Unheard, HasSource
<1>5. CASE p = q
  <2>1. sourceState[s] = "STOPPED"
    BY <1>1, <1>3, <1>5 DEF Unheard
  <2>2. Processed(s) = Len(alQueue[s])
    BY <2>1 DEF Processed
  <2>3. Len(SubSeq(alQueue[s], Len(alQueue[s]) + 1, Len(alQueue[s]))) = 0
    BY <1>2
  <2>4. alQueue'[s] = SubSeq(alQueue[s], Processed(s) + 1, Len(alQueue[s])) /\ played'[s] = 0
    <3> HIDE DEF s
    <3> QED BY <1>1, <1>2
  <2>5. Len(alQueue'[s]) = 0
    <3> HIDE DEF s
    <3>1. alQueue'[s] = SubSeq(alQueue[s], Len(alQueue[s]) + 1, Len(alQueue[s]))
      BY <2>2, <2>4, Zenon
    <3>2. Len(alQueue'[s]) = Len(SubSeq(alQueue[s], Len(alQueue[s]) + 1, Len(alQueue[s])))
      BY <3>1
    <3> QED BY <2>3, <3>2
  <2>6. alSource'[q] = s
    BY <1>1, <1>5
  <2>7. played'[s] < Len(alQueue'[s])
    <3> HIDE DEF s
    <3> QED BY <1>3, <2>6 DEF Unheard
  <2>8. played'[s] = 0
    BY <2>4
  <2> HIDE DEF s
  <2> QED BY <2>5, <2>7, <2>8
<1>6. CASE p # q
  <2>1. alSource[p] # alSource[q]
    BY <1>1, <1>4, <1>6 DEF AudioInv, Attached
  <2>2. played'[alSource[q]] = played[alSource[q]] /\ alQueue'[alSource[q]] = alQueue[alSource[q]]
    BY <1>1, <1>2, <1>4, <2>1
  <2> QED BY <1>1, <1>3, <1>h, <2>2, UnheardBefore
<1> QED BY <1>5, <1>6

\* A source stops when it has no more to play.
LEMMA MixerUnheard ==
    ASSUME AudioInv, Mixer, NEW q \in Refs, Unheard(q)'
    PROVE  Unheard(q)
<1>t. TypeOK
  BY DEF AudioInv
<1>1. PICK s \in Sources : MixerStep(s) /\ UNCHANGED <<queueVars, calls, host>>
  BY DEF Mixer
<1>2. /\ alSource' = alSource /\ isRunning' = isRunning /\ alQueue' = alQueue
      /\ played' = [played EXCEPT ![s] = @ + 1]
      /\ sourceState[s] = "PLAYING"
      /\ sourceState' = [sourceState EXCEPT ![s] =
                             IF played[s] + 1 >= Len(alQueue[s]) THEN "STOPPED" ELSE @]
  BY <1>1 DEF MixerStep, queueVars
<1>3. /\ HasSource(q) /\ alSource[q] \in Sources
      /\ played \in [Sources -> Nat] /\ DOMAIN sourceState = Sources
      /\ alQueue \in [Sources -> Seq(Bufs)]
  BY <1>t, <1>2, HasOne DEF Unheard, HasSource, TypeOK
<1>4. CASE alSource[q] = s
  <2>1. sourceState'[s] = "STOPPED" => played[s] + 1 >= Len(alQueue[s])
    BY <1>2, <1>3
  <2>2. played'[s] = played[s] + 1 /\ alQueue'[s] = alQueue[s]
    BY <1>2, <1>3
  <2>3. played[s] + 1 >= Len(alQueue[s]) /\ played[s] + 1 < Len(alQueue[s])
    BY <1>2, <1>4, <2>1, <2>2 DEF Unheard
  <2> QED BY <1>3, <2>3
<1>5. CASE alSource[q] # s
  BY <1>2, <1>3, <1>5, UnheardBefore
<1> QED BY <1>4, <1>5

\* Host code starts the source of its queue before it returns.
LEMMA PrimeUnheard ==
    ASSUME AudioInv, AudioInv', HeardInv, PrimeStep, NEW q \in Refs, Unheard(q)'
    PROVE  Restarts(q)'
<1>t. TypeOK /\ calls \in Seq(CallType)
  BY DEF AudioInv, TypeOK
<1>0. PICK task \in {"pass", "prime", "start"} : At(task, "prime")
  BY <1>t, PrimeSteps
<1>1. /\ Top.aq \in Refs /\ calls # <<>> /\ Top \in CallType
      /\ Top.task = task /\ Top.stage = "prime"
  BY <1>t, <1>0, AtTop
<1>2. CASE PrimeEnds
  <2>1. UNCHANGED <<alSource, isRunning, sourceState, played, alQueue>>
    BY <1>2 DEF PrimeEnds, EndPrime, alVars, queueVars
  <2>2. Unheard(q)
    BY <2>1, UnheardBefore
  <2>3. Restarts(q)
    BY <2>2 DEF HeardInv
  <2> DEFINE e == [Top EXCEPT !.stage = "play"]
  <2>4. Continue(e)
    BY <1>2, <2>3 DEF PrimeEnds, EndPrime, Restarts
  <2>5. e \in CallType /\ e.aq = Top.aq /\ e.task = Top.task /\ e.stage = "play"
    BY <1>1 DEF CallType
  <2>6. calls' # <<>> /\ Top' = e
    BY <1>t, <1>1, <2>4, <2>5, Continued
  <2> QED BY <2>3, <2>5, <2>6 DEF Restarts
<1>3. ASSUME NEW s \in Sources, PrimeMakes(s)
      PROVE  Restarts(q)'
  <2>1. UNCHANGED <<calls, isRunning>>
        /\ sourceState' = [sourceState EXCEPT ![s] = "INITIAL"]
        /\ alQueue' = [alQueue EXCEPT ![s] = <<>>]
        /\ played' = [played EXCEPT ![s] = 0]
        /\ alSource' = [alSource EXCEPT ![Top.aq] = s]
        /\ sourceState[s] = "DELETED"
    BY <1>3 DEF PrimeMakes, GenSource
  <2>2. /\ alSource \in [Refs -> Sources \cup {NoSource}]
        /\ DOMAIN sourceState = Sources /\ DOMAIN alQueue = Sources /\ DOMAIN played = Sources
    BY <1>t DEF TypeOK
  <2>3. q # Top.aq
    <3>1. alSource'[Top.aq] = s /\ sourceState'[s] = "INITIAL"
      BY <1>1, <2>1, <2>2
    <3> QED BY <3>1 DEF Unheard
  <2>4. alSource'[q] = alSource[q] /\ HasSource(q)
    BY <2>1, <2>2, <2>3 DEF Unheard, HasSource
  <2>5. alSource[q] \in Sources /\ alSource[q] # s
    BY <1>t, <2>1, <2>4, HasOne DEF AudioInv, Attached
  <2>6. Unheard(q)
    BY <2>1, <2>2, <2>4, <2>5, UnheardBefore
  <2> QED BY <2>1, <2>6 DEF HeardInv, Restarts, Top
<1>4. CASE PrimeQueues
  <2> DEFINE s == alSource[Top.aq]
  <2>1. /\ UNCHANGED <<calls, isRunning, alSource, sourceState, played>>
        /\ \E b : alQueue' = [alQueue EXCEPT ![s] = Append(@, b)]
        /\ HasSource(Top.aq)
    BY <1>4 DEF PrimeQueues, QueueBuffer, queueVars
  <2>2. DOMAIN alQueue = Sources
    BY <1>t DEF TypeOK
  <2>3. HasSource(q) /\ alSource[q] \in Sources
    BY <1>t, <2>1, HasOne DEF Unheard, HasSource
  <2>4. CASE q # Top.aq
    <3>1. alSource[q] # s
      BY <1>1, <2>1, <2>3, <2>4 DEF AudioInv, Attached
    <3>2. Unheard(q)
      BY <2>1, <2>2, <2>3, <3>1, UnheardBefore
    <3> QED BY <2>1, <3>2 DEF HeardInv, Restarts, Top
  <2>5. CASE q = Top.aq
    <3>1. isRunning[q] = "Running"
      BY <2>1 DEF Unheard
    <3>2. Top.task # "prime"
      BY <1>1, <2>5, <3>1 DEF HeardInv, Nested
    <3> QED BY <1>0, <1>1, <2>1, <2>5, <3>2 DEF Restarts, Top
  <2> QED BY <2>4, <2>5
<1>5. CASE PrimePanics
  BY <1>5 DEF PrimePanics, HostPanic, AudioInv, NoHostPanic
<1> QED BY <1>t, <1>2, <1>3, <1>4, <1>5, PrimeSteps

\* Playing the source of the queue leaves nothing unheard on it.
LEMMA PlayUnheard ==
    ASSUME AudioInv, AudioInv', HeardInv, StartPlay \/ PassPlay, NEW q \in Refs
    PROVE  ~Unheard(q)'
<1>t. TypeOK
  BY DEF AudioInv
<1>a. calls # <<>> /\ Top \in Range(calls) /\ Top.aq \in Refs /\ Top.stage = "play"
      /\ (PassPlay => Top.task = "pass")
  BY <1>t, AtTop DEF StartPlay, PassPlay
<1> DEFINE p == Top.aq
<1>o. \A r \in Refs : Unheard(r) => r = p
  BY DEF HeardInv, Restarts
<1>s. /\ isRunning \in [Refs -> {"Running", "Stopping", "Stopped"}]
      /\ DOMAIN sourceState = Sources /\ DOMAIN alQueue = Sources /\ DOMAIN played = Sources
  BY <1>t DEF TypeOK
\* The source is played: it stops only if it has nothing queued.
<1>1. ASSUME UNCHANGED <<alSource>>, HasSource(p), SourcePlay(alSource[p]),
             \A r \in Refs \ {p} : isRunning'[r] = isRunning[r]
      PROVE  ~Unheard(q)'
  <2>0. SUFFICES ASSUME Unheard(q)' PROVE FALSE
    OBVIOUS
  <2>1. alSource[p] \in Sources
    BY <1>t, <1>a, <1>1, HasOne
  <2>2. HasSource(q) /\ alSource[q] \in Sources
    BY <1>t, <1>1, <2>0, HasOne DEF Unheard, HasSource
  <2>3. CASE q = p
    <3>1. sourceState'[alSource[p]] = "STOPPED" => alQueue[alSource[p]] = <<>>
      BY <1>s, <1>1, <2>1 DEF SourcePlay
    <3>2. alQueue' = alQueue
      BY <1>1 DEF SourcePlay
    <3>3. Len(alQueue'[alSource[p]]) = 0
      BY <1>1, <2>0, <2>3, <3>1, <3>2 DEF Unheard
    <3>4. played'[alSource[p]] \in Nat
      BY <2>1 DEF AudioInv, TypeOK
    <3> QED BY <1>1, <2>0, <2>3, <3>3, <3>4 DEF Unheard
  <2>4. CASE q # p
    <3>1. alSource[q] # alSource[p]
      BY <1>a, <1>1, <2>2, <2>4 DEF AudioInv, Attached
    <3>2. /\ sourceState'[alSource[q]] = sourceState[alSource[q]]
          /\ played'[alSource[q]] = played[alSource[q]]
          /\ alQueue'[alSource[q]] = alQueue[alSource[q]]
      BY <1>s, <1>1, <2>2, <3>1 DEF SourcePlay
    <3>3. Unheard(q)
      BY <1>1, <2>0, <2>4, <3>2, UnheardBefore
    <3> QED BY <1>o, <2>4, <3>3
  <2> QED BY <2>3, <2>4
<1>2. CASE StartPlay
  <2>1. UNCHANGED <<alSource>> /\ \A r \in Refs \ {p} : isRunning'[r] = isRunning[r]
    BY <1>s, <1>a, <1>2 DEF StartPlay
  <2>2. CASE CanPrime(p) /\ HasSource(p)
    BY <1>1, <1>2, <2>1, <2>2 DEF StartPlay
  <2>3. CASE ~(CanPrime(p) /\ HasSource(p))
    <3>0. SUFFICES ASSUME Unheard(q)' PROVE FALSE
      OBVIOUS
    <3>1. UNCHANGED alVars
      BY <1>2, <2>3 DEF StartPlay
    <3>2. CASE q # p
      <4>1. Unheard(q)
        BY <2>1, <3>0, <3>1, <3>2, UnheardBefore DEF alVars
      <4> QED BY <1>o, <3>2, <4>1
    <3>3. CASE q = p
      <4>1. HasSource(p)
        BY <2>1, <3>0, <3>3 DEF Unheard, HasSource
      <4>2. ~CanPrime(p) /\ p \in live
        BY <1>a, <2>3, <4>1 DEF AudioInv, Attached
      <4>3. isRunning' = isRunning
        BY <1>2, <4>2 DEF StartPlay
      <4>4. supported[p]
        BY <1>a, <3>0, <3>3, <4>3 DEF Unheard, HeardInv
      <4> QED BY <4>2, <4>4 DEF CanPrime
    <3> QED BY <3>2, <3>3
  <2> QED BY <2>2, <2>3
<1>3. CASE PassPlay
  <2>1. PICK r \in Refs : PassFinishes(r) \/ PassEnds(r) \/ PassPanics(r)
    BY <1>t, <1>3, PassSteps
  <2>r. r = p
    BY <2>1 DEF PassFinishes, PassEnds, PassPanics, PassFinds
  <2>0. CASE p \notin live
    <3>1. UNCHANGED <<alVars, alSource, isRunning>>
      BY <2>r, <2>0, <2>1 DEF PassFinishes, PassEnds, PassPanics
    <3>2. Unheard(q)' => Unheard(q)
      BY <3>1, UnheardBefore DEF alVars
    <3>3. ~Unheard(p)
      BY <1>a, <2>0 DEF Unheard, AudioInv, Attached
    <3> QED BY <1>o, <3>2, <3>3
  <2> SUFFICES ASSUME p \in live PROVE ~Unheard(q)'
    BY <2>0
  <2>2. r = p /\ HasSource(p) /\ Top.source = alSource[p] /\ p \in live
    BY <1>a, <1>3, <2>r DEF AudioInv, PassesHold
  <2>3. CASE PassPanics(r)
    BY <2>3 DEF PassPanics, HostPanic, AudioInv, NoHostPanic
  <2>4. CASE PassEnds(r)
    <3>1. UNCHANGED <<alSource, isRunning>>
      BY <2>4 DEF PassEnds
    <3>2. CASE isRunning[p] = "Running" /\ sourceState[Top.source] = "STOPPED"
      <4>1. SourcePlay(alSource[p])
        BY <2>2, <2>4, <3>2 DEF PassEnds
      <4> QED BY <1>1, <2>2, <3>1, <4>1
    <3>3. CASE ~(isRunning[p] = "Running" /\ sourceState[Top.source] = "STOPPED")
      <4>1. UNCHANGED alVars
        BY <2>2, <2>4, <3>3 DEF PassEnds
      <4>2. Unheard(q)' => Unheard(q)
        BY <3>1, <4>1, UnheardBefore DEF alVars
      <4>3. ~Unheard(p)
        BY <2>2, <3>3 DEF Unheard
      <4> QED BY <1>o, <4>2, <4>3
    <3> QED BY <3>2, <3>3
  <2>5. CASE PassFinishes(r)
    <3>0. SUFFICES ASSUME Unheard(q)' PROVE FALSE
      OBVIOUS
    <3>1. alSource' = alSource /\ isRunning' = [isRunning EXCEPT ![p] = "Stopped"] /\ ResetQueue(p)
      BY <2>2, <2>5 DEF PassFinishes, FinishStopping
    <3>2. q # p /\ isRunning'[q] = isRunning[q]
      BY <1>s, <3>0, <3>1 DEF Unheard
    <3>3. HasSource(q) /\ alSource[q] \in Sources
      BY <1>t, <3>0, <3>1, HasOne DEF Unheard, HasSource
    <3>4. alSource[q] # alSource[p]
      BY <1>a, <2>2, <3>2, <3>3 DEF AudioInv, Attached
    <3>5. /\ sourceState'[alSource[q]] = sourceState[alSource[q]]
          /\ played'[alSource[q]] = played[alSource[q]]
          /\ alQueue'[alSource[q]] = alQueue[alSource[q]]
      BY <1>s, <2>2, <3>1, <3>3, <3>4 DEF ResetQueue, SourceStopAndUnqueue
    <3>6. Unheard(q)
      BY <3>0, <3>1, <3>2, <3>5, UnheardBefore
    <3> QED BY <1>o, <3>2, <3>6
  <2> QED BY <2>1, <2>3, <2>4, <2>5
<1> QED BY <1>2, <1>3

\* What is on a stack below its top, after a push and after a pop.
LEMMA StackBelow ==
    ASSUME NEW S, NEW stack \in Seq(S), NEW c \in S
    PROVE  Front(Append(stack, c)) = stack
BY DEF Front

\* Nothing is below the top that was not on the stack.
LEMMA StackDeeper ==
    ASSUME NEW S, NEW stack \in Seq(S), stack # <<>>
    PROVE  Range(Front(stack)) \subseteq Range(stack)
BY StackPop

\* What a call has to be for Nested to hold of it.
Fits(c) ==
    /\ c.stage \in {"callback", "listener"} => Waits(c)
    /\ c.task = "prime" => c.stage = "prime" /\ isRunning[c.aq] = "Stopped"

\* Nested stays true when a function is entered, returns, or goes on.
LEMMA NestedPush ==
    ASSUME TypeOK, Nested, GuestRuns, NEW c \in CallType, calls' = Append(calls, c), Fits(c)'
    PROVE  Nested'
<1>1. calls \in Seq(CallType)
  BY DEF TypeOK
<1>2. Front(calls') = calls /\ Top' = c
  BY <1>1, StackBelow, Pushed
<1>3. \A d \in Range(calls) : Waits(d)
  <2>1. CASE calls = <<>>
    BY <2>1 DEF Range
  <2>2. CASE calls # <<>>
    <3>1. Range(calls) = Range(Front(calls)) \cup {Top}
      BY <1>1, <2>2, TopCall
    <3> QED BY <2>2, <3>1 DEF Nested, GuestRuns
  <2> QED BY <2>1, <2>2
<1> QED BY <1>2, <1>3 DEF Nested, Fits, Waits

\* The same for a return.
LEMMA NestedPop ==
    ASSUME TypeOK, Nested, calls # <<>>, Return
    PROVE  Nested'
<1>1. calls \in Seq(CallType) /\ calls' = Front(calls)
  BY DEF TypeOK, Return
<1>2. calls' \in Seq(CallType) /\ \A d \in Range(calls') : Waits(d)
  BY <1>1, TopCall DEF Nested
<1>3. SUFFICES ASSUME calls' # <<>> PROVE Nested'
  BY DEF Nested
<1>4. Range(calls') = Range(Front(calls')) \cup {Top'}
  BY <1>2, <1>3, StackPop DEF Top
<1> QED BY <1>2, <1>4 DEF Nested, Waits

\* The same for a function that goes on.
LEMMA NestedGoesOn ==
    ASSUME TypeOK, Nested, calls # <<>>, NEW c \in CallType, Continue(c), Fits(c)'
    PROVE  Nested'
<1>1. calls \in Seq(CallType) /\ calls' = Append(Front(calls), c)
  BY DEF TypeOK, Continue
<1>2. Front(calls) \in Seq(CallType)
  BY <1>1, TopCall
<1>3. Front(calls') = Front(calls) /\ Top' = c
  BY <1>1, <1>2, StackBelow, StackPush DEF Top
<1> QED BY <1>3 DEF Nested, Fits, Waits

\* The same when no function does.
LEMMA NestedKept ==
    ASSUME Nested, UNCHANGED calls,
           UNCHANGED isRunning \/ GuestRuns
    PROVE  Nested'
<1>1. Top' = Top /\ Front(calls') = Front(calls)
  BY DEF Top
<1>2. GuestRuns /\ calls # <<>> => Top.task # "prime"
  BY DEF GuestRuns, Nested, Waits
<1> QED BY <1>1, <1>2 DEF Nested, Waits

\* The call that a pass is, when it begins and when its callback returns.
LEMMA PassBegun ==
    ASSUME TypeOK, ALPlayed, NEW q \in Refs, BeginPass(q)
    PROVE  \E e \in CallType : /\ calls' = Append(calls, e)
                               /\ e.task = "pass" /\ e.stage \in {"callback", "prime"}
<1> DEFINE n == Processed(alSource[q])
<1> DEFINE reuse == IF n <= Len(bufferQueue[q]) THEN SubSeq(bufferQueue[q], 1, n)
                    ELSE bufferQueue[q]
<1>1. alSource[q] \in Sources /\ n \in Nat
  BY SourceOf DEF BeginPass, Processed
<1>2. bufferQueue[q] \in Seq(Bufs)
  BY DEF TypeOK
<1>3. PICK e : /\ e = [Call("pass", q) EXCEPT !.source = alSource[q],
                                              !.stage = AfterCallbacks(reuse),
                                              !.reuse = reuse]
               /\ calls' = Append(calls, e)
  BY DEF BeginPass
<1>4. reuse \in Seq(Bufs)
  <2> HIDE DEF n
  <2> QED BY <1>1, <1>2
<1>5. AfterCallbacks(reuse) \in {"callback", "prime"}
  BY DEF AfterCallbacks
<1> HIDE DEF reuse, n
<1>6. e \in CallType /\ e.task = "pass" /\ e.stage \in {"callback", "prime"}
  BY <1>1, <1>3, <1>4, <1>5 DEF Call, CallType
<1> QED BY <1>3, <1>6

\* The same after a callback.
LEMMA PassContinued ==
    ASSUME TypeOK, EndCallback
    PROVE  \E e \in CallType : /\ Continue(e)
                               /\ e.task = "pass" /\ e.stage \in {"callback", "prime"}
<1>1. Top \in CallType /\ Top \in Range(calls) /\ Top.stage = "callback" /\ Top.task = "pass"
  BY AtTop DEF EndCallback
<1>2. Top.reuse \in Seq(Bufs) /\ Top.reuse # <<>>
  BY <1>1 DEF TypeOK, CallType
<1> DEFINE reuse == Tail(Top.reuse)
<1>3. reuse \in Seq(Bufs)
  BY <1>2
<1>4. AfterCallbacks(reuse) \in {"callback", "prime"}
  BY DEF AfterCallbacks
<1> DEFINE e == [Top EXCEPT !.reuse = reuse, !.stage = AfterCallbacks(reuse)]
<1>5. Continue(e)
  BY DEF EndCallback
<1>6. e \in CallType /\ e.task = "pass" /\ e.stage \in {"callback", "prime"}
  <2> HIDE DEF reuse
  <2> QED BY <1>1, <1>3, <1>4 DEF CallType
<1> HIDE DEF e
<1> QED BY <1>5, <1>6

\* Every step keeps the calls nested so.
LEMMA NestedStep ==
    ASSUME TypeOK, ALPlayed, Nested, LawfulPriming, [Next]_vars
    PROVE  Nested'
<1>1. ASSUME NEW q \in Refs, AudioQueuePrime(q) \/ AudioQueueStart(q)
      PROVE  Nested'
  <2>1. PICK task \in {"prime", "start"} :
            /\ calls' = Append(calls, Call(task, q))
            /\ task = "prime" => isRunning[q] = "Stopped"
    BY <1>1 DEF AudioQueuePrime, AudioQueueStart, BeginCall, LawfulPriming, Lawful
  <2>2. GuestRuns /\ isRunning' = isRunning
    BY <1>1 DEF AudioQueuePrime, AudioQueueStart, BeginCall, queueVars
  <2>3. Call(task, q) \in CallType
    BY CallTyped
  <2>4. Fits(Call(task, q))'
    BY <2>1, <2>2 DEF Fits, Call, Waits
  <2> QED BY <2>1, <2>2, <2>3, <2>4, NestedPush
<1>2. CASE PrimeStep
  <2>1. PICK task \in {"pass", "prime", "start"} : At(task, "prime")
    BY <1>2, PrimeSteps
  <2>2. calls # <<>> /\ Top \in CallType /\ Top.task = task
    BY <2>1, AtTop
  <2>3. CASE PrimeEnds
    <3>1. CASE Return
      BY <2>2, <3>1, NestedPop
    <3>2. CASE Top.task # "prime"
      <4>1. PICK e : e = [Top EXCEPT !.stage = "play"] /\ Continue(e)
        BY <2>3, <3>2 DEF PrimeEnds, EndPrime
      <4>2. e \in CallType /\ e.task # "prime" /\ e.stage = "play"
        BY <2>2, <3>2, <4>1 DEF CallType
      <4>3. Fits(e)'
        BY <4>2 DEF Fits
      <4> QED BY <2>2, <4>1, <4>2, <4>3, NestedGoesOn
    <3> QED BY <2>3, <3>1, <3>2 DEF PrimeEnds, EndPrime
  <2>4. CASE PrimeQueues \/ PrimePanics \/ \E s \in Sources : PrimeMakes(s)
    BY <2>4, NestedKept DEF PrimeQueues, PrimePanics, HostPanic, PrimeMakes, queueVars
  <2> QED BY <1>2, <2>3, <2>4, PrimeSteps
<1>3. CASE StartPlay \/ EndListener
  BY <1>3, AtTop, NestedPop DEF StartPlay, EndListener, EndPass
<1>4. CASE PassPlay
  <2>1. PICK q \in Refs : PassFinishes(q) \/ PassEnds(q) \/ PassPanics(q)
    BY <1>4, PassSteps
  <2>2. calls # <<>> /\ Top \in CallType /\ Top.task = "pass"
    BY <2>1, AtTop DEF PassFinishes, PassEnds, PassPanics, PassFinds
  <2>3. CASE Return
    BY <2>2, <2>3, NestedPop
  <2>4. ASSUME NEW e, e = [Top EXCEPT !.stage = "listener"], Continue(e)
        PROVE  Nested'
    <3>1. e \in CallType /\ e.task = "pass" /\ e.stage = "listener"
      BY <2>2, <2>4 DEF CallType
    <3>2. Fits(e)'
      BY <3>1 DEF Fits, Waits
    <3> QED BY <2>2, <2>4, <3>1, <3>2, NestedGoesOn
  <2>5. CASE PassPanics(q)
    BY <2>5, NestedKept DEF PassPanics, HostPanic, queueVars
  <2> QED BY <2>1, <2>3, <2>4, <2>5 DEF PassFinishes, FinishStopping, EndPass, PassEnds
<1>5. ASSUME NEW q \in Refs, BeginPass(q)
      PROVE  Nested'
  <2>1. PICK e : calls' = Append(calls, e) /\ e.task = "pass" /\ e.stage \in {"callback", "prime"}
                 /\ e \in CallType
    BY <1>5, PassBegun
  <2>2. Fits(e)'
    BY <2>1 DEF Fits, Waits
  <2> QED BY <1>5, <2>1, <2>2, NestedPush DEF BeginPass
<1>6. CASE EndCallback
  <2>1. PICK e : Continue(e) /\ e.task = "pass" /\ e.stage \in {"callback", "prime"}
                 /\ e \in CallType
    BY <1>6, PassContinued
  <2>2. Fits(e)'
    BY <2>1 DEF Fits, Waits
  <2>3. calls # <<>>
    BY <1>6, AtTop DEF EndCallback
  <2> QED BY <2>1, <2>2, <2>3, NestedGoesOn
<1>7. CASE \/ \E q \in Refs :
               \/ \E ok \in BOOLEAN : AudioQueueNewOutput(q, ok)
               \/ \E b \in Bufs : \/ AudioQueueAllocateBuffer(q, b)
                                  \/ AudioQueueEnqueueBuffer(q, b)
                                  \/ AudioQueueFreeBuffer(q, b)
               \/ AudioQueuePause(q)
               \/ AudioQueueReset(q)
               \/ AudioQueueStopNow(q)
               \/ AudioQueueStopLater(q)
               \/ AudioQueueDispose(q)
           \/ Mixer
           \/ UNCHANGED vars
  <2>1. UNCHANGED calls /\ (UNCHANGED isRunning \/ GuestRuns)
    BY <1>7 DEF AudioQueueNewOutput, AudioQueueAllocateBuffer, AudioQueueEnqueueBuffer,
       AudioQueueFreeBuffer, AudioQueuePause, AudioQueueReset, AudioQueueStopNow, HostPanic,
       AudioQueueStopLater, AudioQueueDispose, Mixer, vars, queueVars
  <2> QED BY <2>1, NestedKept
<1>8. CASE GuestStep
  <2>1. PICK q \in Refs :
            \/ AudioQueuePrime(q) \/ AudioQueueStart(q)
            \/ \E ok \in BOOLEAN : AudioQueueNewOutput(q, ok)
            \/ \E b \in Bufs : \/ AudioQueueAllocateBuffer(q, b)
                               \/ AudioQueueEnqueueBuffer(q, b)
                               \/ AudioQueueFreeBuffer(q, b)
            \/ AudioQueuePause(q)
            \/ AudioQueueReset(q)
            \/ AudioQueueStopNow(q)
            \/ AudioQueueStopLater(q)
            \/ AudioQueueDispose(q)
    BY <1>8 DEF GuestStep
  <2> QED BY <1>1, <1>7, <2>1
<1>9. CASE Mixer \/ UNCHANGED vars
  BY <1>7, <1>9
<1> QED BY <1>2, <1>3, <1>4, <1>5, <1>6, <1>8, <1>9 DEF Next, HostStep

\* Only a queue whose format is supported runs.
LEMMA SupportedStep ==
    ASSUME TypeOK, \A q \in Refs : isRunning[q] # "Stopped" => supported[q], [Next]_vars,
           NEW q \in Refs, isRunning'[q] # "Stopped"
    PROVE  supported'[q]
<1>s. /\ isRunning \in [Refs -> {"Running", "Stopping", "Stopped"}]
      /\ supported \in [Refs -> BOOLEAN]
  BY DEF TypeOK
<1>1. ASSUME NEW p \in Refs, NEW ok \in BOOLEAN, AudioQueueNewOutput(p, ok)
      PROVE  supported'[q]
  <2>1. p # q
    BY <1>s, <1>1 DEF AudioQueueNewOutput
  <2>2. isRunning'[q] = isRunning[q] /\ supported'[q] = supported[q]
    BY <1>s, <1>1, <2>1 DEF AudioQueueNewOutput
  <2> QED BY <2>2
<1>2. CASE StartPlay
  <2>1. supported' = supported /\ (CanPrime(Top.aq) => supported[Top.aq])
    BY <1>2 DEF StartPlay, CanPrime
  <2>2. isRunning'[q] = isRunning[q] \/ (q = Top.aq /\ CanPrime(Top.aq))
    BY <1>s, <1>2 DEF StartPlay
  <2> QED BY <2>1, <2>2
<1>3. CASE \E p \in Refs : AudioQueuePause(p) \/ AudioQueueStopLater(p) \/ AudioQueueDispose(p)
  <2>1. (supported[q] => supported'[q]) /\ (isRunning'[q] # "Stopped" => isRunning[q] # "Stopped")
    BY <1>s, <1>3 DEF AudioQueuePause, AudioQueueStopLater, AudioQueueDispose
  <2> QED BY <2>1
<1>4. CASE \E p \in Refs : AudioQueueReset(p) \/ AudioQueueStopNow(p)
  <2>1. supported' = supported /\ (isRunning'[q] # "Stopped" => isRunning[q] # "Stopped")
    BY <1>s, <1>4 DEF AudioQueueReset, AudioQueueStopNow, HostPanic, queueVars
  <2> QED BY <2>1
<1>5. CASE PassPlay
  <2>1. PICK p \in Refs : PassFinishes(p) \/ PassEnds(p) \/ PassPanics(p)
    BY <1>5, PassSteps
  <2>2. supported' = supported /\ (isRunning'[q] # "Stopped" => isRunning[q] # "Stopped")
    BY <1>s, <2>1 DEF PassFinishes, FinishStopping, PassEnds, PassPanics, HostPanic, queueVars
  <2> QED BY <2>2
<1>6. CASE PrimeStep
  <2>1. UNCHANGED <<supported, isRunning>>
    BY <1>6, PrimeSteps DEF PrimeEnds, EndPrime, PrimeQueues, PrimePanics, HostPanic, PrimeMakes,
       queueVars
  <2> QED BY <2>1
<1>7. CASE \/ \E p \in Refs :
                \/ \E b \in Bufs : \/ AudioQueueAllocateBuffer(p, b)
                                   \/ AudioQueueEnqueueBuffer(p, b)
                                   \/ AudioQueueFreeBuffer(p, b)
                \/ AudioQueuePrime(p) \/ AudioQueueStart(p)
                \/ BeginPass(p)
           \/ EndCallback \/ EndListener
           \/ Mixer
           \/ UNCHANGED vars
  <2>1. UNCHANGED <<supported, isRunning>>
    BY <1>7 DEF AudioQueueAllocateBuffer, AudioQueueEnqueueBuffer, AudioQueueFreeBuffer,
       AudioQueuePrime, AudioQueueStart, BeginCall, BeginPass, EndCallback, EndListener,
       Mixer, vars, queueVars
  <2> QED BY <2>1
<1> QED BY <1>1, <1>2, <1>3, <1>4, <1>5, <1>6, <1>7 DEF Next, GuestStep, HostStep

\* Every step keeps the invariant.
LEMMA HeardStep ==
    ASSUME AudioInv, AudioInv', HeardInv, LawfulPriming, [Next]_vars
    PROVE  HeardInv'
<1>t. TypeOK /\ ALPlayed
  BY DEF AudioInv
<1>1. Nested'
  BY <1>t, NestedStep DEF HeardInv
<1>2. \A q \in Refs : isRunning'[q] # "Stopped" => supported'[q]
  BY <1>t, SupportedStep DEF HeardInv
<1>3. ASSUME NEW q \in Refs, Unheard(q)'
      PROVE  Restarts(q)'
  <2>1. CASE GuestStep
    BY <1>3, <2>1, GuestUnheard
  <2>2. CASE PrimeStep
    BY <1>3, <2>2, PrimeUnheard
  <2>3. CASE StartPlay \/ PassPlay
    BY <1>3, <2>3, PlayUnheard
  <2>4. CASE EndCallback \/ EndListener
    <3>1. UNCHANGED <<alVars, alSource, isRunning>>
      BY <2>4 DEF EndCallback, EndListener, queueVars
    <3>2. Unheard(q)
      BY <1>3, <3>1, UnheardBefore DEF alVars
    <3>3. Top.stage \in {"callback", "listener"}
      BY <1>t, <2>4, AtTop DEF EndCallback, EndListener
    <3> QED BY <3>2, <3>3, GuestHears
  <2>5. CASE \E p \in Refs : BeginPass(p)
    BY <1>3, <2>5, BeginUnheard
  <2>6. CASE Mixer
    <3>1. UNCHANGED calls
      BY <2>6 DEF Mixer
    <3> QED BY <1>3, <2>6, <3>1, MixerUnheard DEF HeardInv, Restarts, Top
  <2>7. CASE UNCHANGED vars
    BY <1>3, <2>7 DEF vars, alVars, queueVars, HeardInv, Restarts, Top, Unheard, HasSource
  <2> QED BY <2>1, <2>2, <2>3, <2>4, <2>5, <2>6, <2>7 DEF Next, HostStep
<1> QED BY <1>1, <1>2, <1>3 DEF HeardInv

\* It holds at first.
LEMMA HeardInit == Init => HeardInv
<1> HAVE Init
<1>1. calls = <<>> /\ \A q \in Refs : isRunning[q] = "Stopped"
  BY DEF Init
<1> QED BY <1>1 DEF HeardInv, Nested, Unheard

\* What a pass takes off the source of a running queue has been played.
LEMMA HeardPlayed ==
    ASSUME AudioInv, HeardInv, NEW q \in Refs, isRunning[q] = "Running", BeginPass(q)
    PROVE  Processed(alSource[q]) <= played[alSource[q]]
<1>1. ~Unheard(q)
  BY GuestHears DEF BeginPass, GuestRuns
<1>2. HasSource(q) /\ alSource[q] \in Sources
  BY HasOne DEF BeginPass, AudioInv
<1>3. /\ alQueue[alSource[q]] \in Seq(Bufs) /\ played[alSource[q]] \in Nat
      /\ Len(alQueue[alSource[q]]) \in Nat
  BY <1>2 DEF AudioInv, TypeOK
<1>4. sourceState[alSource[q]] = "STOPPED" => Len(alQueue[alSource[q]]) <= played[alSource[q]]
  BY <1>1, <1>2, <1>3 DEF Unheard
<1> QED BY <1>3, <1>4 DEF Processed

\* No buffer of a running queue is taken back before it has been played.
THEOREM RunningHeard == ASSUME LawfulPriming PROVE Spec => RunningBuffersHeard
<1>1. LawfulQueues
  BY DEF LawfulPriming
<1>2. Spec => []AudioInv
  BY <1>1, AudioAlways
<1>3. AudioInv /\ AudioInv' /\ HeardInv /\ [Next]_vars => HeardInv'
  BY HeardStep
<1>4. AudioInv /\ HeardInv /\ [Next]_vars =>
          [\A q \in Refs : (isRunning[q] = "Running" /\ BeginPass(q)) =>
               Processed(alSource[q]) <= played[alSource[q]]]_vars
  BY HeardPlayed
<1> QED BY <1>2, <1>3, <1>4, HeardInit, PTL DEF Spec, RunningBuffersHeard
=============================================================================
