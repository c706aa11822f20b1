---------------------------- MODULE EventProofs ----------------------------
(***************************************************************************)
(* Guest threads in the callbacks of the Foundation modules, for any       *)
(* number of threads and any nesting of calls: timers and observers have   *)
(* the references of their holders, operations run after those they depend *)
(* on, blocks find their queues, dispatch_once returns when its block is   *)
(* done, and @synchronized blocks exclude.                                 *)
(***************************************************************************)
EXTENDS EventLoop, QueueProofs, FiniteSetTheorems

-----------------------------------------------------------------------------
(***************************************************************************)
(* The calls of host functions that are in progress.  Every module has     *)
(* kinds of calls of its own; a step of a thread changes its innermost     *)
(* call, or enters another, and leaves those of the other modules where    *)
(* they are.                                                               *)
(***************************************************************************)

\* What a call has by its kind; the fields are what later steps of it use.
Formed(c) ==
    /\ {"kind", "stage"} \subseteq DOMAIN c
    /\ c.kind = "run" => {"loop", "single", "batch", "timer"} \subseteq DOMAIN c
    /\ c.kind = "fire" => "timer" \in DOMAIN c
    /\ c.kind = "start" => {"op", "queue"} \subseteq DOMAIN c
    /\ c.kind = "block" => {"dq", "left", "pushed"} \subseteq DOMAIN c
    /\ c.kind = "set" => {"object", "value", "copy", "mutex", "old"} \subseteq DOMAIN c

CallsFormed == \E S : calls \in [Threads -> Seq(S)] /\ \A c \in S : Formed(c)

Of(c, K) == Formed(c) /\ c.kind \in K

\* A step of a thread changes its own stack, at the top, and there calls of
\* the kinds K only.
Replaces(th, K) == calls[th] # <<>> /\ Top(th).kind \in K

Moves(th, K) ==
    \/ UNCHANGED calls
    \/ InGuest(th) /\ \E c : Of(c, K) /\ Enter(th, c)
    \/ Replaces(th, K) /\ Leave(th)
    \/ Replaces(th, K) /\ \E c : Of(c, K) /\ Continue(th, c)
    \/ /\ Replaces(th, K)
       /\ \E c, d : /\ Of(c, K) /\ Of(d, K) /\ c.kind \notin {"sync", "set"}
                    /\ calls' = [calls EXCEPT ![th] = Front(@) \o <<c, d>>]

\* The parts of a sequence that is not empty.
LEMMA FrontAndLast ==
    ASSUME NEW S, NEW s \in Seq(S), s # <<>>
    PROVE  /\ Len(s) \in Nat \ {0} /\ Last(s) = s[Len(s)] /\ Last(s) \in S
           /\ Front(s) \in Seq(S) /\ Len(Front(s)) = Len(s) - 1
           /\ \A i \in 1 .. Len(s) - 1 : Front(s)[i] = s[i]
<1>1. Len(s) \in Nat \ {0}
  OBVIOUS
<1>2. Last(s) = s[Len(s)] /\ s[Len(s)] \in S
  BY <1>1 DEF Last
<1>3. Front(s) = SubSeq(s, 1, Len(s) - 1)
  BY DEF Front
<1> DEFINE n == Len(s) - 1
<1>4. n \in Nat /\ n <= Len(s)
  BY <1>1
<1> HIDE DEF n
<1>5. SubSeq(s, 1, n) \in Seq(S)
  BY <1>1, <1>4
<1>6. Len(SubSeq(s, 1, n)) = n
  BY <1>1, <1>4
<1>7. \A i \in 1 .. n : SubSeq(s, 1, n)[i] = s[i]
  BY <1>1, <1>4
<1> QED BY <1>1, <1>2, <1>3, <1>5, <1>6, <1>7 DEF n

\* What a call that is entered, replaced or left leaves in the stack.
LEMMA Stacks ==
    ASSUME NEW S, calls \in [Threads -> Seq(S)], NEW th \in Threads, NEW c
    PROVE  /\ Enter(th, c) =>
                  /\ calls' \in [Threads -> Seq(S \cup {c})]
                  /\ \A u \in Threads \ {th} : calls'[u] = calls[u]
                  /\ Len(calls'[th]) = Len(calls[th]) + 1
                  /\ \A i \in 1 .. Len(calls[th]) : calls'[th][i] = calls[th][i]
                  /\ calls'[th][Len(calls[th]) + 1] = c
           /\ calls[th] # <<>> =>
                  /\ Len(calls[th]) \in Nat \ {0}
                  /\ Top(th) = calls[th][Len(calls[th])] /\ Top(th) \in S
           /\ calls[th] # <<>> /\ Leave(th) =>
                  /\ calls' \in [Threads -> Seq(S)]
                  /\ \A u \in Threads \ {th} : calls'[u] = calls[u]
                  /\ Len(calls'[th]) = Len(calls[th]) - 1
                  /\ \A i \in 1 .. Len(calls[th]) - 1 : calls'[th][i] = calls[th][i]
           /\ calls[th] # <<>> /\ Continue(th, c) =>
                  /\ calls' \in [Threads -> Seq(S \cup {c})]
                  /\ \A u \in Threads \ {th} : calls'[u] = calls[u]
                  /\ Len(calls'[th]) = Len(calls[th])
                  /\ \A i \in 1 .. Len(calls[th]) - 1 : calls'[th][i] = calls[th][i]
                  /\ calls'[th][Len(calls[th])] = c
<1>0. calls[th] \in Seq(S) /\ Len(calls[th]) \in Nat
  OBVIOUS
<1>1. \A u \in Threads : calls[u] \in Seq(S \cup {c})
  OBVIOUS
<1>2. ASSUME Enter(th, c)
      PROVE  /\ calls' \in [Threads -> Seq(S \cup {c})]
             /\ \A u \in Threads \ {th} : calls'[u] = calls[u]
             /\ Len(calls'[th]) = Len(calls[th]) + 1
             /\ \A i \in 1 .. Len(calls[th]) : calls'[th][i] = calls[th][i]
             /\ calls'[th][Len(calls[th]) + 1] = c
  <2>1. calls' = [calls EXCEPT ![th] = Append(calls[th], c)]
    BY <1>2 DEF Enter
  <2>2. Append(calls[th], c) \in Seq(S \cup {c})
    BY <1>1
  <2>3. /\ Len(Append(calls[th], c)) = Len(calls[th]) + 1
        /\ \A i \in 1 .. Len(calls[th]) : Append(calls[th], c)[i] = calls[th][i]
        /\ Append(calls[th], c)[Len(calls[th]) + 1] = c
    BY <1>0
  <2> QED BY <1>1, <2>1, <2>2, <2>3
<1>3. ASSUME calls[th] # <<>>
      PROVE  /\ Len(calls[th]) \in Nat \ {0}
             /\ Top(th) = calls[th][Len(calls[th])] /\ Top(th) \in S
  BY <1>0, <1>3, FrontAndLast DEF Top
<1>4. ASSUME calls[th] # <<>>, Leave(th)
      PROVE  /\ calls' \in [Threads -> Seq(S)]
             /\ \A u \in Threads \ {th} : calls'[u] = calls[u]
             /\ Len(calls'[th]) = Len(calls[th]) - 1
             /\ \A i \in 1 .. Len(calls[th]) - 1 : calls'[th][i] = calls[th][i]
  <2>1. calls' = [calls EXCEPT ![th] = Front(calls[th])]
    BY <1>4 DEF Leave
  <2> QED BY <1>0, <1>4, <2>1, FrontAndLast
<1>5. ASSUME calls[th] # <<>>, Continue(th, c)
      PROVE  /\ calls' \in [Threads -> Seq(S \cup {c})]
             /\ \A u \in Threads \ {th} : calls'[u] = calls[u]
             /\ Len(calls'[th]) = Len(calls[th])
             /\ \A i \in 1 .. Len(calls[th]) - 1 : calls'[th][i] = calls[th][i]
             /\ calls'[th][Len(calls[th])] = c
  <2> DEFINE f == Front(calls[th])
  <2>1. calls' = [calls EXCEPT ![th] = Append(f, c)]
    BY <1>5 DEF Continue
  <2>2. /\ f \in Seq(S) /\ Len(f) = Len(calls[th]) - 1 /\ Len(f) \in Nat
        /\ \A i \in 1 .. Len(calls[th]) - 1 : f[i] = calls[th][i]
    BY <1>0, <1>5, FrontAndLast
  <2> HIDE DEF f
  <2>3. f \in Seq(S \cup {c})
    BY <2>2
  <2>4. /\ Append(f, c) \in Seq(S \cup {c})
        /\ Len(Append(f, c)) = Len(f) + 1
        /\ \A i \in 1 .. Len(f) : Append(f, c)[i] = f[i]
        /\ Append(f, c)[Len(f) + 1] = c
    BY <2>2, <2>3
  <2>5. Len(f) + 1 = Len(calls[th])
    BY <1>0, <2>2
  <2> QED BY <1>1, <2>1, <2>2, <2>4, <2>5
<1> QED BY <1>2, <1>3, <1>4, <1>5

\* Of two calls at once, the class that is initialized and what is pending.
LEMMA StacksTwo ==
    ASSUME NEW S, calls \in [Threads -> Seq(S)], NEW th \in Threads, NEW c, NEW d,
           calls[th] # <<>>, calls' = [calls EXCEPT ![th] = Front(@) \o <<c, d>>]
    PROVE  /\ calls' \in [Threads -> Seq(S \cup {c, d})]
           /\ \A u \in Threads \ {th} : calls'[u] = calls[u]
           /\ Len(calls'[th]) = Len(calls[th]) + 1
           /\ \A i \in 1 .. Len(calls[th]) - 1 : calls'[th][i] = calls[th][i]
           /\ calls'[th][Len(calls[th])] = c /\ calls'[th][Len(calls[th]) + 1] = d
<1> DEFINE f == Front(calls[th])
           n == Len(calls[th])
           two == <<c, d>>
<1>1. /\ f \in Seq(S) /\ Len(f) = n - 1 /\ n \in Nat \ {0}
      /\ \A i \in 1 .. n - 1 : f[i] = calls[th][i]
  BY FrontAndLast
<1>2. two \in Seq(S \cup {c, d}) /\ Len(two) = 2 /\ two[1] = c /\ two[2] = d
  OBVIOUS
<1>3. calls' = [calls EXCEPT ![th] = f \o two]
  OBVIOUS
<1> HIDE DEF f, two
<1>4. f \in Seq(S \cup {c, d})
  BY <1>1
<1> DEFINE T == S \cup {c, d}
<1> HIDE DEF n, T
<1>5. /\ f \o two \in Seq(T) /\ Len(f \o two) = n + 1
      /\ \A i \in 1 .. n - 1 : (f \o two)[i] = f[i]
      /\ (f \o two)[n] = two[1] /\ (f \o two)[n + 1] = two[2]
  <2>1. f \in Seq(T) /\ two \in Seq(T)
    BY <1>2, <1>4 DEF T
  <2>2. f \o two \in Seq(T) /\ Len(f \o two) = Len(f) + Len(two)
    BY <2>1
  <2>3. \A i \in 1 .. Len(f \o two) :
            (f \o two)[i] = IF i <= Len(f) THEN f[i] ELSE two[i - Len(f)]
    BY <2>1
  <2>4. Len(f \o two) = n + 1
    BY <1>1, <1>2, <2>2
  <2>5. \A i \in 1 .. n - 1 : i \in 1 .. n + 1 /\ i <= Len(f)
    BY <1>1
  <2>7. \A i \in 1 .. n - 1 : (f \o two)[i] = f[i]
    BY <2>3, <2>4, <2>5
  <2>6. /\ n \in 1 .. n + 1 /\ ~ (n <= Len(f)) /\ n - Len(f) = 1
        /\ n + 1 \in 1 .. n + 1 /\ ~ (n + 1 <= Len(f)) /\ n + 1 - Len(f) = 2
    BY <1>1
  <2>8. \A i \in 1 .. n + 1 : ~ (i <= Len(f)) => (f \o two)[i] = two[i - Len(f)]
    BY <2>3, <2>4
  <2>9. (f \o two)[n] = two[1]
    BY <2>6, <2>8
  <2>10. (f \o two)[n + 1] = two[2]
    <3> DEFINE m == n + 1
    <3>1. m \in 1 .. n + 1 /\ ~ (m <= Len(f)) /\ m - Len(f) = 2
      BY <2>6
    <3> HIDE DEF m
    <3>2. (f \o two)[m] = two[m - Len(f)]
      BY <2>8, <3>1
    <3> QED BY <3>1, <3>2 DEF m
  <2> QED BY <2>2, <2>4, <2>7, <2>9, <2>10
<1>6. \A u \in Threads : calls[u] \in Seq(S \cup {c, d})
  OBVIOUS
<1> QED BY <1>1, <1>2, <1>3, <1>5, <1>6 DEF n, T

\* What a step leaves of the calls: the lower ones, and all of other kinds.
LEMMA Moved ==
    ASSUME CallsFormed, NEW th \in Threads, NEW K, Moves(th, K)
    PROVE  /\ CallsFormed'
           /\ \A u \in Threads : Len(calls[u]) \in Nat /\ Len(calls'[u]) \in Nat
           /\ \A u \in Threads \ {th} : calls'[u] = calls[u]
           /\ \E n \in Nat :
                  /\ n <= Len(calls[th]) /\ n <= Len(calls'[th])
                  /\ \A i \in 1 .. n : calls'[th][i] = calls[th][i]
                  /\ \A i \in 1 .. Len(calls[th]) : i > n => calls[th][i].kind \in K
                  /\ \A i \in 1 .. Len(calls'[th]) : i > n => calls'[th][i].kind \in K
<1>1. PICK S : calls \in [Threads -> Seq(S)] /\ \A c \in S : Formed(c)
  BY DEF CallsFormed
<1>2. \A u \in Threads : calls[u] \in Seq(S) /\ Len(calls[u]) \in Nat
  BY <1>1
<1>3. CASE UNCHANGED calls
  <2>1. CallsFormed'
    BY <1>3 DEF CallsFormed
  <2>2. /\ Len(calls[th]) \in Nat
        /\ \A i \in 1 .. Len(calls[th]) : ~ (i > Len(calls[th]))
    BY <1>2
  <2>3. \A u \in Threads :
            calls'[u] = calls[u] /\ Len(calls[u]) \in Nat /\ Len(calls'[u]) \in Nat
    BY <1>2, <1>3
  <2>4. PICK n \in Nat : n = Len(calls[th]) /\ n = Len(calls'[th])
    BY <1>2, <1>3
  <2>5. /\ n <= Len(calls[th]) /\ n <= Len(calls'[th])
        /\ \A i \in 1 .. n : calls'[th][i] = calls[th][i]
        /\ \A i \in 1 .. Len(calls[th]) : i > n => calls[th][i].kind \in K
        /\ \A i \in 1 .. Len(calls'[th]) : i > n => calls'[th][i].kind \in K
    BY <2>2, <2>3, <2>4
  <2> QED BY <2>1, <2>3, <2>5
<1>4. ASSUME NEW c, Of(c, K), Enter(th, c)
      PROVE  /\ CallsFormed'
             /\ \A u \in Threads \ {th} : calls'[u] = calls[u]
             /\ Len(calls'[th]) \in Nat
             /\ \E n \in Nat :
                  /\ n <= Len(calls[th]) /\ n <= Len(calls'[th])
                  /\ \A i \in 1 .. n : calls'[th][i] = calls[th][i]
                  /\ \A i \in 1 .. Len(calls[th]) : i > n => calls[th][i].kind \in K
                  /\ \A i \in 1 .. Len(calls'[th]) : i > n => calls'[th][i].kind \in K
  <2>1. /\ calls' \in [Threads -> Seq(S \cup {c})]
        /\ \A u \in Threads \ {th} : calls'[u] = calls[u]
        /\ Len(calls'[th]) = Len(calls[th]) + 1
        /\ \A i \in 1 .. Len(calls[th]) : calls'[th][i] = calls[th][i]
        /\ calls'[th][Len(calls[th]) + 1] = c
    BY <1>1, <1>4, Stacks
  <2>2. CallsFormed'
    BY <1>1, <1>4, <2>1 DEF CallsFormed, Of
  <2>3. Len(calls[th]) \in Nat /\ c.kind \in K
    BY <1>2, <1>4 DEF Of
  <2>4. \A i \in 1 .. Len(calls'[th]) : i > Len(calls[th]) => i = Len(calls[th]) + 1
    BY <2>1, <2>3
  <2>5. /\ \A i \in 1 .. Len(calls[th]) : ~ (i > Len(calls[th]))
        /\ Len(calls[th]) <= Len(calls'[th]) /\ Len(calls'[th]) \in Nat
        /\ Len(calls[th]) <= Len(calls[th])
    BY <2>1, <2>3
  <2>6. \A i \in 1 .. Len(calls'[th]) : i > Len(calls[th]) => calls'[th][i].kind \in K
    BY <2>1, <2>3, <2>4
  <2> QED BY <2>1, <2>2, <2>3, <2>5, <2>6
<1>5. ASSUME Replaces(th, K)
      PROVE  \A i \in 1 .. Len(calls[th]) : i > Len(calls[th]) - 1 => calls[th][i].kind \in K
  <2>1. Len(calls[th]) \in Nat \ {0} /\ calls[th][Len(calls[th])].kind \in K
    BY <1>1, <1>5, Stacks DEF Replaces
  <2>2. \A i \in 1 .. Len(calls[th]) : i > Len(calls[th]) - 1 => i = Len(calls[th])
    BY <2>1
  <2> QED BY <2>1, <2>2
<1>6. CASE Replaces(th, K) /\ Leave(th)
  <2>1. /\ calls' \in [Threads -> Seq(S)]
        /\ \A u \in Threads \ {th} : calls'[u] = calls[u]
        /\ Len(calls'[th]) = Len(calls[th]) - 1
        /\ \A i \in 1 .. Len(calls[th]) - 1 : calls'[th][i] = calls[th][i]
        /\ Len(calls[th]) \in Nat \ {0}
    BY <1>1, <1>6, Stacks DEF Replaces
  <2>2. CallsFormed'
    BY <1>1, <2>1 DEF CallsFormed
  <2>3. /\ Len(calls[th]) - 1 \in Nat /\ Len(calls[th]) - 1 <= Len(calls[th])
        /\ Len(calls[th]) - 1 <= Len(calls'[th])
        /\ \A i \in 1 .. Len(calls'[th]) : ~ (i > Len(calls[th]) - 1)
    BY <2>1
  <2>4. \A u \in Threads : Len(calls'[u]) \in Nat
    BY <2>1
  <2> QED BY <1>2, <1>5, <1>6, <2>1, <2>2, <2>3, <2>4
<1>7. ASSUME NEW c, Of(c, K), Continue(th, c), Replaces(th, K)
      PROVE  /\ CallsFormed'
             /\ \A u \in Threads \ {th} : calls'[u] = calls[u]
             /\ Len(calls'[th]) \in Nat
             /\ \E n \in Nat :
                  /\ n <= Len(calls[th]) /\ n <= Len(calls'[th])
                  /\ \A i \in 1 .. n : calls'[th][i] = calls[th][i]
                  /\ \A i \in 1 .. Len(calls[th]) : i > n => calls[th][i].kind \in K
                  /\ \A i \in 1 .. Len(calls'[th]) : i > n => calls'[th][i].kind \in K
  <2>1. /\ calls' \in [Threads -> Seq(S \cup {c})]
        /\ \A u \in Threads \ {th} : calls'[u] = calls[u]
        /\ Len(calls'[th]) = Len(calls[th])
        /\ \A i \in 1 .. Len(calls[th]) - 1 : calls'[th][i] = calls[th][i]
        /\ calls'[th][Len(calls[th])] = c
        /\ Len(calls[th]) \in Nat \ {0}
    BY <1>1, <1>7, Stacks DEF Replaces
  <2>2. CallsFormed'
    BY <1>1, <1>7, <2>1 DEF CallsFormed, Of
  <2>3. c.kind \in K
    BY <1>7 DEF Of
  <2>4. /\ Len(calls[th]) - 1 \in Nat /\ Len(calls[th]) - 1 <= Len(calls[th])
        /\ Len(calls[th]) - 1 <= Len(calls'[th])
        /\ \A i \in 1 .. Len(calls'[th]) : i > Len(calls[th]) - 1 => i = Len(calls[th])
    BY <2>1
  <2> QED BY <1>5, <1>7, <2>1, <2>2, <2>3, <2>4
<1>8. ASSUME NEW c, NEW d, Of(c, K), Of(d, K), Replaces(th, K),
             calls' = [calls EXCEPT ![th] = Front(@) \o <<c, d>>]
      PROVE  /\ CallsFormed'
             /\ \A u \in Threads \ {th} : calls'[u] = calls[u]
             /\ Len(calls'[th]) \in Nat
             /\ \E n \in Nat :
                  /\ n <= Len(calls[th]) /\ n <= Len(calls'[th])
                  /\ \A i \in 1 .. n : calls'[th][i] = calls[th][i]
                  /\ \A i \in 1 .. Len(calls[th]) : i > n => calls[th][i].kind \in K
                  /\ \A i \in 1 .. Len(calls'[th]) : i > n => calls'[th][i].kind \in K
  <2>0. calls[th] # <<>>
    BY <1>8 DEF Replaces
  <2>1. /\ calls' \in [Threads -> Seq(S \cup {c, d})]
        /\ \A u \in Threads \ {th} : calls'[u] = calls[u]
        /\ Len(calls'[th]) = Len(calls[th]) + 1
        /\ \A i \in 1 .. Len(calls[th]) - 1 : calls'[th][i] = calls[th][i]
        /\ calls'[th][Len(calls[th])] = c /\ calls'[th][Len(calls[th]) + 1] = d
    BY <1>1, <1>8, <2>0, StacksTwo
  <2>2. Len(calls[th]) \in Nat \ {0}
    BY <1>2, <2>0
  <2>3. CallsFormed'
    <3>1. \A e \in S \cup {c, d} : Formed(e)
      BY <1>1, <1>8 DEF Of
    <3> QED BY <2>1, <3>1 DEF CallsFormed
  <2>4. c.kind \in K /\ d.kind \in K
    BY <1>8 DEF Of
  <2>5. /\ Len(calls[th]) - 1 \in Nat /\ Len(calls[th]) - 1 <= Len(calls[th])
        /\ Len(calls[th]) - 1 <= Len(calls'[th]) /\ Len(calls'[th]) \in Nat
        /\ \A i \in 1 .. Len(calls'[th]) : i > Len(calls[th]) - 1 =>
               i = Len(calls[th]) \/ i = Len(calls[th]) + 1
    BY <2>1, <2>2
  <2>6. \A i \in 1 .. Len(calls'[th]) : i > Len(calls[th]) - 1 => calls'[th][i].kind \in K
    BY <2>1, <2>4, <2>5
  <2> QED BY <1>5, <1>8, <2>1, <2>3, <2>5, <2>6
<1> QED BY <1>2, <1>3, <1>4, <1>6, <1>7, <1>8 DEF Moves

LoopKinds == {"run", "fire"}
CenterKinds == {"post"}
OpKinds == {"start"}
BlockKinds == {"once", "block"}
ClassKinds == {"send", "load"}
LockKinds == {"sync", "set", "get"}

\* The innermost call of a thread is formed.
LEMMA TopFormed ==
    ASSUME CallsFormed, NEW th \in Threads, calls[th] # <<>>
    PROVE  Formed(Top(th))
<1>1. PICK S : calls \in [Threads -> Seq(S)] /\ \A c \in S : Formed(c)
  BY DEF CallsFormed
<1>2. Top(th) \in S
  BY <1>1, FrontAndLast DEF Top
<1> QED BY <1>1, <1>2

\* A run loop's steps.
LEMMA LoopMoves ==
    ASSUME CallsFormed, NEW th \in Threads,
           \/ TimerCalls(th) \/ RemoteCalls(th, LoopsRun)
           \/ RunLoopHost(th) \/ Wake(th) \/ EndTimer(th) \/ EndFire(th)
    PROVE  Moves(th, LoopKinds)
<1> USE DEF LoopKinds
<1>1. \A l, single, batch : Of(RunCall(l, single, batch), LoopKinds)
  BY DEF Of, Formed, RunCall
<1>2. \A t : Of(FireCall(t), LoopKinds)
  BY DEF Of, Formed, FireCall
<1>3. CASE TimerCalls(th)
  <2>1. CASE \E t \in Timers : \/ \E r \in BOOLEAN, g \in Targets : NewTimer(th, t, r, g)
                               \/ ReleaseTimer(th, t) \/ SetFireDate(th, t)
    BY <2>1 DEF NewTimer, ReleaseTimer, SetFireDate, Moves
  <2>2. CASE \E t \in Timers : Fire(th, t)
    BY <1>2, <2>2 DEF Fire, Moves, CanCall, GuestRuns
  <2>3. CASE \E l \in Threads, g \in Targets : CancelPerformSelectors(th, l, g)
    BY <2>3 DEF CancelPerformSelectors, Moves
  <2>4. CASE \E single \in BOOLEAN : BeginRun(th, single)
    BY <1>1, <2>4 DEF BeginRun, Moves, CanCall, GuestRuns
  <2> QED BY <1>3, <2>1, <2>2, <2>3, <2>4 DEF TimerCalls
<1>4. CASE RemoteCalls(th, LoopsRun)
  BY <1>4 DEF RemoteCalls, InvalidateTimer, AddTimer, CFRunLoopStop, Moves
<1>5. ASSUME NEW stage, At(th, "run", stage)
      PROVE  /\ Replaces(th, LoopKinds)
             /\ \A s : Of([Top(th) EXCEPT !.stage = s], LoopKinds)
             /\ \A s, t : Of([Top(th) EXCEPT !.stage = s, !.timer = t], LoopKinds)
             /\ \A b : Of([Top(th) EXCEPT !.batch = b], LoopKinds)
             /\ \A b, s, t : Of([[Top(th) EXCEPT !.batch = b] EXCEPT !.stage = s, !.timer = t],
                                LoopKinds)
  <2>1. calls[th] # <<>> /\ Top(th).kind = "run"
    BY <1>5 DEF At
  <2>2. {"kind", "stage", "loop", "single", "batch", "timer"} \subseteq DOMAIN Top(th)
    BY <2>1, TopFormed DEF Formed
  <2>3. Replaces(th, LoopKinds)
    BY <2>1 DEF Replaces
  <2>4. \A c : DOMAIN c = DOMAIN Top(th) /\ c.kind = "run" => Of(c, LoopKinds)
    BY <2>2 DEF Of, Formed
  <2>5. ASSUME NEW s PROVE Of([Top(th) EXCEPT !.stage = s], LoopKinds)
    <3> DEFINE c == [Top(th) EXCEPT !.stage = s]
    <3>1. DOMAIN c = DOMAIN Top(th) /\ c.kind = "run"
      BY <2>1, <2>2
    <3> HIDE DEF c
    <3>2. Of(c, LoopKinds)
      BY <2>4, <3>1
    <3> QED BY <3>2 DEF c
  <2>6. ASSUME NEW s, NEW t PROVE Of([Top(th) EXCEPT !.stage = s, !.timer = t], LoopKinds)
    <3> DEFINE c == [Top(th) EXCEPT !.stage = s, !.timer = t]
    <3>1. DOMAIN c = DOMAIN Top(th) /\ c.kind = "run"
      BY <2>1, <2>2
    <3> HIDE DEF c
    <3>2. Of(c, LoopKinds)
      BY <2>4, <3>1
    <3> QED BY <3>2 DEF c
  <2>7. ASSUME NEW b PROVE Of([Top(th) EXCEPT !.batch = b], LoopKinds)
    <3> DEFINE c == [Top(th) EXCEPT !.batch = b]
    <3>1. DOMAIN c = DOMAIN Top(th) /\ c.kind = "run"
      BY <2>1, <2>2
    <3> HIDE DEF c
    <3>2. Of(c, LoopKinds)
      BY <2>4, <3>1
    <3> QED BY <3>2 DEF c
  <2>8. ASSUME NEW b, NEW s, NEW t
        PROVE  Of([[Top(th) EXCEPT !.batch = b] EXCEPT !.stage = s, !.timer = t], LoopKinds)
    <3> DEFINE c == [[Top(th) EXCEPT !.batch = b] EXCEPT !.stage = s, !.timer = t]
    <3>1. DOMAIN c = DOMAIN Top(th) /\ c.kind = "run"
      BY <2>1, <2>2
    <3> HIDE DEF c
    <3>2. Of(c, LoopKinds)
      BY <2>4, <3>1
    <3> QED BY <3>2 DEF c
  <2> QED BY <2>3, <2>5, <2>6, <2>7, <2>8
<1>6. CASE RunLoopHost(th)
  <2>1. CASE EndPass(th)
    BY <1>5, <2>1 DEF EndPass, Moves
  <2>2. ASSUME NEW t \in Timers, HandleTimer(th, t) PROVE Moves(th, LoopKinds)
    <3>1. At(th, "run", "timers")
      BY <2>2 DEF HandleTimer
    <3> DEFINE rest == [Top(th) EXCEPT !.batch = @ \ {t}]
    <3>2. \/ Continue(th, rest)
          \/ Continue(th, [rest EXCEPT !.stage = "callback", !.timer = t])
      BY <2>2 DEF HandleTimer
    <3>3. \E b : rest = [Top(th) EXCEPT !.batch = b]
      OBVIOUS
    <3>4. /\ Of(rest, LoopKinds)
          /\ Of([rest EXCEPT !.stage = "callback", !.timer = t], LoopKinds)
      BY <1>5, <3>1, <3>3
    <3>5. Replaces(th, LoopKinds)
      BY <1>5, <3>1
    <3> HIDE DEF rest
    <3> QED BY <3>2, <3>4, <3>5 DEF Moves
  <2> QED BY <1>6, <2>1, <2>2 DEF RunLoopHost
<1>7. CASE Wake(th)
  <2>1. At(th, "run", "sleep")
    BY <1>7 DEF Wake
  <2>2. Replaces(th, LoopKinds)
    BY <1>5, <2>1
  <2>3. Leave(th) \/ NextPass(th)
    BY <1>7 DEF Wake
  <2>4. NextPass(th) => \E c : Of(c, LoopKinds) /\ Continue(th, c)
    BY <1>1 DEF NextPass
  <2> QED BY <2>2, <2>3, <2>4 DEF Moves
<1>8. CASE EndTimer(th)
  <2>1. At(th, "run", "callback")
    BY <1>8 DEF EndTimer
  <2>2. Continue(th, [Top(th) EXCEPT !.stage = "timers", !.timer = NoTimer])
    BY <1>8 DEF EndTimer
  <2> QED BY <1>5, <2>1, <2>2 DEF Moves
<1>9. CASE EndFire(th)
  BY <1>9 DEF EndFire, At, Moves, Replaces
<1> QED BY <1>3, <1>4, <1>6, <1>7, <1>8, <1>9

\* The notification center's.
LEMMA CenterMoves ==
    ASSUME CallsFormed, NEW th \in Threads,
           NotificationCalls(th) \/ NotificationHost(th) \/ EndDelivery(th)
    PROVE  Moves(th, CenterKinds)
<1> USE DEF CenterKinds
<1>1. \A p, entries : Of(PostCall(p, entries), CenterKinds)
  BY DEF Of, Formed, PostCall
<1>2. ASSUME NEW stage, At(th, "post", stage)
      PROVE  /\ Replaces(th, CenterKinds)
             /\ \A b : Of([Top(th) EXCEPT !.rest = b], CenterKinds)
             /\ \A b, s, e : Of([[Top(th) EXCEPT !.rest = b] EXCEPT !.stage = s, !.entry = e],
                                CenterKinds)
             /\ \A s, e : Of([Top(th) EXCEPT !.stage = s, !.entry = e], CenterKinds)
  <2>1. calls[th] # <<>> /\ Top(th).kind = "post"
    BY <1>2 DEF At
  <2>2. {"kind", "stage"} \subseteq DOMAIN Top(th)
    BY <2>1, TopFormed DEF Formed
  <2>3. Replaces(th, CenterKinds)
    BY <2>1 DEF Replaces
  <2> QED BY <2>1, <2>2, <2>3 DEF Of, Formed
<1>3. CASE NotificationCalls(th)
  <2>1. CASE \/ \E o \in Observers : NewObserver(th, o) \/ ReleaseObject(th, o)
             \/ \E e \in Registrations : AddObserver(th, e) \/ AddBlock(th, e)
             \/ \E o \in Observers \cup Blocks, name \in Names \cup {Nil},
                   object \in Posters \cup {Nil} : RemoveObserver(th, o, name, object)
    BY <2>1 DEF NewObserver, ReleaseObject, AddObserver, AddBlock, RemoveObserver, Moves
  <2>2. CASE \E name \in Names, p \in Posters : PostNotification(th, name, p)
    BY <1>1, <2>2 DEF PostNotification, Moves, CanCall, GuestRuns
  <2> QED BY <1>3, <2>1, <2>2 DEF NotificationCalls
<1>4. CASE NotificationHost(th)
  <2>1. CASE EndPost(th)
    BY <1>2, <2>1 DEF EndPost, Moves
  <2>2. ASSUME NEW e, Deliver(th, e) PROVE Moves(th, CenterKinds)
    <3>1. At(th, "post", "deliver")
      BY <2>2 DEF Deliver
    <3> DEFINE rest == [Top(th) EXCEPT !.rest = @ \ {e}]
    <3>2. \/ Continue(th, rest)
          \/ UNCHANGED calls
          \/ Continue(th, [rest EXCEPT !.stage = "callback", !.entry = e])
      BY <2>2 DEF Deliver
    <3>3. \E b : rest = [Top(th) EXCEPT !.rest = b]
      OBVIOUS
    <3>4. /\ Of(rest, CenterKinds)
          /\ Of([rest EXCEPT !.stage = "callback", !.entry = e], CenterKinds)
      BY <1>2, <3>1, <3>3
    <3>5. Replaces(th, CenterKinds)
      BY <1>2, <3>1
    <3> HIDE DEF rest
    <3> QED BY <3>2, <3>4, <3>5 DEF Moves
  <2> QED BY <1>4, <2>1, <2>2 DEF NotificationHost
<1>5. CASE EndDelivery(th)
  <2>1. At(th, "post", "callback")
    BY <1>5 DEF EndDelivery
  <2>2. Continue(th, [Top(th) EXCEPT !.stage = "deliver", !.entry = Nil])
    BY <1>5 DEF EndDelivery
  <2> QED BY <1>2, <2>1, <2>2 DEF Moves
<1> QED BY <1>3, <1>4, <1>5

\* The operation queues'.
LEMMA OpMoves ==
    ASSUME CallsFormed, NEW th \in Threads,
           OperationCalls(th) \/ EndStart(th) \/ EndMain(th) \/ EndCompletion(th)
    PROVE  Moves(th, OpKinds)
<1> USE DEF OpKinds
<1>1. \A o, queue : Of(StartCall(o, queue), OpKinds)
  BY DEF Of, Formed, StartCall
<1>2. ASSUME NEW stage, At(th, "start", stage)
      PROVE  /\ Replaces(th, OpKinds)
             /\ \A s : Of([Top(th) EXCEPT !.stage = s], OpKinds)
  <2>1. calls[th] # <<>> /\ Top(th).kind = "start"
    BY <1>2 DEF At
  <2>2. {"kind", "stage", "op", "queue"} \subseteq DOMAIN Top(th)
    BY <2>1, TopFormed DEF Formed
  <2>3. Replaces(th, OpKinds)
    BY <2>1 DEF Replaces
  <2> QED BY <2>1, <2>2, <2>3 DEF Of, Formed
<1>3. \A o, queue : CanCall(th) /\ Start(th, o, queue) => Moves(th, OpKinds)
  BY <1>1 DEF Start, Moves, CanCall, GuestRuns
<1>4. CASE OperationCalls(th)
  <2>1. CASE \E o \in Ops : \/ StartOperation(th, o)
                            \/ \E q \in Queues : AddOperation(th, o, q)
    BY <1>3, <2>1 DEF StartOperation, AddOperation
  <2>2. CASE \E o \in Ops : \/ Cancel(th, o)
                            \/ \E q \in Queues : DropOperation(th, o, q)
                            \/ \E d \in Ops : AddDependency(th, o, d) \/ RemoveDependency(th, o, d)
    BY <2>2 DEF Cancel, DropOperation, AddDependency, RemoveDependency, Moves
  <2>3. CASE \E q \in Queues : \/ CancelAllOperations(th, q)
                               \/ \E suspend \in BOOLEAN : SetSuspended(th, q, suspend)
    BY <2>3 DEF CancelAllOperations, SetSuspended, Moves
  <2> QED BY <1>4, <2>1, <2>2, <2>3 DEF OperationCalls
<1>5. CASE EndStart(th)
  BY <1>2, <1>5 DEF EndStart, Moves
<1>6. CASE EndMain(th)
  BY <1>2, <1>6 DEF EndMain, Moves
<1>7. CASE EndCompletion(th)
  BY <1>2, <1>7 DEF EndCompletion, Moves
<1> QED BY <1>4, <1>5, <1>6, <1>7

\* Grand Central Dispatch's.
LEMMA BlockMoves ==
    ASSUME CallsFormed, NEW th \in Threads,
           DispatchCalls(th) \/ EndBlock(th) \/ EndOnce(th)
    PROVE  Moves(th, BlockKinds)
<1> USE DEF BlockKinds
<1>1. \A q, left, pushed : Of(BlockCall(q, left, pushed), BlockKinds)
  BY DEF Of, Formed, BlockCall
<1>2. \A token : Of(OnceCall(token), BlockKinds)
  BY DEF Of, Formed, OnceCall
<1>3. CASE DispatchCalls(th)
  <2>1. CASE \E token \in Tokens : DispatchOnce(th, token)
    BY <1>2, <2>1 DEF DispatchOnce, Moves, CanCall, GuestRuns
  <2>2. CASE \E q \in DispatchQueues :
                \/ DispatchBlock(th, q) \/ DispatchDirect(th, q) \/ DispatchApply(th, q, 2)
    BY <1>1, <2>2 DEF DispatchBlock, DispatchDirect, DispatchApply, Moves, CanCall, GuestRuns
  <2>3. CASE SemaphoreWait(th) \/ SemaphoreSignal(th)
    BY <2>3 DEF SemaphoreWait, SemaphoreSignal, Moves
  <2> QED BY <1>3, <2>1, <2>2, <2>3 DEF DispatchCalls
<1>4. CASE EndBlock(th)
  <2>1. calls[th] # <<>> /\ Top(th).kind = "block"
    BY <1>4 DEF EndBlock, At
  <2>2. {"kind", "stage", "dq", "left", "pushed"} \subseteq DOMAIN Top(th)
    BY <2>1, TopFormed DEF Formed
  <2>3. Replaces(th, BlockKinds) /\ Of([Top(th) EXCEPT !.left = @ - 1], BlockKinds)
    BY <2>1, <2>2 DEF Replaces, Of, Formed
  <2> QED BY <1>4, <2>3 DEF EndBlock, Moves
<1>5. CASE EndOnce(th)
  BY <1>5 DEF EndOnce, At, Replaces, Moves
<1> QED BY <1>3, <1>4, <1>5

\* Those of messages.
LEMMA ClassMoves ==
    ASSUME CallsFormed, NEW th \in Threads,
           MessageCalls(th) \/ BeginLoads(th) \/ MessageHost(th) \/ EndSend(th)
    PROVE  Moves(th, ClassKinds)
<1> USE DEF ClassKinds
<1>1. \A c, method, pending : Of(SendCall(c, method, pending), ClassKinds)
  BY DEF Of, Formed, SendCall
<1>2. \A stage, unseen, walk, inherited, list :
          Of(LoadCall(stage, unseen, walk, inherited, list), ClassKinds)
  BY DEF Of, Formed, LoadCall
<1>3. CASE MessageCalls(th)
  BY <1>1, <1>3 DEF MessageCalls, Send, SendSuper, Moves, GuestRuns
<1>4. CASE BeginLoads(th)
  BY <1>2, <1>4 DEF BeginLoads, Moves, GuestRuns
<1>5. CASE InitializeNext(th)
  <2>1. Replaces(th, ClassKinds)
    BY <1>5 DEF InitializeNext, At, Replaces
  <2> DEFINE c == Last(Top(th).pending)
             rest == SendCall(Top(th).class, Top(th).method, Front(Top(th).pending))
             next == SendCall(c, "initialize", <<>>)
  <2>2. Of(rest, ClassKinds) /\ Of(next, ClassKinds) /\ rest.kind \notin {"sync", "set"}
    BY <1>1 DEF SendCall
  <2>3. \/ calls' = [calls EXCEPT ![th] = Front(@) \o <<rest, next>>]
        \/ Continue(th, rest)
    BY <1>5 DEF InitializeNext
  <2> HIDE DEF rest, next
  <2> QED BY <2>1, <2>2, <2>3 DEF Moves
<1>6. CASE LoadNext(th)
  <2>1. Replaces(th, ClassKinds)
    BY <1>6 DEF LoadNext, At, Replaces
  <2> DEFINE c == Head(Top(th).rest)
             rest == LoadCall("next", {}, <<>>, <<>>, Tail(Top(th).rest))
             next == SendCall(c, "load", <<>>)
  <2>2. Of(rest, ClassKinds) /\ Of(next, ClassKinds) /\ rest.kind \notin {"sync", "set"}
    BY <1>1, <1>2 DEF LoadCall
  <2>3. \/ calls' = [calls EXCEPT ![th] = Front(@) \o <<rest, next>>]
        \/ Continue(th, rest)
    BY <1>6 DEF LoadNext
  <2> HIDE DEF rest, next
  <2> QED BY <2>1, <2>2, <2>3 DEF Moves
<1>7. CASE EndLoads(th)
  BY <1>7 DEF EndLoads, At, Replaces, Moves
<1>8. CASE EndSend(th)
  BY <1>8 DEF EndSend, At, Replaces, Moves
<1>9. CASE FindLoads(th)
  <2>1. Replaces(th, ClassKinds)
    BY <1>9 DEF FindLoads, FindLoad, WalkLoads, EndWalk, AllFound, At, Replaces
  <2>2. \E stage, unseen, walk, inherited, list :
            Continue(th, LoadCall(stage, unseen, walk, inherited, list))
    BY <1>9 DEF FindLoads, FindLoad, WalkLoads, EndWalk, AllFound
  <2> QED BY <1>2, <2>1, <2>2 DEF Moves
<1> QED BY <1>3, <1>4, <1>5, <1>6, <1>7, <1>8, <1>9 DEF MessageHost

\* Those of blocks and properties.
LEMMA LockMoves ==
    ASSUME CallsFormed, NEW th \in Threads,
           \/ BlockCalls(th) \/ PropertyCalls(th)
           \/ SynchronizedHost(th) \/ SynchronizedReturns(th)
    PROVE  Moves(th, LockKinds)
<1> USE DEF LockKinds
<1>1. \A o, m : Of(EnterCall(o, m), LockKinds)
  BY DEF Of, Formed, EnterCall
<1>2. \A o, v, copy, m, stage : Of(SetCall(o, v, copy, m, stage), LockKinds)
  BY DEF Of, Formed, SetCall
<1>3. \A m : Of(GetCall(m), LockKinds)
  BY DEF Of, Formed, GetCall
<1>4. CASE BlockCalls(th)
  BY <1>1, <1>4 DEF BlockCalls, ObjcSyncEnter, ObjcSyncExit, Moves, GuestRuns
<1>5. CASE PropertyCalls(th)
  <2>1. ASSUME NEW o, NEW v, NEW copy, NEW atomic, SetProperty(th, o, v, copy, atomic)
        PROVE  Moves(th, LockKinds)
    <3>1. InGuest(th) /\ \E m, stage : Enter(th, SetCall(o, v, copy, m, stage))
      BY <2>1 DEF SetProperty, CanCall, GuestRuns
    <3> QED BY <1>2, <3>1 DEF Moves
  <2>2. ASSUME NEW o, GetProperty(th, o) PROVE Moves(th, LockKinds)
    <3>1. UNCHANGED calls \/ (InGuest(th) /\ \E m : Enter(th, GetCall(m)))
      BY <2>2 DEF GetProperty, CanCall, GuestRuns
    <3> QED BY <1>3, <3>1 DEF Moves
  <2>3. ASSUME NEW v, NewValue(th, v) \/ ReleaseValue(th, v) PROVE Moves(th, LockKinds)
    BY <2>3 DEF NewValue, ReleaseValue, Moves
  <2> QED BY <1>5, <2>1, <2>2, <2>3 DEF PropertyCalls
<1>6. ASSUME NEW stage, At(th, "set", stage)
      PROVE  /\ Replaces(th, LockKinds)
             /\ \A s : Of([Top(th) EXCEPT !.stage = s], LockKinds)
             /\ \A w, s : Of([[Top(th) EXCEPT !.old = w] EXCEPT !.stage = s], LockKinds)
             /\ \A v, s : Of([Top(th) EXCEPT !.stage = s, !.value = v], LockKinds)
  <2>1. calls[th] # <<>> /\ Top(th).kind = "set"
    BY <1>6 DEF At
  <2>2. {"kind", "stage", "object", "value", "copy", "mutex", "old"} \subseteq DOMAIN Top(th)
    BY <2>1, TopFormed DEF Formed
  <2>3. Replaces(th, LockKinds)
    BY <2>1 DEF Replaces
  <2> QED BY <2>1, <2>2, <2>3 DEF Of, Formed
<1>7. CASE SyncEntered(th) \/ GetterLocked(th)
  BY <1>7 DEF SyncEntered, GetterLocked, At, Replaces, Moves
<1>8. CASE SetterLocked(th)
  BY <1>6, <1>8 DEF SetterLocked, Moves
<1>9. CASE ReadOld(th)
  BY <1>6, <1>9 DEF ReadOld, Moves
<1>10. CASE Store(th)
  BY <1>6, <1>10 DEF Store, Moves
<1>11. CASE EndSet(th)
  BY <1>6, <1>11 DEF EndSet, Moves
<1>12. CASE SynchronizedReturns(th)
  BY <1>6, <1>12 DEF SynchronizedReturns, EndCopy, EndDealloc, Moves
<1> QED BY <1>4, <1>5, <1>7, <1>8, <1>9, <1>10, <1>11, <1>12 DEF SynchronizedHost

\* Every step of the threads changes the calls of the kinds K only.
Step(K) == UNCHANGED calls \/ \E th \in Threads : Moves(th, K)

\* A step is one of the module it belongs to, or of the clock.
LEMMA Steps ==
    ASSUME CallsFormed, [Next]_vars
    PROVE  \/ Step(LoopKinds) /\ OnLoop
           \/ Step(CenterKinds) /\ OnCenter
           \/ /\ OnOperations
              /\ \E th \in Threads :
                    OperationCalls(th) \/ EndStart(th) \/ EndMain(th) \/ EndCompletion(th)
           \/ /\ OnDispatch
              /\ \E th \in Threads : DispatchCalls(th) \/ EndBlock(th) \/ EndOnce(th)
           \/ /\ OnClasses
              /\ \E th \in Threads :
                    MessageCalls(th) \/ BeginLoads(th) \/ MessageHost(th) \/ EndSend(th)
           \/ /\ OnLocks
              /\ \E th \in Threads :
                    \/ BlockCalls(th) \/ PropertyCalls(th)
                    \/ SynchronizedHost(th) \/ SynchronizedReturns(th)
           \/ UNCHANGED vars
<1>1. CASE TimePasses
  BY <1>1 DEF TimePasses, BecomeDue, Step
<1>2. ASSUME NEW th \in Threads, GuestStep(th) \/ HostStep(th) \/ WakeUp(th) \/ GuestReturns(th)
      PROVE  \/ OnLoop /\ (\/ TimerCalls(th) \/ RemoteCalls(th, LoopsRun)
                           \/ RunLoopHost(th) \/ Wake(th) \/ EndTimer(th) \/ EndFire(th))
             \/ OnCenter /\ (NotificationCalls(th) \/ NotificationHost(th) \/ EndDelivery(th))
             \/ OnOperations /\ (OperationCalls(th) \/ EndStart(th) \/ EndMain(th) \/ EndCompletion(th))
             \/ OnDispatch /\ (DispatchCalls(th) \/ EndBlock(th) \/ EndOnce(th))
             \/ OnClasses /\ (MessageCalls(th) \/ BeginLoads(th) \/ MessageHost(th) \/ EndSend(th))
             \/ OnLocks /\ (\/ BlockCalls(th) \/ PropertyCalls(th)
                            \/ SynchronizedHost(th) \/ SynchronizedReturns(th))
  BY <1>2 DEF GuestStep, HostStep, WakeUp, GuestReturns
<1>3. ASSUME NEW th \in Threads, OnLoop,
             \/ TimerCalls(th) \/ RemoteCalls(th, LoopsRun)
             \/ RunLoopHost(th) \/ Wake(th) \/ EndTimer(th) \/ EndFire(th)
      PROVE  Step(LoopKinds)
  BY <1>3, LoopMoves DEF Step
<1>4. ASSUME NEW th \in Threads, OnCenter,
             NotificationCalls(th) \/ NotificationHost(th) \/ EndDelivery(th)
      PROVE  Step(CenterKinds)
  BY <1>4, CenterMoves DEF Step
<1> QED BY ONLY <1>1, <1>2, <1>3, <1>4, [Next]_vars DEF Next

\* That the calls are formed is inductive.
LEMMA CallsFormedInit == ASSUME Init PROVE CallsFormed
<1>1. calls \in [Threads -> Seq({})]
  BY DEF Init
<1> QED BY <1>1 DEF CallsFormed

\* A step leaves the calls formed.
LEMMA CallsFormedStep == ASSUME CallsFormed, [Next]_vars PROVE CallsFormed'
<1>1. \A th \in Threads : \A K : Moves(th, K) => CallsFormed'
  BY Moved
<1>2. UNCHANGED calls => CallsFormed'
  BY DEF CallsFormed
<1>3. \A K : Step(K) => CallsFormed'
  BY <1>1, <1>2 DEF Step
<1>4. UNCHANGED vars => CallsFormed'
  BY <1>2 DEF vars
<1>5. ASSUME NEW th \in Threads,
             \/ OperationCalls(th) \/ EndStart(th) \/ EndMain(th) \/ EndCompletion(th)
             \/ DispatchCalls(th) \/ EndBlock(th) \/ EndOnce(th)
             \/ MessageCalls(th) \/ BeginLoads(th) \/ MessageHost(th) \/ EndSend(th)
             \/ BlockCalls(th) \/ PropertyCalls(th)
             \/ SynchronizedHost(th) \/ SynchronizedReturns(th)
      PROVE  \E K : Moves(th, K)
  BY <1>5, OpMoves, BlockMoves, ClassMoves, LockMoves
<1>6. (\E th \in Threads : \E K : Moves(th, K)) => CallsFormed'
  BY <1>1
<1>7. CASE Step(LoopKinds) \/ Step(CenterKinds) \/ UNCHANGED vars
  BY <1>3, <1>4, <1>7
<1>8. CASE ~ (Step(LoopKinds) \/ Step(CenterKinds) \/ UNCHANGED vars)
  BY <1>5, <1>6, <1>8, Steps
<1> QED BY <1>7, <1>8

\* Every call of a host function that is in progress has what its later steps
\* use, for all programs: no step takes one kind of call for another.
THEOREM CallsFormedAlways == Spec => []CallsFormed
BY CallsFormedInit, CallsFormedStep, PTL DEF Spec

\* Calls of another kind are where they were.
LEMMA Foreign ==
    ASSUME CallsFormed, NEW K, Step(K), NEW k, k \notin K
    PROVE  /\ \A u \in Threads : \A i :
                  i \in 1 .. Len(calls[u]) /\ calls[u][i].kind = k <=>
                      i \in 1 .. Len(calls'[u]) /\ calls'[u][i].kind = k
           /\ \A u \in Threads : \A i \in 1 .. Len(calls[u]) :
                  calls[u][i].kind = k => calls'[u][i] = calls[u][i]
<1>1. CASE UNCHANGED calls
  BY <1>1
<1>2. ASSUME NEW th \in Threads, Moves(th, K),
             NEW u \in Threads, NEW i
      PROVE  /\ i \in 1 .. Len(calls[u]) /\ calls[u][i].kind = k <=>
                      i \in 1 .. Len(calls'[u]) /\ calls'[u][i].kind = k
             /\ i \in 1 .. Len(calls[u]) /\ calls[u][i].kind = k =>
                      calls'[u][i] = calls[u][i]
  <2>1. CASE u # th
    BY <1>2, <2>1, Moved
  <2>2. CASE u = th
    <3>1. PICK n \in Nat :
                  /\ n <= Len(calls[th]) /\ n <= Len(calls'[th])
                  /\ \A j \in 1 .. n : calls'[th][j] = calls[th][j]
                  /\ \A j \in 1 .. Len(calls[th]) : j > n => calls[th][j].kind \in K
                  /\ \A j \in 1 .. Len(calls'[th]) : j > n => calls'[th][j].kind \in K
      BY <1>2, Moved
    <3>2. Len(calls[th]) \in Nat /\ Len(calls'[th]) \in Nat
      BY <1>2, Moved
    <3>3. CASE i \in 1 .. n
      BY <2>2, <3>1, <3>2, <3>3
    <3>4. CASE i \notin 1 .. n
      <4>1. \A m \in Nat : i \in 1 .. m => i > n
        BY <3>4
      <4>2. ~ (i \in 1 .. Len(calls[th]) /\ calls[th][i].kind = k)
        BY <3>1, <3>2, <4>1
      <4>3. ~ (i \in 1 .. Len(calls'[th]) /\ calls'[th][i].kind = k)
        BY <3>1, <3>2, <4>1
      <4> QED BY <2>2, <4>2, <4>3
    <3> QED BY <3>3, <3>4
  <2> QED BY <2>1, <2>2
<1> QED BY <1>1, <1>2 DEF Step

\* A call of some thread, as AllCalls has it.
LEMMA InStacks ==
    ASSUME NEW S, NEW stacks \in [Threads -> Seq(S)], NEW c
    PROVE  c \in UNION {Range(stacks[th]) : th \in Threads} <=>
               \E u \in Threads : \E i \in 1 .. Len(stacks[u]) : c = stacks[u][i]
<1>1. \A u \in Threads : DOMAIN stacks[u] = 1 .. Len(stacks[u])
  OBVIOUS
<1>2. \A u \in Threads : c \in Range(stacks[u]) <=> \E i \in 1 .. Len(stacks[u]) : c = stacks[u][i]
  BY <1>1 DEF Range
<1>3. c \in UNION {Range(stacks[th]) : th \in Threads} <=> \E u \in Threads : c \in Range(stacks[u])
  OBVIOUS
<1> QED BY <1>2, <1>3

\* Who is in AllCalls.
LEMMA InCalls ==
    ASSUME CallsFormed
    PROVE  \A c : c \in AllCalls <=>
               \E u \in Threads : \E i \in 1 .. Len(calls[u]) : c = calls[u][i]
<1>1. PICK S : calls \in [Threads -> Seq(S)]
  BY DEF CallsFormed
<1> QED BY <1>1, InStacks DEF AllCalls

\* The same after a step.
LEMMA InNextCalls ==
    ASSUME CallsFormed'
    PROVE  \A c : c \in AllCalls' <=>
               \E u \in Threads : \E i \in 1 .. Len(calls'[u]) : c = calls'[u][i]
<1>1. PICK S : calls' \in [Threads -> Seq(S)]
  BY DEF CallsFormed
<1> QED BY <1>1, InStacks DEF AllCalls

\* Of other kinds there are the same.
LEMMA ForeignCalls ==
    ASSUME CallsFormed, CallsFormed', NEW K, Step(K), NEW k, k \notin K
    PROVE  \A c : c.kind = k => (c \in AllCalls <=> c \in AllCalls')
<1>1. \A c : c \in AllCalls <=>
               \E u \in Threads : \E i \in 1 .. Len(calls[u]) : c = calls[u][i]
  BY InCalls
<1>2. \A c : c \in AllCalls' <=>
               \E u \in Threads : \E i \in 1 .. Len(calls'[u]) : c = calls'[u][i]
  BY InNextCalls
<1>3. ASSUME NEW c, c.kind = k, c \in AllCalls PROVE c \in AllCalls'
  BY <1>1, <1>2, <1>3, Foreign
<1>4. ASSUME NEW c, c.kind = k, c \in AllCalls' PROVE c \in AllCalls
  BY <1>1, <1>2, <1>4, Foreign
<1> QED BY <1>3, <1>4

\* A call in progress stays, but for the innermost one of the thread that
\* replaces it by another or leaves it.
LEMMA CallsStay ==
    ASSUME CallsFormed, CallsFormed', NEW th \in Threads, NEW d
    PROVE  /\ UNCHANGED calls => \A c \in AllCalls : c \in AllCalls'
           /\ Enter(th, d) => \A c \in AllCalls : c \in AllCalls'
           /\ Enter(th, d) => d \in AllCalls'
           /\ calls[th] # <<>> => Top(th) \in AllCalls
           /\ calls[th] # <<>> /\ Leave(th) =>
                  \A c \in AllCalls : c = Top(th) \/ c \in AllCalls'
           /\ calls[th] # <<>> /\ Continue(th, d) =>
                  /\ \A c \in AllCalls : c = Top(th) \/ c \in AllCalls'
                  /\ d \in AllCalls'
<1>1. PICK S : calls \in [Threads -> Seq(S)]
  BY DEF CallsFormed
<1>2. \A c : c \in AllCalls <=>
               \E u \in Threads : \E i \in 1 .. Len(calls[u]) : c = calls[u][i]
  BY InCalls
<1>3. \A c : c \in AllCalls' <=>
               \E u \in Threads : \E i \in 1 .. Len(calls'[u]) : c = calls'[u][i]
  BY InNextCalls
<1>4. UNCHANGED calls => \A c \in AllCalls : c \in AllCalls'
  BY DEF AllCalls
<1>5. Len(calls[th]) \in Nat /\ \A u \in Threads : Len(calls[u]) \in Nat
  BY <1>1
<1>6. ASSUME Enter(th, d) PROVE d \in AllCalls' /\ \A c \in AllCalls : c \in AllCalls'
  <2>1. /\ calls' \in [Threads -> Seq(S \cup {d})]
        /\ \A u \in Threads \ {th} : calls'[u] = calls[u]
        /\ Len(calls'[th]) = Len(calls[th]) + 1
        /\ \A i \in 1 .. Len(calls[th]) : calls'[th][i] = calls[th][i]
        /\ calls'[th][Len(calls[th]) + 1] = d
    BY <1>1, <1>6, Stacks
  <2>2. \A i \in 1 .. Len(calls[th]) : i \in 1 .. Len(calls'[th])
    BY <1>5, <2>1
  <2>3. Len(calls[th]) + 1 \in 1 .. Len(calls'[th])
    BY <1>5, <2>1
  <2>4. d \in AllCalls'
    BY <1>3, <2>1, <2>3
  <2>5. ASSUME NEW c \in AllCalls PROVE c \in AllCalls'
    <3>1. PICK u \in Threads : \E i \in 1 .. Len(calls[u]) : c = calls[u][i]
      BY <1>2
    <3>2. \E i \in 1 .. Len(calls'[u]) : c = calls'[u][i]
      BY <2>1, <2>2, <3>1
    <3> QED BY <1>3, <2>1, <3>2
  <2> QED BY <2>4, <2>5
<1>7. ASSUME calls[th] # <<>> PROVE Top(th) \in AllCalls
  <2>1. Len(calls[th]) \in Nat \ {0} /\ Top(th) = calls[th][Len(calls[th])]
    BY <1>1, <1>7, Stacks
  <2>2. Len(calls[th]) \in 1 .. Len(calls[th])
    BY <2>1
  <2> QED BY <1>2, <2>1, <2>2
<1>8. ASSUME calls[th] # <<>>,
             \A u \in Threads \ {th} : calls'[u] = calls[u],
             Len(calls'[th]) \in {Len(calls[th]), Len(calls[th]) - 1},
             \A i \in 1 .. Len(calls[th]) - 1 : calls'[th][i] = calls[th][i],
             NEW c \in AllCalls, c # Top(th)
      PROVE  c \in AllCalls'
  <2>1. PICK u \in Threads : \E i \in 1 .. Len(calls[u]) : c = calls[u][i]
    BY <1>2
  <2>2. PICK i \in 1 .. Len(calls[u]) : c = calls[u][i]
    BY <2>1
  <2>3. CASE u # th
    BY <1>3, <1>8, <2>2, <2>3
  <2>4. CASE u = th
    <3>1. Top(th) = calls[th][Len(calls[th])]
      BY <1>1, <1>8, Stacks
    <3>2. i # Len(calls[th])
      BY <1>8, <2>2, <2>4, <3>1
    <3>3. i \in 1 .. Len(calls[th]) - 1 /\ i \in 1 .. Len(calls'[th])
      BY <1>5, <1>8, <2>4, <3>2
    <3>4. c = calls'[th][i]
      BY <1>8, <2>2, <2>4, <3>3
    <3> QED BY <1>3, <1>8, <3>3, <3>4
  <2> QED BY <2>3, <2>4
<1>9. ASSUME calls[th] # <<>>, Leave(th)
      PROVE  \A c \in AllCalls : c = Top(th) \/ c \in AllCalls'
  <2>1. /\ calls' \in [Threads -> Seq(S)]
        /\ \A u \in Threads \ {th} : calls'[u] = calls[u]
        /\ Len(calls'[th]) = Len(calls[th]) - 1
        /\ \A i \in 1 .. Len(calls[th]) - 1 : calls'[th][i] = calls[th][i]
    BY <1>1, <1>9, Stacks
  <2> QED BY <1>8, <1>9, <2>1
<1>10. ASSUME calls[th] # <<>>, Continue(th, d)
       PROVE  /\ \A c \in AllCalls : c = Top(th) \/ c \in AllCalls'
              /\ d \in AllCalls'
  <2>1. /\ calls' \in [Threads -> Seq(S \cup {d})]
        /\ \A u \in Threads \ {th} : calls'[u] = calls[u]
        /\ Len(calls'[th]) = Len(calls[th])
        /\ \A i \in 1 .. Len(calls[th]) - 1 : calls'[th][i] = calls[th][i]
        /\ calls'[th][Len(calls[th])] = d
        /\ Len(calls[th]) \in Nat \ {0}
    BY <1>1, <1>10, Stacks
  <2>3. Len(calls[th]) \in 1 .. Len(calls'[th])
    BY <2>1
  <2>2. d \in AllCalls'
    BY <1>3, <2>1, <2>3
  <2> QED BY <1>8, <1>10, <2>1, <2>2
<1> QED BY <1>4, <1>6, <1>7, <1>9, <1>10

-----------------------------------------------------------------------------
(***************************************************************************)
(* Operation queues.                                                       *)
(***************************************************************************)

OpTypes ==
    /\ opState \in [Ops -> {"Ready", "Executing", "Finished"}]
    /\ deps \in [Ops -> SUBSET Ops]
    /\ queued \in [Queues -> SUBSET Ops]

OpInv == OpTypes /\ OperationsOrdered

\* Steps that leave the operations alone, and their calls.
LEMMA QuietOps ==
    ASSUME OpInv, UNCHANGED opVars,
           \A c \in AllCalls : c.kind = "start" => c \in AllCalls'
    PROVE  OpInv'
<1>1. OpTypes' /\ DependenciesFirst'
  BY DEF OpInv, OpTypes, OperationsOrdered, DependenciesFirst, opVars
<1>2. QueuedAreStarted'
  BY DEF OpInv, OperationsOrdered, QueuedAreStarted, opVars
<1> QED BY <1>1, <1>2 DEF OpInv, OperationsOrdered

\* A call of `start` for an operation that is ready.
LEMMA StartKeeps ==
    ASSUME OpInv, CallsFormed, CallsFormed', NEW th \in Threads, NEW o \in Ops, NEW queue \in SUBSET Queues,
           opState[o] = "Ready", IsReady(o), Start(th, o, queue), UNCHANGED deps
    PROVE  OpInv'
<1> USE DEF OpInv, OpTypes
<1>1. CASE cancelled[o]
  <2>1. opState' = [opState EXCEPT ![o] = "Finished"] /\ UNCHANGED <<calls, queued>>
    BY <1>1 DEF Start
  <2>2. OpTypes'
    BY <2>1
  <2>3. DependenciesFirst'
    BY <2>1 DEF OperationsOrdered, DependenciesFirst
  <2>4. AllCalls' = AllCalls
    BY <2>1 DEF AllCalls
  <2>5. QueuedAreStarted'
    BY <2>1, <2>4 DEF OperationsOrdered, QueuedAreStarted
  <2> QED BY <2>2, <2>3, <2>5 DEF OperationsOrdered
<1>2. CASE ~ cancelled[o]
  <2>1. /\ opState' = [opState EXCEPT ![o] = "Executing"]
        /\ queued' = [q \in Queues |-> IF q \in queue THEN queued[q] \cup {o} ELSE queued[q]]
        /\ Enter(th, StartCall(o, queue))
    BY <1>2 DEF Start
  <2>2. OpTypes'
    BY <2>1
  <2>3. DependenciesFirst'
    BY <2>1 DEF OperationsOrdered, DependenciesFirst, IsReady
  <2>4. /\ \A c \in AllCalls : c \in AllCalls'
        /\ StartCall(o, queue) \in AllCalls'
    BY <2>1, CallsStay
  <2>5. ASSUME NEW q \in Queues, NEW p \in queued'[q]
        PROVE  /\ opState'[p] # "Ready"
               /\ \E c \in AllCalls' : c.kind = "start" /\ c.op = p /\ q \in c.queue
    <3>1. CASE p \in queued[q]
      BY <2>1, <2>4, <3>1 DEF OperationsOrdered, QueuedAreStarted
    <3>2. CASE p \notin queued[q]
      <4>1. p = o /\ q \in queue
        BY <2>1, <2>5, <3>2
      <4> QED BY <2>1, <2>4, <4>1 DEF StartCall
    <3> QED BY <3>1, <3>2
  <2>6. QueuedAreStarted'
    BY <2>5 DEF QueuedAreStarted
  <2> QED BY <2>2, <2>3, <2>6 DEF OperationsOrdered
<1> QED BY <1>1, <1>2

\* The return of a callback of `start`, and of `start` itself.
LEMMA StartReturns ==
    ASSUME OpInv, CallsFormed, CallsFormed', NEW th \in Threads,
           EndMain(th) \/ EndCompletion(th) \/ EndStart(th)
    PROVE  OpInv'
<1> USE DEF OpInv, OpTypes
<1>1. calls[th] # <<>> /\ Top(th).kind = "start"
  BY DEF EndMain, EndCompletion, EndStart, At
<1>2. {"kind", "stage", "op", "queue"} \subseteq DOMAIN Top(th)
  BY <1>1, TopFormed DEF Formed
<1>3. ASSUME NEW s, Continue(th, [Top(th) EXCEPT !.stage = s]),
             NEW o, NEW q, NEW c \in AllCalls, c.kind = "start", c.op = o, q \in c.queue
      PROVE  \E d \in AllCalls' : d.kind = "start" /\ d.op = o /\ q \in d.queue
  <2> DEFINE e == [Top(th) EXCEPT !.stage = s]
  <2>1. e.kind = "start" /\ e.op = Top(th).op /\ e.queue = Top(th).queue
    BY <1>1, <1>2
  <2>2. (c = Top(th) \/ c \in AllCalls') /\ e \in AllCalls'
    BY <1>1, <1>3, CallsStay
  <2> QED BY <1>3, <2>1, <2>2
<1>4. CASE EndMain(th)
  <2>1. /\ opState' = [opState EXCEPT ![Top(th).op] = "Finished"]
        /\ UNCHANGED <<deps, queued>>
        /\ \E s : Continue(th, [Top(th) EXCEPT !.stage = s])
    BY <1>4 DEF EndMain
  <2>2. OpTypes' /\ DependenciesFirst'
    BY <2>1 DEF OperationsOrdered, DependenciesFirst
  <2>3. \A o \in Ops : opState[o] # "Ready" => opState'[o] # "Ready"
    BY <2>1
  <2>4. ASSUME NEW q \in Queues, NEW o \in queued'[q]
        PROVE  /\ opState'[o] # "Ready"
               /\ \E c \in AllCalls' : c.kind = "start" /\ c.op = o /\ q \in c.queue
    <3>1. /\ o \in Ops /\ opState[o] # "Ready"
          /\ \E c \in AllCalls : c.kind = "start" /\ c.op = o /\ q \in c.queue
      BY <2>1, <2>4 DEF OperationsOrdered, QueuedAreStarted
    <3> QED BY <1>3, <2>1, <2>3, <3>1
  <2>5. QueuedAreStarted'
    BY <2>4 DEF QueuedAreStarted
  <2> QED BY <2>2, <2>5 DEF OperationsOrdered
<1>5. CASE EndCompletion(th)
  <2>1. UNCHANGED <<opState, deps, queued>> /\ \E s : Continue(th, [Top(th) EXCEPT !.stage = s])
    BY <1>5 DEF EndCompletion, opVars
  <2>2. OpTypes' /\ DependenciesFirst'
    BY <2>1 DEF OperationsOrdered, DependenciesFirst
  <2>3. ASSUME NEW q \in Queues, NEW o \in queued'[q]
        PROVE  /\ opState'[o] # "Ready"
               /\ \E c \in AllCalls' : c.kind = "start" /\ c.op = o /\ q \in c.queue
    <3>1. /\ opState[o] # "Ready"
          /\ \E c \in AllCalls : c.kind = "start" /\ c.op = o /\ q \in c.queue
      BY <2>1, <2>3 DEF OperationsOrdered, QueuedAreStarted
    <3> QED BY <1>3, <2>1, <3>1
  <2>4. QueuedAreStarted'
    BY <2>3 DEF QueuedAreStarted
  <2> QED BY <2>2, <2>4 DEF OperationsOrdered
<1>6. CASE EndStart(th)
  <2> DEFINE t == Top(th)
  <2>1. /\ queued' = [q \in Queues |-> IF q \in t.queue THEN queued[q] \ {t.op} ELSE queued[q]]
        /\ Leave(th) /\ UNCHANGED <<opState, deps>>
    BY <1>6 DEF EndStart, Dequeue
  <2>2. OpTypes' /\ DependenciesFirst'
    BY <2>1 DEF OperationsOrdered, DependenciesFirst
  <2>3. \A c \in AllCalls : c = t \/ c \in AllCalls'
    BY <1>1, <2>1, CallsStay
  <2> HIDE DEF t
  <2>4. ASSUME NEW q \in Queues, NEW o \in queued'[q]
        PROVE  /\ opState'[o] # "Ready"
               /\ \E c \in AllCalls' : c.kind = "start" /\ c.op = o /\ q \in c.queue
    <3>1. o \in queued[q] /\ ~ (q \in t.queue /\ o = t.op)
      BY <2>1
    <3>2. /\ opState[o] # "Ready"
          /\ \E c \in AllCalls : c.kind = "start" /\ c.op = o /\ q \in c.queue
      BY <3>1 DEF OperationsOrdered, QueuedAreStarted
    <3> QED BY <2>1, <2>3, <3>1, <3>2
  <2>5. QueuedAreStarted'
    BY <2>4 DEF QueuedAreStarted
  <2> QED BY <2>2, <2>5 DEF OperationsOrdered
<1> QED BY <1>4, <1>5, <1>6

\* Every step keeps the operations in order.
LEMMA OpStep ==
    ASSUME "start_early" \notin Misuse, OpInv, CallsFormed, CallsFormed', [Next]_vars
    PROVE  OpInv'
<1>1. ASSUME NEW K, Step(K), "start" \notin K, UNCHANGED opVars PROVE OpInv'
  BY <1>1, ForeignCalls, QuietOps
<1>2. ASSUME NEW th \in Threads, OperationCalls(th) PROVE OpInv'
  <2>1. ASSUME NEW o \in Ops, StartOperation(th, o) PROVE OpInv'
    BY <2>1, StartKeeps DEF StartOperation, Lawful
  <2>2. ASSUME NEW o \in Ops, NEW q \in Queues, AddOperation(th, o, q) PROVE OpInv'
    BY <2>2, StartKeeps DEF AddOperation, IsReady
  <2>3. ASSUME UNCHANGED <<opState, queued, calls>>,
               \A o \in Ops : opState[o] # "Ready" => deps'[o] \subseteq deps[o],
               deps' \in [Ops -> SUBSET Ops]
        PROVE  OpInv'
    <3>1. OpTypes' /\ DependenciesFirst'
      BY <2>3 DEF OpInv, OpTypes, OperationsOrdered, DependenciesFirst
    <3>2. AllCalls' = AllCalls
      BY <2>3 DEF AllCalls
    <3>3. QueuedAreStarted'
      BY <2>3, <3>2 DEF OpInv, OperationsOrdered, QueuedAreStarted
    <3> QED BY <3>1, <3>3 DEF OpInv, OperationsOrdered
  <2>4. ASSUME NEW o \in Ops, NEW d \in Ops, AddDependency(th, o, d) PROVE OpInv'
    BY <2>3, <2>4 DEF AddDependency, AcceptsDependency, OpInv, OpTypes
  <2>5. ASSUME NEW o \in Ops, NEW d \in Ops, RemoveDependency(th, o, d) PROVE OpInv'
    BY <2>3, <2>5 DEF RemoveDependency, OpInv, OpTypes
  <2>6. CASE UNCHANGED <<opState, queued, calls, deps>>
    BY <2>3, <2>6 DEF OpInv, OpTypes
  <2>7. ASSUME NEW o \in Ops, Cancel(th, o) \/ \E q \in Queues : DropOperation(th, o, q)
        PROVE  OpInv'
    BY <2>6, <2>7 DEF Cancel, DropOperation
  <2>8. ASSUME NEW q \in Queues,
               CancelAllOperations(th, q) \/ \E suspend \in BOOLEAN : SetSuspended(th, q, suspend)
        PROVE  OpInv'
    BY <2>6, <2>8 DEF CancelAllOperations, SetSuspended
  <2> QED BY <1>2, <2>1, <2>2, <2>4, <2>5, <2>7, <2>8 DEF OperationCalls
<1>3. ASSUME NEW th \in Threads, EndStart(th) \/ EndMain(th) \/ EndCompletion(th) PROVE OpInv'
  BY <1>3, StartReturns
<1>4. CASE Step(LoopKinds) /\ OnLoop
  BY <1>1, <1>4 DEF OnLoop, LoopKinds
<1>5. CASE Step(CenterKinds) /\ OnCenter
  BY <1>1, <1>5 DEF OnCenter, CenterKinds
<1>6. ASSUME OnDispatch, NEW th \in Threads, DispatchCalls(th) \/ EndBlock(th) \/ EndOnce(th)
      PROVE  OpInv'
  <2>1. Step(BlockKinds)
    BY <1>6, BlockMoves DEF Step
  <2> QED BY <1>1, <1>6, <2>1 DEF OnDispatch, BlockKinds
<1>7. ASSUME OnClasses, NEW th \in Threads,
             MessageCalls(th) \/ BeginLoads(th) \/ MessageHost(th) \/ EndSend(th)
      PROVE  OpInv'
  <2>1. Step(ClassKinds)
    BY <1>7, ClassMoves DEF Step
  <2> QED BY <1>1, <1>7, <2>1 DEF OnClasses, ClassKinds
<1>8. ASSUME OnLocks, NEW th \in Threads,
             BlockCalls(th) \/ PropertyCalls(th) \/ SynchronizedHost(th) \/ SynchronizedReturns(th)
      PROVE  OpInv'
  <2>1. Step(LockKinds)
    BY <1>8, LockMoves DEF Step
  <2> QED BY <1>1, <1>8, <2>1 DEF OnLocks, LockKinds
<1>9. CASE UNCHANGED vars
  <2>1. Step({})
    BY <1>9 DEF vars, Step
  <2> QED BY <1>1, <1>9, <2>1 DEF vars
<1> QED BY <1>2, <1>3, <1>4, <1>5, <1>6, <1>7, <1>8, <1>9, Steps

\* Operations run after those they depend on, and a queue holds none that its
\* addOperation: is not executing, for all programs, threads and operations.
THEOREM OperationsInOrder ==
    ASSUME "start_early" \notin Misuse PROVE Spec => []OperationsOrdered
<1>1. Init => OpInv
  BY DEF Init, OperationsInit, OpInv, OpTypes, OperationsOrdered, DependenciesFirst,
         QueuedAreStarted
<1>2. OpInv /\ CallsFormed /\ CallsFormed' /\ [Next]_vars => OpInv'
  BY OpStep
<1>3. OpInv => OperationsOrdered
  BY DEF OpInv
<1> QED BY <1>1, <1>2, <1>3, CallsFormedAlways, PTL DEF Spec

-----------------------------------------------------------------------------
(***************************************************************************)
(* Grand Central Dispatch: the stack of queues is made up of those that    *)
(* the blocks in progress have pushed, innermost last.                     *)
(***************************************************************************)

\* The greatest element of a set of places.
LEMMA Greatest ==
    ASSUME NEW n \in Nat, NEW S \in SUBSET (1 .. n), S # {}
    PROVE  Max(S) \in S /\ \A i \in S : i <= Max(S)
<1> DEFINE T == {n - i : i \in S}
<1>1. T \in SUBSET Nat /\ T # {}
  <2>1. \A i \in S : n - i \in Nat
    OBVIOUS
  <2> QED BY <2>1
<1>2. PICK x \in T : \A y \in T : x <= y
  BY <1>1, Least
<1>3. PICK i \in S : x = n - i
  BY <1>2
<1>4. \A j \in S : i >= j
  <2> SUFFICES ASSUME NEW j \in S PROVE i >= j
    OBVIOUS
  <2>1. n - i <= n - j
    BY <1>2, <1>3
  <2>2. n \in Nat /\ i \in Nat /\ j \in Nat
    OBVIOUS
  <2> QED BY <2>1, <2>2
<1>5. /\ Max(S) \in S /\ \A j \in S : Max(S) >= j
  BY <1>4 DEF Max
<1>6. \A j \in S : j \in Nat
  OBVIOUS
<1> QED BY <1>5, <1>6

-----------------------------------------------------------------------------
Pushed(th) == {i \in BlockPlaces(th) : calls[th][i].pushed}

\* The stack holds the queues of the blocks of th that put one there, in the
\* order of the blocks.
Matches(th, f) ==
    /\ f \in [1 .. Len(queueStack) -> Nat]
    /\ \A k, l \in 1 .. Len(queueStack) : k < l => f[k] < f[l]
    /\ \A k \in 1 .. Len(queueStack) :
           f[k] \in Pushed(th) /\ calls[th][f[k]].dq = queueStack[k]
    /\ \A i \in Pushed(th) : \E k \in 1 .. Len(queueStack) : f[k] = i

\* A block's queue is that of the last one up to it that put its own on the
\* stack, or there is none, and it is the main queue.
Inherits(th, i) ==
    \/ \E j \in Pushed(th) :
           /\ j <= i /\ calls[th][j].dq = calls[th][i].dq
           /\ \A k \in Pushed(th) : k <= j \/ k > i
    \/ calls[th][i].dq = MainQueue /\ \A k \in Pushed(th) : k > i

NoneInBlocks(th) == \A u \in Threads \ {th} : BlockPlaces(u) = {}

BlockInv ==
    /\ queueStack \in Seq(DispatchQueues)
    /\ \A th \in Threads : BlockPlaces(th) # {} => NoneInBlocks(th)
    /\ \A th \in Threads : NoneInBlocks(th) => \E f : Matches(th, f)
    /\ \A th \in Threads : \A i \in BlockPlaces(th) : Inherits(th, i)

\* The places of a thread's blocks are among those of its calls.
LEMMA PlacesType ==
    ASSUME CallsFormed, NEW th \in Threads
    PROVE  Len(calls[th]) \in Nat /\ BlockPlaces(th) \in SUBSET (1 .. Len(calls[th]))
<1>1. PICK S : calls \in [Threads -> Seq(S)]
  BY DEF CallsFormed
<1> QED BY <1>1 DEF BlockPlaces

\* A block finds its queue.
LEMMA BlockFinds == ASSUME CallsFormed, BlockInv PROVE CurrentQueueFound
<1> SUFFICES ASSUME NEW th \in Threads, BlockPlaces(th) # {}
             PROVE  RunningQueue = CurrentQueue(th)
  BY DEF CurrentQueueFound
<1> DEFINE m == Max(BlockPlaces(th))
           n == Len(queueStack)
<1>1. m \in BlockPlaces(th) /\ \A i \in BlockPlaces(th) : i <= m
  BY PlacesType, Greatest
<1>2. m \in Nat /\ n \in Nat /\ queueStack \in Seq(DispatchQueues)
  BY <1>1, PlacesType DEF BlockInv
<1>3. CurrentQueue(th) = calls[th][m].dq
  BY DEF CurrentQueue
<1>4. PICK f : Matches(th, f)
  BY DEF BlockInv
<1>5. Inherits(th, m)
  BY <1>1 DEF BlockInv
<1> HIDE DEF m
<1>6. CASE \A k \in Pushed(th) : k > m
  <2>1. Pushed(th) = {}
    <3> SUFFICES ASSUME NEW k \in Pushed(th) PROVE FALSE
      OBVIOUS
    <3>1. k <= m /\ k > m /\ k \in Nat
      BY <1>1, <1>6, PlacesType DEF Pushed
    <3> QED BY <1>2, <3>1
  <2>2. calls[th][m].dq = MainQueue
    BY <1>5, <2>1 DEF Inherits
  <2>3. n = 0
    BY <1>2, <1>4, <2>1 DEF Matches
  <2> QED BY <1>2, <1>3, <2>2, <2>3 DEF RunningQueue
<1>7. CASE ~ \A k \in Pushed(th) : k > m
  <2>1. PICK j \in Pushed(th) :
           /\ j <= m /\ calls[th][j].dq = calls[th][m].dq
           /\ \A k \in Pushed(th) : k <= j \/ k > m
    BY <1>5, <1>7 DEF Inherits
  <2>2. \A k \in Pushed(th) : k \in Nat /\ k <= m
    BY <1>1, PlacesType DEF Pushed
  <2>3. \A k \in Pushed(th) : k <= j
    <3> SUFFICES ASSUME NEW k \in Pushed(th) PROVE k <= j
      OBVIOUS
    <3>1. k <= m /\ k \in Nat /\ (k <= j \/ k > m)
      BY <2>1, <2>2
    <3> QED BY <1>2, <3>1
  <2>4. PICK l \in 1 .. n : f[l] = j
    BY <1>4, <2>1 DEF Matches
  <2>5. n \in 1 .. n /\ f[n] \in Pushed(th) /\ calls[th][f[n]].dq = queueStack[n]
    <3>1. n \in 1 .. n
      BY <1>2, <2>4
    <3> QED BY <1>4, <3>1 DEF Matches
  <2>6. f[n] = j
    <3>1. CASE l = n
      BY <2>4, <3>1
    <3>2. CASE l # n
      <4>1. l < n
        BY <1>2, <2>4, <3>2
      <4>2. f[l] < f[n]
        BY <1>4, <2>4, <2>5, <4>1 DEF Matches
      <4>3. f[n] <= j /\ f[n] \in Nat /\ j \in Nat
        BY <2>1, <2>2, <2>3, <2>5
      <4> QED BY <2>4, <4>2, <4>3
    <3> QED BY <3>1, <3>2
  <2>7. queueStack # <<>> /\ Last(queueStack) = queueStack[n]
    BY <1>2, <2>5 DEF Last
  <2> QED BY <1>3, <2>1, <2>5, <2>6, <2>7 DEF RunningQueue
<1> QED BY <1>6, <1>7

\* Steps that leave the blocks where they are and the stack alone.
LEMMA QuietBlocks ==
    ASSUME BlockInv, UNCHANGED queueStack,
           \A u \in Threads : BlockPlaces(u)' = BlockPlaces(u),
           \A u \in Threads : \A i \in BlockPlaces(u) :
               /\ calls'[u][i].dq = calls[u][i].dq
               /\ calls'[u][i].pushed = calls[u][i].pushed
    PROVE  BlockInv'
<1>1. \A u \in Threads : Pushed(u)' = Pushed(u) /\ (NoneInBlocks(u)' <=> NoneInBlocks(u))
  BY DEF Pushed, NoneInBlocks
<1>2. \A u \in Threads : \A i \in Pushed(u) : calls'[u][i].dq = calls[u][i].dq
  BY DEF Pushed
<1>3. ASSUME NEW th \in Threads, NoneInBlocks(th)' PROVE (\E f : Matches(th, f))'
  <2>1. PICK f : Matches(th, f)
    BY <1>1, <1>3 DEF BlockInv
  <2>2. Matches(th, f)'
    BY <1>1, <1>2, <2>1 DEF Matches
  <2> QED BY <2>2
<1>4. ASSUME NEW th \in Threads, NEW i \in BlockPlaces(th)' PROVE Inherits(th, i)'
  <2>1. i \in BlockPlaces(th) /\ Inherits(th, i)
    BY <1>4 DEF BlockInv
  <2>2. calls'[th][i].dq = calls[th][i].dq
    BY <2>1
  <2> QED BY <1>1, <1>2, <2>1, <2>2 DEF Inherits
<1>5. queueStack' \in Seq(DispatchQueues)
  BY DEF BlockInv
<1>6. \A th \in Threads : BlockPlaces(th)' # {} => NoneInBlocks(th)'
  BY <1>1 DEF BlockInv
<1> QED BY <1>3, <1>4, <1>5, <1>6 DEF BlockInv

\* A block is called: its queue is put on the stack or is that of the block
\* it is called from.
LEMMA BlockEntered ==
    ASSUME BlockInv, CallsFormed, NEW th \in Threads, NoneInBlocks(th),
           NEW q \in DispatchQueues, NEW left, NEW pushed \in BOOLEAN,
           Enter(th, BlockCall(q, left, pushed)),
           IF pushed THEN queueStack' = Append(queueStack, q)
           ELSE UNCHANGED queueStack /\ q = CurrentQueue(th)
    PROVE  BlockInv'
<1> DEFINE c == BlockCall(q, left, pushed)
           n == Len(calls[th]) + 1
           len == Len(queueStack)
<1>1. c.kind = "block" /\ c.dq = q /\ c.pushed = pushed
  BY DEF BlockCall
<1>2. PICK S : calls \in [Threads -> Seq(S)]
  BY DEF CallsFormed
<1>0. Len(calls[th]) \in Nat
  BY <1>2
<1>18. n \in Nat \ {0}
  BY <1>0
<1>19. Enter(th, c)
  OBVIOUS
<1> HIDE DEF c
<1>20. /\ \A u \in Threads \ {th} : calls'[u] = calls[u]
       /\ Len(calls'[th]) = Len(calls[th]) + 1
       /\ \A i \in 1 .. Len(calls[th]) : calls'[th][i] = calls[th][i]
       /\ calls'[th][Len(calls[th]) + 1] = c
  BY <1>2, <1>19, Stacks
<1>3. /\ \A u \in Threads \ {th} : calls'[u] = calls[u]
      /\ Len(calls'[th]) = n /\ n \in Nat \ {0}
      /\ \A i \in 1 .. Len(calls[th]) : calls'[th][i] = calls[th][i]
      /\ calls'[th][n] = c
  BY <1>18, <1>20
<1>4. /\ Len(calls[th]) \in Nat /\ BlockPlaces(th) \in SUBSET (1 .. Len(calls[th]))
      /\ queueStack \in Seq(DispatchQueues) /\ len \in Nat
      /\ \A u \in Threads : BlockPlaces(u) # {} => NoneInBlocks(u)
      /\ \A i \in BlockPlaces(th) : Inherits(th, i)
  BY PlacesType DEF BlockInv
<1>5. PICK f : Matches(th, f)
  BY DEF BlockInv
<1> HIDE DEF c, n, len
<1>6. \A i \in BlockPlaces(th) : i \in Nat /\ i < n
  BY <1>4 DEF n
<1>7. BlockPlaces(th)' = BlockPlaces(th) \cup {n}
  <2>1. \A i : i \in 1 .. n <=> i \in 1 .. Len(calls[th]) \/ i = n
    BY <1>4 DEF n
  <2>2. n \notin 1 .. Len(calls[th])
    BY <1>4 DEF n
  <2> QED BY <1>1, <1>3, <2>1, <2>2 DEF BlockPlaces
<1>8. \A i \in BlockPlaces(th) : calls'[th][i] = calls[th][i]
  BY <1>3, <1>4
<1>9. Pushed(th)' = IF pushed THEN Pushed(th) \cup {n} ELSE Pushed(th)
  BY <1>1, <1>3, <1>6, <1>7, <1>8 DEF Pushed
<1>10. \A u \in Threads \ {th} : BlockPlaces(u)' = {} /\ BlockPlaces(u) = {}
  BY <1>3 DEF NoneInBlocks, BlockPlaces
<1>11. \A i \in Pushed(th) : i \in BlockPlaces(th) /\ i \in Nat /\ i < n
  BY <1>6 DEF Pushed
<1>12. \A u \in Threads : BlockPlaces(u)' # {} => NoneInBlocks(u)'
  BY <1>10 DEF NoneInBlocks
<1>13. \A u \in Threads : NoneInBlocks(u)' => u = th
  BY <1>7 DEF NoneInBlocks
<1>14. queueStack' \in Seq(DispatchQueues)
  BY <1>4
<1>15. \E f1 : Matches(th, f1)'
  <2>1. CASE pushed
    <3> DEFINE g == [k \in 1 .. len + 1 |-> IF k <= len THEN f[k] ELSE n]
    <3>1. /\ queueStack' = Append(queueStack, q) /\ Len(queueStack') = len + 1
          /\ \A k \in 1 .. len : queueStack'[k] = queueStack[k]
          /\ queueStack'[len + 1] = q
      BY <1>4, <2>1 DEF len
    <3>2. /\ f \in [1 .. len -> Nat]
          /\ \A k, l \in 1 .. len : k < l => f[k] < f[l]
          /\ \A k \in 1 .. len : f[k] \in Pushed(th) /\ calls[th][f[k]].dq = queueStack[k]
          /\ \A i \in Pushed(th) : \E k \in 1 .. len : f[k] = i
      BY <1>5 DEF Matches, len
    <3>3. /\ \A k \in 1 .. len : k \in 1 .. len + 1 /\ g[k] = f[k] /\ f[k] < n
          /\ len + 1 \in 1 .. len + 1 /\ g[len + 1] = n
      BY <1>4, <1>11, <3>2
    <3>4. \A k \in 1 .. len + 1 : k \in 1 .. len \/ k = len + 1
      BY <1>4
    <3>5. g \in [1 .. len + 1 -> Nat]
      BY <1>3, <3>2, <3>4
    <3> HIDE DEF g
    <3>6. \A k, l \in 1 .. len + 1 : k < l => g[k] < g[l]
      <4> SUFFICES ASSUME NEW k \in 1 .. len + 1, NEW l \in 1 .. len + 1, k < l
                   PROVE  g[k] < g[l]
        OBVIOUS
      <4>1. k \in 1 .. len
        BY <1>4, <3>4
      <4> QED BY <3>2, <3>3, <3>4, <4>1
    <3>7. Pushed(th)' = Pushed(th) \cup {n}
      BY <1>9, <2>1
    <3>8. \A k \in 1 .. len + 1 : g[k] \in Pushed(th)' /\ calls'[th][g[k]].dq = queueStack'[k]
      <4>1. \A k \in 1 .. len : g[k] \in Pushed(th)' /\ calls'[th][g[k]].dq = queueStack'[k]
        BY <1>8, <1>11, <3>1, <3>2, <3>3, <3>7
      <4>2. g[len + 1] \in Pushed(th)' /\ calls'[th][g[len + 1]].dq = queueStack'[len + 1]
        BY <1>1, <1>3, <3>1, <3>3, <3>7
      <4> QED BY <3>4, <4>1, <4>2
    <3>9. \A i \in Pushed(th)' : \E k \in 1 .. len + 1 : g[k] = i
      BY <3>2, <3>3, <3>7
    <3>10. PICK h : h = g
      OBVIOUS
    <3>11. Matches(th, h)'
      BY <3>1, <3>5, <3>6, <3>8, <3>9, <3>10 DEF Matches
    <3> QED BY <3>11
  <2>2. CASE ~ pushed
    <3>1. UNCHANGED queueStack /\ Pushed(th)' = Pushed(th)
      BY <1>9, <2>2
    <3>2. \A i \in Pushed(th) : calls'[th][i] = calls[th][i]
      BY <1>8, <1>11
    <3>3. Matches(th, f)'
      BY <1>5, <3>1, <3>2 DEF Matches
    <3> QED BY <3>3
  <2> QED BY <2>1, <2>2
<1>16. ASSUME NEW i \in BlockPlaces(th)' PROVE Inherits(th, i)'
  <2>1. CASE i \in BlockPlaces(th)
    <3>1. Inherits(th, i) /\ calls'[th][i] = calls[th][i] /\ i \in Nat /\ i < n
      BY <1>4, <1>6, <1>8, <2>1
    <3>2. \A j \in Pushed(th) : j \in Pushed(th)' /\ calls'[th][j] = calls[th][j]
      BY <1>8, <1>9, <1>11
    <3>3. \A j \in Pushed(th)' : j \in Pushed(th) \/ j > i
      BY <1>3, <1>9, <3>1
    <3> QED BY <3>1, <3>2, <3>3 DEF Inherits
  <2>2. CASE i = n /\ pushed
    <3>1. n \in Pushed(th)' /\ n <= n
      BY <1>3, <1>9, <2>2
    <3>2. \A k \in Pushed(th)' : k <= n
      BY <1>3, <1>9, <1>11
    <3> QED BY <2>2, <3>1, <3>2 DEF Inherits
  <2>3. CASE i = n /\ ~ pushed
    <3>1. Pushed(th)' = Pushed(th) /\ q = CurrentQueue(th)
      BY <1>9, <2>3
    <3>2. calls'[th][i].dq = q
      BY <1>1, <1>3, <2>3
    <3>3. CASE BlockPlaces(th) = {}
      BY <3>1, <3>2, <3>3, <1>11 DEF Inherits, CurrentQueue
    <3>4. CASE BlockPlaces(th) # {}
      <4> DEFINE m == Max(BlockPlaces(th))
      <4>1. m \in BlockPlaces(th) /\ \A k \in BlockPlaces(th) : k <= m
        BY <1>4, <3>4, Greatest
      <4>2. Inherits(th, m) /\ m \in Nat /\ m < n
        BY <1>4, <1>6, <4>1
      <4>3. q = calls[th][m].dq
        BY <3>1, <3>4 DEF CurrentQueue
      <4> HIDE DEF m
      <4>4. CASE \A k \in Pushed(th) : k > m
        <5>1. Pushed(th) = {}
          BY <1>11, <4>1, <4>2, <4>4
        <5>2. q = MainQueue
          BY <4>2, <4>3, <5>1 DEF Inherits
        <5> QED BY <3>1, <3>2, <5>1, <5>2 DEF Inherits
      <4>5. ASSUME NEW j \in Pushed(th), j <= m, calls[th][j].dq = calls[th][m].dq,
                   \A k \in Pushed(th) : k <= j \/ k > m
            PROVE  Inherits(th, i)'
        <5>1. j <= i
          BY <1>3, <1>11, <2>3, <4>5
        <5>2. \A k \in Pushed(th) : k <= j
          BY <1>11, <4>1, <4>2, <4>5
        <5>3. calls'[th][j] = calls[th][j]
          BY <1>8, <1>11
        <5> QED BY <3>1, <3>2, <4>3, <4>5, <5>1, <5>2, <5>3 DEF Inherits
      <4> QED BY <4>2, <4>4, <4>5 DEF Inherits
    <3> QED BY <3>3, <3>4
  <2> QED BY <1>7, <2>1, <2>2, <2>3
<1>17. \A u \in Threads : \A i \in BlockPlaces(u)' : Inherits(u, i)'
  BY <1>10, <1>16
<1> QED BY <1>12, <1>13, <1>14, <1>15, <1>17 DEF BlockInv

\* A block returns, and takes its queue off the stack if it put it there.
LEMMA BlockLeft ==
    ASSUME BlockInv, CallsFormed, NEW th \in Threads,
           calls[th] # <<>>, Top(th).kind = "block", Leave(th),
           IF Top(th).pushed THEN PopQueue ELSE UNCHANGED queueStack
    PROVE  BlockInv'
<1> DEFINE n == Len(calls[th])
           len == Len(queueStack)
<1>1. PICK S : calls \in [Threads -> Seq(S)]
  BY DEF CallsFormed
<1>2. /\ \A u \in Threads \ {th} : calls'[u] = calls[u]
      /\ Len(calls'[th]) = n - 1 /\ n \in Nat \ {0}
      /\ \A i \in 1 .. n - 1 : calls'[th][i] = calls[th][i]
      /\ Top(th) = calls[th][n]
  BY <1>1, Stacks
<1>3. /\ BlockPlaces(th) \in SUBSET (1 .. n)
      /\ queueStack \in Seq(DispatchQueues) /\ len \in Nat
      /\ \A u \in Threads : BlockPlaces(u) # {} => NoneInBlocks(u)
      /\ \A i \in BlockPlaces(th) : Inherits(th, i)
  BY PlacesType DEF BlockInv
<1>4. n \in BlockPlaces(th)
  BY <1>2 DEF BlockPlaces
<1>5. NoneInBlocks(th)
  BY <1>3, <1>4
<1>6. PICK f : Matches(th, f)
  BY <1>5 DEF BlockInv
<1> HIDE DEF n, len
<1>7. BlockPlaces(th)' = BlockPlaces(th) \ {n}
  <2>1. \A i : i \in 1 .. n - 1 <=> i \in 1 .. n /\ i # n
    BY <1>2
  <2> QED BY <1>2, <2>1 DEF BlockPlaces, n
<1>8. \A i \in BlockPlaces(th) : i \in Nat /\ i <= n /\ (i # n => i < n /\ calls'[th][i] = calls[th][i])
  <2> SUFFICES ASSUME NEW i \in BlockPlaces(th)
               PROVE  i \in Nat /\ i <= n /\ (i # n => i < n /\ calls'[th][i] = calls[th][i])
    OBVIOUS
  <2>1. i \in 1 .. n
    BY <1>3
  <2>2. i # n => i \in 1 .. n - 1
    BY <1>2, <2>1
  <2> QED BY <1>2, <2>1, <2>2
<1>9. Pushed(th)' = Pushed(th) \ {n}
  BY <1>7, <1>8 DEF Pushed
<1>10. \A i \in Pushed(th) : i \in BlockPlaces(th)
  BY DEF Pushed
<1>11. \A u \in Threads \ {th} : /\ BlockPlaces(u)' = {} /\ BlockPlaces(u) = {}
                                 /\ Pushed(u)' = {}
  BY <1>2, <1>5 DEF NoneInBlocks, BlockPlaces, Pushed
<1>12. \A u \in Threads : BlockPlaces(u)' # {} => NoneInBlocks(u)'
  BY <1>11 DEF NoneInBlocks
<1>13. (n \in Pushed(th)) <=> Top(th).pushed
  BY <1>2, <1>4 DEF Pushed
<1>14. queueStack' \in Seq(DispatchQueues) /\ \E g : Matches(th, g)'
  <2>1. CASE Top(th).pushed
    <3>1. PICK l \in 1 .. len : f[l] = n
      BY <1>6, <1>13, <2>1 DEF Matches, len
    <3>2. len \in Nat \ {0} /\ len \in 1 .. len
      BY <1>3, <3>1
    <3>3. queueStack # <<>>
      BY <1>3, <3>2 DEF len
    <3>4. /\ queueStack' \in Seq(DispatchQueues) /\ Len(queueStack') = len - 1
          /\ \A k \in 1 .. len - 1 : queueStack'[k] = queueStack[k]
      BY <1>3, <2>1, <3>3, FrontAndLast DEF PopQueue, len
    <3>5. /\ f \in [1 .. len -> Nat]
          /\ \A k, m \in 1 .. len : k < m => f[k] < f[m]
          /\ \A k \in 1 .. len : f[k] \in Pushed(th) /\ calls[th][f[k]].dq = queueStack[k]
          /\ \A i \in Pushed(th) : \E k \in 1 .. len : f[k] = i
      BY <1>6 DEF Matches, len
    <3>6. f[len] = n
      <4>1. f[len] <= n /\ f[len] \in Nat
        BY <1>8, <1>10, <3>2, <3>5
      <4>2. l # len => l < len
        BY <1>3, <3>1
      <4>3. l # len => n < f[len]
        BY <3>1, <3>2, <3>5, <4>2
      <4> QED BY <1>2, <3>1, <4>1, <4>3
    <3>7. \A k \in 1 .. len - 1 : k \in 1 .. len /\ k < len
      BY <3>2
    <3>8. \A k \in 1 .. len - 1 : f[k] < n
      BY <3>2, <3>5, <3>6, <3>7
    <3> DEFINE g == [k \in 1 .. len - 1 |-> f[k]]
    <3>9. g \in [1 .. len - 1 -> Nat] /\ \A k \in 1 .. len - 1 : g[k] = f[k]
      BY <3>5, <3>7
    <3> HIDE DEF g
    <3>10. \A k, m \in 1 .. len - 1 : k < m => g[k] < g[m]
      BY <3>5, <3>7, <3>9
    <3>11. \A k \in 1 .. len - 1 : g[k] \in Pushed(th)' /\ calls'[th][g[k]].dq = queueStack'[k]
      <4> SUFFICES ASSUME NEW k \in 1 .. len - 1
                   PROVE  g[k] \in Pushed(th)' /\ calls'[th][g[k]].dq = queueStack'[k]
        OBVIOUS
      <4>1. f[k] \in Pushed(th) /\ calls[th][f[k]].dq = queueStack[k] /\ f[k] \in Nat /\ f[k] < n
        BY <3>5, <3>7, <3>8
      <4>2. f[k] # n
        BY <1>2, <4>1
      <4> QED BY <1>8, <1>9, <1>10, <3>4, <3>9, <4>1, <4>2
    <3>12. \A i \in Pushed(th)' : \E k \in 1 .. len - 1 : g[k] = i
      <4> SUFFICES ASSUME NEW i \in Pushed(th)' PROVE \E k \in 1 .. len - 1 : g[k] = i
        OBVIOUS
      <4>1. PICK k \in 1 .. len : f[k] = i
        BY <1>9, <3>5
      <4>2. k # len
        BY <1>9, <3>6, <4>1
      <4>3. k \in 1 .. len - 1
        BY <1>3, <4>2
      <4> QED BY <3>9, <4>1, <4>3
    <3>13. PICK h : h = g
      OBVIOUS
    <3>14. Matches(th, h)'
      BY <3>4, <3>9, <3>10, <3>11, <3>12, <3>13 DEF Matches
    <3> QED BY <3>4, <3>14
  <2>2. CASE ~ Top(th).pushed
    <3>1. UNCHANGED queueStack /\ Pushed(th)' = Pushed(th)
      BY <1>9, <1>13, <2>2
    <3>2. \A i \in Pushed(th) : calls'[th][i] = calls[th][i]
      BY <1>8, <1>10, <1>13, <2>2
    <3>3. Matches(th, f)'
      BY <1>6, <3>1, <3>2 DEF Matches
    <3> QED BY <1>3, <3>1, <3>3
  <2> QED BY <2>1, <2>2
<1>15. ASSUME NEW u \in Threads, NoneInBlocks(u)' PROVE (\E g : Matches(u, g))'
  <2>1. CASE u = th
    BY <1>14, <2>1
  <2>2. CASE u # th
    <3>1. PICK g : Matches(th, g)'
      BY <1>14
    <3>2. Pushed(th)' = {} /\ Pushed(u)' = {}
      BY <1>11, <1>15, <2>2 DEF NoneInBlocks, Pushed
    <3>3. Matches(u, g)'
      BY <3>1, <3>2 DEF Matches
    <3> QED BY <3>3
  <2> QED BY <2>1, <2>2
<1>16. ASSUME NEW i \in BlockPlaces(th)' PROVE Inherits(th, i)'
  <2>1. i \in BlockPlaces(th) /\ i \in Nat /\ i < n /\ calls'[th][i] = calls[th][i]
    BY <1>7, <1>8
  <2>2. Inherits(th, i)
    BY <1>3, <2>1
  <2>3. \A j \in Pushed(th) : j <= i => j # n
    BY <1>2, <2>1
  <2>4. \A j \in Pushed(th) : j # n => j \in Pushed(th)' /\ calls'[th][j] = calls[th][j]
    BY <1>8, <1>9, <1>10
  <2>5. Pushed(th)' \subseteq Pushed(th)
    BY <1>9
  <2> QED BY <2>1, <2>2, <2>3, <2>4, <2>5 DEF Inherits
<1>17. \A u \in Threads : \A i \in BlockPlaces(u)' : Inherits(u, i)'
  BY <1>11, <1>16
<1> QED BY <1>12, <1>14, <1>15, <1>17 DEF BlockInv

-----------------------------------------------------------------------------
\* Blocks run in one thread at a time, and one that is called directly, as
\* those of dispatch_after, dispatch_apply and the groups are, is of the queue
\* that its caller is on, or does not ask for it.
LawfulBlocks == {"blocks_in_threads", "query_direct_block"} \cap Misuse = {}

\* dispatch_once calls its block, or returns.
LEMMA EnterOnce ==
    ASSUME BlockInv, CallsFormed, NEW th \in Threads, NEW token, DispatchOnce(th, token)
    PROVE  BlockInv'
<1>1. UNCHANGED queueStack
  BY DEF DispatchOnce
<1>2. CASE UNCHANGED calls
  BY <1>1, <1>2, QuietBlocks DEF BlockPlaces
<1>3. CASE Enter(th, OnceCall(token))
  <2>1. OnceCall(token).kind = "once"
    BY DEF OnceCall
  <2>2. PICK S : calls \in [Threads -> Seq(S)]
    BY DEF CallsFormed
  <2>3. /\ \A u \in Threads \ {th} : calls'[u] = calls[u]
        /\ Len(calls'[th]) = Len(calls[th]) + 1
        /\ \A i \in 1 .. Len(calls[th]) : calls'[th][i] = calls[th][i]
        /\ calls'[th][Len(calls[th]) + 1].kind = "once"
    BY <1>3, <2>1, <2>2, Stacks
  <2>4. \A i : i \in 1 .. Len(calls'[th]) <=> i \in 1 .. Len(calls[th]) \/ i = Len(calls[th]) + 1
    BY <2>2, <2>3
  <2>5. BlockPlaces(th)' = BlockPlaces(th)
    BY <2>3, <2>4 DEF BlockPlaces
  <2>6. \A i \in BlockPlaces(th) : calls'[th][i] = calls[th][i]
    BY <2>3 DEF BlockPlaces
  <2>7. \A u \in Threads : BlockPlaces(u)' = BlockPlaces(u)
    BY <2>3, <2>5 DEF BlockPlaces
  <2> QED BY <1>1, <2>3, <2>6, <2>7, QuietBlocks
<1> QED BY <1>2, <1>3 DEF DispatchOnce

\* A block of a queue is called.
LEMMA EnterBlock ==
    ASSUME LawfulBlocks, BlockInv, CallsFormed, NEW th \in Threads,
           NEW q \in DispatchQueues, NEW n,
           DispatchBlock(th, q) \/ DispatchDirect(th, q) \/ DispatchApply(th, q, n)
    PROVE  BlockInv'
<1>1. NoneInBlocks(th)
  BY DEF DispatchBlock, DispatchDirect, DispatchApply, AloneInBlocksOf, LawfulBlocks, Lawful,
         NoneInBlocks
<1>6. PICK pushed \in BOOLEAN : \E left :
          /\ Enter(th, BlockCall(q, left, pushed))
          /\ IF pushed THEN queueStack' = Append(queueStack, q)
             ELSE UNCHANGED queueStack /\ q = CurrentQueue(th)
  <2>1. CASE DispatchBlock(th, q)
    BY <2>1 DEF DispatchBlock
  <2>2. CASE DispatchDirect(th, q) \/ DispatchApply(th, q, n)
    <3>1. PICK left : Enter(th, BlockCall(q, left, FALSE))
      BY <2>2 DEF DispatchDirect, DispatchApply
    <3>2. q = CurrentQueue(th) /\ UNCHANGED queueStack
      BY <2>2 DEF DispatchDirect, DispatchApply, LawfulBlocks, Lawful, dispatchVars
    <3> QED BY <3>1, <3>2
  <2> QED BY <2>1, <2>2
<1>2. PICK left :
          /\ Enter(th, BlockCall(q, left, pushed))
          /\ IF pushed THEN queueStack' = Append(queueStack, q)
             ELSE UNCHANGED queueStack /\ q = CurrentQueue(th)
  BY <1>6
<1> QED BY <1>1, <1>2, BlockEntered

\* The block of dispatch_once returns.
LEMMA LeaveOnce ==
    ASSUME BlockInv, CallsFormed, NEW th \in Threads, EndOnce(th)
    PROVE  BlockInv'
<1>0. calls[th] # <<>> /\ Top(th).kind = "once" /\ Leave(th) /\ UNCHANGED queueStack
  BY DEF EndOnce, At, dispatchVars
<1>1. PICK S : calls \in [Threads -> Seq(S)]
  BY DEF CallsFormed
<1>2. /\ \A u \in Threads \ {th} : calls'[u] = calls[u]
      /\ Len(calls'[th]) = Len(calls[th]) - 1
      /\ \A i \in 1 .. Len(calls[th]) - 1 : calls'[th][i] = calls[th][i]
      /\ Len(calls[th]) \in Nat \ {0}
      /\ calls[th][Len(calls[th])].kind = "once"
  BY <1>0, <1>1, Stacks
<1>3. \A i : i \in 1 .. Len(calls'[th]) <=> i \in 1 .. Len(calls[th]) /\ i # Len(calls[th])
  BY <1>2
<1>4. \A i \in 1 .. Len(calls'[th]) : calls'[th][i] = calls[th][i]
  BY <1>2
<1>5. BlockPlaces(th)' = BlockPlaces(th)
  BY <1>2, <1>3, <1>4 DEF BlockPlaces
<1>6. \A i \in BlockPlaces(th) : calls'[th][i] = calls[th][i]
  BY <1>2, <1>3, <1>4 DEF BlockPlaces
<1>7. \A u \in Threads : BlockPlaces(u)' = BlockPlaces(u)
  BY <1>2, <1>5 DEF BlockPlaces
<1> QED BY <1>0, <1>2, <1>6, <1>7, QuietBlocks

\* A block of a queue returns, or its next iteration begins.
LEMMA LeaveBlock ==
    ASSUME BlockInv, CallsFormed, NEW th \in Threads, EndBlock(th)
    PROVE  BlockInv'
<1>1. calls[th] # <<>> /\ Top(th).kind = "block"
  BY DEF EndBlock, At
<1>2. PICK S : calls \in [Threads -> Seq(S)]
  BY DEF CallsFormed
<1>3. CASE MoreIterations(Top(th))
  <2> DEFINE c == [Top(th) EXCEPT !.left = @ - 1]
  <2>1. Continue(th, c) /\ UNCHANGED queueStack
    BY <1>3 DEF EndBlock
  <2>2. c.kind = "block" /\ c.dq = Top(th).dq /\ c.pushed = Top(th).pushed
    BY <1>1, TopFormed DEF Formed
  <2> HIDE DEF c
  <2>3. /\ \A u \in Threads \ {th} : calls'[u] = calls[u]
        /\ Len(calls'[th]) = Len(calls[th])
        /\ \A i \in 1 .. Len(calls[th]) - 1 : calls'[th][i] = calls[th][i]
        /\ calls'[th][Len(calls[th])] = c
        /\ Len(calls[th]) \in Nat \ {0} /\ Top(th) = calls[th][Len(calls[th])]
    BY <1>1, <1>2, <2>1, Stacks
  <2>4. \A i \in 1 .. Len(calls[th]) : i = Len(calls[th]) \/ calls'[th][i] = calls[th][i]
    BY <2>3
  <2>5. \A u \in Threads : BlockPlaces(u)' = BlockPlaces(u)
    BY <1>1, <2>2, <2>3, <2>4 DEF BlockPlaces
  <2>6. \A i \in BlockPlaces(th) :
            calls'[th][i].dq = calls[th][i].dq /\ calls'[th][i].pushed = calls[th][i].pushed
    BY <2>2, <2>3, <2>4 DEF BlockPlaces
  <2> QED BY <2>1, <2>3, <2>5, <2>6, QuietBlocks
<1>4. CASE ~ MoreIterations(Top(th))
  <2>1. Leave(th) /\ IF Top(th).pushed THEN PopQueue ELSE UNCHANGED queueStack
    BY <1>4 DEF EndBlock
  <2> QED BY <1>1, <2>1, BlockLeft
<1> QED BY <1>3, <1>4

\* Every step keeps the blocks in order.
LEMMA BlockStep ==
    ASSUME LawfulBlocks, BlockInv, CallsFormed, [Next]_vars
    PROVE  BlockInv'
<1>1. ASSUME NEW K, Step(K), BlockKinds \cap K = {}, UNCHANGED dispatchVars
      PROVE  BlockInv'
  <2>1. "block" \notin K /\ "once" \notin K
    BY <1>1 DEF BlockKinds
  <2>2. ASSUME NEW k, k \notin K
        PROVE  /\ \A u \in Threads : \A i :
                      i \in 1 .. Len(calls[u]) /\ calls[u][i].kind = k <=>
                          i \in 1 .. Len(calls'[u]) /\ calls'[u][i].kind = k
               /\ \A u \in Threads : \A i \in 1 .. Len(calls[u]) :
                      calls[u][i].kind = k => calls'[u][i] = calls[u][i]
    BY <1>1, <2>2, Foreign
  <2>3. \A u \in Threads : BlockPlaces(u)' = BlockPlaces(u)
    BY <2>1, <2>2 DEF BlockPlaces
  <2>4. \A u \in Threads : \A i \in BlockPlaces(u) : calls'[u][i] = calls[u][i]
    BY <2>1, <2>2 DEF BlockPlaces
  <2> QED BY <1>1, <2>3, <2>4, QuietBlocks DEF dispatchVars
<1>2. ASSUME NEW th \in Threads, DispatchCalls(th) PROVE BlockInv'
  <2>1. CASE SemaphoreWait(th) \/ SemaphoreSignal(th)
    <3>1. UNCHANGED <<calls, queueStack>>
      BY <2>1 DEF SemaphoreWait, SemaphoreSignal
    <3>2. \A u \in Threads : BlockPlaces(u)' = BlockPlaces(u)
      BY <3>1 DEF BlockPlaces
    <3> QED BY <3>1, <3>2, QuietBlocks
  <2> QED BY <1>2, <2>1, EnterOnce, EnterBlock DEF DispatchCalls
<1>3. CASE Step(LoopKinds) /\ OnLoop
  BY <1>1, <1>3 DEF OnLoop, LoopKinds, BlockKinds
<1>4. CASE Step(CenterKinds) /\ OnCenter
  BY <1>1, <1>4 DEF OnCenter, CenterKinds, BlockKinds
<1>5. ASSUME OnOperations, NEW th \in Threads,
             OperationCalls(th) \/ EndStart(th) \/ EndMain(th) \/ EndCompletion(th)
      PROVE  BlockInv'
  <2>1. Step(OpKinds)
    BY <1>5, OpMoves DEF Step
  <2> QED BY <1>1, <1>5, <2>1 DEF OnOperations, OpKinds, BlockKinds
<1>6. ASSUME NEW th \in Threads, EndBlock(th) \/ EndOnce(th) PROVE BlockInv'
  BY <1>6, LeaveBlock, LeaveOnce
<1>7. ASSUME OnClasses, NEW th \in Threads,
             MessageCalls(th) \/ BeginLoads(th) \/ MessageHost(th) \/ EndSend(th)
      PROVE  BlockInv'
  <2>1. Step(ClassKinds)
    BY <1>7, ClassMoves DEF Step
  <2> QED BY <1>1, <1>7, <2>1 DEF OnClasses, ClassKinds, BlockKinds
<1>8. ASSUME OnLocks, NEW th \in Threads,
             BlockCalls(th) \/ PropertyCalls(th) \/ SynchronizedHost(th) \/ SynchronizedReturns(th)
      PROVE  BlockInv'
  <2>1. Step(LockKinds)
    BY <1>8, LockMoves DEF Step
  <2> QED BY <1>1, <1>8, <2>1 DEF OnLocks, LockKinds, BlockKinds
<1>9. CASE UNCHANGED vars
  <2>1. Step({}) /\ UNCHANGED dispatchVars
    BY <1>9 DEF vars, Step
  <2> QED BY <1>1, <2>1
<1> QED BY <1>2, <1>3, <1>4, <1>5, <1>6, <1>7, <1>8, <1>9, Steps

\* They are at first.
LEMMA BlockInit == ASSUME Init PROVE BlockInv
<1>1. queueStack = <<>>
  BY DEF Init, DispatchInit
<1>2. \A th \in Threads : Len(calls[th]) = 0
  BY DEF Init
<1>3. \A th \in Threads : BlockPlaces(th) = {} /\ Pushed(th) = {}
  BY <1>2 DEF BlockPlaces, Pushed
<1>4. \A th \in Threads : Matches(th, [k \in 1 .. Len(queueStack) |-> 0])
  BY <1>1, <1>3 DEF Matches
<1> QED BY <1>1, <1>3, <1>4 DEF BlockInv

\* The block of a token has been called once if the token is recorded.
OnceInv == onceRuns = [token \in Tokens |-> IF token \in onceTokens THEN 1 ELSE 0]

\* Every step keeps it so.
LEMMA OnceStep == ASSUME OnceInv, CallsFormed, [Next]_vars PROVE OnceInv'
<1>1. CASE UNCHANGED <<onceTokens, onceRuns>>
  BY <1>1 DEF OnceInv
<1>2. ASSUME NEW th \in Threads, NEW token \in Tokens, DispatchOnce(th, token)
      PROVE  OnceInv'
  <2>1. CASE token \in onceTokens
    BY <1>1, <1>2, <2>1 DEF DispatchOnce
  <2>2. CASE token \notin onceTokens
    <3>1. onceTokens' = onceTokens \cup {token} /\ onceRuns' = [onceRuns EXCEPT ![token] = @ + 1]
      BY <1>2, <2>2 DEF DispatchOnce
    <3> QED BY <2>2, <3>1 DEF OnceInv
  <2> QED BY <2>1, <2>2
<1>3. ASSUME NEW th \in Threads, DispatchCalls(th) PROVE OnceInv'
  BY <1>1, <1>2, <1>3 DEF DispatchCalls, DispatchBlock, DispatchDirect, DispatchApply,
     SemaphoreWait, SemaphoreSignal, dispatchVars
<1>4. ASSUME NEW th \in Threads, EndBlock(th) \/ EndOnce(th) PROVE OnceInv'
  BY <1>1, <1>4 DEF EndBlock, EndOnce, dispatchVars
<1>5. CASE UNCHANGED dispatchVars
  BY <1>1, <1>5 DEF dispatchVars
<1> QED BY <1>3, <1>4, <1>5, Steps
        DEF OnLoop, OnCenter, OnOperations, OnClasses, OnLocks, vars

\* dispatch_once calls the block of a token once, of every program.
THEOREM OncesRunOnce == Spec => []OnceOnly
<1>1. Init => OnceInv
  BY DEF Init, DispatchInit, OnceInv
<1>2. OnceInv /\ CallsFormed /\ [Next]_vars => OnceInv'
  BY OnceStep
<1>3. OnceInv => OnceOnly
  BY DEF OnceInv, OnceOnly
<1> QED BY <1>1, <1>2, <1>3, CallsFormedAlways, PTL DEF Spec

\* Blocks find their own queue, of programs that run blocks in one thread at a
\* time and whose direct blocks are of their caller's queue, and the block of
\* dispatch_once is called once.
THEOREM BlocksServed == ASSUME LawfulBlocks PROVE Spec => []BlocksAreServed
<1>1. Init => BlockInv
  BY BlockInit
<1>2. BlockInv /\ CallsFormed /\ [Next]_vars => BlockInv'
  BY BlockStep
<1>3. BlockInv /\ CallsFormed => CurrentQueueFound
  BY BlockFinds
<1>4. CurrentQueueFound /\ OnceOnly <=> BlocksAreServed
  BY DEF BlocksAreServed
<1> QED BY <1>1, <1>2, <1>3, <1>4, CallsFormedAlways, OncesRunOnce, PTL DEF Spec

-----------------------------------------------------------------------------
(***************************************************************************)
(* @synchronized blocks.  A mutex exists exactly as long as one of the two *)
(* tables has it, for one object; its owner is the thread inside the       *)
(* blocks of that object, and its lock count their number.                 *)
(***************************************************************************)

SyncTypes ==
    /\ syncMutexes \in [Objects -> Mutexes \cup {NoMutex}]
    /\ propLocks \in [Objects -> Mutexes \cup {NoMutex}]
    /\ owner \in [Mutexes -> Threads \cup {NoMutex, Nobody}]
    /\ lockCount \in [Mutexes -> Int]
    /\ inside \in [Threads -> [Objects -> Nat]]

\* A mutex exists exactly if one table has it, for one object.
Entries ==
    /\ \A m \in Mutexes :
           /\ owner[m] # NoMutex <=> \E o \in Objects : m \in {syncMutexes[o], propLocks[o]}
           /\ owner[m] = NoMutex => lockCount[m] = 0
    /\ \A o, p \in Objects : syncMutexes[o] # NoMutex =>
           /\ syncMutexes[o] # propLocks[p]
           /\ syncMutexes[o] = syncMutexes[p] => o = p

\* The mutex of an object is locked by the thread inside, as often as it is.
Counted(o) ==
    LET m == syncMutexes[o]
    IN IF m = NoMutex THEN \A th \in Threads : inside[th][o] = 0
       ELSE /\ \A th \in Threads : owner[m] = th <=> inside[th][o] > 0
            /\ \A th \in Threads : owner[m] = th => lockCount[m] = inside[th][o]
            /\ owner[m] \notin Threads => lockCount[m] = 0

\* A call waits for a mutex that the table still has.
LockSound(c) ==
    /\ c.kind = "sync" =>
           /\ c.stage = "sleep" /\ c.object \in Objects
           /\ c.mutex = syncMutexes[c.object] /\ c.mutex # NoMutex
    /\ c.kind \in {"set", "get"} =>
           c.mutex = NoMutex \/ \E o \in Objects : c.mutex = propLocks[o]

\* A thread that waits to enter a block makes no other call.
SleepersOnTop ==
    \A th \in Threads : \A i \in 1 .. Len(calls[th]) :
        calls[th][i].kind = "sync" => i = Len(calls[th])

\* No entry is left over.
EntryUsed(o) ==
    syncMutexes[o] # NoMutex =>
        \/ \E th \in Threads : inside[th][o] > 0
        \/ \E c \in AllCalls : c.kind = "sync" /\ c.object = o

SyncInv ==
    /\ SyncTypes
    /\ Entries
    /\ \A o \in Objects : Counted(o) /\ EntryUsed(o)
    /\ \A c \in AllCalls : LockSound(c)
    /\ SleepersOnTop

\* What the invariant says of the blocks.
LEMMA SyncImplies == ASSUME SyncInv PROVE SynchronizedExcludes
<1>1. ASSUME NEW o \in Objects PROVE Cardinality({th \in Threads : inside[th][o] > 0}) <= 1
  <2> DEFINE S == {th \in Threads : inside[th][o] > 0}
  <2>0. Counted(o) /\ SyncTypes
    BY DEF SyncInv
  <2>1. \A t \in S : \A u \in S : t = u
    BY <2>0 DEF Counted, SyncTypes
  <2>2. CASE S = {}
    BY <2>2, FS_EmptySet
  <2>3. CASE S # {}
    <3>1. PICK t : S = {t}
      BY <2>1, <2>3
    <3>2. Cardinality({t}) = 1
      BY FS_Singleton
    <3> HIDE DEF S
    <3>3. Cardinality(S) = 1
      BY <3>1, <3>2
    <3> QED BY <3>3 DEF S
  <2> QED BY <2>2, <2>3
<1>2. ASSUME NEW o \in Objects
      PROVE  /\ syncMutexes[o] # NoMutex <=>
                  \/ \E th \in Threads : inside[th][o] > 0
                  \/ \E c \in AllCalls : c.kind = "sync" /\ c.object = o
             /\ \A c \in AllCalls : c.kind = "sync" /\ c.object = o => c.mutex = syncMutexes[o]
  <2>1. Counted(o) /\ EntryUsed(o) /\ \A c \in AllCalls : LockSound(c)
    BY DEF SyncInv
  <2>2. syncMutexes[o] = NoMutex => ~ \E th \in Threads : inside[th][o] > 0
    BY <2>1 DEF Counted
  <2>3. \A c \in AllCalls : c.kind = "sync" /\ c.object = o =>
            c.mutex = syncMutexes[o] /\ c.mutex # NoMutex
    BY <2>1 DEF LockSound
  <2> QED BY <2>1, <2>2, <2>3 DEF EntryUsed
<1> QED BY <1>1, <1>2 DEF SynchronizedExcludes

\* There are mutexes for all entries of both tables, so that one is left.
LEMMA FreeMutex ==
    ASSUME SyncTypes, Entries, NEW o \in Objects, NoMutex \in {syncMutexes[o], propLocks[o]}
    PROVE  \E m \in Mutexes : owner[m] = NoMutex
<1> SUFFICES ASSUME \A m \in Mutexes : owner[m] # NoMutex PROVE FALSE
  OBVIOUS
<1> DEFINE A == {syncMutexes[p] : p \in Objects}
           B == {propLocks[p] : p \in Objects}
           n == Cardinality(Objects)
<1>0. IsFiniteSet(Objects) /\ n \in Nat /\ NoMutex \notin Mutexes
  BY SynchronizedAssumption, FS_CardinalityType
<1>1. IsFiniteSet(A) /\ Cardinality(A) <= n /\ Cardinality(A) \in Nat
  <2>1. syncMutexes \in Surjection(Objects, A)
    BY DEF SyncTypes, Surjection
  <2> HIDE DEF A
  <2> QED BY <1>0, <2>1, FS_Surjection, FS_CardinalityType
<1>2. IsFiniteSet(B) /\ Cardinality(B) <= n /\ Cardinality(B) \in Nat
  <2>1. propLocks \in Surjection(Objects, B)
    BY DEF SyncTypes, Surjection
  <2> HIDE DEF B
  <2> QED BY <1>0, <2>1, FS_Surjection, FS_CardinalityType
<1>3. \A m \in Mutexes : m \in A \cup B /\ m # NoMutex
  BY <1>0 DEF Entries
<1>4. NoMutex \in A \cup B
  OBVIOUS
<1> DEFINE C == A \cup B
<1> HIDE DEF A, B, n
<1>5. IsFiniteSet(C) /\ Cardinality(C) \in Nat /\ Cardinality(C) <= n + n
  <2>1. IsFiniteSet(C) /\ Cardinality(C) = Cardinality(A) + Cardinality(B) - Cardinality(A \cap B)
    BY <1>1, <1>2, FS_Union
  <2>2. Cardinality(A \cap B) \in Nat
    BY <1>1, FS_Intersection, FS_CardinalityType
  <2>3. Cardinality(C) \in Nat
    BY <2>1, FS_CardinalityType
  <2> HIDE DEF C
  <2> QED BY <1>0, <1>1, <1>2, <2>1, <2>2, <2>3
<1> DEFINE D == C \ {NoMutex}
<1>6. IsFiniteSet(D) /\ Cardinality(D) = Cardinality(C) - 1
  BY <1>4, <1>5, FS_RemoveElement
<1>7. Mutexes \subseteq D
  BY <1>3
<1> HIDE DEF C, D
<1>8. IsFiniteSet(Mutexes) /\ Cardinality(Mutexes) <= Cardinality(D)
  BY <1>6, <1>7, FS_Subset
<1>9. Cardinality(Mutexes) >= 2 * n /\ Cardinality(Mutexes) \in Nat
  BY <1>8, SynchronizedAssumption, FS_CardinalityType DEF n
<1> QED BY <1>0, <1>5, <1>6, <1>8, <1>9

\* What MutexOf finds is the entry, or a mutex that does not exist yet.
LEMMA MutexFound ==
    ASSUME SyncTypes, Entries, NEW o \in Objects, NEW table \in {syncMutexes, propLocks}
    PROVE  /\ MutexOf(table, o) \in Mutexes
           /\ \/ table[o] = MutexOf(table, o) /\ owner[MutexOf(table, o)] # NoMutex
              \/ table[o] = NoMutex /\ owner[MutexOf(table, o)] = NoMutex
<1>1. CASE table[o] = NoMutex
  <2>1. \E m \in Mutexes : owner[m] = NoMutex
    BY <1>1, FreeMutex
  <2>2. MutexOf(table, o) = CHOOSE m \in Mutexes : owner[m] = NoMutex
    BY <1>1 DEF MutexOf
  <2> QED BY <1>1, <2>1, <2>2
<1>2. CASE table[o] # NoMutex
  <2>1. MutexOf(table, o) = table[o] /\ table[o] \in Mutexes
    BY <1>2 DEF MutexOf, SyncTypes
  <2> QED BY <2>1 DEF Entries
<1> QED BY <1>1, <1>2

\* A step adds no call but the one that is entered or goes on.
LEMMA CallsNew ==
    ASSUME CallsFormed, CallsFormed', NEW th \in Threads, NEW d
    PROVE  /\ Enter(th, d) => \A c \in AllCalls' : c = d \/ c \in AllCalls
           /\ calls[th] # <<>> /\ Leave(th) => \A c \in AllCalls' : c \in AllCalls
           /\ calls[th] # <<>> /\ Continue(th, d) =>
                  \A c \in AllCalls' : c = d \/ c \in AllCalls
<1>1. PICK S : calls \in [Threads -> Seq(S)]
  BY DEF CallsFormed
<1>2. \A c : c \in AllCalls <=>
               \E u \in Threads : \E i \in 1 .. Len(calls[u]) : c = calls[u][i]
  BY InCalls
<1>3. \A c : c \in AllCalls' <=>
               \E u \in Threads : \E i \in 1 .. Len(calls'[u]) : c = calls'[u][i]
  BY InNextCalls
<1>4. ASSUME \A u \in Threads \ {th} : calls'[u] = calls[u],
             NEW n \in Nat, n <= Len(calls[th]), Len(calls'[th]) \in {n, n + 1},
             \A i \in 1 .. n : calls'[th][i] = calls[th][i],
             NEW c \in AllCalls'
      PROVE  c \in AllCalls \/ (Len(calls'[th]) = n + 1 /\ c = calls'[th][n + 1])
  <2>1. PICK u \in Threads : \E i \in 1 .. Len(calls'[u]) : c = calls'[u][i]
    BY <1>3
  <2>2. PICK i \in 1 .. Len(calls'[u]) : c = calls'[u][i]
    BY <2>1
  <2>3. CASE u # th
    BY <1>2, <1>4, <2>2, <2>3
  <2>4. CASE u = th /\ i \in 1 .. n
    <3>1. Len(calls[th]) \in Nat
      BY <1>1
    <3>2. i \in 1 .. Len(calls[th]) /\ c = calls[th][i]
      BY <1>4, <2>2, <2>4, <3>1
    <3> QED BY <1>2, <3>2
  <2>5. CASE u = th /\ i \notin 1 .. n
    <3>1. Len(calls'[th]) = n + 1 /\ i = n + 1
      BY <1>4, <2>2, <2>5
    <3> QED BY <2>2, <2>5, <3>1
  <2> QED BY <2>3, <2>4, <2>5
<1>5. ASSUME Enter(th, d), NEW c \in AllCalls' PROVE c = d \/ c \in AllCalls
  <2>1. /\ \A u \in Threads \ {th} : calls'[u] = calls[u]
        /\ Len(calls'[th]) = Len(calls[th]) + 1
        /\ \A i \in 1 .. Len(calls[th]) : calls'[th][i] = calls[th][i]
        /\ calls'[th][Len(calls[th]) + 1] = d
    BY <1>1, <1>5, Stacks
  <2>2. Len(calls[th]) \in Nat /\ Len(calls[th]) <= Len(calls[th])
    BY <1>1
  <2> QED BY <1>4, <2>1, <2>2
<1>6. ASSUME calls[th] # <<>> PROVE Len(calls[th]) - 1 \in Nat /\ Len(calls[th]) - 1 <= Len(calls[th])
                                    /\ Len(calls[th]) = (Len(calls[th]) - 1) + 1
  <2>1. Len(calls[th]) \in Nat \ {0}
    BY <1>1, <1>6, Stacks
  <2> QED BY <2>1
<1>7. ASSUME calls[th] # <<>>, Leave(th), NEW c \in AllCalls' PROVE c \in AllCalls
  <2> DEFINE n == Len(calls[th]) - 1
  <2>1. /\ \A u \in Threads \ {th} : calls'[u] = calls[u]
        /\ Len(calls'[th]) = n
        /\ \A i \in 1 .. n : calls'[th][i] = calls[th][i]
        /\ n \in Nat /\ n <= Len(calls[th])
    BY <1>1, <1>6, <1>7, Stacks
  <2> HIDE DEF n
  <2>2. Len(calls'[th]) # n + 1
    BY <2>1
  <2> QED BY <1>4, <2>1, <2>2
<1>8. ASSUME calls[th] # <<>>, Continue(th, d), NEW c \in AllCalls' PROVE c = d \/ c \in AllCalls
  <2> DEFINE n == Len(calls[th]) - 1
  <2>0. /\ \A u \in Threads \ {th} : calls'[u] = calls[u]
        /\ Len(calls'[th]) = Len(calls[th])
        /\ \A i \in 1 .. Len(calls[th]) - 1 : calls'[th][i] = calls[th][i]
        /\ calls'[th][Len(calls[th])] = d
    BY <1>1, <1>8, Stacks
  <2>1. /\ Len(calls'[th]) = n + 1
        /\ \A i \in 1 .. n : calls'[th][i] = calls[th][i]
        /\ n \in Nat /\ n <= Len(calls[th])
        /\ calls'[th][n + 1] = d
    BY <1>6, <1>8, <2>0
  <2> HIDE DEF n
  <2> QED BY <1>4, <2>0, <2>1
<1> QED BY <1>5, <1>7, <1>8

\* Whoever waits stays on top: a thread calls from guest code only.
LEMMA SleepersStay ==
    ASSUME CallsFormed, SyncInv, NEW th \in Threads, NEW K, Moves(th, K)
    PROVE  SleepersOnTop'
<1>1. PICK S : calls \in [Threads -> Seq(S)]
  BY DEF CallsFormed
<1>2. SleepersOnTop
  BY DEF SyncInv
<1>3. CASE UNCHANGED calls
  BY <1>2, <1>3 DEF SleepersOnTop
<1>4. ASSUME NEW n \in Nat,
             \A u \in Threads \ {th} : calls'[u] = calls[u],
             Len(calls'[th]) \in {n, n + 1} \/ (Len(calls'[th]) = n + 2 /\ calls'[th][n + 1].kind # "sync"),
             \A i \in 1 .. n : calls'[th][i] = calls[th][i] /\ calls[th][i].kind # "sync"
      PROVE  SleepersOnTop'
  <2>1. ASSUME NEW i \in 1 .. Len(calls'[th]), calls'[th][i].kind = "sync"
        PROVE  i = Len(calls'[th])
    BY <1>4, <2>1
  <2>2. \A u \in Threads \ {th} : \A i \in 1 .. Len(calls'[u]) :
            calls'[u][i].kind = "sync" => i = Len(calls'[u])
    BY <1>2, <1>4 DEF SleepersOnTop
  <2> QED BY <2>1, <2>2 DEF SleepersOnTop
<1>5. ASSUME calls[th] # <<>>
      PROVE  /\ Len(calls[th]) - 1 \in Nat /\ Len(calls[th]) = (Len(calls[th]) - 1) + 1
             /\ \A i \in 1 .. Len(calls[th]) - 1 : calls[th][i].kind # "sync"
  <2>1. Len(calls[th]) \in Nat \ {0}
    BY <1>1, <1>5, Stacks
  <2>2. \A i \in 1 .. Len(calls[th]) - 1 : i \in 1 .. Len(calls[th]) /\ i # Len(calls[th])
    BY <2>1
  <2> QED BY <1>2, <2>1, <2>2 DEF SleepersOnTop
<1>6. ASSUME InGuest(th), NEW c, Enter(th, c) PROVE SleepersOnTop'
  <2>1. /\ \A u \in Threads \ {th} : calls'[u] = calls[u]
        /\ Len(calls'[th]) = Len(calls[th]) + 1
        /\ \A i \in 1 .. Len(calls[th]) : calls'[th][i] = calls[th][i]
        /\ calls'[th][Len(calls[th]) + 1] = c
    BY <1>1, <1>6, Stacks
  <2>2. Len(calls[th]) \in Nat
    BY <1>1
  <2>3. ASSUME NEW i \in 1 .. Len(calls[th]), calls[th][i].kind = "sync" PROVE FALSE
    <3>1. calls[th] # <<>>
      BY <1>1, <2>3
    <3>2. Top(th) = calls[th][Len(calls[th])]
      BY <1>1, <3>1, Stacks
    <3>3. Top(th).kind = "sync"
      BY <1>2, <2>3, <3>2 DEF SleepersOnTop
    <3>4. Top(th) \in AllCalls
      <4>1. calls[th][i] = Top(th)
        BY <1>2, <2>3, <3>2 DEF SleepersOnTop
      <4> QED BY <4>1, InCalls
    <3>5. Top(th).stage = "sleep"
      BY <3>3, <3>4 DEF SyncInv, LockSound
    <3> QED BY <1>6, <3>1, <3>5 DEF InGuest, GuestStages
  <2> QED BY <1>4, <2>1, <2>2, <2>3
<1>7. ASSUME calls[th] # <<>>, Leave(th) PROVE SleepersOnTop'
  <2>1. /\ \A u \in Threads \ {th} : calls'[u] = calls[u]
        /\ Len(calls'[th]) = Len(calls[th]) - 1
        /\ \A i \in 1 .. Len(calls[th]) - 1 : calls'[th][i] = calls[th][i]
    BY <1>1, <1>7, Stacks
  <2> QED BY <1>4, <1>5, <1>7, <2>1
<1>8. ASSUME calls[th] # <<>>, NEW c, Continue(th, c) PROVE SleepersOnTop'
  <2>1. /\ \A u \in Threads \ {th} : calls'[u] = calls[u]
        /\ Len(calls'[th]) = Len(calls[th])
        /\ \A i \in 1 .. Len(calls[th]) - 1 : calls'[th][i] = calls[th][i]
    BY <1>1, <1>8, Stacks
  <2> QED BY <1>4, <1>5, <1>8, <2>1
<1>9. ASSUME calls[th] # <<>>, NEW c, NEW d, c.kind # "sync",
             calls' = [calls EXCEPT ![th] = Front(@) \o <<c, d>>]
      PROVE  SleepersOnTop'
  <2>1. /\ \A u \in Threads \ {th} : calls'[u] = calls[u]
        /\ Len(calls'[th]) = Len(calls[th]) + 1
        /\ \A i \in 1 .. Len(calls[th]) - 1 : calls'[th][i] = calls[th][i]
        /\ calls'[th][Len(calls[th])] = c
    BY <1>1, <1>9, StacksTwo
  <2> DEFINE n == Len(calls[th]) - 1
  <2>2. /\ n \in Nat /\ Len(calls[th]) = n + 1 /\ Len(calls[th]) + 1 = n + 2
        /\ \A i \in 1 .. n : calls[th][i].kind # "sync"
    BY <1>5, <1>9
  <2>3. /\ Len(calls'[th]) = n + 2 /\ calls'[th][n + 1].kind # "sync"
        /\ \A i \in 1 .. n : calls'[th][i] = calls[th][i] /\ calls[th][i].kind # "sync"
    BY <1>9, <2>1, <2>2
  <2> HIDE DEF n
  <2> QED BY <1>4, <2>1, <2>2, <2>3
<1> QED BY <1>3, <1>6, <1>7, <1>8, <1>9 DEF Moves, Replaces

\* Steps that leave the mutexes alone.
LEMMA SameMutexes ==
    ASSUME SyncInv, UNCHANGED <<mutexVars, inside>>, SleepersOnTop',
           \A c \in AllCalls' : c \in AllCalls \/ LockSound(c),
           \A c \in AllCalls : c.kind = "sync" => c \in AllCalls'
    PROVE  SyncInv'
<1>1. SyncTypes' /\ Entries'
  BY DEF SyncInv, SyncTypes, Entries, mutexVars
<1>2. \A o \in Objects : Counted(o)'
  BY DEF SyncInv, Counted, mutexVars
<1>3. \A o \in Objects : EntryUsed(o)'
  BY DEF SyncInv, EntryUsed, mutexVars
<1>4. \A c : LockSound(c) => LockSound(c)'
  BY DEF LockSound, mutexVars
<1>5. \A c \in AllCalls' : LockSound(c)'
  BY <1>4 DEF SyncInv
<1> QED BY <1>1, <1>2, <1>3, <1>5 DEF SyncInv

\* Steps of setters and getters that lock or unlock the mutex of a property.
LEMMA PropertyLock ==
    ASSUME SyncInv, UNCHANGED <<syncMutexes, inside>>, SleepersOnTop',
           NEW o \in Objects, NEW m \in Mutexes,
           propLocks[o] = m \/ (propLocks[o] = NoMutex /\ owner[m] = NoMutex),
           propLocks' = [propLocks EXCEPT ![o] = m],
           NEW w \in Threads \cup {Nobody}, owner' = [owner EXCEPT ![m] = w],
           NEW k \in Int, lockCount' = [lockCount EXCEPT ![m] = k],
           \A c \in AllCalls' : c \in AllCalls \/ (c.kind \in {"set", "get"} /\ c.mutex = m)
                                \/ LockSound(c),
           \A c \in AllCalls : c.kind = "sync" => c \in AllCalls'
    PROVE  SyncInv'
<1>0. SyncTypes /\ Entries
  BY DEF SyncInv
<1>a. m # NoMutex /\ w # NoMutex
  BY SynchronizedAssumption
<1>b. \A p \in Objects : syncMutexes[p] # m
  BY <1>0, <1>a DEF Entries, SyncTypes
<1>c. \A p \in Objects : p # o => propLocks'[p] = propLocks[p]
  BY <1>0 DEF SyncTypes
<1>d. propLocks'[o] = m /\ owner'[m] = w
  BY <1>0 DEF SyncTypes
<1>e. \A n \in Mutexes \ {m} : owner'[n] = owner[n] /\ lockCount'[n] = lockCount[n]
  BY <1>0 DEF SyncTypes
<1>1. SyncTypes'
  BY <1>0 DEF SyncTypes
<1>2. ASSUME NEW n \in Mutexes
      PROVE  /\ owner'[n] # NoMutex <=> \E p \in Objects : n \in {syncMutexes'[p], propLocks'[p]}
             /\ owner'[n] = NoMutex => lockCount'[n] = 0
  <2>1. CASE n = m
    BY <1>a, <1>d, <2>1
  <2>2. CASE n # m
    <3>1. \A p \in Objects : n \in {syncMutexes'[p], propLocks'[p]} <=>
                             n \in {syncMutexes[p], propLocks[p]}
      <4>1. ASSUME NEW p \in Objects
            PROVE  n = propLocks'[p] <=> n = propLocks[p]
        <5>1. CASE p = o
          BY <1>a, <1>d, <2>2, <5>1, SynchronizedAssumption
        <5>2. CASE p # o
          BY <1>c, <5>2
        <5> QED BY <5>1, <5>2
      <4> QED BY <4>1
    <3> QED BY <1>0, <1>e, <2>2, <3>1 DEF Entries
  <2> QED BY <2>1, <2>2
<1>3. \A q, p \in Objects : syncMutexes'[q] # NoMutex =>
           /\ syncMutexes'[q] # propLocks'[p]
           /\ syncMutexes'[q] = syncMutexes'[p] => q = p
  BY <1>0, <1>b, <1>c, <1>d DEF Entries
<1>4. Entries'
  BY <1>2, <1>3 DEF Entries
<1>5. ASSUME NEW p \in Objects PROVE Counted(p)'
  <2>1. Counted(p) /\ syncMutexes[p] \in Mutexes \cup {NoMutex} /\ syncMutexes[p] # m
    BY <1>b, <1>0 DEF SyncInv, SyncTypes
  <2>2. syncMutexes[p] # NoMutex =>
            /\ owner'[syncMutexes[p]] = owner[syncMutexes[p]]
            /\ lockCount'[syncMutexes[p]] = lockCount[syncMutexes[p]]
    BY <1>e, <2>1
  <2> QED BY <2>1, <2>2 DEF Counted
<1>6. \A p \in Objects : EntryUsed(p)'
  BY DEF SyncInv, EntryUsed
<1>7. ASSUME NEW c, LockSound(c) PROVE LockSound(c)'
  <2>1. \A p \in Objects : propLocks[p] = NoMutex \/ propLocks'[p] = propLocks[p]
    BY <1>0, <1>c, <1>d
  <2> QED BY <1>7, <2>1 DEF LockSound
<1>8. ASSUME NEW c, c.kind \in {"set", "get"}, c.mutex = m PROVE LockSound(c)'
  BY <1>8, <1>d DEF LockSound
<1>9. \A c \in AllCalls' : LockSound(c)'
  BY <1>7, <1>8 DEF SyncInv
<1> QED BY <1>1, <1>4, <1>5, <1>6, <1>9 DEF SyncInv

\* A thread that enters a block, at once or when it has waited.
LEMMA Entered ==
    ASSUME SyncInv, UNCHANGED propLocks, SleepersOnTop',
           NEW th \in Threads, NEW o \in Objects, NEW m \in Mutexes,
           syncMutexes[o] = m \/ (syncMutexes[o] = NoMutex /\ owner[m] = NoMutex),
           CanLock(th, m), LockMutex(th, m), Enters(th, o),
           syncMutexes' = [syncMutexes EXCEPT ![o] = m],
           \A c \in AllCalls' : c \in AllCalls,
           \A c \in AllCalls : c.kind = "sync" => c \in AllCalls' \/ c.object = o
    PROVE  SyncInv'
<1>0. SyncTypes /\ Entries
  BY DEF SyncInv
<1>a. m # NoMutex /\ th \notin {NoMutex, Nobody}
  BY SynchronizedAssumption
<1>b. \A p \in Objects : p # o => syncMutexes[p] # m
  BY <1>0, <1>a DEF Entries, SyncTypes
<1>c. \A p \in Objects : propLocks[p] # m
  BY <1>0, <1>a DEF Entries, SyncTypes
<1>d. /\ syncMutexes'[o] = m /\ owner'[m] = th /\ lockCount'[m] = lockCount[m] + 1
      /\ \A p \in Objects : p # o => syncMutexes'[p] = syncMutexes[p]
      /\ \A n \in Mutexes \ {m} : owner'[n] = owner[n] /\ lockCount'[n] = lockCount[n]
  BY <1>0 DEF SyncTypes, LockMutex
<1>e. /\ inside'[th][o] = inside[th][o] + 1 /\ inside[th][o] \in Nat
      /\ \A u \in Threads : u # th => inside'[u][o] = inside[u][o]
      /\ \A u \in Threads : \A p \in Objects : p # o => inside'[u][p] = inside[u][p]
  BY <1>0 DEF SyncTypes, Enters
<1>1. SyncTypes'
  <2>1. inside' \in [Threads -> [Objects -> Nat]]
    BY <1>0 DEF SyncTypes, Enters
  <2>2. owner' \in [Mutexes -> Threads \cup {NoMutex, Nobody}] /\ lockCount' \in [Mutexes -> Int]
    BY <1>0 DEF SyncTypes, LockMutex
  <2>3. syncMutexes' \in [Objects -> Mutexes \cup {NoMutex}]
    BY <1>0 DEF SyncTypes
  <2> QED BY <1>0, <2>1, <2>2, <2>3 DEF SyncTypes
<1>2. ASSUME NEW n \in Mutexes
      PROVE  /\ owner'[n] # NoMutex <=> \E p \in Objects : n \in {syncMutexes'[p], propLocks'[p]}
             /\ owner'[n] = NoMutex => lockCount'[n] = 0
  <2>1. CASE n = m
    BY <1>a, <1>d, <2>1
  <2>2. CASE n # m
    <3>1. ASSUME NEW p \in Objects
          PROVE  n = syncMutexes'[p] <=> n = syncMutexes[p]
      <4>1. CASE p = o
        BY <1>d, <2>2, <4>1, SynchronizedAssumption
      <4>2. CASE p # o
        BY <1>d, <4>2
      <4> QED BY <4>1, <4>2
    <3> QED BY <1>0, <1>d, <2>2, <3>1 DEF Entries
  <2> QED BY <2>1, <2>2
<1>3. \A q, p \in Objects : syncMutexes'[q] # NoMutex =>
           /\ syncMutexes'[q] # propLocks'[p]
           /\ syncMutexes'[q] = syncMutexes'[p] => q = p
  BY <1>0, <1>b, <1>c, <1>d DEF Entries
<1>4. Entries'
  BY <1>2, <1>3 DEF Entries
<1>5. ASSUME NEW p \in Objects PROVE Counted(p)'
  <2>1. CASE p # o
    <3>1. Counted(p) /\ syncMutexes[p] \in Mutexes \cup {NoMutex} /\ syncMutexes[p] # m
      BY <1>b, <1>0, <2>1 DEF SyncInv, SyncTypes
    <3>2. /\ syncMutexes'[p] = syncMutexes[p]
          /\ \A u \in Threads : inside'[u][p] = inside[u][p]
          /\ syncMutexes[p] # NoMutex =>
                /\ owner'[syncMutexes[p]] = owner[syncMutexes[p]]
                /\ lockCount'[syncMutexes[p]] = lockCount[syncMutexes[p]]
      BY <1>d, <1>e, <2>1, <3>1
    <3> QED BY <3>1, <3>2 DEF Counted
  <2>2. CASE p = o
    <3>0. Counted(o) /\ \A u \in Threads : inside[u][o] \in Nat
      BY <1>0 DEF SyncInv, SyncTypes
    <3>1. owner[m] \in {NoMutex, Nobody, th}
      BY DEF CanLock
    <3>2. \A u \in Threads : u # th => inside[u][o] = 0
      BY <1>a, <3>0, <3>1, SynchronizedAssumption DEF Counted
    <3>3. lockCount[m] = inside[th][o]
      <4>1. CASE syncMutexes[o] = m
        BY <1>a, <3>0, <3>1, <4>1, SynchronizedAssumption DEF Counted
      <4>2. CASE syncMutexes[o] = NoMutex /\ owner[m] = NoMutex
        BY <1>0, <3>0, <4>2 DEF Counted, Entries
      <4> QED BY <4>1, <4>2
    <3>4. /\ \A u \in Threads : owner'[m] = u <=> inside'[u][o] > 0
          /\ \A u \in Threads : owner'[m] = u => lockCount'[m] = inside'[u][o]
      BY <1>d, <1>e, <3>0, <3>2, <3>3
    <3> QED BY <1>a, <1>d, <2>2, <3>4 DEF Counted
  <2> QED BY <2>1, <2>2
<1>6. ASSUME NEW p \in Objects PROVE EntryUsed(p)'
  <2>1. CASE p = o
    BY <1>e, <2>1 DEF EntryUsed
  <2>2. CASE p # o
    BY <1>d, <1>e, <2>2 DEF SyncInv, EntryUsed
  <2> QED BY <2>1, <2>2
<1>7. ASSUME NEW c, LockSound(c) PROVE LockSound(c)'
  <2>1. \A p \in Objects : syncMutexes[p] = NoMutex \/ syncMutexes'[p] = syncMutexes[p]
    BY <1>0, <1>d
  <2> QED BY <1>7, <2>1 DEF LockSound
<1>8. \A c \in AllCalls' : LockSound(c)'
  BY <1>7 DEF SyncInv
<1> QED BY <1>1, <1>4, <1>5, <1>6, <1>8 DEF SyncInv

\* A thread waits for the mutex of o exactly if it is about to enter a block.
LEMMA WaitsFor ==
    ASSUME CallsFormed, SyncInv, NEW o \in Objects, syncMutexes[o] # NoMutex
    PROVE  Waiting(syncMutexes[o]) <=>
               \E c \in AllCalls : c.kind = "sync" /\ c.object = o
<1>0. SyncTypes /\ Entries /\ SleepersOnTop /\ \A c \in AllCalls : LockSound(c)
  BY DEF SyncInv
<1>1. PICK S : calls \in [Threads -> Seq(S)]
  BY DEF CallsFormed
<1>2. \A c : c \in AllCalls <=>
               \E u \in Threads : \E i \in 1 .. Len(calls[u]) : c = calls[u][i]
  BY InCalls
<1>3. \A th \in Threads : calls[th] # <<>> =>
          /\ Len(calls[th]) \in 1 .. Len(calls[th])
          /\ Top(th) = calls[th][Len(calls[th])]
  <2>1. \A th \in Threads : calls[th] # <<>> =>
          /\ Len(calls[th]) \in Nat \ {0}
          /\ Top(th) = calls[th][Len(calls[th])]
    BY <1>1, Stacks
  <2>2. \A n \in Nat \ {0} : n \in 1 .. n
    OBVIOUS
  <2> QED BY <2>1, <2>2
<1>4. ASSUME Waiting(syncMutexes[o]) PROVE \E c \in AllCalls : c.kind = "sync" /\ c.object = o
  <2>1. PICK th \in Threads : /\ calls[th] # <<>>
                              /\ Top(th).kind \in {"sync", "set", "get"}
                              /\ Top(th).mutex = syncMutexes[o]
    BY <1>4 DEF Waiting
  <2>2. Top(th) \in AllCalls
    BY <1>2, <1>3, <2>1
  <2>3. Top(th).kind = "sync"
    BY <1>0, <2>1, <2>2 DEF LockSound, Entries
  <2>4. Top(th).object = o
    BY <1>0, <2>1, <2>2, <2>3 DEF LockSound, Entries
  <2> QED BY <2>2, <2>3, <2>4
<1>5. ASSUME NEW c \in AllCalls, c.kind = "sync", c.object = o PROVE Waiting(syncMutexes[o])
  <2>1. PICK th \in Threads : \E i \in 1 .. Len(calls[th]) : c = calls[th][i]
    BY <1>2, <1>5
  <2>2. PICK i \in 1 .. Len(calls[th]) : c = calls[th][i]
    BY <2>1
  <2>3. i = Len(calls[th])
    BY <1>0, <1>5, <2>2 DEF SleepersOnTop
  <2>4. calls[th] # <<>>
    BY <1>1, <2>2
  <2>5. Top(th) = c
    BY <1>3, <2>2, <2>3, <2>4
  <2>6. c.stage = "sleep" /\ c.mutex = syncMutexes[o]
    BY <1>0, <1>5 DEF LockSound
  <2> QED BY <1>5, <2>4, <2>5, <2>6 DEF Waiting
<1> QED BY <1>4, <1>5

\* The entry goes with the last block, unless somebody waits for its mutex.
LEMMA SyncExit ==
    ASSUME CallsFormed, SyncInv, NEW th \in Threads, NEW o \in Objects, ObjcSyncExit(th, o),
           SleepersOnTop'
    PROVE  SyncInv'
<1> DEFINE m == syncMutexes[o]
<1>0. SyncTypes /\ Entries
  BY DEF SyncInv
<1>1. m \in Mutexes /\ m # NoMutex /\ owner[m] = th /\ th \notin {NoMutex, Nobody}
  BY <1>0, SynchronizedAssumption DEF ObjcSyncExit, SyncTypes
<1>2. /\ UNCHANGED propLocks /\ AllCalls' = AllCalls
      /\ inside' = [inside EXCEPT ![th][o] = @ - 1]
  BY DEF ObjcSyncExit, AllCalls
<1>3. /\ \A u \in Threads : owner[m] = u <=> inside[u][o] > 0
      /\ lockCount[m] = inside[th][o] /\ inside[th][o] > 0
      /\ \A u \in Threads : inside[u][o] \in Nat
  BY <1>0, <1>1 DEF SyncInv, Counted, SyncTypes
<1>4. /\ inside'[th][o] = lockCount[m] - 1 /\ lockCount[m] - 1 \in Nat
      /\ \A u \in Threads : u # th => inside'[u][o] = 0
      /\ \A u \in Threads : \A p \in Objects : p # o => inside'[u][p] = inside[u][p]
      /\ inside' \in [Threads -> [Objects -> Nat]]
  <2>1. inside[th][o] - 1 \in Nat
    BY <1>3
  <2>2. inside' \in [Threads -> [Objects -> Nat]]
    BY <1>0, <1>2, <2>1 DEF SyncTypes
  <2>3. \A u \in Threads : u # th => inside[u][o] = 0
    BY <1>1, <1>3
  <2> QED BY <1>0, <1>2, <1>3, <2>1, <2>2, <2>3 DEF SyncTypes
<1>5. Waiting(m) <=> \E c \in AllCalls : c.kind = "sync" /\ c.object = o
  BY <1>1, WaitsFor
<1>6. /\ \A p \in Objects : p # o => syncMutexes[p] # m
      /\ \A p \in Objects : propLocks[p] # m
  BY <1>0, <1>1 DEF Entries
<1>7. ASSUME NEW w, NEW k \in Int, owner' = [owner EXCEPT ![m] = w],
             lockCount' = [lockCount EXCEPT ![m] = k],
             k = inside'[th][o],
             \/ /\ syncMutexes' = [syncMutexes EXCEPT ![o] = NoMutex]
                /\ ~ Waiting(m) /\ w = NoMutex /\ k = 0
             \/ UNCHANGED syncMutexes /\ Waiting(m) /\ w = Nobody /\ k = 0
             \/ UNCHANGED syncMutexes /\ w = th /\ k > 0
      PROVE  SyncInv'
  <2> HIDE DEF m
  <2>1. /\ owner'[m] = w /\ lockCount'[m] = k
        /\ \A n \in Mutexes \ {m} : owner'[n] = owner[n] /\ lockCount'[n] = lockCount[n]
        /\ \A p \in Objects : p # o => syncMutexes'[p] = syncMutexes[p]
        /\ syncMutexes'[o] = IF w = NoMutex THEN NoMutex ELSE m
    BY <1>0, <1>1, <1>7, SynchronizedAssumption DEF SyncTypes, m
  <2>2. SyncTypes'
    <3>1. syncMutexes' \in [Objects -> Mutexes \cup {NoMutex}]
      BY <1>0, <1>7 DEF SyncTypes
    <3>2. owner' \in [Mutexes -> Threads \cup {NoMutex, Nobody}] /\ lockCount' \in [Mutexes -> Int]
      BY <1>0, <1>7 DEF SyncTypes
    <3> QED BY <1>0, <1>2, <1>4, <3>1, <3>2 DEF SyncTypes
  <2>3. ASSUME NEW n \in Mutexes
        PROVE  /\ owner'[n] # NoMutex <=> \E p \in Objects : n \in {syncMutexes'[p], propLocks'[p]}
               /\ owner'[n] = NoMutex => lockCount'[n] = 0
    <3>1. CASE n = m
      <4>1. \A p \in Objects : n \in {syncMutexes'[p], propLocks'[p]} <=> (p = o /\ w # NoMutex)
        BY <1>1, <1>2, <1>6, <2>1, <3>1
      <4>2. w = NoMutex => k = 0
        BY <1>1, <1>7
      <4> QED BY <2>1, <3>1, <4>1, <4>2
    <3>2. CASE n # m
      <4>1. ASSUME NEW p \in Objects PROVE n = syncMutexes'[p] <=> n = syncMutexes[p]
        <5>1. CASE p = o
          BY <2>1, <3>2, <5>1, SynchronizedAssumption DEF m
        <5>2. CASE p # o
          BY <2>1, <5>2
        <5> QED BY <5>1, <5>2
      <4> QED BY <1>0, <1>2, <2>1, <3>2, <4>1 DEF Entries
    <3> QED BY <3>1, <3>2
  <2>4. \A q, p \in Objects : syncMutexes'[q] # NoMutex =>
             /\ syncMutexes'[q] # propLocks'[p]
             /\ syncMutexes'[q] = syncMutexes'[p] => q = p
    <3>1. \A q \in Objects : syncMutexes'[q] = syncMutexes[q] \/ syncMutexes'[q] = NoMutex
      BY <2>1 DEF m
    <3> QED BY <1>0, <1>2, <3>1 DEF Entries
  <2>5. Entries'
    BY <2>3, <2>4 DEF Entries
  <2>6. ASSUME NEW p \in Objects PROVE Counted(p)'
    <3>1. CASE p # o
      <4>1. Counted(p) /\ syncMutexes[p] \in Mutexes \cup {NoMutex} /\ syncMutexes[p] # m
        BY <1>6, <1>0, <3>1 DEF SyncInv, SyncTypes
      <4>2. /\ syncMutexes'[p] = syncMutexes[p]
            /\ \A u \in Threads : inside'[u][p] = inside[u][p]
            /\ syncMutexes[p] # NoMutex =>
                  /\ owner'[syncMutexes[p]] = owner[syncMutexes[p]]
                  /\ lockCount'[syncMutexes[p]] = lockCount[syncMutexes[p]]
        BY <1>4, <2>1, <3>1, <4>1
      <4> QED BY <4>1, <4>2 DEF Counted
    <3>2. CASE p = o /\ w = NoMutex
      <4>1. \A u \in Threads : inside'[u][o] = 0
        BY <1>4, <1>7, <1>1, <3>2
      <4> QED BY <2>1, <3>2, <4>1 DEF Counted
    <3>3. CASE p = o /\ w = Nobody
      <4>1. \A u \in Threads : inside'[u][o] = 0 /\ w # u
        BY <1>4, <1>7, <1>1, <3>3, SynchronizedAssumption
      <4>2. syncMutexes'[o] = m /\ w # NoMutex /\ k = 0
        BY <1>1, <1>7, <2>1, <3>3, SynchronizedAssumption
      <4> QED BY <1>1, <2>1, <3>3, <4>1, <4>2 DEF Counted
    <3>4. CASE p = o /\ w = th
      <4>1. syncMutexes'[o] = m /\ k > 0
        BY <1>1, <1>7, <2>1, <3>4, SynchronizedAssumption
      <4>2. /\ \A u \in Threads : owner'[m] = u <=> inside'[u][o] > 0
            /\ \A u \in Threads : owner'[m] = u => lockCount'[m] = inside'[u][o]
        BY <1>4, <1>7, <2>1, <3>4, <4>1
      <4> QED BY <1>1, <2>1, <3>4, <4>1, <4>2 DEF Counted
    <3> QED BY <1>7, <3>1, <3>2, <3>3, <3>4
  <2>7. ASSUME NEW p \in Objects PROVE EntryUsed(p)'
    <3>1. CASE p = o
      <4>1. CASE w = NoMutex
        BY <2>1, <3>1, <4>1 DEF EntryUsed
      <4>2. CASE Waiting(m)
        BY <1>2, <1>5, <3>1, <4>2 DEF EntryUsed, m
      <4>3. CASE k > 0
        BY <1>7, <3>1, <4>3 DEF EntryUsed
      <4> QED BY <1>7, <4>1, <4>2, <4>3
    <3>2. CASE p # o
      BY <1>2, <1>4, <2>1, <3>2 DEF SyncInv, EntryUsed
    <3> QED BY <3>1, <3>2
  <2>8. ASSUME NEW c \in AllCalls' PROVE LockSound(c)'
    <3>1. c \in AllCalls /\ LockSound(c)
      BY <1>2 DEF SyncInv
    <3>2. CASE UNCHANGED syncMutexes
      BY <1>2, <3>1, <3>2 DEF LockSound
    <3>3. CASE ~ Waiting(m)
      <4>1. c.kind = "sync" => c.object # o
        BY <1>5, <3>1, <3>3 DEF m
      <4> QED BY <1>2, <2>1, <3>1, <4>1 DEF LockSound
    <3> QED BY <1>7, <3>2, <3>3
  <2> QED BY <2>2, <2>5, <2>6, <2>7, <2>8 DEF SyncInv
<1>8. CASE lockCount[m] = 1
  <2>1. /\ DropMutex(o)
        /\ owner' = [owner EXCEPT ![m] = IF Waiting(m) THEN Nobody ELSE NoMutex]
        /\ lockCount' = [lockCount EXCEPT ![m] = 0]
    BY <1>8 DEF ObjcSyncExit
  <2>2. inside'[th][o] = 0
    BY <1>4, <1>8
  <2>3. CASE Waiting(m)
    <3>1. UNCHANGED syncMutexes /\ owner' = [owner EXCEPT ![m] = Nobody]
      BY <2>1, <2>3 DEF DropMutex
    <3>2. PICK w : w = Nobody
      OBVIOUS
    <3>3. PICK k : k = 0
      OBVIOUS
    <3> HIDE DEF m
    <3>4. owner' = [owner EXCEPT ![m] = w]
      BY <3>1, <3>2
    <3>5. lockCount' = [lockCount EXCEPT ![m] = k]
      BY <2>1, <3>3
    <3>6. k = inside'[th][o] /\ k \in Int
      BY <2>2, <3>3
    <3> QED BY <1>7, <2>3, <3>1, <3>2, <3>3, <3>4, <3>5, <3>6
  <2>4. CASE ~ Waiting(m)
    <3>1. /\ syncMutexes' = [syncMutexes EXCEPT ![o] = NoMutex]
          /\ owner' = [owner EXCEPT ![m] = NoMutex]
      BY <2>1, <2>4 DEF DropMutex
    <3>2. PICK w : w = NoMutex
      OBVIOUS
    <3>3. PICK k : k = 0
      OBVIOUS
    <3> HIDE DEF m
    <3>4. owner' = [owner EXCEPT ![m] = w]
      BY <3>1, <3>2
    <3>5. lockCount' = [lockCount EXCEPT ![m] = k]
      BY <2>1, <3>3
    <3>6. k = inside'[th][o] /\ k \in Int
      BY <2>2, <3>3
    <3> QED BY <1>7, <2>4, <3>1, <3>2, <3>3, <3>4, <3>5, <3>6
  <2> QED BY <2>3, <2>4
<1>9. CASE lockCount[m] # 1
  <2>1. UnlockMutex(m) /\ UNCHANGED syncMutexes
    BY <1>9 DEF ObjcSyncExit
  <2> DEFINE k == lockCount[m] - 1
  <2>2. owner' = [owner EXCEPT ![m] = th] /\ lockCount' = [lockCount EXCEPT ![m] = k]
    BY <1>0, <1>1, <1>9, <2>1 DEF UnlockMutex, SyncTypes
  <2>3. k \in Int /\ k > 0 /\ k = inside'[th][o]
    BY <1>3, <1>4, <1>9
  <2> HIDE DEF k
  <2> QED BY <1>7, <2>1, <2>2, <2>3
<1> QED BY <1>8, <1>9

\* Blocks are entered and left.
LEMMA SyncBlocks ==
    ASSUME CallsFormed, CallsFormed', SyncInv, SleepersOnTop', NEW th \in Threads,
           BlockCalls(th) \/ SyncEntered(th)
    PROVE  SyncInv'
<1>0. SyncTypes /\ Entries /\ \A c \in AllCalls : LockSound(c)
  BY DEF SyncInv
<1>1. ASSUME NEW o \in Objects, ObjcSyncEnter(th, o) PROVE SyncInv'
  <2> DEFINE m == MutexOf(syncMutexes, o)
  <2>1. /\ m \in Mutexes
        /\ \/ syncMutexes[o] = m /\ owner[m] # NoMutex
           \/ syncMutexes[o] = NoMutex /\ owner[m] = NoMutex
    BY <1>0, MutexFound
  <2>2. CASE CanLock(th, m)
    <3>1. /\ LockMutex(th, m) /\ Enters(th, o) /\ UNCHANGED <<calls, propLocks>>
          /\ syncMutexes' = [syncMutexes EXCEPT ![o] = m]
      BY <1>1, <2>2 DEF ObjcSyncEnter
    <3>2. AllCalls' = AllCalls
      BY <3>1 DEF AllCalls
    <3> HIDE DEF m
    <3> QED BY <2>1, <2>2, <3>1, <3>2, Entered
  <2>3. CASE ~ CanLock(th, m)
    <3> DEFINE d == EnterCall(o, m)
    <3>1. Enter(th, d) /\ UNCHANGED <<mutexVars, inside>>
      BY <1>1, <2>3 DEF ObjcSyncEnter, mutexVars
    <3>2. LockSound(d)
      <4>1. syncMutexes[o] = m /\ m # NoMutex
        BY <2>1, <2>3, SynchronizedAssumption DEF CanLock
      <4> HIDE DEF m
      <4> QED BY <4>1 DEF LockSound, EnterCall
    <3> HIDE DEF d, m
    <3>3. \A c \in AllCalls' : c = d \/ c \in AllCalls
      BY <3>1, CallsNew
    <3>4. \A c \in AllCalls : c \in AllCalls'
      BY <3>1, CallsStay
    <3> QED BY <3>1, <3>2, <3>3, <3>4, SameMutexes
  <2> QED BY <2>2, <2>3
<1>2. ASSUME NEW o \in Objects, ObjcSyncExit(th, o) PROVE SyncInv'
  BY <1>2, SyncExit
<1>3. CASE SyncEntered(th)
  <2> DEFINE m == Top(th).mutex
             o == Top(th).object
  <2>1. /\ calls[th] # <<>> /\ Top(th).kind = "sync" /\ Leave(th) /\ CanLock(th, m)
        /\ LockMutex(th, m) /\ Enters(th, o) /\ UNCHANGED <<syncMutexes, propLocks>>
    BY <1>3 DEF SyncEntered, At
  <2>2. Top(th) \in AllCalls
    BY <2>1, CallsStay
  <2>3. o \in Objects /\ m = syncMutexes[o] /\ m # NoMutex
    BY <1>0, <2>1, <2>2 DEF LockSound
  <2>4. m \in Mutexes /\ syncMutexes' = [syncMutexes EXCEPT ![o] = m]
    BY <1>0, <2>1, <2>3 DEF SyncTypes
  <2>5. \A c \in AllCalls' : c \in AllCalls
    BY <2>1, CallsNew
  <2>6. \A c \in AllCalls : c.object = o \/ c \in AllCalls'
    BY <2>1, CallsStay
  <2> HIDE DEF m, o
  <2> QED BY <2>1, <2>3, <2>4, <2>5, <2>6, Entered
<1> QED BY <1>1, <1>2, <1>3 DEF BlockCalls

\* Setters and getters begin.
LEMMA PropertyBegins ==
    ASSUME CallsFormed, CallsFormed', SyncInv, SleepersOnTop', NEW th \in Threads,
           NEW o \in Objects, GetProperty(th, o) \/ \E v, copy, atomic : SetProperty(th, o, v, copy, atomic)
    PROVE  SyncInv'
<1> DEFINE m == MutexOf(propLocks, o)
<1>0. SyncTypes /\ Entries
  BY DEF SyncInv
<1>1. /\ m \in Mutexes
      /\ \/ propLocks[o] = m /\ owner[m] # NoMutex
         \/ propLocks[o] = NoMutex /\ owner[m] = NoMutex
  BY <1>0, MutexFound
<1>2. ~ CanLock(th, m) => /\ owner[m] \in Threads
                          /\ owner = [owner EXCEPT ![m] = owner[m]]
  BY <1>0, <1>1 DEF CanLock, SyncTypes
<1>3. lockCount[m] \in Int /\ lockCount[m] + 1 \in Int /\ lockCount = [lockCount EXCEPT ![m] = lockCount[m]]
  BY <1>0, <1>1 DEF SyncTypes
<1> HIDE DEF m
<1>4. ASSUME NEW d, Enter(th, d) \/ UNCHANGED calls, d.kind \in {"set", "get"}, d.mutex = m,
             UNCHANGED <<syncMutexes, inside>>, propLocks' = [propLocks EXCEPT ![o] = m],
             NEW w \in Threads \cup {Nobody}, owner' = [owner EXCEPT ![m] = w],
             NEW k \in Int, lockCount' = [lockCount EXCEPT ![m] = k]
      PROVE  SyncInv'
  <2>1. \A c \in AllCalls' : c \in AllCalls \/ (c.kind \in {"set", "get"} /\ c.mutex = m)
    <3>1. CASE Enter(th, d)
      BY <1>4, <3>1, CallsNew
    <3>2. CASE UNCHANGED calls
      BY <3>2 DEF AllCalls
    <3> QED BY <1>4, <3>1, <3>2
  <2>2. \A c \in AllCalls : c \in AllCalls'
    BY <1>4, CallsStay
  <2> QED BY <1>1, <1>4, <2>1, <2>2, PropertyLock
<1>5. CASE GetProperty(th, o)
  <2> DEFINE d == GetCall(m)
  <2>0. /\ d.kind \in {"set", "get"} /\ d.mutex = m
        /\ UNCHANGED <<syncMutexes, inside>> /\ propLocks' = [propLocks EXCEPT ![o] = m]
        /\ lockCount' = [lockCount EXCEPT ![m] = lockCount[m]]
    BY <1>3, <1>5 DEF GetProperty, GetCall, m
  <2>1. CASE CanLock(th, m)
    <3> DEFINE w == IF owner[m] = th THEN th ELSE Nobody
    <3>1. UNCHANGED calls /\ owner' = [owner EXCEPT ![m] = w] /\ w \in Threads \cup {Nobody}
      BY <1>5, <2>1 DEF GetProperty, m
    <3> HIDE DEF d, w
    <3> QED BY <1>3, <1>4, <2>0, <3>1
  <2>2. CASE ~ CanLock(th, m)
    <3>1. Enter(th, d) /\ owner' = [owner EXCEPT ![m] = owner[m]]
      BY <1>2, <1>5, <2>2 DEF GetProperty, m
    <3> HIDE DEF d
    <3> QED BY <1>2, <1>3, <1>4, <2>0, <2>2, <3>1
  <2> QED BY <2>1, <2>2
<1>6. ASSUME NEW v, NEW copy, NEW atomic, SetProperty(th, o, v, copy, atomic) PROVE SyncInv'
  <2>1. CASE atomic /\ CanLock(th, m)
    <3> DEFINE d == SetCall(o, v, copy, m, "read")
    <3>1. /\ d.kind \in {"set", "get"} /\ d.mutex = m /\ Enter(th, d)
          /\ UNCHANGED <<syncMutexes, inside>> /\ propLocks' = [propLocks EXCEPT ![o] = m]
          /\ owner' = [owner EXCEPT ![m] = th]
          /\ lockCount' = [lockCount EXCEPT ![m] = lockCount[m] + 1]
      BY <1>6, <2>1 DEF SetProperty, SetCall, LockMutex, m
    <3> HIDE DEF d
    <3> QED BY <1>3, <1>4, <3>1
  <2>2. CASE atomic /\ ~ CanLock(th, m)
    <3> DEFINE d == SetCall(o, v, copy, m, "sleep")
    <3>1. /\ d.kind \in {"set", "get"} /\ d.mutex = m /\ Enter(th, d)
          /\ UNCHANGED <<syncMutexes, inside>> /\ propLocks' = [propLocks EXCEPT ![o] = m]
          /\ owner' = [owner EXCEPT ![m] = owner[m]]
          /\ lockCount' = [lockCount EXCEPT ![m] = lockCount[m]]
      BY <1>2, <1>3, <1>6, <2>2 DEF SetProperty, SetCall, m
    <3> HIDE DEF d
    <3> QED BY <1>2, <1>3, <1>4, <2>2, <3>1
  <2>3. CASE ~ atomic
    <3> DEFINE d == SetCall(o, v, copy, NoMutex, "read")
    <3>1. LockSound(d) /\ Enter(th, d) /\ UNCHANGED <<mutexVars, inside>>
      BY <1>6, <2>3 DEF SetProperty, SetCall, LockSound, mutexVars
    <3> HIDE DEF d
    <3>2. \A c \in AllCalls' : c = d \/ c \in AllCalls
      BY <3>1, CallsNew
    <3>3. \A c \in AllCalls : c \in AllCalls'
      BY <3>1, CallsStay
    <3> QED BY <3>1, <3>2, <3>3, SameMutexes
  <2> QED BY <2>1, <2>2, <2>3
<1> QED BY <1>5, <1>6

\* They go on, and end.
LEMMA PropertyGoesOn ==
    ASSUME CallsFormed, CallsFormed', SyncInv, SleepersOnTop', NEW th \in Threads,
           \/ SetterLocked(th) \/ GetterLocked(th) \/ ReadOld(th) \/ Store(th) \/ EndSet(th)
           \/ SynchronizedReturns(th) \/ \E v : NewValue(th, v) \/ ReleaseValue(th, v)
    PROVE  SyncInv'
<1>0. SyncTypes /\ Entries /\ \A c \in AllCalls : LockSound(c)
  BY DEF SyncInv
<1>1. ASSUME NEW stage, At(th, "set", stage)
      PROVE  /\ calls[th] # <<>> /\ Top(th) \in AllCalls /\ Top(th).kind = "set"
             /\ {"kind", "stage", "object", "value", "copy", "mutex", "old"} \subseteq DOMAIN Top(th)
             /\ Top(th).mutex = NoMutex \/ \E o \in Objects : Top(th).mutex = propLocks[o]
  <2>1. calls[th] # <<>> /\ Top(th).kind = "set"
    BY <1>1 DEF At
  <2>2. Top(th) \in AllCalls
    BY <2>1, CallsStay
  <2>3. Formed(Top(th))
    BY <2>1, TopFormed
  <2> QED BY <1>0, <2>1, <2>2, <2>3 DEF LockSound, Formed
<1>2. ASSUME NEW d, d.kind = "set", d.mutex = Top(th).mutex, Continue(th, d),
             calls[th] # <<>>, Top(th).kind = "set", Top(th) \in AllCalls
      PROVE  /\ \A c \in AllCalls' : c \in AllCalls \/ LockSound(c)
             /\ \A c \in AllCalls : c.kind = "sync" => c \in AllCalls'
  <2>1. LockSound(d)
    BY <1>0, <1>2 DEF LockSound
  <2> QED BY <1>2, <2>1, CallsNew, CallsStay
<1>3. ASSUME calls[th] # <<>>, Top(th).kind # "sync", Leave(th)
      PROVE  /\ \A c \in AllCalls' : c \in AllCalls
             /\ \A c \in AllCalls : c.kind = "sync" => c \in AllCalls'
  BY <1>3, CallsNew, CallsStay
<1>4. ASSUME NEW m, m = NoMutex \/ \E o \in Objects : m = propLocks[o],
             NEW w \in Threads \cup {Nobody}, owner' = [owner EXCEPT ![m] = w],
             NEW k \in Int, lockCount' = [lockCount EXCEPT ![m] = k],
             UNCHANGED <<syncMutexes, propLocks, inside>>,
             \A c \in AllCalls' : c \in AllCalls \/ LockSound(c),
             \A c \in AllCalls : c.kind = "sync" => c \in AllCalls'
      PROVE  SyncInv'
  <2>1. CASE m = NoMutex
    <3>1. m \notin Mutexes
      BY <2>1, SynchronizedAssumption
    <3>2. UNCHANGED <<owner, lockCount>>
      BY <1>0, <1>4, <3>1 DEF SyncTypes
    <3> QED BY <1>4, <3>2, SameMutexes DEF mutexVars
  <2>2. CASE m # NoMutex
    <3>1. PICK o \in Objects : propLocks[o] = m
      BY <1>4, <2>2
    <3>2. m \in Mutexes /\ propLocks' = [propLocks EXCEPT ![o] = m]
      BY <1>0, <1>4, <2>2, <3>1 DEF SyncTypes
    <3> QED BY <1>4, <3>1, <3>2, PropertyLock
  <2> QED BY <2>1, <2>2
<1>5. CASE SetterLocked(th)
  <2> DEFINE d == [Top(th) EXCEPT !.stage = "read"]
             m == Top(th).mutex
  <2>1. Continue(th, d) /\ LockMutex(th, m) /\ UNCHANGED <<syncMutexes, propLocks, inside>>
    BY <1>5 DEF SetterLocked
  <2>2. /\ calls[th] # <<>> /\ Top(th) \in AllCalls /\ Top(th).kind = "set"
        /\ d.kind = "set" /\ d.mutex = Top(th).mutex
        /\ m = NoMutex \/ \E o \in Objects : m = propLocks[o]
    BY <1>1, <1>5 DEF SetterLocked
  <2> HIDE DEF m
  <2>3. /\ owner' = [owner EXCEPT ![m] = th]
        /\ \E k \in Int : lockCount' = [lockCount EXCEPT ![m] = k]
    <3>1. CASE m \in Mutexes
      <4>1. lockCount[m] + 1 \in Int
        BY <1>0, <3>1 DEF SyncTypes
      <4> QED BY <2>1, <4>1 DEF LockMutex
    <3>2. CASE m \notin Mutexes
      <4>1. \A k : [lockCount EXCEPT ![m] = k] = lockCount
        BY <1>0, <3>2 DEF SyncTypes
      <4>2. PICK k \in Int : TRUE
        OBVIOUS
      <4>3. lockCount' = [lockCount EXCEPT ![m] = k]
        BY <2>1, <4>1 DEF LockMutex
      <4>4. owner' = [owner EXCEPT ![m] = th]
        BY <2>1 DEF LockMutex
      <4> QED BY <4>2, <4>3, <4>4
    <3> QED BY <3>1, <3>2
  <2>4. /\ \A c \in AllCalls' : c \in AllCalls \/ LockSound(c)
        /\ \A c \in AllCalls : c.kind = "sync" => c \in AllCalls'
    BY <1>2, <2>1, <2>2
  <2> QED BY <1>4, <2>1, <2>2, <2>3, <2>4
<1>6. CASE EndSet(th)
  <2> DEFINE m == Top(th).mutex
  <2>1. /\ Leave(th) /\ UNCHANGED <<syncMutexes, propLocks, inside>>
        /\ IF m = NoMutex THEN UNCHANGED <<owner, lockCount>> ELSE UnlockMutex(m)
    BY <1>6 DEF EndSet
  <2>2. /\ calls[th] # <<>> /\ Top(th).kind # "sync"
        /\ m = NoMutex \/ \E o \in Objects : m = propLocks[o]
    BY <1>1, <1>6 DEF EndSet
  <2>3. /\ \A c \in AllCalls' : c \in AllCalls
        /\ \A c \in AllCalls : c.kind = "sync" => c \in AllCalls'
    BY <1>3, <2>1, <2>2
  <2> HIDE DEF m
  <2>4. CASE m = NoMutex
    BY <2>1, <2>3, <2>4, SameMutexes DEF mutexVars
  <2>5. CASE m # NoMutex
    <3>1. m \in Mutexes /\ owner[m] \in Threads \cup {Nobody}
      BY <1>0, <2>2, <2>5 DEF SyncTypes, Entries
    <3> DEFINE w == IF lockCount[m] = 1 THEN Nobody ELSE owner[m]
               k == lockCount[m] - 1
    <3>2. /\ owner' = [owner EXCEPT ![m] = w] /\ w \in Threads \cup {Nobody}
          /\ lockCount' = [lockCount EXCEPT ![m] = k] /\ k \in Int
      BY <1>0, <2>1, <2>5, <3>1 DEF UnlockMutex, SyncTypes
    <3> HIDE DEF w, k
    <3> QED BY <1>4, <2>1, <2>2, <2>3, <3>2
  <2> QED BY <2>4, <2>5
<1>7. ASSUME UNCHANGED <<mutexVars, inside>>,
             \/ UNCHANGED calls
             \/ /\ calls[th] # <<>> /\ Top(th).kind = "set" /\ Top(th) \in AllCalls
                /\ \E d : d.kind = "set" /\ d.mutex = Top(th).mutex /\ Continue(th, d)
             \/ calls[th] # <<>> /\ Top(th).kind # "sync" /\ Leave(th)
      PROVE  SyncInv'
  <2>1. /\ \A c \in AllCalls' : c \in AllCalls \/ LockSound(c)
        /\ \A c \in AllCalls : c.kind = "sync" => c \in AllCalls'
    <3>1. CASE UNCHANGED calls
      BY <3>1 DEF AllCalls
    <3> QED BY <1>2, <1>3, <1>7, <3>1
  <2> QED BY <1>7, <2>1, SameMutexes
<1>8. CASE GetterLocked(th)
  BY <1>7, <1>8 DEF GetterLocked, At, syncVars
<1>9. CASE \E v : NewValue(th, v) \/ ReleaseValue(th, v)
  BY <1>7, <1>9 DEF NewValue, ReleaseValue
<1>10. CASE ReadOld(th)
  <2>1. /\ UNCHANGED <<mutexVars, inside>>
        /\ \E w, s : Continue(th, [[Top(th) EXCEPT !.old = w] EXCEPT !.stage = s])
    BY <1>10 DEF ReadOld
  <2>2. PICK w, s : Continue(th, [[Top(th) EXCEPT !.old = w] EXCEPT !.stage = s])
    BY <2>1
  <2>3. At(th, "set", "read")
    BY <1>10 DEF ReadOld
  <2> DEFINE d == [[Top(th) EXCEPT !.old = w] EXCEPT !.stage = s]
  <2>4. d.kind = "set" /\ d.mutex = Top(th).mutex
    BY <1>1, <2>3
  <2> HIDE DEF d
  <2> QED BY <1>1, <1>7, <2>1, <2>2, <2>3, <2>4 DEF d
<1>11. ASSUME NEW stage, At(th, "set", stage), NEW s, Continue(th, [Top(th) EXCEPT !.stage = s]),
              UNCHANGED <<mutexVars, inside>>
       PROVE  SyncInv'
  <2> DEFINE d == [Top(th) EXCEPT !.stage = s]
  <2>1. d.kind = "set" /\ d.mutex = Top(th).mutex /\ Continue(th, d)
    BY <1>1, <1>11
  <2> HIDE DEF d
  <2> QED BY <1>1, <1>7, <1>11, <2>1
<1>12. CASE Store(th)
  BY <1>11, <1>12 DEF Store
<1>13. CASE EndDealloc(th)
  BY <1>11, <1>13 DEF EndDealloc, syncVars
<1>14. ASSUME NEW v, EndCopy(th, v) PROVE SyncInv'
  <2> DEFINE d == [Top(th) EXCEPT !.stage = "store", !.value = v]
  <2>1. Continue(th, d) /\ UNCHANGED <<mutexVars, inside>> /\ At(th, "set", "copy")
    BY <1>14 DEF EndCopy
  <2>2. d.kind = "set" /\ d.mutex = Top(th).mutex
    BY <1>1, <2>1
  <2> HIDE DEF d
  <2> QED BY <1>1, <1>7, <2>1, <2>2
<1> QED BY <1>5, <1>6, <1>8, <1>9, <1>10, <1>12, <1>13, <1>14 DEF SynchronizedReturns

\* Every step keeps the tables of mutexes in order.
LEMMA SyncStep ==
    ASSUME SyncInv, CallsFormed, CallsFormed', [Next]_vars
    PROVE  SyncInv'
<1>1. ASSUME NEW K, Step(K), K \cap LockKinds = {}, UNCHANGED syncVars PROVE SyncInv'
  <2>1. SleepersOnTop'
    <3>1. CASE UNCHANGED calls
      BY <3>1 DEF SyncInv, SleepersOnTop
    <3> QED BY <1>1, <3>1, SleepersStay DEF Step
  <2>2. "sync" \notin K /\ "set" \notin K /\ "get" \notin K
    BY <1>1 DEF LockKinds
  <2>3. \A c : c.kind \in LockKinds => (c \in AllCalls <=> c \in AllCalls')
    <3>1. \A c : c.kind = "sync" => (c \in AllCalls <=> c \in AllCalls')
      BY <1>1, <2>2, ForeignCalls
    <3>2. \A c : c.kind = "set" => (c \in AllCalls <=> c \in AllCalls')
      BY <1>1, <2>2, ForeignCalls
    <3>3. \A c : c.kind = "get" => (c \in AllCalls <=> c \in AllCalls')
      BY <1>1, <2>2, ForeignCalls
    <3> QED BY <3>1, <3>2, <3>3 DEF LockKinds
  <2>4. \A c : c.kind \notin LockKinds => LockSound(c)
    BY DEF LockSound, LockKinds
  <2>5. /\ \A c \in AllCalls' : c \in AllCalls \/ LockSound(c)
        /\ \A c \in AllCalls : c.kind = "sync" => c \in AllCalls'
    BY <2>3, <2>4 DEF LockKinds
  <2> QED BY <1>1, <2>1, <2>5, SameMutexes DEF syncVars
<1>2. ASSUME NEW th \in Threads,
             \/ BlockCalls(th) \/ PropertyCalls(th)
             \/ SynchronizedHost(th) \/ SynchronizedReturns(th)
      PROVE  SyncInv'
  <2>1. SleepersOnTop'
    BY <1>2, LockMoves, SleepersStay
  <2>2. CASE BlockCalls(th) \/ SyncEntered(th)
    BY <2>1, <2>2, SyncBlocks
  <2>3. CASE PropertyCalls(th)
    <3>1. ASSUME NEW o \in Objects, GetProperty(th, o) \/ \E v, copy, atomic : SetProperty(th, o, v, copy, atomic)
          PROVE SyncInv'
      BY <2>1, <3>1, PropertyBegins
    <3>2. ASSUME \E v : NewValue(th, v) \/ ReleaseValue(th, v) PROVE SyncInv'
      BY <2>1, <3>2, PropertyGoesOn
    <3> QED BY <2>3, <3>1, <3>2 DEF PropertyCalls
  <2>4. CASE SynchronizedHost(th) /\ ~ SyncEntered(th)
    BY <2>1, <2>4, PropertyGoesOn DEF SynchronizedHost
  <2>5. CASE SynchronizedReturns(th)
    BY <2>1, <2>5, PropertyGoesOn
  <2> QED BY <1>2, <2>2, <2>3, <2>4, <2>5
<1>3. CASE Step(LoopKinds) /\ OnLoop
  BY <1>1, <1>3 DEF OnLoop, LoopKinds, LockKinds
<1>4. CASE Step(CenterKinds) /\ OnCenter
  BY <1>1, <1>4 DEF OnCenter, CenterKinds, LockKinds
<1>5. ASSUME OnOperations, NEW th \in Threads,
             OperationCalls(th) \/ EndStart(th) \/ EndMain(th) \/ EndCompletion(th)
      PROVE  SyncInv'
  <2>1. Step(OpKinds)
    BY <1>5, OpMoves DEF Step
  <2> QED BY <1>1, <1>5, <2>1 DEF OnOperations, OpKinds, LockKinds
<1>6. ASSUME OnDispatch, NEW th \in Threads, DispatchCalls(th) \/ EndBlock(th) \/ EndOnce(th)
      PROVE  SyncInv'
  <2>1. Step(BlockKinds)
    BY <1>6, BlockMoves DEF Step
  <2> QED BY <1>1, <1>6, <2>1 DEF OnDispatch, BlockKinds, LockKinds
<1>7. ASSUME OnClasses, NEW th \in Threads,
             MessageCalls(th) \/ BeginLoads(th) \/ MessageHost(th) \/ EndSend(th)
      PROVE  SyncInv'
  <2>1. Step(ClassKinds)
    BY <1>7, ClassMoves DEF Step
  <2> QED BY <1>1, <1>7, <2>1 DEF OnClasses, ClassKinds, LockKinds
<1>8. CASE UNCHANGED vars
  <2>1. Step({})
    BY <1>8 DEF vars, Step
  <2> QED BY <1>1, <1>8, <2>1 DEF vars
<1> QED BY <1>2, <1>3, <1>4, <1>5, <1>6, <1>7, <1>8, Steps

\* No mutex exists at first.
LEMMA SyncInit == ASSUME Init PROVE SyncInv
<1>1. calls = [th \in Threads |-> <<>>] /\ SynchronizedInit
  BY DEF Init
<1>2. AllCalls = {}
  BY <1>1, CallsFormedInit, InCalls
<1>3. SleepersOnTop
  BY <1>1 DEF SleepersOnTop
<1>4. SyncTypes /\ Entries
  BY <1>1, SynchronizedAssumption DEF SynchronizedInit, SyncTypes, Entries
<1>5. \A o \in Objects : Counted(o) /\ EntryUsed(o)
  BY <1>1 DEF SynchronizedInit, Counted, EntryUsed
<1> QED BY <1>2, <1>3, <1>4, <1>5 DEF SyncInv

\* For all objects, threads and programs, one thread at most is inside the
\* @synchronized blocks of an object, and the entry of its mutex stays exactly as
\* long as somebody is inside or waits.
THEOREM BlocksExclude == Spec => []SynchronizedExcludes
<1>1. Init => SyncInv
  BY SyncInit
<1>2. SyncInv /\ CallsFormed /\ CallsFormed' /\ [Next]_vars => SyncInv'
  BY SyncStep
<1>3. SyncInv => SynchronizedExcludes
  BY SyncImplies
<1> QED BY <1>1, <1>2, <1>3, CallsFormedAlways, PTL DEF Spec

-----------------------------------------------------------------------------
(***************************************************************************)
(* Run loops and timers.  The references to a timer are those of the       *)
(* guest, of the loops it is in, of the passes that have it in their       *)
(* batch, and two of the run that is calling it; a step changes them for   *)
(* one loop and one place in the stacks.                                   *)
(***************************************************************************)

\* Who holds references to a timer, by TimerRefsExact.
InLoops(t) == {l \in Threads : t \in timers[l]}
InBatches(t) == {p \in Places : t \in calls[p[1]][p[2]].batch}

One(P) == IF P THEN 1 ELSE 0

FiniteHolders(t) ==
    IsFiniteSet(InLoops(t)) /\ IsFiniteSet(InBatches(t)) /\ IsFiniteSet(Handling(t))

Exact(t) ==
    /\ FiniteHolders(t)
    /\ refs[t] = One(t \in owned) + Cardinality(InLoops(t))
                 + Cardinality(InBatches(t)) + 2 * Cardinality(Handling(t))

\* The timer's flag says whether a run is handling it; one at most is.
Handled(t) ==
    \/ ~inCallback[t] /\ Handling(t) = {}
    \/ inCallback[t] /\ \E p : Handling(t) = {p}

TimerTypes ==
    /\ timers \in [Threads -> SUBSET Timers]
    /\ refs \in [Timers -> Nat]
    /\ owned \subseteq Timers
    /\ due \in [Timers -> {"none", "later", "now"}]
    /\ inCallback \in [Timers -> BOOLEAN]
    /\ runLoop \in [Timers -> Threads \cup {NoLoop}]

\* A run has a timer during its callback only, and none left when it sleeps.
RunSound(c) ==
    /\ c.batch \subseteq Timers
    /\ c.stage \in {"timers", "callback", "sleep"}
    /\ IF c.stage = "callback" THEN c.timer \in Timers ELSE c.timer = NoTimer
    /\ c.stage = "sleep" => c.batch = {}

LoopCallsSound ==
    /\ \A th \in Threads : \A i \in 1 .. Len(calls[th]) :
           calls[th][i].kind = "run" => i <= MaxCalls /\ RunSound(calls[th][i])
    /\ \A c \in AllCalls : c.kind = "fire" => c.timer \in Timers

TimerInv ==
    /\ TimerTypes
    /\ LoopCallsSound
    /\ \A t \in Timers : Handled(t)
    /\ host = "up" => \A t \in Timers : Exact(t)

\* Sets that differ in one element at most.
LEMMA ButOne ==
    ASSUME NEW A, NEW B, NEW x, A \ {x} = B \ {x}, IsFiniteSet(A)
    PROVE  /\ IsFiniteSet(B) /\ Cardinality(A) \in Nat /\ Cardinality(B) \in Nat
           /\ Cardinality(B) - One(x \in B) = Cardinality(A) - One(x \in A)
<1> DEFINE C == A \ {x}
<1>1. /\ IsFiniteSet(C) /\ Cardinality(C) \in Nat /\ Cardinality(A) \in Nat
      /\ Cardinality(C) = IF x \in A THEN Cardinality(A) - 1 ELSE Cardinality(A)
  BY FS_RemoveElement, FS_CardinalityType
<1>2. C = B \ {x} /\ x \notin C
  OBVIOUS
<1>3. Cardinality(C) = Cardinality(A) - One(x \in A)
  BY <1>1 DEF One
<1> HIDE DEF C
<1>4. CASE x \in B
  <2>1. B = C \cup {x}
    BY <1>2, <1>4
  <2>2. IsFiniteSet(B) /\ Cardinality(B) = Cardinality(C) + 1
    BY <1>1, <1>2, <2>1, FS_AddElement
  <2>3. Cardinality(B) - One(x \in B) = Cardinality(C) /\ Cardinality(B) \in Nat
    BY <1>1, <1>4, <2>2 DEF One
  <2> QED BY <1>1, <1>3, <2>2, <2>3
<1>5. CASE x \notin B
  <2>1. B = C
    BY <1>2, <1>5
  <2>2. Cardinality(B) - One(x \in B) = Cardinality(C)
    BY <1>1, <1>5, <2>1 DEF One
  <2> QED BY <1>1, <1>3, <2>1, <2>2
<1> QED BY <1>4, <1>5

\* What a step takes a timer to or from is the run loop l, the place p and the
\* guest at most, and the references follow.
Balanced(t, l, p) ==
    /\ InLoops(t)' \ {l} = InLoops(t) \ {l}
    /\ InBatches(t)' \ {p} = InBatches(t) \ {p}
    /\ Handling(t)' \ {p} = Handling(t) \ {p}
    /\ refs'[t] - One(t \in owned') - One(l \in InLoops(t)')
               - One(p \in InBatches(t)') - 2 * One(p \in Handling(t)')
       = refs[t] - One(t \in owned) - One(l \in InLoops(t))
                 - One(p \in InBatches(t)) - 2 * One(p \in Handling(t))

\* They stay exact then.
LEMMA Balance ==
    ASSUME NEW t \in Timers, Exact(t), NEW l, NEW p,
           refs[t] \in Nat, refs'[t] \in Nat, Balanced(t, l, p)
    PROVE  Exact(t)'
<1> USE DEF Balanced
<1> DEFINE a == Cardinality(InLoops(t))
           b == Cardinality(InBatches(t))
           h == Cardinality(Handling(t))
           x == Cardinality(InLoops(t)')
           y == Cardinality(InBatches(t)')
           z == Cardinality(Handling(t)')
<1>1. /\ IsFiniteSet(InLoops(t)') /\ a \in Nat /\ x \in Nat
      /\ x - One(l \in InLoops(t)') = a - One(l \in InLoops(t))
  BY ButOne DEF Exact, FiniteHolders
<1>2. /\ IsFiniteSet(InBatches(t)') /\ b \in Nat /\ y \in Nat
      /\ y - One(p \in InBatches(t)') = b - One(p \in InBatches(t))
  BY ButOne DEF Exact, FiniteHolders
<1>3. /\ IsFiniteSet(Handling(t)') /\ h \in Nat /\ z \in Nat
      /\ z - One(p \in Handling(t)') = h - One(p \in Handling(t))
  BY ButOne DEF Exact, FiniteHolders
<1>4. refs[t] = One(t \in owned) + a + b + 2 * h
  BY DEF Exact
<1>5. FiniteHolders(t)'
  BY <1>1, <1>2, <1>3 DEF FiniteHolders
<1>6. \A P : One(P) \in Nat
  BY DEF One
<1> DEFINE o1 == One(t \in owned)
           o2 == One(t \in owned')
           l1 == One(l \in InLoops(t))
           l2 == One(l \in InLoops(t)')
           b1 == One(p \in InBatches(t))
           b2 == One(p \in InBatches(t)')
           h1 == One(p \in Handling(t))
           h2 == One(p \in Handling(t)')
<1>7. /\ o1 \in Nat /\ o2 \in Nat /\ l1 \in Nat /\ l2 \in Nat
      /\ b1 \in Nat /\ b2 \in Nat /\ h1 \in Nat /\ h2 \in Nat
  BY <1>6
<1>8. /\ x - l2 = a - l1 /\ y - b2 = b - b1 /\ z - h2 = h - h1
      /\ refs[t] = o1 + a + b + 2 * h
      /\ refs'[t] - o2 - l2 - b2 - 2 * h2 = refs[t] - o1 - l1 - b1 - 2 * h1
      /\ a \in Nat /\ b \in Nat /\ h \in Nat /\ x \in Nat /\ y \in Nat /\ z \in Nat
  BY <1>1, <1>2, <1>3, <1>4
<1> HIDE DEF a, b, h, x, y, z, o1, o2, l1, l2, b1, b2, h1, h2
<1>9. refs'[t] = o2 + x + y + 2 * z
  BY <1>7, <1>8
<1> QED BY <1>5, <1>9 DEF Exact, x, y, z, o2

\* A step changes the calls at one place only.
Elsewhere(th, n) ==
    \A u \in Threads : \A i \in Nat :
        u # th \/ i # n =>
            /\ i \in 1 .. Len(calls'[u]) <=> i \in 1 .. Len(calls[u])
            /\ i \in 1 .. Len(calls[u]) => calls'[u][i] = calls[u][i]

\* That is the top of the thread's stack.
LEMMA TopElsewhere ==
    ASSUME CallsFormed, NEW th \in Threads, NEW c
    PROVE  /\ Enter(th, c) =>
                  /\ Elsewhere(th, Len(calls[th]) + 1)
                  /\ Len(calls[th]) + 1 \in 1 .. Len(calls'[th])
                  /\ calls'[th][Len(calls[th]) + 1] = c
           /\ calls[th] # <<>> /\ Continue(th, c) =>
                  /\ Elsewhere(th, Len(calls[th]))
                  /\ Len(calls[th]) \in 1 .. Len(calls'[th])
                  /\ calls'[th][Len(calls[th])] = c
           /\ calls[th] # <<>> /\ Leave(th) =>
                  /\ Elsewhere(th, Len(calls[th]))
                  /\ Len(calls[th]) \notin 1 .. Len(calls'[th])
<1>1. PICK S : calls \in [Threads -> Seq(S)]
  BY DEF CallsFormed
<1>2. Len(calls[th]) \in Nat
  BY <1>1
<1>3. ASSUME Enter(th, c)
      PROVE  /\ Elsewhere(th, Len(calls[th]) + 1)
             /\ Len(calls[th]) + 1 \in 1 .. Len(calls'[th])
             /\ calls'[th][Len(calls[th]) + 1] = c
  <2>1. /\ \A u \in Threads \ {th} : calls'[u] = calls[u]
        /\ Len(calls'[th]) = Len(calls[th]) + 1
        /\ \A i \in 1 .. Len(calls[th]) : calls'[th][i] = calls[th][i]
        /\ calls'[th][Len(calls[th]) + 1] = c
    BY <1>1, <1>3, Stacks
  <2>2. \A i \in Nat : i # Len(calls[th]) + 1 =>
            (i \in 1 .. Len(calls'[th]) <=> i \in 1 .. Len(calls[th]))
    BY <1>2, <2>1
  <2>3. Len(calls[th]) + 1 \in 1 .. Len(calls'[th])
    BY <1>2, <2>1
  <2> QED BY <2>1, <2>2, <2>3 DEF Elsewhere
<1>4. ASSUME calls[th] # <<>>, Continue(th, c)
      PROVE  /\ Elsewhere(th, Len(calls[th]))
             /\ Len(calls[th]) \in 1 .. Len(calls'[th])
             /\ calls'[th][Len(calls[th])] = c
  <2>1. /\ \A u \in Threads \ {th} : calls'[u] = calls[u]
        /\ Len(calls'[th]) = Len(calls[th])
        /\ \A i \in 1 .. Len(calls[th]) - 1 : calls'[th][i] = calls[th][i]
        /\ calls'[th][Len(calls[th])] = c
        /\ Len(calls[th]) \in Nat \ {0}
    BY <1>1, <1>4, Stacks
  <2>2. \A i \in 1 .. Len(calls[th]) : i # Len(calls[th]) => i \in 1 .. Len(calls[th]) - 1
    BY <2>1
  <2>3. Len(calls[th]) \in 1 .. Len(calls'[th])
    BY <2>1
  <2> QED BY <2>1, <2>2, <2>3 DEF Elsewhere
<1>5. ASSUME calls[th] # <<>>, Leave(th)
      PROVE  /\ Elsewhere(th, Len(calls[th]))
             /\ Len(calls[th]) \notin 1 .. Len(calls'[th])
  <2>1. /\ \A u \in Threads \ {th} : calls'[u] = calls[u]
        /\ Len(calls'[th]) = Len(calls[th]) - 1
        /\ \A i \in 1 .. Len(calls[th]) - 1 : calls'[th][i] = calls[th][i]
        /\ Len(calls[th]) \in Nat \ {0}
    BY <1>1, <1>5, Stacks
  <2>2. \A i \in Nat : i # Len(calls[th]) =>
            (i \in 1 .. Len(calls'[th]) <=> i \in 1 .. Len(calls[th]))
    BY <2>1
  <2>3. \A i \in 1 .. Len(calls[th]) : i # Len(calls[th]) => i \in 1 .. Len(calls[th]) - 1
    BY <2>1
  <2>4. Len(calls[th]) \notin 1 .. Len(calls'[th])
    BY <2>1
  <2>5. \A i \in Nat : i # Len(calls[th]) /\ i \in 1 .. Len(calls[th]) =>
            calls'[th][i] = calls[th][i]
    BY <2>1, <2>3
  <2>6. \A u \in Threads \ {th} : calls'[u] = calls[u]
    BY <2>1
  <2>7. Elsewhere(th, Len(calls[th]))
    BY <2>2, <2>5, <2>6 DEF Elsewhere
  <2> QED BY <2>4, <2>7
<1> QED BY <1>3, <1>4, <1>5

\* The places of runs, those that have a timer in their batch and the one
\* that is calling it.
LEMMA PlacesIn ==
    ASSUME NEW S, NEW stacks \in [Threads -> Seq(S)], NEW place
    PROVE  place \in {p \in Threads \X (1 .. MaxCalls) :
                        p[2] <= Len(stacks[p[1]]) /\ stacks[p[1]][p[2]].kind = "run"} <=>
               \E u \in Threads : \E i \in 1 .. Len(stacks[u]) :
                   place = <<u, i>> /\ i <= MaxCalls /\ stacks[u][i].kind = "run"
<1> DEFINE P == {p \in Threads \X (1 .. MaxCalls) :
                     p[2] <= Len(stacks[p[1]]) /\ stacks[p[1]][p[2]].kind = "run"}
<1>1. \A u \in Threads : Len(stacks[u]) \in Nat
  OBVIOUS
<1>2. ASSUME place \in P
      PROVE  \E u \in Threads : \E i \in 1 .. Len(stacks[u]) :
                 place = <<u, i>> /\ i <= MaxCalls /\ stacks[u][i].kind = "run"
  <2>1. PICK u \in Threads, i \in 1 .. MaxCalls : place = <<u, i>>
    BY <1>2
  <2>2. i <= Len(stacks[u]) /\ stacks[u][i].kind = "run"
    BY <1>2, <2>1
  <2>3. i \in 1 .. Len(stacks[u]) /\ i <= MaxCalls
    BY <1>1, <2>2, CallsAssumption
  <2> QED BY <2>1, <2>2, <2>3
<1>3. ASSUME NEW u \in Threads, NEW i \in 1 .. Len(stacks[u]),
             place = <<u, i>>, i <= MaxCalls, stacks[u][i].kind = "run"
      PROVE  place \in P
  <2>1. i \in 1 .. MaxCalls /\ i <= Len(stacks[u])
    BY <1>1, <1>3, CallsAssumption
  <2> QED BY <1>3, <2>1
<1> QED BY <1>2, <1>3

\* Which places are among them.
LEMMA InPlaces ==
    ASSUME CallsFormed
    PROVE  /\ \A t, place : place \in InBatches(t) <=>
                  \E u \in Threads : \E i \in 1 .. Len(calls[u]) :
                      /\ place = <<u, i>> /\ i <= MaxCalls /\ calls[u][i].kind = "run"
                      /\ t \in calls[u][i].batch
           /\ \A t, place : place \in Handling(t) <=>
                  \E u \in Threads : \E i \in 1 .. Len(calls[u]) :
                      /\ place = <<u, i>> /\ i <= MaxCalls /\ calls[u][i].kind = "run"
                      /\ calls[u][i].timer = t
<1>1. PICK S : calls \in [Threads -> Seq(S)]
  BY DEF CallsFormed
<1>2. \A place : place \in Places <=>
          \E u \in Threads : \E i \in 1 .. Len(calls[u]) :
              place = <<u, i>> /\ i <= MaxCalls /\ calls[u][i].kind = "run"
  BY <1>1, PlacesIn DEF Places
<1>3. \A t, place :
          /\ place \in InBatches(t) <=> place \in Places /\ t \in calls[place[1]][place[2]].batch
          /\ place \in Handling(t) <=> place \in Places /\ calls[place[1]][place[2]].timer = t
  BY DEF InBatches, Handling
<1> QED BY <1>2, <1>3

\* The same after a step.
LEMMA InPlacesNext ==
    ASSUME CallsFormed'
    PROVE  /\ \A t, place : place \in InBatches(t)' <=>
                  \E u \in Threads : \E i \in 1 .. Len(calls'[u]) :
                      /\ place = <<u, i>> /\ i <= MaxCalls /\ calls'[u][i].kind = "run"
                      /\ t \in calls'[u][i].batch
           /\ \A t, place : place \in Handling(t)' <=>
                  \E u \in Threads : \E i \in 1 .. Len(calls'[u]) :
                      /\ place = <<u, i>> /\ i <= MaxCalls /\ calls'[u][i].kind = "run"
                      /\ calls'[u][i].timer = t
<1>1. PICK S : calls' \in [Threads -> Seq(S)]
  BY DEF CallsFormed
<1>2. \A place : place \in Places' <=>
          \E u \in Threads : \E i \in 1 .. Len(calls'[u]) :
              place = <<u, i>> /\ i <= MaxCalls /\ calls'[u][i].kind = "run"
  BY <1>1, PlacesIn DEF Places
<1>3. \A t, place :
          /\ place \in InBatches(t)' <=> place \in Places' /\ t \in calls'[place[1]][place[2]].batch
          /\ place \in Handling(t)' <=> place \in Places' /\ calls'[place[1]][place[2]].timer = t
  BY DEF InBatches, Handling
<1> QED BY <1>2, <1>3

\* Nothing changes for the runs at other places.
LEMMA RunsElsewhere ==
    ASSUME CallsFormed, CallsFormed', NEW th \in Threads, NEW n, Elsewhere(th, n), NEW t
    PROVE  /\ InBatches(t)' \ {<<th, n>>} = InBatches(t) \ {<<th, n>>}
           /\ Handling(t)' \ {<<th, n>>} = Handling(t) \ {<<th, n>>}
<1>1. \A u \in Threads : \A i : i \in 1 .. Len(calls[u]) \/ i \in 1 .. Len(calls'[u]) => i \in Nat
  BY DEF CallsFormed
<1>2. \A u \in Threads : \A i : <<u, i>> # <<th, n>> =>
          /\ i \in 1 .. Len(calls'[u]) <=> i \in 1 .. Len(calls[u])
          /\ i \in 1 .. Len(calls[u]) => calls'[u][i] = calls[u][i]
  BY <1>1 DEF Elsewhere
<1>3. ASSUME NEW p, p # <<th, n>> PROVE p \in InBatches(t)' <=> p \in InBatches(t)
  <2>1. p \in InBatches(t)' <=>
            \E u \in Threads : \E i \in 1 .. Len(calls'[u]) :
                      /\ p = <<u, i>> /\ i <= MaxCalls /\ calls'[u][i].kind = "run"
                      /\ t \in calls'[u][i].batch
    BY InPlacesNext
  <2>2. p \in InBatches(t) <=>
            \E u \in Threads : \E i \in 1 .. Len(calls[u]) :
                      /\ p = <<u, i>> /\ i <= MaxCalls /\ calls[u][i].kind = "run"
                      /\ t \in calls[u][i].batch
    BY InPlaces
  <2> QED BY <1>2, <1>3, <2>1, <2>2
<1>4. ASSUME NEW p, p # <<th, n>> PROVE p \in Handling(t)' <=> p \in Handling(t)
  <2>1. p \in Handling(t)' <=>
            \E u \in Threads : \E i \in 1 .. Len(calls'[u]) :
                      /\ p = <<u, i>> /\ i <= MaxCalls /\ calls'[u][i].kind = "run"
                      /\ calls'[u][i].timer = t
    BY InPlacesNext
  <2>2. p \in Handling(t) <=>
            \E u \in Threads : \E i \in 1 .. Len(calls[u]) :
                      /\ p = <<u, i>> /\ i <= MaxCalls /\ calls[u][i].kind = "run"
                      /\ calls[u][i].timer = t
    BY InPlaces
  <2> QED BY <1>2, <1>4, <2>1, <2>2
<1> QED BY <1>3, <1>4

\* What the run at the top of a stack has.
LEMMA RunTop ==
    ASSUME CallsFormed, LoopCallsSound, NEW th \in Threads,
           calls[th] # <<>>, Top(th).kind = "run"
    PROVE  /\ Len(calls[th]) \in Nat /\ Len(calls[th]) <= MaxCalls
           /\ RunSound(Top(th))
           /\ \A t : <<th, Len(calls[th])>> \in InBatches(t) <=> t \in Top(th).batch
           /\ \A t : <<th, Len(calls[th])>> \in Handling(t) <=> Top(th).timer = t
<1>1. Len(calls[th]) \in Nat \ {0} /\ Top(th) = calls[th][Len(calls[th])]
  BY Stacks DEF CallsFormed
<1> DEFINE n == Len(calls[th])
<1>2. n \in 1 .. Len(calls[th]) /\ calls[th][n] = Top(th) /\ n \in Nat
  BY <1>1
<1> HIDE DEF n
<1>3. n <= MaxCalls /\ RunSound(Top(th))
  BY <1>2 DEF LoopCallsSound
<1>4. \A t : <<th, n>> \in InBatches(t) <=> t \in Top(th).batch
  BY <1>2, <1>3, InPlaces
<1>5. \A t : <<th, n>> \in Handling(t) <=> Top(th).timer = t
  BY <1>2, <1>3, InPlaces
<1> QED BY <1>2, <1>3, <1>4, <1>5 DEF n

\* The record of a run goes on with other values of some fields.
LEMMA RunTopFields ==
    ASSUME CallsFormed, LoopCallsSound, NEW th \in Threads, NEW stage, At(th, "run", stage)
    PROVE  /\ calls[th] # <<>> /\ Top(th).kind = "run" /\ Top(th).stage = stage
           /\ RunSound(Top(th)) /\ host = "up"
           /\ {"kind", "stage", "batch", "timer"} \subseteq DOMAIN Top(th)
<1>1. calls[th] # <<>> /\ Top(th).kind = "run" /\ Top(th).stage = stage /\ host = "up"
  BY DEF At
<1>2. RunSound(Top(th))
  BY <1>1, RunTop
<1>3. Formed(Top(th))
  BY <1>1, TopFormed
<1> QED BY <1>1, <1>2, <1>3 DEF Formed

\* Nothing is above the top.
LEMMA AboveTop ==
    ASSUME CallsFormed, NEW th \in Threads
    PROVE  /\ Len(calls[th]) \in Nat
           /\ \A t : /\ <<th, Len(calls[th]) + 1>> \notin InBatches(t)
                     /\ <<th, Len(calls[th]) + 1>> \notin Handling(t)
<1>1. Len(calls[th]) \in Nat
  BY DEF CallsFormed
<1> DEFINE n == Len(calls[th]) + 1
<1>2. n \notin 1 .. Len(calls[th])
  BY <1>1
<1> HIDE DEF n
<1> QED BY <1>1, <1>2, InPlaces DEF n

\* The runs at other places stay as they are.
LEMMA OthersSound ==
    ASSUME CallsFormed, CallsFormed', LoopCallsSound, NEW th \in Threads, NEW n,
           Elsewhere(th, n),
           n \in 1 .. Len(calls'[th]) /\ calls'[th][n].kind = "run"
               => n <= MaxCalls /\ RunSound(calls'[th][n]),
           \A c \in AllCalls' : c \in AllCalls \/ c.kind # "fire" \/ c.timer \in Timers
    PROVE  LoopCallsSound'
<1>1. \A u \in Threads : Len(calls'[u]) \in Nat
  BY DEF CallsFormed
<1>2. ASSUME NEW u \in Threads, NEW i \in 1 .. Len(calls'[u]), calls'[u][i].kind = "run"
      PROVE  i <= MaxCalls /\ RunSound(calls'[u][i])
  <2>1. CASE u = th /\ i = n
    BY <1>2, <2>1
  <2>2. CASE ~ (u = th /\ i = n)
    <3>1. i \in Nat
      BY <1>1
    <3>2. i \in 1 .. Len(calls[u]) /\ calls'[u][i] = calls[u][i]
      BY <2>2, <3>1 DEF Elsewhere
    <3> QED BY <1>2, <3>2 DEF LoopCallsSound
  <2> QED BY <2>1, <2>2
<1>3. \A c \in AllCalls' : c.kind = "fire" => c.timer \in Timers
  BY DEF LoopCallsSound
<1>4. \A c : RunSound(c)' <=> RunSound(c)
  BY DEF RunSound
<1> QED BY <1>2, <1>3, <1>4 DEF LoopCallsSound

\* A run that begins or goes on.
LEMMA RunNext ==
    ASSUME CallsFormed, CallsFormed', LoopCallsSound, NEW th \in Threads, NEW n \in Nat,
           NEW c, c.kind = "run", RunSound(c), n <= MaxCalls, Elsewhere(th, n),
           n \in 1 .. Len(calls'[th]), calls'[th][n] = c,
           \A d \in AllCalls' : d = c \/ d \in AllCalls
    PROVE  /\ LoopCallsSound'
           /\ \A t : <<th, n>> \in InBatches(t)' <=> t \in c.batch
           /\ \A t : <<th, n>> \in Handling(t)' <=> c.timer = t
<1>1. LoopCallsSound'
  BY OthersSound
<1>2. \A t : <<th, n>> \in InBatches(t)' <=> t \in c.batch
  BY InPlacesNext
<1>3. \A t : <<th, n>> \in Handling(t)' <=> c.timer = t
  BY InPlacesNext
<1> QED BY <1>1, <1>2, <1>3

\* A run begins.
LEMMA BeginsRun ==
    ASSUME CallsFormed, CallsFormed', LoopCallsSound, NEW th \in Threads,
           NEW c, c.kind = "run", RunSound(c), Len(calls[th]) < MaxCalls, Enter(th, c)
    PROVE  /\ LoopCallsSound'
           /\ \E p : \A t :
                  /\ InBatches(t)' \ {p} = InBatches(t) \ {p}
                  /\ Handling(t)' \ {p} = Handling(t) \ {p}
                  /\ p \notin InBatches(t) /\ p \notin Handling(t)
                  /\ p \in InBatches(t)' <=> t \in c.batch
                  /\ p \in Handling(t)' <=> c.timer = t
<1> DEFINE n == Len(calls[th]) + 1
<1>1. /\ n \in Nat /\ n <= MaxCalls
      /\ \A t : <<th, n>> \notin InBatches(t) /\ <<th, n>> \notin Handling(t)
  BY AboveTop, CallsAssumption
<1>2. Elsewhere(th, n) /\ n \in 1 .. Len(calls'[th]) /\ calls'[th][n] = c
  BY TopElsewhere
<1>3. \A d \in AllCalls' : d = c \/ d \in AllCalls
  BY CallsNew
<1> HIDE DEF n
<1>4. /\ LoopCallsSound'
      /\ \A t : <<th, n>> \in InBatches(t)' <=> t \in c.batch
      /\ \A t : <<th, n>> \in Handling(t)' <=> c.timer = t
  BY <1>1, <1>2, <1>3, RunNext
<1>5. \A t : /\ InBatches(t)' \ {<<th, n>>} = InBatches(t) \ {<<th, n>>}
             /\ Handling(t)' \ {<<th, n>>} = Handling(t) \ {<<th, n>>}
  BY <1>2, RunsElsewhere
<1> QED BY <1>1, <1>4, <1>5

\* A run goes on.
LEMMA RunGoesOn ==
    ASSUME CallsFormed, CallsFormed', LoopCallsSound, NEW th \in Threads,
           calls[th] # <<>>, Top(th).kind = "run",
           NEW c, c.kind = "run", RunSound(c), Continue(th, c)
    PROVE  /\ LoopCallsSound'
           /\ \E p : \A t :
                  /\ InBatches(t)' \ {p} = InBatches(t) \ {p}
                  /\ Handling(t)' \ {p} = Handling(t) \ {p}
                  /\ p \in InBatches(t) <=> t \in Top(th).batch
                  /\ p \in Handling(t) <=> Top(th).timer = t
                  /\ p \in InBatches(t)' <=> t \in c.batch
                  /\ p \in Handling(t)' <=> c.timer = t
<1> DEFINE n == Len(calls[th])
<1>1. /\ n \in Nat /\ n <= MaxCalls
      /\ \A t : <<th, n>> \in InBatches(t) <=> t \in Top(th).batch
      /\ \A t : <<th, n>> \in Handling(t) <=> Top(th).timer = t
  BY RunTop
<1>2. Elsewhere(th, n) /\ n \in 1 .. Len(calls'[th]) /\ calls'[th][n] = c
  BY TopElsewhere
<1>3. \A d \in AllCalls' : d = c \/ d \in AllCalls
  BY CallsNew
<1> HIDE DEF n
<1>4. /\ LoopCallsSound'
      /\ \A t : <<th, n>> \in InBatches(t)' <=> t \in c.batch
      /\ \A t : <<th, n>> \in Handling(t)' <=> c.timer = t
  BY <1>1, <1>2, <1>3, RunNext
<1>5. \A t : /\ InBatches(t)' \ {<<th, n>>} = InBatches(t) \ {<<th, n>>}
             /\ Handling(t)' \ {<<th, n>>} = Handling(t) \ {<<th, n>>}
  BY <1>2, RunsElsewhere
<1> QED BY <1>1, <1>4, <1>5

\* Sets that agree but for one element, which neither has.
LEMMA SameButOne ==
    ASSUME NEW A, NEW B, NEW x, A \ {x} = B \ {x}, x \in A <=> x \in B
    PROVE  A = B
<1>1. \A y : y \in A <=> y \in B
  OBVIOUS
<1> QED BY <1>1

\* A run that ends has no timer any more.
LEMMA RunEnds ==
    ASSUME CallsFormed, CallsFormed', LoopCallsSound, TimersAssumption, NEW th \in Threads,
           calls[th] # <<>>, Top(th).kind = "run", Top(th).stage = "sleep", Leave(th)
    PROVE  /\ LoopCallsSound'
           /\ \A t \in Timers :
                  InBatches(t)' = InBatches(t) /\ Handling(t)' = Handling(t)
<1> DEFINE n == Len(calls[th])
<1>1. /\ RunSound(Top(th))
      /\ \A t : <<th, n>> \in InBatches(t) <=> t \in Top(th).batch
      /\ \A t : <<th, n>> \in Handling(t) <=> Top(th).timer = t
  BY RunTop
<1>2. Elsewhere(th, n) /\ n \notin 1 .. Len(calls'[th])
  BY TopElsewhere
<1>3. \A d \in AllCalls' : d \in AllCalls
  BY CallsNew
<1> HIDE DEF n
<1>4. LoopCallsSound'
  BY <1>2, <1>3, OthersSound
<1>5. \A t : <<th, n>> \notin InBatches(t)' /\ <<th, n>> \notin Handling(t)'
  BY <1>2, InPlacesNext
<1>6. \A t \in Timers : <<th, n>> \notin InBatches(t) /\ <<th, n>> \notin Handling(t)
  BY <1>1, TimersAssumption DEF RunSound
<1>7. \A t : /\ InBatches(t)' \ {<<th, n>>} = InBatches(t) \ {<<th, n>>}
             /\ Handling(t)' \ {<<th, n>>} = Handling(t) \ {<<th, n>>}
  BY <1>2, RunsElsewhere
<1>8. ASSUME NEW t \in Timers PROVE InBatches(t)' = InBatches(t) /\ Handling(t)' = Handling(t)
  BY <1>5, <1>6, <1>7, SameButOne
<1> QED BY <1>4, <1>8

\* Steps that leave the runs where they are.
LEMMA SameRuns ==
    ASSUME CallsFormed, CallsFormed', LoopCallsSound, NEW K, Step(K), "run" \notin K,
           \A c \in AllCalls' : c \in AllCalls \/ c.kind # "fire" \/ c.timer \in Timers
    PROVE  /\ LoopCallsSound'
           /\ \A t : InBatches(t)' = InBatches(t) /\ Handling(t)' = Handling(t)
<1>1. /\ \A u \in Threads : \A i :
             i \in 1 .. Len(calls[u]) /\ calls[u][i].kind = "run" <=>
                 i \in 1 .. Len(calls'[u]) /\ calls'[u][i].kind = "run"
      /\ \A u \in Threads : \A i \in 1 .. Len(calls[u]) :
             calls[u][i].kind = "run" => calls'[u][i] = calls[u][i]
  BY Foreign
<1>2. \A c : RunSound(c)' <=> RunSound(c)
  BY DEF RunSound
<1>3. LoopCallsSound'
  BY <1>1, <1>2 DEF LoopCallsSound
<1>4. ASSUME NEW t PROVE InBatches(t)' = InBatches(t)
  <2>1. \A place : place \in InBatches(t) <=> place \in InBatches(t)'
    BY <1>1, InPlaces, InPlacesNext
  <2> QED BY <2>1
<1>5. ASSUME NEW t PROVE Handling(t)' = Handling(t)
  <2>1. \A place : place \in Handling(t) <=> place \in Handling(t)'
    BY <1>1, InPlaces, InPlacesNext
  <2> QED BY <2>1
<1> QED BY <1>3, <1>4, <1>5

\* Steps of the other modules.
LEMMA QuietTimers ==
    ASSUME TimerInv, CallsFormed, CallsFormed', NEW K, Step(K), K \cap LoopKinds = {},
           UNCHANGED loopVars, host' = "up" => host = "up"
    PROVE  TimerInv'
<1>1. "run" \notin K /\ "fire" \notin K
  BY DEF LoopKinds
<1>2. \A c \in AllCalls' : c \in AllCalls \/ c.kind # "fire"
  BY <1>1, ForeignCalls
<1>3. /\ LoopCallsSound'
      /\ \A t : InBatches(t)' = InBatches(t) /\ Handling(t)' = Handling(t)
  BY <1>1, <1>2, SameRuns DEF TimerInv
<1>4. UNCHANGED <<timers, refs, owned, due, inCallback, runLoop>>
  BY DEF loopVars, timerVars
<1>5. TimerTypes'
  BY <1>4 DEF TimerInv, TimerTypes
<1>6. \A t \in Timers : Handled(t)'
  BY <1>3, <1>4 DEF TimerInv, Handled
<1>7. \A t : InLoops(t)' = InLoops(t)
  BY <1>4 DEF InLoops
<1>8. ASSUME host' = "up", NEW t \in Timers PROVE Exact(t)'
  <2>1. Exact(t)
    BY <1>8 DEF TimerInv
  <2> QED BY <1>3, <1>4, <1>7, <2>1 DEF Exact, FiniteHolders
<1> QED BY <1>3, <1>5, <1>6, <1>8 DEF TimerInv

\* Steps of the run loops that leave the runs where they are.
LEMMA BesideRuns ==
    ASSUME TimerInv, CallsFormed, CallsFormed', Step({"fire"}), TimerTypes', host = "up",
           \A c \in AllCalls' : c \in AllCalls \/ c.kind # "fire" \/ c.timer \in Timers,
           \A t \in Timers : \/ inCallback'[t] = inCallback[t]
                             \/ Handling(t) = {} /\ ~ inCallback'[t],
           host' = "up" =>
               \A t \in Timers : \E l :
                   /\ InLoops(t)' \ {l} = InLoops(t) \ {l}
                   /\ refs'[t] - One(t \in owned') - One(l \in InLoops(t)')
                      = refs[t] - One(t \in owned) - One(l \in InLoops(t))
    PROVE  TimerInv'
<1>1. /\ LoopCallsSound'
      /\ \A t : InBatches(t)' = InBatches(t) /\ Handling(t)' = Handling(t)
  BY SameRuns DEF TimerInv
<1>2. \A t \in Timers : Handled(t)'
  BY <1>1 DEF TimerInv, Handled
<1>3. ASSUME host' = "up", NEW t \in Timers PROVE Exact(t)'
  <2>1. Exact(t) /\ refs[t] \in Nat /\ refs'[t] \in Nat
    BY DEF TimerInv, TimerTypes
  <2>2. PICK l :
            /\ InLoops(t)' \ {l} = InLoops(t) \ {l}
            /\ refs'[t] - One(t \in owned') - One(l \in InLoops(t)')
               = refs[t] - One(t \in owned) - One(l \in InLoops(t))
    BY <1>3
  <2>3. /\ One(t \in InBatches(t)') = One(t \in InBatches(t))
        /\ One(t \in Handling(t)') = One(t \in Handling(t))
        /\ One(t \in InBatches(t)) \in Nat /\ One(t \in Handling(t)) \in Nat
    BY <1>1 DEF One
  <2>4. /\ One(t \in owned) \in Nat /\ One(t \in owned') \in Nat
        /\ One(l \in InLoops(t)) \in Nat /\ One(l \in InLoops(t)') \in Nat
    BY DEF One
  <2>5. Balanced(t, l, t)
    BY <1>1, <2>1, <2>2, <2>3, <2>4 DEF Balanced
  <2> QED BY <2>1, <2>5, Balance
<1> QED BY <1>1, <1>2, <1>3 DEF TimerInv

\* Without a reference left, nobody has the timer.
LEMMA NobodyHas ==
    ASSUME NEW t \in Timers, Exact(t), refs[t] = 0
    PROVE  t \notin owned /\ InLoops(t) = {} /\ InBatches(t) = {} /\ Handling(t) = {}
<1>1. /\ Cardinality(InLoops(t)) \in Nat /\ Cardinality(InBatches(t)) \in Nat
      /\ Cardinality(Handling(t)) \in Nat
  BY FS_CardinalityType DEF Exact, FiniteHolders
<1>2. One(t \in owned) \in Nat
  BY DEF One
<1>3. refs[t] = One(t \in owned) + Cardinality(InLoops(t))
                 + Cardinality(InBatches(t)) + 2 * Cardinality(Handling(t))
  BY DEF Exact
<1>4. /\ One(t \in owned) = 0 /\ Cardinality(InLoops(t)) = 0
      /\ Cardinality(InBatches(t)) = 0 /\ Cardinality(Handling(t)) = 0
  BY <1>1, <1>2, <1>3
<1>5. \A S : IsFiniteSet(S) /\ Cardinality(S) = 0 => S = {}
  BY FS_EmptySet
<1> QED BY <1>4, <1>5 DEF One, Exact, FiniteHolders

LoopTypes ==
    /\ timers \in [Threads -> SUBSET Timers]
    /\ refs \in [Timers -> Nat]
    /\ due \in [Timers -> {"none", "later", "now"}]
    /\ runLoop \in [Timers -> Threads \cup {NoLoop}]

\* A release takes n references of the timer and nothing else.
LEMMA Releases ==
    ASSUME TimerTypes, NEW t \in Timers, NEW n \in Nat, Release(t, n)
    PROVE  /\ LoopTypes' /\ timers' = timers
           /\ host' = "up" => /\ host = "up"
                              /\ refs'[t] = refs[t] - n
                              /\ \A s \in Timers \ {t} : refs'[s] = refs[s]
<1>1. LoopTypes
  BY DEF TimerTypes, LoopTypes
<1>2. CASE refs[t] < n \/ (refs[t] = n /\ Listed(t))
  BY <1>1, <1>2 DEF Release, Panic, LoopTypes
<1>3. CASE ~ (refs[t] < n \/ (refs[t] = n /\ Listed(t)))
  <2>1. /\ refs' = [refs EXCEPT ![t] = @ - n]
        /\ due' = IF refs[t] = n THEN [due EXCEPT ![t] = "none"] ELSE due
        /\ runLoop' = IF refs[t] = n THEN [runLoop EXCEPT ![t] = NoLoop] ELSE runLoop
        /\ UNCHANGED <<timers, host>>
    BY <1>3 DEF Release
  <2>2. refs[t] - n \in Nat
    BY <1>1, <1>3 DEF LoopTypes
  <2>3. refs' \in [Timers -> Nat]
    BY <1>1, <2>1, <2>2 DEF LoopTypes
  <2>4. due' \in [Timers -> {"none", "later", "now"}] /\ runLoop' \in [Timers -> Threads \cup {NoLoop}]
    BY <1>1, <2>1 DEF LoopTypes
  <2> QED BY <1>1, <2>1, <2>3, <2>4 DEF LoopTypes
<1> QED BY <1>2, <1>3

\* So does the invalidation, which takes the timer out of its loop before.
LEMMA Invalidates ==
    ASSUME TimerTypes, NEW t \in Timers, NEW n \in Nat, Invalidate(t, n)
    PROVE  /\ LoopTypes'
           /\ host' = "up" =>
                  /\ host = "up"
                  /\ \E l : \A s \in Timers :
                        /\ InLoops(s)' \ {l} = InLoops(s) \ {l}
                        /\ refs'[s] - One(l \in InLoops(s)') =
                              refs[s] - One(l \in InLoops(s)) - (IF s = t THEN n ELSE 0)
<1>1. LoopTypes
  BY DEF TimerTypes, LoopTypes
<1>2. CASE refs[t] < n + (IF Listed(t) THEN 1 ELSE 0) \/ refs[t] = 0
  <2>1. Panic
    BY <1>2 DEF Invalidate
  <2> QED BY <1>1, <2>1 DEF Panic, LoopTypes
<1>3. CASE ~ (refs[t] < n + (IF Listed(t) THEN 1 ELSE 0) \/ refs[t] = 0)
  <2>1. /\ due' = [due EXCEPT ![t] = "none"]
        /\ runLoop' = [runLoop EXCEPT ![t] = NoLoop]
        /\ timers' = IF Listed(t) THEN [timers EXCEPT ![runLoop[t]] = @ \ {t}] ELSE timers
        /\ refs' = [refs EXCEPT ![t] = @ - n - (IF Listed(t) THEN 1 ELSE 0)]
        /\ UNCHANGED host
    BY <1>3 DEF Invalidate
  <2>2. refs[t] \in Nat /\ refs[t] - n - (IF Listed(t) THEN 1 ELSE 0) \in Nat
    BY <1>1, <1>3 DEF LoopTypes
  <2>3. refs' \in [Timers -> Nat]
    BY <1>1, <2>1, <2>2 DEF LoopTypes
  <2>4. due' \in [Timers -> {"none", "later", "now"}] /\ runLoop' \in [Timers -> Threads \cup {NoLoop}]
    BY <1>1, <2>1 DEF LoopTypes
  <2>5. timers' \in [Threads -> SUBSET Timers]
    BY <1>1, <2>1 DEF LoopTypes
  <2>6. CASE Listed(t)
    <3> DEFINE l == runLoop[t]
    <3>1. l \in Threads /\ t \in timers[l] /\ timers' = [timers EXCEPT ![l] = @ \ {t}]
      BY <1>1, <2>1, <2>6 DEF Listed, LoopTypes
    <3> HIDE DEF l
    <3>2. refs'[t] = refs[t] - n - 1 /\ \A s \in Timers \ {t} : refs'[s] = refs[s]
      BY <1>1, <2>1, <2>6 DEF LoopTypes
    <3>3. \A s \in Timers \ {t} : InLoops(s)' = InLoops(s)
      BY <1>1, <3>1 DEF InLoops, LoopTypes
    <3>4. InLoops(t)' = InLoops(t) \ {l} /\ l \in InLoops(t)
      BY <1>1, <3>1 DEF InLoops, LoopTypes
    <3>5. One(l \in InLoops(t)') = 0 /\ One(l \in InLoops(t)) = 1
      BY <3>4 DEF One
    <3>6. \A s \in Timers : One(l \in InLoops(s)) \in Nat /\ refs[s] \in Nat
      BY <1>1 DEF One, LoopTypes
    <3>7. ASSUME NEW s \in Timers
          PROVE  /\ InLoops(s)' \ {l} = InLoops(s) \ {l}
                 /\ refs'[s] - One(l \in InLoops(s)') =
                              refs[s] - One(l \in InLoops(s)) - (IF s = t THEN n ELSE 0)
      <4>1. CASE s = t
        <5>1. InLoops(s)' \ {l} = InLoops(s) \ {l}
          BY <3>4, <4>1
        <5> QED BY <2>2, <3>2, <3>5, <4>1, <5>1
      <4>2. CASE s # t
        BY <3>2, <3>3, <3>6, <4>2
      <4> QED BY <4>1, <4>2
    <3>8. host' = "up" => host = "up"
      BY <2>1
    <3> QED BY <2>3, <2>4, <2>5, <3>7, <3>8 DEF LoopTypes
  <2>7. CASE ~ Listed(t)
    <3>1. timers' = timers /\ refs'[t] = refs[t] - n /\ \A s \in Timers \ {t} : refs'[s] = refs[s]
      BY <1>1, <2>1, <2>2, <2>7 DEF LoopTypes
    <3>2. \A s : InLoops(s)' = InLoops(s)
      BY <3>1 DEF InLoops
    <3>3. \A s \in Timers : One(t \in InLoops(s)) \in Nat /\ refs[s] \in Nat
      BY <1>1 DEF One, LoopTypes
    <3>4. ASSUME NEW s \in Timers
          PROVE  /\ InLoops(s)' \ {t} = InLoops(s) \ {t}
                 /\ refs'[s] - One(t \in InLoops(s)') =
                              refs[s] - One(t \in InLoops(s)) - (IF s = t THEN n ELSE 0)
      BY <3>1, <3>2, <3>3
    <3>8. host' = "up" => host = "up"
      BY <2>1
    <3> QED BY <2>3, <2>4, <2>5, <3>4, <3>8 DEF LoopTypes
  <2> QED BY <2>6, <2>7
<1> QED BY <1>2, <1>3

\* A timer is invalidated by the guest, or after it was fired by it.
LEMMA TimerInvalidated ==
    ASSUME TimerInv, CallsFormed, CallsFormed', Step({"fire"}), host = "up",
           \A c \in AllCalls' : c \in AllCalls,
           NEW t \in Timers, Invalidate(t, 0), UNCHANGED <<owned, inCallback>>
    PROVE  TimerInv'
<1>1. TimerTypes
  BY DEF TimerInv
<1>2. /\ LoopTypes'
      /\ host' = "up" =>
             \E l : \A s \in Timers :
                        /\ InLoops(s)' \ {l} = InLoops(s) \ {l}
                        /\ refs'[s] - One(l \in InLoops(s)') =
                              refs[s] - One(l \in InLoops(s)) - (IF s = t THEN 0 ELSE 0)
  <2>1. PICK n : n = 0
    OBVIOUS
  <2> QED BY <1>1, <2>1, Invalidates
<1>3. TimerTypes'
  BY <1>1, <1>2 DEF TimerTypes, LoopTypes
<1>4. ASSUME host' = "up", NEW s \in Timers
      PROVE  \E l : /\ InLoops(s)' \ {l} = InLoops(s) \ {l}
                    /\ refs'[s] - One(s \in owned') - One(l \in InLoops(s)')
                          = refs[s] - One(s \in owned) - One(l \in InLoops(s))
  <2>1. PICK l : /\ InLoops(s)' \ {l} = InLoops(s) \ {l}
                 /\ refs'[s] - One(l \in InLoops(s)') = refs[s] - One(l \in InLoops(s)) - 0
    BY <1>2, <1>4
  <2>2. refs'[s] \in Nat /\ refs[s] \in Nat /\ \A P : One(P) \in Nat
    BY <1>1, <1>3 DEF TimerTypes, One
  <2>3. refs'[s] - One(s \in owned') - One(l \in InLoops(s)')
            = refs[s] - One(s \in owned) - One(l \in InLoops(s))
    BY <2>1, <2>2
  <2> QED BY <2>1, <2>3
<1> QED BY <1>1, <1>3, <1>4, BesideRuns

\* Timers are made, released, added and changed.
LEMMA TimersChange ==
    ASSUME TimerInv, CallsFormed, CallsFormed', NEW th, NEW t \in Timers,
           \/ \E r, g : NewTimer(th, t, r, g)
           \/ ReleaseTimer(th, t)
           \/ \E l \in Threads : AddTimer(th, t, l)
           \/ InvalidateTimer(th, t)
           \/ SetFireDate(th, t)
           \/ BecomeDue(t)
    PROVE  TimerInv'
<1>1. /\ UNCHANGED calls /\ host = "up" /\ TimerTypes
      /\ Step({"fire"}) /\ \A c \in AllCalls' : c \in AllCalls
  BY DEF NewTimer, ReleaseTimer, AddTimer, InvalidateTimer, SetFireDate, BecomeDue,
         GuestRuns, Step, AllCalls, TimerInv
<1>2. \A s \in Timers : refs[s] \in Nat /\ Exact(s)
  BY <1>1 DEF TimerInv, TimerTypes
<1>3. \A P : One(P) \in Nat
  BY DEF One
<1>4. ASSUME NEW r, NEW g, NewTimer(th, t, r, g) PROVE TimerInv'
  <2>1. TimerTypes'
    BY <1>1, <1>4 DEF NewTimer, TimerTypes
  <2>2. /\ refs[t] = 0 /\ timers' = timers /\ refs' = [refs EXCEPT ![t] = 1]
        /\ owned' = owned \cup {t} /\ inCallback' = [inCallback EXCEPT ![t] = FALSE]
    BY <1>4 DEF NewTimer
  <2>3. t \notin owned /\ Handling(t) = {}
    BY <1>2, <2>2, NobodyHas
  <2>4. \A s : InLoops(s)' = InLoops(s)
    BY <2>2 DEF InLoops
  <2>5. One(t \in owned) = 0 /\ One(t \in owned') = 1
    BY <2>2, <2>3 DEF One
  <2>6. ASSUME NEW s \in Timers
        PROVE  /\ InLoops(s)' \ {t} = InLoops(s) \ {t}
               /\ refs'[s] - One(s \in owned') - One(t \in InLoops(s)')
                      = refs[s] - One(s \in owned) - One(t \in InLoops(s))
    <3>1. CASE s = t
      BY <1>1, <1>3, <2>2, <2>4, <2>5, <3>1 DEF TimerTypes
    <3>2. CASE s # t
      BY <1>1, <1>2, <1>3, <2>2, <2>4, <3>2 DEF TimerTypes
    <3> QED BY <3>1, <3>2
  <2>7. \A s \in Timers : \/ inCallback'[s] = inCallback[s]
                          \/ Handling(s) = {} /\ ~ inCallback'[s]
    BY <1>1, <2>2, <2>3 DEF TimerTypes
  <2> QED BY <1>1, <2>1, <2>6, <2>7, BesideRuns
<1>5. CASE ReleaseTimer(th, t)
  <2>1. /\ t \in owned /\ owned' = owned \ {t} /\ Release(t, 1) /\ UNCHANGED inCallback
    BY <1>5 DEF ReleaseTimer
  <2>2. /\ LoopTypes' /\ timers' = timers
        /\ host' = "up" => /\ refs'[t] = refs[t] - 1
                           /\ \A s \in Timers \ {t} : refs'[s] = refs[s]
    BY <1>1, <2>1, Releases
  <2>3. TimerTypes'
    BY <1>1, <2>1, <2>2 DEF TimerTypes, LoopTypes
  <2>4. \A s : InLoops(s)' = InLoops(s)
    BY <2>2 DEF InLoops
  <2>5. One(t \in owned) = 1 /\ One(t \in owned') = 0
    BY <2>1 DEF One
  <2>6. ASSUME NEW s \in Timers, host' = "up"
        PROVE  /\ InLoops(s)' \ {t} = InLoops(s) \ {t}
               /\ refs'[s] - One(s \in owned') - One(t \in InLoops(s)')
                      = refs[s] - One(s \in owned) - One(t \in InLoops(s))
    <3>1. CASE s = t
      BY <1>2, <1>3, <2>2, <2>4, <2>5, <2>6, <3>1
    <3>2. CASE s # t
      BY <1>2, <1>3, <2>1, <2>2, <2>4, <2>6, <3>2
    <3> QED BY <3>1, <3>2
  <2> QED BY <1>1, <2>1, <2>3, <2>6, BesideRuns
<1>6. ASSUME NEW l \in Threads, AddTimer(th, t, l) PROVE TimerInv'
  <2>1. /\ t \notin timers[l] /\ refs' = [refs EXCEPT ![t] = @ + 1]
        /\ timers' = [timers EXCEPT ![l] = @ \cup {t}]
        /\ runLoop' = [runLoop EXCEPT ![t] = l]
        /\ UNCHANGED <<owned, due, inCallback>>
    BY <1>6 DEF AddTimer
  <2>2. TimerTypes'
    BY <1>1, <2>1 DEF TimerTypes
  <2>3. /\ InLoops(t)' = InLoops(t) \cup {l} /\ l \notin InLoops(t)
        /\ \A s \in Timers \ {t} : InLoops(s)' = InLoops(s)
    BY <1>1, <2>1 DEF InLoops, TimerTypes
  <2>4. /\ One(l \in InLoops(t)) = 0 /\ One(l \in InLoops(t)') = 1
        /\ refs'[t] = refs[t] + 1 /\ \A s \in Timers \ {t} : refs'[s] = refs[s]
    BY <1>1, <2>1, <2>3 DEF One, TimerTypes
  <2>5. ASSUME NEW s \in Timers
        PROVE  /\ InLoops(s)' \ {l} = InLoops(s) \ {l}
               /\ refs'[s] - One(s \in owned') - One(l \in InLoops(s)')
                      = refs[s] - One(s \in owned) - One(l \in InLoops(s))
    <3>1. CASE s = t
      <4>1. InLoops(s)' \ {l} = InLoops(s) \ {l}
        BY <2>3, <3>1
      <4> QED BY <1>2, <1>3, <2>1, <2>4, <3>1, <4>1
    <3>2. CASE s # t
      BY <1>2, <1>3, <2>1, <2>3, <2>4, <3>2
    <3> QED BY <3>1, <3>2
  <2> QED BY <1>1, <2>1, <2>2, <2>5, BesideRuns
<1>7. CASE InvalidateTimer(th, t)
  <2>1. Invalidate(t, 0) /\ UNCHANGED <<owned, inCallback>>
    BY <1>7 DEF InvalidateTimer
  <2> QED BY <1>1, <2>1, TimerInvalidated
<1>8. CASE SetFireDate(th, t) \/ BecomeDue(t)
  <2>1. \/ due' = [due EXCEPT ![t] = "later"]
        \/ due' = [due EXCEPT ![t] = "now"]
    BY <1>8 DEF SetFireDate, BecomeDue
  <2>2. UNCHANGED <<timers, refs, owned, inCallback, runLoop>>
    BY <1>8 DEF SetFireDate, BecomeDue
  <2>3. TimerTypes'
    BY <1>1, <2>1, <2>2 DEF TimerTypes
  <2>4. \A s : InLoops(s)' = InLoops(s)
    BY <2>2 DEF InLoops
  <2> QED BY <1>1, <2>2, <2>3, <2>4, BesideRuns
<1> QED BY <1>4, <1>5, <1>6, <1>7, <1>8

\* The guest fires a timer itself, and has others cancelled, or stops a loop.
LEMMA TimersFired ==
    ASSUME TimerInv, CallsFormed, CallsFormed', NEW th \in Threads,
           \/ \E t \in Timers : Fire(th, t)
           \/ EndFire(th)
           \/ \E l \in Threads : CFRunLoopStop(th, l)
    PROVE  TimerInv'
<1>1. TimerTypes /\ \A P : One(P) \in Nat
  BY DEF TimerInv, One
<1>2. ASSUME UNCHANGED <<timers, refs, owned, due, inCallback, runLoop>>, host = "up",
             Step({"fire"}),
             \A c \in AllCalls' : c \in AllCalls \/ c.kind # "fire" \/ c.timer \in Timers
      PROVE  TimerInv'
  <2>1. TimerTypes'
    BY <1>1, <1>2 DEF TimerTypes
  <2>2. \A s : InLoops(s)' = InLoops(s)
    BY <1>2 DEF InLoops
  <2> QED BY <1>2, <2>1, <2>2, BesideRuns
<1>3. ASSUME NEW t \in Timers, Fire(th, t) PROVE TimerInv'
  <2>1. /\ Enter(th, FireCall(t)) /\ UNCHANGED loopVars /\ host = "up" /\ InGuest(th)
    BY <1>3 DEF Fire, CanCall, GuestRuns
  <2>2. Of(FireCall(t), {"fire"})
    BY DEF Of, Formed, FireCall
  <2>3. Step({"fire"})
    BY <2>1, <2>2 DEF Step, Moves
  <2>4. \A c \in AllCalls' : c = FireCall(t) \/ c \in AllCalls
    BY <2>1, CallsNew
  <2>5. FireCall(t).timer \in Timers
    BY DEF FireCall
  <2> QED BY <1>2, <2>1, <2>3, <2>4, <2>5 DEF loopVars, timerVars
<1>4. CASE EndFire(th)
  <2>1. /\ host = "up" /\ calls[th] # <<>> /\ Top(th).kind = "fire" /\ Leave(th)
        /\ UNCHANGED <<owned, inCallback>>
    BY <1>4 DEF EndFire, At
  <2>2. Step({"fire"})
    BY <2>1 DEF Step, Moves, Replaces
  <2>3. \A c \in AllCalls' : c \in AllCalls
    BY <2>1, CallsNew
  <2>4. Top(th) \in AllCalls
    BY <2>1, CallsStay
  <2> DEFINE t == Top(th).timer
  <2>5. t \in Timers
    BY <2>1, <2>4 DEF TimerInv, LoopCallsSound
  <2>6. UNCHANGED <<timers, refs, due, runLoop, host>> \/ Invalidate(t, 0)
    BY <1>4 DEF EndFire
  <2> HIDE DEF t
  <2>7. CASE UNCHANGED <<timers, refs, due, runLoop, host>>
    BY <1>2, <2>1, <2>2, <2>3, <2>7
  <2>8. CASE Invalidate(t, 0)
    BY <2>1, <2>2, <2>3, <2>5, <2>8, TimerInvalidated
  <2> QED BY <2>6, <2>7, <2>8
<1>5. ASSUME NEW l \in Threads, CFRunLoopStop(th, l) PROVE TimerInv'
  <2>1. host = "up" /\ UNCHANGED <<timers, timerVars, calls>>
    BY <1>5 DEF CFRunLoopStop, GuestRuns
  <2>2. Step({"fire"}) /\ AllCalls' = AllCalls
    BY <2>1 DEF Step, AllCalls
  <2> QED BY <1>2, <2>1, <2>2 DEF timerVars
<1> QED BY <1>3, <1>4, <1>5

\* The guest cancels the timers of a loop that have some target.
LEMMA TimersCancelled ==
    ASSUME TimerInv, CallsFormed, CallsFormed', NEW th \in Threads,
           NEW l \in Threads, NEW g, CancelPerformSelectors(th, l, g)
    PROVE  TimerInv'
<1> DEFINE gone == {t \in {s \in timers[l] : target[s] = g} : Listed(t)}
<1>1. TimerTypes /\ \A P : One(P) \in Nat
  BY DEF TimerInv, One
<1>2. /\ host = "up" /\ UNCHANGED <<owned, inCallback, calls, host>>
      /\ timers' = [m \in Threads |-> timers[m] \ {t \in gone : runLoop[t] = m}]
      /\ refs' = [t \in Timers |-> IF t \in gone THEN refs[t] - 1 ELSE refs[t]]
      /\ \E C : /\ due' = [t \in Timers |-> IF t \in C THEN "none" ELSE due[t]]
                /\ runLoop' = [t \in Timers |-> IF t \in C THEN NoLoop ELSE runLoop[t]]
  BY DEF CancelPerformSelectors, GuestRuns
<1>3. \A t \in gone : t \in Timers /\ runLoop[t] \in Threads /\ t \in timers[runLoop[t]]
  BY <1>1 DEF TimerTypes, Listed
<1> HIDE DEF gone
<1>4. Step({"fire"}) /\ AllCalls' = AllCalls
  BY <1>2 DEF Step, AllCalls
<1>5. ASSUME NEW s \in gone PROVE refs[s] - 1 \in Nat
  <2>1. s \in Timers /\ Exact(s) /\ refs[s] \in Nat
    BY <1>1, <1>2, <1>3 DEF TimerInv, TimerTypes
  <2>2. runLoop[s] \in InLoops(s)
    BY <1>3 DEF InLoops
  <2>3. refs[s] # 0
    BY <2>1, <2>2, NobodyHas
  <2> QED BY <2>1, <2>3
<1>6. refs' \in [Timers -> Nat]
  BY <1>1, <1>2, <1>5 DEF TimerTypes
<1>7. TimerTypes'
  BY <1>1, <1>2, <1>6 DEF TimerTypes
<1>8. ASSUME NEW s \in Timers
      PROVE  \E m : /\ InLoops(s)' \ {m} = InLoops(s) \ {m}
                    /\ refs'[s] - One(s \in owned') - One(m \in InLoops(s)')
                          = refs[s] - One(s \in owned) - One(m \in InLoops(s))
  <2> DEFINE m == runLoop[s]
  <2>1. refs[s] \in Nat /\ refs'[s] \in Nat
    BY <1>1, <1>6 DEF TimerTypes
  <2>2. CASE s \in gone
    <3>1. m \in InLoops(s) /\ InLoops(s)' = InLoops(s) \ {m}
      BY <1>2, <1>3, <2>2 DEF InLoops
    <3>2. refs'[s] = refs[s] - 1
      BY <1>2, <2>2
    <3> HIDE DEF m
    <3>3. One(m \in InLoops(s)) = 1 /\ One(m \in InLoops(s)') = 0
      BY <3>1 DEF One
    <3>4. InLoops(s)' \ {m} = InLoops(s) \ {m}
      BY <3>1
    <3>5. refs'[s] - One(s \in owned') - One(m \in InLoops(s)')
              = refs[s] - One(s \in owned) - One(m \in InLoops(s))
      BY <1>1, <1>2, <2>1, <3>2, <3>3
    <3> QED BY <3>4, <3>5
  <2>3. CASE s \notin gone
    <3>1. InLoops(s)' = InLoops(s)
      BY <1>2, <2>3 DEF InLoops
    <3>2. refs'[s] = refs[s]
      BY <1>2, <2>3
    <3> QED BY <1>2, <3>1, <3>2
  <2> QED BY <2>2, <2>3
<1> QED BY <1>1, <1>2, <1>4, <1>7, <1>8, BesideRuns

\* A pass retains the timers of its loop.
LEMMA PassBegins ==
    ASSUME TimerInv, LoopCallsSound', NEW th \in Threads, RetainAll(th),
           UNCHANGED <<host, timers, owned, due, inCallback, runLoop>>,
           NEW p,
           \A t \in Timers :
                  /\ InBatches(t)' \ {p} = InBatches(t) \ {p}
                  /\ Handling(t)' = Handling(t)
                  /\ p \notin InBatches(t)
                  /\ p \in InBatches(t)' <=> t \in timers[th]
    PROVE  TimerInv'
<1>1. TimerTypes /\ \A P : One(P) \in Nat
  BY DEF TimerInv, One
<1>2. refs' = [t \in Timers |-> IF t \in timers[th] THEN refs[t] + 1 ELSE refs[t]]
  BY DEF RetainAll
<1>3. TimerTypes'
  BY <1>1, <1>2 DEF TimerTypes
<1>4. \A t \in Timers : Handled(t)'
  BY DEF TimerInv, Handled
<1>5. ASSUME host' = "up", NEW t \in Timers PROVE Exact(t)'
  <2>1. Exact(t) /\ refs[t] \in Nat /\ refs'[t] \in Nat
    BY <1>1, <1>3, <1>5 DEF TimerInv, TimerTypes
  <2>2. InLoops(t)' = InLoops(t)
    BY DEF InLoops
  <2>3. /\ One(p \in InBatches(t)) = 0
        /\ One(p \in InBatches(t)') = One(t \in timers[th])
        /\ refs'[t] = refs[t] + One(t \in timers[th])
    BY <1>2, <2>1 DEF One
  <2>4. Balanced(t, t, p)
    BY <1>1, <2>1, <2>2, <2>3 DEF Balanced
  <2> QED BY <2>1, <2>4, Balance
<1> QED BY <1>3, <1>4, <1>5 DEF TimerInv

\* A run begins, goes to sleep, and makes another pass or ends.
LEMMA RunsChange ==
    ASSUME TimerInv, CallsFormed, CallsFormed', NEW th \in Threads,
           \/ \E single : BeginRun(th, single)
           \/ EndPass(th)
           \/ Wake(th)
    PROVE  TimerInv'
<1>1. TimerTypes /\ LoopCallsSound
  BY DEF TimerInv
<1>2. ASSUME NEW single
      PROVE  /\ RunCall(th, single, timers[th]).kind = "run"
             /\ RunSound(RunCall(th, single, timers[th]))
             /\ RunCall(th, single, timers[th]).batch = timers[th]
             /\ RunCall(th, single, timers[th]).timer = NoTimer
  BY <1>1 DEF RunCall, RunSound, TimerTypes
<1>3. ASSUME NEW single, BeginRun(th, single) PROVE TimerInv'
  <2> DEFINE c == RunCall(th, single, timers[th])
  <2>1. /\ Enter(th, c) /\ Len(calls[th]) < MaxCalls /\ RetainAll(th)
        /\ UNCHANGED <<host, timers, owned, due, inCallback, runLoop>>
    BY <1>3 DEF BeginRun, CanCall
  <2>2. c.kind = "run" /\ RunSound(c) /\ c.batch = timers[th] /\ c.timer = NoTimer
    BY <1>2
  <2> HIDE DEF c
  <2>3. LoopCallsSound'
    BY <1>1, <2>1, <2>2, BeginsRun
  <2>4. PICK p : \A t :
                  /\ InBatches(t)' \ {p} = InBatches(t) \ {p}
                  /\ Handling(t)' \ {p} = Handling(t) \ {p}
                  /\ p \notin InBatches(t) /\ p \notin Handling(t)
                  /\ p \in InBatches(t)' <=> t \in c.batch
                  /\ p \in Handling(t)' <=> c.timer = t
    BY <1>1, <2>1, <2>2, BeginsRun
  <2>5. ASSUME NEW t \in Timers PROVE Handling(t)' = Handling(t)
    BY <2>2, <2>4, SameButOne, TimersAssumption
  <2> QED BY <2>1, <2>2, <2>3, <2>4, <2>5, PassBegins
<1>4. \A stage : At(th, "run", stage) =>
          /\ calls[th] # <<>> /\ Top(th).kind = "run" /\ Top(th).stage = stage
          /\ RunSound(Top(th))
          /\ {"kind", "stage", "batch", "timer"} \subseteq DOMAIN Top(th)
  BY <1>1, RunTopFields
<1>5. ASSUME LoopCallsSound', UNCHANGED <<host, loopVars>>,
             \A t \in Timers : InBatches(t)' = InBatches(t) /\ Handling(t)' = Handling(t)
      PROVE  TimerInv'
  <2>1. TimerTypes'
    BY <1>1, <1>5 DEF TimerTypes, loopVars, timerVars
  <2>2. \A t \in Timers : Handled(t)'
    BY <1>5 DEF TimerInv, Handled, loopVars, timerVars
  <2>3. \A t : InLoops(t)' = InLoops(t)
    BY <1>5 DEF InLoops, loopVars
  <2>4. ASSUME host' = "up", NEW t \in Timers PROVE Exact(t)'
    BY <1>5, <2>3, <2>4 DEF TimerInv, Exact, FiniteHolders, loopVars, timerVars
  <2> QED BY <1>5, <2>1, <2>2, <2>4 DEF TimerInv
<1>6. CASE EndPass(th)
  <2>1. /\ At(th, "run", "timers") /\ Top(th).batch = {} /\ UNCHANGED <<host, loopVars>>
        /\ Continue(th, [Top(th) EXCEPT !.stage = "sleep"])
    BY <1>6 DEF EndPass
  <2> DEFINE c == [Top(th) EXCEPT !.stage = "sleep"]
  <2>2. /\ calls[th] # <<>> /\ Top(th).kind = "run" /\ RunSound(Top(th)) /\ Top(th).stage = "timers"
        /\ {"kind", "stage", "batch", "timer"} \subseteq DOMAIN Top(th)
    BY <1>4, <2>1
  <2>3. /\ c.kind = "run" /\ c.stage = "sleep" /\ c.batch = Top(th).batch
        /\ c.timer = Top(th).timer
    BY <2>2
  <2>4. Continue(th, c)
    BY <2>1
  <2> HIDE DEF c
  <2>5. RunSound(c)
    BY <2>1, <2>2, <2>3 DEF RunSound
  <2>6. calls[th] # <<>> /\ Top(th).kind = "run" /\ c.kind = "run"
    BY <2>2, <2>3
  <2>7. LoopCallsSound'
    BY <1>1, <2>4, <2>5, <2>6, RunGoesOn
  <2>8. PICK p : \A t :
                  /\ InBatches(t)' \ {p} = InBatches(t) \ {p}
                  /\ Handling(t)' \ {p} = Handling(t) \ {p}
                  /\ p \in InBatches(t) <=> t \in Top(th).batch
                  /\ p \in Handling(t) <=> Top(th).timer = t
                  /\ p \in InBatches(t)' <=> t \in c.batch
                  /\ p \in Handling(t)' <=> c.timer = t
    BY <1>1, <2>4, <2>5, <2>6, RunGoesOn
  <2>9. ASSUME NEW t \in Timers PROVE InBatches(t)' = InBatches(t) /\ Handling(t)' = Handling(t)
    BY <2>3, <2>8, SameButOne
  <2> QED BY <1>5, <2>1, <2>7, <2>9
<1>7. CASE Wake(th)
  <2>1. /\ calls[th] # <<>> /\ Top(th).kind = "run" /\ RunSound(Top(th)) /\ Top(th).stage = "sleep"
    BY <1>4, <1>7 DEF Wake
  <2>2. /\ UNCHANGED <<host, timers, owned, due, repeats, target, inCallback, runLoop>>
        /\ (Leave(th) /\ UNCHANGED refs) \/ NextPass(th)
    BY <1>7 DEF Wake
  <2>3. CASE Leave(th) /\ UNCHANGED refs
    <3>1. /\ LoopCallsSound'
          /\ \A t \in Timers : InBatches(t)' = InBatches(t) /\ Handling(t)' = Handling(t)
      BY <1>1, <2>1, <2>3, RunEnds, TimersAssumption
    <3>2. TimerTypes'
      BY <1>1, <2>2, <2>3 DEF TimerTypes
    <3>3. \A t \in Timers : Handled(t)'
      BY <2>2, <3>1 DEF TimerInv, Handled
    <3>4. \A t : InLoops(t)' = InLoops(t)
      BY <2>2 DEF InLoops
    <3>5. ASSUME host' = "up", NEW t \in Timers PROVE Exact(t)'
      BY <2>2, <2>3, <3>1, <3>4, <3>5 DEF TimerInv, Exact, FiniteHolders
    <3> QED BY <3>1, <3>2, <3>3, <3>5 DEF TimerInv
  <2>4. CASE NextPass(th)
    <3> DEFINE c == RunCall(th, FALSE, timers[th])
    <3>1. Continue(th, c) /\ RetainAll(th)
      BY <2>4 DEF NextPass
    <3>2. c.kind = "run" /\ RunSound(c) /\ c.batch = timers[th] /\ c.timer = NoTimer
      BY <1>2
    <3> HIDE DEF c
    <3>3. LoopCallsSound'
      BY <1>1, <2>1, <3>1, <3>2, RunGoesOn
    <3>4. PICK p : \A t :
                  /\ InBatches(t)' \ {p} = InBatches(t) \ {p}
                  /\ Handling(t)' \ {p} = Handling(t) \ {p}
                  /\ p \in InBatches(t) <=> t \in Top(th).batch
                  /\ p \in Handling(t) <=> Top(th).timer = t
                  /\ p \in InBatches(t)' <=> t \in c.batch
                  /\ p \in Handling(t)' <=> c.timer = t
      BY <1>1, <2>1, <3>1, <3>2, RunGoesOn
    <3>5. Top(th).batch = {} /\ Top(th).timer = NoTimer
      BY <2>1 DEF RunSound
    <3>6. ASSUME NEW t \in Timers PROVE Handling(t)' = Handling(t)
      BY <3>2, <3>4, <3>5, SameButOne
    <3> QED BY <2>2, <3>1, <3>2, <3>3, <3>4, <3>5, <3>6, PassBegins
  <2> QED BY <2>2, <2>3, <2>4
<1> QED BY <1>3, <1>6, <1>7

\* A timer of a pass that is not due, or is being called by another run.
LEMMA TimerSkipped ==
    ASSUME TimerInv, CallsFormed, CallsFormed', NEW th \in Threads, NEW t \in Timers,
           At(th, "run", "timers"), t \in Top(th).batch,
           Continue(th, [Top(th) EXCEPT !.batch = @ \ {t}]), Release(t, 1),
           UNCHANGED <<owned, inCallback>>
    PROVE  TimerInv'
<1> DEFINE c == [Top(th) EXCEPT !.batch = @ \ {t}]
<1>1. TimerTypes /\ LoopCallsSound /\ \A P : One(P) \in Nat
  BY DEF TimerInv, One
<1>2. /\ calls[th] # <<>> /\ Top(th).kind = "run" /\ Top(th).stage = "timers"
      /\ RunSound(Top(th)) /\ host = "up"
      /\ {"kind", "stage", "batch", "timer"} \subseteq DOMAIN Top(th)
  BY <1>1, RunTopFields
<1>3. /\ c.kind = "run" /\ c.stage = "timers" /\ c.timer = NoTimer
      /\ c.batch = Top(th).batch \ {t} /\ Top(th).timer = NoTimer
  BY <1>2 DEF RunSound
<1>4. Continue(th, c)
  OBVIOUS
<1> HIDE DEF c
<1>5. RunSound(c) /\ c.kind = "run"
  BY <1>2, <1>3 DEF RunSound
<1>6. calls[th] # <<>> /\ Top(th).kind = "run"
  BY <1>2
<1>7. LoopCallsSound'
  BY <1>1, <1>4, <1>5, <1>6, RunGoesOn
<1>8. PICK p : \A s :
                  /\ InBatches(s)' \ {p} = InBatches(s) \ {p}
                  /\ Handling(s)' \ {p} = Handling(s) \ {p}
                  /\ p \in InBatches(s) <=> s \in Top(th).batch
                  /\ p \in Handling(s) <=> Top(th).timer = s
                  /\ p \in InBatches(s)' <=> s \in c.batch
                  /\ p \in Handling(s)' <=> c.timer = s
  BY <1>1, <1>4, <1>5, <1>6, RunGoesOn
<1>9. \A s : Handling(s)' = Handling(s)
  <2> SUFFICES ASSUME NEW s PROVE Handling(s)' = Handling(s)
    OBVIOUS
  <2> QED BY <1>3, <1>8, SameButOne
<1>10. /\ LoopTypes' /\ timers' = timers
       /\ host' = "up" => /\ refs'[t] = refs[t] - 1
                          /\ \A s \in Timers \ {t} : refs'[s] = refs[s]
  BY <1>1, Releases
<1>11. TimerTypes'
  BY <1>1, <1>10 DEF TimerTypes, LoopTypes
<1>12. \A s \in Timers : Handled(s)'
  BY <1>9 DEF TimerInv, Handled
<1>13. ASSUME host' = "up", NEW s \in Timers PROVE Exact(s)'
  <2>1. Exact(s) /\ refs[s] \in Nat /\ refs'[s] \in Nat
    BY <1>1, <1>2, <1>11 DEF TimerInv, TimerTypes
  <2>2. InLoops(s)' = InLoops(s)
    BY <1>10 DEF InLoops
  <2>3. refs'[s] - One(p \in InBatches(s)') = refs[s] - One(p \in InBatches(s))
    <3>1. CASE s = t
      <4>1. p \in InBatches(s) /\ p \notin InBatches(s)'
        BY <1>3, <1>8, <3>1
      <4>2. One(p \in InBatches(s)) = 1 /\ One(p \in InBatches(s)') = 0
        BY <4>1 DEF One
      <4> QED BY <1>10, <1>13, <2>1, <3>1, <4>2
    <3>2. CASE s # t
      <4>1. p \in InBatches(s) <=> p \in InBatches(s)'
        BY <1>3, <1>8, <3>2
      <4>2. One(p \in InBatches(s)) = One(p \in InBatches(s)') /\ refs'[s] = refs[s]
        BY <1>10, <1>13, <3>2, <4>1 DEF One
      <4> QED BY <4>2
    <3> QED BY <3>1, <3>2
  <2>4. Balanced(s, s, p)
    BY <1>1, <1>8, <1>9, <2>1, <2>2, <2>3 DEF Balanced
  <2> QED BY <2>1, <2>4, Balance
<1> QED BY <1>7, <1>11, <1>12, <1>13 DEF TimerInv

\* One that is called: handle_timer retains it too.
LEMMA TimerCalled ==
    ASSUME TimerInv, CallsFormed, CallsFormed', NEW th \in Threads, NEW t \in Timers,
           At(th, "run", "timers"), t \in Top(th).batch, CanFire(t),
           Continue(th, [[Top(th) EXCEPT !.batch = @ \ {t}] EXCEPT !.stage = "callback",
                                                                   !.timer = t]),
           refs' = [refs EXCEPT ![t] = @ + 1],
           due' = IF repeats[t] THEN [due EXCEPT ![t] = "later"] ELSE due,
           inCallback' = [inCallback EXCEPT ![t] = TRUE],
           UNCHANGED <<host, timers, owned, runLoop>>
    PROVE  TimerInv'
<1> DEFINE c == [[Top(th) EXCEPT !.batch = @ \ {t}] EXCEPT !.stage = "callback", !.timer = t]
<1>1. TimerTypes /\ LoopCallsSound /\ \A P : One(P) \in Nat
  BY DEF TimerInv, One
<1>2. /\ calls[th] # <<>> /\ Top(th).kind = "run" /\ Top(th).stage = "timers"
      /\ RunSound(Top(th)) /\ host = "up"
      /\ {"kind", "stage", "batch", "timer"} \subseteq DOMAIN Top(th)
  BY <1>1, RunTopFields
<1>3. /\ c.kind = "run" /\ c.stage = "callback" /\ c.timer = t
      /\ c.batch = Top(th).batch \ {t}
  BY <1>2
<1>4. Continue(th, c) /\ Top(th).timer = NoTimer
  BY <1>2 DEF RunSound
<1> HIDE DEF c
<1>5. RunSound(c) /\ c.kind = "run"
  BY <1>2, <1>3 DEF RunSound
<1>6. calls[th] # <<>> /\ Top(th).kind = "run"
  BY <1>2
<1>7. LoopCallsSound'
  BY <1>1, <1>4, <1>5, <1>6, RunGoesOn
<1>8. PICK p : \A s :
                  /\ InBatches(s)' \ {p} = InBatches(s) \ {p}
                  /\ Handling(s)' \ {p} = Handling(s) \ {p}
                  /\ p \in InBatches(s) <=> s \in Top(th).batch
                  /\ p \in Handling(s) <=> Top(th).timer = s
                  /\ p \in InBatches(s)' <=> s \in c.batch
                  /\ p \in Handling(s)' <=> c.timer = s
  BY <1>1, <1>4, <1>5, <1>6, RunGoesOn
<1>9. Handling(t) = {}
  BY DEF CanFire, TimerInv, Handled
<1>10. Handling(t)' = {p}
  <2>1. \A x : x \in Handling(t)' <=> x = p
    BY <1>3, <1>8, <1>9
  <2> QED BY <2>1
<1>11. ASSUME NEW s \in Timers, s # t PROVE Handling(s)' = Handling(s)
  BY <1>3, <1>4, <1>8, <1>11, SameButOne, TimersAssumption
<1>12. TimerTypes'
  BY <1>1 DEF TimerTypes
<1>13. ASSUME NEW s \in Timers PROVE Handled(s)'
  <2>1. CASE s = t
    BY <1>1, <1>10, <2>1 DEF Handled, TimerTypes
  <2>2. CASE s # t
    BY <1>1, <1>11, <2>2 DEF Handled, TimerInv, TimerTypes
  <2> QED BY <2>1, <2>2
<1>14. ASSUME host' = "up", NEW s \in Timers PROVE Exact(s)'
  <2>1. Exact(s) /\ refs[s] \in Nat /\ refs'[s] \in Nat
    BY <1>1, <1>2, <1>12 DEF TimerInv, TimerTypes
  <2>2. InLoops(s)' = InLoops(s)
    BY DEF InLoops
  <2>3. refs'[s] - One(p \in InBatches(s)') - 2 * One(p \in Handling(s)')
            = refs[s] - One(p \in InBatches(s)) - 2 * One(p \in Handling(s))
    <3>1. CASE s = t
      <4>1. p \in InBatches(s) /\ p \notin InBatches(s)' /\ p \notin Handling(s) /\ p \in Handling(s)'
        BY <1>3, <1>8, <1>9, <3>1
      <4>2. /\ One(p \in InBatches(s)) = 1 /\ One(p \in InBatches(s)') = 0
            /\ One(p \in Handling(s)) = 0 /\ One(p \in Handling(s)') = 1
        BY <4>1 DEF One
      <4>3. refs'[s] = refs[s] + 1
        BY <1>1, <3>1 DEF TimerTypes
      <4> QED BY <2>1, <4>2, <4>3
    <3>2. CASE s # t
      <4>1. p \in InBatches(s) <=> p \in InBatches(s)'
        BY <1>3, <1>8, <3>2
      <4>2. One(p \in InBatches(s)) = One(p \in InBatches(s)') /\ refs'[s] = refs[s]
        BY <1>1, <3>2, <4>1 DEF One, TimerTypes
      <4>3. One(p \in Handling(s)) = One(p \in Handling(s)')
        BY <1>11, <3>2
      <4> QED BY <4>2, <4>3
    <3> QED BY <3>1, <3>2
  <2>4. Balanced(s, s, p)
    BY <1>1, <1>8, <2>1, <2>2, <2>3 DEF Balanced
  <2> QED BY <2>1, <2>4, Balance
<1> QED BY <1>7, <1>12, <1>13, <1>14 DEF TimerInv

\* The callback returns, and both references of the run are given up.
LEMMA TimerCallOver ==
    ASSUME TimerInv, CallsFormed, CallsFormed', NEW th \in Threads, EndTimer(th)
    PROVE  TimerInv'
<1> DEFINE c == [Top(th) EXCEPT !.stage = "timers", !.timer = NoTimer]
<1>0. PICK t : t = Top(th).timer
  OBVIOUS
<1>1. TimerTypes /\ LoopCallsSound /\ \A P : One(P) \in Nat
  BY DEF TimerInv, One
<1>2. /\ calls[th] # <<>> /\ Top(th).kind = "run" /\ Top(th).stage = "callback"
      /\ RunSound(Top(th)) /\ host = "up"
      /\ {"kind", "stage", "batch", "timer"} \subseteq DOMAIN Top(th)
  BY <1>1, RunTopFields DEF EndTimer
<1>3. /\ c.kind = "run" /\ c.stage = "timers" /\ c.timer = NoTimer
      /\ c.batch = Top(th).batch
  BY <1>2
<1>4. Continue(th, c) /\ t \in Timers /\ CallbackOver(t) /\ UNCHANGED owned
  BY <1>0, <1>2 DEF RunSound, EndTimer
<1>5. Release(t, 2) \/ Invalidate(t, 2)
  BY <1>0 DEF EndTimer
<1> HIDE DEF c
<1>6. RunSound(c) /\ c.kind = "run" /\ calls[th] # <<>> /\ Top(th).kind = "run"
  BY <1>2, <1>3 DEF RunSound
<1>7. LoopCallsSound'
  BY <1>1, <1>4, <1>6, RunGoesOn
<1>8. PICK p : \A s :
                  /\ InBatches(s)' \ {p} = InBatches(s) \ {p}
                  /\ Handling(s)' \ {p} = Handling(s) \ {p}
                  /\ p \in InBatches(s) <=> s \in Top(th).batch
                  /\ p \in Handling(s) <=> Top(th).timer = s
                  /\ p \in InBatches(s)' <=> s \in c.batch
                  /\ p \in Handling(s)' <=> c.timer = s
  BY <1>1, <1>4, <1>6, RunGoesOn
<1>9. p \in Handling(t)
  BY <1>0, <1>8
<1>10. \A s \in Timers \ {t} : p \notin Handling(s)
  BY <1>0, <1>8
<1>11. inCallback[t] /\ Handling(t) = {p}
  BY <1>4, <1>9 DEF TimerInv, Handled
<1>12. \A s \in Timers : p \notin Handling(s)'
  BY <1>3, <1>8, TimersAssumption
<1>13. Handling(t)' = {}
  <2>1. \A x : x \notin Handling(t)'
    BY <1>4, <1>8, <1>11, <1>12
  <2> QED BY <2>1
<1>14. ASSUME NEW s \in Timers, s # t PROVE Handling(s)' = Handling(s)
  BY <1>8, <1>10, <1>12, <1>14, SameButOne
<1>15. ASSUME NEW s PROVE InBatches(s)' = InBatches(s)
  BY <1>3, <1>8, SameButOne
<1>16. /\ LoopTypes'
       /\ host' = "up" =>
              \A s \in Timers : \E l :
                        /\ InLoops(s)' \ {l} = InLoops(s) \ {l}
                        /\ refs'[s] - One(l \in InLoops(s)') =
                              refs[s] - One(l \in InLoops(s)) - (IF s = t THEN 2 ELSE 0)
  <2>1. PICK n \in Nat : n = 2
    OBVIOUS
  <2>2. CASE Invalidate(t, n)
    BY <1>1, <1>4, <2>1, <2>2, Invalidates
  <2>3. CASE Release(t, n)
    <3>1. /\ LoopTypes' /\ timers' = timers
          /\ host' = "up" => /\ refs'[t] = refs[t] - 2
                             /\ \A s \in Timers \ {t} : refs'[s] = refs[s]
      BY <1>1, <1>4, <2>1, <2>3, Releases
    <3>2. ASSUME host' = "up", NEW s \in Timers
          PROVE  /\ InLoops(s)' \ {t} = InLoops(s) \ {t}
                 /\ refs'[s] - One(t \in InLoops(s)') =
                              refs[s] - One(t \in InLoops(s)) - (IF s = t THEN 2 ELSE 0)
      <4>1. InLoops(s)' = InLoops(s)
        BY <3>1 DEF InLoops
      <4>2. refs'[s] = refs[s] - (IF s = t THEN 2 ELSE 0)
        BY <1>1, <3>1, <3>2 DEF TimerTypes
      <4> QED BY <1>1, <4>1, <4>2 DEF TimerTypes
    <3> QED BY <3>1, <3>2
  <2> QED BY <1>5, <2>1, <2>2, <2>3
<1>17. inCallback' = [inCallback EXCEPT ![t] = FALSE]
  BY <1>4 DEF CallbackOver
<1>18. TimerTypes'
  BY <1>1, <1>4, <1>16, <1>17 DEF TimerTypes, LoopTypes
<1>19. ASSUME NEW s \in Timers PROVE Handled(s)'
  <2>1. CASE s = t
    BY <1>1, <1>13, <1>17, <2>1 DEF Handled, TimerTypes
  <2>2. CASE s # t
    BY <1>1, <1>14, <1>17, <2>2 DEF Handled, TimerInv, TimerTypes
  <2> QED BY <2>1, <2>2
<1>20. ASSUME host' = "up", NEW s \in Timers PROVE Exact(s)'
  <2>1. Exact(s) /\ refs[s] \in Nat /\ refs'[s] \in Nat
    BY <1>1, <1>2, <1>18 DEF TimerInv, TimerTypes
  <2>2. PICK l : /\ InLoops(s)' \ {l} = InLoops(s) \ {l}
                 /\ refs'[s] - One(l \in InLoops(s)') =
                        refs[s] - One(l \in InLoops(s)) - (IF s = t THEN 2 ELSE 0)
    BY <1>16, <1>20
  <2>3. One(p \in Handling(s)) - One(p \in Handling(s)') = IF s = t THEN 1 ELSE 0
    <3>1. CASE s = t
      BY <1>9, <1>13, <3>1 DEF One
    <3>2. CASE s # t
      BY <1>10, <1>12, <3>2 DEF One
    <3> QED BY <3>1, <3>2
  <2>4. InBatches(s)' = InBatches(s)
    BY <1>15
  <2> DEFINE h1 == One(p \in Handling(s))
             h2 == One(p \in Handling(s)')
             l1 == One(l \in InLoops(s))
             l2 == One(l \in InLoops(s)')
             b == One(p \in InBatches(s))
             d == IF s = t THEN 1 ELSE 0
  <2>5. h1 \in Nat /\ h2 \in Nat /\ l1 \in Nat /\ l2 \in Nat /\ b \in Nat /\ d \in Nat
    BY <1>1
  <2>6. refs'[s] - l2 = refs[s] - l1 - 2 * d /\ h1 - h2 = d
    BY <2>2, <2>3
  <2> DEFINE r1 == refs[s]
             r2 == refs'[s]
             o == One(s \in owned)
  <2>7. r1 \in Nat /\ r2 \in Nat /\ o \in Nat /\ r2 - l2 = r1 - l1 - 2 * d
    BY <1>1, <2>1, <2>6
  <2>8. One(s \in owned') = o /\ One(p \in InBatches(s)') = b
    BY <1>4, <2>4
  <2> HIDE DEF h1, h2, l1, l2, b, d, r1, r2, o
  <2>9. r2 - o - l2 - b - 2 * h2 = r1 - o - l1 - b - 2 * h1
    BY <2>5, <2>6, <2>7
  <2>10. Balanced(s, l, p)
    BY <1>8, <2>2, <2>8, <2>9 DEF Balanced, h1, h2, l1, l2, b, r1, r2, o
  <2> QED BY <2>1, <2>10, Balance
<1> QED BY <1>7, <1>18, <1>19, <1>20 DEF TimerInv

\* Nothing happens after a panic.
LEMMA Running == ASSUME Next PROVE host = "up"
<1> USE DEF GuestRuns, CanCall, At
<1>1. CASE TimePasses
  BY <1>1 DEF TimePasses, BecomeDue
<1>2. ASSUME NEW th \in Threads, GuestStep(th) \/ HostStep(th) \/ WakeUp(th) \/ GuestReturns(th)
      PROVE  host = "up"
  <2>1. ASSUME \/ TimerCalls(th) \/ RemoteCalls(th, LoopsRun) \/ RunLoopHost(th) \/ Wake(th)
               \/ EndTimer(th) \/ EndFire(th)
        PROVE  host = "up"
    BY <2>1 DEF TimerCalls, RemoteCalls, RunLoopHost, Wake, EndTimer, EndFire,
         NewTimer, ReleaseTimer, AddTimer, InvalidateTimer, SetFireDate, Fire,
         CancelPerformSelectors, CFRunLoopStop, BeginRun, HandleTimer, EndPass
  <2>2. ASSUME NotificationCalls(th) \/ NotificationHost(th) \/ EndDelivery(th)
        PROVE  host = "up"
    BY <2>2 DEF NotificationCalls, NotificationHost, EndDelivery, NewObserver, AddObserver,
         AddBlock, RemoveObserver, ReleaseObject, PostNotification, Deliver, EndPost
  <2>3. ASSUME OperationCalls(th) \/ EndStart(th) \/ EndMain(th) \/ EndCompletion(th)
        PROVE  host = "up"
    BY <2>3 DEF OperationCalls, EndStart, EndMain, EndCompletion, StartOperation,
         AddOperation, DropOperation, AddDependency, RemoveDependency, Cancel,
         CancelAllOperations, SetSuspended
  <2>4. ASSUME DispatchCalls(th) \/ EndBlock(th) \/ EndOnce(th)
        PROVE  host = "up"
    BY <2>4 DEF DispatchCalls, EndBlock, EndOnce, DispatchOnce, DispatchBlock,
         DispatchDirect, DispatchApply, SemaphoreWait, SemaphoreSignal
  <2>5. ASSUME MessageCalls(th) \/ BeginLoads(th) \/ MessageHost(th) \/ EndSend(th)
        PROVE  host = "up"
    BY <2>5 DEF MessageCalls, BeginLoads, MessageHost, EndSend, Send, SendSuper,
         InitializeNext, LoadNext, EndLoads, FindLoads, FindLoad, WalkLoads, EndWalk, AllFound
  <2>6. ASSUME \/ BlockCalls(th) \/ PropertyCalls(th)
               \/ SynchronizedHost(th) \/ SynchronizedReturns(th)
        PROVE  host = "up"
    BY <2>6 DEF BlockCalls, PropertyCalls, SynchronizedHost, SynchronizedReturns,
         ObjcSyncEnter, SyncEntered, ObjcSyncExit, NewValue, ReleaseValue, SetProperty,
         SetterLocked, ReadOld, EndCopy, Store, EndDealloc, EndSet, GetProperty, GetterLocked
  <2> QED BY <1>2, <2>1, <2>2, <2>3, <2>4, <2>5, <2>6
        DEF GuestStep, HostStep, WakeUp, GuestReturns
<1> QED BY <1>1, <1>2 DEF Next

\* A step is one of the run loops', or one that leaves them alone.
LEMMA LoopSteps ==
    ASSUME CallsFormed, [Next]_vars
    PROVE  \/ \E th \in Threads :
                 \/ TimerCalls(th) \/ RemoteCalls(th, LoopsRun)
                 \/ RunLoopHost(th) \/ Wake(th) \/ EndTimer(th) \/ EndFire(th)
           \/ \E t \in Timers : BecomeDue(t)
           \/ UNCHANGED loopVars /\ \E K : Step(K) /\ K \cap LoopKinds = {}
<1>1. CASE UNCHANGED vars
  <2>1. Step({}) /\ UNCHANGED loopVars
    BY <1>1 DEF Step, vars
  <2> QED BY <2>1
<1>2. CASE TimePasses
  BY <1>2 DEF TimePasses
<1>3. ASSUME NEW th \in Threads, GuestStep(th) \/ HostStep(th) \/ WakeUp(th) \/ GuestReturns(th)
      PROVE  \/ TimerCalls(th) \/ RemoteCalls(th, LoopsRun)
             \/ RunLoopHost(th) \/ Wake(th) \/ EndTimer(th) \/ EndFire(th)
             \/ UNCHANGED loopVars /\ \E K : Step(K) /\ K \cap LoopKinds = {}
  <2> USE DEF LoopKinds
  <2>1. ASSUME OnCenter, NotificationCalls(th) \/ NotificationHost(th) \/ EndDelivery(th)
        PROVE  UNCHANGED loopVars /\ Step(CenterKinds) /\ CenterKinds \cap LoopKinds = {}
    BY <2>1, CenterMoves DEF OnCenter, Step, CenterKinds
  <2>2. ASSUME OnOperations, OperationCalls(th) \/ EndStart(th) \/ EndMain(th) \/ EndCompletion(th)
        PROVE  UNCHANGED loopVars /\ Step(OpKinds) /\ OpKinds \cap LoopKinds = {}
    BY <2>2, OpMoves DEF OnOperations, Step, OpKinds
  <2>3. ASSUME OnDispatch, DispatchCalls(th) \/ EndBlock(th) \/ EndOnce(th)
        PROVE  UNCHANGED loopVars /\ Step(BlockKinds) /\ BlockKinds \cap LoopKinds = {}
    BY <2>3, BlockMoves DEF OnDispatch, Step, BlockKinds
  <2>4. ASSUME OnClasses, MessageCalls(th) \/ BeginLoads(th) \/ MessageHost(th) \/ EndSend(th)
        PROVE  UNCHANGED loopVars /\ Step(ClassKinds) /\ ClassKinds \cap LoopKinds = {}
    BY <2>4, ClassMoves DEF OnClasses, Step, ClassKinds
  <2>5. ASSUME OnLocks, \/ BlockCalls(th) \/ PropertyCalls(th)
                        \/ SynchronizedHost(th) \/ SynchronizedReturns(th)
        PROVE  UNCHANGED loopVars /\ Step(LockKinds) /\ LockKinds \cap LoopKinds = {}
    BY <2>5, LockMoves DEF OnLocks, Step, LockKinds
  <2> QED BY <1>3, <2>1, <2>2, <2>3, <2>4, <2>5
        DEF GuestStep, HostStep, WakeUp, GuestReturns
<1> QED BY <1>1, <1>2, <1>3 DEF Next

\* Every step keeps the references exact.
LEMMA TimerStep ==
    ASSUME TimerInv, CallsFormed, CallsFormed', [Next]_vars
    PROVE  TimerInv'
<1>1. CASE UNCHANGED loopVars /\ \E K : Step(K) /\ K \cap LoopKinds = {}
  <2>1. host' = "up" => host = "up"
    BY Running DEF vars
  <2> QED BY <1>1, <2>1, QuietTimers
<1>2. ASSUME NEW t \in Timers, BecomeDue(t) PROVE TimerInv'
  BY <1>2, TimersChange
<1>3. ASSUME NEW th \in Threads, TimerCalls(th) PROVE TimerInv'
  <2>1. CASE \E t \in Timers : \/ \E r \in BOOLEAN, g \in Targets : NewTimer(th, t, r, g)
                               \/ ReleaseTimer(th, t) \/ SetFireDate(th, t)
    BY <2>1, TimersChange
  <2>2. CASE \E t \in Timers : Fire(th, t)
    BY <2>2, TimersFired
  <2>3. CASE \E l \in Threads, g \in Targets : CancelPerformSelectors(th, l, g)
    BY <2>3, TimersCancelled
  <2>4. CASE \E single \in BOOLEAN : BeginRun(th, single)
    BY <2>4, RunsChange
  <2> QED BY <1>3, <2>1, <2>2, <2>3, <2>4 DEF TimerCalls
<1>4. ASSUME NEW th \in Threads, RemoteCalls(th, LoopsRun) PROVE TimerInv'
  <2>1. LoopsRun \subseteq Threads
    BY DEF LoopsRun
  <2>2. CASE \E t \in Timers : InvalidateTimer(th, t) \/ \E l \in Threads : AddTimer(th, t, l)
    BY <2>2, TimersChange
  <2>3. CASE \E l \in Threads : CFRunLoopStop(th, l)
    BY <2>3, TimersFired
  <2> QED BY <1>4, <2>1, <2>2, <2>3 DEF RemoteCalls
<1>5. ASSUME NEW th \in Threads, EndFire(th) PROVE TimerInv'
  BY <1>5, TimersFired
<1>6. ASSUME NEW th \in Threads, EndPass(th) \/ Wake(th) PROVE TimerInv'
  BY <1>6, RunsChange
<1>7. ASSUME NEW th \in Threads, NEW t \in Timers, HandleTimer(th, t) PROVE TimerInv'
  <2>1. At(th, "run", "timers") /\ t \in Top(th).batch
    BY <1>7 DEF HandleTimer
  <2>2. CASE ~ CanFire(t)
    <3>1. Continue(th, [Top(th) EXCEPT !.batch = @ \ {t}]) /\ Release(t, 1)
          /\ UNCHANGED <<owned, inCallback>>
      BY <1>7, <2>2 DEF HandleTimer
    <3> QED BY <2>1, <3>1, TimerSkipped
  <2>3. CASE CanFire(t)
    <3>1. /\ Continue(th, [[Top(th) EXCEPT !.batch = @ \ {t}]
                               EXCEPT !.stage = "callback", !.timer = t])
          /\ refs' = [refs EXCEPT ![t] = @ + 1]
          /\ due' = IF repeats[t] THEN [due EXCEPT ![t] = "later"] ELSE due
          /\ inCallback' = [inCallback EXCEPT ![t] = TRUE]
          /\ UNCHANGED <<host, timers, owned, runLoop>>
      BY <1>7, <2>3 DEF HandleTimer
    <3> QED BY <2>1, <2>3, <3>1, TimerCalled
  <2> QED BY <2>2, <2>3
<1>8. ASSUME NEW th \in Threads, RunLoopHost(th) PROVE TimerInv'
  BY <1>6, <1>7, <1>8 DEF RunLoopHost
<1>9. ASSUME NEW th \in Threads, EndTimer(th) PROVE TimerInv'
  BY <1>9, TimerCallOver
<1> QED BY <1>1, <1>2, <1>3, <1>4, <1>5, <1>6, <1>8, <1>9, LoopSteps

\* There is no timer at first.
LEMMA TimerInit == ASSUME Init PROVE TimerInv
<1>1. calls = [th \in Threads |-> <<>>] /\ RunLoopInit
  BY DEF Init
<1>2. TimerTypes
  BY <1>1 DEF RunLoopInit, TimerTypes
<1>3. CallsFormed /\ AllCalls = {}
  BY <1>1, CallsFormedInit, InCalls
<1>4. LoopCallsSound
  BY <1>1, <1>3 DEF LoopCallsSound
<1>5. ASSUME NEW t PROVE InBatches(t) = {} /\ Handling(t) = {}
  <2>1. \A place : place \notin InBatches(t) /\ place \notin Handling(t)
    BY <1>1, <1>3, InPlaces
  <2> QED BY <2>1
<1>6. \A t \in Timers : Handled(t)
  BY <1>1, <1>5 DEF RunLoopInit, Handled
<1>7. ASSUME NEW t \in Timers PROVE Exact(t)
  <2>1. InLoops(t) = {} /\ t \notin owned /\ refs[t] = 0
    BY <1>1 DEF RunLoopInit, InLoops
  <2>2. One(t \in owned) = 0
    BY <2>1 DEF One
  <2>3. IsFiniteSet({}) /\ Cardinality({}) = 0
    BY FS_EmptySet
  <2>4. FiniteHolders(t)
    BY <1>5, <2>1, <2>3 DEF FiniteHolders
  <2>5. /\ Cardinality(InLoops(t)) = 0 /\ Cardinality(InBatches(t)) = 0
        /\ Cardinality(Handling(t)) = 0
    BY <1>5, <2>1, <2>3
  <2>6. refs[t] = One(t \in owned) + Cardinality(InLoops(t))
                 + Cardinality(InBatches(t)) + 2 * Cardinality(Handling(t))
    BY <2>1, <2>2, <2>5
  <2> QED BY <2>4, <2>6 DEF Exact
<1> QED BY <1>2, <1>4, <1>6, <1>7 DEF TimerInv

\* For all programs, also those that misuse timers, and all numbers of
\* threads and timers, a timer has the references of those that hold it, as
\* long as nothing has failed.
THEOREM TimersCounted == Spec => []TimerRefsExact
<1>1. Init => TimerInv
  BY TimerInit
<1>2. TimerInv /\ CallsFormed /\ CallsFormed' /\ [Next]_vars => TimerInv'
  BY TimerStep
<1>3. TimerInv => TimerRefsExact
  BY DEF TimerInv, Exact, InLoops, InBatches, One, TimerRefsExact
<1> QED BY <1>1, <1>2, <1>3, CallsFormedAlways, PTL DEF Spec

-----------------------------------------------------------------------------
\* A timer is in the loop it names only, and will fire again.
Linked == \A l \in Threads : \A t \in timers[l] : runLoop[t] = l /\ due[t] # "none"

\* The guest adds valid timers, to one loop each.
LawfulTimers == {"two_loops", "add_invalid"} \cap Misuse = {}

\* A release leaves the timers in loops as they are.
LEMMA ReleasedLinked ==
    ASSUME TimerTypes, Linked, NEW t \in Timers, NEW n, Release(t, n)
    PROVE  Linked'
<1>1. /\ timers \in [Threads -> SUBSET Timers] /\ due \in [Timers -> {"none", "later", "now"}]
      /\ runLoop \in [Timers -> Threads \cup {NoLoop}]
  BY DEF TimerTypes
<1>2. CASE refs[t] < n \/ (refs[t] = n /\ Listed(t))
  BY <1>2 DEF Release, Panic, Linked
<1>3. CASE ~ (refs[t] < n \/ (refs[t] = n /\ Listed(t)))
  <2>1. /\ due' = IF refs[t] = n THEN [due EXCEPT ![t] = "none"] ELSE due
        /\ runLoop' = IF refs[t] = n THEN [runLoop EXCEPT ![t] = NoLoop] ELSE runLoop
        /\ timers' = timers
    BY <1>3 DEF Release
  <2>2. ASSUME refs[t] = n, NEW l \in Threads PROVE t \notin timers[l]
    <3>1. t \in timers[l] => runLoop[t] = l /\ l # NoLoop
      BY TimersAssumption DEF Linked
    <3> QED BY <1>3, <2>2, <3>1 DEF Listed
  <2>3. ASSUME NEW l \in Threads, NEW s \in timers[l]
        PROVE  runLoop'[s] = l /\ due'[s] # "none"
    <3>1. s \in Timers /\ runLoop[s] = l /\ due[s] # "none"
      BY <1>1 DEF Linked
    <3>2. s # t \/ refs[t] # n
      BY <2>2
    <3> QED BY <1>1, <2>1, <3>1, <3>2
  <2> QED BY <2>1, <2>3 DEF Linked
<1> QED BY <1>2, <1>3

\* The invalidation takes the timer out of its loop.
LEMMA InvalidatedLinked ==
    ASSUME TimerTypes, Linked, NEW t \in Timers, NEW n, Invalidate(t, n)
    PROVE  Linked'
<1>1. /\ timers \in [Threads -> SUBSET Timers] /\ due \in [Timers -> {"none", "later", "now"}]
      /\ runLoop \in [Timers -> Threads \cup {NoLoop}]
  BY DEF TimerTypes
<1>2. CASE refs[t] < n + (IF Listed(t) THEN 1 ELSE 0) \/ refs[t] = 0
  BY <1>2 DEF Invalidate, Panic, Linked
<1>3. CASE ~ (refs[t] < n + (IF Listed(t) THEN 1 ELSE 0) \/ refs[t] = 0)
  <2>1. /\ due' = [due EXCEPT ![t] = "none"]
        /\ runLoop' = [runLoop EXCEPT ![t] = NoLoop]
        /\ timers' = IF Listed(t) THEN [timers EXCEPT ![runLoop[t]] = @ \ {t}] ELSE timers
    BY <1>3 DEF Invalidate
  <2>2. ASSUME NEW l \in Threads PROVE timers'[l] \subseteq timers[l] \ {t}
    <3>1. t \in timers[l] => Listed(t) /\ runLoop[t] = l
      BY TimersAssumption DEF Linked, Listed
    <3> QED BY <1>1, <2>1, <3>1
  <2>3. ASSUME NEW l \in Threads, NEW s \in timers'[l]
        PROVE  runLoop'[s] = l /\ due'[s] # "none"
    <3>1. s \in Timers /\ s # t /\ runLoop[s] = l /\ due[s] # "none"
      BY <1>1, <2>2 DEF Linked
    <3> QED BY <1>1, <2>1, <3>1
  <2> QED BY <2>3 DEF Linked
<1> QED BY <1>2, <1>3

\* The innermost call of a thread is in progress.
LEMMA TopInCalls ==
    ASSUME CallsFormed, NEW th \in Threads, calls[th] # <<>>
    PROVE  Top(th) \in AllCalls
<1>1. Len(calls[th]) \in Nat \ {0} /\ Top(th) = calls[th][Len(calls[th])]
  BY Stacks DEF CallsFormed
<1>2. Len(calls[th]) \in 1 .. Len(calls[th])
  BY <1>1
<1> QED BY <1>1, <1>2, InCalls

\* Every step leaves them in the loop they name.
LEMMA LinkedStep ==
    ASSUME LawfulTimers, TimerInv, Linked, CallsFormed, [Next]_vars
    PROVE  Linked'
<1>1. TimerTypes
  BY DEF TimerInv
<1>2. /\ timers \in [Threads -> SUBSET Timers] /\ due \in [Timers -> {"none", "later", "now"}]
      /\ runLoop \in [Timers -> Threads \cup {NoLoop}]
  BY <1>1 DEF TimerTypes
<1>3. ASSUME UNCHANGED <<timers, due, runLoop>> PROVE Linked'
  BY <1>3 DEF Linked
<1>4. ASSUME NEW t \in Timers, NEW v, v # "none", due' = [due EXCEPT ![t] = v],
             UNCHANGED <<timers, runLoop>>
      PROVE  Linked'
  BY <1>2, <1>4 DEF Linked
<1>5. ASSUME NEW th \in Threads, NEW t \in Timers, NEW r, NEW g, NewTimer(th, t, r, g)
      PROVE  Linked'
  <2>1. /\ host = "up" /\ refs[t] = 0 /\ timers' = timers
        /\ due' = [due EXCEPT ![t] = "later"] /\ runLoop' = [runLoop EXCEPT ![t] = NoLoop]
    BY <1>5 DEF NewTimer, GuestRuns
  <2>2. InLoops(t) = {}
    BY <2>1, NobodyHas DEF TimerInv
  <2>3. \A l \in Threads : t \notin timers[l]
    BY <2>2 DEF InLoops
  <2> QED BY <1>2, <2>1, <2>3 DEF Linked
<1>6. ASSUME NEW th \in Threads, NEW t \in Timers, NEW l \in Threads, AddTimer(th, t, l)
      PROVE  Linked'
  <2>1. "two_loops" \notin Misuse /\ "add_invalid" \notin Misuse
    BY DEF LawfulTimers
  <2>2. /\ runLoop[t] = NoLoop /\ due[t] # "none" /\ due' = due
        /\ timers' = [timers EXCEPT ![l] = @ \cup {t}]
        /\ runLoop' = [runLoop EXCEPT ![t] = l]
    BY <1>6, <2>1 DEF AddTimer, Lawful
  <2>3. \A m \in Threads : t \notin timers[m]
    BY <2>2, TimersAssumption DEF Linked
  <2>4. ASSUME NEW m \in Threads, NEW s \in timers'[m]
        PROVE  runLoop'[s] = m /\ due'[s] # "none"
    <3>1. CASE s = t
      <4>1. m = l
        BY <1>2, <2>2, <2>3, <3>1
      <4> QED BY <1>2, <2>2, <3>1, <4>1
    <3>2. CASE s # t
      <4>1. s \in timers[m] /\ s \in Timers
        BY <1>2, <2>2, <3>2
      <4> QED BY <1>2, <2>2, <3>2, <4>1 DEF Linked
    <3> QED BY <3>1, <3>2
  <2> QED BY <2>4 DEF Linked
<1>7. ASSUME NEW th \in Threads, NEW l \in Threads, NEW g, CancelPerformSelectors(th, l, g)
      PROVE  Linked'
  <2> DEFINE C == {t \in timers[l] : target[t] = g}
             gone == {t \in C : Listed(t)}
  <2>1. /\ due' = [t \in Timers |-> IF t \in C THEN "none" ELSE due[t]]
        /\ runLoop' = [t \in Timers |-> IF t \in C THEN NoLoop ELSE runLoop[t]]
        /\ timers' = [m \in Threads |-> timers[m] \ {t \in gone : runLoop[t] = m}]
    BY <1>7 DEF CancelPerformSelectors
  <2>2. \A t \in C : runLoop[t] = l /\ t \in gone
    BY TimersAssumption DEF Linked, Listed
  <2>3. \A m \in Threads : \A s \in timers[m] : runLoop[s] = m /\ due[s] # "none" /\ s \in Timers
    BY <1>2 DEF Linked
  <2> HIDE DEF C, gone
  <2>4. ASSUME NEW m \in Threads, NEW s \in timers'[m]
        PROVE  runLoop'[s] = m /\ due'[s] # "none"
    <3>1. s \in timers[m] /\ ~ (s \in gone /\ runLoop[s] = m)
      BY <2>1
    <3>2. s \notin C
      BY <2>2, <2>3, <3>1
    <3> QED BY <2>1, <2>3, <3>1, <3>2
  <2> QED BY <2>4 DEF Linked
<1>8. ASSUME NEW th \in Threads, TimerCalls(th) PROVE Linked'
  <2>1. ASSUME NEW t \in Timers,
               \/ \E r \in BOOLEAN, g \in Targets : NewTimer(th, t, r, g)
               \/ ReleaseTimer(th, t) \/ SetFireDate(th, t) \/ Fire(th, t)
        PROVE  Linked'
    <3>1. CASE ReleaseTimer(th, t)
      BY <1>1, <3>1, ReleasedLinked DEF ReleaseTimer
    <3>2. CASE SetFireDate(th, t)
      BY <1>4, <3>2 DEF SetFireDate
    <3>3. CASE Fire(th, t)
      BY <1>3, <3>3 DEF Fire, loopVars, timerVars
    <3> QED BY <1>5, <2>1, <3>1, <3>2, <3>3
  <2>2. CASE \E l \in Threads, g \in Targets : CancelPerformSelectors(th, l, g)
    BY <1>7, <2>2
  <2>3. CASE \E single \in BOOLEAN : BeginRun(th, single)
    BY <1>3, <2>3 DEF BeginRun
  <2> QED BY <1>8, <2>1, <2>2, <2>3 DEF TimerCalls
<1>9. ASSUME NEW th \in Threads, RemoteCalls(th, LoopsRun) PROVE Linked'
  <2>1. CASE \E t \in Timers : InvalidateTimer(th, t)
    BY <1>1, <2>1, InvalidatedLinked DEF InvalidateTimer
  <2>2. CASE \E t \in Timers : \E l \in LoopsRun : AddTimer(th, t, l)
    BY <1>6, <2>2 DEF LoopsRun
  <2>3. CASE \E l \in LoopsRun : CFRunLoopStop(th, l)
    BY <1>3, <2>3 DEF CFRunLoopStop, timerVars
  <2> QED BY <1>9, <2>1, <2>2, <2>3 DEF RemoteCalls
<1>10. ASSUME NEW th \in Threads, RunLoopHost(th) \/ Wake(th) PROVE Linked'
  <2>1. CASE EndPass(th) \/ Wake(th)
    BY <1>3, <2>1 DEF EndPass, Wake, loopVars, timerVars
  <2>2. ASSUME NEW t \in Timers, HandleTimer(th, t) PROVE Linked'
    <3>1. CASE Release(t, 1)
      BY <1>1, <3>1, ReleasedLinked
    <3>2. CASE /\ due' = IF repeats[t] THEN [due EXCEPT ![t] = "later"] ELSE due
               /\ UNCHANGED <<timers, runLoop>>
      BY <1>3, <1>4, <3>2
    <3> QED BY <2>2, <3>1, <3>2 DEF HandleTimer
  <2> QED BY <1>10, <2>1, <2>2 DEF RunLoopHost
<1>11. ASSUME NEW th \in Threads, EndTimer(th) PROVE Linked'
  <2>1. Top(th).timer \in Timers
    BY <1>11, RunTopFields DEF EndTimer, TimerInv, RunSound
  <2>2. PICK t \in Timers : t = Top(th).timer
    BY <2>1
  <2>3. Release(t, 2) \/ Invalidate(t, 2)
    BY <1>11, <2>2 DEF EndTimer
  <2> QED BY <1>1, <2>3, ReleasedLinked, InvalidatedLinked
<1>12. ASSUME NEW th \in Threads, EndFire(th) PROVE Linked'
  <2>1. calls[th] # <<>> /\ Top(th).kind = "fire"
    BY <1>12 DEF EndFire, At
  <2>2. Top(th) \in AllCalls
    BY <2>1, TopInCalls
  <2>3. Top(th).timer \in Timers
    BY <2>1, <2>2 DEF TimerInv, LoopCallsSound
  <2>4. PICK t \in Timers : t = Top(th).timer
    BY <2>3
  <2>5. UNCHANGED <<timers, refs, due, runLoop, host>> \/ Invalidate(t, 0)
    BY <1>12, <2>4 DEF EndFire
  <2> QED BY <1>1, <1>3, <2>5, InvalidatedLinked
<1>13. ASSUME NEW t \in Timers, BecomeDue(t) PROVE Linked'
  BY <1>4, <1>13 DEF BecomeDue
<1>14. UNCHANGED loopVars => Linked'
  BY <1>3 DEF loopVars, timerVars
<1> QED BY <1>8, <1>9, <1>10, <1>11, <1>12, <1>13, <1>14, LoopSteps

\* For all numbers of threads, timers and nested runs, a timer is called by
\* one run at a time, and a timer in a run loop will fire again.
THEOREM TimersInLoops == ASSUME LawfulTimers PROVE Spec => []TimersConsistent
<1>1. Init => TimerInv /\ Linked
  BY TimerInit DEF Init, RunLoopInit, Linked
<1>2. TimerInv /\ Linked /\ CallsFormed /\ CallsFormed' /\ [Next]_vars => (TimerInv /\ Linked)'
  BY TimerStep, LinkedStep
<1>3. TimerInv /\ Linked => TimersConsistent
  <2>1. ASSUME TimerInv, NEW t \in Timers PROVE Cardinality(Handling(t)) <= 1
    <3>1. CASE Handling(t) = {}
      <4>1. Cardinality(Handling(t)) = 0
        BY <3>1, FS_EmptySet
      <4> QED BY <4>1
    <3>2. ASSUME NEW p, Handling(t) = {p} PROVE Cardinality(Handling(t)) <= 1
      <4>1. Cardinality(Handling(t)) = 1
        BY <3>2, FS_Singleton
      <4> QED BY <4>1
    <3> QED BY <2>1, <3>1, <3>2 DEF TimerInv, Handled
  <2> QED BY <2>1 DEF TimersConsistent, NotReentered, InvalidLeave, Linked
<1> QED BY <1>1, <1>2, <1>3, CallsFormedAlways, PTL DEF Spec

-----------------------------------------------------------------------------
(***************************************************************************)
(* No panic.  A timer has at least the references of those that hold it,   *)
(* so that each of them can release it.                                    *)
(***************************************************************************)

\* The guest keeps the timers it fires, until fire has returned.
LawfulFires == {"fire_unowned", "release_fired"} \cap Misuse = {}

FiredAreOwned == \A c \in AllCalls : c.kind = "fire" => c.timer \in owned

\* What the run loops do in the host.
LoopStep ==
    \E th \in Threads :
        \/ TimerCalls(th) \/ RemoteCalls(th, LoopsRun)
        \/ RunLoopHost(th) \/ Wake(th) \/ EndTimer(th) \/ EndFire(th)

\* Nothing is fired at first.
LEMMA OwnedInit == ASSUME Init PROVE FiredAreOwned
<1>1. AllCalls = {}
  BY CallsFormedInit, InCalls DEF Init
<1> QED BY <1>1 DEF FiredAreOwned

\* Every step leaves the guest the timers that it fires.
LEMMA OwnedStep ==
    ASSUME LawfulFires, CallsFormed, CallsFormed', FiredAreOwned, [Next]_vars
    PROVE  FiredAreOwned'
<1>1. ASSUME NEW t, owned \subseteq owned' \cup {t},
             \A c \in AllCalls : c.kind = "fire" => c.timer # t,
             \A c \in AllCalls' : c \in AllCalls \/ c.kind # "fire"
      PROVE  FiredAreOwned'
  BY <1>1 DEF FiredAreOwned
<1>2. ASSUME owned \subseteq owned',
             \A c \in AllCalls' : c \in AllCalls \/ c.kind # "fire"
      PROVE  FiredAreOwned'
  BY <1>2 DEF FiredAreOwned
<1>3. ASSUME UNCHANGED calls PROVE \A c \in AllCalls' : c \in AllCalls
  BY <1>3 DEF AllCalls
<1>4. ASSUME NEW th \in Threads, calls[th] # <<>>, NEW c, c.kind # "fire", Continue(th, c)
      PROVE  \A d \in AllCalls' : d \in AllCalls \/ d.kind # "fire"
  BY <1>4, CallsNew
<1>5. ASSUME NEW th \in Threads, calls[th] # <<>>, Leave(th)
      PROVE  \A d \in AllCalls' : d \in AllCalls
  BY <1>5, CallsNew
<1>6. ASSUME NEW th \in Threads, TimerCalls(th) PROVE FiredAreOwned'
  <2>1. ASSUME NEW t \in Timers, \E r \in BOOLEAN, g \in Targets : NewTimer(th, t, r, g)
        PROVE  FiredAreOwned'
    BY <1>2, <1>3, <2>1 DEF NewTimer
  <2>2. ASSUME NEW t \in Timers, ReleaseTimer(th, t) PROVE FiredAreOwned'
    <3>1. UNCHANGED calls /\ owned' = owned \ {t} /\ ~ Fired(t)
      BY <2>2 DEF ReleaseTimer, Lawful, LawfulFires
    <3> QED BY <1>1, <1>3, <3>1 DEF Fired
  <2>3. ASSUME NEW t \in Timers, SetFireDate(th, t) PROVE FiredAreOwned'
    BY <1>2, <1>3, <2>3 DEF SetFireDate
  <2>4. ASSUME NEW t \in Timers, Fire(th, t) PROVE FiredAreOwned'
    <3>1. t \in owned /\ Enter(th, FireCall(t)) /\ owned' = owned
      BY <2>4 DEF Fire, Lawful, LawfulFires, loopVars, timerVars
    <3>2. \A c \in AllCalls' : c = FireCall(t) \/ c \in AllCalls
      BY <3>1, CallsNew
    <3>3. FireCall(t).timer = t
      BY DEF FireCall
    <3> QED BY <3>1, <3>2, <3>3 DEF FiredAreOwned
  <2>5. CASE \E l \in Threads, g \in Targets : CancelPerformSelectors(th, l, g)
    BY <1>2, <1>3, <2>5 DEF CancelPerformSelectors
  <2>6. ASSUME NEW single \in BOOLEAN, BeginRun(th, single) PROVE FiredAreOwned'
    <3>1. Enter(th, RunCall(th, single, timers[th])) /\ owned' = owned
      BY <2>6 DEF BeginRun
    <3>2. \A c \in AllCalls' : c = RunCall(th, single, timers[th]) \/ c \in AllCalls
      BY <3>1, CallsNew
    <3>3. RunCall(th, single, timers[th]).kind # "fire"
      BY DEF RunCall
    <3> QED BY <1>2, <3>1, <3>2, <3>3
  <2> QED BY <1>6, <2>1, <2>2, <2>3, <2>4, <2>5, <2>6 DEF TimerCalls
<1>7. ASSUME NEW th \in Threads, RemoteCalls(th, LoopsRun) PROVE FiredAreOwned'
  BY <1>2, <1>3, <1>7 DEF RemoteCalls, InvalidateTimer, AddTimer, CFRunLoopStop, timerVars
<1>8. ASSUME NEW th \in Threads, NEW stage, At(th, "run", stage),
             \/ Leave(th)
             \/ \E c : c.kind = "run" /\ Continue(th, c),
             owned' = owned
      PROVE  FiredAreOwned'
  <2>1. calls[th] # <<>>
    BY <1>8 DEF At
  <2> QED BY <1>2, <1>4, <1>5, <1>8, <2>1
<1>9. ASSUME NEW th \in Threads, NEW stage, At(th, "run", stage)
      PROVE  /\ \A s : [Top(th) EXCEPT !.stage = s].kind = "run"
             /\ \A s, t : [Top(th) EXCEPT !.stage = s, !.timer = t].kind = "run"
             /\ \A t : [Top(th) EXCEPT !.batch = @ \ {t}].kind = "run"
             /\ \A s, t : [[Top(th) EXCEPT !.batch = @ \ {t}] EXCEPT !.stage = s, !.timer = t].kind = "run"
  <2>1. calls[th] # <<>> /\ Top(th).kind = "run"
    BY <1>9 DEF At
  <2>2. {"kind", "stage", "batch", "timer"} \subseteq DOMAIN Top(th)
    BY <2>1, TopFormed DEF Formed
  <2> QED BY <2>1, <2>2
<1>10. ASSUME NEW th \in Threads, EndPass(th) PROVE FiredAreOwned'
  BY <1>8, <1>9, <1>10 DEF EndPass, loopVars, timerVars
<1>11. ASSUME NEW th \in Threads, Wake(th) PROVE FiredAreOwned'
  <2>1. At(th, "run", "sleep") /\ owned' = owned /\ (Leave(th) \/ NextPass(th))
    BY <1>11 DEF Wake
  <2> QED BY <1>8, <2>1 DEF NextPass, RunCall
<1>12. ASSUME NEW th \in Threads, EndTimer(th) PROVE FiredAreOwned'
  BY <1>8, <1>9, <1>12 DEF EndTimer
<1>13. ASSUME NEW th \in Threads, NEW t \in Timers, HandleTimer(th, t) PROVE FiredAreOwned'
  <2>1. At(th, "run", "timers") /\ owned' = owned
    BY <1>13 DEF HandleTimer
  <2>2. \/ Continue(th, [Top(th) EXCEPT !.batch = @ \ {t}])
        \/ Continue(th, [[Top(th) EXCEPT !.batch = @ \ {t}] EXCEPT !.stage = "callback", !.timer = t])
    BY <1>13 DEF HandleTimer
  <2> QED BY <1>8, <1>9, <2>1, <2>2
<1>14. ASSUME NEW th \in Threads, EndFire(th) PROVE FiredAreOwned'
  BY <1>2, <1>5, <1>14 DEF EndFire, At
<1>15. ASSUME NEW K, Step(K), K \cap LoopKinds = {}, UNCHANGED loopVars PROVE FiredAreOwned'
  <2>1. \A c \in AllCalls' : c \in AllCalls \/ c.kind # "fire"
    BY <1>15, ForeignCalls DEF LoopKinds
  <2> QED BY <1>2, <1>15, <2>1 DEF loopVars, timerVars
<1>16. ASSUME NEW t \in Timers, BecomeDue(t) PROVE FiredAreOwned'
  BY <1>2, <1>3, <1>16 DEF BecomeDue
<1> QED BY <1>6, <1>7, <1>10, <1>11, <1>12, <1>13, <1>14, <1>15, <1>16, LoopSteps DEF RunLoopHost

\* Everybody who has a timer counts.
LEMMA AtLeast ==
    ASSUME TimerTypes, NEW t \in Timers, Exact(t), NEW p
    PROVE  /\ refs[t] \in Nat
           /\ refs[t] >= One(t \in owned) + One(Listed(t))
           /\ p \in InBatches(t) => refs[t] >= 1 + One(Listed(t))
           /\ p \in Handling(t) => refs[t] >= 2 + One(Listed(t))
<1> DEFINE a == Cardinality(InLoops(t))
           b == Cardinality(InBatches(t))
           h == Cardinality(Handling(t))
           o == One(t \in owned)
           l == One(Listed(t))
           r == refs[t]
<1>1. /\ a \in Nat /\ b \in Nat /\ h \in Nat /\ o \in Nat /\ l \in Nat /\ r \in Nat
      /\ r = o + a + b + 2 * h
  <2>1. a \in Nat /\ b \in Nat /\ h \in Nat
    BY FS_CardinalityType DEF Exact, FiniteHolders
  <2>2. o \in Nat /\ l \in Nat /\ r \in Nat
    BY DEF One, TimerTypes
  <2>3. r = o + a + b + 2 * h
    BY DEF Exact
  <2> QED BY <2>1, <2>2, <2>3
<1>2. ASSUME NEW S, NEW x \in S, IsFiniteSet(S) PROVE Cardinality(S) \in Nat \ {0}
  <2>1. Cardinality(S) \in Nat
    BY <1>2, FS_CardinalityType
  <2>2. Cardinality(S) # 0
    BY <1>2, FS_EmptySet
  <2> QED BY <2>1, <2>2
<1>3. a >= l
  <2>1. CASE Listed(t)
    <3>1. runLoop[t] \in InLoops(t)
      BY <2>1 DEF Listed, InLoops, TimerTypes
    <3>2. a \in Nat \ {0} /\ l = 1
      BY <1>2, <2>1, <3>1 DEF Exact, FiniteHolders, One
    <3> QED BY <3>2
  <2>2. CASE ~ Listed(t)
    <3>1. l = 0
      BY <2>2 DEF One
    <3> QED BY <1>1, <3>1
  <2> QED BY <2>1, <2>2
<1>4. p \in InBatches(t) => b \in Nat \ {0}
  BY <1>2 DEF Exact, FiniteHolders
<1>5. p \in Handling(t) => h \in Nat \ {0}
  BY <1>2 DEF Exact, FiniteHolders
<1> HIDE DEF a, b, h, o, l, r
<1>6. r >= o + l
  BY <1>1, <1>3
<1>7. p \in InBatches(t) => r >= 1 + l
  BY <1>1, <1>3, <1>4
<1>8. p \in Handling(t) => r >= 2 + l
  BY <1>1, <1>3, <1>5
<1> QED BY <1>1, <1>6, <1>7, <1>8 DEF o, l, r

\* No release of a timer and no look at a timer fails.
LEMMA TimersHeld ==
    ASSUME TimerInv, FiredAreOwned, CallsFormed, host = "up", LoopStep
    PROVE  host' = "up"
<1>1. TimerTypes /\ LoopCallsSound /\ \A t \in Timers : Exact(t)
  BY DEF TimerInv
<1>2. \A t : One(Listed(t)) = IF Listed(t) THEN 1 ELSE 0
  BY DEF One
<1>3. ASSUME NEW t \in Timers, NEW n \in Nat, n # 0, refs[t] >= n + One(Listed(t)),
             Release(t, n) \/ Invalidate(t, n)
      PROVE  host' = "up"
  <2>1. refs[t] \in Nat
    BY <1>1, <1>3 DEF TimerTypes
  <2>2. CASE Listed(t)
    <3>1. refs[t] >= n + 1
      BY <1>2, <1>3, <2>2
    <3>2. ~ (refs[t] < n) /\ refs[t] # n /\ refs[t] # 0 /\ ~ (refs[t] < n + 1)
      BY <2>1, <3>1
    <3> QED BY <1>3, <2>2, <3>2 DEF Release, Invalidate
  <2>3. CASE ~ Listed(t)
    <3>1. refs[t] >= n + 0
      BY <1>2, <1>3, <2>3
    <3>2. ~ (refs[t] < n) /\ refs[t] # 0 /\ ~ (refs[t] < n + 0)
      BY <1>3, <2>1, <3>1
    <3> QED BY <1>3, <2>3, <3>2 DEF Release, Invalidate
  <2> QED BY <2>2, <2>3
<1>4. ASSUME NEW t \in Timers, refs[t] >= One(Listed(t)), refs[t] # 0, Invalidate(t, 0)
      PROVE  host' = "up"
  <2>1. refs[t] \in Nat
    BY <1>1, <1>4 DEF TimerTypes
  <2> QED BY <1>2, <1>4, <2>1 DEF Invalidate
<1>5. ASSUME NEW t \in Timers, t \in owned
      PROVE  refs[t] >= 1 + One(Listed(t)) /\ refs[t] # 0 /\ refs[t] >= One(Listed(t))
  <2>1. /\ refs[t] \in Nat /\ One(t \in owned) = 1
        /\ refs[t] >= One(t \in owned) + One(Listed(t))
    BY <1>1, <1>5, AtLeast DEF One
  <2>2. One(Listed(t)) \in Nat
    BY DEF One
  <2> QED BY <2>1, <2>2
<1>6. ASSUME NEW th \in Threads, TimerCalls(th) PROVE host' = "up"
  <2>1. ASSUME NEW t \in Timers, ReleaseTimer(th, t) PROVE host' = "up"
    <3>1. t \in owned /\ Release(t, 1)
      BY <2>1 DEF ReleaseTimer
    <3>2. PICK n \in Nat : n = 1
      OBVIOUS
    <3> QED BY <1>3, <1>5, <3>1, <3>2
  <2>2. ASSUME NEW t \in Timers,
               \/ \E r \in BOOLEAN, g \in Targets : NewTimer(th, t, r, g)
               \/ SetFireDate(th, t) \/ Fire(th, t)
        PROVE  host' = "up"
    BY <2>2 DEF NewTimer, SetFireDate, Fire
  <2>3. CASE \E l \in Threads, g \in Targets : CancelPerformSelectors(th, l, g)
    BY <2>3 DEF CancelPerformSelectors
  <2>4. CASE \E single \in BOOLEAN : BeginRun(th, single)
    BY <2>4 DEF BeginRun
  <2> QED BY <1>6, <2>1, <2>2, <2>3, <2>4 DEF TimerCalls
<1>7. ASSUME NEW th \in Threads, RemoteCalls(th, LoopsRun) PROVE host' = "up"
  <2>1. ASSUME NEW t \in Timers, InvalidateTimer(th, t) PROVE host' = "up"
    <3>1. Invalidate(t, 0) /\ (t \in owned \/ Listed(t))
      BY <2>1 DEF InvalidateTimer, Knows
    <3>2. CASE t \in owned
      BY <1>4, <1>5, <3>1, <3>2
    <3>3. CASE Listed(t) /\ t \notin owned
      <4>1. /\ refs[t] \in Nat /\ One(t \in owned) = 0 /\ One(Listed(t)) = 1
            /\ refs[t] >= One(t \in owned) + One(Listed(t))
        BY <1>1, <3>3, AtLeast DEF One
      <4>2. refs[t] >= One(Listed(t)) /\ refs[t] # 0
        BY <4>1
      <4> QED BY <1>4, <3>1, <4>2
    <3> QED BY <3>1, <3>2, <3>3
  <2>2. ASSUME NEW t \in Timers, NEW l, AddTimer(th, t, l) PROVE host' = "up"
    BY <2>2 DEF AddTimer
  <2>3. ASSUME NEW l, CFRunLoopStop(th, l) PROVE host' = "up"
    BY <2>3 DEF CFRunLoopStop
  <2> QED BY <1>7, <2>1, <2>2, <2>3 DEF RemoteCalls
<1>8. ASSUME NEW th \in Threads, EndPass(th) \/ Wake(th) PROVE host' = "up"
  BY <1>8 DEF EndPass, Wake
<1>9. ASSUME NEW th \in Threads, NEW t \in Timers, HandleTimer(th, t) PROVE host' = "up"
  <2>1. calls[th] # <<>> /\ Top(th).kind = "run" /\ t \in Top(th).batch
    BY <1>9 DEF HandleTimer, At
  <2>2. <<th, Len(calls[th])>> \in InBatches(t)
    BY <1>1, <2>1, RunTop
  <2>3. refs[t] >= 1 + One(Listed(t))
    BY <1>1, <2>2, AtLeast
  <2>4. UNCHANGED host \/ Release(t, 1)
    BY <1>9 DEF HandleTimer
  <2>5. PICK n \in Nat : n = 1
    OBVIOUS
  <2> QED BY <1>3, <2>3, <2>4, <2>5
<1>10. ASSUME NEW th \in Threads, EndTimer(th) PROVE host' = "up"
  <2>1. calls[th] # <<>> /\ Top(th).kind = "run" /\ Top(th).stage = "callback"
    BY <1>10 DEF EndTimer, At
  <2>2. PICK t : t = Top(th).timer
    OBVIOUS
  <2>3. t \in Timers /\ <<th, Len(calls[th])>> \in Handling(t)
    BY <1>1, <2>1, <2>2, RunTop DEF RunSound
  <2>4. refs[t] >= 2 + One(Listed(t))
    BY <1>1, <2>3, AtLeast
  <2>5. Release(t, 2) \/ Invalidate(t, 2)
    BY <1>10, <2>2 DEF EndTimer
  <2>6. PICK n \in Nat : n = 2
    OBVIOUS
  <2> QED BY <1>3, <2>3, <2>4, <2>5, <2>6
<1>11. ASSUME NEW th \in Threads, EndFire(th) PROVE host' = "up"
  <2>1. calls[th] # <<>> /\ Top(th).kind = "fire"
    BY <1>11 DEF EndFire, At
  <2>2. PICK t : t = Top(th).timer
    OBVIOUS
  <2>3. t \in Timers /\ t \in owned
    BY <1>1, <2>1, <2>2, TopInCalls DEF LoopCallsSound, FiredAreOwned
  <2>4. UNCHANGED host \/ Invalidate(t, 0)
    BY <1>11, <2>2 DEF EndFire
  <2> QED BY <1>4, <1>5, <2>3, <2>4
<1> QED BY <1>6, <1>7, <1>8, <1>9, <1>10, <1>11 DEF LoopStep, RunLoopHost

\* Nothing the run loops do fails, if the guest keeps the timers it fires: they
\* release no timer once too often, and use none that is deallocated.
THEOREM RunLoopsNeverFail ==
    ASSUME LawfulFires PROVE Spec => [][LoopStep => host' = "up"]_vars
<1>1. Init => TimerInv /\ FiredAreOwned
  BY TimerInit, OwnedInit
<1>2. TimerInv /\ FiredAreOwned /\ CallsFormed /\ CallsFormed' /\ [Next]_vars
          => (TimerInv /\ FiredAreOwned)'
  BY TimerStep, OwnedStep
<1>3. TimerInv /\ FiredAreOwned /\ CallsFormed /\ [Next]_vars => [LoopStep => host' = "up"]_vars
  <2>1. Next /\ LoopStep /\ TimerInv /\ FiredAreOwned /\ CallsFormed => host' = "up"
    BY Running, TimersHeld
  <2> QED BY <2>1
<1> QED BY <1>1, <1>2, <1>3, CallsFormedAlways, PTL DEF Spec

-----------------------------------------------------------------------------
(***************************************************************************)
(* How many calls of a set are in progress.  A step changes the number by  *)
(* one at most, at the place of the innermost call of its thread.          *)
(***************************************************************************)

\* Where calls of the set C are in progress.
PlacesOf(C) == {p \in Threads \X (1 .. MaxCalls) :
                    p[2] <= Len(calls[p[1]]) /\ calls[p[1]][p[2]] \in C}

\* Calls of the kinds K are no deeper in a stack than the bound allows.
Shallow(K) ==
    \A u \in Threads : \A i \in 1 .. Len(calls[u]) : calls[u][i].kind \in K => i <= MaxCalls

\* Such a place.
LEMMA PlaceIn ==
    ASSUME NEW S, NEW stacks \in [Threads -> Seq(S)], NEW C, NEW place
    PROVE  place \in {p \in Threads \X (1 .. MaxCalls) :
                        p[2] <= Len(stacks[p[1]]) /\ stacks[p[1]][p[2]] \in C} <=>
               \E u \in Threads : \E i \in 1 .. Len(stacks[u]) :
                   place = <<u, i>> /\ i <= MaxCalls /\ stacks[u][i] \in C
<1> DEFINE P == {p \in Threads \X (1 .. MaxCalls) :
                     p[2] <= Len(stacks[p[1]]) /\ stacks[p[1]][p[2]] \in C}
<1>1. \A u \in Threads : Len(stacks[u]) \in Nat
  OBVIOUS
<1>2. ASSUME place \in P
      PROVE  \E u \in Threads : \E i \in 1 .. Len(stacks[u]) :
                 place = <<u, i>> /\ i <= MaxCalls /\ stacks[u][i] \in C
  <2>1. PICK u \in Threads, i \in 1 .. MaxCalls : place = <<u, i>>
    BY <1>2
  <2>2. i <= Len(stacks[u]) /\ stacks[u][i] \in C
    BY <1>2, <2>1
  <2>3. i \in 1 .. Len(stacks[u]) /\ i <= MaxCalls
    BY <1>1, <2>2, CallsAssumption
  <2> QED BY <2>1, <2>2, <2>3
<1>3. ASSUME NEW u \in Threads, NEW i \in 1 .. Len(stacks[u]),
             place = <<u, i>>, i <= MaxCalls, stacks[u][i] \in C
      PROVE  place \in P
  <2>1. i \in 1 .. MaxCalls /\ i <= Len(stacks[u])
    BY <1>1, <1>3, CallsAssumption
  <2> QED BY <1>3, <2>1
<1> QED BY <1>2, <1>3

\* The places before a step and after it.
LEMMA InPlacesOf ==
    ASSUME CallsFormed, NEW C
    PROVE  \A place : place \in PlacesOf(C) <=>
               \E u \in Threads : \E i \in 1 .. Len(calls[u]) :
                   place = <<u, i>> /\ i <= MaxCalls /\ calls[u][i] \in C
<1>1. PICK S : calls \in [Threads -> Seq(S)]
  BY DEF CallsFormed
<1> QED BY <1>1, PlaceIn DEF PlacesOf

\* The same after a step.
LEMMA InPlacesOfNext ==
    ASSUME CallsFormed', NEW C
    PROVE  \A place : place \in PlacesOf(C)' <=>
               \E u \in Threads : \E i \in 1 .. Len(calls'[u]) :
                   place = <<u, i>> /\ i <= MaxCalls /\ calls'[u][i] \in C
<1>1. PICK S : calls' \in [Threads -> Seq(S)]
  BY DEF CallsFormed
<1> QED BY <1>1, PlaceIn DEF PlacesOf

\* Steps that change no call of the set.
LEMMA SamePlaces ==
    ASSUME CallsFormed, CallsFormed', NEW K, Step(K), NEW C, \A c \in C : c.kind \notin K
    PROVE  PlacesOf(C)' = PlacesOf(C)
<1>1. \A u \in Threads : \A i \in 1 .. Len(calls[u]) :
          calls[u][i] \in C => i \in 1 .. Len(calls'[u]) /\ calls'[u][i] = calls[u][i]
  BY Foreign
<1>2. \A u \in Threads : \A i \in 1 .. Len(calls'[u]) :
          calls'[u][i] \in C => i \in 1 .. Len(calls[u]) /\ calls'[u][i] = calls[u][i]
  BY Foreign
<1>3. \A place : place \in PlacesOf(C)' <=> place \in PlacesOf(C)
  BY <1>1, <1>2, InPlacesOf, InPlacesOfNext
<1> QED BY <1>3

\* A step that changes the calls at one place only.
LEMMA PlacesElsewhere ==
    ASSUME CallsFormed, CallsFormed', NEW th \in Threads, NEW n, Elsewhere(th, n), NEW C
    PROVE  PlacesOf(C)' \ {<<th, n>>} = PlacesOf(C) \ {<<th, n>>}
<1>1. \A u \in Threads : \A i : i \in 1 .. Len(calls[u]) \/ i \in 1 .. Len(calls'[u]) => i \in Nat
  BY DEF CallsFormed
<1>2. \A u \in Threads : \A i : <<u, i>> # <<th, n>> =>
          /\ i \in 1 .. Len(calls'[u]) <=> i \in 1 .. Len(calls[u])
          /\ i \in 1 .. Len(calls[u]) => calls'[u][i] = calls[u][i]
  BY <1>1 DEF Elsewhere
<1>3. ASSUME NEW p, p # <<th, n>> PROVE p \in PlacesOf(C)' <=> p \in PlacesOf(C)
  <2>1. p \in PlacesOf(C)' <=>
            \E u \in Threads : \E i \in 1 .. Len(calls'[u]) :
                p = <<u, i>> /\ i <= MaxCalls /\ calls'[u][i] \in C
    BY InPlacesOfNext
  <2>2. p \in PlacesOf(C) <=>
            \E u \in Threads : \E i \in 1 .. Len(calls[u]) :
                p = <<u, i>> /\ i <= MaxCalls /\ calls[u][i] \in C
    BY InPlacesOf
  <2> QED BY <1>2, <1>3, <2>1, <2>2
<1> QED BY <1>3

\* How the number of places follows the innermost call of a thread.
LEMMA PlacesEnter ==
    ASSUME CallsFormed, CallsFormed', NEW th \in Threads, NEW c, Enter(th, c),
           NEW C, IsFiniteSet(PlacesOf(C)), c \in C => Len(calls[th]) < MaxCalls
    PROVE  /\ IsFiniteSet(PlacesOf(C)')
           /\ Cardinality(PlacesOf(C)) \in Nat /\ Cardinality(PlacesOf(C)') \in Nat
           /\ Cardinality(PlacesOf(C)') = Cardinality(PlacesOf(C)) + One(c \in C)
<1> DEFINE n == Len(calls[th]) + 1
<1>1. Elsewhere(th, n) /\ n \in 1 .. Len(calls'[th]) /\ calls'[th][n] = c
  BY TopElsewhere
<1>2. Len(calls[th]) \in Nat /\ MaxCalls \in Nat /\ n \notin 1 .. Len(calls[th])
  BY CallsAssumption DEF CallsFormed
<1>3. c \in C => n <= MaxCalls
  BY <1>2
<1> HIDE DEF n
<1>4. <<th, n>> \notin PlacesOf(C)
  BY <1>2, InPlacesOf
<1>5. <<th, n>> \in PlacesOf(C)' <=> c \in C
  BY <1>1, <1>3, InPlacesOfNext
<1>6. PlacesOf(C)' \ {<<th, n>>} = PlacesOf(C) \ {<<th, n>>}
  BY <1>1, PlacesElsewhere
<1>7. /\ IsFiniteSet(PlacesOf(C)')
      /\ Cardinality(PlacesOf(C)) \in Nat /\ Cardinality(PlacesOf(C)') \in Nat
      /\ Cardinality(PlacesOf(C)') - One(<<th, n>> \in PlacesOf(C)')
         = Cardinality(PlacesOf(C)) - One(<<th, n>> \in PlacesOf(C))
  BY <1>6, ButOne
<1>8. One(<<th, n>> \in PlacesOf(C)) = 0 /\ One(<<th, n>> \in PlacesOf(C)') = One(c \in C)
      /\ One(c \in C) \in Nat
  BY <1>4, <1>5 DEF One
<1> QED BY <1>7, <1>8

\* A call goes on, which leaves the other places.
LEMMA PlacesContinue ==
    ASSUME CallsFormed, CallsFormed', NEW th \in Threads, calls[th] # <<>>,
           NEW c, Continue(th, c), NEW C, IsFiniteSet(PlacesOf(C)), Len(calls[th]) <= MaxCalls
    PROVE  /\ IsFiniteSet(PlacesOf(C)')
           /\ Cardinality(PlacesOf(C)) \in Nat /\ Cardinality(PlacesOf(C)') \in Nat
           /\ Cardinality(PlacesOf(C)')
              = Cardinality(PlacesOf(C)) - One(Top(th) \in C) + One(c \in C)
<1> DEFINE n == Len(calls[th])
<1>1. Elsewhere(th, n) /\ n \in 1 .. Len(calls'[th]) /\ calls'[th][n] = c
  BY TopElsewhere
<1>2. n \in Nat \ {0} /\ Top(th) = calls[th][n]
  BY Stacks DEF CallsFormed
<1>3. n \in 1 .. Len(calls[th])
  BY <1>2
<1> HIDE DEF n
<1>4. <<th, n>> \in PlacesOf(C) <=> Top(th) \in C
  BY <1>2, <1>3, InPlacesOf DEF n
<1>5. <<th, n>> \in PlacesOf(C)' <=> c \in C
  BY <1>1, InPlacesOfNext DEF n
<1>6. PlacesOf(C)' \ {<<th, n>>} = PlacesOf(C) \ {<<th, n>>}
  BY <1>1, PlacesElsewhere
<1>7. /\ IsFiniteSet(PlacesOf(C)')
      /\ Cardinality(PlacesOf(C)) \in Nat /\ Cardinality(PlacesOf(C)') \in Nat
      /\ Cardinality(PlacesOf(C)') - One(<<th, n>> \in PlacesOf(C)')
         = Cardinality(PlacesOf(C)) - One(<<th, n>> \in PlacesOf(C))
  BY <1>6, ButOne
<1>8. /\ One(<<th, n>> \in PlacesOf(C)) = One(Top(th) \in C)
      /\ One(<<th, n>> \in PlacesOf(C)') = One(c \in C)
      /\ One(c \in C) \in Nat /\ One(Top(th) \in C) \in Nat
  BY <1>4, <1>5 DEF One
<1> QED BY <1>7, <1>8

\* A call returns, and its place is gone.
LEMMA PlacesLeave ==
    ASSUME CallsFormed, CallsFormed', NEW th \in Threads, calls[th] # <<>>, Leave(th),
           NEW C, IsFiniteSet(PlacesOf(C)), Len(calls[th]) <= MaxCalls
    PROVE  /\ IsFiniteSet(PlacesOf(C)')
           /\ Cardinality(PlacesOf(C)) \in Nat /\ Cardinality(PlacesOf(C)') \in Nat
           /\ Cardinality(PlacesOf(C)') = Cardinality(PlacesOf(C)) - One(Top(th) \in C)
<1> DEFINE n == Len(calls[th])
<1>1. Elsewhere(th, n) /\ n \notin 1 .. Len(calls'[th])
  BY TopElsewhere
<1>2. n \in Nat \ {0} /\ Top(th) = calls[th][n]
  BY Stacks DEF CallsFormed
<1>3. n \in 1 .. Len(calls[th])
  BY <1>2
<1> HIDE DEF n
<1>4. <<th, n>> \in PlacesOf(C) <=> Top(th) \in C
  BY <1>2, <1>3, InPlacesOf DEF n
<1>5. <<th, n>> \notin PlacesOf(C)'
  BY <1>1, InPlacesOfNext
<1>6. PlacesOf(C)' \ {<<th, n>>} = PlacesOf(C) \ {<<th, n>>}
  BY <1>1, PlacesElsewhere
<1>7. /\ IsFiniteSet(PlacesOf(C)')
      /\ Cardinality(PlacesOf(C)) \in Nat /\ Cardinality(PlacesOf(C)') \in Nat
      /\ Cardinality(PlacesOf(C)') - One(<<th, n>> \in PlacesOf(C)')
         = Cardinality(PlacesOf(C)) - One(<<th, n>> \in PlacesOf(C))
  BY <1>6, ButOne
<1>8. /\ One(<<th, n>> \in PlacesOf(C)) = One(Top(th) \in C)
      /\ One(<<th, n>> \in PlacesOf(C)') = 0 /\ One(Top(th) \in C) \in Nat
  BY <1>4, <1>5 DEF One
<1> QED BY <1>7, <1>8

\* Calls stay within the bound, if those that are entered are.
LEMMA StaysShallow ==
    ASSUME CallsFormed, CallsFormed', NEW K, Shallow(K), NEW th \in Threads, NEW c,
           \/ Enter(th, c) /\ Len(calls[th]) < MaxCalls
           \/ calls[th] # <<>> /\ Top(th).kind \in K /\ Continue(th, c)
           \/ calls[th] # <<>> /\ Leave(th)
           \/ UNCHANGED calls
    PROVE  Shallow(K)'
<1>1. CASE UNCHANGED calls
  BY <1>1 DEF Shallow
<1>2. ASSUME NEW n, Elsewhere(th, n), n \in 1 .. Len(calls'[th]) => n <= MaxCalls
      PROVE  Shallow(K)'
  <2>1. ASSUME NEW u \in Threads, NEW i \in 1 .. Len(calls'[u]), calls'[u][i].kind \in K
        PROVE  i <= MaxCalls
    <3>1. i \in Nat
      BY DEF CallsFormed
    <3>2. CASE u = th /\ i = n
      BY <1>2, <3>2
    <3>3. CASE ~ (u = th /\ i = n)
      BY <1>2, <2>1, <3>1, <3>3 DEF Elsewhere, Shallow
    <3> QED BY <3>2, <3>3
  <2> QED BY <2>1 DEF Shallow
<1>3. CASE Enter(th, c) /\ Len(calls[th]) < MaxCalls
  <2> DEFINE n == Len(calls[th]) + 1
  <2>1. Elsewhere(th, n)
    BY <1>3, TopElsewhere
  <2>2. n <= MaxCalls
    BY <1>3, CallsAssumption DEF CallsFormed
  <2> HIDE DEF n
  <2> QED BY <1>2, <2>1, <2>2
<1>4. CASE calls[th] # <<>> /\ Top(th).kind \in K /\ Continue(th, c)
  <2> DEFINE n == Len(calls[th])
  <2>1. Elsewhere(th, n)
    BY <1>4, TopElsewhere
  <2>2. n \in Nat \ {0} /\ Top(th) = calls[th][n]
    BY <1>4, Stacks DEF CallsFormed
  <2>3. n \in 1 .. Len(calls[th])
    BY <2>2
  <2> HIDE DEF n
  <2>4. n <= MaxCalls
    BY <1>4, <2>2, <2>3 DEF Shallow
  <2> QED BY <1>2, <2>1, <2>4
<1>5. CASE calls[th] # <<>> /\ Leave(th)
  <2> DEFINE n == Len(calls[th])
  <2>1. Elsewhere(th, n) /\ n \notin 1 .. Len(calls'[th])
    BY <1>5, TopElsewhere
  <2> HIDE DEF n
  <2> QED BY <1>2, <2>1
<1> QED BY <1>1, <1>3, <1>4, <1>5

\* Steps of other kinds leave them where they are.
LEMMA SameShallow ==
    ASSUME CallsFormed, NEW K, NEW L, Step(L), K \cap L = {}, Shallow(K)
    PROVE  Shallow(K)'
<1>1. ASSUME NEW u \in Threads, NEW i \in 1 .. Len(calls'[u]), calls'[u][i].kind \in K
      PROVE  i <= MaxCalls
  <2>1. PICK k : k = calls'[u][i].kind /\ k \notin L
    BY <1>1
  <2>2. i \in 1 .. Len(calls[u]) /\ calls[u][i].kind = k
    BY <2>1, Foreign
  <2> QED BY <1>1, <2>1, <2>2 DEF Shallow
<1> QED BY <1>1 DEF Shallow

\* The innermost call is within the bound as well.
LEMMA TopShallow ==
    ASSUME CallsFormed, NEW K, Shallow(K), NEW th \in Threads, calls[th] # <<>>,
           Top(th).kind \in K
    PROVE  Len(calls[th]) <= MaxCalls
<1> DEFINE n == Len(calls[th])
<1>1. n \in Nat \ {0} /\ Top(th) = calls[th][n]
  BY Stacks DEF CallsFormed
<1>2. n \in 1 .. Len(calls[th])
  BY <1>1
<1> HIDE DEF n
<1>3. n <= MaxCalls
  BY <1>1, <1>2 DEF Shallow
<1> QED BY <1>3 DEF n

-----------------------------------------------------------------------------
(***************************************************************************)
(* The notification center.  The references to an object are those of the  *)
(* guest, of the registrations that name it, and of the posts that call it *)
(* just now.                                                               *)
(***************************************************************************)

\* Who has references to an object of the notification center, by
\* CenterRefsExact.
Counting == Observers \cup Blocks \cup Posters
ForObject(x) == {e \in observers : e.object = x}
ForBlock(x) == {e \in observers : x \in Blocks /\ e.observer = x}
Calls(c, o) == c.kind = "post" /\ c.stage = "callback" /\ c.entry.observer = o
CallingAt(o) == {p \in Threads \X (1 .. MaxCalls) :
                     p[2] <= Len(calls[p[1]]) /\ Calls(calls[p[1]][p[2]], o)}

CenterExact(x) ==
    /\ IsFiniteSet(CallingAt(x))
    /\ objRefs[x] = One(x \in objOwned \cup Posters) + Cardinality(ForObject(x))
                    + Cardinality(ForBlock(x)) + Cardinality(CallingAt(x))

PostSound(c) ==
    c.kind = "post" =>
        /\ {"kind", "stage", "poster", "rest", "entry"} \subseteq DOMAIN c
        /\ c.stage \in {"deliver", "callback"}
        /\ c.rest \subseteq Registrations
        /\ c.stage = "callback" => c.entry \in Registrations

CenterTypes ==
    /\ observers \subseteq Registrations
    /\ IsFiniteSet(observers)
    /\ objOwned \subseteq Observers
    /\ objRefs \in [Counting -> Nat]

CenterInv ==
    /\ CenterTypes
    /\ \A c \in AllCalls : PostSound(c)
    /\ Shallow(CenterKinds)
    /\ \A x \in Counting : CenterExact(x)

\* The calls of A that call o.
ToCall(A, o) == {c \in A : Calls(c, o)}

\* The places where o is called, before a step and after it.
LEMMA CallingPlaces ==
    ASSUME CallsFormed, NEW A, AllCalls \subseteq A, NEW o
    PROVE  CallingAt(o) = PlacesOf(ToCall(A, o))
<1>1. PICK S : calls \in [Threads -> Seq(S)]
  BY DEF CallsFormed
<1>2. ASSUME NEW p \in Threads \X (1 .. MaxCalls), p[2] <= Len(calls[p[1]])
      PROVE  calls[p[1]][p[2]] \in A
  <2>1. PICK u \in Threads, i \in 1 .. MaxCalls : p = <<u, i>>
    OBVIOUS
  <2>2. i \in 1 .. Len(calls[u])
    BY <1>1, <1>2, <2>1, CallsAssumption
  <2> QED BY <2>1, <2>2, InCalls
<1> QED BY <1>2 DEF CallingAt, PlacesOf, ToCall

\* The same after a step.
LEMMA CallingPlacesNext ==
    ASSUME CallsFormed', NEW A, AllCalls' \subseteq A, NEW o
    PROVE  CallingAt(o)' = PlacesOf(ToCall(A, o))'
<1>1. PICK S : calls' \in [Threads -> Seq(S)]
  BY DEF CallsFormed
<1>2. ASSUME NEW p \in Threads \X (1 .. MaxCalls), p[2] <= Len(calls'[p[1]])
      PROVE  calls'[p[1]][p[2]] \in A
  <2>1. PICK u \in Threads, i \in 1 .. MaxCalls : p = <<u, i>>
    OBVIOUS
  <2>2. i \in 1 .. Len(calls'[u])
    BY <1>1, <1>2, <2>1, CallsAssumption
  <2> QED BY <2>1, <2>2, InNextCalls
<1>3. \A c : Calls(c, o)' <=> Calls(c, o)
  BY DEF Calls
<1> QED BY <1>2, <1>3 DEF CallingAt, PlacesOf, ToCall


\* They are the places of some calls, before a step and after it.
LEMMA CallingSet ==
    ASSUME CallsFormed, CallsFormed', NEW o
    PROVE  \E B : /\ CallingAt(o) = PlacesOf(B) /\ CallingAt(o)' = PlacesOf(B)'
                  /\ \A c : c \in B <=> c \in AllCalls \cup AllCalls' /\ Calls(c, o)
<1>1. PICK A : A = AllCalls \cup AllCalls'
  OBVIOUS
<1>2. PICK B : B = ToCall(A, o)
  OBVIOUS
<1>3. CallingAt(o) = PlacesOf(ToCall(A, o))
  BY <1>1, CallingPlaces
<1>4. CallingAt(o)' = PlacesOf(ToCall(A, o))'
  BY <1>1, CallingPlacesNext
<1>5. \A d : Calls(d, o)' <=> Calls(d, o)
  BY DEF Calls
<1>6. PlacesOf(ToCall(A, o))' = PlacesOf(B)'
  BY <1>2, <1>5 DEF PlacesOf, ToCall
<1>7. \A c : c \in B <=> c \in AllCalls \cup AllCalls' /\ Calls(c, o)
  BY <1>1, <1>2 DEF ToCall
<1> QED BY <1>2, <1>3, <1>4, <1>6, <1>7

\* How the number of calls to o in progress follows the calls.
LEMMA CallingEnter ==
    ASSUME CallsFormed, CallsFormed', NEW th \in Threads, NEW c, Enter(th, c),
           NEW o, IsFiniteSet(CallingAt(o)), ~ Calls(c, o)
    PROVE  IsFiniteSet(CallingAt(o)') /\ Cardinality(CallingAt(o)') = Cardinality(CallingAt(o))
<1>1. PICK B : /\ CallingAt(o) = PlacesOf(B) /\ CallingAt(o)' = PlacesOf(B)'
               /\ \A d : d \in B <=> d \in AllCalls \cup AllCalls' /\ Calls(d, o)
  BY CallingSet
<1>2. One(c \in B) = 0 /\ c \notin B
  BY <1>1 DEF One
<1> QED BY <1>1, <1>2, PlacesEnter

\* A post goes on to another registration, or ends a call.
LEMMA CallingContinue ==
    ASSUME CallsFormed, CallsFormed', Shallow(CenterKinds), NEW th \in Threads,
           calls[th] # <<>>, Top(th).kind = "post", NEW c, Continue(th, c),
           NEW o, IsFiniteSet(CallingAt(o))
    PROVE  /\ IsFiniteSet(CallingAt(o)') /\ Cardinality(CallingAt(o)) \in Nat
           /\ Cardinality(CallingAt(o)')
              = Cardinality(CallingAt(o)) - One(Calls(Top(th), o)) + One(Calls(c, o))
<1>1. PICK B : /\ CallingAt(o) = PlacesOf(B) /\ CallingAt(o)' = PlacesOf(B)'
               /\ \A d : d \in B <=> d \in AllCalls \cup AllCalls' /\ Calls(d, o)
  BY CallingSet
<1>2. c \in AllCalls' /\ Top(th) \in AllCalls
  BY CallsStay
<1>3. One(c \in B) = One(Calls(c, o)) /\ One(Top(th) \in B) = One(Calls(Top(th), o))
  BY <1>1, <1>2 DEF One
<1>4. Len(calls[th]) <= MaxCalls
  BY TopShallow DEF CenterKinds
<1> QED BY <1>1, <1>3, <1>4, PlacesContinue

\* A post returns.
LEMMA CallingLeave ==
    ASSUME CallsFormed, CallsFormed', Shallow(CenterKinds), NEW th \in Threads,
           calls[th] # <<>>, Top(th).kind = "post", Leave(th),
           NEW o, IsFiniteSet(CallingAt(o)), ~ Calls(Top(th), o)
    PROVE  IsFiniteSet(CallingAt(o)') /\ Cardinality(CallingAt(o)') = Cardinality(CallingAt(o))
<1>1. PICK B : /\ CallingAt(o) = PlacesOf(B) /\ CallingAt(o)' = PlacesOf(B)'
               /\ \A d : d \in B <=> d \in AllCalls \cup AllCalls' /\ Calls(d, o)
  BY CallingSet
<1>2. One(Top(th) \in B) = 0
  BY <1>1 DEF One
<1>3. Len(calls[th]) <= MaxCalls
  BY TopShallow DEF CenterKinds
<1> QED BY <1>1, <1>2, <1>3, PlacesLeave

\* Steps of the other modules call nobody and end no such call.
LEMMA CallingSame ==
    ASSUME CallsFormed, CallsFormed', NEW K, Step(K), "post" \notin K, NEW o
    PROVE  CallingAt(o)' = CallingAt(o)
<1>1. PICK B : /\ CallingAt(o) = PlacesOf(B) /\ CallingAt(o)' = PlacesOf(B)'
               /\ \A d : d \in B <=> d \in AllCalls \cup AllCalls' /\ Calls(d, o)
  BY CallingSet
<1>2. \A c \in B : c.kind \notin K
  BY <1>1 DEF Calls
<1> QED BY <1>1, <1>2, SamePlaces

\* Registrations that come and go.
LEMMA Registered ==
    ASSUME IsFiniteSet(observers), NEW e, e \notin observers, observers' = observers \cup {e},
           NEW x
    PROVE  /\ IsFiniteSet(observers')
           /\ Cardinality(ForObject(x)) \in Nat /\ Cardinality(ForBlock(x)) \in Nat
           /\ Cardinality(ForObject(x)') = Cardinality(ForObject(x)) + One(e.object = x)
           /\ Cardinality(ForBlock(x)') = Cardinality(ForBlock(x))
                                          + One(x \in Blocks /\ e.observer = x)
<1>1. IsFiniteSet(observers')
  BY FS_AddElement
<1>2. IsFiniteSet(ForObject(x)) /\ IsFiniteSet(ForBlock(x))
  BY FS_Subset DEF ForObject, ForBlock
<1>3. /\ ForObject(x)' \ {e} = ForObject(x) \ {e} /\ ForBlock(x)' \ {e} = ForBlock(x) \ {e}
      /\ e \notin ForObject(x) /\ e \notin ForBlock(x)
      /\ e \in ForObject(x)' <=> e.object = x
      /\ e \in ForBlock(x)' <=> x \in Blocks /\ e.observer = x
  BY DEF ForObject, ForBlock
<1>4. /\ Cardinality(ForObject(x)) \in Nat /\ Cardinality(ForObject(x)') \in Nat
      /\ Cardinality(ForObject(x)') - One(e \in ForObject(x)')
         = Cardinality(ForObject(x)) - One(e \in ForObject(x))
  BY <1>2, <1>3, ButOne
<1>5. /\ Cardinality(ForBlock(x)) \in Nat /\ Cardinality(ForBlock(x)') \in Nat
      /\ Cardinality(ForBlock(x)') - One(e \in ForBlock(x)')
         = Cardinality(ForBlock(x)) - One(e \in ForBlock(x))
  BY <1>2, <1>3, ButOne
<1>6. /\ One(e \in ForObject(x)) = 0 /\ One(e \in ForBlock(x)) = 0
      /\ One(e \in ForObject(x)') = One(e.object = x)
      /\ One(e \in ForBlock(x)') = One(x \in Blocks /\ e.observer = x)
      /\ One(e.object = x) \in Nat /\ One(x \in Blocks /\ e.observer = x) \in Nat
  BY <1>3 DEF One
<1> QED BY <1>1, <1>4, <1>5, <1>6

\* A set without some of its elements.
LEMMA Subtracted ==
    ASSUME NEW A, NEW B, IsFiniteSet(A), B \subseteq A
    PROVE  /\ Cardinality(A) \in Nat /\ Cardinality(B) \in Nat /\ Cardinality(B) <= Cardinality(A)
           /\ Cardinality(A \ B) = Cardinality(A) - Cardinality(B)
<1>1. IsFiniteSet(B) /\ Cardinality(B) <= Cardinality(A)
  BY FS_Subset
<1>2. Cardinality(A) \in Nat /\ Cardinality(B) \in Nat
  BY <1>1, FS_CardinalityType
<1>3. Cardinality(A \ B) = Cardinality(A) - Cardinality(A \cap B)
  BY FS_Difference
<1>4. A \cap B = B
  OBVIOUS
<1> QED BY <1>1, <1>2, <1>3, <1>4

\* What the center forgets of an observer that goes away.
LEMMA RegistrationsGo ==
    ASSUME IsFiniteSet(observers), NEW removed, removed \subseteq observers,
           observers' = observers \ removed, NEW x
    PROVE  /\ IsFiniteSet(observers')
           /\ Cardinality(ForObject(x)) \in Nat /\ Cardinality(ForBlock(x)) \in Nat
           /\ Cardinality(ForObject(x)') \in Nat /\ Cardinality(ForBlock(x)') \in Nat
           /\ ReleasesOf(removed, x) \in Nat
           /\ Cardinality(ForObject(x)') + Cardinality(ForBlock(x)')
              = Cardinality(ForObject(x)) + Cardinality(ForBlock(x)) - ReleasesOf(removed, x)
<1> DEFINE A == {e \in removed : e.object = x}
           B == {e \in removed : e.observer \in Blocks /\ e.observer = x}
<1>1. IsFiniteSet(observers')
  BY FS_Subset
<1>2. /\ IsFiniteSet(ForObject(x)) /\ IsFiniteSet(ForBlock(x))
      /\ IsFiniteSet(ForObject(x)') /\ IsFiniteSet(ForBlock(x)')
  BY <1>1, FS_Subset DEF ForObject, ForBlock
<1>3. A \subseteq ForObject(x) /\ B \subseteq ForBlock(x)
  BY DEF ForObject, ForBlock
<1>4. ForObject(x)' = ForObject(x) \ A /\ ForBlock(x)' = ForBlock(x) \ B
  BY DEF ForObject, ForBlock
<1>5. ReleasesOf(removed, x) = Cardinality(A) + Cardinality(B)
  BY DEF ReleasesOf
<1> HIDE DEF A, B
<1>9. IsFiniteSet(ForObject(x)) /\ A \subseteq ForObject(x) /\ ForObject(x)' = ForObject(x) \ A
  BY <1>2, <1>3, <1>4
<1>10. IsFiniteSet(ForBlock(x)) /\ B \subseteq ForBlock(x) /\ ForBlock(x)' = ForBlock(x) \ B
  BY <1>2, <1>3, <1>4
<1>6. /\ Cardinality(ForObject(x)) \in Nat /\ Cardinality(A) \in Nat
      /\ Cardinality(ForObject(x)') = Cardinality(ForObject(x)) - Cardinality(A)
  BY <1>9, Subtracted
<1>7. /\ Cardinality(ForBlock(x)) \in Nat /\ Cardinality(B) \in Nat
      /\ Cardinality(ForBlock(x)') = Cardinality(ForBlock(x)) - Cardinality(B)
  BY <1>10, Subtracted
<1>8. Cardinality(ForObject(x)') \in Nat /\ Cardinality(ForBlock(x)') \in Nat
  BY <1>2, FS_CardinalityType
<1> QED BY <1>1, <1>5, <1>6, <1>7, <1>8

\* The sum of the references of an object is a natural number.
LEMMA CenterCounts ==
    ASSUME CenterInv, NEW x \in Counting
    PROVE  /\ Cardinality(ForObject(x)) \in Nat /\ Cardinality(ForBlock(x)) \in Nat
           /\ IsFiniteSet(CallingAt(x)) /\ Cardinality(CallingAt(x)) \in Nat
           /\ One(x \in objOwned \cup Posters) \in Nat /\ objRefs[x] \in Nat
           /\ objRefs[x] = One(x \in objOwned \cup Posters) + Cardinality(ForObject(x))
                           + Cardinality(ForBlock(x)) + Cardinality(CallingAt(x))
<1>1. CenterExact(x) /\ IsFiniteSet(observers) /\ objRefs[x] \in Nat
  BY DEF CenterInv, CenterTypes
<1>2. IsFiniteSet(ForObject(x)) /\ IsFiniteSet(ForBlock(x))
  BY <1>1, FS_Subset DEF ForObject, ForBlock
<1>3. One(x \in objOwned \cup Posters) \in Nat
  BY DEF One
<1> QED BY <1>1, <1>2, <1>3, FS_CardinalityType DEF CenterExact

\* What is left to show of a step.
LEMMA CenterNext ==
    ASSUME IsFiniteSet(observers'), observers' \subseteq Registrations, objOwned' \subseteq Observers,
           \E f : objRefs' = [x \in Counting |-> f[x]],
           \A c \in AllCalls' : PostSound(c), Shallow(CenterKinds)',
           \A x \in Counting : CenterExact(x)'
    PROVE  CenterInv'
<1>1. ASSUME NEW x \in Counting PROVE objRefs'[x] \in Nat
  <2>1. IsFiniteSet(ForObject(x)') /\ IsFiniteSet(ForBlock(x)')
    BY FS_Subset DEF ForObject, ForBlock
  <2>2. /\ Cardinality(ForObject(x)') \in Nat /\ Cardinality(ForBlock(x)') \in Nat
        /\ Cardinality(CallingAt(x)') \in Nat
    BY <2>1, FS_CardinalityType DEF CenterExact
  <2>3. One(x \in objOwned' \cup Posters) \in Nat
    BY DEF One
  <2>4. CenterExact(x)'
    OBVIOUS
  <2>5. objRefs'[x] = One(x \in objOwned' \cup Posters) + Cardinality(ForObject(x)')
                    + Cardinality(ForBlock(x)') + Cardinality(CallingAt(x)')
    BY <2>4 DEF CenterExact
  <2> QED BY <2>2, <2>3, <2>5
<1>2. objRefs' \in [Counting -> Nat]
  BY <1>1
<1>3. \A c : PostSound(c)' <=> PostSound(c)
  BY DEF PostSound, Registrations
<1>4. CenterTypes'
  BY <1>2 DEF CenterTypes, Counting, Registrations
<1>5. \A x \in Counting' : CenterExact(x)'
  BY DEF Counting
<1> QED BY <1>3, <1>4, <1>5 DEF CenterInv

\* References that are released together with registrations, if the guest or a
\* call in progress gives up n of o.
LEMMA Unregistered ==
    ASSUME CenterInv, NEW removed, removed \subseteq observers, NEW o, NEW n \in Nat,
           Unregister(removed, o, n), objOwned' \subseteq Observers,
           \A c \in AllCalls' : PostSound(c), Shallow(CenterKinds)',
           \A x \in Counting :
               /\ IsFiniteSet(CallingAt(x)') /\ Cardinality(CallingAt(x)') \in Nat
               /\ One(x \in objOwned' \cup Posters) + Cardinality(CallingAt(x)')
                  = One(x \in objOwned \cup Posters) + Cardinality(CallingAt(x))
                    - (IF x = o THEN n ELSE 0)
    PROVE  CenterInv'
<1>1. /\ observers' = observers \ removed
      /\ objRefs' = [x \in DOMAIN objRefs |->
                        objRefs[x] - ReleasesOf(removed, x) - (IF x = o THEN n ELSE 0)]
  BY DEF Unregister
<1>2. DOMAIN objRefs = Counting /\ IsFiniteSet(observers) /\ observers \subseteq Registrations
  BY DEF CenterInv, CenterTypes
<1>3. ASSUME NEW x \in Counting PROVE CenterExact(x)'
  <2>1. /\ Cardinality(ForObject(x)) \in Nat /\ Cardinality(ForBlock(x)) \in Nat
        /\ Cardinality(CallingAt(x)) \in Nat
        /\ One(x \in objOwned \cup Posters) \in Nat
        /\ objRefs[x] = One(x \in objOwned \cup Posters) + Cardinality(ForObject(x))
                        + Cardinality(ForBlock(x)) + Cardinality(CallingAt(x))
    BY CenterCounts
  <2>2. /\ Cardinality(ForObject(x)') \in Nat /\ Cardinality(ForBlock(x)') \in Nat
        /\ ReleasesOf(removed, x) \in Nat
        /\ Cardinality(ForObject(x)') + Cardinality(ForBlock(x)')
           = Cardinality(ForObject(x)) + Cardinality(ForBlock(x)) - ReleasesOf(removed, x)
    BY <1>1, <1>2, RegistrationsGo
  <2>3. objRefs'[x] = objRefs[x] - ReleasesOf(removed, x) - (IF x = o THEN n ELSE 0)
    BY <1>1, <1>2
  <2>4. PICK m \in Nat : m = IF x = o THEN n ELSE 0
    OBVIOUS
  <2>5. /\ One(x \in objOwned' \cup Posters) + Cardinality(CallingAt(x)')
           = One(x \in objOwned \cup Posters) + Cardinality(CallingAt(x)) - m
        /\ objRefs'[x] = objRefs[x] - ReleasesOf(removed, x) - m
        /\ IsFiniteSet(CallingAt(x)') /\ Cardinality(CallingAt(x)') \in Nat
    BY <2>3, <2>4
  <2>6. One(x \in objOwned' \cup Posters) \in Nat
    BY DEF One
  <2>7. objRefs'[x] = One(x \in objOwned' \cup Posters) + Cardinality(ForObject(x)')
                      + Cardinality(ForBlock(x)') + Cardinality(CallingAt(x)')
    BY <2>1, <2>2, <2>5, <2>6
  <2> QED BY <2>5, <2>7 DEF CenterExact
<1>4. IsFiniteSet(observers') /\ observers' \subseteq Registrations
  BY <1>1, <1>2, FS_Subset
<1>5. \E f : objRefs' = [x \in Counting |-> f[x]]
  BY <1>1, <1>2
<1> QED BY <1>3, <1>4, <1>5, CenterNext

\* Steps that change no post.
LEMMA SamePosts ==
    ASSUME CenterInv, CallsFormed, CallsFormed', NEW K, Step(K), K \cap CenterKinds = {}
    PROVE  /\ \A c \in AllCalls' : PostSound(c)
           /\ Shallow(CenterKinds)'
           /\ \A x : CallingAt(x)' = CallingAt(x)
<1>1. "post" \notin K /\ CenterKinds \cap K = {}
  BY DEF CenterKinds
<1>2. ASSUME NEW c \in AllCalls' PROVE PostSound(c)
  BY <1>1, ForeignCalls DEF CenterInv, PostSound
<1>3. Shallow(CenterKinds)'
  BY <1>1, SameShallow DEF CenterInv
<1> QED BY <1>1, <1>2, <1>3, CallingSame

\* A guest's call that posts nothing.
LEMMA SameCallsSamePosts ==
    ASSUME CenterInv, CallsFormed, CallsFormed', UNCHANGED calls
    PROVE  /\ \A c \in AllCalls' : PostSound(c)
           /\ Shallow(CenterKinds)'
           /\ \A x : CallingAt(x)' = CallingAt(x)
<1>1. Step({}) /\ {} \cap CenterKinds = {}
  BY DEF Step
<1> QED BY <1>1, SamePosts

\* Observers come, register and go.
LEMMA CenterGuest ==
    ASSUME CenterInv, CallsFormed, CallsFormed', NEW th \in Threads, UNCHANGED calls,
           \/ \E o \in Observers : NewObserver(th, o) \/ ReleaseObject(th, o)
           \/ \E e \in Registrations : AddObserver(th, e) \/ AddBlock(th, e)
           \/ \E o \in Observers \cup Blocks, name \in Names \cup {Nil},
                 object \in Posters \cup {Nil} : RemoveObserver(th, o, name, object)
    PROVE  CenterInv'
<1>1. /\ \A c \in AllCalls' : PostSound(c)
      /\ Shallow(CenterKinds)'
      /\ \A x : CallingAt(x)' = CallingAt(x)
  BY SameCallsSamePosts
<1>2. /\ IsFiniteSet(observers) /\ observers \subseteq Registrations /\ objOwned \subseteq Observers
      /\ objRefs \in [Counting -> Nat]
  BY DEF CenterInv, CenterTypes
<1>3. ASSUME NEW o \in Observers, NewObserver(th, o) PROVE CenterInv'
  <2>1. /\ objRefs[o] = 0 /\ objRefs' = [objRefs EXCEPT ![o] = 1]
        /\ objOwned' = objOwned \cup {o} /\ observers' = observers
    BY <1>3 DEF NewObserver
  <2>2. o \in Counting /\ o \notin Posters
    BY NotificationsAssumption DEF Counting
  <2>3. ASSUME NEW x \in Counting PROVE CenterExact(x)'
    <3>1. /\ Cardinality(ForObject(x)) \in Nat /\ Cardinality(ForBlock(x)) \in Nat
          /\ IsFiniteSet(CallingAt(x)) /\ Cardinality(CallingAt(x)) \in Nat
          /\ One(x \in objOwned \cup Posters) \in Nat
          /\ objRefs[x] = One(x \in objOwned \cup Posters) + Cardinality(ForObject(x))
                          + Cardinality(ForBlock(x)) + Cardinality(CallingAt(x))
      BY CenterCounts
    <3>2. ForObject(x)' = ForObject(x) /\ ForBlock(x)' = ForBlock(x)
      BY <2>1 DEF ForObject, ForBlock
    <3>3. CASE x = o
      <4>1. objRefs'[x] = 1 /\ One(x \in objOwned' \cup Posters) = 1
        BY <1>2, <2>1, <2>2, <3>3 DEF One
      <4>2. /\ Cardinality(ForObject(x)) = 0 /\ Cardinality(ForBlock(x)) = 0
            /\ Cardinality(CallingAt(x)) = 0
        BY <2>1, <3>1, <3>3
      <4> QED BY <1>1, <3>1, <3>2, <4>1, <4>2 DEF CenterExact
    <3>4. CASE x # o
      <4>1. objRefs'[x] = objRefs[x] /\ (x \in objOwned' \cup Posters <=> x \in objOwned \cup Posters)
        BY <1>2, <2>1, <3>4
      <4>2. One(x \in objOwned' \cup Posters) = One(x \in objOwned \cup Posters)
        BY <4>1 DEF One
      <4> QED BY <1>1, <3>1, <3>2, <4>1, <4>2 DEF CenterExact
    <3> QED BY <3>3, <3>4
  <2>4. \E f : objRefs' = [x \in Counting |-> f[x]]
    <3>1. objRefs' \in [Counting -> Nat]
      BY <1>2, <2>1
    <3> QED BY <3>1
  <2> QED BY <1>1, <1>2, <2>1, <2>3, <2>4, CenterNext
<1>4. ASSUME NEW e \in Registrations, e \notin observers, observers' = observers \cup {e},
             UNCHANGED objOwned,
             objRefs' = [x \in Counting |-> objRefs[x] + One(e.object = x)
                                            + One(x \in Blocks /\ e.observer = x)]
      PROVE  CenterInv'
  <2>1. ASSUME NEW x \in Counting PROVE CenterExact(x)'
    <3>1. /\ Cardinality(ForObject(x)) \in Nat /\ Cardinality(ForBlock(x)) \in Nat
          /\ IsFiniteSet(CallingAt(x)) /\ Cardinality(CallingAt(x)) \in Nat
          /\ One(x \in objOwned \cup Posters) \in Nat
          /\ objRefs[x] = One(x \in objOwned \cup Posters) + Cardinality(ForObject(x))
                          + Cardinality(ForBlock(x)) + Cardinality(CallingAt(x))
      BY CenterCounts
    <3>2. /\ Cardinality(ForObject(x)') = Cardinality(ForObject(x)) + One(e.object = x)
          /\ Cardinality(ForBlock(x)') = Cardinality(ForBlock(x))
                                         + One(x \in Blocks /\ e.observer = x)
      BY <1>2, <1>4, Registered
    <3>3. objRefs'[x] = objRefs[x] + One(e.object = x) + One(x \in Blocks /\ e.observer = x)
      BY <1>4
    <3>4. One(e.object = x) \in Nat /\ One(x \in Blocks /\ e.observer = x) \in Nat
      BY DEF One
    <3>5. objRefs'[x] = One(x \in objOwned \cup Posters) + Cardinality(ForObject(x)')
                        + Cardinality(ForBlock(x)') + Cardinality(CallingAt(x)')
      BY <1>1, <3>1, <3>2, <3>3, <3>4
    <3> QED BY <1>1, <1>4, <3>1, <3>5 DEF CenterExact
  <2>2. IsFiniteSet(observers') /\ observers' \subseteq Registrations
    BY <1>2, <1>4, FS_AddElement
  <2>3. \E f : objRefs' = [x \in Counting |-> f[x]]
    <3> DEFINE f == [x \in Counting |-> objRefs[x] + One(e.object = x)
                                        + One(x \in Blocks /\ e.observer = x)]
    <3>1. objRefs' = [x \in Counting |-> f[x]]
      BY <1>4
    <3> QED BY <3>1
  <2> QED BY <1>1, <1>2, <1>4, <2>1, <2>2, <2>3, CenterNext
<1>5. ASSUME NEW e \in Registrations, AddObserver(th, e) PROVE CenterInv'
  <2>1. /\ e.observer \in objOwned /\ e \notin observers /\ observers' = observers \cup {e}
        /\ UNCHANGED objOwned
        /\ objRefs' = [x \in DOMAIN objRefs |->
                          IF x = e.object THEN objRefs[x] + 1 ELSE objRefs[x]]
    BY <1>5 DEF AddObserver, Register
  <2>2. e.observer \notin Blocks
    BY <1>2, <2>1, NotificationsAssumption
  <2>3. ASSUME NEW x \in Counting
        PROVE  (IF x = e.object THEN objRefs[x] + 1 ELSE objRefs[x])
               = objRefs[x] + One(e.object = x) + One(x \in Blocks /\ e.observer = x)
    <3>1. One(x \in Blocks /\ e.observer = x) = 0 /\ objRefs[x] \in Nat
      BY <1>2, <2>2 DEF One
    <3> QED BY <3>1 DEF One
  <2>4. objRefs' = [x \in Counting |-> objRefs[x] + One(e.object = x)
                                       + One(x \in Blocks /\ e.observer = x)]
    BY <1>2, <2>1, <2>3
  <2> QED BY <1>4, <2>1, <2>4
<1>6. ASSUME NEW e \in Registrations, AddBlock(th, e) PROVE CenterInv'
  <2>1. /\ e.observer \in Blocks /\ e \notin observers /\ observers' = observers \cup {e}
        /\ UNCHANGED objOwned
        /\ objRefs' = [x \in DOMAIN objRefs |->
                          IF x \in {e.object, e.observer} THEN objRefs[x] + 1 ELSE objRefs[x]]
    BY <1>6 DEF AddBlock, Register
  <2>2. e.observer # e.object
    BY <2>1, NotificationsAssumption DEF Registrations
  <2>3. ASSUME NEW x \in Counting
        PROVE  (IF x \in {e.object, e.observer} THEN objRefs[x] + 1 ELSE objRefs[x])
               = objRefs[x] + One(e.object = x) + One(x \in Blocks /\ e.observer = x)
    <3>1. objRefs[x] \in Nat
      BY <1>2
    <3>2. One(x \in Blocks /\ e.observer = x) = One(e.observer = x)
      BY <2>1 DEF One
    <3> QED BY <2>2, <3>1, <3>2 DEF One
  <2>4. objRefs' = [x \in Counting |-> objRefs[x] + One(e.object = x)
                                       + One(x \in Blocks /\ e.observer = x)]
    BY <1>2, <2>1, <2>3
  <2> QED BY <1>4, <2>1, <2>4
<1>7. ASSUME NEW o \in Observers \cup Blocks, NEW name, NEW object,
             RemoveObserver(th, o, name, object)
      PROVE  CenterInv'
  <2>1. PICK removed : removed = Matching(o, name, object)
    OBVIOUS
  <2>2. Unregister(removed, o, 0) /\ UNCHANGED objOwned
    BY <1>7, <2>1 DEF RemoveObserver
  <2>3. removed \subseteq observers
    BY <2>1 DEF Matching
  <2>4. ASSUME NEW x \in Counting
        PROVE  /\ IsFiniteSet(CallingAt(x)') /\ Cardinality(CallingAt(x)') \in Nat
               /\ One(x \in objOwned' \cup Posters) + Cardinality(CallingAt(x)')
                  = One(x \in objOwned \cup Posters) + Cardinality(CallingAt(x))
                    - (IF x = o THEN 0 ELSE 0)
    <3>1. /\ IsFiniteSet(CallingAt(x)) /\ Cardinality(CallingAt(x)) \in Nat
          /\ One(x \in objOwned \cup Posters) \in Nat
      BY CenterCounts
    <3> QED BY <1>1, <2>2, <3>1
  <2> QED BY <1>1, <1>2, <2>2, <2>3, <2>4, Unregistered
<1>8. ASSUME NEW o \in Observers, ReleaseObject(th, o) PROVE CenterInv'
  <2>1. PICK removed : removed = IF objRefs[o] = 1 THEN Matching(o, Nil, Nil) ELSE {}
    OBVIOUS
  <2>2. Unregister(removed, o, 1) /\ objOwned' = objOwned \ {o} /\ o \in objOwned
    BY <1>8, <2>1 DEF ReleaseObject, ReleaseObserver
  <2>3. removed \subseteq observers
    BY <2>1 DEF Matching
  <2>4. ASSUME NEW x \in Counting
        PROVE  /\ IsFiniteSet(CallingAt(x)') /\ Cardinality(CallingAt(x)') \in Nat
               /\ One(x \in objOwned' \cup Posters) + Cardinality(CallingAt(x)')
                  = One(x \in objOwned \cup Posters) + Cardinality(CallingAt(x))
                    - (IF x = o THEN 1 ELSE 0)
    <3>1. /\ IsFiniteSet(CallingAt(x)) /\ Cardinality(CallingAt(x)) \in Nat
      BY CenterCounts
    <3>2. One(x \in objOwned' \cup Posters)
          = One(x \in objOwned \cup Posters) - (IF x = o THEN 1 ELSE 0)
      BY <2>2, NotificationsAssumption DEF One
    <3>3. One(x \in objOwned \cup Posters) \in Nat
      BY DEF One
    <3>4. PICK m \in Nat : m = IF x = o THEN 1 ELSE 0
      OBVIOUS
    <3> QED BY <1>1, <3>1, <3>2, <3>3, <3>4
  <2>5. objOwned' \subseteq Observers
    BY <1>2, <2>2
  <2> QED BY <1>1, <2>2, <2>3, <2>4, <2>5, Unregistered
<1> QED BY <1>3, <1>5, <1>6, <1>7, <1>8

\* The innermost call of a thread that posts.
LEMMA PostTop ==
    ASSUME CenterInv, CallsFormed, NEW th \in Threads, NEW stage, At(th, "post", stage)
    PROVE  /\ calls[th] # <<>> /\ Top(th).kind = "post" /\ Top(th).stage = stage
           /\ PostSound(Top(th))
           /\ {"kind", "stage", "poster", "rest", "entry"} \subseteq DOMAIN Top(th)
           /\ Top(th).rest \subseteq Registrations
<1>1. calls[th] # <<>> /\ Top(th).kind = "post" /\ Top(th).stage = stage
  BY DEF At
<1>2. PostSound(Top(th))
  BY <1>1, TopInCalls DEF CenterInv
<1> QED BY <1>1, <1>2 DEF PostSound

\* A post that goes on.
LEMMA PostGoesOn ==
    ASSUME CenterInv, CallsFormed, CallsFormed', NEW th \in Threads, calls[th] # <<>>,
           Top(th).kind = "post", NEW c, PostSound(c), Continue(th, c)
    PROVE  /\ \A d \in AllCalls' : PostSound(d)
           /\ Shallow(CenterKinds)'
           /\ \A x \in Counting :
                  /\ IsFiniteSet(CallingAt(x)') /\ Cardinality(CallingAt(x)') \in Nat
                  /\ Cardinality(CallingAt(x)')
                     = Cardinality(CallingAt(x)) - One(Calls(Top(th), x)) + One(Calls(c, x))
<1>1. \A d \in AllCalls' : PostSound(d)
  BY CallsNew DEF CenterInv
<1>2. Shallow(CenterKinds)'
  BY StaysShallow DEF CenterInv, CenterKinds
<1>3. ASSUME NEW x \in Counting
      PROVE  /\ IsFiniteSet(CallingAt(x)') /\ Cardinality(CallingAt(x)') \in Nat
             /\ Cardinality(CallingAt(x)')
                = Cardinality(CallingAt(x)) - One(Calls(Top(th), x)) + One(Calls(c, x))
  <2>1. IsFiniteSet(CallingAt(x)) /\ Shallow(CenterKinds)
    BY CenterCounts DEF CenterInv
  <2> QED BY <2>1, CallingContinue, FS_CardinalityType
<1> QED BY <1>1, <1>2, <1>3

\* Steps that leave registrations and references alone.
LEMMA CenterQuiet ==
    ASSUME CenterInv, UNCHANGED centerVars,
           \A c \in AllCalls' : PostSound(c), Shallow(CenterKinds)',
           \A x \in Counting : /\ IsFiniteSet(CallingAt(x)')
                               /\ Cardinality(CallingAt(x)') = Cardinality(CallingAt(x))
    PROVE  CenterInv'
<1>1. /\ IsFiniteSet(observers) /\ observers \subseteq Registrations /\ objOwned \subseteq Observers
      /\ objRefs \in [Counting -> Nat]
  BY DEF CenterInv, CenterTypes
<1>2. UNCHANGED <<observers, objRefs, objOwned>>
  BY DEF centerVars
<1>3. ASSUME NEW x \in Counting PROVE CenterExact(x)'
  <2>1. ForObject(x)' = ForObject(x) /\ ForBlock(x)' = ForBlock(x)
    BY <1>2 DEF ForObject, ForBlock
  <2>2. CenterExact(x)
    BY DEF CenterInv
  <2> QED BY <1>2, <2>1, <2>2 DEF CenterExact
<1>4. \E f : objRefs' = [x \in Counting |-> f[x]]
  BY <1>1, <1>2
<1> QED BY <1>1, <1>2, <1>3, <1>4, CenterNext

\* A notification is posted.
LEMMA CenterPosts ==
    ASSUME CenterInv, CallsFormed, CallsFormed', NEW th \in Threads, NEW name, NEW p,
           PostNotification(th, name, p)
    PROVE  CenterInv'
<1>1. PICK found : found = {e \in observers : e.name \in {name, AnyName}}
  OBVIOUS
<1>2. PICK c : c = PostCall(p, found)
  OBVIOUS
<1>3. Enter(th, c) /\ UNCHANGED centerVars /\ Len(calls[th]) < MaxCalls
  BY <1>1, <1>2 DEF PostNotification, CanCall
<1>4. PostSound(c) /\ \A x : ~ Calls(c, x)
  <2>1. found \subseteq Registrations
    BY <1>1 DEF CenterInv, CenterTypes
  <2> QED BY <1>2, <2>1 DEF PostCall, PostSound, Calls
<1>5. \A d \in AllCalls' : PostSound(d)
  BY <1>3, <1>4, CallsNew DEF CenterInv
<1>6. Shallow(CenterKinds)'
  BY <1>3, StaysShallow DEF CenterInv
<1>7. ASSUME NEW x \in Counting
      PROVE  IsFiniteSet(CallingAt(x)') /\ Cardinality(CallingAt(x)') = Cardinality(CallingAt(x))
  <2>1. IsFiniteSet(CallingAt(x))
    BY CenterCounts
  <2> QED BY <1>3, <1>4, <2>1, CallingEnter
<1> QED BY <1>3, <1>5, <1>6, <1>7, CenterQuiet

\* An observer is called, or is not concerned.
LEMMA CenterDelivers ==
    ASSUME CenterInv, CallsFormed, CallsFormed', NEW th \in Threads, NEW e, Deliver(th, e)
    PROVE  CenterInv'
<1>1. /\ calls[th] # <<>> /\ Top(th).kind = "post" /\ Top(th).stage = "deliver"
      /\ {"kind", "stage", "poster", "rest", "entry"} \subseteq DOMAIN Top(th)
      /\ Top(th).rest \subseteq Registrations
      /\ e \in Registrations /\ UNCHANGED <<observers, objOwned>>
  BY PostTop DEF Deliver
<1>2. \A x : ~ Calls(Top(th), x)
  BY <1>1 DEF Calls
<1>3. PICK rest : rest = [Top(th) EXCEPT !.rest = @ \ {e}]
  OBVIOUS
<1>4. PICK call : call = [rest EXCEPT !.stage = "callback", !.entry = e]
  OBVIOUS
<1>5. \/ Continue(th, rest) /\ UNCHANGED objRefs
      \/ UNCHANGED calls /\ UNCHANGED objRefs
      \/ Continue(th, call) /\ RetainForCall(th, e)
  BY <1>3, <1>4 DEF Deliver
<1>6. PostSound(rest) /\ \A x : ~ Calls(rest, x)
  BY <1>1, <1>3 DEF PostSound, Calls
<1>7. PostSound(call) /\ \A x : Calls(call, x) <=> e.observer = x
  BY <1>1, <1>3, <1>4 DEF PostSound, Calls
<1>8. CASE Continue(th, rest) /\ UNCHANGED objRefs
  <2>1. ASSUME NEW x \in Counting
        PROVE  /\ IsFiniteSet(CallingAt(x)')
               /\ Cardinality(CallingAt(x)') = Cardinality(CallingAt(x))
    <3>1. One(Calls(Top(th), x)) = 0 /\ One(Calls(rest, x)) = 0
      BY <1>2, <1>6 DEF One
    <3> QED BY <1>1, <1>6, <1>8, <3>1, PostGoesOn, CenterCounts
  <2> QED BY <1>1, <1>6, <1>8, <2>1, PostGoesOn, CenterQuiet DEF centerVars
<1>9. CASE UNCHANGED calls /\ UNCHANGED objRefs
  <2>1. \A x \in Counting : IsFiniteSet(CallingAt(x))
    BY CenterCounts
  <2> QED BY <1>1, <1>9, <2>1, SameCallsSamePosts, CenterQuiet DEF centerVars
<1>10. CASE Continue(th, call) /\ RetainForCall(th, e)
  <2>1. /\ IsFiniteSet(observers) /\ observers \subseteq Registrations /\ objOwned \subseteq Observers
        /\ objRefs \in [Counting -> Nat] /\ e.observer \in Counting
        /\ objRefs' = [objRefs EXCEPT ![e.observer] = @ + 1]
    BY <1>1, <1>10 DEF CenterInv, CenterTypes, RetainForCall, Registrations, Counting
  <2>2. ASSUME NEW x \in Counting PROVE CenterExact(x)'
    <3>1. /\ Cardinality(ForObject(x)) \in Nat /\ Cardinality(ForBlock(x)) \in Nat
          /\ IsFiniteSet(CallingAt(x)) /\ Cardinality(CallingAt(x)) \in Nat
          /\ One(x \in objOwned \cup Posters) \in Nat
          /\ objRefs[x] = One(x \in objOwned \cup Posters) + Cardinality(ForObject(x))
                          + Cardinality(ForBlock(x)) + Cardinality(CallingAt(x))
      BY CenterCounts
    <3>2. One(Calls(Top(th), x)) = 0 /\ One(Calls(call, x)) = One(e.observer = x)
          /\ One(e.observer = x) \in Nat
      BY <1>2, <1>7 DEF One
    <3>3. /\ IsFiniteSet(CallingAt(x)')
          /\ Cardinality(CallingAt(x)') = Cardinality(CallingAt(x)) + One(e.observer = x)
      BY <1>1, <1>7, <1>10, <3>1, <3>2, PostGoesOn
    <3>4. ForObject(x)' = ForObject(x) /\ ForBlock(x)' = ForBlock(x)
      BY <1>1 DEF ForObject, ForBlock
    <3>5. objRefs'[x] = objRefs[x] + One(e.observer = x)
      BY <2>1 DEF One
    <3>6. objRefs'[x] = One(x \in objOwned' \cup Posters) + Cardinality(ForObject(x)')
                          + Cardinality(ForBlock(x)') + Cardinality(CallingAt(x)')
      BY <1>1, <3>1, <3>2, <3>3, <3>4, <3>5
    <3> QED BY <3>3, <3>6 DEF CenterExact
  <2>3. objRefs' \in [Counting -> Nat]
    BY <2>1
  <2>4. \E f : objRefs' = [x \in Counting |-> f[x]]
    BY <2>3
  <2> QED BY <1>1, <1>7, <1>10, <2>1, <2>2, <2>4, PostGoesOn, CenterNext
<1> QED BY <1>5, <1>8, <1>9, <1>10

\* The callback of an observer returns.
LEMMA CenterDelivered ==
    ASSUME CenterInv, CallsFormed, CallsFormed', NEW th \in Threads, EndDelivery(th)
    PROVE  CenterInv'
<1>1. /\ calls[th] # <<>> /\ Top(th).kind = "post" /\ Top(th).stage = "callback"
      /\ {"kind", "stage", "poster", "rest", "entry"} \subseteq DOMAIN Top(th)
      /\ Top(th).rest \subseteq Registrations
  BY PostTop DEF EndDelivery
<1>2. PICK o : o = Top(th).entry.observer
  OBVIOUS
<1>3. PICK c : c = [Top(th) EXCEPT !.stage = "deliver", !.entry = Nil]
  OBVIOUS
<1>4. PICK removed : removed = IF objRefs[o] = 1 THEN Matching(o, Nil, Nil) ELSE {}
  OBVIOUS
<1>5. Unregister(removed, o, 1) /\ UNCHANGED objOwned /\ Continue(th, c)
  BY <1>2, <1>3, <1>4 DEF EndDelivery, ReleaseObserver
<1>6. removed \subseteq observers /\ objOwned \subseteq Observers
  BY <1>4 DEF Matching, CenterInv, CenterTypes
<1>7. PostSound(c) /\ \A x : ~ Calls(c, x)
  BY <1>1, <1>3 DEF PostSound, Calls
<1>8. \A x : Calls(Top(th), x) <=> x = o
  BY <1>1, <1>2 DEF Calls
<1>9. ASSUME NEW x \in Counting
      PROVE  /\ IsFiniteSet(CallingAt(x)') /\ Cardinality(CallingAt(x)') \in Nat
             /\ One(x \in objOwned' \cup Posters) + Cardinality(CallingAt(x)')
                = One(x \in objOwned \cup Posters) + Cardinality(CallingAt(x))
                  - (IF x = o THEN 1 ELSE 0)
  <2>1. /\ IsFiniteSet(CallingAt(x)) /\ Cardinality(CallingAt(x)) \in Nat
        /\ One(x \in objOwned \cup Posters) \in Nat
    BY CenterCounts
  <2>2. One(Calls(c, x)) = 0 /\ One(Calls(Top(th), x)) = IF x = o THEN 1 ELSE 0
    BY <1>7, <1>8 DEF One
  <2>3. PICK m \in Nat : m = IF x = o THEN 1 ELSE 0
    OBVIOUS
  <2>4. /\ IsFiniteSet(CallingAt(x)') /\ Cardinality(CallingAt(x)') \in Nat
        /\ Cardinality(CallingAt(x)') = Cardinality(CallingAt(x)) - m + 0
    BY <1>1, <1>5, <1>7, <2>2, <2>3, PostGoesOn
  <2> QED BY <1>5, <2>1, <2>3, <2>4
<1> QED BY <1>1, <1>5, <1>6, <1>7, <1>9, PostGoesOn, Unregistered

\* A post is over.
LEMMA CenterPosted ==
    ASSUME CenterInv, CallsFormed, CallsFormed', NEW th \in Threads, EndPost(th)
    PROVE  CenterInv'
<1>1. /\ calls[th] # <<>> /\ Top(th).kind = "post" /\ Top(th).stage = "deliver"
      /\ Leave(th) /\ UNCHANGED centerVars
  BY PostTop DEF EndPost
<1>2. \A x : ~ Calls(Top(th), x)
  BY <1>1 DEF Calls
<1>3. \A d \in AllCalls' : PostSound(d)
  BY <1>1, CallsNew DEF CenterInv
<1>4. Shallow(CenterKinds) /\ Shallow(CenterKinds)'
  BY <1>1, StaysShallow DEF CenterInv
<1>5. ASSUME NEW x \in Counting
      PROVE  IsFiniteSet(CallingAt(x)') /\ Cardinality(CallingAt(x)') = Cardinality(CallingAt(x))
  <2>1. IsFiniteSet(CallingAt(x))
    BY CenterCounts
  <2> QED BY <1>1, <1>2, <1>4, <2>1, CallingLeave
<1> QED BY <1>1, <1>3, <1>4, <1>5, CenterQuiet

\* A step is one of the notification center's, or one that leaves it alone.
LEMMA CenterSteps ==
    ASSUME CallsFormed, [Next]_vars
    PROVE  \/ \E th \in Threads : NotificationCalls(th) \/ NotificationHost(th) \/ EndDelivery(th)
           \/ UNCHANGED centerVars /\ \E K : Step(K) /\ K \cap CenterKinds = {}
<1>1. CASE UNCHANGED vars
  <2>1. Step({}) /\ UNCHANGED centerVars
    BY <1>1 DEF Step, vars
  <2> QED BY <2>1
<1>2. CASE TimePasses
  <2>1. Step({}) /\ UNCHANGED centerVars
    BY <1>2 DEF TimePasses, BecomeDue, Step, OnLoop
  <2> QED BY <2>1
<1>3. ASSUME NEW th \in Threads, GuestStep(th) \/ HostStep(th) \/ WakeUp(th) \/ GuestReturns(th)
      PROVE  \/ NotificationCalls(th) \/ NotificationHost(th) \/ EndDelivery(th)
             \/ UNCHANGED centerVars /\ \E K : Step(K) /\ K \cap CenterKinds = {}
  <2> USE DEF CenterKinds
  <2>1. ASSUME OnLoop, \/ TimerCalls(th) \/ RemoteCalls(th, LoopsRun)
                       \/ RunLoopHost(th) \/ Wake(th) \/ EndTimer(th) \/ EndFire(th)
        PROVE  UNCHANGED centerVars /\ Step(LoopKinds) /\ LoopKinds \cap CenterKinds = {}
    BY <2>1, LoopMoves DEF OnLoop, Step, LoopKinds
  <2>2. ASSUME OnOperations, OperationCalls(th) \/ EndStart(th) \/ EndMain(th) \/ EndCompletion(th)
        PROVE  UNCHANGED centerVars /\ Step(OpKinds) /\ OpKinds \cap CenterKinds = {}
    BY <2>2, OpMoves DEF OnOperations, Step, OpKinds
  <2>3. ASSUME OnDispatch, DispatchCalls(th) \/ EndBlock(th) \/ EndOnce(th)
        PROVE  UNCHANGED centerVars /\ Step(BlockKinds) /\ BlockKinds \cap CenterKinds = {}
    BY <2>3, BlockMoves DEF OnDispatch, Step, BlockKinds
  <2>4. ASSUME OnClasses, MessageCalls(th) \/ BeginLoads(th) \/ MessageHost(th) \/ EndSend(th)
        PROVE  UNCHANGED centerVars /\ Step(ClassKinds) /\ ClassKinds \cap CenterKinds = {}
    BY <2>4, ClassMoves DEF OnClasses, Step, ClassKinds
  <2>5. ASSUME OnLocks, \/ BlockCalls(th) \/ PropertyCalls(th)
                        \/ SynchronizedHost(th) \/ SynchronizedReturns(th)
        PROVE  UNCHANGED centerVars /\ Step(LockKinds) /\ LockKinds \cap CenterKinds = {}
    BY <2>5, LockMoves DEF OnLocks, Step, LockKinds
  <2> QED BY <1>3, <2>1, <2>2, <2>3, <2>4, <2>5
        DEF GuestStep, HostStep, WakeUp, GuestReturns
<1> QED BY <1>1, <1>2, <1>3 DEF Next

\* Every step keeps the center's references exact.
LEMMA CenterStep ==
    ASSUME CenterInv, CallsFormed, CallsFormed', [Next]_vars
    PROVE  CenterInv'
<1>1. ASSUME NEW th \in Threads, NotificationCalls(th) PROVE CenterInv'
  <2>1. CASE \E name \in Names, p \in Posters : PostNotification(th, name, p)
    BY <2>1, CenterPosts
  <2>2. CASE \/ \E o \in Observers : NewObserver(th, o) \/ ReleaseObject(th, o)
             \/ \E e \in Registrations : AddObserver(th, e) \/ AddBlock(th, e)
             \/ \E o \in Observers \cup Blocks, name \in Names \cup {Nil},
                   object \in Posters \cup {Nil} : RemoveObserver(th, o, name, object)
    <3>1. UNCHANGED calls
      BY <2>2 DEF NewObserver, ReleaseObject, AddObserver, AddBlock, RemoveObserver
    <3> QED BY <2>2, <3>1, CenterGuest
  <2> QED BY <1>1, <2>1, <2>2 DEF NotificationCalls
<1>2. ASSUME NEW th \in Threads, NotificationHost(th) \/ EndDelivery(th) PROVE CenterInv'
  BY <1>2, CenterDelivers, CenterPosted, CenterDelivered DEF NotificationHost
<1>3. ASSUME NEW K, Step(K), K \cap CenterKinds = {}, UNCHANGED centerVars PROVE CenterInv'
  <2>1. \A x \in Counting : IsFiniteSet(CallingAt(x))
    BY CenterCounts
  <2> QED BY <1>3, <2>1, SamePosts, CenterQuiet
<1> QED BY <1>1, <1>2, <1>3, CenterSteps

\* At first there is nothing to count.
LEMMA CenterInit == ASSUME Init PROVE CenterInv
<1>1. /\ calls = [th \in Threads |-> <<>>] /\ observers = {} /\ objOwned = {}
      /\ objRefs = [o \in Counting |-> IF o \in Posters THEN 1 ELSE 0]
  BY DEF Init, NotificationsInit, Counting
<1>2. AllCalls = {} /\ Shallow(CenterKinds)
  BY <1>1 DEF AllCalls, Range, Shallow
<1>3. ASSUME NEW x \in Counting PROVE CenterExact(x)
  <2>1. CallingAt(x) = {}
    <3>1. ASSUME NEW p \in Threads \X (1 .. MaxCalls) PROVE ~ (p[2] <= Len(calls[p[1]]))
      BY <1>1, CallsAssumption
    <3> QED BY <3>1 DEF CallingAt
  <2>2. ForObject(x) = {} /\ ForBlock(x) = {}
    BY <1>1 DEF ForObject, ForBlock
  <2>3. One(x \in objOwned \cup Posters) = objRefs[x]
    BY <1>1 DEF One
  <2>4. objRefs[x] \in Nat
    BY <1>1
  <2> QED BY <2>1, <2>2, <2>3, <2>4, FS_EmptySet DEF CenterExact
<1>4. CenterTypes
  BY <1>1, FS_EmptySet DEF CenterTypes
<1> QED BY <1>2, <1>3, <1>4 DEF CenterInv

\* The references of the notification center are exact, for all programs.
THEOREM CenterCounted == Spec => []CenterRefsExact
<1>1. Init => CenterInv
  BY CenterInit
<1>2. CenterInv /\ CallsFormed /\ CallsFormed' /\ [Next]_vars => CenterInv'
  BY CenterStep
<1>3. CenterInv => CenterRefsExact
  <2>1. ASSUME CenterInv, NEW x \in Counting
        PROVE  objRefs[x] = (IF x \in objOwned \cup Posters THEN 1 ELSE 0)
                            + Cardinality({e \in observers : e.object = x})
                            + Cardinality({e \in observers : x \in Blocks /\ e.observer = x})
                            + Calling(x)
    <3>1. Calling(x) = Cardinality(CallingAt(x))
      BY DEF Calling, CallingAt, Calls
    <3>2. CenterExact(x)
      BY <2>1 DEF CenterInv
    <3> QED BY <3>1, <3>2 DEF CenterExact, One, ForObject, ForBlock
  <2> QED BY <2>1 DEF CenterRefsExact, Counting
<1> QED BY <1>1, <1>2, <1>3, CallsFormedAlways, PTL DEF Spec

\* The guest keeps the observers that a post is still to call, and posts in one
\* thread at a time.
LawfulPosts == {"free_pending_observer", "post_in_threads"} \cap Misuse = {}

\* One thread posts.
OnePoster ==
    \A u, v \in Threads : \A i \in 1 .. Len(calls[u]) : \A j \in 1 .. Len(calls[v]) :
        calls[u][i].kind = "post" /\ calls[v][j].kind = "post" => u = v

\* Who keeps x until the call at this place has called it: the guest, the
\* center if x is a block, or a call further down that is calling x.
Keeps(u, i, x) ==
    \/ x \in objOwned
    \/ x \in Blocks /\ \E f \in observers : f.observer = x
    \/ \E j \in 1 .. Len(calls[u]) : j < i /\ Calls(calls[u][j], x)

Kept ==
    \A u \in Threads : \A i \in 1 .. Len(calls[u]) :
        calls[u][i].kind = "post" => \A e \in calls[u][i].rest : Keeps(u, i, e.observer)

\* An observer that is registered has not been deallocated.
Alive == \A e \in observers : objRefs[e.observer] # 0

PostsInv == OnePoster /\ Kept /\ Alive

\* What has references.
LEMMA CenterHolders ==
    CenterInv => \A x \in Counting :
        objRefs[x] = 0 <=> /\ x \notin objOwned \cup Posters
                           /\ ForObject(x) = {} /\ ForBlock(x) = {} /\ CallingAt(x) = {}
<1> SUFFICES ASSUME CenterInv, NEW x \in Counting
             PROVE  objRefs[x] = 0 <=> /\ x \notin objOwned \cup Posters
                                       /\ ForObject(x) = {} /\ ForBlock(x) = {}
                                       /\ CallingAt(x) = {}
  OBVIOUS
<1>1. /\ Cardinality(ForObject(x)) \in Nat /\ Cardinality(ForBlock(x)) \in Nat
      /\ IsFiniteSet(CallingAt(x)) /\ Cardinality(CallingAt(x)) \in Nat
      /\ One(x \in objOwned \cup Posters) \in Nat /\ objRefs[x] \in Nat
      /\ objRefs[x] = One(x \in objOwned \cup Posters) + Cardinality(ForObject(x))
                      + Cardinality(ForBlock(x)) + Cardinality(CallingAt(x))
  BY CenterCounts
<1>2. IsFiniteSet(ForObject(x)) /\ IsFiniteSet(ForBlock(x))
  BY FS_Subset DEF CenterInv, CenterTypes, ForObject, ForBlock
<1>3. /\ Cardinality(ForObject(x)) = 0 <=> ForObject(x) = {}
      /\ Cardinality(ForBlock(x)) = 0 <=> ForBlock(x) = {}
      /\ Cardinality(CallingAt(x)) = 0 <=> CallingAt(x) = {}
  BY <1>1, <1>2, FS_EmptySet
<1>4. One(x \in objOwned \cup Posters) = 0 <=> x \notin objOwned \cup Posters
  BY DEF One
<1>5. objRefs[x] = 0 <=> /\ One(x \in objOwned \cup Posters) = 0
                         /\ Cardinality(ForObject(x)) = 0 /\ Cardinality(ForBlock(x)) = 0
                         /\ Cardinality(CallingAt(x)) = 0
  BY <1>1
<1> QED BY <1>3, <1>4, <1>5

\* The same after a step.
LEMMA CenterHoldersNext ==
    CenterInv' => \A x \in Counting :
        x \in objOwned' \cup Posters \/ ForBlock(x)' # {} => objRefs'[x] # 0
<1>1. CenterInv' => (\A x \in Counting :
        objRefs[x] = 0 <=> /\ x \notin objOwned \cup Posters
                           /\ ForObject(x) = {} /\ ForBlock(x) = {} /\ CallingAt(x) = {})'
  BY CenterHolders, PTL
<1> QED BY <1>1 DEF Counting

\* Whoever is kept has references.
LEMMA KeptHasReferences ==
    ASSUME CenterInv, CallsFormed, NEW u \in Threads, NEW i, NEW x \in Observers \cup Blocks,
           Keeps(u, i, x)
    PROVE  objRefs[x] # 0
<1>1. x \in Counting
  BY DEF Counting
<1>2. CASE x \in objOwned
  BY <1>1, <1>2, CenterHolders
<1>3. CASE x \in Blocks /\ \E f \in observers : f.observer = x
  <2>1. ForBlock(x) # {}
    BY <1>3 DEF ForBlock
  <2> QED BY <1>1, <2>1, CenterHolders
<1>4. CASE \E j \in 1 .. Len(calls[u]) : Calls(calls[u][j], x)
  <2>1. PICK j \in 1 .. Len(calls[u]) : Calls(calls[u][j], x)
    BY <1>4
  <2>2. j <= MaxCalls
    BY <2>1 DEF CenterInv, Shallow, CenterKinds, Calls
  <2>3. j \in 1 .. MaxCalls /\ j <= Len(calls[u])
    BY <2>2, CallsAssumption DEF CallsFormed
  <2>4. <<u, j>> \in CallingAt(x)
    BY <2>1, <2>3 DEF CallingAt
  <2> QED BY <1>1, <2>4, CenterHolders
<1> QED BY <1>2, <1>3, <1>4 DEF Keeps

\* A step of the posts changes one place, at the top.
LEMMA KeptElsewhere ==
    ASSUME CallsFormed, CallsFormed', Kept, NEW th \in Threads, NEW n, Elsewhere(th, n),
           \A i \in 1 .. Len(calls'[th]) : i <= n,
           NEW rest,
           n \in 1 .. Len(calls'[th]) /\ calls'[th][n].kind = "post" =>
               calls'[th][n].rest = rest /\ \A e \in rest : Keeps(th, n, e.observer),
           \A x : AwaitsCall(x) \/ (\E e \in rest : e.observer = x) =>
               /\ x \in objOwned => x \in objOwned'
               /\ x \in Blocks /\ (\E f \in observers : f.observer = x) =>
                      \E f \in observers' : f.observer = x
    PROVE  Kept'
<1>1. ASSUME NEW u \in Threads, NEW i \in Nat, u = th => i <= n, NEW x, Keeps(u, i, x),
             AwaitsCall(x) \/ (\E e \in rest : e.observer = x)
      PROVE  Keeps(u, i, x)'
  <2>1. ASSUME NEW j \in 1 .. Len(calls[u]), j < i, Calls(calls[u][j], x)
        PROVE  j \in 1 .. Len(calls'[u]) /\ Calls(calls'[u][j], x)
    <3>1. j \in Nat /\ ~ (u = th /\ j = n)
      <4>1. j \in Nat
        BY DEF CallsFormed
      <4>2. CASE u = th /\ j = n
        BY <1>1, <2>1, <4>1, <4>2
      <4> QED BY <4>1, <4>2
    <3>2. j \in 1 .. Len(calls'[u]) /\ calls'[u][j] = calls[u][j]
      BY <3>1 DEF Elsewhere
    <3> QED BY <2>1, <3>2 DEF Calls
  <2>2. \/ x \in objOwned /\ x \in objOwned'
        \/ x \in Blocks /\ \E f \in observers' : f.observer = x
        \/ \E j \in 1 .. Len(calls[u]) : j < i /\ Calls(calls[u][j], x)
    BY <1>1 DEF Keeps
  <2> QED BY <2>1, <2>2 DEF Keeps
<1>2. ASSUME NEW u \in Threads, NEW i \in 1 .. Len(calls'[u]), calls'[u][i].kind = "post",
             NEW e \in calls'[u][i].rest
      PROVE  Keeps(u, i, e.observer)'
  <2>0. i \in Nat /\ (u = th => i <= n)
    BY DEF CallsFormed
  <2>1. CASE u = th /\ i = n
    <3>1. calls'[th][n].rest = rest /\ Keeps(th, n, e.observer) /\ e \in rest
      BY <1>2, <2>1
    <3> QED BY <1>1, <2>0, <2>1, <3>1
  <2>2. CASE ~ (u = th /\ i = n)
    <3>1. i \in 1 .. Len(calls[u]) /\ calls'[u][i] = calls[u][i]
      BY <2>0, <2>2 DEF Elsewhere
    <3>2. Keeps(u, i, e.observer)
      BY <1>2, <3>1 DEF Kept
    <3>3. AwaitsCall(e.observer)
      <4>1. calls[u][i] \in AllCalls
        BY <3>1, InCalls
      <4> QED BY <1>2, <3>1, <4>1 DEF AwaitsCall, PostCalls
    <3> QED BY <1>1, <2>0, <3>2, <3>3
  <2> QED BY <2>1, <2>2
<1> QED BY <1>2 DEF Kept

\* It leaves the posts to one thread.
LEMMA OneElsewhere ==
    ASSUME CallsFormed, CallsFormed', OnePoster, NEW th \in Threads, NEW n, Elsewhere(th, n),
           n \in 1 .. Len(calls'[th]) /\ calls'[th][n].kind = "post" =>
               \A v \in Threads : \A j \in 1 .. Len(calls[v]) : calls[v][j].kind = "post" => v = th
    PROVE  OnePoster'
<1>1. ASSUME NEW u \in Threads, NEW i \in 1 .. Len(calls'[u]), calls'[u][i].kind = "post",
             ~ (u = th /\ i = n)
      PROVE  i \in 1 .. Len(calls[u]) /\ calls[u][i].kind = "post"
  <2>1. i \in Nat
    BY DEF CallsFormed
  <2> QED BY <1>1, <2>1 DEF Elsewhere
<1>2. ASSUME NEW u \in Threads, NEW v \in Threads,
             NEW i \in 1 .. Len(calls'[u]), NEW j \in 1 .. Len(calls'[v]),
             calls'[u][i].kind = "post", calls'[v][j].kind = "post"
      PROVE  u = v
  <2>1. CASE (u = th /\ i = n) /\ ~ (v = th /\ j = n)
    BY <1>1, <1>2, <2>1
  <2>2. CASE ~ (u = th /\ i = n) /\ (v = th /\ j = n)
    BY <1>1, <1>2, <2>2
  <2>3. CASE ~ (u = th /\ i = n) /\ ~ (v = th /\ j = n)
    BY <1>1, <1>2, <2>3 DEF OnePoster
  <2> QED BY <2>1, <2>2, <2>3
<1> QED BY <1>2 DEF OnePoster

\* Steps of others.
LEMMA PostsForeign ==
    ASSUME PostsInv, CallsFormed, CallsFormed', NEW K, Step(K), "post" \notin K,
           UNCHANGED centerVars
    PROVE  PostsInv'
<1>1. /\ \A u \in Threads : \A i \in 1 .. Len(calls[u]) :
             calls[u][i].kind = "post" => i \in 1 .. Len(calls'[u]) /\ calls'[u][i] = calls[u][i]
      /\ \A u \in Threads : \A i \in 1 .. Len(calls'[u]) :
             calls'[u][i].kind = "post" => i \in 1 .. Len(calls[u]) /\ calls'[u][i] = calls[u][i]
  BY Foreign
<1>2. OnePoster'
  <2>1. ASSUME NEW u \in Threads, NEW v \in Threads,
               NEW i \in 1 .. Len(calls'[u]), NEW j \in 1 .. Len(calls'[v]),
               calls'[u][i].kind = "post", calls'[v][j].kind = "post"
        PROVE  u = v
    <3>1. i \in 1 .. Len(calls[u]) /\ calls[u][i].kind = "post"
      BY <1>1, <2>1
    <3>2. j \in 1 .. Len(calls[v]) /\ calls[v][j].kind = "post"
      BY <1>1, <2>1
    <3> QED BY <3>1, <3>2 DEF PostsInv, OnePoster
  <2> QED BY <2>1 DEF OnePoster
<1>3. UNCHANGED <<observers, objRefs, objOwned>>
  BY DEF centerVars
<1>4. Alive'
  BY <1>3 DEF PostsInv, Alive
<1>5. ASSUME NEW u \in Threads, NEW i, NEW x, Keeps(u, i, x) PROVE Keeps(u, i, x)'
  <2>1. ASSUME NEW j \in 1 .. Len(calls[u]), Calls(calls[u][j], x)
        PROVE  j \in 1 .. Len(calls'[u]) /\ Calls(calls'[u][j], x)
    BY <1>1, <2>1 DEF Calls
  <2> QED BY <1>3, <1>5, <2>1 DEF Keeps
<1>6. Kept'
  BY <1>1, <1>5 DEF PostsInv, Kept
<1> QED BY <1>2, <1>4, <1>6 DEF PostsInv

\* The changed place is the highest one.
LEMMA AtTheTop ==
    ASSUME CallsFormed, NEW th \in Threads, NEW c
    PROVE  /\ Enter(th, c) => \A i \in 1 .. Len(calls'[th]) : i <= Len(calls[th]) + 1
           /\ calls[th] # <<>> /\ Continue(th, c) =>
                  \A i \in 1 .. Len(calls'[th]) : i <= Len(calls[th])
           /\ calls[th] # <<>> /\ Leave(th) =>
                  \A i \in 1 .. Len(calls'[th]) : i <= Len(calls[th])
<1>1. PICK S : calls \in [Threads -> Seq(S)]
  BY DEF CallsFormed
<1>2. Len(calls[th]) \in Nat
  BY <1>1
<1>3. /\ Enter(th, c) => Len(calls'[th]) = Len(calls[th]) + 1
      /\ calls[th] # <<>> /\ Continue(th, c) => Len(calls'[th]) = Len(calls[th])
      /\ calls[th] # <<>> /\ Leave(th) => Len(calls'[th]) = Len(calls[th]) - 1
  BY <1>1, Stacks
<1> QED BY <1>2, <1>3

\* A post that goes on, with some of its observers left.
LEMMA PostsContinue ==
    ASSUME CallsFormed, CallsFormed', PostsInv, NEW th \in Threads, calls[th] # <<>>,
           Top(th).kind = "post", NEW c, c.kind = "post" => c.rest \subseteq Top(th).rest,
           \/ Continue(th, c)
           \/ Leave(th) /\ c = Top(th),
           objOwned' = objOwned,
           \A x \in Blocks : AwaitsCall(x) /\ (\E f \in observers : f.observer = x) =>
                                 \E f \in observers' : f.observer = x
    PROVE  OnePoster' /\ Kept'
<1> DEFINE n == Len(calls[th])
<1>1. /\ Elsewhere(th, n)
      /\ n \in 1 .. Len(calls'[th]) => calls'[th][n] = c
      /\ \A i \in 1 .. Len(calls'[th]) : i <= n
  BY TopElsewhere, AtTheTop
<1>2. n \in 1 .. Len(calls[th]) /\ Top(th) = calls[th][n]
  <2>1. n \in Nat \ {0} /\ Top(th) = calls[th][n]
    BY Stacks DEF CallsFormed
  <2> QED BY <2>1
<1> HIDE DEF n
<1>3. \A v \in Threads : \A j \in 1 .. Len(calls[v]) : calls[v][j].kind = "post" => v = th
  BY <1>2 DEF PostsInv, OnePoster
<1>4. OnePoster'
  BY <1>1, <1>3, OneElsewhere DEF PostsInv
<1>5. PICK rest : rest = IF c.kind = "post" THEN c.rest ELSE {}
  OBVIOUS
<1>6. \A e \in rest : e \in Top(th).rest /\ Keeps(th, n, e.observer) /\ AwaitsCall(e.observer)
  <2>1. Top(th) \in AllCalls
    BY TopInCalls
  <2> QED BY <1>2, <1>5, <2>1 DEF PostsInv, Kept, AwaitsCall, PostCalls
<1>7. n \in 1 .. Len(calls'[th]) /\ calls'[th][n].kind = "post" =>
               calls'[th][n].rest = rest /\ \A e \in rest : Keeps(th, n, e.observer)
  BY <1>1, <1>5, <1>6
<1>8. \A x : AwaitsCall(x) \/ (\E e \in rest : e.observer = x) => AwaitsCall(x)
  BY <1>6
<1>9. Kept /\ \A x : AwaitsCall(x) \/ (\E e \in rest : e.observer = x) =>
               /\ x \in objOwned => x \in objOwned'
               /\ x \in Blocks /\ (\E f \in observers : f.observer = x) =>
                      \E f \in observers' : f.observer = x
  BY <1>8 DEF PostsInv
<1>10. Kept'
  BY <1>1, <1>7, <1>9, KeptElsewhere
<1> QED BY <1>4, <1>10

\* The guest registers, removes and releases, and no post is changed.
LEMMA PostsStay ==
    ASSUME CallsFormed, CallsFormed', PostsInv, UNCHANGED calls,
           \A x : AwaitsCall(x) =>
               /\ x \in objOwned => x \in objOwned'
               /\ x \in Blocks /\ (\E f \in observers : f.observer = x) =>
                      \E f \in observers' : f.observer = x
    PROVE  OnePoster' /\ Kept'
<1>1. OnePoster'
  BY DEF PostsInv, OnePoster
<1>2. ASSUME NEW u \in Threads, NEW i \in 1 .. Len(calls[u]), calls[u][i].kind = "post",
             NEW e \in calls[u][i].rest
      PROVE  Keeps(u, i, e.observer)'
  <2>1. Keeps(u, i, e.observer)
    BY <1>2 DEF PostsInv, Kept
  <2>2. AwaitsCall(e.observer)
    <3>1. calls[u][i] \in AllCalls
      BY InCalls
    <3> QED BY <1>2, <3>1 DEF AwaitsCall, PostCalls
  <2> QED BY <2>1, <2>2 DEF Keeps
<1>3. Kept'
  BY <1>2 DEF Kept
<1> QED BY <1>1, <1>3

\* Registrations go together with references; those that stay are of objects
\* that are alive.
LEMMA UnregisteredAlive ==
    ASSUME CenterInv, CenterInv', Alive, NEW removed, removed \subseteq observers,
           NEW o \in Observers \cup Blocks, NEW n \in Nat, Unregister(removed, o, n),
           o \in Observers /\ n # 0 =>
               \/ n < objRefs[o]
               \/ \A e \in observers : e.observer = o => e \in removed
    PROVE  Alive'
<1>1. /\ observers' = observers \ removed
      /\ objRefs' = [x \in DOMAIN objRefs |->
                        objRefs[x] - ReleasesOf(removed, x) - (IF x = o THEN n ELSE 0)]
  BY DEF Unregister
<1>2. DOMAIN objRefs = Counting /\ objRefs \in [Counting -> Nat] /\ observers \subseteq Registrations
  BY DEF CenterInv, CenterTypes
<1>3. ASSUME NEW e \in observers', e.observer \in Blocks PROVE objRefs'[e.observer] # 0
  <2>1. e \in ForBlock(e.observer)' /\ e.observer \in Counting
    BY <1>3 DEF ForBlock, Counting
  <2> QED BY <2>1, CenterHoldersNext
<1>4. ASSUME NEW e \in observers', e.observer \in Observers PROVE objRefs'[e.observer] # 0
  <2> DEFINE x == e.observer
  <2>1. x \in Counting /\ e \in observers /\ e \notin removed /\ objRefs[x] \in Nat /\ objRefs[x] # 0
    BY <1>1, <1>2, <1>4 DEF Counting, Alive
  <2>2. ReleasesOf(removed, x) = 0
    <3>1. \A f \in removed : f.object # x /\ ~ (f.observer \in Blocks /\ f.observer = x)
      BY <1>2, <1>4, NotificationsAssumption DEF Registrations
    <3>2. /\ {f \in removed : f.object = x} = {}
          /\ {f \in removed : f.observer \in Blocks /\ f.observer = x} = {}
      BY <3>1
    <3>3. /\ Cardinality({f \in removed : f.object = x}) = 0
          /\ Cardinality({f \in removed : f.observer \in Blocks /\ f.observer = x}) = 0
      BY <3>2, FS_EmptySet
    <3> QED BY <3>3 DEF ReleasesOf
  <2>3. objRefs'[x] = objRefs[x] - 0 - (IF x = o THEN n ELSE 0)
    BY <1>1, <1>2, <2>1, <2>2
  <2>4. CASE x = o /\ n # 0
    <3>1. n < objRefs[x]
      BY <1>4, <2>1, <2>4
    <3> QED BY <2>1, <2>3, <2>4, <3>1
  <2>5. CASE ~ (x = o /\ n # 0)
    <3>1. objRefs'[x] = objRefs[x] - 0 - 0
      BY <2>3, <2>5
    <3> QED BY <2>1, <3>1
  <2> QED BY <2>4, <2>5
<1>5. \A e \in observers' : e.observer \in Blocks \/ e.observer \in Observers
  BY <1>1, <1>2 DEF Registrations
<1> QED BY <1>3, <1>4, <1>5 DEF Alive

\* The guest's calls, without posts.
LEMMA PostsGuest ==
    ASSUME LawfulPosts, CenterInv, CenterInv', PostsInv, CallsFormed, CallsFormed',
           NEW th \in Threads, UNCHANGED calls,
           \/ \E o \in Observers : NewObserver(th, o) \/ ReleaseObject(th, o)
           \/ \E e \in Registrations : AddObserver(th, e) \/ AddBlock(th, e)
           \/ \E o \in Observers \cup Blocks, name \in Names \cup {Nil},
                 object \in Posters \cup {Nil} : RemoveObserver(th, o, name, object)
    PROVE  PostsInv'
<1>1. /\ observers \subseteq Registrations /\ objRefs \in [Counting -> Nat]
  BY DEF CenterInv, CenterTypes
<1>2. Alive
  BY DEF PostsInv
<1>3. ASSUME NEW o \in Observers, NewObserver(th, o) PROVE PostsInv'
  <2>1. /\ objRefs[o] = 0 /\ objRefs' = [objRefs EXCEPT ![o] = 1]
        /\ objOwned \subseteq objOwned' /\ observers' = observers
    BY <1>3 DEF NewObserver
  <2>2. OnePoster' /\ Kept'
    BY <2>1, PostsStay
  <2>3. \A e \in observers : e.observer \in Counting /\ objRefs[e.observer] # 0
    BY <1>1, <1>2 DEF Alive, Registrations, Counting
  <2>4. Alive'
    BY <1>1, <2>1, <2>3 DEF Alive
  <2> QED BY <2>2, <2>4 DEF PostsInv
<1>4. ASSUME NEW e \in Registrations, AddObserver(th, e) \/ AddBlock(th, e) PROVE PostsInv'
  <2>1. /\ observers' = observers \cup {e} /\ objOwned' = objOwned
        /\ e.observer \in objOwned \cup Blocks
    BY <1>4 DEF AddObserver, AddBlock, Register
  <2>2. OnePoster' /\ Kept'
    BY <2>1, PostsStay
  <2>3. ASSUME NEW x \in Counting, objRefs[x] # 0 PROVE objRefs'[x] # 0
    <3>1. objRefs'[x] \in {objRefs[x], objRefs[x] + 1}
      BY <1>1, <1>4 DEF AddObserver, AddBlock
    <3>2. objRefs[x] \in Nat
      BY <1>1
    <3> QED BY <2>3, <3>1, <3>2
  <2>4. objRefs'[e.observer] # 0
    <3>1. e.observer \in Counting
      BY DEF Counting, Registrations
    <3>2. e.observer \in objOwned' \cup Posters \/ ForBlock(e.observer)' # {}
      BY <2>1 DEF ForBlock
    <3> QED BY <3>1, <3>2, CenterHoldersNext
  <2>5. \A f \in observers : f.observer \in Counting /\ objRefs[f.observer] # 0
    BY <1>1, <1>2 DEF Alive, Registrations, Counting
  <2>6. Alive'
    BY <2>1, <2>3, <2>4, <2>5 DEF Alive
  <2> QED BY <2>2, <2>6 DEF PostsInv
<1>5. ASSUME NEW o \in Observers \cup Blocks, NEW name, NEW object,
             RemoveObserver(th, o, name, object)
      PROVE  PostsInv'
  <2>1. PICK removed : removed = Matching(o, name, object)
    OBVIOUS
  <2>2. /\ Unregister(removed, o, 0) /\ objOwned' = objOwned
        /\ o \in Blocks => ~ AwaitsCall(o)
    BY <1>5, <2>1 DEF RemoveObserver, Lawful, LawfulPosts
  <2>3. removed \subseteq observers /\ \A f \in removed : f.observer = o
    BY <2>1 DEF Matching
  <2>4. observers' = observers \ removed
    BY <2>2 DEF Unregister
  <2>5. OnePoster' /\ Kept'
    BY <2>2, <2>3, <2>4, PostsStay
  <2>6. Alive'
    BY <1>2, <2>2, <2>3, UnregisteredAlive
  <2> QED BY <2>5, <2>6 DEF PostsInv
<1>6. ASSUME NEW o \in Observers, ReleaseObject(th, o) PROVE PostsInv'
  <2>1. PICK removed : removed = IF objRefs[o] = 1 THEN Matching(o, Nil, Nil) ELSE {}
    OBVIOUS
  <2>2. /\ Unregister(removed, o, 1) /\ objOwned' = objOwned \ {o} /\ o \in objOwned
        /\ ~ AwaitsCall(o)
    BY <1>6, <2>1 DEF ReleaseObject, ReleaseObserver, Lawful, LawfulPosts
  <2>3. removed \subseteq observers /\ \A f \in removed : f.observer = o
    BY <2>1 DEF Matching
  <2>4. observers' = observers \ removed
    BY <2>2 DEF Unregister
  <2>5. o \notin Blocks
    BY NotificationsAssumption
  <2>6. OnePoster' /\ Kept'
    BY <2>2, <2>3, <2>4, <2>5, PostsStay
  <2>7. 1 < objRefs[o] \/ \A e \in observers : e.observer = o => e \in removed
    <3>1. objRefs[o] \in Nat /\ o \in Counting
      BY <1>1 DEF Counting
    <3>2. objRefs[o] # 0
      BY <2>2, <3>1, CenterHolders
    <3>3. objRefs[o] = 1 => \A e \in observers : e.observer = o => e \in removed
      BY <2>1 DEF Matching
    <3> QED BY <3>1, <3>2, <3>3
  <2>8. Alive'
    BY <1>2, <2>2, <2>3, <2>7, UnregisteredAlive
  <2> QED BY <2>6, <2>8 DEF PostsInv
<1> QED BY <1>3, <1>4, <1>5, <1>6

\* A post begins: whom it finds registered is kept by somebody.
LEMMA PostsBegin ==
    ASSUME LawfulPosts, CenterInv, PostsInv, CallsFormed, CallsFormed', NEW th \in Threads,
           NEW name, NEW p, PostNotification(th, name, p)
    PROVE  PostsInv'
<1>1. PICK found : found = {e \in observers : e.name \in {name, AnyName}}
  OBVIOUS
<1>2. PICK c : c = PostCall(p, found)
  OBVIOUS
<1>3. /\ Enter(th, c) /\ UNCHANGED <<observers, objRefs, objOwned>>
      /\ PostCalls \subseteq Range(calls[th]) /\ c.kind = "post" /\ c.rest = found
  BY <1>1, <1>2 DEF PostNotification, Lawful, LawfulPosts, centerVars, PostCall
<1>4. \A v \in Threads : \A j \in 1 .. Len(calls[v]) : calls[v][j].kind = "post" => v = th
  <2>1. ASSUME NEW v \in Threads, NEW j \in 1 .. Len(calls[v]), calls[v][j].kind = "post"
        PROVE  v = th
    <3>1. calls[v][j] \in Range(calls[th])
      <4>1. calls[v][j] \in AllCalls
        BY InCalls
      <4> QED BY <1>3, <2>1, <4>1 DEF PostCalls
    <3>2. PICK S : calls \in [Threads -> Seq(S)]
      BY DEF CallsFormed
    <3>3. PICK i \in 1 .. Len(calls[th]) : calls[th][i] = calls[v][j]
      <4>1. DOMAIN calls[th] = 1 .. Len(calls[th])
        BY <3>2
      <4> QED BY <3>1, <4>1 DEF Range
    <3> QED BY <2>1, <3>3 DEF PostsInv, OnePoster
  <2> QED BY <2>1
<1> DEFINE n == Len(calls[th]) + 1
<1>5. /\ Elsewhere(th, n) /\ calls'[th][n] = c
      /\ \A i \in 1 .. Len(calls'[th]) : i <= n
  BY <1>3, TopElsewhere, AtTheTop
<1>6. \A j \in 1 .. Len(calls[th]) : j < n
  BY DEF CallsFormed
<1> HIDE DEF n
<1>7. OnePoster'
  BY <1>4, <1>5, OneElsewhere DEF PostsInv
<1>8. ASSUME NEW e \in found PROVE Keeps(th, n, e.observer)
  <2> DEFINE x == e.observer
  <2>1. e \in observers /\ observers \subseteq Registrations
    BY <1>1 DEF CenterInv, CenterTypes
  <2>2. x \in Observers \cup Blocks /\ objRefs[x] # 0 /\ x \in Counting
    BY <2>1 DEF PostsInv, Alive, Registrations, Counting
  <2>3. CASE x \in Blocks
    BY <2>1, <2>3 DEF Keeps
  <2>4. CASE x \in Observers
    <3>1. x \notin Posters /\ x \notin Blocks /\ \A f \in observers : f.object # x
      BY <2>1, <2>4, NotificationsAssumption DEF Registrations
    <3> HIDE DEF x
    <3>2. ForObject(x) = {} /\ ForBlock(x) = {}
      BY <3>1 DEF ForObject, ForBlock
    <3>3. x \in objOwned \/ CallingAt(x) # {}
      BY <2>2, <3>1, <3>2, CenterHolders
    <3>4. CASE x \in objOwned
      BY <3>4 DEF Keeps, x
    <3>5. CASE CallingAt(x) # {}
      <4>1. PICK u \in Threads, j \in 1 .. MaxCalls :
                j <= Len(calls[u]) /\ Calls(calls[u][j], x)
        <5>1. PICK q \in CallingAt(x) : TRUE
          BY <3>5
        <5>2. PICK u \in Threads, j \in 1 .. MaxCalls : q = <<u, j>>
          BY <5>1 DEF CallingAt
        <5> QED BY <5>1, <5>2 DEF CallingAt
      <4>2. j \in 1 .. Len(calls[u])
        BY <4>1, CallsAssumption DEF CallsFormed
      <4>3. u = th
        BY <1>4, <4>1, <4>2 DEF Calls
      <4> QED BY <1>6, <4>1, <4>2, <4>3 DEF Keeps, x
    <3> QED BY <3>3, <3>4, <3>5
  <2> QED BY <2>2, <2>3, <2>4
<1>9. Kept'
  <2>1. \A x : AwaitsCall(x) \/ (\E e \in found : e.observer = x) =>
               /\ x \in objOwned => x \in objOwned'
               /\ x \in Blocks /\ (\E f \in observers : f.observer = x) =>
                      \E f \in observers' : f.observer = x
    BY <1>3
  <2>2. n \in 1 .. Len(calls'[th]) /\ calls'[th][n].kind = "post" =>
               calls'[th][n].rest = found /\ \A e \in found : Keeps(th, n, e.observer)
    BY <1>3, <1>5, <1>8
  <2> QED BY <1>5, <2>1, <2>2, KeptElsewhere DEF PostsInv
<1>10. Alive'
  BY <1>3 DEF PostsInv, Alive
<1> QED BY <1>7, <1>9, <1>10 DEF PostsInv

\* An observer that a post is to call is alive.
LEMMA CalledAlive ==
    ASSUME CenterInv, PostsInv, CallsFormed, NEW th \in Threads, calls[th] # <<>>,
           Top(th).kind = "post", NEW e \in Top(th).rest
    PROVE  e.observer \in Observers \cup Blocks /\ objRefs[e.observer] # 0
<1>1. PICK n \in 1 .. Len(calls[th]) : Top(th) = calls[th][n]
  <2>1. Len(calls[th]) \in Nat \ {0} /\ Top(th) = calls[th][Len(calls[th])]
    BY Stacks DEF CallsFormed
  <2> QED BY <2>1
<1>2. Keeps(th, n, e.observer)
  BY <1>1 DEF PostsInv, Kept
<1>3. e \in Registrations
  <2>1. PostSound(Top(th))
    BY TopInCalls DEF CenterInv
  <2> QED BY <2>1 DEF PostSound
<1>4. e.observer \in Observers \cup Blocks
  BY <1>3 DEF Registrations
<1> QED BY <1>2, <1>4, KeptHasReferences

\* An observer is called, or not concerned.
LEMMA PostsDeliver ==
    ASSUME CenterInv, PostsInv, CallsFormed, CallsFormed', NEW th \in Threads,
           NEW e, Deliver(th, e)
    PROVE  PostsInv' /\ host' = "up"
<1>1. /\ calls[th] # <<>> /\ Top(th).kind = "post" /\ Top(th).stage = "deliver"
      /\ {"kind", "stage", "poster", "rest", "entry"} \subseteq DOMAIN Top(th)
      /\ Top(th).rest \subseteq Registrations /\ host = "up"
      /\ e \in Top(th).rest /\ UNCHANGED <<observers, objOwned>>
  BY PostTop DEF Deliver, At
<1>2. objRefs[e.observer] # 0
  BY <1>1, CalledAlive
<1>3. PICK rest : rest = [Top(th) EXCEPT !.rest = @ \ {e}]
  OBVIOUS
<1>4. PICK call : call = [rest EXCEPT !.stage = "callback", !.entry = e]
  OBVIOUS
<1>5. /\ host' = host
      /\ \/ Continue(th, rest) /\ UNCHANGED objRefs
         \/ Continue(th, call) /\ RetainForCall(th, e)
  BY <1>2, <1>3, <1>4 DEF Deliver
<1>6. rest.rest \subseteq Top(th).rest /\ call.rest \subseteq Top(th).rest
  BY <1>1, <1>3, <1>4
<1>7. OnePoster' /\ Kept'
  BY <1>1, <1>5, <1>6, PostsContinue
<1>8. Alive'
  <2>1. /\ objRefs \in [Counting -> Nat] /\ observers \subseteq Registrations
    BY DEF CenterInv, CenterTypes
  <2>2. ASSUME NEW f \in observers PROVE objRefs'[f.observer] # 0
    <3>1. f.observer \in Counting /\ objRefs[f.observer] # 0
      BY <2>1 DEF PostsInv, Alive, Registrations, Counting
    <3>2. objRefs'[f.observer] \in {objRefs[f.observer], objRefs[f.observer] + 1}
      BY <1>5, <2>1, <3>1 DEF RetainForCall
    <3>3. objRefs[f.observer] \in Nat
      BY <2>1, <3>1
    <3> QED BY <3>1, <3>2, <3>3
  <2> QED BY <1>1, <2>2 DEF Alive
<1> QED BY <1>1, <1>5, <1>7, <1>8 DEF PostsInv

\* A callback returns.
LEMMA PostsDelivered ==
    ASSUME CenterInv, CenterInv', PostsInv, CallsFormed, CallsFormed', NEW th \in Threads,
           EndDelivery(th)
    PROVE  PostsInv'
<1>1. /\ calls[th] # <<>> /\ Top(th).kind = "post" /\ Top(th).stage = "callback"
      /\ {"kind", "stage", "poster", "rest", "entry"} \subseteq DOMAIN Top(th)
      /\ PostSound(Top(th))
  BY PostTop DEF EndDelivery
<1>2. PICK o : o = Top(th).entry.observer
  OBVIOUS
<1>3. PICK c : c = [Top(th) EXCEPT !.stage = "deliver", !.entry = Nil]
  OBVIOUS
<1>4. PICK removed : removed = IF objRefs[o] = 1 THEN Matching(o, Nil, Nil) ELSE {}
  OBVIOUS
<1>5. Unregister(removed, o, 1) /\ UNCHANGED objOwned /\ Continue(th, c)
  BY <1>2, <1>3, <1>4 DEF EndDelivery, ReleaseObserver
<1>6. /\ removed \subseteq observers /\ \A f \in removed : f.observer = o
      /\ observers' = observers \ removed
  BY <1>4, <1>5 DEF Matching, Unregister
<1>7. o \in Observers \cup Blocks /\ o \in Counting
  BY <1>1, <1>2 DEF PostSound, Registrations, Counting
<1>8. CallingAt(o) # {}
  <2> DEFINE n == Len(calls[th])
  <2>1. n \in Nat \ {0} /\ Top(th) = calls[th][n]
    BY <1>1, Stacks DEF CallsFormed
  <2>2. n <= MaxCalls
    BY <1>1, TopShallow DEF CenterInv, CenterKinds
  <2>3. n \in 1 .. MaxCalls /\ n <= Len(calls[th])
    BY <2>1, <2>2, CallsAssumption
  <2> HIDE DEF n
  <2>4. <<th, n>> \in CallingAt(o)
    BY <1>1, <1>2, <2>1, <2>3 DEF CallingAt, Calls
  <2> QED BY <2>4
<1>9. /\ objRefs[o] \in Nat /\ objRefs[o] # 0
      /\ ForBlock(o) # {} => objRefs[o] # 1
  <2>1. /\ Cardinality(ForObject(o)) \in Nat /\ Cardinality(ForBlock(o)) \in Nat
        /\ IsFiniteSet(CallingAt(o)) /\ Cardinality(CallingAt(o)) \in Nat
        /\ One(o \in objOwned \cup Posters) \in Nat /\ objRefs[o] \in Nat
        /\ objRefs[o] = One(o \in objOwned \cup Posters) + Cardinality(ForObject(o))
                        + Cardinality(ForBlock(o)) + Cardinality(CallingAt(o))
    BY <1>7, CenterCounts
  <2>2. IsFiniteSet(ForBlock(o))
    BY FS_Subset DEF CenterInv, CenterTypes, ForBlock
  <2>3. /\ Cardinality(CallingAt(o)) # 0
        /\ ForBlock(o) # {} => Cardinality(ForBlock(o)) # 0
    BY <1>8, <2>1, <2>2, FS_EmptySet
  <2>4. \A a, b, k, g \in Nat : k # 0 => a + b + g + k # 0 /\ (g # 0 => a + b + g + k # 1)
    OBVIOUS
  <2>5. objRefs[o] # 0
    BY <2>1, <2>3, <2>4
  <2>6. Cardinality(ForBlock(o)) # 0 => objRefs[o] # 1
    BY <2>1, <2>3, <2>4
  <2> QED BY <2>1, <2>3, <2>5, <2>6
<1>10. c.rest \subseteq Top(th).rest
  BY <1>1, <1>3
<1>11. ASSUME NEW x \in Blocks, \E f \in observers : f.observer = x
       PROVE  \E f \in observers' : f.observer = x
  <2>1. CASE x = o
    <3>1. ForBlock(o) # {}
      BY <1>11, <2>1 DEF ForBlock
    <3> QED BY <1>4, <1>6, <1>9, <1>11, <3>1
  <2>2. CASE x # o
    BY <1>6, <1>11, <2>2
  <2> QED BY <2>1, <2>2
<1>12. OnePoster' /\ Kept'
  BY <1>1, <1>5, <1>10, <1>11, PostsContinue
<1>13. 1 < objRefs[o] \/ \A e \in observers : e.observer = o => e \in removed
  <2>1. objRefs[o] = 1 => \A e \in observers : e.observer = o => e \in removed
    BY <1>4 DEF Matching
  <2> QED BY <1>9, <2>1
<1>14. Alive'
  BY <1>5, <1>6, <1>7, <1>13, UnregisteredAlive DEF PostsInv
<1> QED BY <1>12, <1>14 DEF PostsInv

\* A post ends.
LEMMA PostsEnd ==
    ASSUME CenterInv, PostsInv, CallsFormed, CallsFormed', NEW th \in Threads, EndPost(th)
    PROVE  PostsInv'
<1>1. /\ calls[th] # <<>> /\ Top(th).kind = "post" /\ Leave(th)
      /\ UNCHANGED <<observers, objRefs, objOwned>>
  BY DEF EndPost, At, centerVars
<1>2. OnePoster' /\ Kept'
  BY <1>1, PostsContinue
<1>3. Alive'
  BY <1>1 DEF PostsInv, Alive
<1> QED BY <1>2, <1>3 DEF PostsInv

\* Every step keeps the observers of the posts.
LEMMA PostsStep ==
    ASSUME LawfulPosts, CenterInv, CenterInv', PostsInv, CallsFormed, CallsFormed', [Next]_vars
    PROVE  PostsInv'
<1>1. ASSUME NEW th \in Threads, NotificationCalls(th) PROVE PostsInv'
  <2>1. CASE \E name \in Names, p \in Posters : PostNotification(th, name, p)
    BY <2>1, PostsBegin
  <2>2. CASE \/ \E o \in Observers : NewObserver(th, o) \/ ReleaseObject(th, o)
             \/ \E e \in Registrations : AddObserver(th, e) \/ AddBlock(th, e)
             \/ \E o \in Observers \cup Blocks, name \in Names \cup {Nil},
                   object \in Posters \cup {Nil} : RemoveObserver(th, o, name, object)
    <3>1. UNCHANGED calls
      BY <2>2 DEF NewObserver, ReleaseObject, AddObserver, AddBlock, RemoveObserver
    <3> QED BY <2>2, <3>1, PostsGuest
  <2> QED BY <1>1, <2>1, <2>2 DEF NotificationCalls
<1>2. ASSUME NEW th \in Threads, NotificationHost(th) \/ EndDelivery(th) PROVE PostsInv'
  BY <1>2, PostsDeliver, PostsEnd, PostsDelivered DEF NotificationHost
<1>3. ASSUME NEW K, Step(K), K \cap CenterKinds = {}, UNCHANGED centerVars PROVE PostsInv'
  BY <1>3, PostsForeign DEF CenterKinds
<1> QED BY <1>1, <1>2, <1>3, CenterSteps

\* Nothing is posted at first.
LEMMA PostsInit == ASSUME Init PROVE PostsInv
<1>1. calls = [th \in Threads |-> <<>>] /\ observers = {}
  BY DEF Init, NotificationsInit
<1> QED BY <1>1 DEF PostsInv, OnePoster, Kept, Alive

\* What the notification center does in the host.
CenterActs ==
    \E th \in Threads : NotificationCalls(th) \/ NotificationHost(th) \/ EndDelivery(th)

\* No step of the center fails: what it releases has a reference left.
LEMMA ObserversHeld ==
    ASSUME CenterInv, PostsInv, CallsFormed, CallsFormed', host = "up", CenterActs
    PROVE  host' = "up"
<1>1. PICK th \in Threads : NotificationCalls(th) \/ NotificationHost(th) \/ EndDelivery(th)
  BY DEF CenterActs
<1>2. CASE NotificationCalls(th)
  BY <1>2 DEF NotificationCalls, NewObserver, ReleaseObject, AddObserver, AddBlock,
       RemoveObserver, PostNotification
<1>3. ASSUME NEW e, Deliver(th, e) PROVE host' = "up"
  BY <1>3, PostsDeliver
<1>4. CASE EndPost(th) \/ EndDelivery(th)
  BY <1>4 DEF EndPost, EndDelivery
<1> QED BY <1>1, <1>2, <1>3, <1>4 DEF NotificationHost

\* Nothing the notification center does fails, if the guest keeps the observers
\* that a post is still to call: no observer is called that is deallocated.
THEOREM CenterNeverFails ==
    ASSUME LawfulPosts PROVE Spec => [][CenterActs => host' = "up"]_vars
<1>1. Init => CenterInv /\ PostsInv
  BY CenterInit, PostsInit
<1>2. CenterInv /\ CallsFormed /\ CallsFormed' /\ [Next]_vars => CenterInv'
  BY CenterStep
<1>3. CenterInv /\ CenterInv' /\ PostsInv /\ CallsFormed /\ CallsFormed' /\ [Next]_vars
          => PostsInv'
  BY PostsStep
<1>4. CenterInv /\ PostsInv /\ CallsFormed /\ CallsFormed' /\ [Next]_vars
          => [CenterActs => host' = "up"]_vars
  <2>1. Next /\ CenterActs /\ CenterInv /\ PostsInv /\ CallsFormed /\ CallsFormed' => host' = "up"
    BY Running, ObserversHeld
  <2> QED BY <2>1
<1> QED BY <1>1, <1>2, <1>3, <1>4, CallsFormedAlways, PTL DEF Spec
=============================================================================
