---------------------------- MODULE QueueProofs ----------------------------
(***************************************************************************)
(* What the operations on queues of threads do to the set of queued        *)
(* threads, for queues without duplicates; and that the first position     *)
(* with a property exists if any has it.                                   *)
(***************************************************************************)
EXTENDS Queues, FiniteSetTheorems, WellFoundedInduction, TLAPS

\* Appending an element adds it, and keeps the queue free of duplicates if it
\* is new.
LEMMA QueueAppend ==
    ASSUME NEW S, NEW q \in Seq(S), NEW x \in S
    PROVE  /\ Append(q, x) \in Seq(S)
           /\ Elems(Append(q, x)) = Elems(q) \cup {x}
           /\ Distinct(q) /\ x \notin Elems(q) => Distinct(Append(q, x))
<1>1. Append(q, x) \in Seq(S) /\ Len(Append(q, x)) = Len(q) + 1
  OBVIOUS
<1>2. \A i \in 1 .. Len(q) : Append(q, x)[i] = q[i]
  OBVIOUS
<1>3. Append(q, x)[Len(q) + 1] = x
  OBVIOUS
<1>4. Len(q) \in Nat
  OBVIOUS
<1>5. Elems(Append(q, x)) = Elems(q) \cup {x}
  <2>1. \A e \in Elems(Append(q, x)) : e \in Elems(q) \cup {x}
     BY <1>1, <1>2, <1>3, <1>4 DEF Elems
  <2>2. \A e \in Elems(q) \cup {x} : e \in Elems(Append(q, x))
     BY <1>1, <1>2, <1>3, <1>4 DEF Elems
  <2> QED BY <2>1, <2>2
<1>6. Distinct(q) /\ x \notin Elems(q) => Distinct(Append(q, x))
  BY <1>1, <1>2, <1>3, <1>4 DEF Elems, Distinct
<1> QED
  BY <1>1, <1>5, <1>6

\* Taking the front element off a queue without duplicates removes exactly it.
LEMMA QueueTail ==
    ASSUME NEW S, NEW q \in Seq(S), q # <<>>
    PROVE  /\ Tail(q) \in Seq(S)
           /\ Head(q) \in Elems(q) /\ Head(q) \in S
           /\ Distinct(q) => /\ Elems(Tail(q)) = Elems(q) \ {Head(q)}
                             /\ Distinct(Tail(q))
<1>1. /\ Tail(q) \in Seq(S) /\ Len(Tail(q)) = Len(q) - 1
      /\ Len(q) \in Nat \ {0} /\ Head(q) = q[1] /\ q[1] \in S
  OBVIOUS
<1>2. \A i \in 1 .. Len(q) - 1 : Tail(q)[i] = q[i + 1]
  OBVIOUS
<1>3. Head(q) \in Elems(q)
  BY <1>1 DEF Elems
<1>4. ASSUME Distinct(q) PROVE Elems(Tail(q)) = Elems(q) \ {Head(q)}
  <2>1. ASSUME NEW e \in Elems(Tail(q)) PROVE e \in Elems(q) \ {Head(q)}
    <3>1. PICK i \in 1 .. Len(q) - 1 : e = q[i + 1]
      BY <1>1, <1>2 DEF Elems
    <3>2. i + 1 \in 1 .. Len(q) /\ i + 1 # 1
      BY <1>1
    <3> QED
      BY <1>1, <1>4, <3>1, <3>2 DEF Elems, Distinct
  <2>2. ASSUME NEW e \in Elems(q), e # Head(q) PROVE e \in Elems(Tail(q))
    <3>1. PICK i \in 1 .. Len(q) : e = q[i]
      BY DEF Elems
    <3>2. i - 1 \in 1 .. Len(q) - 1 /\ (i - 1) + 1 = i
      BY <1>1, <2>2, <3>1
    <3>3. Tail(q)[i - 1] = e
      BY <1>2, <3>1, <3>2
    <3> QED
      BY <1>1, <3>2, <3>3 DEF Elems
  <2> QED
    BY <2>1, <2>2
<1>5. ASSUME Distinct(q) PROVE Distinct(Tail(q))
  <2> SUFFICES ASSUME NEW i \in 1 .. Len(q) - 1, NEW j \in 1 .. Len(q) - 1,
                      Tail(q)[i] = Tail(q)[j]
               PROVE  i = j
    BY <1>1 DEF Distinct
  <2>1. q[i + 1] = q[j + 1] /\ i + 1 \in 1 .. Len(q) /\ j + 1 \in 1 .. Len(q)
    BY <1>1, <1>2
  <2>2. i + 1 = j + 1
    BY <1>5, <2>1 DEF Distinct
  <2> QED
    BY <2>2
<1> QED
  BY <1>1, <1>3, <1>4, <1>5

\* A concatenation holds what its parts hold, without duplicates if they
\* have none and share nothing.
LEMMA QueueConcat ==
    ASSUME NEW S, NEW q \in Seq(S), NEW r \in Seq(S)
    PROVE  /\ q \o r \in Seq(S)
           /\ Elems(q \o r) = Elems(q) \cup Elems(r)
           /\ Distinct(q) /\ Distinct(r) /\ Elems(q) \cap Elems(r) = {}
                => Distinct(q \o r)
<1>1. q \o r \in Seq(S) /\ Len(q \o r) = Len(q) + Len(r)
  OBVIOUS
<1>2. \A i \in 1 .. Len(q) : (q \o r)[i] = q[i]
  OBVIOUS
<1>3. \A i \in 1 .. Len(r) : (q \o r)[Len(q) + i] = r[i]
  OBVIOUS
<1>4. Len(q) \in Nat /\ Len(r) \in Nat
  OBVIOUS
<1>5. \A k \in 1 .. Len(q \o r) :
        k \in 1 .. Len(q) \/ \E i \in 1 .. Len(r) : k = Len(q) + i
  <2> SUFFICES ASSUME NEW k \in 1 .. Len(q \o r), k \notin 1 .. Len(q)
               PROVE  \E i \in 1 .. Len(r) : k = Len(q) + i
    OBVIOUS
  <2>1. k - Len(q) \in 1 .. Len(r) /\ k = Len(q) + (k - Len(q))
    BY <1>1, <1>4
  <2> QED
    BY <2>1
<1>6. Elems(q \o r) = Elems(q) \cup Elems(r)
  <2>1. ASSUME NEW e \in Elems(q \o r) PROVE e \in Elems(q) \cup Elems(r)
    BY <1>2, <1>3, <1>5 DEF Elems
  <2>2. ASSUME NEW e \in Elems(q) PROVE e \in Elems(q \o r)
    BY <1>1, <1>2, <1>4 DEF Elems
  <2>3. ASSUME NEW e \in Elems(r) PROVE e \in Elems(q \o r)
    <3>1. PICK i \in 1 .. Len(r) : e = r[i]
      BY DEF Elems
    <3>2. Len(q) + i \in 1 .. Len(q \o r)
      BY <1>1, <1>4
    <3> QED
      BY <1>3, <3>1, <3>2 DEF Elems
  <2> QED
    BY <2>1, <2>2, <2>3
<1>7. ASSUME Distinct(q), Distinct(r), Elems(q) \cap Elems(r) = {}
      PROVE  Distinct(q \o r)
  <2> SUFFICES ASSUME NEW j \in 1 .. Len(q \o r), NEW k \in 1 .. Len(q \o r),
                      (q \o r)[j] = (q \o r)[k]
               PROVE  j = k
    BY DEF Distinct
  <2>1. CASE j \in 1 .. Len(q) /\ k \in 1 .. Len(q)
    BY <1>2, <1>7, <2>1 DEF Distinct
  <2>2. CASE j \in 1 .. Len(q) /\ \E i \in 1 .. Len(r) : k = Len(q) + i
    <3>1. PICK i \in 1 .. Len(r) : k = Len(q) + i
      BY <2>2
    <3>2. q[j] = r[i]
      BY <1>2, <1>3, <2>2, <3>1
    <3> QED
      BY <1>7, <2>2, <3>2 DEF Elems
  <2>3. CASE k \in 1 .. Len(q) /\ \E i \in 1 .. Len(r) : j = Len(q) + i
    <3>1. PICK i \in 1 .. Len(r) : j = Len(q) + i
      BY <2>3
    <3>2. q[k] = r[i]
      BY <1>2, <1>3, <2>3, <3>1
    <3> QED
      BY <1>7, <2>3, <3>2 DEF Elems
  <2>4. CASE /\ \E i \in 1 .. Len(r) : j = Len(q) + i
             /\ \E i \in 1 .. Len(r) : k = Len(q) + i
    <3>1. PICK a \in 1 .. Len(r) : j = Len(q) + a
      BY <2>4
    <3>2. PICK b \in 1 .. Len(r) : k = Len(q) + b
      BY <2>4
    <3>3. r[a] = r[b]
      BY <1>3, <3>1, <3>2
    <3> QED
      BY <1>7, <3>1, <3>2, <3>3 DEF Distinct
  <2> QED
    BY <1>5, <2>1, <2>2, <2>3, <2>4
<1> QED
  BY <1>1, <1>6, <1>7

\* A segment holds the elements at its positions.
LEMMA QueueSubSeq ==
    ASSUME NEW S, NEW q \in Seq(S), NEW m \in 1 .. Len(q) + 1, NEW n \in 0 .. Len(q)
    PROVE  LET p == SubSeq(q, m, n) IN
           /\ p \in Seq(S)
           /\ Elems(p) = {q[k] : k \in m .. n}
           /\ Distinct(q) => Distinct(p)
<1> DEFINE p == SubSeq(q, m, n)
<1> DEFINE l == IF m <= n THEN n - m + 1 ELSE 0
<1>0. Len(q) \in Nat
  OBVIOUS
<1>1. p \in Seq(S) /\ Len(p) = l /\ l \in Nat
  BY <1>0
<1>2. \A i \in 1 .. l : p[i] = q[m + i - 1] /\ m + i - 1 \in m .. n /\ m + i - 1 \in 1 .. Len(q)
  BY <1>0
<1>3. \A k \in m .. n : k - m + 1 \in 1 .. l /\ m + (k - m + 1) - 1 = k
  BY <1>0
<1>4. \A k \in m .. n : p[k - m + 1] = q[k]
  BY <1>2, <1>3
<1> HIDE DEF p, l
<1>5. Elems(p) = {q[k] : k \in m .. n}
  <2>1. ASSUME NEW e \in Elems(p) PROVE e \in {q[k] : k \in m .. n}
    BY <1>1, <1>2 DEF Elems
  <2>2. ASSUME NEW k \in m .. n PROVE q[k] \in Elems(p)
    BY <1>1, <1>3, <1>4 DEF Elems
  <2> QED
    BY <2>1, <2>2
<1>6. ASSUME Distinct(q) PROVE Distinct(p)
  <2> SUFFICES ASSUME NEW i \in 1 .. l, NEW j \in 1 .. l, p[i] = p[j]
               PROVE  i = j
    BY <1>1 DEF Distinct
  <2>1. m + i - 1 = m + j - 1
    BY <1>2, <1>6 DEF Distinct
  <2> QED
    BY <1>1, <2>1
<1> QED
  BY <1>1, <1>5, <1>6 DEF p

\* Without removes exactly one element from a queue without duplicates.
LEMMA QueueWithout ==
    ASSUME NEW S, NEW q \in Seq(S), NEW t
    PROVE  /\ Without(q, t) \in Seq(S)
           /\ Distinct(q) => /\ Elems(Without(q, t)) = Elems(q) \ {t}
                             /\ Distinct(Without(q, t))
<1>0. Len(q) \in Nat
  OBVIOUS
<1>1. CASE ~ \E i \in 1 .. Len(q) : q[i] = t
  BY <1>1 DEF Without, Elems
<1>2. CASE \E i \in 1 .. Len(q) : q[i] = t
  <2> DEFINE i == CHOOSE j \in 1 .. Len(q) : q[j] = t
  <2>1. i \in 1 .. Len(q) /\ q[i] = t
    BY <1>2
  <2> DEFINE a == SubSeq(q, 1, i - 1)
  <2> DEFINE b == SubSeq(q, i + 1, Len(q))
  <2>2. Without(q, t) = a \o b
    BY <1>2 DEF Without
  <2> HIDE DEF i
  <2>3. /\ a \in Seq(S)
        /\ Elems(a) = {q[k] : k \in 1 .. i - 1}
        /\ Distinct(q) => Distinct(a)
    <3>1. 1 \in 1 .. Len(q) + 1 /\ i - 1 \in 0 .. Len(q)
      BY <1>0, <2>1
    <3> QED
      BY <3>1, QueueSubSeq
  <2>4. /\ b \in Seq(S)
        /\ Elems(b) = {q[k] : k \in i + 1 .. Len(q)}
        /\ Distinct(q) => Distinct(b)
    <3>1. i + 1 \in 1 .. Len(q) + 1 /\ Len(q) \in 0 .. Len(q)
      BY <1>0, <2>1
    <3> QED
      BY <3>1, QueueSubSeq
  <2> HIDE DEF a, b
  <2>5. ASSUME Distinct(q)
        PROVE  Elems(a) \cap Elems(b) = {} /\ Elems(a) \cup Elems(b) = Elems(q) \ {t}
    <3>1. \A k \in 1 .. Len(q) : k \in 1 .. i - 1 \/ k = i \/ k \in i + 1 .. Len(q)
      BY <1>0, <2>1
    <3>2. 1 .. i - 1 \subseteq 1 .. Len(q) /\ i + 1 .. Len(q) \subseteq 1 .. Len(q)
      BY <1>0, <2>1
    <3>3. \A k \in 1 .. i - 1 : k # i /\ k \notin i + 1 .. Len(q)
      BY <1>0, <2>1
    <3>4. \A k \in i + 1 .. Len(q) : k # i
      BY <1>0, <2>1
    <3>5. Elems(a) \cap Elems(b) = {}
      <4> SUFFICES ASSUME NEW e \in Elems(a), e \in Elems(b) PROVE FALSE
        OBVIOUS
      <4>1. PICK k \in 1 .. i - 1 : e = q[k]
        BY <2>3
      <4>2. PICK l \in i + 1 .. Len(q) : e = q[l]
        BY <2>4
      <4>3. k = l
        BY <2>5, <3>2, <4>1, <4>2 DEF Distinct
      <4> QED
        BY <3>3, <4>3
    <3>6. ASSUME NEW e \in Elems(q), e # t PROVE e \in Elems(a) \cup Elems(b)
      <4>1. PICK k \in 1 .. Len(q) : e = q[k]
        BY DEF Elems
      <4>2. k # i
        BY <2>1, <3>6, <4>1
      <4> QED
        BY <2>3, <2>4, <3>1, <4>1, <4>2
    <3>7. ASSUME NEW e \in Elems(a) \cup Elems(b) PROVE e \in Elems(q) \ {t}
      <4>1. PICK k \in 1 .. Len(q) : e = q[k] /\ k # i
        BY <2>3, <2>4, <3>2, <3>3, <3>4
      <4>2. e # t
        BY <2>1, <2>5, <4>1 DEF Distinct
      <4> QED
        BY <4>1, <4>2 DEF Elems
    <3> QED
      BY <3>5, <3>6, <3>7
  <2> QED
    <3>1. /\ a \o b \in Seq(S)
          /\ Elems(a \o b) = Elems(a) \cup Elems(b)
          /\ Distinct(a) /\ Distinct(b) /\ Elems(a) \cap Elems(b) = {}
               => Distinct(a \o b)
      BY <2>3, <2>4, QueueConcat
    <3> QED
      BY <2>2, <2>3, <2>4, <2>5, <3>1
<1> QED
  BY <1>1, <1>2

\* A set of positions, or of any naturals, that is not empty has a first one: by
\* the order of the finite sets 0 .. x, whose descending chains end.
LEMMA Least ==
    ASSUME NEW S \in SUBSET Nat, S # {} PROVE \E x \in S : \A y \in S : x <= y
<1> DEFINE intervals == {0 .. x : x \in S}
<1>1. \A x \in Nat : IsFiniteSet(0 .. x) /\ 0 .. x \subseteq Nat
  BY FS_Interval
<1>2. intervals \subseteq FiniteSubsetsOf(Nat) /\ intervals # {}
  BY <1>1 DEF FiniteSubsetsOf
<1>3. PICK s \in intervals :
         \A u \in intervals : <<u, s>> \notin StrictSubsetOrdering(Nat)
  BY <1>2, WFMin, FS_StrictSubsetOrderingWellFounded
<1>4. PICK x \in S : s = 0 .. x
  OBVIOUS
<1>5. ASSUME NEW y \in S, y < x PROVE FALSE
  <2>1. <<0 .. y, s>> \in StrictSubsetOrdering(Nat)
    BY <1>4, <1>5 DEF StrictSubsetOrdering
  <2> QED BY <2>1, <1>3
<1> QED BY <1>5
=============================================================================
