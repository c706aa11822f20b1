-------------------------- MODULE FoundationProofs --------------------------
(***************************************************************************)
(* NSCondition and NSConditionLock, for any number of threads and any      *)
(* conditions: the locks exclude, whoever is woken has left its queue, and *)
(* no wakeup is lost, if the guest unlocks only what it has locked and     *)
(* does not suspend a thread that waits.                                   *)
(***************************************************************************)
EXTENDS FoundationLocks, QueueProofs, FiniteSetTheorems

-----------------------------------------------------------------------------
(***************************************************************************)
(* Operations on the queues.                                               *)
(***************************************************************************)

\* Taking the first waiter off a queue takes exactly it off.
LEMMA QueueBehind ==
    ASSUME NEW S, NEW q \in Seq(S), Distinct(q)
    PROVE  /\ Behind(q) \in Seq(S) /\ Distinct(Behind(q))
           /\ Front1(q) \subseteq Elems(q)
           /\ Elems(Behind(q)) = Elems(q) \ Front1(q)
           /\ q # <<>> => Front1(q) # {}
<1>1. CASE q = <<>>
  <2>1. Front1(q) = {} /\ Elems(q) = {} /\ Behind(q) = <<>>
    BY <1>1 DEF Front1, Elems, Behind
  <2> QED BY <1>1, <2>1
<1>2. CASE q # <<>>
  <2>1. Len(q) \in Nat \ {0} /\ q[1] \in S
    BY <1>2
  <2>2. Front1(q) = {q[1]}
    BY <2>1 DEF Front1
  <2>3. Behind(q) = Tail(q) /\ Head(q) = q[1]
    BY <1>2 DEF Behind
  <2> QED BY <1>2, <2>2, <2>3, QueueTail
<1> QED BY <1>1, <1>2

\* A queue of threads holds threads.
LEMMA ElemsTyped == ASSUME NEW S, NEW q \in Seq(S) PROVE Elems(q) \subseteq S
BY DEF Elems

\* The entries that are left of a queue when one position is taken out.
LEMMA QueuePosition ==
    ASSUME NEW S, NEW q \in Seq(S), NEW i \in 1 .. Len(q)
    PROVE  LET r == WithoutPosition(q, i)
           IN /\ r \in Seq(S) /\ Len(r) = Len(q) - 1
              /\ \A j \in 1 .. Len(r) : r[j] = IF j < i THEN q[j] ELSE q[j + 1]
<1> DEFINE a == SubSeq(q, 1, i - 1)
           b == SubSeq(q, i + 1, Len(q))
<1>1. /\ a \in Seq(S) /\ Len(a) = i - 1
      /\ \A j \in 1 .. i - 1 : a[j] = q[j]
  OBVIOUS
<1>2. /\ b \in Seq(S) /\ Len(b) = Len(q) - i
      /\ \A j \in 1 .. Len(q) - i : b[j] = q[i + j]
  OBVIOUS
<1> HIDE DEF a, b
<1>0. Len(q) \in Nat /\ i \in 1 .. Len(q)
  OBVIOUS
<1>3. /\ a \o b \in Seq(S) /\ Len(a \o b) = Len(q) - 1
      /\ \A j \in 1 .. Len(q) - 1 :
            (a \o b)[j] = IF j <= i - 1 THEN a[j] ELSE b[j - (i - 1)]
  <2>0. a \in Seq(S) /\ b \in Seq(S)
    BY <1>1, <1>2
  <2>1. a \o b \in Seq(S) /\ Len(a \o b) = Len(a) + Len(b)
    BY <2>0
  <2>2. \A j \in 1 .. Len(a) + Len(b) :
           (a \o b)[j] = IF j <= Len(a) THEN a[j] ELSE b[j - Len(a)]
    BY <2>0
  <2>3. Len(a) = i - 1 /\ Len(b) = Len(q) - i
    BY <1>1, <1>2
  <2>4. Len(a) + Len(b) = Len(q) - 1
    BY <1>0, <2>3
  <2> QED BY <2>1, <2>2, <2>3, <2>4
<1>4. \A j \in 1 .. Len(q) - 1 :
         (a \o b)[j] = IF j < i THEN q[j] ELSE q[j + 1]
  BY <1>1, <1>2, <1>3
<1> QED BY <1>3, <1>4 DEF WithoutPosition, a, b

Entries == [thread : Threads, want : Conditions \cup {AnyCondition}]

\* The threads and the wants of a queue of entries.
QueuedIn(queue) == {queue[i].thread : i \in 1 .. Len(queue)}

OnceEach(queue) ==
    \A i, j \in 1 .. Len(queue) : queue[i].thread = queue[j].thread => i = j

\* A queue with one entry taken out.
LEMMA EntryRemoved ==
    ASSUME NEW q \in Seq(Entries), OnceEach(q), NEW i \in 1 .. Len(q)
    PROVE  LET r == WithoutPosition(q, i)
           IN /\ r \in Seq(Entries) /\ OnceEach(r)
              /\ QueuedIn(r) = QueuedIn(q) \ {q[i].thread}
              /\ \A j \in 1 .. Len(r) : \E k \in 1 .. Len(q) : r[j] = q[k]
<1> DEFINE r == WithoutPosition(q, i)
<1>1. /\ r \in Seq(Entries) /\ Len(r) = Len(q) - 1 /\ Len(q) \in Nat
      /\ \A j \in 1 .. Len(r) : r[j] = IF j < i THEN q[j] ELSE q[j + 1]
  BY QueuePosition
<1> HIDE DEF r
<1>2. \A j \in 1 .. Len(r) :
         \E k \in 1 .. Len(q) : r[j] = q[k] /\ k = IF j < i THEN j ELSE j + 1
  BY <1>1
<1>3. OnceEach(r)
  BY <1>1, <1>2 DEF OnceEach
<1>4. \A k \in 1 .. Len(q) : k # i => \E j \in 1 .. Len(r) : r[j] = q[k]
  <2> TAKE k \in 1 .. Len(q)
  <2>1. CASE k < i
    <3>1. k \in 1 .. Len(r) /\ r[k] = q[k]
      BY <1>1, <2>1
    <3> QED BY <3>1
  <2>2. CASE k > i
    <3>1. k - 1 \in 1 .. Len(r) /\ r[k - 1] = q[k]
      BY <1>1, <2>2
    <3> QED BY <3>1
  <2> QED BY <1>1, <2>1, <2>2
<1>5. QueuedIn(r) = QueuedIn(q) \ {q[i].thread}
  <2>1. ASSUME NEW t \in QueuedIn(r) PROVE t \in QueuedIn(q) \ {q[i].thread}
    <3>1. PICK j \in 1 .. Len(r) : r[j].thread = t
      BY DEF QueuedIn
    <3>2. PICK k \in 1 .. Len(q) : r[j] = q[k] /\ k # i
      BY <1>1, <1>2
    <3> QED BY <3>1, <3>2 DEF QueuedIn, OnceEach
  <2>2. ASSUME NEW t \in QueuedIn(q), t # q[i].thread PROVE t \in QueuedIn(r)
    BY <1>4, <2>2 DEF QueuedIn
  <2> QED BY <2>1, <2>2
<1> QED BY <1>1, <1>2, <1>3, <1>5 DEF r

\* A queue with an entry added.
LEMMA EntryAdded ==
    ASSUME NEW q \in Seq(Entries), OnceEach(q), NEW e \in Entries,
           e.thread \notin QueuedIn(q)
    PROVE  LET r == Append(q, e)
           IN /\ r \in Seq(Entries) /\ OnceEach(r)
              /\ QueuedIn(r) = QueuedIn(q) \cup {e.thread}
              /\ \A j \in 1 .. Len(r) : r[j] = e \/ \E k \in 1 .. Len(q) : r[j] = q[k]
<1> DEFINE r == Append(q, e)
<1>1. /\ r \in Seq(Entries) /\ Len(r) = Len(q) + 1 /\ Len(q) \in Nat
      /\ r[Len(q) + 1] = e /\ \A j \in 1 .. Len(q) : r[j] = q[j]
  OBVIOUS
<1> HIDE DEF r
<1>2. OnceEach(r)
  BY <1>1 DEF OnceEach, QueuedIn
<1>3. QueuedIn(r) = QueuedIn(q) \cup {e.thread}
  BY <1>1 DEF QueuedIn
<1> QED BY <1>1, <1>2, <1>3 DEF r

\* The entry that FirstOf finds for a thread, and the queue without it.
LEMMA DequeuedProps ==
    ASSUME clWaiting \in Seq(Entries), OnceEach(clWaiting), NEW t
    PROVE  /\ Dequeued(t) \in Seq(Entries) /\ OnceEach(Dequeued(t))
           /\ QueuedIn(Dequeued(t)) = QueuedIn(clWaiting) \ {t}
           /\ \A j \in 1 .. Len(Dequeued(t)) :
                 \E k \in 1 .. Len(clWaiting) : Dequeued(t)[j] = clWaiting[k]
<1> DEFINE found == {i \in 1 .. Len(clWaiting) : clWaiting[i].thread = t}
           first == CHOOSE i \in found : \A j \in found : i <= j
           at == IF found = {} THEN 0 ELSE first
<1>0. Dequeued(t) = IF at = 0 THEN clWaiting ELSE WithoutPosition(clWaiting, at)
  BY DEF Dequeued, FirstOf
<1>1. CASE found = {}
  <2>1. Dequeued(t) = clWaiting
    BY <1>0, <1>1
  <2>2. t \notin QueuedIn(clWaiting)
    BY <1>1 DEF QueuedIn
  <2> QED BY <2>1, <2>2
<1>2. CASE found # {}
  <2>1. PICK i \in found : TRUE
    BY <1>2
  <2>2. found = {i}
    BY <2>1 DEF OnceEach
  <2>3. at = i /\ i # 0 /\ i \in 1 .. Len(clWaiting) /\ clWaiting[i].thread = t
    BY <2>1, <2>2
  <2> HIDE DEF at, found
  <2>4. Dequeued(t) = WithoutPosition(clWaiting, i)
    BY <1>0, <2>3
  <2> QED BY <2>3, <2>4, EntryRemoved
<1> QED BY <1>1, <1>2

\* What unlockWithCondition: does to the queue: it wakes nobody, and then nobody
\* could take the lock, or it takes off an entry that can.
LEMMA UnlockToProps ==
    ASSUME clWaiting \in Seq(Entries), OnceEach(clWaiting), NEW t, NEW new,
           CLUnlockTo(t, new)
    PROVE  /\ clLocked' = FALSE /\ condition' = new /\ clHolders' = clHolders \ {t}
           /\ \/ /\ \A i \in 1 .. Len(clWaiting) :
                       clWaiting[i].want \notin {AnyCondition, new}
                 /\ clWaiting' = clWaiting
                 /\ BlockAndWake({}, {}, {})
              \/ \E i \in 1 .. Len(clWaiting) :
                    /\ clWaiting[i].want \in {AnyCondition, new}
                    /\ clWaiting' = WithoutPosition(clWaiting, i)
                    /\ BlockAndWake({clWaiting[i].thread}, {}, {})
<1> DEFINE found == {i \in 1 .. Len(clWaiting) :
                        clWaiting[i].want \in {AnyCondition, new}}
           at == IF found = {} THEN 0
                 ELSE CHOOSE i \in found : \A j \in found : i <= j
<1>1. /\ clWaiting' = IF at = 0 THEN clWaiting ELSE WithoutPosition(clWaiting, at)
      /\ BlockAndWake(IF at = 0 THEN {} ELSE {clWaiting[at].thread}, {}, {})
      /\ clLocked' = FALSE /\ condition' = new /\ clHolders' = clHolders \ {t}
  BY DEF CLUnlockTo, FirstOf
<1>2. CASE found = {}
  <2>1. at = 0
    BY <1>2
  <2>2. \A i \in 1 .. Len(clWaiting) : clWaiting[i].want \notin {AnyCondition, new}
    BY <1>2
  <2> HIDE DEF at, found
  <2> QED BY <1>1, <2>1, <2>2
<1>3. CASE found # {}
  <2>1. found \in SUBSET Nat
    OBVIOUS
  <2>2. \E i \in found : \A j \in found : i <= j
    BY <1>3, <2>1, Least
  <2>3. at \in found
    BY <1>3, <2>2
  <2> HIDE DEF at
  <2>4. at # 0 /\ at \in 1 .. Len(clWaiting)
        /\ clWaiting[at].want \in {AnyCondition, new}
    BY <2>3
  <2> HIDE DEF found
  <2> QED BY <1>1, <2>4
<1> QED BY <1>2, <1>3

-----------------------------------------------------------------------------
(***************************************************************************)
(* The invariant.                                                          *)
(***************************************************************************)

\* At most one thread holds each object, and it is locked while there is one.
Excludes ==
    /\ \A t, u \in holders : t = u
    /\ locked <=> holders # {}
    /\ \A t, u \in clHolders : t = u
    /\ clLocked <=> clHolders # {}

\* What suspended and asleep say of a thread in each call: others suspend only
\* a thread that executes guest code, which then cannot make a call.
BlockOK(t) ==
    LET kind == call[t].kind
    IN /\ kind = "guest" => call[t] = Guest /\ suspended[t] = others[t]
       /\ kind # "guest" => others[t] = 0 /\ suspended[t] \in {0, 1}
       /\ suspended[t] = 1 /\ others[t] = 0 => kind \in {"lock", "wait", "clLock"}
       /\ asleep[t] => kind \in {"waitUntilDate", "clLockBefore"}

\* Where a thread is queued.
QueuedOK(t) ==
    LET kind == call[t].kind
        self == suspended[t] = 1
    IN /\ t \in Elems(lockWaiting) <=> kind = "lock" /\ self
       /\ t \in Elems(waiting) => kind \in {"wait", "waitUntilDate"}
       /\ kind = "wait" => (t \in Elems(waiting) <=> self)
       /\ kind = "waitUntilDate" /\ asleep[t] => t \in Elems(waiting)
       /\ t \in QueuedIn(clWaiting) => kind \in {"clLock", "clLockBefore"}
       /\ kind = "clLock" => (t \in QueuedIn(clWaiting) <=> self)
       /\ kind = "clLockBefore" /\ asleep[t] => t \in QueuedIn(clWaiting)

\* An entry says what its thread waits for.
WantsOK ==
    \A i \in 1 .. Len(clWaiting) :
        clWaiting[i].want = call[clWaiting[i].thread].want

QueuesOK == Distinct(lockWaiting) /\ Distinct(waiting) /\ OnceEach(clWaiting)

\* The thread will look at the NSCondition's lock again.
WokenForLock(t) ==
    /\ suspended[t] = 0 /\ ~ asleep[t]
    /\ call[t].kind \in {"lock", "wait", "waitUntilDate"}

\* The thread will look at the NSConditionLock again, and could take it.
WokenForCL(t) ==
    /\ suspended[t] = 0 /\ ~ asleep[t]
    /\ call[t].kind \in {"clLock", "clLockBefore"}
    /\ Available(call[t].want)

Promised ==
    /\ ~ locked /\ lockWaiting # <<>> => \E t \in Threads : WokenForLock(t)
    /\ \A i \in 1 .. Len(clWaiting) :
          Available(clWaiting[i].want) => \E t \in Threads : WokenForCL(t)

LocksInv ==
    /\ TypeOK
    /\ Excludes
    /\ \A t \in Threads : BlockOK(t) /\ QueuedOK(t)
    /\ WantsOK
    /\ QueuesOK
    /\ Promised

-----------------------------------------------------------------------------
(***************************************************************************)
(* What the helpers of the actions do to the variables, thread by thread.  *)
(***************************************************************************)
Calls == [kind : {"guest", "lock", "wait", "waitUntilDate",
                  "clLock", "clLockBefore"},
          want : Conditions \cup {AnyCondition}]

\* The call of one thread changes.
LEMMA BecomeProps ==
    ASSUME TypeOK, NEW t \in Threads, NEW new \in Calls, Become(t, new)
    PROVE  /\ call' \in [Threads -> Calls] /\ late' \in [Threads -> BOOLEAN]
           /\ \A u \in Threads : call'[u] = IF u = t THEN new ELSE call[u]
BY DEF TypeOK, Become, Calls

\* Some threads are woken, and others suspended or put to sleep.
LEMMA BlockAndWakeProps ==
    ASSUME TypeOK, NEW woken, NEW suspends, NEW sleeps,
           BlockAndWake(woken, suspends, sleeps)
    PROVE  /\ suspended' \in [Threads -> Nat] /\ asleep' \in [Threads -> BOOLEAN]
           /\ \A u \in Threads :
                /\ suspended'[u] = IF u \in suspends THEN 1
                                   ELSE IF u \in woken THEN 0 ELSE suspended[u]
                /\ asleep'[u] <=> (u \in sleeps \/ (asleep[u] /\ u \notin woken))
BY DEF TypeOK, BlockAndWake

\* An entry names a thread and what it may wait for.
LEMMA EntryTyped ==
    ASSUME NEW q \in Seq(Entries), NEW i \in 1 .. Len(q)
    PROVE  /\ q[i] \in Entries /\ q[i].thread \in Threads
           /\ q[i].thread \in QueuedIn(q)
<1>1. q[i] \in Entries
  OBVIOUS
<1> QED BY <1>1 DEF Entries, QueuedIn

\* The entries stay right while the calls of the queued threads go on.
LEMMA WantsKept ==
    ASSUME TypeOK, WantsOK, clWaiting' = clWaiting,
           \A u \in Threads \cap QueuedIn(clWaiting) : call'[u] = call[u]
    PROVE  WantsOK'
<1>1. clWaiting \in Seq(Entries)
  BY DEF TypeOK, Entries
<1>2. \A i \in 1 .. Len(clWaiting) :
         clWaiting[i].thread \in Threads \cap QueuedIn(clWaiting)
  BY <1>1, EntryTyped
<1> QED BY <1>2 DEF WantsOK

\* A thread that an action leaves alone stays where it is.
LEMMA Unaffected ==
    ASSUME NEW u, BlockOK(u), QueuedOK(u),
           call'[u] = call[u], others'[u] = others[u],
           suspended'[u] = suspended[u], asleep'[u] <=> asleep[u],
           u \in Elems(lockWaiting') <=> u \in Elems(lockWaiting),
           u \in Elems(waiting') <=> u \in Elems(waiting),
           u \in QueuedIn(clWaiting') <=> u \in QueuedIn(clWaiting)
    PROVE  BlockOK(u)' /\ QueuedOK(u)'
BY DEF BlockOK, QueuedOK

\* The guest's calls are calls.
LEMMA CallsTyped ==
    /\ Guest \in Calls /\ Guest.kind = "guest" /\ Guest.want = AnyCondition
    /\ \A kind \in {"lock", "wait", "waitUntilDate"} :
          LET new == Call(kind, AnyCondition)
          IN new \in Calls /\ new # Guest /\ new.kind = kind /\ new.want = AnyCondition
    /\ \A kind \in {"clLock", "clLockBefore"} :
          \A want \in Conditions \cup {AnyCondition} :
             LET new == Call(kind, want)
             IN new \in Calls /\ new # Guest /\ new.kind = kind /\ new.want = want
BY DEF Calls, Call, Guest

-----------------------------------------------------------------------------
(***************************************************************************)
(* The invariant holds initially, and every action preserves it.           *)
(***************************************************************************)
LEMMA LocksInit == ASSUME Init PROVE LocksInv
<1> USE FoundationLocksAssumption, CallsTyped DEF FoundationLocksAssumption, Init
<1>1. TypeOK
  <2>1. \A S : <<>> \in Seq(S)
    OBVIOUS
  <2>2. call \in [Threads -> Calls]
    OBVIOUS
  <2>3. /\ lockWaiting \in Seq(Threads) /\ waiting \in Seq(Threads)
        /\ clWaiting \in Seq(Entries)
    BY <2>1
  <2>4. 0 \in 0 .. MaxSuspensions
    OBVIOUS
  <2>5. /\ suspended \in [Threads -> Nat] /\ asleep \in [Threads -> BOOLEAN]
        /\ late \in [Threads -> BOOLEAN]
        /\ others \in [Threads -> 0 .. MaxSuspensions]
    BY <2>4
  <2>6. /\ locked \in BOOLEAN /\ clLocked \in BOOLEAN /\ condition \in Conditions
        /\ holders \subseteq Threads /\ clHolders \subseteq Threads
    OBVIOUS
  <2> QED BY <2>2, <2>3, <2>5, <2>6 DEF TypeOK, Calls, Entries
<1>2. Excludes /\ Promised
  BY DEF Excludes, Promised
<1>3. \A t \in Threads : BlockOK(t) /\ QueuedOK(t)
  BY DEF BlockOK, QueuedOK, Elems, QueuedIn
<1>4. WantsOK /\ QueuesOK
  BY DEF WantsOK, QueuesOK, Distinct, OnceEach
<1> QED BY <1>1, <1>2, <1>3, <1>4 DEF LocksInv

\* A round of the loop of NSCondition's lock, for the first time or again.
LEMMA LockRoundInv ==
    ASSUME LocksInv, NEW t \in Threads, Runs(t),
           call[t].kind \in {"guest", "lock", "wait", "waitUntilDate"},
           LockRound(t, Guest, Call("lock", AnyCondition)),
           waiting' \in Seq(Threads), Distinct(waiting'),
           Elems(waiting') = Elems(waiting) \ {t},
           UNCHANGED <<others, clVars>>
    PROVE  LocksInv'
<1> USE DEF LocksInv
<1> DEFINE again == Call("lock", AnyCondition)
<1>1. /\ again \in Calls /\ again # Guest /\ again.kind = "lock"
      /\ Guest \in Calls /\ Guest.kind = "guest"
  BY CallsTyped
<1> HIDE DEF again
<1>2. /\ suspended[t] = 0 /\ ~ asleep[t] /\ t \notin Elems(lockWaiting)
      /\ t \notin QueuedIn(clWaiting)
  BY DEF Runs, BlockOK, QueuedOK
<1>3. /\ UNCHANGED others /\ UNCHANGED clLocked /\ UNCHANGED condition
      /\ UNCHANGED clWaiting /\ UNCHANGED clHolders
  BY DEF clVars
<1>4. CASE locked
  <2>1. /\ lockWaiting' = Append(lockWaiting, t)
        /\ BlockAndWake({}, {t}, {}) /\ Become(t, again)
        /\ UNCHANGED <<locked, holders>>
    BY <1>4 DEF LockRound, again
  <2>2. /\ lockWaiting' \in Seq(Threads) /\ Distinct(lockWaiting')
        /\ Elems(lockWaiting') = Elems(lockWaiting) \cup {t}
    BY <1>2, <2>1, QueueAppend DEF QueuesOK, TypeOK
  <2>3. /\ call' \in [Threads -> Calls] /\ late' \in [Threads -> BOOLEAN]
        /\ \A u \in Threads : call'[u] = IF u = t THEN again ELSE call[u]
    BY <1>1, <2>1, BecomeProps
  <2>4. /\ suspended' \in [Threads -> Nat] /\ asleep' \in [Threads -> BOOLEAN]
        /\ \A u \in Threads :
             /\ suspended'[u] = IF u = t THEN 1 ELSE suspended[u]
             /\ asleep'[u] <=> asleep[u]
    BY <2>1, BlockAndWakeProps
  <2>5. TypeOK'
    BY <1>3, <2>1, <2>2, <2>3, <2>4 DEF TypeOK, Calls
  <2>6. Excludes'
    BY <1>3, <2>1 DEF Excludes
  <2>7. ASSUME NEW u \in Threads PROVE BlockOK(u)' /\ QueuedOK(u)'
    <3>1. CASE u = t
      <4>1. /\ call'[t].kind = "lock" /\ suspended'[t] = 1 /\ ~ asleep'[t]
            /\ others'[t] = 0 /\ t \in Elems(lockWaiting')
            /\ t \notin Elems(waiting') /\ t \notin QueuedIn(clWaiting')
        BY <1>1, <1>2, <1>3, <2>2, <2>3, <2>4 DEF BlockOK
      <4> QED BY <3>1, <4>1 DEF BlockOK, QueuedOK
    <3>2. CASE u # t
      BY <1>3, <2>2, <2>3, <2>4, <3>2, Unaffected
    <3> QED BY <3>1, <3>2
  <2>8. WantsOK'
    BY <1>2, <1>3, <2>3, WantsKept
  <2>9. QueuesOK'
    BY <1>3, <2>2 DEF QueuesOK
  <2>10. Promised'
    <3>1. locked'
      BY <1>4, <2>1
    <3>2. ASSUME NEW u \in Threads, WokenForCL(u) PROVE WokenForCL(u)'
      BY <1>1, <1>2, <1>3, <2>3, <2>4, <3>2 DEF WokenForCL, Available
    <3> QED BY <1>3, <3>1, <3>2 DEF Promised, Available
  <2> QED BY <2>5, <2>6, <2>7, <2>8, <2>9, <2>10
<1>5. CASE ~ locked
  <2>1. /\ locked' = TRUE /\ holders' = holders \cup {t} /\ Become(t, Guest)
        /\ UNCHANGED <<lockWaiting, blockVars>>
    BY <1>5 DEF LockRound
  <2>2. /\ call' \in [Threads -> Calls] /\ late' \in [Threads -> BOOLEAN]
        /\ \A u \in Threads : call'[u] = IF u = t THEN Guest ELSE call[u]
    BY <1>1, <2>1, BecomeProps
  <2>3. UNCHANGED suspended /\ UNCHANGED asleep /\ UNCHANGED lockWaiting
    BY <2>1 DEF blockVars
  <2>4. TypeOK'
    BY <1>3, <2>1, <2>2, <2>3 DEF TypeOK, Calls
  <2>5. Excludes'
    BY <1>3, <1>5, <2>1 DEF Excludes
  <2>6. ASSUME NEW u \in Threads PROVE BlockOK(u)' /\ QueuedOK(u)'
    BY <1>1, <1>2, <1>3, <2>2, <2>3 DEF BlockOK, QueuedOK
  <2>7. WantsOK'
    BY <1>2, <1>3, <2>2, WantsKept
  <2>8. QueuesOK'
    BY <1>3, <2>3 DEF QueuesOK
  <2>9. Promised'
    <3>1. ASSUME NEW u \in Threads, WokenForCL(u) PROVE WokenForCL(u)'
      BY <1>1, <1>2, <1>3, <2>2, <2>3, <3>1 DEF WokenForCL, Available
    <3> QED BY <1>3, <2>1, <3>1 DEF Promised, Available
  <2> QED BY <2>4, <2>5, <2>6, <2>7, <2>8, <2>9
<1> QED BY <1>4, <1>5

\* unlock, wait and waitUntilDate: give the NSCondition up and wake the first
\* thread that wants to lock it; to wait, queue, and suspend itself or sleep.
LEMMA GiveUpInv ==
    ASSUME LocksInv, NEW t \in Threads, Runs(t), call[t] = Guest, t \in holders,
           GiveUp(t), NEW waits \in BOOLEAN, NEW timed \in BOOLEAN,
           BlockAndWake(Front1(lockWaiting), IF waits THEN {t} ELSE {},
                        IF timed THEN {t} ELSE {}),
           ~ (waits /\ timed),
           IF waits \/ timed
           THEN /\ waiting' = Append(waiting, t)
                /\ Become(t, Call(IF waits THEN "wait" ELSE "waitUntilDate",
                                  AnyCondition))
           ELSE UNCHANGED <<waiting, call, late>>,
           UNCHANGED <<others, clVars>>
    PROVE  LocksInv'
<1> USE DEF LocksInv
<1> DEFINE woken == Front1(lockWaiting)
           new == Call(IF waits THEN "wait" ELSE "waitUntilDate", AnyCondition)
<1>1. /\ new \in Calls /\ new.kind = IF waits THEN "wait" ELSE "waitUntilDate"
      /\ Guest \in Calls /\ Guest.kind = "guest"
  BY CallsTyped
<1> HIDE DEF new
<1>2. /\ suspended[t] = 0 /\ ~ asleep[t] /\ others[t] = 0
      /\ t \notin Elems(lockWaiting) /\ t \notin Elems(waiting)
      /\ t \notin QueuedIn(clWaiting)
  BY <1>1 DEF Runs, BlockOK, QueuedOK
<1>3. /\ UNCHANGED others /\ UNCHANGED clLocked /\ UNCHANGED condition
      /\ UNCHANGED clWaiting /\ UNCHANGED clHolders
  BY DEF clVars
<1>4. /\ locked' = FALSE /\ holders' = {} /\ lockWaiting' = Behind(lockWaiting)
  BY DEF GiveUp, Excludes
<1>5. /\ lockWaiting' \in Seq(Threads) /\ Distinct(lockWaiting')
      /\ woken \subseteq Elems(lockWaiting) /\ (lockWaiting # <<>> => woken # {})
      /\ Elems(lockWaiting') = Elems(lockWaiting) \ woken
  <2>1. lockWaiting \in Seq(Threads) /\ Distinct(lockWaiting)
    BY DEF TypeOK, QueuesOK
  <2> QED BY <1>4, <2>1, QueueBehind
<1>6. /\ waiting' \in Seq(Threads) /\ Distinct(waiting')
      /\ Elems(waiting') = IF waits \/ timed THEN Elems(waiting) \cup {t}
                           ELSE Elems(waiting)
  <2>1. CASE waits \/ timed
    <3>1. /\ waiting \in Seq(Threads) /\ Distinct(waiting)
          /\ waiting' = Append(waiting, t)
      BY <2>1 DEF TypeOK, QueuesOK
    <3> QED BY <1>2, <2>1, <3>1, QueueAppend
  <2>2. CASE ~ (waits \/ timed)
    BY <2>2 DEF QueuesOK, TypeOK
  <2> QED BY <2>1, <2>2
<1>7. /\ call' \in [Threads -> Calls] /\ late' \in [Threads -> BOOLEAN]
      /\ \A u \in Threads : u # t => call'[u] = call[u]
      /\ call'[t] = IF waits \/ timed THEN new ELSE Guest
  <2>1. CASE waits \/ timed
    <3>1. Become(t, new)
      BY <2>1 DEF new
    <3> QED BY <1>1, <2>1, <3>1, BecomeProps
  <2>2. CASE ~ (waits \/ timed)
    BY <2>2 DEF TypeOK, Calls
  <2> QED BY <2>1, <2>2
<1>8. /\ suspended' \in [Threads -> Nat] /\ asleep' \in [Threads -> BOOLEAN]
      /\ suspended'[t] = IF waits THEN 1 ELSE 0
      /\ asleep'[t] <=> timed
      /\ \A u \in Threads \ {t} :
           /\ suspended'[u] = IF u \in woken THEN 0 ELSE suspended[u]
           /\ asleep'[u] <=> asleep[u] /\ u \notin woken
  BY <1>2, <1>5, BlockAndWakeProps
<1> HIDE DEF woken
<1>9. TypeOK'
  BY <1>3, <1>4, <1>5, <1>6, <1>7, <1>8 DEF TypeOK, Calls
<1>10. Excludes'
  BY <1>3, <1>4 DEF Excludes
<1>11. ASSUME NEW u \in Threads PROVE BlockOK(u)' /\ QueuedOK(u)'
  <2>1. CASE u = t
    BY <1>1, <1>2, <1>3, <1>5, <1>6, <1>7, <1>8, <2>1 DEF BlockOK, QueuedOK
  <2>2. CASE u # t /\ u \in woken
    <3>1. /\ call[u].kind = "lock" /\ suspended[u] = 1 /\ others[u] = 0
          /\ ~ asleep[u] /\ u \notin Elems(waiting)
          /\ u \notin QueuedIn(clWaiting)
      BY <1>5, <2>2 DEF BlockOK, QueuedOK
    <3> QED BY <1>3, <1>5, <1>6, <1>7, <1>8, <2>2, <3>1 DEF BlockOK, QueuedOK
  <2>3. CASE u # t /\ u \notin woken
    BY <1>3, <1>5, <1>6, <1>7, <1>8, <2>3, Unaffected
  <2> QED BY <2>1, <2>2, <2>3
<1>12. WantsOK'
  BY <1>2, <1>3, <1>7, WantsKept
<1>13. QueuesOK'
  BY <1>3, <1>5, <1>6 DEF QueuesOK
<1>14. Promised'
  <2>1. ASSUME lockWaiting' # <<>> PROVE \E u \in Threads : WokenForLock(u)'
    <3>1. lockWaiting # <<>>
      BY <1>4, <2>1 DEF Behind
    <3>2. PICK u \in woken : u \in Threads /\ u # t
      <4>1. Elems(lockWaiting) \subseteq Threads
        BY ElemsTyped DEF TypeOK
      <4> QED BY <1>2, <1>5, <3>1, <4>1
    <3>3. call[u].kind = "lock"
      BY <1>5, <3>2 DEF QueuedOK
    <3> QED BY <1>7, <1>8, <3>2, <3>3 DEF WokenForLock
  <2>2. ASSUME NEW u \in Threads, WokenForCL(u) PROVE WokenForCL(u)'
    <3>1. u # t /\ u \notin woken
      BY <1>1, <1>5, <2>2 DEF WokenForCL, QueuedOK
    <3> QED BY <1>3, <1>7, <1>8, <2>2, <3>1 DEF WokenForCL, Available
  <2> QED BY <1>3, <2>1, <2>2 DEF Promised, Available
<1> QED BY <1>9, <1>10, <1>11, <1>12, <1>13, <1>14

\* signal and broadcast wake some of the threads that wait.
LEMMA SignalInv ==
    ASSUME LocksInv, NEW woken \in SUBSET Elems(waiting),
           BlockAndWake(woken, {}, {}),
           waiting' \in Seq(Threads), Distinct(waiting'),
           Elems(waiting') = Elems(waiting) \ woken,
           UNCHANGED <<call, late, others, locked, lockWaiting, holders, clVars>>
    PROVE  LocksInv'
<1> USE DEF LocksInv
<1>1. /\ UNCHANGED clLocked /\ UNCHANGED condition
      /\ UNCHANGED clWaiting /\ UNCHANGED clHolders
  BY DEF clVars
<1>2. /\ suspended' \in [Threads -> Nat] /\ asleep' \in [Threads -> BOOLEAN]
      /\ \A u \in Threads :
           /\ suspended'[u] = IF u \in woken THEN 0 ELSE suspended[u]
           /\ asleep'[u] <=> asleep[u] /\ u \notin woken
  BY BlockAndWakeProps
<1>3. TypeOK'
  BY <1>1, <1>2 DEF TypeOK
<1>4. Excludes' /\ QueuesOK'
  BY <1>1 DEF Excludes, QueuesOK
<1>5. ASSUME NEW u \in Threads PROVE BlockOK(u)' /\ QueuedOK(u)'
  <2>1. CASE u \in woken
    <3>1. /\ call[u].kind \in {"wait", "waitUntilDate"} /\ others[u] = 0
          /\ u \notin Elems(lockWaiting) /\ u \notin QueuedIn(clWaiting)
      BY <2>1 DEF BlockOK, QueuedOK
    <3> QED BY <1>1, <1>2, <2>1, <3>1 DEF BlockOK, QueuedOK
  <2>2. CASE u \notin woken
    BY <1>1, <1>2, <2>2, Unaffected
  <2> QED BY <2>1, <2>2
<1>6. WantsOK'
  BY <1>1, WantsKept
<1>7. Promised'
  <2>1. \A u \in Threads : WokenForLock(u) => WokenForLock(u)'
    BY <1>2 DEF WokenForLock
  <2>2. \A u \in Threads : WokenForCL(u) => WokenForCL(u)'
    BY <1>1, <1>2 DEF WokenForCL, Available
  <2> QED BY <1>1, <2>1, <2>2 DEF Promised, Available
<1> QED BY <1>3, <1>4, <1>5, <1>6, <1>7

\* A round of the loop of lock or lockWhenCondition:beforeDate:, with the thread
\* off the queue: it takes the lock, gives up at its date, or queues again and
\* suspends itself or sleeps.
LEMMA CLRoundInv ==
    ASSUME LocksInv, NEW t \in Threads, Runs(t),
           call[t].kind \in {"guest", "clLock", "clLockBefore"},
           NEW want \in Conditions \cup {AnyCondition},
           call[t].kind # "guest" => call[t].want = want,
           NEW queue \in Seq(Entries), OnceEach(queue),
           QueuedIn(queue) = QueuedIn(clWaiting) \ {t},
           \A j \in 1 .. Len(queue) : \E k \in 1 .. Len(clWaiting) :
               queue[j] = clWaiting[k],
           NEW timed \in BOOLEAN, NEW gaveUp \in BOOLEAN,
           IF Available(want)
           THEN /\ TakeCL(t) /\ clWaiting' = queue /\ Become(t, Guest)
                /\ UNCHANGED blockVars
           ELSE IF gaveUp
           THEN /\ clWaiting' = queue /\ Become(t, Guest)
                /\ UNCHANGED <<clLocked, clHolders, blockVars>>
           ELSE /\ clWaiting' = Append(queue, Entry(t, want))
                /\ BlockAndWake({}, IF timed THEN {} ELSE {t},
                                IF timed THEN {t} ELSE {})
                /\ Become(t, Call(IF timed THEN "clLockBefore" ELSE "clLock", want))
                /\ UNCHANGED <<clLocked, clHolders>>,
           UNCHANGED <<condition, others, conditionVars>>
    PROVE  LocksInv'
<1> USE DEF LocksInv
<1> DEFINE new == Call(IF timed THEN "clLockBefore" ELSE "clLock", want)
           entry == Entry(t, want)
           queues == ~ Available(want) /\ ~ gaveUp
<1>1. /\ new \in Calls /\ new.kind = IF timed THEN "clLockBefore" ELSE "clLock"
      /\ new.want = want /\ Guest \in Calls /\ Guest.kind = "guest"
  BY CallsTyped
<1>2. entry \in Entries /\ entry.thread = t /\ entry.want = want
  BY DEF Entry, Entries
<1> HIDE DEF new, entry
<1>3. /\ suspended[t] = 0 /\ ~ asleep[t] /\ others[t] = 0
      /\ t \notin Elems(lockWaiting) /\ t \notin Elems(waiting)
  BY DEF Runs, BlockOK, QueuedOK
<1>4. /\ UNCHANGED others /\ UNCHANGED condition /\ UNCHANGED locked
      /\ UNCHANGED lockWaiting /\ UNCHANGED waiting /\ UNCHANGED holders
  BY DEF conditionVars
<1>5. /\ clWaiting' \in Seq(Entries) /\ OnceEach(clWaiting')
      /\ QueuedIn(clWaiting') = IF queues THEN QueuedIn(clWaiting) \cup {t}
                                ELSE QueuedIn(clWaiting) \ {t}
      /\ \A j \in 1 .. Len(clWaiting') :
            \/ queues /\ clWaiting'[j] = entry
            \/ \E k \in 1 .. Len(clWaiting) : /\ clWaiting'[j] = clWaiting[k]
                                              /\ clWaiting[k].thread # t
  <2>1. \A j \in 1 .. Len(queue) : queue[j].thread # t
    BY EntryTyped
  <2>2. CASE queues
    <3>1. clWaiting' = Append(queue, entry)
      BY <2>2 DEF entry
    <3>2. t \notin QueuedIn(queue)
      OBVIOUS
    <3>3. /\ clWaiting' \in Seq(Entries) /\ OnceEach(clWaiting')
          /\ QueuedIn(clWaiting') = QueuedIn(queue) \cup {t}
          /\ \A j \in 1 .. Len(clWaiting') :
                clWaiting'[j] = entry \/ \E k \in 1 .. Len(queue) : clWaiting'[j] = queue[k]
      BY <1>2, <3>1, <3>2, EntryAdded
    <3>4. QueuedIn(clWaiting') = QueuedIn(clWaiting) \cup {t}
      BY <3>3
    <3>5. ASSUME NEW j \in 1 .. Len(clWaiting'), clWaiting'[j] # entry
          PROVE  \E k \in 1 .. Len(clWaiting) : /\ clWaiting'[j] = clWaiting[k]
                                                /\ clWaiting[k].thread # t
      <4>1. PICK i \in 1 .. Len(queue) : clWaiting'[j] = queue[i]
        BY <3>3, <3>5
      <4>2. PICK k \in 1 .. Len(clWaiting) : queue[i] = clWaiting[k]
        OBVIOUS
      <4> QED BY <2>1, <4>1, <4>2
    <3> QED BY <2>2, <3>3, <3>4, <3>5
  <2>3. CASE ~ queues
    <3>1. clWaiting' = queue
      BY <2>3
    <3> QED BY <2>1, <2>3, <3>1
  <2> QED BY <2>2, <2>3
<1>6. /\ call' \in [Threads -> Calls] /\ late' \in [Threads -> BOOLEAN]
      /\ \A u \in Threads : u # t => call'[u] = call[u]
      /\ call'[t] = IF queues THEN new ELSE Guest
  <2>1. Become(t, IF queues THEN new ELSE Guest)
    BY DEF new
  <2> QED BY <1>1, <2>1, BecomeProps
<1>7. /\ suspended' \in [Threads -> Nat] /\ asleep' \in [Threads -> BOOLEAN]
      /\ suspended'[t] = IF queues /\ ~ timed THEN 1 ELSE 0
      /\ asleep'[t] <=> queues /\ timed
      /\ \A u \in Threads \ {t} : /\ suspended'[u] = suspended[u]
                                  /\ asleep'[u] <=> asleep[u]
  <2>1. CASE queues
    <3>1. BlockAndWake({}, IF timed THEN {} ELSE {t}, IF timed THEN {t} ELSE {})
      BY <2>1
    <3> QED BY <1>3, <2>1, <3>1, BlockAndWakeProps
  <2>2. CASE ~ queues
    <3>1. suspended' = suspended /\ asleep' = asleep
      BY <2>2 DEF blockVars
    <3> QED BY <1>3, <2>2, <3>1 DEF TypeOK
  <2> QED BY <2>1, <2>2
<1>8. /\ Available(want) => clLocked' = TRUE /\ clHolders' = clHolders \cup {t}
      /\ ~ Available(want) => UNCHANGED <<clLocked, clHolders>>
  BY DEF TakeCL
<1> HIDE DEF queues
<1>9. TypeOK'
  <2>1. clLocked' \in BOOLEAN /\ clHolders' \subseteq Threads
    BY <1>8 DEF TypeOK
  <2> QED BY <1>4, <1>5, <1>6, <1>7, <2>1 DEF TypeOK, Calls, Entries
<1>10. Excludes'
  BY <1>4, <1>8 DEF Excludes, Available
<1>11. ASSUME NEW u \in Threads PROVE BlockOK(u)' /\ QueuedOK(u)'
  <2>1. CASE u = t
    BY <1>1, <1>3, <1>4, <1>5, <1>6, <1>7, <2>1 DEF BlockOK, QueuedOK
  <2>2. CASE u # t
    BY <1>4, <1>5, <1>6, <1>7, <2>2, Unaffected
  <2> QED BY <2>1, <2>2
<1>12. ASSUME NEW j \in 1 .. Len(clWaiting')
       PROVE  clWaiting'[j].want = call'[clWaiting'[j].thread].want
  <2>1. CASE queues /\ clWaiting'[j] = entry
    BY <1>1, <1>2, <1>6, <2>1
  <2>2. ASSUME NEW k \in 1 .. Len(clWaiting), clWaiting'[j] = clWaiting[k],
               clWaiting[k].thread # t
        PROVE  clWaiting'[j].want = call'[clWaiting'[j].thread].want
    <3>1. clWaiting[k].thread \in Threads
      BY EntryTyped DEF TypeOK, Entries
    <3> QED BY <1>6, <2>2, <3>1 DEF WantsOK
  <2> QED BY <1>5, <2>1, <2>2
<1>13. QueuesOK'
  BY <1>4, <1>5 DEF QueuesOK
<1>14. Promised'
  <2>1. ASSUME NEW u \in Threads, WokenForLock(u) PROVE WokenForLock(u)'
    <3>1. u # t
      BY <2>1 DEF WokenForLock
    <3> QED BY <1>6, <1>7, <2>1, <3>1 DEF WokenForLock
  <2>2. ASSUME NEW j \in 1 .. Len(clWaiting'), Available(clWaiting[j].want)'
        PROVE  \E u \in Threads : WokenForCL(u)'
    <3>1. ~ Available(want) /\ ~ clLocked
      BY <1>8, <2>2 DEF Available
    <3>2. Available(clWaiting'[j].want)
      BY <1>4, <2>2, <3>1 DEF Available
    <3>3. PICK k \in 1 .. Len(clWaiting) : clWaiting'[j] = clWaiting[k]
      BY <1>2, <1>5, <3>1, <3>2
    <3>4. PICK u \in Threads : WokenForCL(u)
      BY <3>2, <3>3 DEF Promised
    <3>5. u # t
      <4>1. call[t].kind = "guest" \/ ~ Available(call[t].want)
        BY <3>1
      <4> QED BY <3>4, <4>1 DEF WokenForCL
    <3>6. UNCHANGED clLocked
      BY <1>8, <3>1
    <3> QED BY <1>4, <1>6, <1>7, <3>4, <3>5, <3>6 DEF WokenForCL, Available
  <2> QED BY <1>4, <2>1, <2>2 DEF Promised
<1> QED BY <1>9, <1>10, <1>11, <1>12, <1>13, <1>14 DEF WantsOK

\* tryLock and tryLockWhenCondition: take a free lock and block nobody.
LEMMA TryLockInv ==
    ASSUME LocksInv, NEW t \in Threads, NEW want, CLTryLock(t, want)
    PROVE  LocksInv'
<1> USE DEF LocksInv
<1>1. /\ ~ clLocked /\ clLocked' = TRUE /\ clHolders' = clHolders \cup {t}
      /\ UNCHANGED suspended /\ UNCHANGED asleep /\ UNCHANGED call
      /\ UNCHANGED late /\ UNCHANGED others /\ UNCHANGED condition
      /\ UNCHANGED clWaiting /\ UNCHANGED locked /\ UNCHANGED lockWaiting
      /\ UNCHANGED waiting /\ UNCHANGED holders
  BY DEF CLTryLock, Available, TakeCL, blockVars, conditionVars
<1>2. TypeOK'
  BY <1>1 DEF TypeOK
<1>3. Excludes' /\ QueuesOK' /\ WantsOK'
  BY <1>1 DEF Excludes, QueuesOK, WantsOK
<1>4. \A u \in Threads : BlockOK(u)' /\ QueuedOK(u)'
  BY <1>1 DEF BlockOK, QueuedOK
<1>5. Promised'
  BY <1>1 DEF Promised, WokenForLock, Available
<1> QED BY <1>2, <1>3, <1>4, <1>5

\* unlockWithCondition: wakes the first thread that may lock.
LEMMA UnlockInv ==
    ASSUME LocksInv, NEW t \in Threads, t \in clHolders,
           NEW new \in Conditions, CLUnlockTo(t, new),
           UNCHANGED <<call, late, others, conditionVars>>
    PROVE  LocksInv'
<1> USE DEF LocksInv
<1>1. /\ UNCHANGED call /\ UNCHANGED late /\ UNCHANGED others /\ UNCHANGED locked
      /\ UNCHANGED lockWaiting /\ UNCHANGED waiting /\ UNCHANGED holders
  BY DEF conditionVars
<1>2. clWaiting \in Seq(Entries) /\ OnceEach(clWaiting)
  BY DEF TypeOK, Entries, QueuesOK
<1>3. /\ clLocked' = FALSE /\ condition' = new /\ clHolders' = clHolders \ {t}
      /\ \/ /\ \A i \in 1 .. Len(clWaiting) :
                  clWaiting[i].want \notin {AnyCondition, new}
            /\ clWaiting' = clWaiting
            /\ BlockAndWake({}, {}, {})
         \/ \E i \in 1 .. Len(clWaiting) :
               /\ clWaiting[i].want \in {AnyCondition, new}
               /\ clWaiting' = WithoutPosition(clWaiting, i)
               /\ BlockAndWake({clWaiting[i].thread}, {}, {})
  BY <1>2, UnlockToProps
<1>4. Excludes'
  BY <1>1, <1>3 DEF Excludes
<1>5. CASE /\ \A i \in 1 .. Len(clWaiting) :
                 clWaiting[i].want \notin {AnyCondition, new}
           /\ clWaiting' = clWaiting
           /\ BlockAndWake({}, {}, {})
  <2>1. /\ suspended' \in [Threads -> Nat] /\ asleep' \in [Threads -> BOOLEAN]
        /\ \A u \in Threads : suspended'[u] = suspended[u] /\ (asleep'[u] <=> asleep[u])
    BY <1>5, BlockAndWakeProps
  <2>2. TypeOK'
    BY <1>1, <1>3, <1>5, <2>1 DEF TypeOK
  <2>3. \A u \in Threads : BlockOK(u)' /\ QueuedOK(u)'
    BY <1>1, <1>5, <2>1, Unaffected
  <2>4. WantsOK' /\ QueuesOK'
    BY <1>1, <1>5 DEF WantsOK, QueuesOK
  <2>5. Promised'
    BY <1>1, <1>3, <1>5, <2>1 DEF Promised, WokenForLock, Available
  <2> QED BY <1>4, <2>2, <2>3, <2>4, <2>5
<1>6. ASSUME NEW i \in 1 .. Len(clWaiting),
             clWaiting[i].want \in {AnyCondition, new},
             clWaiting' = WithoutPosition(clWaiting, i),
             BlockAndWake({clWaiting[i].thread}, {}, {})
      PROVE  LocksInv'
  <2>0. PICK w \in Threads : w = clWaiting[i].thread
    BY <1>2, EntryTyped
  <2>1. w \in QueuedIn(clWaiting) /\ clWaiting[i].want = call[w].want
    BY <1>2, <2>0, EntryTyped DEF WantsOK
  <2>2. /\ clWaiting' \in Seq(Entries) /\ OnceEach(clWaiting')
        /\ QueuedIn(clWaiting') = QueuedIn(clWaiting) \ {w}
        /\ \A j \in 1 .. Len(clWaiting') :
              \E k \in 1 .. Len(clWaiting) : clWaiting'[j] = clWaiting[k]
    BY <1>2, <1>6, <2>0, EntryRemoved
  <2>3. /\ suspended' \in [Threads -> Nat] /\ asleep' \in [Threads -> BOOLEAN]
        /\ \A u \in Threads :
             /\ suspended'[u] = IF u = w THEN 0 ELSE suspended[u]
             /\ asleep'[u] <=> asleep[u] /\ u # w
    BY <1>6, <2>0, BlockAndWakeProps
  <2>4. TypeOK'
    BY <1>1, <1>3, <2>2, <2>3 DEF TypeOK, Entries
  <2>5. ASSUME NEW u \in Threads PROVE BlockOK(u)' /\ QueuedOK(u)'
    <3>1. CASE u = w
      <4>1. /\ call[u].kind \in {"clLock", "clLockBefore"} /\ others[u] = 0
            /\ u \notin Elems(lockWaiting) /\ u \notin Elems(waiting)
        BY <2>1, <3>1 DEF BlockOK, QueuedOK
      <4> QED BY <1>1, <2>2, <2>3, <3>1, <4>1 DEF BlockOK, QueuedOK
    <3>2. CASE u # w
      BY <1>1, <2>2, <2>3, <3>2, Unaffected
    <3> QED BY <3>1, <3>2
  <2>6. WantsOK'
    BY <1>1, <2>2 DEF WantsOK
  <2>7. QueuesOK'
    BY <1>1, <2>2 DEF QueuesOK
  <2>8. WokenForCL(w)'
    <3>1. call'[w].kind \in {"clLock", "clLockBefore"}
      BY <1>1, <2>1 DEF QueuedOK
    <3>2. call'[w].want \in {AnyCondition, new}
      BY <1>1, <1>6, <2>0, <2>1
    <3>3. clLocked' = FALSE /\ condition' = new
      BY <1>3
    <3>4. suspended'[w] = 0 /\ ~ asleep'[w]
      BY <2>1, <2>3
    <3>5. Available(call[w].want)'
      BY <3>2, <3>3 DEF Available
    <3> QED BY <3>1, <3>4, <3>5 DEF WokenForCL
  <2>9. \A u \in Threads : WokenForLock(u) => WokenForLock(u)'
    <3>1. call[w].kind \in {"clLock", "clLockBefore"}
      BY <2>1 DEF QueuedOK
    <3> QED BY <1>1, <2>3, <3>1 DEF WokenForLock
  <2>10. Promised'
    <3>1. ASSUME ~ locked', lockWaiting' # <<>>
          PROVE  \E u \in Threads : WokenForLock(u)'
      <4>1. PICK u \in Threads : WokenForLock(u)
        BY <1>1, <3>1 DEF Promised
      <4> QED BY <2>9, <4>1
    <3>2. \E u \in Threads : WokenForCL(u)'
      BY <2>1, <2>8
    <3> QED BY <3>1, <3>2 DEF Promised
  <2> QED BY <1>4, <2>4, <2>5, <2>6, <2>7, <2>10
<1> QED BY <1>3, <1>5, <1>6

\* The limit date of a thread passes.
LEMMA TimeInv ==
    ASSUME LocksInv, NEW t \in Threads, TimePasses(t) PROVE LocksInv'
<1> USE DEF LocksInv
<1>1. /\ call[t].kind \in {"waitUntilDate", "clLockBefore"}
      /\ late' = [late EXCEPT ![t] = TRUE]
      /\ asleep' = [asleep EXCEPT ![t] = FALSE]
      /\ UNCHANGED suspended /\ UNCHANGED call /\ UNCHANGED others
      /\ UNCHANGED condition /\ UNCHANGED clLocked /\ UNCHANGED clHolders
      /\ UNCHANGED clWaiting /\ UNCHANGED locked /\ UNCHANGED lockWaiting
      /\ UNCHANGED waiting /\ UNCHANGED holders
  BY DEF TimePasses, clVars, conditionVars
<1>2. /\ asleep' \in [Threads -> BOOLEAN] /\ late' \in [Threads -> BOOLEAN]
      /\ \A u \in Threads : asleep'[u] <=> asleep[u] /\ u # t
  BY <1>1 DEF TypeOK
<1>3. TypeOK'
  BY <1>1, <1>2 DEF TypeOK
<1>4. Excludes' /\ QueuesOK' /\ WantsOK'
  BY <1>1 DEF Excludes, QueuesOK, WantsOK
<1>5. \A u \in Threads : BlockOK(u)' /\ QueuedOK(u)'
  BY <1>1, <1>2 DEF BlockOK, QueuedOK
<1>6. \A u \in Threads : /\ WokenForLock(u) => WokenForLock(u)'
                         /\ WokenForCL(u) => WokenForCL(u)'
  BY <1>1, <1>2 DEF WokenForLock, WokenForCL, Available
<1>7. Promised'
  BY <1>1, <1>6 DEF Promised, Available
<1> QED BY <1>3, <1>4, <1>5, <1>7

\* A thread that executes guest code is suspended or resumed by another.
LEMMA SuspendInv ==
    ASSUME LocksInv, NEW u \in Threads, call[u] = Guest,
           suspended' \in [Threads -> Nat], others' \in [Threads -> 0 .. MaxSuspensions],
           suspended'[u] = others'[u],
           \A v \in Threads \ {u} :
               suspended'[v] = suspended[v] /\ others'[v] = others[v],
           UNCHANGED <<asleep, call, late, conditionVars, clVars>>
    PROVE  LocksInv'
<1> USE DEF LocksInv
<1>1. /\ UNCHANGED asleep /\ UNCHANGED call /\ UNCHANGED late
      /\ UNCHANGED condition /\ UNCHANGED clLocked /\ UNCHANGED clHolders
      /\ UNCHANGED clWaiting /\ UNCHANGED locked /\ UNCHANGED lockWaiting
      /\ UNCHANGED waiting /\ UNCHANGED holders
  BY DEF clVars, conditionVars
<1>2. call[u].kind = "guest"
  BY CallsTyped
<1>3. TypeOK'
  BY <1>1 DEF TypeOK
<1>4. Excludes' /\ QueuesOK' /\ WantsOK'
  BY <1>1 DEF Excludes, QueuesOK, WantsOK
<1>5. ASSUME NEW v \in Threads PROVE BlockOK(v)' /\ QueuedOK(v)'
  <2>1. CASE v = u
    BY <1>1, <1>2, <2>1 DEF BlockOK, QueuedOK
  <2>2. CASE v # u
    BY <1>1, <2>2, Unaffected
  <2> QED BY <2>1, <2>2
<1>6. \A v \in Threads : /\ WokenForLock(v) => WokenForLock(v)'
                         /\ WokenForCL(v) => WokenForCL(v)'
  BY <1>1, <1>2 DEF WokenForLock, WokenForCL, Available
<1>7. Promised'
  BY <1>1, <1>6 DEF Promised, Available
<1> QED BY <1>3, <1>4, <1>5, <1>7

\* The guest unlocks and waits only with a lock that it holds, and suspends no
\* thread that is in a call of these classes.
LawfulGuest ==
    {"unlock_for_another_thread", "wait_without_lock", "suspend_waiter"}
        \cap Misuse = {}

\* A thread that can make a call is in no queue.
LEMMA GuestQueued ==
    ASSUME LocksInv, NEW t \in Threads, call[t] = Guest
    PROVE  /\ call[t].kind = "guest"
           /\ t \notin Elems(lockWaiting) /\ t \notin Elems(waiting)
           /\ t \notin QueuedIn(clWaiting)
BY CallsTyped DEF LocksInv, QueuedOK

\* A step of the NSCondition.
LEMMA ConditionInv ==
    ASSUME LocksInv, LawfulGuest, NEW t \in Threads, ConditionStep(t)
    PROVE  LocksInv'
<1>0. /\ lockWaiting \in Seq(Threads) /\ waiting \in Seq(Threads)
      /\ Distinct(lockWaiting) /\ Distinct(waiting)
  BY DEF LocksInv, TypeOK, QueuesOK
<1>1. CASE Lock(t)
  <2>1. /\ Runs(t) /\ call[t] = Guest
        /\ LockRound(t, Guest, Call("lock", AnyCondition))
        /\ waiting' = waiting /\ UNCHANGED <<others, clVars>>
    BY <1>1 DEF Lock, InGuest
  <2>2. call[t].kind = "guest" /\ Elems(waiting') = Elems(waiting) \ {t}
    BY <2>1, GuestQueued
  <2> QED BY <1>0, <2>1, <2>2, LockRoundInv
<1>2. CASE Unlock(t)
  <2>1. /\ Runs(t) /\ call[t] = Guest /\ t \in holders /\ GiveUp(t)
        /\ BlockAndWake(Front1(lockWaiting), {}, {})
        /\ UNCHANGED <<waiting, call, late>> /\ UNCHANGED <<others, clVars>>
    BY <1>2 DEF Unlock, InGuest, Lawful, LawfulGuest
  <2>2. BlockAndWake(Front1(lockWaiting), IF FALSE THEN {t} ELSE {},
                     IF FALSE THEN {t} ELSE {})
    BY <2>1
  <2> QED BY <2>1, <2>2, GiveUpInv
<1>3. CASE Wait(t)
  <2>1. /\ Runs(t) /\ call[t] = Guest /\ t \in holders /\ GiveUp(t)
        /\ BlockAndWake(Front1(lockWaiting), {t}, {})
        /\ waiting' = Append(waiting, t)
        /\ Become(t, Call("wait", AnyCondition)) /\ UNCHANGED <<others, clVars>>
    BY <1>3 DEF Wait, InGuest, Lawful, LawfulGuest
  <2>2. BlockAndWake(Front1(lockWaiting), IF TRUE THEN {t} ELSE {},
                     IF FALSE THEN {t} ELSE {})
    BY <2>1
  <2>3. Become(t, Call(IF TRUE THEN "wait" ELSE "waitUntilDate", AnyCondition))
    BY <2>1
  <2> QED BY <2>1, <2>2, <2>3, GiveUpInv
<1>4. CASE WaitUntilDate(t)
  <2>1. /\ Runs(t) /\ call[t] = Guest /\ t \in holders /\ GiveUp(t)
        /\ BlockAndWake(Front1(lockWaiting), {}, {t})
        /\ waiting' = Append(waiting, t)
        /\ Become(t, Call("waitUntilDate", AnyCondition))
        /\ UNCHANGED <<others, clVars>>
    BY <1>4 DEF WaitUntilDate, InGuest, Lawful, LawfulGuest
  <2>2. BlockAndWake(Front1(lockWaiting), IF FALSE THEN {t} ELSE {},
                     IF TRUE THEN {t} ELSE {})
    BY <2>1
  <2>3. Become(t, Call(IF FALSE THEN "wait" ELSE "waitUntilDate", AnyCondition))
    BY <2>1
  <2> QED BY <2>1, <2>2, <2>3, GiveUpInv
<1>5. CASE LockAgain(t)
  <2>1. /\ Runs(t) /\ call[t].kind \in {"lock", "wait", "waitUntilDate"}
        /\ LockRound(t, Guest, Call("lock", AnyCondition))
        /\ waiting' = NoLongerWaiting(t) /\ UNCHANGED <<others, clVars>>
    BY <1>5 DEF LockAgain, Resumes
  <2>2. CASE call[t].kind = "waitUntilDate"
    <3>1. waiting' = Without(waiting, t)
      BY <2>1, <2>2 DEF NoLongerWaiting
    <3>2. /\ waiting' \in Seq(Threads) /\ Distinct(waiting')
          /\ Elems(waiting') = Elems(waiting) \ {t}
      BY <1>0, <3>1, QueueWithout
    <3> QED BY <2>1, <3>2, LockRoundInv
  <2>3. CASE call[t].kind \in {"lock", "wait"}
    <3>1. waiting' = waiting
      BY <2>1, <2>3 DEF NoLongerWaiting
    <3>2. t \notin Elems(waiting)
      BY <2>1, <2>3 DEF LocksInv, QueuedOK, Runs
    <3>3. /\ waiting' \in Seq(Threads) /\ Distinct(waiting')
          /\ Elems(waiting') = Elems(waiting) \ {t}
      BY <1>0, <3>1, <3>2
    <3> QED BY <2>1, <3>3, LockRoundInv
  <2> QED BY <2>1, <2>2, <2>3
<1>6. CASE Signal(t)
  <2>1. /\ waiting' = Behind(waiting) /\ BlockAndWake(Front1(waiting), {}, {})
        /\ UNCHANGED <<call, late, others, locked, lockWaiting, holders, clVars>>
    BY <1>6 DEF Signal
  <2>2. /\ waiting' \in Seq(Threads) /\ Distinct(waiting')
        /\ Front1(waiting) \in SUBSET Elems(waiting)
        /\ Elems(waiting') = Elems(waiting) \ Front1(waiting)
    BY <1>0, <2>1, QueueBehind
  <2> QED BY <2>1, <2>2, SignalInv
<1>7. CASE Broadcast(t)
  <2>1. /\ waiting' = <<>> /\ BlockAndWake(Elems(waiting), {}, {})
        /\ UNCHANGED <<call, late, others, locked, lockWaiting, holders, clVars>>
    BY <1>7 DEF Broadcast
  <2>2. /\ waiting' \in Seq(Threads) /\ Distinct(waiting')
        /\ Elems(waiting') = Elems(waiting) \ Elems(waiting)
    BY <2>1 DEF Distinct, Elems
  <2> QED BY <2>1, <2>2, SignalInv
<1> QED BY <1>1, <1>2, <1>3, <1>4, <1>5, <1>6, <1>7 DEF ConditionStep

\* A step of the NSConditionLock.
LEMMA ConditionLockInv ==
    ASSUME LocksInv, LawfulGuest, NEW t \in Threads, ConditionLockStep(t)
    PROVE  LocksInv'
<1>0. /\ clWaiting \in Seq(Entries) /\ OnceEach(clWaiting)
      /\ \A j \in 1 .. Len(clWaiting) :
            \E k \in 1 .. Len(clWaiting) : clWaiting[j] = clWaiting[k]
  BY DEF LocksInv, TypeOK, QueuesOK, Entries
<1>1. CASE CLLockAgain(t)
  <2>1. /\ Runs(t) /\ call[t].kind = "clLock" /\ CLRound(t, call[t].want)
        /\ UNCHANGED <<condition, others, conditionVars>>
    BY <1>1 DEF CLLockAgain, Resumes, CLRound
  <2>2. QueuedIn(clWaiting) = QueuedIn(clWaiting) \ {t}
    BY <2>1 DEF LocksInv, QueuedOK, Runs
  <2>3. PICK want \in Conditions \cup {AnyCondition} : want = call[t].want
    BY DEF LocksInv, TypeOK
  <2>4. IF Available(want)
        THEN /\ TakeCL(t) /\ clWaiting' = clWaiting /\ Become(t, Guest)
             /\ UNCHANGED blockVars
        ELSE IF FALSE
        THEN /\ clWaiting' = clWaiting /\ Become(t, Guest)
             /\ UNCHANGED <<clLocked, clHolders, blockVars>>
        ELSE /\ clWaiting' = Append(clWaiting, Entry(t, want))
             /\ BlockAndWake({}, IF FALSE THEN {} ELSE {t},
                             IF FALSE THEN {t} ELSE {})
             /\ Become(t, Call(IF FALSE THEN "clLockBefore" ELSE "clLock", want))
             /\ UNCHANGED <<clLocked, clHolders>>
    BY <2>1, <2>3 DEF CLRound
  <2> QED BY <1>0, <2>1, <2>2, <2>3, <2>4, CLRoundInv
<1>2. CASE CLLockBeforeAgain(t)
  <2>1. /\ Runs(t) /\ call[t].kind = "clLockBefore"
        /\ CLRoundBefore(t, call[t].want, Dequeued(t), late[t])
        /\ UNCHANGED <<condition, others, conditionVars>>
    BY <1>2 DEF CLLockBeforeAgain, Resumes, CLRoundBefore
  <2>2. /\ Dequeued(t) \in Seq(Entries) /\ OnceEach(Dequeued(t))
        /\ QueuedIn(Dequeued(t)) = QueuedIn(clWaiting) \ {t}
        /\ \A j \in 1 .. Len(Dequeued(t)) :
              \E k \in 1 .. Len(clWaiting) : Dequeued(t)[j] = clWaiting[k]
    BY <1>0, DequeuedProps
  <2>3. PICK want \in Conditions \cup {AnyCondition} : want = call[t].want
    BY DEF LocksInv, TypeOK
  <2>4. late[t] \in BOOLEAN
    BY DEF LocksInv, TypeOK
  <2>5. IF Available(want)
        THEN /\ TakeCL(t) /\ clWaiting' = Dequeued(t) /\ Become(t, Guest)
             /\ UNCHANGED blockVars
        ELSE IF late[t]
        THEN /\ clWaiting' = Dequeued(t) /\ Become(t, Guest)
             /\ UNCHANGED <<clLocked, clHolders, blockVars>>
        ELSE /\ clWaiting' = Append(Dequeued(t), Entry(t, want))
             /\ BlockAndWake({}, IF TRUE THEN {} ELSE {t},
                             IF TRUE THEN {t} ELSE {})
             /\ Become(t, Call(IF TRUE THEN "clLockBefore" ELSE "clLock", want))
             /\ UNCHANGED <<clLocked, clHolders>>
    BY <2>1, <2>3 DEF CLRoundBefore
  <2> QED BY <2>1, <2>2, <2>3, <2>4, <2>5, CLRoundInv
<1>3. ASSUME NEW want \in Conditions \cup {AnyCondition}, CLLock(t, want)
      PROVE  LocksInv'
  <2>1. /\ Runs(t) /\ call[t] = Guest /\ CLRound(t, want)
        /\ UNCHANGED <<condition, others, conditionVars>>
    BY <1>3 DEF CLLock, MayLockCL, InGuest, CLRound
  <2>2. call[t].kind = "guest" /\ QueuedIn(clWaiting) = QueuedIn(clWaiting) \ {t}
    BY <2>1, GuestQueued
  <2>3. IF Available(want)
        THEN /\ TakeCL(t) /\ clWaiting' = clWaiting /\ Become(t, Guest)
             /\ UNCHANGED blockVars
        ELSE IF FALSE
        THEN /\ clWaiting' = clWaiting /\ Become(t, Guest)
             /\ UNCHANGED <<clLocked, clHolders, blockVars>>
        ELSE /\ clWaiting' = Append(clWaiting, Entry(t, want))
             /\ BlockAndWake({}, IF FALSE THEN {} ELSE {t},
                             IF FALSE THEN {t} ELSE {})
             /\ Become(t, Call(IF FALSE THEN "clLockBefore" ELSE "clLock", want))
             /\ UNCHANGED <<clLocked, clHolders>>
    BY <2>1 DEF CLRound
  <2> QED BY <1>0, <2>1, <2>2, <2>3, CLRoundInv
<1>4. ASSUME NEW want \in Conditions, CLLockBefore(t, want) PROVE LocksInv'
  <2>1. PICK passed \in BOOLEAN : CLRoundBefore(t, want, clWaiting, passed)
    BY <1>4 DEF CLLockBefore
  <2>2. /\ Runs(t) /\ call[t] = Guest
        /\ UNCHANGED <<condition, others, conditionVars>>
    BY <1>4, <2>1 DEF CLLockBefore, MayLockCL, InGuest, CLRoundBefore
  <2>3. call[t].kind = "guest" /\ QueuedIn(clWaiting) = QueuedIn(clWaiting) \ {t}
    BY <2>2, GuestQueued
  <2>4. IF Available(want)
        THEN /\ TakeCL(t) /\ clWaiting' = clWaiting /\ Become(t, Guest)
             /\ UNCHANGED blockVars
        ELSE IF passed
        THEN /\ clWaiting' = clWaiting /\ Become(t, Guest)
             /\ UNCHANGED <<clLocked, clHolders, blockVars>>
        ELSE /\ clWaiting' = Append(clWaiting, Entry(t, want))
             /\ BlockAndWake({}, IF TRUE THEN {} ELSE {t},
                             IF TRUE THEN {t} ELSE {})
             /\ Become(t, Call(IF TRUE THEN "clLockBefore" ELSE "clLock", want))
             /\ UNCHANGED <<clLocked, clHolders>>
    BY <2>1 DEF CLRoundBefore
  <2>5. want \in Conditions \cup {AnyCondition}
    OBVIOUS
  <2> QED BY <1>0, <2>2, <2>3, <2>4, <2>5, CLRoundInv
<1>5. ASSUME NEW want \in Conditions, CLUnlock(t, want) PROVE LocksInv'
  <2>1. /\ t \in clHolders /\ CLUnlockTo(t, want)
        /\ UNCHANGED <<call, late, others, conditionVars>>
    BY <1>5 DEF CLUnlock, Lawful, LawfulGuest
  <2> QED BY <2>1, UnlockInv
<1>6. ASSUME NEW want, CLTryLock(t, want) PROVE LocksInv'
  BY <1>6, TryLockInv
<1> QED BY <1>1, <1>2, <1>3, <1>4, <1>5, <1>6 DEF ConditionLockStep

\* thread_suspend and thread_resume.
LEMMA SuspensionInv ==
    ASSUME LocksInv, LawfulGuest, NEW t \in Threads, NEW u \in Threads,
           ThreadSuspend(t, u) \/ ThreadResume(t, u)
    PROVE  LocksInv'
<1>0. /\ suspended \in [Threads -> Nat] /\ others \in [Threads -> 0 .. MaxSuspensions]
      /\ MaxSuspensions \in Nat /\ BlockOK(u)
  BY FoundationLocksAssumption DEF LocksInv, TypeOK, FoundationLocksAssumption
<1>1. CASE ThreadSuspend(t, u)
  <2>1. /\ call[u] = Guest /\ others[u] < MaxSuspensions
        /\ suspended' = [suspended EXCEPT ![u] = @ + 1]
        /\ others' = [others EXCEPT ![u] = @ + 1]
        /\ UNCHANGED <<asleep, call, late, conditionVars, clVars>>
    BY <1>1 DEF ThreadSuspend, Lawful, LawfulGuest
  <2>2. suspended[u] = others[u]
    BY <1>0, <2>1, CallsTyped DEF BlockOK
  <2>3. others[u] + 1 \in 0 .. MaxSuspensions
    BY <1>0, <2>1
  <2>4. /\ suspended' \in [Threads -> Nat]
        /\ others' \in [Threads -> 0 .. MaxSuspensions]
        /\ suspended'[u] = others'[u]
        /\ \A v \in Threads \ {u} : /\ suspended'[v] = suspended[v]
                                    /\ others'[v] = others[v]
    BY <1>0, <2>1, <2>2, <2>3
  <2> QED BY <2>1, <2>4, SuspendInv
<1>2. CASE ThreadResume(t, u)
  <2>1. /\ others[u] > 0
        /\ suspended' = [suspended EXCEPT ![u] = IF @ > 0 THEN @ - 1 ELSE @]
        /\ others' = [others EXCEPT ![u] = @ - 1]
        /\ UNCHANGED <<asleep, call, late, conditionVars, clVars>>
    BY <1>2 DEF ThreadResume
  <2>2. call[u] = Guest /\ suspended[u] = others[u]
    BY <1>0, <2>1 DEF BlockOK
  <2>3. others[u] - 1 \in 0 .. MaxSuspensions
    BY <1>0, <2>1
  <2>4. /\ suspended' \in [Threads -> Nat]
        /\ others' \in [Threads -> 0 .. MaxSuspensions]
        /\ suspended'[u] = others'[u]
        /\ \A v \in Threads \ {u} : /\ suspended'[v] = suspended[v]
                                    /\ others'[v] = others[v]
    BY <1>0, <2>1, <2>2, <2>3
  <2> QED BY <2>1, <2>2, <2>4, SuspendInv
<1> QED BY <1>1, <1>2

\* Every step preserves the invariant.
LEMMA LocksNext ==
    ASSUME LocksInv, LawfulGuest, [Next]_vars PROVE LocksInv'
<1>1. CASE Next
  <2>1. PICK t \in Threads :
           \/ ConditionStep(t)
           \/ ConditionLockStep(t)
           \/ TimePasses(t)
           \/ \E u \in Threads : ThreadSuspend(t, u) \/ ThreadResume(t, u)
    BY <1>1 DEF Next
  <2> QED BY <2>1, ConditionInv, ConditionLockInv, TimeInv, SuspensionInv
<1>2. CASE UNCHANGED vars
  <2>1. /\ UNCHANGED suspended /\ UNCHANGED asleep /\ UNCHANGED call
        /\ UNCHANGED late /\ UNCHANGED others /\ UNCHANGED condition
        /\ UNCHANGED clLocked /\ UNCHANGED clHolders /\ UNCHANGED clWaiting
        /\ UNCHANGED locked /\ UNCHANGED lockWaiting
        /\ UNCHANGED waiting /\ UNCHANGED holders
    BY <1>2 DEF vars, blockVars, clVars, conditionVars
  <2>2. TypeOK' /\ Excludes' /\ QueuesOK' /\ WantsOK'
    BY <2>1 DEF LocksInv, TypeOK, Excludes, QueuesOK, WantsOK
  <2>3. \A u \in Threads : BlockOK(u)' /\ QueuedOK(u)'
    BY <2>1 DEF LocksInv, BlockOK, QueuedOK
  <2>4. Promised'
    BY <2>1 DEF LocksInv, Promised, WokenForLock, WokenForCL, Available
  <2> QED BY <2>2, <2>3, <2>4 DEF LocksInv
<1> QED BY <1>1, <1>2

-----------------------------------------------------------------------------
(***************************************************************************)
(* What the invariant says of the locks.                                   *)
(***************************************************************************)
\* A set without two different elements has at most one.
LEMMA AtMostOne ==
    ASSUME NEW S, \A x, y \in S : x = y PROVE Cardinality(S) <= 1
<1>1. CASE S = {}
  BY <1>1, FS_EmptySet
<1>2. CASE S # {}
  <2>1. PICK x \in S : TRUE
    BY <1>2
  <2>2. S = {x}
    BY <2>1
  <2> QED BY <2>2, FS_Singleton
<1> QED BY <1>1, <1>2

\* A queue in which every thread occurs once has as many threads as entries.
LEMMA OnceEachCounts ==
    ASSUME NEW q \in Seq(Entries), OnceEach(q)
    PROVE  Cardinality(QueuedIn(q)) = Len(q)
<1> DEFINE f == [i \in 1 .. Len(q) |-> q[i].thread]
<1>1. Len(q) \in Nat
  OBVIOUS
<1>2. f \in Injection(1 .. Len(q), QueuedIn(q))
  BY DEF OnceEach, QueuedIn, Injection, IsInjective
<1>3. f \in Surjection(1 .. Len(q), QueuedIn(q))
  BY DEF QueuedIn, Surjection
<1>4. ExistsBijection(1 .. Len(q), QueuedIn(q))
  BY <1>2, <1>3 DEF ExistsBijection, Bijection
<1> QED BY <1>1, <1>4, FS_CountingElements

\* What the invariant says of the suspensions of a thread.
LEMMA OwnSuspended ==
    ASSUME LocksInv, NEW t \in Threads
    PROVE  /\ OwnSuspensions(t) = IF call[t].kind = "guest" THEN 0 ELSE suspended[t]
           /\ OwnSuspensions(t) \in {0, 1}
           /\ suspended[t] >= others[t]
<1>1. suspended[t] \in Nat /\ others[t] \in Nat
  BY FoundationLocksAssumption DEF LocksInv, TypeOK, FoundationLocksAssumption
<1> QED BY <1>1 DEF LocksInv, BlockOK, OwnSuspensions

LEMMA ExactFromInv == ASSUME LocksInv PROVE QueuesExact
<1>1. TypeOK /\ Distinct(lockWaiting) /\ Distinct(waiting)
  BY DEF LocksInv, QueuesOK
<1>2. Cardinality(CLQueued) = Len(clWaiting)
  BY <1>1, OnceEachCounts DEF LocksInv, QueuesOK, TypeOK, Entries, CLQueued, QueuedIn
<1>3. ASSUME NEW t \in Threads
      PROVE  LET self == OwnSuspensions(t) = 1
                 kind == call[t].kind
             IN /\ OwnSuspensions(t) \in {0, 1}
                /\ self => kind \in {"lock", "wait", "clLock"}
                /\ t \in Elems(lockWaiting) <=> self /\ kind = "lock"
                /\ t \in Elems(waiting) => kind \in {"wait", "waitUntilDate"}
                /\ t \in CLQueued => kind \in {"clLock", "clLockBefore"}
                /\ kind = "wait" => (t \in Elems(waiting) <=> self)
                /\ kind = "clLock" => (t \in CLQueued <=> self)
                /\ asleep[t] => t \in Elems(waiting) \cup CLQueued
  <2>1. BlockOK(t) /\ QueuedOK(t)
    BY DEF LocksInv
  <2>2. CLQueued = QueuedIn(clWaiting)
    BY DEF CLQueued, QueuedIn
  <2>3. call[t].kind # "guest" => (OwnSuspensions(t) = 1 <=> suspended[t] = 1)
    BY OwnSuspended
  <2>4. call[t].kind = "guest" => OwnSuspensions(t) = 0
    BY OwnSuspended
  <2> QED BY <2>1, <2>2, <2>3, <2>4, OwnSuspended DEF BlockOK, QueuedOK
<1> QED BY <1>1, <1>2, <1>3 DEF QueuesExact

LEMMA NotLostFromInv == ASSUME LocksInv PROVE NoWakeupLost
<1>1. ASSUME NEW t \in Threads, suspended[t] = 0, ~ asleep[t] PROVE IsWoken(t)
  BY <1>1, OwnSuspended DEF IsWoken
<1>2. ASSUME ~ locked, lockWaiting # <<>>
      PROVE  \E t \in Threads :
                IsWoken(t) /\ call[t].kind \in {"lock", "wait", "waitUntilDate"}
  <2>1. PICK t \in Threads : WokenForLock(t)
    BY <1>2 DEF LocksInv, Promised
  <2> QED BY <1>1, <2>1 DEF WokenForLock
<1>3. ASSUME NEW i \in 1 .. Len(clWaiting), Available(clWaiting[i].want)
      PROVE  \E t \in Threads : /\ IsWoken(t)
                                /\ call[t].kind \in {"clLock", "clLockBefore"}
                                /\ Available(call[t].want)
  <2>1. PICK t \in Threads : WokenForCL(t)
    BY <1>3 DEF LocksInv, Promised
  <2> QED BY <1>1, <2>1 DEF WokenForCL
<1> QED BY <1>2, <1>3 DEF NoWakeupLost

LEMMA LocksInvariant == ASSUME LawfulGuest PROVE Spec => []LocksInv
<1>1. Init => LocksInv
  BY LocksInit
<1>2. LocksInv /\ [Next]_vars => LocksInv'
  BY LocksNext
<1> QED BY <1>1, <1>2, PTL DEF Spec

\* NSCondition and NSConditionLock exclude: at most one thread has come back
\* from a lock or a wait and not unlocked, whoever was woken or timed out.
THEOREM LocksExclude == ASSUME LawfulGuest PROVE Spec => []MutualExclusion
<1>1. LocksInv => MutualExclusion
  BY AtMostOne DEF LocksInv, Excludes, MutualExclusion
<1> QED BY <1>1, LocksInvariant, PTL

\* A thread is queued exactly while it is suspended or asleep in the call that
\* queued it: nobody who left a queue is woken, or suspended, in error.
THEOREM LockQueuesExact == ASSUME LawfulGuest PROVE Spec => []QueuesExact
<1>1. LocksInv => QueuesExact
  BY ExactFromInv
<1> QED BY <1>1, LocksInvariant, PTL

\* While an object is free and a thread that could lock it is queued, another
\* one that could lock it has been woken and will look at it.
THEOREM LockWakeups == ASSUME LawfulGuest PROVE Spec => []NoWakeupLost
<1>1. LocksInv => NoWakeupLost
  BY NotLostFromInv
<1> QED BY <1>1, LocksInvariant, PTL

\* A thread that others suspended does not run before they resume it, if they
\* suspend none that is in a call of these classes: a wakeup sets the block of
\* the thread without a look at who else suspended it.
THEOREM LockSuspensions == ASSUME LawfulGuest PROVE Spec => []SuspensionHolds
<1>1. LocksInv => SuspensionHolds
  BY OwnSuspended DEF SuspensionHolds
<1> QED BY <1>1, LocksInvariant, PTL
=============================================================================
