-------------------------- MODULE ReferenceProofs --------------------------
(***************************************************************************)
(* The same threads: the values of properties have the references of their *)
(* holders, and none of timers, observers and values is released once too  *)
(* often; classes are initialized and loaded after their superclasses; and *)
(* every variable has its type.                                            *)
(***************************************************************************)
EXTENDS EventProofs

-----------------------------------------------------------------------------
(***************************************************************************)
(* Setters of properties.  Two of one object are in progress in two        *)
(* threads only if both wait for its lock or have it, and a setter that    *)
(* another call was made from is in the guest's code.                      *)
(***************************************************************************)

\* A setter whose stage is in S and whose field f is x; where such calls are in
\* progress.
Setting(c, S, f, x) == c.kind = "set" /\ c.stage \in S /\ c[f] = x
SettingAt(S, f, x) == {p \in Threads \X (1 .. MaxCalls) :
                           /\ p[2] <= Len(calls[p[1]])
                           /\ Setting(calls[p[1]][p[2]], S, f, x)}

\* They are the places of some calls, before a step and after it.
LEMMA SettingSet ==
    ASSUME CallsFormed, CallsFormed', NEW S, NEW f, NEW x
    PROVE  \E B : /\ SettingAt(S, f, x) = PlacesOf(B) /\ SettingAt(S, f, x)' = PlacesOf(B)'
                  /\ \A c : c \in B <=> c \in AllCalls \cup AllCalls' /\ Setting(c, S, f, x)
<1>1. PICK B : B = {c \in AllCalls \cup AllCalls' : Setting(c, S, f, x)}
  OBVIOUS
<1>2. \A u \in Threads : Len(calls[u]) \in Nat /\ Len(calls'[u]) \in Nat
  BY DEF CallsFormed
<1>3. ASSUME NEW p \in Threads \X (1 .. MaxCalls)
      PROVE  /\ p[2] <= Len(calls[p[1]]) => calls[p[1]][p[2]] \in AllCalls
             /\ p[2] <= Len(calls'[p[1]]) => calls'[p[1]][p[2]] \in AllCalls'
  <2>1. PICK u \in Threads, i \in 1 .. MaxCalls : p = <<u, i>>
    OBVIOUS
  <2>2. /\ i <= Len(calls[u]) => i \in 1 .. Len(calls[u])
        /\ i <= Len(calls'[u]) => i \in 1 .. Len(calls'[u])
    BY <1>2, CallsAssumption
  <2>3. i <= Len(calls[u]) => calls[u][i] \in AllCalls
    BY <2>2, InCalls
  <2>4. i <= Len(calls'[u]) => calls'[u][i] \in AllCalls'
    BY <2>2, InNextCalls
  <2> QED BY <2>1, <2>3, <2>4
<1>4. SettingAt(S, f, x) = PlacesOf(B)
  BY <1>1, <1>3 DEF SettingAt, PlacesOf
<1>5. \A c : Setting(c, S, f, x)' <=> Setting(c, S, f, x)
  BY DEF Setting
<1>6. SettingAt(S, f, x)' = PlacesOf(B)'
  BY <1>1, <1>3, <1>5 DEF SettingAt, PlacesOf
<1> QED BY <1>1, <1>4, <1>6

\* How their number follows the innermost call of a thread.
LEMMA SettingEnter ==
    ASSUME CallsFormed, CallsFormed', NEW th \in Threads, NEW c, Enter(th, c),
           Len(calls[th]) < MaxCalls,
           NEW S, NEW f, NEW x, IsFiniteSet(SettingAt(S, f, x))
    PROVE  /\ IsFiniteSet(SettingAt(S, f, x)') /\ Cardinality(SettingAt(S, f, x)) \in Nat
           /\ Cardinality(SettingAt(S, f, x)')
              = Cardinality(SettingAt(S, f, x)) + One(Setting(c, S, f, x))
<1>1. PICK B : /\ SettingAt(S, f, x) = PlacesOf(B) /\ SettingAt(S, f, x)' = PlacesOf(B)'
               /\ \A d : d \in B <=> d \in AllCalls \cup AllCalls' /\ Setting(d, S, f, x)
  BY SettingSet
<1>2. c \in AllCalls'
  BY CallsStay
<1>3. One(c \in B) = One(Setting(c, S, f, x))
  BY <1>1, <1>2 DEF One
<1> QED BY <1>1, <1>3, PlacesEnter

\* A setter goes on to its next stage.
LEMMA SettingContinue ==
    ASSUME CallsFormed, CallsFormed', Shallow({"set"}), NEW th \in Threads,
           calls[th] # <<>>, Top(th).kind = "set", NEW c, Continue(th, c),
           NEW S, NEW f, NEW x, IsFiniteSet(SettingAt(S, f, x))
    PROVE  /\ IsFiniteSet(SettingAt(S, f, x)') /\ Cardinality(SettingAt(S, f, x)) \in Nat
           /\ Cardinality(SettingAt(S, f, x)')
              = Cardinality(SettingAt(S, f, x)) - One(Setting(Top(th), S, f, x))
                                                + One(Setting(c, S, f, x))
<1>1. PICK B : /\ SettingAt(S, f, x) = PlacesOf(B) /\ SettingAt(S, f, x)' = PlacesOf(B)'
               /\ \A d : d \in B <=> d \in AllCalls \cup AllCalls' /\ Setting(d, S, f, x)
  BY SettingSet
<1>2. c \in AllCalls' /\ Top(th) \in AllCalls
  BY CallsStay
<1>3. One(c \in B) = One(Setting(c, S, f, x)) /\ One(Top(th) \in B) = One(Setting(Top(th), S, f, x))
  BY <1>1, <1>2 DEF One
<1>4. Len(calls[th]) <= MaxCalls
  BY TopShallow
<1> QED BY <1>1, <1>3, <1>4, PlacesContinue

\* A setter returns.
LEMMA SettingLeave ==
    ASSUME CallsFormed, CallsFormed', Shallow({"set"}), NEW th \in Threads,
           calls[th] # <<>>, Top(th).kind = "set", Leave(th),
           NEW S, NEW f, NEW x, IsFiniteSet(SettingAt(S, f, x))
    PROVE  /\ IsFiniteSet(SettingAt(S, f, x)') /\ Cardinality(SettingAt(S, f, x)) \in Nat
           /\ Cardinality(SettingAt(S, f, x)')
              = Cardinality(SettingAt(S, f, x)) - One(Setting(Top(th), S, f, x))
<1>1. PICK B : /\ SettingAt(S, f, x) = PlacesOf(B) /\ SettingAt(S, f, x)' = PlacesOf(B)'
               /\ \A d : d \in B <=> d \in AllCalls \cup AllCalls' /\ Setting(d, S, f, x)
  BY SettingSet
<1>2. Top(th) \in AllCalls
  BY CallsStay
<1>3. One(Top(th) \in B) = One(Setting(Top(th), S, f, x))
  BY <1>1, <1>2 DEF One
<1>4. Len(calls[th]) <= MaxCalls
  BY TopShallow
<1> QED BY <1>1, <1>3, <1>4, PlacesLeave

\* Steps of the other modules begin and end no setter.
LEMMA SettingSame ==
    ASSUME CallsFormed, CallsFormed', NEW K, Step(K), "set" \notin K, NEW S, NEW f, NEW x
    PROVE  SettingAt(S, f, x)' = SettingAt(S, f, x)
<1>1. PICK B : /\ SettingAt(S, f, x) = PlacesOf(B) /\ SettingAt(S, f, x)' = PlacesOf(B)'
               /\ \A d : d \in B <=> d \in AllCalls \cup AllCalls' /\ Setting(d, S, f, x)
  BY SettingSet
<1>2. \A c \in B : c.kind \notin K
  BY <1>1 DEF Setting
<1> QED BY <1>1, <1>2, SamePlaces

\* What begins and ends blocks and getters leaves the setters alone.
BesideSetters(th) == \/ BlockCalls(th) \/ SyncEntered(th) \/ GetterLocked(th)
                     \/ \E o \in Objects : GetProperty(th, o)

\* They leave the setters where they are, with all that these keep.
LEMMA BesideMoves ==
    ASSUME CallsFormed, NEW th \in Threads, BesideSetters(th)
    PROVE  Step({"sync", "get"})
<1>1. \A o, m : Of(EnterCall(o, m), {"sync", "get"}) /\ Of(GetCall(m), {"sync", "get"})
  BY DEF Of, Formed, EnterCall, GetCall
<1>2. CASE BlockCalls(th)
  BY <1>1, <1>2 DEF BlockCalls, ObjcSyncEnter, ObjcSyncExit, Moves, GuestRuns, Step
<1>3. CASE SyncEntered(th) \/ GetterLocked(th)
  BY <1>3 DEF SyncEntered, GetterLocked, At, Replaces, Moves, Step
<1>4. ASSUME NEW o, GetProperty(th, o) PROVE Step({"sync", "get"})
  <2>1. UNCHANGED calls \/ (InGuest(th) /\ \E m : Enter(th, GetCall(m)))
    BY <1>4 DEF GetProperty, CanCall, GuestRuns
  <2> QED BY <1>1, <2>1 DEF Moves, Step
<1> QED BY <1>2, <1>3, <1>4 DEF BesideSetters

\* The steps, as far as properties are concerned.
LEMMA PropertySteps ==
    ASSUME CallsFormed, [Next]_vars
    PROVE  \/ \E th \in Threads, o \in Objects, v \in Values \cup {NoValue},
                 copy \in BOOLEAN, atomic \in BOOLEAN : SetProperty(th, o, v, copy, atomic)
           \/ \E th \in Threads : \/ SetterLocked(th) \/ ReadOld(th) \/ Store(th) \/ EndSet(th)
                                  \/ EndDealloc(th) \/ \E v \in Values : EndCopy(th, v)
           \/ \E th \in Threads, v \in Values : NewValue(th, v) \/ ReleaseValue(th, v)
           \/ \E th \in Threads : BesideSetters(th)
           \/ UNCHANGED syncVars /\ \E K : Step(K) /\ K \cap LockKinds = {}
<1>1. CASE Step(LoopKinds) /\ OnLoop
  BY <1>1 DEF OnLoop, LoopKinds, LockKinds
<1>2. CASE Step(CenterKinds) /\ OnCenter
  BY <1>2 DEF OnCenter, CenterKinds, LockKinds
<1>3. ASSUME OnOperations, NEW th \in Threads,
             OperationCalls(th) \/ EndStart(th) \/ EndMain(th) \/ EndCompletion(th)
      PROVE  UNCHANGED syncVars /\ \E K : Step(K) /\ K \cap LockKinds = {}
  <2>1. Step(OpKinds)
    BY <1>3, OpMoves DEF Step
  <2> QED BY <1>3, <2>1 DEF OnOperations, OpKinds, LockKinds
<1>4. ASSUME OnDispatch, NEW th \in Threads, DispatchCalls(th) \/ EndBlock(th) \/ EndOnce(th)
      PROVE  UNCHANGED syncVars /\ \E K : Step(K) /\ K \cap LockKinds = {}
  <2>1. Step(BlockKinds)
    BY <1>4, BlockMoves DEF Step
  <2> QED BY <1>4, <2>1 DEF OnDispatch, BlockKinds, LockKinds
<1>5. ASSUME OnClasses, NEW th \in Threads,
             MessageCalls(th) \/ BeginLoads(th) \/ MessageHost(th) \/ EndSend(th)
      PROVE  UNCHANGED syncVars /\ \E K : Step(K) /\ K \cap LockKinds = {}
  <2>1. Step(ClassKinds)
    BY <1>5, ClassMoves DEF Step
  <2> QED BY <1>5, <2>1 DEF OnClasses, ClassKinds, LockKinds
<1>6. CASE UNCHANGED vars
  <2>1. Step({})
    BY <1>6 DEF vars, Step
  <2> QED BY <1>6, <2>1 DEF vars
<1>7. ASSUME NEW th \in Threads,
             \/ BlockCalls(th) \/ PropertyCalls(th)
             \/ SynchronizedHost(th) \/ SynchronizedReturns(th)
      PROVE  \/ \E o \in Objects, v \in Values \cup {NoValue},
                   copy \in BOOLEAN, atomic \in BOOLEAN : SetProperty(th, o, v, copy, atomic)
             \/ SetterLocked(th) \/ ReadOld(th) \/ Store(th) \/ EndSet(th)
             \/ EndDealloc(th) \/ \E v \in Values : EndCopy(th, v)
             \/ \E v \in Values : NewValue(th, v) \/ ReleaseValue(th, v)
             \/ BesideSetters(th)
  BY <1>7 DEF PropertyCalls, SynchronizedHost, SynchronizedReturns, BesideSetters
<1> QED BY <1>1, <1>2, <1>3, <1>4, <1>5, <1>6, <1>7, Steps

\* The guest sets no property of an object whose value it is copying for the
\* same property, and properties that are not atomic in one thread at a time.
LawfulSets == {"set_in_copy", "nonatomic_in_threads"} \cap Misuse = {}

\* The stages of a setter that has the lock of its property, if it is atomic.
Locked == {"read", "copy", "store", "dealloc", "end"}

SetSound(c) ==
    c.kind = "set" =>
        /\ c.object \in Objects /\ c.value \in Values \cup {NoValue}
        /\ c.stage \in {"sleep"} \cup Locked
        /\ c.stage = "sleep" => c.mutex # NoMutex

\* A setter that another call was made from is in the guest's code.
Below ==
    \A th \in Threads : \A i \in 1 .. Len(calls[th]) :
        calls[th][i].kind = "set" /\ i # Len(calls[th]) => calls[th][i].stage \in GuestStages

\* Setters of one object in two threads have the lock of its property.
Alone ==
    \A th, u \in Threads : \A i \in 1 .. Len(calls[th]) : \A j \in 1 .. Len(calls[u]) :
        /\ th # u
        /\ calls[th][i].kind = "set" /\ calls[u][j].kind = "set"
        /\ calls[th][i].object = calls[u][j].object
        => calls[th][i].mutex # NoMutex

\* No setter of an object runs while a value is copied for another, further
\* down in the same thread.
NotInCopy ==
    \A th \in Threads : \A i, j \in 1 .. Len(calls[th]) :
        /\ i < j
        /\ calls[th][i].kind = "set" /\ calls[th][j].kind = "set"
        /\ calls[th][i].object = calls[th][j].object
        => calls[th][i].stage # "copy"

SettersInv ==
    /\ \A c \in AllCalls : SetSound(c)
    /\ Shallow({"set"})
    /\ Below
    /\ Alone
    /\ NotInCopy

\* A call that the guest may make.
MayBegin(th, c) ==
    /\ c.kind = "set" /\ SetSound(c) /\ InGuest(th) /\ Len(calls[th]) < MaxCalls
    /\ \A d \in Setters(th, c.object) : d.stage # "copy"
    /\ \A u \in Threads \ {th} : \A d \in Setters(u, c.object) :
           c.mutex # NoMutex /\ d.mutex # NoMutex

\* A setter that goes on.
GoesOn(th, c) ==
    /\ c.kind = "set" /\ SetSound(c) /\ c.stage \in Locked
    /\ c.object = Top(th).object /\ c.mutex = Top(th).mutex

\* The steps of the setters.
LEMMA SetterBegins ==
    ASSUME LawfulSets, SyncInv, NEW th \in Threads, NEW o \in Objects,
           NEW v \in Values \cup {NoValue}, NEW copy \in BOOLEAN, NEW atomic \in BOOLEAN,
           SetProperty(th, o, v, copy, atomic)
    PROVE  \E m, stage : /\ Enter(th, SetCall(o, v, copy, m, stage))
                         /\ MayBegin(th, SetCall(o, v, copy, m, stage))
<1>1. /\ CanCall(th) /\ "set_in_copy" \notin Misuse /\ "nonatomic_in_threads" \notin Misuse
      /\ \A c \in Setters(th, o) : c.stage # "copy"
      /\ ~ atomic => \A u \in Threads \ {th} : Setters(u, o) = {}
      /\ \A u \in Threads \ {th} : \A c \in Setters(u, o) : c.mutex # NoMutex
  BY DEF SetProperty, Lawful, LawfulSets
<1>2. InGuest(th) /\ Len(calls[th]) < MaxCalls
  BY <1>1 DEF CanCall, GuestRuns
<1>3. PICK m : m = MutexOf(propLocks, o)
  OBVIOUS
<1>4. m # NoMutex
  <2>1. m \in Mutexes
    BY <1>3, MutexFound DEF SyncInv
  <2> QED BY <2>1, SynchronizedAssumption
<1>5. CASE atomic
  <2>1. \E stage \in {"read", "sleep"} : Enter(th, SetCall(o, v, copy, m, stage))
    BY <1>3, <1>5 DEF SetProperty
  <2>2. \A stage \in {"read", "sleep"} : MayBegin(th, SetCall(o, v, copy, m, stage))
    BY <1>1, <1>2, <1>4 DEF MayBegin, SetCall, SetSound, Locked
  <2> QED BY <2>1, <2>2
<1>6. CASE ~ atomic
  <2>1. Enter(th, SetCall(o, v, copy, NoMutex, "read"))
    BY <1>6 DEF SetProperty
  <2>2. MayBegin(th, SetCall(o, v, copy, NoMutex, "read"))
    BY <1>1, <1>2, <1>6 DEF MayBegin, SetCall, SetSound, Locked
  <2> QED BY <2>1, <2>2
<1> QED BY <1>5, <1>6

\* The innermost call of a thread in which a setter runs.
LEMMA SetterTop ==
    ASSUME CallsFormed, SettersInv, NEW th \in Threads, NEW stage, At(th, "set", stage)
    PROVE  /\ calls[th] # <<>> /\ Top(th).kind = "set" /\ Top(th).stage = stage
           /\ {"kind", "stage", "object", "value", "copy", "mutex", "old"} \subseteq DOMAIN Top(th)
           /\ Top(th) \in AllCalls /\ SetSound(Top(th))
<1>1. calls[th] # <<>> /\ Top(th).kind = "set" /\ Top(th).stage = stage
  BY DEF At
<1>2. {"kind", "stage", "object", "value", "copy", "mutex", "old"} \subseteq DOMAIN Top(th)
  BY <1>1, TopFormed DEF Formed
<1>3. Top(th) \in AllCalls
  BY <1>1, TopInCalls
<1> QED BY <1>1, <1>2, <1>3 DEF SettersInv

\* A setter goes on, and stays sound.
LEMMA SetterGoesOn ==
    ASSUME CallsFormed, SettersInv, NEW th \in Threads,
           \/ SetterLocked(th) \/ ReadOld(th) \/ Store(th) \/ EndDealloc(th)
           \/ \E v \in Values : EndCopy(th, v)
    PROVE  /\ calls[th] # <<>> /\ Top(th).kind = "set"
           /\ \E c : Continue(th, c) /\ GoesOn(th, c)
<1>1. ASSUME NEW stage, At(th, "set", stage)
      PROVE  /\ calls[th] # <<>> /\ Top(th).kind = "set"
             /\ \A s \in Locked : GoesOn(th, [Top(th) EXCEPT !.stage = s])
             /\ \A w : \A s \in Locked : GoesOn(th, [[Top(th) EXCEPT !.old = w] EXCEPT !.stage = s])
             /\ \A v \in Values : \A s \in Locked :
                    GoesOn(th, [Top(th) EXCEPT !.stage = s, !.value = v])
  <2>1. /\ calls[th] # <<>> /\ Top(th).kind = "set"
        /\ {"kind", "stage", "object", "value", "copy", "mutex", "old"} \subseteq DOMAIN Top(th)
        /\ SetSound(Top(th))
    BY <1>1, SetterTop
  <2>2. "sleep" \notin Locked
    BY DEF Locked
  <2> QED BY <2>1, <2>2 DEF GoesOn, SetSound
<1> USE DEF Locked
<1>2. CASE SetterLocked(th)
  BY <1>1, <1>2 DEF SetterLocked
<1>3. CASE ReadOld(th)
  BY <1>1, <1>3 DEF ReadOld
<1>4. CASE Store(th)
  BY <1>1, <1>4 DEF Store
<1>5. CASE EndDealloc(th)
  BY <1>1, <1>5 DEF EndDealloc
<1>6. ASSUME NEW v \in Values, EndCopy(th, v)
      PROVE  /\ calls[th] # <<>> /\ Top(th).kind = "set"
             /\ \E c : Continue(th, c) /\ GoesOn(th, c)
  BY <1>1, <1>6 DEF EndCopy
<1> QED BY <1>2, <1>3, <1>4, <1>5, <1>6

\* Whatever a step of the setters changes is at one place at the top.
LEMMA OrderElsewhere ==
    ASSUME CallsFormed, CallsFormed', Alone, NotInCopy, NEW th \in Threads, NEW n,
           Elsewhere(th, n), \A i \in 1 .. Len(calls'[th]) : i <= n,
           NEW c, n \in 1 .. Len(calls'[th]) => calls'[th][n] = c,
           \A j \in 1 .. Len(calls[th]) :
               /\ n \in 1 .. Len(calls'[th]) /\ j < n
               /\ c.kind = "set" /\ calls[th][j].kind = "set" /\ calls[th][j].object = c.object
               => calls[th][j].stage # "copy",
           \A u \in Threads \ {th} : \A j \in 1 .. Len(calls[u]) :
               /\ n \in 1 .. Len(calls'[th])
               /\ c.kind = "set" /\ calls[u][j].kind = "set" /\ calls[u][j].object = c.object
               => c.mutex # NoMutex /\ calls[u][j].mutex # NoMutex
    PROVE  Alone' /\ NotInCopy'
<1>1. \A u \in Threads : \A i \in 1 .. Len(calls'[u]) :
          (u = th /\ i = n) \/ (i \in 1 .. Len(calls[u]) /\ calls'[u][i] = calls[u][i])
  <2>1. \A u \in Threads : \A i \in 1 .. Len(calls'[u]) : i \in Nat
    BY DEF CallsFormed
  <2> QED BY <2>1 DEF Elsewhere
<1>2. ASSUME NEW u \in Threads, NEW v \in Threads, u # v,
             NEW i \in 1 .. Len(calls'[u]), NEW j \in 1 .. Len(calls'[v]),
             calls'[u][i].kind = "set", calls'[v][j].kind = "set",
             calls'[u][i].object = calls'[v][j].object
      PROVE  calls'[u][i].mutex # NoMutex
  <2>1. CASE u = th /\ i = n
    <3>1. v \in Threads \ {th} /\ j \in 1 .. Len(calls[v]) /\ calls'[v][j] = calls[v][j]
      BY <1>1, <1>2, <2>1
    <3> QED BY <1>2, <2>1, <3>1
  <2>2. CASE v = th /\ j = n
    <3>1. u \in Threads \ {th} /\ i \in 1 .. Len(calls[u]) /\ calls'[u][i] = calls[u][i]
      BY <1>1, <1>2, <2>2
    <3> QED BY <1>2, <2>2, <3>1
  <2>3. CASE ~ (u = th /\ i = n) /\ ~ (v = th /\ j = n)
    <3>1. /\ i \in 1 .. Len(calls[u]) /\ calls'[u][i] = calls[u][i]
          /\ j \in 1 .. Len(calls[v]) /\ calls'[v][j] = calls[v][j]
      BY <1>1, <2>3
    <3> QED BY <1>2, <3>1 DEF Alone
  <2> QED BY <2>1, <2>2, <2>3
<1>3. ASSUME NEW u \in Threads, NEW i \in 1 .. Len(calls'[u]), NEW j \in 1 .. Len(calls'[u]), i < j,
             calls'[u][i].kind = "set", calls'[u][j].kind = "set",
             calls'[u][i].object = calls'[u][j].object
      PROVE  calls'[u][i].stage # "copy"
  <2>0. i \in Nat /\ j \in Nat
    BY DEF CallsFormed
  <2>1. ~ (u = th /\ i = n)
    BY <1>3, <2>0
  <2>2. i \in 1 .. Len(calls[u]) /\ calls'[u][i] = calls[u][i]
    BY <1>1, <2>1
  <2>3. CASE u = th /\ j = n
    BY <1>3, <2>2, <2>3
  <2>4. CASE ~ (u = th /\ j = n)
    <3>1. j \in 1 .. Len(calls[u]) /\ calls'[u][j] = calls[u][j]
      BY <1>1, <2>4
    <3> QED BY <1>3, <2>2, <3>1 DEF NotInCopy
  <2> QED BY <2>3, <2>4
<1> QED BY <1>2, <1>3 DEF Alone, NotInCopy

\* A call is among the setters of its object.
LEMMA AmongSetters ==
    ASSUME CallsFormed, NEW u \in Threads, NEW j \in 1 .. Len(calls[u]),
           calls[u][j].kind = "set"
    PROVE  calls[u][j] \in Setters(u, calls[u][j].object)
<1>1. PICK S : calls \in [Threads -> Seq(S)]
  BY DEF CallsFormed
<1>2. DOMAIN calls[u] = 1 .. Len(calls[u])
  BY <1>1
<1> QED BY <1>2 DEF Setters, Range

\* The setters of an object keep their order.
LEMMA SettersOrdered ==
    ASSUME CallsFormed, CallsFormed', SettersInv, NEW th \in Threads, NEW c,
           \/ Enter(th, c) /\ MayBegin(th, c)
           \/ calls[th] # <<>> /\ Top(th).kind = "set" /\ Continue(th, c) /\ GoesOn(th, c)
           \/ calls[th] # <<>> /\ Leave(th)
    PROVE  Alone' /\ NotInCopy'
<1>0. Alone /\ NotInCopy
  BY DEF SettersInv
<1>1. CASE Enter(th, c) /\ MayBegin(th, c)
  <2> DEFINE n == Len(calls[th]) + 1
  <2>1. /\ Elsewhere(th, n) /\ calls'[th][n] = c
        /\ \A i \in 1 .. Len(calls'[th]) : i <= n
    BY <1>1, TopElsewhere, AtTheTop
  <2> HIDE DEF n
  <2>2. \A j \in 1 .. Len(calls[th]) :
            calls[th][j].kind = "set" /\ calls[th][j].object = c.object => calls[th][j].stage # "copy"
    BY <1>1, AmongSetters DEF MayBegin
  <2>3. \A u \in Threads \ {th} : \A j \in 1 .. Len(calls[u]) :
            calls[u][j].kind = "set" /\ calls[u][j].object = c.object
            => c.mutex # NoMutex /\ calls[u][j].mutex # NoMutex
    BY <1>1, AmongSetters DEF MayBegin
  <2> QED BY <1>0, <2>1, <2>2, <2>3, OrderElsewhere
<1>2. CASE calls[th] # <<>> /\ Top(th).kind = "set" /\ Continue(th, c) /\ GoesOn(th, c)
  <2> DEFINE n == Len(calls[th])
  <2>1. /\ Elsewhere(th, n) /\ calls'[th][n] = c
        /\ \A i \in 1 .. Len(calls'[th]) : i <= n
    BY <1>2, TopElsewhere, AtTheTop
  <2>2. n \in Nat \ {0} /\ Top(th) = calls[th][n]
    BY <1>2, Stacks DEF CallsFormed
  <2>3. n \in 1 .. Len(calls[th])
    BY <2>2
  <2> HIDE DEF n
  <2>4. \A j \in 1 .. Len(calls[th]) :
            j < n /\ calls[th][j].kind = "set" /\ calls[th][j].object = c.object
            => calls[th][j].stage # "copy"
    BY <1>0, <1>2, <2>2, <2>3 DEF NotInCopy, GoesOn
  <2>5. \A u \in Threads \ {th} : \A j \in 1 .. Len(calls[u]) :
            calls[u][j].kind = "set" /\ calls[u][j].object = c.object
            => c.mutex # NoMutex /\ calls[u][j].mutex # NoMutex
    <3>1. /\ calls[th][n].kind = "set" /\ calls[th][n].object = c.object
          /\ calls[th][n].mutex = c.mutex
      BY <1>2, <2>2 DEF GoesOn
    <3>2. ASSUME NEW u \in Threads \ {th}, NEW j \in 1 .. Len(calls[u]),
                 calls[u][j].kind = "set", calls[u][j].object = c.object
          PROVE  calls[th][n].mutex # NoMutex /\ calls[u][j].mutex # NoMutex
      BY <1>0, <2>3, <3>1, <3>2 DEF Alone
    <3> QED BY <3>1, <3>2
  <2>6. n \in 1 .. Len(calls'[th]) => calls'[th][n] = c
    BY <2>1
  <2>7. Elsewhere(th, n) /\ \A i \in 1 .. Len(calls'[th]) : i <= n
    BY <2>1
  <2>8. \A j \in 1 .. Len(calls[th]) :
               /\ n \in 1 .. Len(calls'[th]) /\ j < n
               /\ c.kind = "set" /\ calls[th][j].kind = "set" /\ calls[th][j].object = c.object
               => calls[th][j].stage # "copy"
    BY <2>4
  <2>9. \A u \in Threads \ {th} : \A j \in 1 .. Len(calls[u]) :
               /\ n \in 1 .. Len(calls'[th])
               /\ c.kind = "set" /\ calls[u][j].kind = "set" /\ calls[u][j].object = c.object
               => c.mutex # NoMutex /\ calls[u][j].mutex # NoMutex
    BY <2>5
  <2> QED BY ONLY CallsFormed, CallsFormed', <1>0, <2>6, <2>7, <2>8, <2>9, OrderElsewhere
<1>3. CASE calls[th] # <<>> /\ Leave(th)
  <2> DEFINE n == Len(calls[th])
  <2>1. /\ Elsewhere(th, n) /\ n \notin 1 .. Len(calls'[th])
        /\ \A i \in 1 .. Len(calls'[th]) : i <= n
    BY <1>3, TopElsewhere, AtTheTop
  <2> HIDE DEF n
  <2> QED BY <1>0, <2>1, OrderElsewhere
<1> QED BY <1>1, <1>2, <1>3

\* A thread makes calls from guest code only.
LEMMA BelowStays ==
    ASSUME CallsFormed, CallsFormed', SettersInv, NEW th \in Threads, NEW K, Moves(th, K)
    PROVE  Below'
<1>1. PICK S : calls \in [Threads -> Seq(S)]
  BY DEF CallsFormed
<1>2. Below
  BY DEF SettersInv
<1>3. CASE UNCHANGED calls
  BY <1>2, <1>3 DEF Below
<1>4. ASSUME NEW n \in Nat,
             \A u \in Threads \ {th} : calls'[u] = calls[u],
             \/ Len(calls'[th]) \in {n, n + 1}
             \/ Len(calls'[th]) = n + 2 /\ calls'[th][n + 1].kind # "set",
             \A i \in 1 .. n : /\ calls'[th][i] = calls[th][i]
                               /\ calls[th][i].kind = "set" => calls[th][i].stage \in GuestStages
      PROVE  Below'
  <2>1. ASSUME NEW i \in 1 .. Len(calls'[th]), calls'[th][i].kind = "set", i # Len(calls'[th])
        PROVE  calls'[th][i].stage \in GuestStages
    <3>1. i \in 1 .. n
      BY <1>4, <2>1
    <3> QED BY <1>4, <2>1, <3>1
  <2>2. \A u \in Threads \ {th} : \A i \in 1 .. Len(calls'[u]) :
            calls'[u][i].kind = "set" /\ i # Len(calls'[u]) => calls'[u][i].stage \in GuestStages
    BY <1>2, <1>4 DEF Below
  <2> QED BY <2>1, <2>2 DEF Below
<1>5. ASSUME calls[th] # <<>>
      PROVE  /\ Len(calls[th]) - 1 \in Nat /\ Len(calls[th]) = (Len(calls[th]) - 1) + 1
             /\ \A i \in 1 .. Len(calls[th]) - 1 :
                    calls[th][i].kind = "set" => calls[th][i].stage \in GuestStages
  <2>1. Len(calls[th]) \in Nat \ {0}
    BY <1>1, <1>5, Stacks
  <2>2. \A i \in 1 .. Len(calls[th]) - 1 : i \in 1 .. Len(calls[th]) /\ i # Len(calls[th])
    BY <2>1
  <2> QED BY <1>2, <2>1, <2>2 DEF Below
<1>6. ASSUME InGuest(th), NEW c, Enter(th, c) PROVE Below'
  <2>1. /\ \A u \in Threads \ {th} : calls'[u] = calls[u]
        /\ Len(calls'[th]) = Len(calls[th]) + 1
        /\ \A i \in 1 .. Len(calls[th]) : calls'[th][i] = calls[th][i]
    BY <1>1, <1>6, Stacks
  <2>2. Len(calls[th]) \in Nat
    BY <1>1
  <2>3. ASSUME NEW i \in 1 .. Len(calls[th]), calls[th][i].kind = "set"
        PROVE  calls[th][i].stage \in GuestStages
    <3>1. calls[th] # <<>>
      BY <1>1, <2>3
    <3>2. Top(th) = calls[th][Len(calls[th])]
      BY <1>1, <3>1, Stacks
    <3>3. Top(th).stage \in GuestStages
      BY <1>6, <3>1 DEF InGuest
    <3> QED BY <1>2, <2>3, <3>2, <3>3 DEF Below
  <2> QED BY <1>4, <2>1, <2>2, <2>3
<1>7. ASSUME calls[th] # <<>>, Leave(th) PROVE Below'
  <2>1. /\ \A u \in Threads \ {th} : calls'[u] = calls[u]
        /\ Len(calls'[th]) = Len(calls[th]) - 1
        /\ \A i \in 1 .. Len(calls[th]) - 1 : calls'[th][i] = calls[th][i]
    BY <1>1, <1>7, Stacks
  <2> QED BY <1>4, <1>5, <1>7, <2>1
<1>8. ASSUME calls[th] # <<>>, NEW c, Continue(th, c) PROVE Below'
  <2>1. /\ \A u \in Threads \ {th} : calls'[u] = calls[u]
        /\ Len(calls'[th]) = Len(calls[th])
        /\ \A i \in 1 .. Len(calls[th]) - 1 : calls'[th][i] = calls[th][i]
    BY <1>1, <1>8, Stacks
  <2> QED BY <1>4, <1>5, <1>8, <2>1
<1>9. ASSUME calls[th] # <<>>, NEW c, NEW d, c.kind # "set",
             calls' = [calls EXCEPT ![th] = Front(@) \o <<c, d>>]
      PROVE  Below'
  <2>1. /\ \A u \in Threads \ {th} : calls'[u] = calls[u]
        /\ Len(calls'[th]) = Len(calls[th]) + 1
        /\ \A i \in 1 .. Len(calls[th]) - 1 : calls'[th][i] = calls[th][i]
        /\ calls'[th][Len(calls[th])] = c
    BY <1>1, <1>9, StacksTwo
  <2> DEFINE n == Len(calls[th]) - 1
  <2>2. /\ n \in Nat /\ Len(calls[th]) = n + 1 /\ Len(calls[th]) + 1 = n + 2
        /\ \A i \in 1 .. n :
               calls[th][i].kind = "set" => calls[th][i].stage \in GuestStages
    BY <1>5, <1>9
  <2>3. /\ Len(calls'[th]) = n + 2 /\ calls'[th][n + 1].kind # "set"
        /\ \A i \in 1 .. n : /\ calls'[th][i] = calls[th][i]
                             /\ calls[th][i].kind = "set" => calls[th][i].stage \in GuestStages
    BY <1>9, <2>1, <2>2
  <2> HIDE DEF n
  <2> QED BY <1>4, <2>1, <2>2, <2>3
<1> QED BY <1>3, <1>6, <1>7, <1>8, <1>9 DEF Moves, Replaces

\* Some thread makes a step of its own.
LEMMA StepMade ==
    ASSUME CallsFormed, [Next]_vars
    PROVE  \E K : Step(K)
<1>1. CASE UNCHANGED vars
  BY <1>1 DEF vars, Step
<1>2. ASSUME NEW th \in Threads,
             OperationCalls(th) \/ EndStart(th) \/ EndMain(th) \/ EndCompletion(th)
      PROVE  \E K : Step(K)
  BY <1>2, OpMoves DEF Step
<1>3. ASSUME NEW th \in Threads, DispatchCalls(th) \/ EndBlock(th) \/ EndOnce(th)
      PROVE  \E K : Step(K)
  BY <1>3, BlockMoves DEF Step
<1>4. ASSUME NEW th \in Threads,
             MessageCalls(th) \/ BeginLoads(th) \/ MessageHost(th) \/ EndSend(th)
      PROVE  \E K : Step(K)
  BY <1>4, ClassMoves DEF Step
<1>5. ASSUME NEW th \in Threads,
             \/ BlockCalls(th) \/ PropertyCalls(th)
             \/ SynchronizedHost(th) \/ SynchronizedReturns(th)
      PROVE  \E K : Step(K)
  BY <1>5, LockMoves DEF Step
<1> QED BY <1>1, <1>2, <1>3, <1>4, <1>5, Steps

\* Steps of others.
LEMMA SettersForeign ==
    ASSUME CallsFormed, CallsFormed', SettersInv, NEW K, Step(K), "set" \notin K
    PROVE  /\ \A c \in AllCalls' : SetSound(c)
           /\ Shallow({"set"})' /\ Alone' /\ NotInCopy'
<1>1. \A c \in AllCalls' : SetSound(c)
  <2>1. \A c : c.kind = "set" => (c \in AllCalls <=> c \in AllCalls')
    BY ForeignCalls
  <2> QED BY <2>1 DEF SettersInv, SetSound
<1>2. Shallow({"set"})'
  <2>1. {"set"} \cap K = {} /\ Shallow({"set"})
    BY DEF SettersInv
  <2> QED BY <2>1, SameShallow
<1>3. \A u \in Threads : \A i : i \in 1 .. Len(calls'[u]) /\ calls'[u][i].kind = "set" =>
          i \in 1 .. Len(calls[u]) /\ calls[u][i].kind = "set" /\ calls'[u][i] = calls[u][i]
  BY Foreign
<1>4. Alone'
  <2>1. Alone
    BY DEF SettersInv
  <2>2. ASSUME NEW u \in Threads, NEW v \in Threads, u # v,
               NEW i \in 1 .. Len(calls'[u]), NEW j \in 1 .. Len(calls'[v]),
               calls'[u][i].kind = "set", calls'[v][j].kind = "set",
               calls'[u][i].object = calls'[v][j].object
        PROVE  calls'[u][i].mutex # NoMutex
    <3>1. /\ i \in 1 .. Len(calls[u]) /\ calls'[u][i] = calls[u][i]
          /\ j \in 1 .. Len(calls[v]) /\ calls'[v][j] = calls[v][j]
      BY <1>3, <2>2
    <3> QED BY <2>1, <2>2, <3>1 DEF Alone
  <2> QED BY <2>2 DEF Alone
<1>5. NotInCopy'
  BY <1>3 DEF SettersInv, NotInCopy
<1> QED BY <1>1, <1>2, <1>4, <1>5

\* Every step keeps the setters in order.
LEMMA SettersStep ==
    ASSUME LawfulSets, SyncInv, SettersInv, CallsFormed, CallsFormed', [Next]_vars
    PROVE  SettersInv'
<1>1. Below'
  <2>1. PICK K : Step(K)
    BY StepMade
  <2>2. CASE UNCHANGED calls
    BY <2>2 DEF SettersInv, Below
  <2> QED BY <2>1, <2>2, BelowStays DEF Step
<1>2. \A c \in AllCalls : SetSound(c)
  BY DEF SettersInv
<1>3. \A c : SetSound(c)' <=> SetSound(c)
  BY DEF SetSound
<1>4. ASSUME NEW th \in Threads, NEW c,
             \/ Enter(th, c) /\ MayBegin(th, c)
             \/ calls[th] # <<>> /\ Top(th).kind = "set" /\ Continue(th, c) /\ GoesOn(th, c)
             \/ calls[th] # <<>> /\ Top(th).kind = "set" /\ Leave(th)
      PROVE  SettersInv'
  <2>1. Alone' /\ NotInCopy'
    BY <1>4, SettersOrdered
  <2>2. Shallow({"set"})'
    <3>1. Shallow({"set"})
      BY DEF SettersInv
    <3> QED BY <1>4, <3>1, StaysShallow DEF MayBegin
  <2>3. \A d \in AllCalls' : SetSound(d)
    BY <1>2, <1>4, CallsNew DEF MayBegin, GoesOn
  <2> QED BY <1>1, <1>3, <2>1, <2>2, <2>3 DEF SettersInv
<1>5. ASSUME NEW K, Step(K), "set" \notin K PROVE SettersInv'
  BY <1>1, <1>3, <1>5, SettersForeign DEF SettersInv
<1>6. ASSUME NEW th \in Threads, NEW o \in Objects, NEW v \in Values \cup {NoValue},
             NEW copy \in BOOLEAN, NEW atomic \in BOOLEAN, SetProperty(th, o, v, copy, atomic)
      PROVE  SettersInv'
  BY <1>4, <1>6, SetterBegins
<1>7. ASSUME NEW th \in Threads, \/ SetterLocked(th) \/ ReadOld(th) \/ Store(th) \/ EndSet(th)
                                 \/ EndDealloc(th) \/ \E v \in Values : EndCopy(th, v)
      PROVE  SettersInv'
  <2>1. CASE EndSet(th)
    BY <1>4, <2>1 DEF EndSet, At
  <2>2. CASE ~ EndSet(th)
    BY <1>4, <1>7, <2>2, SetterGoesOn
  <2> QED BY <2>1, <2>2
<1>8. ASSUME NEW th \in Threads, NEW v \in Values, NewValue(th, v) \/ ReleaseValue(th, v)
      PROVE  SettersInv'
  <2>1. Step({})
    BY <1>8 DEF NewValue, ReleaseValue, Step
  <2> QED BY <1>5, <2>1
<1>9. ASSUME NEW th \in Threads, BesideSetters(th) PROVE SettersInv'
  BY <1>5, <1>9, BesideMoves
<1>10. ASSUME NEW K, Step(K), K \cap LockKinds = {} PROVE SettersInv'
  BY <1>5, <1>10 DEF LockKinds
<1> QED BY <1>6, <1>7, <1>8, <1>9, <1>10, PropertySteps

\* No setter is called at first.
LEMMA SettersInit == ASSUME Init PROVE SettersInv
<1>1. calls = [th \in Threads |-> <<>>]
  BY DEF Init
<1>2. AllCalls = {}
  BY <1>1, CallsFormedInit, InCalls
<1> QED BY <1>1, <1>2 DEF SettersInv, Shallow, Below, Alone, NotInCopy

-----------------------------------------------------------------------------
(***************************************************************************)
(* The locks of properties: locked as often as setters are between their   *)
(* lock and their unlock.                                                  *)
(***************************************************************************)

\* Where setters that have the lock m are in progress.
LockingAt(m) == SettingAt(Locked, "mutex", m)

SetMutex(c) == c.kind = "set" => c.mutex \in {NoMutex, propLocks[c.object]}

\* Whoever has locked a property is the owner of its mutex.
Owns(u, c) == c.kind = "set" /\ c.stage \in Locked /\ c.mutex # NoMutex => owner[c.mutex] = u

Owned == \A u \in Threads : \A i \in 1 .. Len(calls[u]) : Owns(u, calls[u][i])

\* The mutex is locked as often as setters have it.
LockedBy(m) == IsFiniteSet(LockingAt(m)) /\ lockCount[m] = Cardinality(LockingAt(m))

LocksInv ==
    /\ \A c \in AllCalls : SetMutex(c)
    /\ Owned
    /\ \A o \in Objects : propLocks[o] # NoMutex => LockedBy(propLocks[o])

\* How the locks follow the calls.
LEMMA LocksEnter ==
    ASSUME CallsFormed, CallsFormed', NEW th \in Threads, NEW c, Enter(th, c),
           Len(calls[th]) < MaxCalls, NEW m, LockedBy(m),
           lockCount'[m] = lockCount[m] + One(Setting(c, Locked, "mutex", m))
    PROVE  LockedBy(m)'
<1>1. IsFiniteSet(LockingAt(m)) /\ lockCount[m] = Cardinality(LockingAt(m))
  BY DEF LockedBy
<1>2. /\ IsFiniteSet(LockingAt(m)')
      /\ Cardinality(LockingAt(m)') = Cardinality(LockingAt(m)) + One(Setting(c, Locked, "mutex", m))
  BY <1>1, SettingEnter DEF LockingAt, Locked
<1> QED BY <1>1, <1>2 DEF LockedBy

\* A setter that goes on locks its property, or stays in possession.
LEMMA LocksContinue ==
    ASSUME CallsFormed, CallsFormed', Shallow({"set"}), NEW th \in Threads,
           calls[th] # <<>>, Top(th).kind = "set", NEW c, Continue(th, c), NEW m, LockedBy(m),
           lockCount'[m] = lockCount[m] - One(Setting(Top(th), Locked, "mutex", m))
                                        + One(Setting(c, Locked, "mutex", m))
    PROVE  LockedBy(m)'
<1>1. IsFiniteSet(LockingAt(m)) /\ lockCount[m] = Cardinality(LockingAt(m))
  BY DEF LockedBy
<1>2. /\ IsFiniteSet(LockingAt(m)')
      /\ Cardinality(LockingAt(m)') = Cardinality(LockingAt(m))
                                      - One(Setting(Top(th), Locked, "mutex", m))
                                      + One(Setting(c, Locked, "mutex", m))
  BY <1>1, SettingContinue DEF LockingAt, Locked
<1> QED BY <1>1, <1>2 DEF LockedBy

\* A setter that returns has unlocked its property.
LEMMA LocksLeave ==
    ASSUME CallsFormed, CallsFormed', Shallow({"set"}), NEW th \in Threads,
           calls[th] # <<>>, Top(th).kind = "set", Leave(th), NEW m, LockedBy(m),
           lockCount'[m] = lockCount[m] - One(Setting(Top(th), Locked, "mutex", m))
    PROVE  LockedBy(m)'
<1>1. IsFiniteSet(LockingAt(m)) /\ lockCount[m] = Cardinality(LockingAt(m))
  BY DEF LockedBy
<1>2. /\ IsFiniteSet(LockingAt(m)')
      /\ Cardinality(LockingAt(m)') = Cardinality(LockingAt(m))
                                      - One(Setting(Top(th), Locked, "mutex", m))
  BY <1>1, SettingLeave DEF LockingAt, Locked
<1> QED BY <1>1, <1>2 DEF LockedBy

\* A step changes the owners for one place at the top.
LEMMA OwnedElsewhere ==
    ASSUME CallsFormed, CallsFormed', NEW th \in Threads, NEW n, Elsewhere(th, n),
           n \in 1 .. Len(calls'[th]) => Owns(th, calls[th][n])',
           \A u \in Threads : \A i \in 1 .. Len(calls[u]) :
               /\ ~ (u = th /\ i = n) /\ calls[u][i].kind = "set"
               /\ calls[u][i].stage \in Locked /\ calls[u][i].mutex # NoMutex
               => owner'[calls[u][i].mutex] = u
    PROVE  Owned'
<1> SUFFICES ASSUME NEW u \in Threads, NEW i \in 1 .. Len(calls'[u])
             PROVE  Owns(u, calls[u][i])'
  BY DEF Owned
<1>1. i \in Nat
  BY DEF CallsFormed
<1>2. CASE u = th /\ i = n
  BY <1>2
<1>3. CASE ~ (u = th /\ i = n)
  <2>1. i \in 1 .. Len(calls[u]) /\ calls'[u][i] = calls[u][i]
    BY <1>1, <1>3 DEF Elsewhere
  <2> QED BY <1>3, <2>1 DEF Owns
<1> QED BY <1>2, <1>3

\* No setter has a mutex that does not exist.
LEMMA NotLocked ==
    ASSUME CallsFormed, SyncInv, SettersInv, LocksInv, NEW m \in Mutexes, owner[m] = NoMutex
    PROVE  LockedBy(m)
<1>1. lockCount[m] = 0 /\ \A o \in Objects : propLocks[o] # m
  BY DEF SyncInv, Entries
<1>2. m # NoMutex
  BY SynchronizedAssumption
<1>3. \A c \in AllCalls : ~ Setting(c, Locked, "mutex", m)
  BY <1>1, <1>2 DEF SettersInv, SetSound, LocksInv, SetMutex, Setting
<1>4. LockingAt(m) = {}
  <2>1. ASSUME NEW p \in LockingAt(m) PROVE FALSE
    <3>1. PICK u \in Threads, i \in 1 .. MaxCalls : p = <<u, i>>
      BY <2>1 DEF LockingAt, SettingAt
    <3>2. i <= Len(calls[u]) /\ Setting(calls[u][i], Locked, "mutex", m)
      BY <2>1, <3>1 DEF LockingAt, SettingAt
    <3>3. i \in 1 .. Len(calls[u])
      BY <3>2, CallsAssumption DEF CallsFormed
    <3>4. calls[u][i] \in AllCalls
      BY <3>3, InCalls
    <3> QED BY <1>3, <3>2, <3>4
  <2> QED BY <2>1
<1> QED BY <1>1, <1>4, FS_EmptySet DEF LockedBy

\* The entries of the properties, a new one among them.
LEMMA EntryLocked ==
    ASSUME CallsFormed, SyncInv, SettersInv, LocksInv, NEW o \in Objects, NEW m \in Mutexes,
           propLocks[o] = m \/ (propLocks[o] = NoMutex /\ owner[m] = NoMutex),
           propLocks' = [propLocks EXCEPT ![o] = m]
    PROVE  \A p \in Objects :
               /\ propLocks'[p] # NoMutex => propLocks'[p] \in Mutexes /\ LockedBy(propLocks'[p])
               /\ propLocks[p] # NoMutex => propLocks'[p] = propLocks[p]
<1>1. m # NoMutex /\ propLocks \in [Objects -> Mutexes \cup {NoMutex}]
  BY SynchronizedAssumption DEF SyncInv, SyncTypes
<1>2. LockedBy(m)
  BY <1>1, NotLocked DEF LocksInv
<1>3. \A p \in Objects : propLocks'[p] = IF p = o THEN m ELSE propLocks[p]
  BY <1>1
<1> QED BY <1>1, <1>2, <1>3 DEF LocksInv

\* Steps of others.
LEMMA LocksForeign ==
    ASSUME CallsFormed, CallsFormed', SyncInv, SettersInv, LocksInv,
           NEW K, Step(K), "set" \notin K,
           \A p \in Objects :
               /\ propLocks'[p] # NoMutex => LockedBy(propLocks'[p])
               /\ propLocks[p] # NoMutex => propLocks'[p] = propLocks[p],
           \A p \in Objects : propLocks'[p] # NoMutex =>
               /\ lockCount'[propLocks'[p]] = lockCount[propLocks'[p]]
               /\ owner[propLocks'[p]] \in Threads => owner'[propLocks'[p]] = owner[propLocks'[p]]
    PROVE  LocksInv'
<1>1. \A c : c.kind = "set" => (c \in AllCalls <=> c \in AllCalls')
  BY ForeignCalls
<1>2. ASSUME NEW c \in AllCalls' PROVE SetMutex(c)'
  <2>1. CASE c.kind = "set"
    <3>1. c.object \in Objects /\ c.mutex \in {NoMutex, propLocks[c.object]}
      BY <1>1, <1>2, <2>1 DEF SettersInv, SetSound, LocksInv, SetMutex
    <3> QED BY <3>1 DEF SetMutex
  <2>2. CASE c.kind # "set"
    BY <2>2 DEF SetMutex
  <2> QED BY <2>1, <2>2
<1>3. ASSUME NEW u \in Threads, NEW i \in 1 .. Len(calls'[u]) PROVE Owns(u, calls[u][i])'
  <2>1. CASE calls'[u][i].kind = "set"
    <3>1. i \in 1 .. Len(calls[u]) /\ calls'[u][i] = calls[u][i]
      BY <1>3, <2>1, Foreign
    <3>2. calls[u][i] \in AllCalls /\ Owns(u, calls[u][i])
      BY <3>1, InCalls DEF LocksInv, Owned
    <3>3. calls[u][i].object \in Objects
          /\ calls[u][i].mutex \in {NoMutex, propLocks[calls[u][i].object]}
      BY <2>1, <3>1, <3>2 DEF SettersInv, SetSound, LocksInv, SetMutex
    <3> QED BY <3>1, <3>2, <3>3 DEF Owns
  <2>2. CASE calls'[u][i].kind # "set"
    BY <2>2 DEF Owns
  <2> QED BY <2>1, <2>2
<1>4. ASSUME NEW p \in Objects, propLocks'[p] # NoMutex PROVE LockedBy(propLocks[p])'
  <2>1. PICK m : m = propLocks'[p]
    OBVIOUS
  <2>2. LockedBy(m) /\ lockCount'[m] = lockCount[m]
    BY <1>4, <2>1
  <2>3. LockingAt(m)' = LockingAt(m)
    BY SettingSame DEF LockingAt, Locked
  <2>4. LockedBy(m)'
    BY <2>2, <2>3 DEF LockedBy
  <2> QED BY <2>1, <2>4 DEF LockedBy, LockingAt, SettingAt
<1> QED BY <1>2, <1>3, <1>4 DEF LocksInv, Owned

\* The mutexes of the calls stay entries.
LEMMA MutexesKept ==
    ASSUME SettersInv, LocksInv,
           \A p \in Objects : propLocks[p] # NoMutex => propLocks'[p] = propLocks[p],
           \A d \in AllCalls' : d \in AllCalls \/ SetMutex(d)'
    PROVE  \A d \in AllCalls' : SetMutex(d)'
<1> SUFFICES ASSUME NEW d \in AllCalls, d.kind = "set"
             PROVE  d.mutex \in {NoMutex, propLocks'[d.object]}
  BY DEF SetMutex
<1>1. d.object \in Objects /\ d.mutex \in {NoMutex, propLocks[d.object]}
  BY DEF SettersInv, SetSound, LocksInv, SetMutex
<1> QED BY <1>1

\* So do their owners, while the mutexes of no thread change hands.
LEMMA OwnersKept ==
    ASSUME CallsFormed, SyncInv, SettersInv, LocksInv,
           NEW u \in Threads, NEW i \in 1 .. Len(calls[u]),
           calls[u][i].kind = "set", calls[u][i].stage \in Locked, calls[u][i].mutex # NoMutex
    PROVE  calls[u][i].mutex \in Mutexes /\ owner[calls[u][i].mutex] = u
<1>1. calls[u][i] \in AllCalls
  BY InCalls
<1>2. calls[u][i].object \in Objects /\ calls[u][i].mutex = propLocks[calls[u][i].object]
  BY <1>1 DEF SettersInv, SetSound, LocksInv, SetMutex
<1>3. calls[u][i].mutex \in Mutexes
  BY <1>2 DEF SyncInv, SyncTypes
<1> QED BY <1>3 DEF LocksInv, Owned, Owns

\* The number of locks of a mutex that is locked or unlocked once.
LEMMA LockCounts ==
    ASSUME SyncInv, NEW th \in Threads, NEW m \in Mutexes, NEW k \in Mutexes
    PROVE  /\ LockMutex(th, m) => lockCount'[k] = lockCount[k] + One(k = m)
           /\ UnlockMutex(m) => lockCount'[k] = lockCount[k] - One(k = m)
           /\ lockCount[k] \in Int
<1>1. lockCount \in [Mutexes -> Int] /\ owner \in [Mutexes -> Threads \cup {NoMutex, Nobody}]
  BY DEF SyncInv, SyncTypes
<1>2. CASE k = m
  BY <1>1, <1>2 DEF LockMutex, UnlockMutex, One
<1>3. CASE k # m
  BY <1>1, <1>3 DEF LockMutex, UnlockMutex, One
<1> QED BY <1>2, <1>3

\* The owners that a lock leaves.
LEMMA LockOwners ==
    ASSUME SyncInv, NEW th \in Threads, NEW m \in Mutexes, CanLock(th, m), LockMutex(th, m)
    PROVE  /\ owner'[m] = th
           /\ \A k \in Mutexes : owner[k] \in Threads => owner'[k] = owner[k]
<1>1. owner \in [Mutexes -> Threads \cup {NoMutex, Nobody}]
  BY DEF SyncInv, SyncTypes
<1>2. NoMutex \notin Threads /\ Nobody \notin Threads
  BY SynchronizedAssumption
<1> QED BY <1>1, <1>2 DEF CanLock, LockMutex

\* A setter begins.
LEMMA LocksBegin ==
    ASSUME LawfulSets, CallsFormed, CallsFormed', SyncInv, SettersInv, LocksInv,
           NEW th \in Threads, NEW o \in Objects, NEW v, NEW copy, NEW atomic,
           SetProperty(th, o, v, copy, atomic)
    PROVE  LocksInv'
<1>0. /\ SyncTypes /\ Entries /\ NoMutex \notin Mutexes
      /\ Len(calls[th]) < MaxCalls
  BY SynchronizedAssumption DEF SyncInv, SetProperty, CanCall
<1>1. PICK m : m = MutexOf(propLocks, o)
  OBVIOUS
<1>2. /\ m \in Mutexes /\ m # NoMutex
      /\ propLocks[o] = m \/ (propLocks[o] = NoMutex /\ owner[m] = NoMutex)
      /\ owner[m] # NoMutex => propLocks[o] = m
  BY <1>0, <1>1, MutexFound
<1>3. ASSUME NEW c, Enter(th, c), c.kind = "set", c.object = o,
             \A p \in Objects :
               /\ propLocks'[p] # NoMutex => propLocks'[p] \in Mutexes /\ LockedBy(propLocks'[p])
               /\ propLocks[p] # NoMutex => propLocks'[p] = propLocks[p],
             SetMutex(c)',
             c.stage \in Locked /\ c.mutex # NoMutex => owner'[c.mutex] = th,
             \A k \in Mutexes : owner[k] \in Threads => owner'[k] = owner[k],
             \A k \in Mutexes : lockCount'[k] = lockCount[k] + One(Setting(c, Locked, "mutex", k))
      PROVE  LocksInv'
  <2>1. \A d \in AllCalls' : SetMutex(d)'
    <3>1. \A d \in AllCalls' : d = c \/ d \in AllCalls
      BY <1>3, CallsNew
    <3> QED BY <1>3, <3>1, MutexesKept
  <2>2. Owned'
    <3>5. PICK n : n = Len(calls[th]) + 1
      OBVIOUS
    <3>1. Elsewhere(th, n) /\ calls'[th][n] = c
      BY <1>3, <3>5, TopElsewhere
    <3>0. c.stage \in Locked /\ c.mutex # NoMutex => owner'[c.mutex] = th
      BY <1>3
    <3>2. Owns(th, calls[th][n])'
      BY <3>0, <3>1 DEF Owns
    <3>3. \A k \in Mutexes : owner[k] \in Threads => owner'[k] = owner[k]
      BY <1>3
    <3>4. \A u \in Threads : \A i \in 1 .. Len(calls[u]) :
              /\ ~ (u = th /\ i = n) /\ calls[u][i].kind = "set"
              /\ calls[u][i].stage \in Locked /\ calls[u][i].mutex # NoMutex
              => owner'[calls[u][i].mutex] = u
      <4>1. \A u \in Threads : \A i \in 1 .. Len(calls[u]) :
              /\ calls[u][i].kind = "set"
              /\ calls[u][i].stage \in Locked /\ calls[u][i].mutex # NoMutex
              => calls[u][i].mutex \in Mutexes /\ owner[calls[u][i].mutex] = u
        BY OwnersKept
      <4> QED BY <3>3, <4>1
    <3> QED BY <3>1, <3>2, <3>4, OwnedElsewhere
  <2>3. ASSUME NEW p \in Objects, propLocks'[p] # NoMutex PROVE LockedBy(propLocks[p])'
    <3>1. PICK k : k = propLocks'[p]
      OBVIOUS
    <3>2. k \in Mutexes /\ LockedBy(k)
      BY <1>3, <2>3, <3>1
    <3>3. LockedBy(k)'
      BY <1>0, <1>3, <3>2, LocksEnter
    <3> QED BY <3>1, <3>3 DEF LockedBy, LockingAt, SettingAt
  <2> QED BY <2>1, <2>2, <2>3 DEF LocksInv
<1>4. ASSUME propLocks' = [propLocks EXCEPT ![o] = m]
      PROVE  \A p \in Objects :
               /\ propLocks'[p] # NoMutex => propLocks'[p] \in Mutexes /\ LockedBy(propLocks'[p])
               /\ propLocks[p] # NoMutex => propLocks'[p] = propLocks[p]
  BY <1>2, <1>4, EntryLocked
<1>5. propLocks' = [propLocks EXCEPT ![o] = m] => propLocks'[o] = m
  BY <1>0 DEF SyncTypes
<1>6. CASE atomic /\ CanLock(th, m)
  <2>1. PICK c : c = SetCall(o, v, copy, m, "read")
    OBVIOUS
  <2>2. /\ Enter(th, c) /\ LockMutex(th, m) /\ propLocks' = [propLocks EXCEPT ![o] = m]
    BY <1>1, <1>6, <2>1 DEF SetProperty
  <2>3. c.kind = "set" /\ c.object = o /\ c.mutex = m /\ c.stage = "read"
    BY <2>1 DEF SetCall
  <2>4. SetMutex(c)'
    BY <1>5, <2>2, <2>3 DEF SetMutex
  <2>5. /\ owner'[m] = th
        /\ \A k \in Mutexes : owner[k] \in Threads => owner'[k] = owner[k]
    BY <1>2, <1>6, <2>2, LockOwners
  <2>6. ASSUME NEW k \in Mutexes
        PROVE  lockCount'[k] = lockCount[k] + One(Setting(c, Locked, "mutex", k))
    <3>1. lockCount'[k] = lockCount[k] + One(k = m)
      BY <1>2, <2>2, LockCounts
    <3>2. Setting(c, Locked, "mutex", k) <=> k = m
      BY <2>3 DEF Setting, Locked
    <3> QED BY <3>1, <3>2 DEF One
  <2> QED BY <1>3, <1>4, <2>2, <2>3, <2>4, <2>5, <2>6
<1>7. ASSUME UNCHANGED <<owner, lockCount>>, NEW c, ~ (c.stage \in Locked /\ c.mutex # NoMutex)
      PROVE  /\ \A k \in Mutexes : owner[k] \in Threads => owner'[k] = owner[k]
             /\ c.stage \in Locked /\ c.mutex # NoMutex => owner'[c.mutex] = th
             /\ \A k \in Mutexes :
                    lockCount'[k] = lockCount[k] + One(Setting(c, Locked, "mutex", k))
  <2>1. \A k \in Mutexes : ~ Setting(c, Locked, "mutex", k) /\ lockCount[k] \in Int
    BY <1>0, <1>7 DEF Setting, SyncTypes
  <2> QED BY <1>7, <2>1 DEF One
<1>8. CASE atomic /\ ~ CanLock(th, m)
  <2>1. PICK c : c = SetCall(o, v, copy, m, "sleep")
    OBVIOUS
  <2>2. /\ Enter(th, c) /\ propLocks' = [propLocks EXCEPT ![o] = m]
        /\ UNCHANGED <<owner, lockCount>>
    BY <1>1, <1>8, <2>1 DEF SetProperty
  <2>3. c.kind = "set" /\ c.object = o /\ c.mutex = m /\ c.stage = "sleep"
    BY <2>1 DEF SetCall
  <2>4. SetMutex(c)'
    BY <1>5, <2>2, <2>3 DEF SetMutex
  <2>5. ~ (c.stage \in Locked /\ c.mutex # NoMutex)
    BY <2>3 DEF Locked
  <2> QED BY <1>3, <1>4, <1>7, <2>2, <2>3, <2>4, <2>5
<1>9. CASE ~ atomic
  <2>1. PICK c : c = SetCall(o, v, copy, NoMutex, "read")
    OBVIOUS
  <2>2. Enter(th, c) /\ UNCHANGED <<propLocks, owner, lockCount>>
    BY <1>9, <2>1 DEF SetProperty
  <2>3. c.kind = "set" /\ c.object = o /\ c.mutex = NoMutex
    BY <2>1 DEF SetCall
  <2>4. SetMutex(c)'
    BY <2>3 DEF SetMutex
  <2>5. ~ (c.stage \in Locked /\ c.mutex # NoMutex)
    BY <2>3
  <2>6. \A p \in Objects :
               /\ propLocks'[p] # NoMutex => propLocks'[p] \in Mutexes /\ LockedBy(propLocks'[p])
               /\ propLocks[p] # NoMutex => propLocks'[p] = propLocks[p]
    BY <1>0, <2>2 DEF SyncTypes, LocksInv
  <2> QED BY <1>3, <1>7, <2>2, <2>3, <2>4, <2>5, <2>6
<1> QED BY <1>6, <1>8, <1>9

\* A setter goes on, with the lock.
LEMMA LocksGoOn ==
    ASSUME CallsFormed, CallsFormed', SyncInv, SettersInv, LocksInv, NEW th \in Threads,
           calls[th] # <<>>, Top(th).kind = "set", UNCHANGED propLocks,
           NEW c, Continue(th, c), GoesOn(th, c),
           \/ Top(th).stage \in Locked /\ UNCHANGED <<owner, lockCount>>
           \/ /\ Top(th).stage = "sleep" /\ CanLock(th, Top(th).mutex)
              /\ LockMutex(th, Top(th).mutex)
    PROVE  LocksInv'
<1>0. /\ Top(th) \in AllCalls /\ SetMutex(Top(th)) /\ SetSound(Top(th))
      /\ SyncTypes /\ NoMutex \notin Mutexes
      /\ c.kind = "set" /\ c.stage \in Locked /\ c.object = Top(th).object /\ c.mutex = Top(th).mutex
  BY CallsStay, SynchronizedAssumption DEF LocksInv, SettersInv, SyncInv, GoesOn
<1>1. /\ c.object \in Objects /\ c.mutex \in {NoMutex, propLocks[c.object]}
      /\ c.mutex # NoMutex => c.mutex \in Mutexes
  BY <1>0 DEF SetMutex, SetSound, SyncTypes
<1>2. PICK n : n = Len(calls[th])
  OBVIOUS
<1>3. /\ Elsewhere(th, n) /\ calls'[th][n] = c
      /\ n \in 1 .. Len(calls[th]) /\ calls[th][n] = Top(th)
  <2>1. Len(calls[th]) \in Nat \ {0} /\ Top(th) = calls[th][Len(calls[th])]
    BY Stacks DEF CallsFormed
  <2> QED BY <1>2, <2>1, TopElsewhere
<1>4. /\ c.mutex # NoMutex => owner'[c.mutex] = th
      /\ \A k \in Mutexes : owner[k] \in Threads => owner'[k] = owner[k]
      /\ \A k \in Mutexes : lockCount'[k] = lockCount[k] - One(Setting(Top(th), Locked, "mutex", k))
                                            + One(Setting(c, Locked, "mutex", k))
  <2>1. CASE Top(th).stage \in Locked /\ UNCHANGED <<owner, lockCount>>
    <3>1. c.mutex # NoMutex => owner[c.mutex] = th
      BY <1>0, <1>3, <2>1, OwnersKept
    <3>2. \A k \in Mutexes : /\ Setting(Top(th), Locked, "mutex", k) <=> Setting(c, Locked, "mutex", k)
                             /\ lockCount[k] \in Int
      BY <1>0, <2>1 DEF Setting, SyncTypes
    <3>3. \A a \in Int : \A b \in {0, 1} : a = a - b + b
      OBVIOUS
    <3>4. \A P : One(P) \in {0, 1}
      BY DEF One
    <3>5. \A k \in Mutexes : lockCount[k] = lockCount[k] - One(Setting(Top(th), Locked, "mutex", k))
                                            + One(Setting(c, Locked, "mutex", k))
      <4> TAKE k \in Mutexes
      <4>1. One(Setting(Top(th), Locked, "mutex", k)) = One(Setting(c, Locked, "mutex", k))
        BY <3>2 DEF One
      <4> QED BY <3>2, <3>3, <3>4, <4>1
    <3> QED BY <2>1, <3>1, <3>5
  <2>2. CASE /\ Top(th).stage = "sleep" /\ CanLock(th, Top(th).mutex)
             /\ LockMutex(th, Top(th).mutex)
    <3>1. c.mutex \in Mutexes
      BY <1>0, <1>1, <2>2 DEF SetSound
    <3>2. /\ owner'[c.mutex] = th
          /\ \A k \in Mutexes : owner[k] \in Threads => owner'[k] = owner[k]
      BY <1>0, <2>2, <3>1, LockOwners
    <3>3. ASSUME NEW k \in Mutexes
          PROVE  lockCount'[k] = lockCount[k] - One(Setting(Top(th), Locked, "mutex", k))
                                              + One(Setting(c, Locked, "mutex", k))
      <4>1. lockCount'[k] = lockCount[k] + One(k = c.mutex) /\ lockCount[k] \in Int
        BY <1>0, <2>2, <3>1, LockCounts
      <4>2. ~ Setting(Top(th), Locked, "mutex", k)
        BY <2>2 DEF Setting, Locked
      <4>3. Setting(c, Locked, "mutex", k) <=> k = c.mutex
        BY <1>0 DEF Setting
      <4> QED BY <4>1, <4>2, <4>3 DEF One
    <3> QED BY <3>2, <3>3
  <2> QED BY <2>1, <2>2
<1>5. \A d \in AllCalls' : SetMutex(d)'
  <2>1. \A d \in AllCalls' : d = c \/ d \in AllCalls
    BY CallsNew
  <2>2. SetMutex(c)'
    BY <1>1 DEF SetMutex
  <2> QED BY <2>1, <2>2, MutexesKept
<1>6. Owned'
  <2>1. Owns(th, calls[th][n])'
    BY <1>3, <1>4 DEF Owns
  <2>2. \A u \in Threads : \A i \in 1 .. Len(calls[u]) :
              /\ calls[u][i].kind = "set"
              /\ calls[u][i].stage \in Locked /\ calls[u][i].mutex # NoMutex
              => calls[u][i].mutex \in Mutexes /\ owner[calls[u][i].mutex] = u
    BY OwnersKept
  <2>3. \A u \in Threads : \A i \in 1 .. Len(calls[u]) :
              /\ ~ (u = th /\ i = n) /\ calls[u][i].kind = "set"
              /\ calls[u][i].stage \in Locked /\ calls[u][i].mutex # NoMutex
              => owner'[calls[u][i].mutex] = u
    BY <1>4, <2>2
  <2> QED BY <1>3, <2>1, <2>3, OwnedElsewhere
<1>7. ASSUME NEW p \in Objects, propLocks'[p] # NoMutex PROVE LockedBy(propLocks[p])'
  <2>1. PICK k : k = propLocks[p]
    OBVIOUS
  <2>2. k \in Mutexes /\ LockedBy(k) /\ Shallow({"set"})
    BY <1>0, <1>7, <2>1 DEF SyncTypes, LocksInv, SettersInv
  <2>3. lockCount'[k] = lockCount[k] - One(Setting(Top(th), Locked, "mutex", k))
                                     + One(Setting(c, Locked, "mutex", k))
    BY <1>4, <2>2
  <2>4. LockedBy(k)'
    BY <2>2, <2>3, LocksContinue
  <2> QED BY <1>7, <2>1, <2>4 DEF LockedBy, LockingAt, SettingAt
<1> QED BY <1>5, <1>6, <1>7 DEF LocksInv

\* It ends, and unlocks the mutex for good if it is the outermost.
LEMMA LocksEnd ==
    ASSUME CallsFormed, CallsFormed', SyncInv, SettersInv, LocksInv, NEW th \in Threads,
           EndSet(th)
    PROVE  LocksInv'
<1>0. /\ calls[th] # <<>> /\ Top(th).kind = "set" /\ Top(th).stage = "end" /\ Leave(th)
      /\ Top(th) \in AllCalls /\ SetMutex(Top(th)) /\ SetSound(Top(th))
      /\ SyncTypes /\ NoMutex \notin Mutexes /\ UNCHANGED propLocks
  BY CallsStay, SynchronizedAssumption DEF LocksInv, SettersInv, SyncInv, EndSet, At
<1>1. PICK m : m = Top(th).mutex
  OBVIOUS
<1>2. m # NoMutex => m \in Mutexes /\ LockedBy(m)
  BY <1>0, <1>1 DEF SetMutex, SetSound, SyncTypes, LocksInv
<1>3. PICK n : n = Len(calls[th])
  OBVIOUS
<1>4. /\ Elsewhere(th, n) /\ n \notin 1 .. Len(calls'[th])
      /\ n \in 1 .. Len(calls[th]) /\ calls[th][n] = Top(th)
  <2>1. Len(calls[th]) \in Nat \ {0} /\ Top(th) = calls[th][Len(calls[th])]
    BY <1>0, Stacks DEF CallsFormed
  <2> QED BY <1>0, <1>3, <2>1, TopElsewhere
<1>5. \A k \in Mutexes : /\ Setting(Top(th), Locked, "mutex", k) <=> k = m
                         /\ lockCount[k] \in Int
  BY <1>0, <1>1 DEF Setting, Locked, SyncTypes
<1>6. \A k \in Mutexes : lockCount'[k] = lockCount[k] - One(Setting(Top(th), Locked, "mutex", k))
  <2> TAKE k \in Mutexes
  <2>1. CASE m = NoMutex
    <3>1. lockCount'[k] = lockCount[k]
      BY <1>1, <2>1 DEF EndSet
    <3> QED BY <1>0, <1>5, <2>1, <3>1 DEF One
  <2>2. CASE m # NoMutex
    <3>1. UnlockMutex(m) /\ m \in Mutexes
      BY <1>1, <1>2, <2>2 DEF EndSet
    <3>2. lockCount'[k] = lockCount[k] - One(k = m)
      BY <3>1, LockCounts
    <3> QED BY <1>5, <3>2 DEF One
  <2> QED BY <2>1, <2>2
<1>7. ASSUME NEW u \in Threads, NEW i \in 1 .. Len(calls[u]), ~ (u = th /\ i = n),
             calls[u][i].kind = "set", calls[u][i].stage \in Locked, calls[u][i].mutex # NoMutex
      PROVE  owner'[calls[u][i].mutex] = u
  <2>1. PICK k : k = calls[u][i].mutex
    OBVIOUS
  <2>2. k \in Mutexes /\ owner[k] = u
    BY <1>7, <2>1, OwnersKept
  <2>3. CASE k # m \/ lockCount[m] # 1
    <3>1. owner'[k] = owner[k]
      <4>1. CASE m = NoMutex
        BY <1>1, <4>1 DEF EndSet
      <4>2. CASE m # NoMutex
        <5>1. owner' = [owner EXCEPT ![m] = IF lockCount[m] = 1 THEN Nobody ELSE @]
          BY <1>1, <4>2 DEF EndSet, UnlockMutex
        <5> QED BY <1>0, <2>2, <2>3, <5>1 DEF SyncTypes
      <4> QED BY <4>1, <4>2
    <3> QED BY <2>1, <2>2, <3>1
  <2>4. CASE k = m /\ lockCount[m] = 1
    <3>1. IsFiniteSet(LockingAt(m)) /\ Cardinality(LockingAt(m)) = 1
      BY <1>2, <2>2, <2>4, SynchronizedAssumption DEF LockedBy
    <3>2. \E p : LockingAt(m) = {p}
      BY <3>1, FS_Singleton
    <3>3. i <= MaxCalls /\ n <= MaxCalls
      BY <1>0, <1>4, <1>7 DEF SettersInv, Shallow
    <3>4. i \in 1 .. MaxCalls /\ n \in 1 .. MaxCalls /\ i <= Len(calls[u]) /\ n <= Len(calls[th])
      BY <1>4, <3>3, CallsAssumption DEF CallsFormed
    <3>5. <<u, i>> \in LockingAt(m)
      BY <1>7, <2>1, <2>4, <3>4 DEF LockingAt, SettingAt, Setting
    <3>6. <<th, n>> \in LockingAt(m)
      BY <1>0, <1>1, <1>4, <3>4 DEF LockingAt, SettingAt, Setting, Locked
    <3>7. <<u, i>> = <<th, n>>
      BY <3>2, <3>5, <3>6
    <3> QED BY <1>7, <3>7
  <2> QED BY <2>3, <2>4
<1>8. \A d \in AllCalls' : SetMutex(d)'
  <2>1. \A d \in AllCalls' : d \in AllCalls
    BY <1>0, CallsNew
  <2> QED BY <1>0, <2>1, MutexesKept
<1>9. Owned'
  BY <1>4, <1>7, OwnedElsewhere
<1>10. ASSUME NEW p \in Objects, propLocks'[p] # NoMutex PROVE LockedBy(propLocks[p])'
  <2>1. PICK k : k = propLocks[p]
    OBVIOUS
  <2>2. k \in Mutexes /\ LockedBy(k) /\ Shallow({"set"})
    BY <1>0, <1>10, <2>1 DEF SyncTypes, LocksInv, SettersInv
  <2>3. lockCount'[k] = lockCount[k] - One(Setting(Top(th), Locked, "mutex", k))
    BY <1>6, <2>2
  <2>4. LockedBy(k)'
    BY <1>0, <2>2, <2>3, LocksLeave
  <2> QED BY <1>0, <2>1, <2>4 DEF LockedBy, LockingAt, SettingAt
<1> QED BY <1>8, <1>9, <1>10 DEF LocksInv

\* The mutexes of blocks are none of the properties'.
LEMMA BlocksApart ==
    ASSUME SyncInv, NEW m \in Mutexes,
           owner[m] = NoMutex \/ \E o \in Objects : m = syncMutexes[o], NEW p \in Objects
    PROVE  propLocks[p] # m
<1>1. Entries /\ m # NoMutex
  BY SynchronizedAssumption DEF SyncInv
<1>2. CASE owner[m] = NoMutex
  BY <1>1, <1>2 DEF Entries
<1>3. CASE \E o \in Objects : m = syncMutexes[o]
  BY <1>1, <1>3 DEF Entries
<1> QED BY <1>2, <1>3

\* Blocks and getters leave the locks to the setters.
LEMMA LocksBeside ==
    ASSUME CallsFormed, CallsFormed', SyncInv, SettersInv, LocksInv, NEW th \in Threads,
           BesideSetters(th)
    PROVE  LocksInv'
<1>0. /\ SyncTypes /\ Entries /\ NoMutex \notin Mutexes /\ NoMutex \notin Threads
      /\ Nobody \notin Threads /\ Step({"sync", "get"}) /\ "set" \notin {"sync", "get"}
  BY BesideMoves, SynchronizedAssumption DEF SyncInv
<1>1. \A p \in Objects : propLocks[p] # NoMutex => LockedBy(propLocks[p]) /\ propLocks[p] \in Mutexes
  BY <1>0 DEF LocksInv, SyncTypes
<1>2. ASSUME UNCHANGED propLocks, NEW m \in Mutexes,
             owner[m] = NoMutex \/ \E o \in Objects : m = syncMutexes[o],
             \A k \in Mutexes : k # m => owner'[k] = owner[k] /\ lockCount'[k] = lockCount[k]
      PROVE  LocksInv'
  <2>1. \A p \in Objects : propLocks[p] # m
    BY <1>2, BlocksApart
  <2>2. \A p \in Objects : propLocks[p] # NoMutex =>
            lockCount'[propLocks[p]] = lockCount[propLocks[p]]
            /\ owner'[propLocks[p]] = owner[propLocks[p]]
    BY <1>1, <1>2, <2>1
  <2> QED BY <1>0, <1>1, <1>2, <2>2, LocksForeign
<1>3. ASSUME UNCHANGED mutexVars PROVE LocksInv'
  BY <1>0, <1>1, <1>3, LocksForeign DEF mutexVars
<1>4. ASSUME NEW o \in Objects, ObjcSyncEnter(th, o) PROVE LocksInv'
  <2>1. PICK m : m = MutexOf(syncMutexes, o)
    OBVIOUS
  <2>2. m \in Mutexes /\ (owner[m] = NoMutex \/ m = syncMutexes[o])
    BY <1>0, <2>1, MutexFound
  <2>3. UNCHANGED propLocks /\ (LockMutex(th, m) \/ UNCHANGED <<owner, lockCount>>)
    BY <1>4, <2>1 DEF ObjcSyncEnter
  <2>4. \A k \in Mutexes : k # m => owner'[k] = owner[k] /\ lockCount'[k] = lockCount[k]
    BY <1>0, <2>3 DEF LockMutex, SyncTypes
  <2> QED BY <1>2, <2>2, <2>3, <2>4
<1>5. ASSUME NEW o \in Objects, ObjcSyncExit(th, o) PROVE LocksInv'
  <2>1. PICK m : m = syncMutexes[o]
    OBVIOUS
  <2>2. m \in Mutexes /\ UNCHANGED propLocks
    BY <1>0, <1>5, <2>1 DEF ObjcSyncExit, SyncTypes
  <2>3. \E w, n : owner' = [owner EXCEPT ![m] = w] /\ lockCount' = [lockCount EXCEPT ![m] = n]
    BY <1>5, <2>1 DEF ObjcSyncExit, UnlockMutex
  <2>4. \A k \in Mutexes : k # m => owner'[k] = owner[k] /\ lockCount'[k] = lockCount[k]
    BY <1>0, <2>3 DEF SyncTypes
  <2> QED BY <1>2, <2>1, <2>2, <2>4
<1>6. CASE SyncEntered(th)
  <2>1. /\ calls[th] # <<>> /\ Top(th).kind = "sync" /\ UNCHANGED propLocks
        /\ LockMutex(th, Top(th).mutex)
    BY <1>6 DEF SyncEntered, At
  <2>2. LockSound(Top(th))
    BY <2>1, CallsStay DEF SyncInv
  <2>3. PICK m : m = Top(th).mutex
    OBVIOUS
  <2>4. m \in Mutexes /\ \E o \in Objects : m = syncMutexes[o]
    BY <1>0, <2>1, <2>2, <2>3 DEF LockSound, SyncTypes
  <2>5. \A k \in Mutexes : k # m => owner'[k] = owner[k] /\ lockCount'[k] = lockCount[k]
    BY <1>0, <2>1, <2>3 DEF LockMutex, SyncTypes
  <2> QED BY <1>2, <2>1, <2>4, <2>5
<1>7. CASE GetterLocked(th)
  BY <1>3, <1>7 DEF GetterLocked, syncVars
<1>8. ASSUME NEW o \in Objects, GetProperty(th, o) PROVE LocksInv'
  <2>1. PICK m : m = MutexOf(propLocks, o)
    OBVIOUS
  <2>2. m \in Mutexes /\ (propLocks[o] = m \/ (propLocks[o] = NoMutex /\ owner[m] = NoMutex))
    BY <1>0, <2>1, MutexFound
  <2>3. /\ propLocks' = [propLocks EXCEPT ![o] = m] /\ UNCHANGED lockCount
        /\ \/ /\ CanLock(th, m)
              /\ owner' = [owner EXCEPT ![m] = IF @ = th THEN th ELSE Nobody]
           \/ UNCHANGED owner
    BY <1>8, <2>1 DEF GetProperty
  <2>4. \A p \in Objects :
               /\ propLocks'[p] # NoMutex => propLocks'[p] \in Mutexes /\ LockedBy(propLocks'[p])
               /\ propLocks[p] # NoMutex => propLocks'[p] = propLocks[p]
    BY <2>2, <2>3, EntryLocked
  <2>5. \A k \in Mutexes : owner[k] \in Threads => owner'[k] = owner[k]
    BY <1>0, <2>2, <2>3 DEF CanLock, SyncTypes
  <2>6. \A p \in Objects : propLocks'[p] # NoMutex =>
               /\ lockCount'[propLocks'[p]] = lockCount[propLocks'[p]]
               /\ owner[propLocks'[p]] \in Threads => owner'[propLocks'[p]] = owner[propLocks'[p]]
    BY <2>3, <2>4, <2>5
  <2> QED BY <1>0, <2>4, <2>6, LocksForeign
<1> QED BY <1>4, <1>5, <1>6, <1>7, <1>8 DEF BesideSetters, BlockCalls

\* Every step keeps the locks with the setters.
LEMMA LocksStep ==
    ASSUME LawfulSets, SyncInv, SettersInv, LocksInv, CallsFormed, CallsFormed', [Next]_vars
    PROVE  LocksInv'
<1>1. ASSUME NEW K, Step(K), "set" \notin K, UNCHANGED mutexVars PROVE LocksInv'
  <2>1. \A p \in Objects : propLocks[p] # NoMutex => LockedBy(propLocks[p])
    BY DEF LocksInv
  <2> QED BY <1>1, <2>1, LocksForeign DEF mutexVars
<1>2. ASSUME NEW th \in Threads,
             \/ SetterLocked(th) \/ ReadOld(th) \/ Store(th)
             \/ EndDealloc(th) \/ \E v \in Values : EndCopy(th, v)
      PROVE  LocksInv'
  <2>1. PICK c : /\ calls[th] # <<>> /\ Top(th).kind = "set"
                 /\ Continue(th, c) /\ GoesOn(th, c)
    BY <1>2, SetterGoesOn
  <2>2. CASE SetterLocked(th)
    <3>1. /\ Top(th).stage = "sleep" /\ CanLock(th, Top(th).mutex)
          /\ LockMutex(th, Top(th).mutex) /\ UNCHANGED propLocks
      BY <2>2 DEF SetterLocked, At
    <3> QED BY <2>1, <3>1, LocksGoOn
  <2>3. CASE ReadOld(th) \/ Store(th) \/ EndDealloc(th) \/ \E v \in Values : EndCopy(th, v)
    <3>1. Top(th).stage \in Locked /\ UNCHANGED mutexVars
      BY <2>3 DEF ReadOld, Store, EndDealloc, EndCopy, At, Locked, syncVars
    <3>2. UNCHANGED propLocks /\ UNCHANGED <<owner, lockCount>>
      BY <3>1 DEF mutexVars
    <3> QED BY <2>1, <3>1, <3>2, LocksGoOn
  <2> QED BY <1>2, <2>2, <2>3
<1>3. ASSUME NEW th \in Threads, NEW v \in Values, NewValue(th, v) \/ ReleaseValue(th, v)
      PROVE  LocksInv'
  <2>1. Step({}) /\ UNCHANGED mutexVars
    BY <1>3 DEF NewValue, ReleaseValue, Step
  <2> QED BY <1>1, <2>1
<1>4. ASSUME NEW K, Step(K), K \cap LockKinds = {}, UNCHANGED syncVars PROVE LocksInv'
  BY <1>1, <1>4 DEF LockKinds, syncVars
<1> QED BY <1>2, <1>3, <1>4, LocksBegin, LocksEnd, LocksBeside, PropertySteps

\* Nothing is locked at first.
LEMMA LocksInit == ASSUME Init PROVE LocksInv
<1>1. calls = [th \in Threads |-> <<>>] /\ propLocks = [o \in Objects |-> NoMutex]
  BY DEF Init, SynchronizedInit
<1>2. AllCalls = {}
  BY <1>1, CallsFormedInit, InCalls
<1> QED BY <1>1, <1>2 DEF LocksInv, Owned

-----------------------------------------------------------------------------
(***************************************************************************)
(* The values of properties: the count of a value is made up of the        *)
(* guest's reference, the properties that have it and the setters about to *)
(* store it.                                                               *)
(***************************************************************************)

\* Who holds references to a value, by PropertyRefsExact.
IvarOf(v) == {o \in Objects : ivar[o] = v}
StoringAt(v) == SettingAt({"store"}, "value", v)

ValueTypes ==
    /\ ivar \in [Objects -> Values \cup {NoValue}]
    /\ valueRefs \in [Values -> Nat]
    /\ held \subseteq Values

\* The old value that a setter is going to release is that of the property.
Current(c) == c.kind = "set" /\ c.stage \in {"copy", "store"} => c.old = ivar[c.object]

ValueExact(v) ==
    /\ IsFiniteSet(StoringAt(v))
    /\ valueRefs[v] = One(v \in held) + Cardinality(IvarOf(v)) + Cardinality(StoringAt(v))

ValuesInv ==
    /\ ValueTypes
    /\ \A c \in AllCalls : Current(c)
    /\ \A v \in Values : ValueExact(v)

\* The counts are numbers.
LEMMA ValueCounts ==
    ASSUME ValuesInv, NEW v \in Values
    PROVE  /\ v # NoValue /\ valueRefs[v] \in Nat /\ One(v \in held) \in Nat
           /\ IsFiniteSet(IvarOf(v)) /\ Cardinality(IvarOf(v)) \in Nat
           /\ IsFiniteSet(StoringAt(v)) /\ Cardinality(StoringAt(v)) \in Nat
           /\ valueRefs[v] = One(v \in held) + Cardinality(IvarOf(v)) + Cardinality(StoringAt(v))
<1>1. v # NoValue
  BY SynchronizedAssumption
<1>2. valueRefs[v] \in Nat /\ One(v \in held) \in Nat
  BY DEF ValuesInv, ValueTypes, One
<1>3. IsFiniteSet(IvarOf(v)) /\ Cardinality(IvarOf(v)) \in Nat
  <2>1. IvarOf(v) \subseteq Objects /\ IsFiniteSet(Objects)
    BY SynchronizedAssumption DEF IvarOf
  <2> QED BY <2>1, FS_Subset, FS_CardinalityType
<1>4. ValueExact(v)
  BY DEF ValuesInv
<1>5. IsFiniteSet(StoringAt(v)) /\ Cardinality(StoringAt(v)) \in Nat
  BY <1>4, FS_CardinalityType DEF ValueExact
<1> QED BY <1>1, <1>2, <1>3, <1>4, <1>5 DEF ValueExact

\* A step that leaves the properties alone keeps a count, if the references
\* follow the setters.
LEMMA ValueFollows ==
    ASSUME ValuesInv, NEW v \in Values, UNCHANGED <<ivar, held>>, NEW a \in Int,
           IsFiniteSet(StoringAt(v)'), Cardinality(StoringAt(v)') = Cardinality(StoringAt(v)) + a,
           valueRefs'[v] = valueRefs[v] + a
    PROVE  ValueExact(v)'
<1>1. IvarOf(v)' = IvarOf(v)
  BY DEF IvarOf
<1>2. /\ valueRefs[v] \in Nat /\ One(v \in held) \in Nat
      /\ Cardinality(IvarOf(v)) \in Nat /\ Cardinality(StoringAt(v)) \in Nat
      /\ valueRefs[v] = One(v \in held) + Cardinality(IvarOf(v)) + Cardinality(StoringAt(v))
  BY ValueCounts
<1>3. \A r, x, y, z \in Nat : r = x + y + z => r + a = x + y + (z + a)
  OBVIOUS
<1>4. valueRefs'[v] = One(v \in held) + Cardinality(IvarOf(v)) + (Cardinality(StoringAt(v)) + a)
  BY <1>2, <1>3
<1> QED BY <1>1, <1>4 DEF ValueExact

\* Steps of others.
LEMMA ValuesForeign ==
    ASSUME CallsFormed, CallsFormed', ValuesInv, NEW K, Step(K), "set" \notin K,
           UNCHANGED valueVars
    PROVE  ValuesInv'
<1>1. UNCHANGED <<ivar, valueRefs, held>>
  BY DEF valueVars
<1>2. \A c \in AllCalls' : Current(c)'
  <2>1. \A c : c.kind = "set" => (c \in AllCalls <=> c \in AllCalls')
    BY ForeignCalls
  <2> QED BY <1>1, <2>1 DEF ValuesInv, Current
<1>3. ASSUME NEW v \in Values PROVE ValueExact(v)'
  <2>1. StoringAt(v)' = StoringAt(v)
    BY SettingSame DEF StoringAt
  <2>2. IvarOf(v)' = IvarOf(v)
    BY <1>1 DEF IvarOf
  <2> QED BY <1>1, <2>1, <2>2 DEF ValuesInv, ValueExact
<1> QED BY <1>1, <1>2, <1>3 DEF ValuesInv, ValueTypes

\* A setter begins.
LEMMA ValuesBegin ==
    ASSUME CallsFormed, CallsFormed', ValuesInv, NEW th \in Threads, NEW o, NEW v, NEW copy,
           NEW atomic, SetProperty(th, o, v, copy, atomic)
    PROVE  ValuesInv'
<1>1. PICK c : /\ Enter(th, c) /\ c.kind = "set" /\ c.stage \in {"read", "sleep"}
               /\ Len(calls[th]) < MaxCalls /\ UNCHANGED <<ivar, valueRefs, held>>
  <2>1. \A m : \A stage \in {"read", "sleep"} :
            LET c == SetCall(o, v, copy, m, stage)
            IN c.kind = "set" /\ c.stage \in {"read", "sleep"}
    BY DEF SetCall
  <2>2. Len(calls[th]) < MaxCalls /\ UNCHANGED <<ivar, valueRefs, held>>
    BY DEF SetProperty, CanCall, valueVars
  <2>3. \E m : \E stage \in {"read", "sleep"} : Enter(th, SetCall(o, v, copy, m, stage))
    BY DEF SetProperty
  <2> QED BY <2>1, <2>2, <2>3
<1>2. \A d \in AllCalls' : Current(d)'
  <2>1. \A d \in AllCalls' : d = c \/ d \in AllCalls
    BY <1>1, CallsNew
  <2> QED BY <1>1, <2>1 DEF ValuesInv, Current
<1>3. ASSUME NEW w \in Values PROVE ValueExact(w)'
  <2>1. ~ Setting(c, {"store"}, "value", w)
    BY <1>1 DEF Setting
  <2>2. /\ IsFiniteSet(StoringAt(w)')
        /\ Cardinality(StoringAt(w)') = Cardinality(StoringAt(w)) + One(Setting(c, {"store"}, "value", w))
    BY <1>1, ValueCounts, SettingEnter DEF StoringAt
  <2>3. One(Setting(c, {"store"}, "value", w)) = 0 /\ valueRefs[w] + 0 = valueRefs[w]
    BY <2>1, ValueCounts DEF One
  <2>4. UNCHANGED <<ivar, held>> /\ valueRefs'[w] = valueRefs[w] + 0
    BY <1>1, <2>3
  <2>5. Cardinality(StoringAt(w)') = Cardinality(StoringAt(w)) + 0
    BY <2>2, <2>3
  <2> QED BY <2>2, <2>4, <2>5, ValueFollows
<1> QED BY <1>1, <1>2, <1>3 DEF ValuesInv, ValueTypes

\* A setter goes on, with what it is going to store.
LEMMA ValuesGoOn ==
    ASSUME CallsFormed, CallsFormed', SettersInv, ValuesInv, NEW th \in Threads,
           calls[th] # <<>>, Top(th).kind = "set", NEW c, Continue(th, c), Current(c),
           UNCHANGED <<ivar, held>>, valueRefs' \in [Values -> Nat],
           \A v \in Values :
               valueRefs'[v] = valueRefs[v] + (One(Setting(c, {"store"}, "value", v))
                                               - One(Setting(Top(th), {"store"}, "value", v)))
    PROVE  ValuesInv'
<1>1. \A d \in AllCalls' : Current(d)'
  <2>1. \A d \in AllCalls' : d = c \/ d \in AllCalls
    BY CallsNew
  <2> QED BY <2>1 DEF ValuesInv, Current
<1>2. ASSUME NEW v \in Values PROVE ValueExact(v)'
  <2> DEFINE a == One(Setting(c, {"store"}, "value", v))
             b == One(Setting(Top(th), {"store"}, "value", v))
  <2>1. Shallow({"set"}) /\ IsFiniteSet(StoringAt(v)) /\ Cardinality(StoringAt(v)) \in Nat
    BY ValueCounts DEF SettersInv
  <2>2. /\ IsFiniteSet(StoringAt(v)')
        /\ Cardinality(StoringAt(v)') = Cardinality(StoringAt(v)) - b + a
    BY <2>1, SettingContinue DEF StoringAt
  <2>3. a \in Int /\ b \in Int
    BY DEF One
  <2>4. valueRefs'[v] = valueRefs[v] + (a - b)
    OBVIOUS
  <2> HIDE DEF a, b
  <2>5. a - b \in Int /\ Cardinality(StoringAt(v)') = Cardinality(StoringAt(v)) + (a - b)
    BY <2>1, <2>2, <2>3
  <2> QED BY <2>2, <2>4, <2>5, ValueFollows
<1> QED BY <1>1, <1>2 DEF ValuesInv, ValueTypes

\* What a setter retains it is going to store.
LEMMA ValueRetained ==
    ASSUME CallsFormed, CallsFormed', SettersInv, ValuesInv, NEW th \in Threads,
           calls[th] # <<>>, Top(th).kind = "set", Top(th).stage # "store",
           NEW c, Continue(th, c), c.kind = "set", Current(c), UNCHANGED <<ivar, held>>,
           \/ UNCHANGED valueRefs /\ (c.stage # "store" \/ c.value \notin Values)
           \/ /\ c.stage = "store" /\ c.value \in Values
              /\ valueRefs' = [valueRefs EXCEPT ![c.value] = @ + 1]
    PROVE  ValuesInv'
<1>1. valueRefs \in [Values -> Nat]
  BY DEF ValuesInv, ValueTypes
<1>2. valueRefs' \in [Values -> Nat]
  BY <1>1
<1>3. ASSUME NEW v \in Values
      PROVE  valueRefs'[v] = valueRefs[v] + (One(Setting(c, {"store"}, "value", v))
                                             - One(Setting(Top(th), {"store"}, "value", v)))
  <2>1. One(Setting(Top(th), {"store"}, "value", v)) = 0
    BY DEF Setting, One
  <2>2. CASE UNCHANGED valueRefs /\ (c.stage # "store" \/ c.value \notin Values)
    <3>1. One(Setting(c, {"store"}, "value", v)) = 0
      BY <2>2 DEF Setting, One
    <3> QED BY <1>1, <2>1, <2>2, <3>1
  <2>3. CASE /\ c.stage = "store" /\ c.value \in Values
             /\ valueRefs' = [valueRefs EXCEPT ![c.value] = @ + 1]
    <3>1. Setting(c, {"store"}, "value", v) <=> v = c.value
      BY <2>3 DEF Setting
    <3>2. One(Setting(c, {"store"}, "value", v)) = IF v = c.value THEN 1 ELSE 0
      BY <3>1 DEF One
    <3>3. CASE v = c.value
      <4>1. valueRefs'[v] = valueRefs[v] + 1
        BY <1>1, <2>3, <3>3
      <4> QED BY <1>1, <2>1, <3>2, <3>3, <4>1
    <3>4. CASE v # c.value
      <4>1. valueRefs'[v] = valueRefs[v]
        BY <1>1, <2>3, <3>4
      <4> QED BY <1>1, <2>1, <3>2, <3>4, <4>1
    <3> QED BY <3>3, <3>4
  <2> QED BY <2>2, <2>3
<1> QED BY <1>2, <1>3, ValuesGoOn

\* The steps of a setter but the one that stores the value.
LEMMA ValuesSetter ==
    ASSUME CallsFormed, CallsFormed', SettersInv, ValuesInv, NEW th \in Threads,
           \/ SetterLocked(th) \/ ReadOld(th) \/ EndDealloc(th)
           \/ \E v \in Values : EndCopy(th, v)
    PROVE  ValuesInv'
<1>1. ASSUME NEW stage, At(th, "set", stage)
      PROVE  /\ calls[th] # <<>> /\ Top(th).kind = "set" /\ Top(th).stage = stage
             /\ {"kind", "stage", "object", "value", "copy", "mutex", "old"} \subseteq DOMAIN Top(th)
             /\ Top(th).value \in Values \cup {NoValue} /\ Current(Top(th))
  <2>1. /\ calls[th] # <<>> /\ Top(th).kind = "set" /\ Top(th).stage = stage
        /\ {"kind", "stage", "object", "value", "copy", "mutex", "old"} \subseteq DOMAIN Top(th)
        /\ Top(th) \in AllCalls /\ SetSound(Top(th))
    BY <1>1, SetterTop
  <2> QED BY <2>1 DEF SetSound, ValuesInv
<1>2. CASE SetterLocked(th)
  <2>1. PICK c : c = [Top(th) EXCEPT !.stage = "read"]
    OBVIOUS
  <2>2. /\ calls[th] # <<>> /\ Top(th).kind = "set" /\ Top(th).stage # "store"
        /\ c.kind = "set" /\ c.stage = "read"
    BY <1>1, <1>2, <2>1 DEF SetterLocked
  <2>3. Continue(th, c) /\ UNCHANGED <<ivar, held>> /\ UNCHANGED valueRefs
    BY <1>2, <2>1 DEF SetterLocked, valueVars
  <2>4. Current(c)
    BY <2>2 DEF Current
  <2> QED BY <2>2, <2>3, <2>4, ValueRetained
<1>3. CASE EndDealloc(th)
  <2>1. PICK c : c = [Top(th) EXCEPT !.stage = "end"]
    OBVIOUS
  <2>2. /\ calls[th] # <<>> /\ Top(th).kind = "set" /\ Top(th).stage # "store"
        /\ c.kind = "set" /\ c.stage = "end"
    BY <1>1, <1>3, <2>1 DEF EndDealloc
  <2>3. Continue(th, c) /\ UNCHANGED <<ivar, held>> /\ UNCHANGED valueRefs
    BY <1>3, <2>1 DEF EndDealloc, syncVars, valueVars
  <2>4. Current(c)
    BY <2>2 DEF Current
  <2> QED BY <2>2, <2>3, <2>4, ValueRetained
<1>4. CASE ReadOld(th)
  <2>1. /\ calls[th] # <<>> /\ Top(th).kind = "set" /\ Top(th).stage = "read"
        /\ {"kind", "stage", "object", "value", "copy", "mutex", "old"} \subseteq DOMAIN Top(th)
        /\ Top(th).value \in Values \cup {NoValue} /\ UNCHANGED <<ivar, held>>
        /\ NoValue \notin Values
    BY <1>1, <1>4, SynchronizedAssumption DEF ReadOld
  <2>2. PICK d : d = [Top(th) EXCEPT !.old = ivar[Top(th).object]]
    OBVIOUS
  <2>3. /\ d.kind = "set" /\ d.object = Top(th).object /\ d.old = ivar[d.object]
        /\ d.value = Top(th).value
        /\ {"kind", "stage", "object", "value", "copy", "mutex", "old"} \subseteq DOMAIN d
    BY <2>1, <2>2
  <2>4. ASSUME NEW stage
        PROVE  LET c == [d EXCEPT !.stage = stage]
               IN c.kind = "set" /\ c.stage = stage /\ c.value = Top(th).value /\ Current(c)
    BY <2>3 DEF Current
  <2>5. CASE d.copy
    <3>1. PICK c : c = [d EXCEPT !.stage = "copy"]
      OBVIOUS
    <3>2. Continue(th, c) /\ UNCHANGED valueRefs
      BY <1>4, <2>2, <2>5, <3>1 DEF ReadOld
    <3>3. c.kind = "set" /\ c.stage = "copy" /\ Current(c)
      BY <2>4, <3>1
    <3> QED BY <2>1, <3>2, <3>3, ValueRetained
  <2>6. CASE ~ d.copy
    <3>1. PICK c : c = [d EXCEPT !.stage = "store"]
      OBVIOUS
    <3>2. /\ Continue(th, c)
          /\ valueRefs' = IF Top(th).value = NoValue THEN valueRefs
                          ELSE [valueRefs EXCEPT ![Top(th).value] = @ + 1]
      BY <1>4, <2>2, <2>6, <3>1 DEF ReadOld
    <3>3. c.kind = "set" /\ c.stage = "store" /\ c.value = Top(th).value /\ Current(c)
      BY <2>4, <3>1
    <3>4. \/ UNCHANGED valueRefs /\ c.value \notin Values
          \/ c.value \in Values /\ valueRefs' = [valueRefs EXCEPT ![c.value] = @ + 1]
      BY <2>1, <3>2, <3>3
    <3> QED BY <2>1, <3>2, <3>3, <3>4, ValueRetained
  <2> QED BY <2>5, <2>6
<1>5. ASSUME NEW v \in Values, EndCopy(th, v) PROVE ValuesInv'
  <2>1. /\ calls[th] # <<>> /\ Top(th).kind = "set" /\ Top(th).stage = "copy"
        /\ {"kind", "stage", "object", "value", "copy", "mutex", "old"} \subseteq DOMAIN Top(th)
        /\ Current(Top(th)) /\ UNCHANGED <<ivar, held>>
        /\ valueRefs' = [valueRefs EXCEPT ![v] = @ + 1]
    BY <1>1, <1>5 DEF EndCopy
  <2>2. PICK c : c = [Top(th) EXCEPT !.stage = "store", !.value = v]
    OBVIOUS
  <2>3. Continue(th, c)
    BY <1>5, <2>2 DEF EndCopy
  <2>4. /\ c.kind = "set" /\ c.stage = "store" /\ c.value = v
        /\ c.old = Top(th).old /\ c.object = Top(th).object
    BY <2>1, <2>2
  <2>5. Current(c)
    BY <2>1, <2>4 DEF Current
  <2> QED BY <2>1, <2>3, <2>4, <2>5, ValueRetained
<1> QED BY <1>2, <1>3, <1>4, <1>5

\* A setter ends.
LEMMA ValuesEnd ==
    ASSUME CallsFormed, CallsFormed', SettersInv, ValuesInv, NEW th \in Threads, EndSet(th)
    PROVE  ValuesInv'
<1>1. /\ calls[th] # <<>> /\ Top(th).kind = "set" /\ Top(th).stage = "end" /\ Leave(th)
      /\ UNCHANGED <<ivar, valueRefs, held>>
  BY DEF EndSet, At, valueVars
<1>2. \A d \in AllCalls' : Current(d)'
  <2>1. \A d \in AllCalls' : d \in AllCalls
    BY <1>1, CallsNew
  <2> QED BY <1>1, <2>1 DEF ValuesInv, Current
<1>3. ASSUME NEW v \in Values PROVE ValueExact(v)'
  <2>1. Shallow({"set"}) /\ IsFiniteSet(StoringAt(v)) /\ Cardinality(StoringAt(v)) \in Nat
        /\ valueRefs[v] \in Nat
    BY ValueCounts DEF SettersInv
  <2>2. One(Setting(Top(th), {"store"}, "value", v)) = 0
    BY <1>1 DEF Setting, One
  <2>3. /\ IsFiniteSet(StoringAt(v)')
        /\ Cardinality(StoringAt(v)') = Cardinality(StoringAt(v))
                                        - One(Setting(Top(th), {"store"}, "value", v))
    BY <1>1, <2>1, SettingLeave DEF StoringAt
  <2>4. Cardinality(StoringAt(v)') = Cardinality(StoringAt(v)) + 0
    BY <2>1, <2>2, <2>3
  <2>5. UNCHANGED <<ivar, held>> /\ valueRefs'[v] = valueRefs[v] + 0
    BY <1>1, <2>1
  <2> QED BY <2>3, <2>4, <2>5, ValueFollows
<1> QED BY <1>1, <1>2, <1>3 DEF ValuesInv, ValueTypes

\* The guest makes a value or gives its reference up.
LEMMA ValuesHeld ==
    ASSUME CallsFormed, CallsFormed', ValuesInv, NEW th \in Threads, NEW v \in Values,
           NewValue(th, v) \/ ReleaseValue(th, v)
    PROVE  ValuesInv'
<1>1. UNCHANGED <<ivar, calls>>
  BY DEF NewValue, ReleaseValue
<1>2. /\ valueRefs \in [Values -> Nat] /\ held \subseteq Values
      /\ valueRefs[v] = One(v \in held) + Cardinality(IvarOf(v)) + Cardinality(StoringAt(v))
      /\ valueRefs[v] \in Nat /\ Cardinality(IvarOf(v)) \in Nat /\ Cardinality(StoringAt(v)) \in Nat
  BY ValueCounts DEF ValuesInv, ValueTypes
<1>3. \A S, f, x : SettingAt(S, f, x)' = SettingAt(S, f, x)
  BY <1>1 DEF SettingAt, Setting
<1>4. \A w : StoringAt(w)' = StoringAt(w) /\ IvarOf(w)' = IvarOf(w)
  BY <1>1, <1>3 DEF StoringAt, IvarOf
<1>5. /\ held' \subseteq Values /\ valueRefs' \in [Values -> Nat]
      /\ valueRefs'[v] = One(v \in held') + Cardinality(IvarOf(v)) + Cardinality(StoringAt(v))
      /\ \A w \in Values \ {v} : valueRefs'[w] = valueRefs[w] /\ (w \in held' <=> w \in held)
  <2>1. CASE NewValue(th, v)
    <3>1. valueRefs[v] = 0 /\ valueRefs' = [valueRefs EXCEPT ![v] = 1] /\ held' = held \cup {v}
      BY <2>1 DEF NewValue
    <3>2. Cardinality(IvarOf(v)) = 0 /\ Cardinality(StoringAt(v)) = 0
      BY <1>2, <3>1 DEF One
    <3>3. One(v \in held') = 1 /\ valueRefs'[v] = 1
      BY <1>2, <3>1 DEF One
    <3> QED BY <1>2, <3>1, <3>2, <3>3
  <2>2. CASE ReleaseValue(th, v)
    <3>1. v \in held /\ valueRefs' = [valueRefs EXCEPT ![v] = @ - 1] /\ held' = held \ {v}
      BY <2>2 DEF ReleaseValue
    <3>2. One(v \in held) = 1 /\ One(v \in held') = 0
      BY <3>1 DEF One
    <3>3. valueRefs[v] - 1 = Cardinality(IvarOf(v)) + Cardinality(StoringAt(v))
          /\ valueRefs[v] - 1 \in Nat
      BY <1>2, <3>2
    <3>4. valueRefs'[v] = valueRefs[v] - 1 /\ valueRefs' \in [Values -> Nat]
      BY <1>2, <3>1, <3>3
    <3> QED BY <1>2, <3>1, <3>2, <3>3, <3>4
  <2> QED BY <2>1, <2>2
<1>6. ASSUME NEW w \in Values PROVE ValueExact(w)'
  <2>1. ValueExact(w)
    BY DEF ValuesInv
  <2>2. CASE w = v
    BY <1>4, <1>5, <2>1, <2>2 DEF ValueExact
  <2>3. CASE w # v
    BY <1>4, <1>5, <2>1, <2>3 DEF ValueExact, One
  <2> QED BY <2>2, <2>3
<1>7. \A c \in AllCalls' : Current(c)'
  BY <1>1 DEF ValuesInv, Current, AllCalls
<1>8. ivar' \in [Objects -> Values \cup {NoValue}]
  BY <1>1 DEF ValuesInv, ValueTypes
<1> QED BY <1>5, <1>6, <1>7, <1>8 DEF ValuesInv, ValueTypes

\* While a setter stores its value, no other is about to release the old one.
LEMMA StoreAlone ==
    ASSUME CallsFormed, SyncInv, SettersInv, LocksInv, NEW th \in Threads,
           At(th, "set", "store"), NEW u \in Threads, NEW j \in 1 .. Len(calls[u]),
           ~ (u = th /\ j = Len(calls[th])),
           calls[u][j].kind = "set", calls[u][j].object = Top(th).object
    PROVE  calls[u][j].stage \notin {"copy", "store"}
<1>1. /\ calls[th] # <<>> /\ Top(th).kind = "set" /\ Top(th).stage = "store"
      /\ Top(th) \in AllCalls
  BY SetterTop
<1>2. PICK n : n = Len(calls[th])
  OBVIOUS
<1>3. n \in Nat \ {0} /\ Top(th) = calls[th][n]
  BY <1>1, <1>2, Stacks DEF CallsFormed
<1>4. n \in 1 .. Len(calls[th]) /\ j \in Nat
  BY <1>2, <1>3
<1>5. Below /\ Alone /\ NotInCopy
  BY DEF SettersInv
<1>6. CASE u = th
  <2>1. j < n /\ j # Len(calls[u])
    BY <1>2, <1>3, <1>4, <1>6
  <2>2. calls[u][j].stage \in GuestStages
    BY <1>5, <2>1 DEF Below
  <2>3. calls[th][j].stage # "copy"
    BY <1>1, <1>3, <1>4, <1>5, <1>6, <2>1 DEF NotInCopy
  <2> QED BY <1>6, <2>2, <2>3 DEF GuestStages
<1>7. CASE u # th
  <2>1. calls[th][n].mutex # NoMutex /\ calls[u][j].mutex # NoMutex
    BY <1>1, <1>3, <1>4, <1>5, <1>7 DEF Alone
  <2>2. calls[u][j] \in AllCalls /\ calls[th][n] \in AllCalls
    BY <1>1, <1>3, InCalls
  <2>3. calls[th][n].mutex = calls[u][j].mutex
    BY <1>1, <1>3, <2>1, <2>2 DEF LocksInv, SetMutex
  <2>4. owner[calls[th][n].mutex] = th
    BY <1>1, <1>3, <1>4, <2>1, OwnersKept DEF Locked
  <2>5. calls[u][j].stage \in {"copy", "store"} => owner[calls[u][j].mutex] = u
    BY <2>1, OwnersKept DEF Locked
  <2> QED BY <1>7, <2>3, <2>4, <2>5
<1> QED BY <1>6, <1>7

\* A value is stored: the old one has a reference to lose.
LEMMA ValueStored ==
    ASSUME CallsFormed, CallsFormed', SyncInv, SettersInv, LocksInv, ValuesInv,
           NEW th \in Threads, Store(th)
    PROVE  ValuesInv' /\ UNCHANGED host
<1>0. At(th, "set", "store") /\ UNCHANGED held
  BY DEF Store
<1>1. /\ calls[th] # <<>> /\ Top(th).kind = "set" /\ Top(th).stage = "store"
      /\ {"kind", "stage", "object", "value", "copy", "mutex", "old"} \subseteq DOMAIN Top(th)
      /\ Top(th) \in AllCalls /\ SetSound(Top(th))
  BY <1>0, SetterTop
<1>2. PICK o, w, old : o = Top(th).object /\ w = Top(th).value /\ old = Top(th).old
  OBVIOUS
<1>3. /\ o \in Objects /\ w \in Values \cup {NoValue} /\ old = ivar[o]
      /\ ivar \in [Objects -> Values \cup {NoValue}] /\ valueRefs \in [Values -> Nat]
      /\ NoValue \notin Values
  BY <1>1, <1>2, SynchronizedAssumption DEF SetSound, ValuesInv, ValueTypes, Current
<1>4. old \in Values => valueRefs[old] \in Nat \ {0}
  <2> SUFFICES ASSUME old \in Values PROVE valueRefs[old] \in Nat \ {0}
    OBVIOUS
  <2>1. o \in IvarOf(old)
    BY <1>3 DEF IvarOf
  <2>2. /\ valueRefs[old] \in Nat /\ One(old \in held) \in Nat
        /\ IsFiniteSet(IvarOf(old)) /\ Cardinality(IvarOf(old)) \in Nat
        /\ Cardinality(StoringAt(old)) \in Nat
        /\ valueRefs[old] = One(old \in held) + Cardinality(IvarOf(old))
                            + Cardinality(StoringAt(old))
    BY ValueCounts
  <2>3. Cardinality(IvarOf(old)) # 0
    BY <2>1, <2>2, FS_EmptySet
  <2> QED BY <2>2, <2>3
<1>5. /\ ivar' = [ivar EXCEPT ![o] = w]
      /\ valueRefs' = IF old = NoValue THEN valueRefs ELSE [valueRefs EXCEPT ![old] = @ - 1]
      /\ UNCHANGED host
  BY <1>2, <1>3, <1>4 DEF Store
<1>6. PICK c : Continue(th, c) /\ c.kind = "set" /\ c.stage \in {"end", "dealloc"}
  <2>1. \A s : [Top(th) EXCEPT !.stage = s].kind = "set" /\ [Top(th) EXCEPT !.stage = s].stage = s
    BY <1>1
  <2>2. \E s \in {"end", "dealloc"} : Continue(th, [Top(th) EXCEPT !.stage = s])
    BY DEF Store
  <2> QED BY <2>1, <2>2
<1>7. /\ ivar' \in [Objects -> Values \cup {NoValue}] /\ valueRefs' \in [Values -> Nat]
      /\ held' \subseteq Values
  BY <1>0, <1>3, <1>4, <1>5 DEF ValuesInv, ValueTypes
<1>8. \A d \in AllCalls' : Current(d)'
  <2> SUFFICES ASSUME NEW d \in AllCalls', d.kind = "set", d.stage \in {"copy", "store"}
               PROVE  d.old = ivar'[d.object]
    BY DEF Current
  <2>0. PICK u \in Threads : \E j \in 1 .. Len(calls'[u]) : d = calls'[u][j]
    BY InNextCalls
  <2>1. PICK j \in 1 .. Len(calls'[u]) : d = calls'[u][j]
    BY <2>0
  <2>2. PICK n : n = Len(calls[th])
    OBVIOUS
  <2>3. Elsewhere(th, n) /\ calls'[th][n] = c
    BY <1>1, <1>6, <2>2, TopElsewhere
  <2>4. ~ (u = th /\ j = n)
    BY <1>6, <2>1, <2>3
  <2>5. j \in 1 .. Len(calls[u]) /\ d = calls[u][j]
    <3>1. j \in Nat
      BY DEF CallsFormed
    <3> QED BY <2>1, <2>3, <2>4, <3>1 DEF Elsewhere
  <2>6. d.object # o
    BY <1>0, <1>2, <2>2, <2>4, <2>5, StoreAlone
  <2>7. d \in AllCalls
    BY <2>5, InCalls
  <2>8. d.old = ivar[d.object] /\ d.object \in Objects
    BY <2>7 DEF ValuesInv, Current, SettersInv, SetSound
  <2> QED BY <1>3, <1>5, <2>6, <2>8
<1>9. ASSUME NEW v \in Values PROVE ValueExact(v)'
  <2>1. /\ v # NoValue /\ valueRefs[v] \in Nat /\ One(v \in held) \in Nat
        /\ IsFiniteSet(IvarOf(v)) /\ Cardinality(IvarOf(v)) \in Nat
        /\ IsFiniteSet(StoringAt(v)) /\ Cardinality(StoringAt(v)) \in Nat
        /\ valueRefs[v] = One(v \in held) + Cardinality(IvarOf(v)) + Cardinality(StoringAt(v))
    BY ValueCounts
  <2>2. \A p : p # o => (p \in IvarOf(v)' <=> p \in IvarOf(v))
    BY <1>3, <1>5 DEF IvarOf
  <2>3. /\ IsFiniteSet(IvarOf(v)') /\ Cardinality(IvarOf(v)') \in Nat
        /\ Cardinality(IvarOf(v)') - One(o \in IvarOf(v)') = Cardinality(IvarOf(v)) - One(o \in IvarOf(v))
    <3>1. IvarOf(v) \ {o} = IvarOf(v)' \ {o}
      BY <2>2
    <3> QED BY <2>1, <3>1, ButOne
  <2>4. One(o \in IvarOf(v)') = One(v = w) /\ One(o \in IvarOf(v)) = One(v = old)
    <3>1. (o \in IvarOf(v)' <=> v = w) /\ (o \in IvarOf(v) <=> v = old)
      BY <1>3, <1>5 DEF IvarOf
    <3> QED BY <3>1 DEF One
  <2>5. /\ IsFiniteSet(StoringAt(v)')
        /\ Cardinality(StoringAt(v)') = Cardinality(StoringAt(v)) - One(v = w)
    <3>1. Shallow({"set"})
      BY DEF SettersInv
    <3>2. /\ IsFiniteSet(StoringAt(v)')
          /\ Cardinality(StoringAt(v)') = Cardinality(StoringAt(v))
                                          - One(Setting(Top(th), {"store"}, "value", v))
                                          + One(Setting(c, {"store"}, "value", v))
      BY <1>1, <1>6, <2>1, <3>1, SettingContinue DEF StoringAt
    <3>3. One(Setting(c, {"store"}, "value", v)) = 0
      BY <1>6 DEF One, Setting
    <3>4. Setting(Top(th), {"store"}, "value", v) <=> v = w
      BY <1>1, <1>2 DEF Setting
    <3>5. One(Setting(Top(th), {"store"}, "value", v)) = One(v = w) /\ One(v = w) \in Int
      BY <3>4 DEF One
    <3> QED BY <2>1, <3>2, <3>3, <3>5
  <2>6. valueRefs'[v] = valueRefs[v] - One(v = old)
    <3>1. CASE v = old
      <4>1. valueRefs'[v] = valueRefs[v] - 1
        BY <1>3, <1>5, <2>1, <3>1
      <4> QED BY <3>1, <4>1 DEF One
    <3>2. CASE v # old
      <4>1. valueRefs'[v] = valueRefs[v]
        BY <1>3, <1>5, <3>2
      <4> QED BY <2>1, <3>2, <4>1 DEF One
    <3> QED BY <3>1, <3>2
  <2>7. \A r, h, i, s, i1, a, b \in Int :
            r = h + i + s /\ i1 - a = i - b => r - b = h + i1 + (s - a)
    OBVIOUS
  <2>8. One(v = w) \in Int /\ One(v = old) \in Int
    BY DEF One
  <2>9. valueRefs[v] - One(v = old) = One(v \in held) + Cardinality(IvarOf(v)')
                                      + (Cardinality(StoringAt(v)) - One(v = w))
    <3>1. Cardinality(IvarOf(v)') - One(v = w) = Cardinality(IvarOf(v)) - One(v = old)
      BY <2>3, <2>4
    <3> QED BY <2>1, <2>3, <2>7, <2>8, <3>1
  <2> QED BY <1>0, <2>5, <2>6, <2>9 DEF ValueExact
<1> QED BY <1>5, <1>7, <1>8, <1>9 DEF ValuesInv, ValueTypes

\* Every step keeps the references to the values exact.
LEMMA ValuesStep ==
    ASSUME SyncInv, SettersInv, LocksInv, ValuesInv, CallsFormed, CallsFormed', [Next]_vars
    PROVE  ValuesInv'
<1>1. ASSUME NEW th \in Threads, BesideSetters(th) PROVE ValuesInv'
  <2>1. Step({"sync", "get"}) /\ "set" \notin {"sync", "get"}
    BY <1>1, BesideMoves
  <2>2. UNCHANGED valueVars
    BY <1>1 DEF BesideSetters, BlockCalls, ObjcSyncEnter, ObjcSyncExit, SyncEntered,
       GetterLocked, GetProperty, syncVars
  <2> QED BY <2>1, <2>2, ValuesForeign
<1>2. ASSUME NEW K, Step(K), K \cap LockKinds = {}, UNCHANGED syncVars PROVE ValuesInv'
  <2>1. "set" \notin K /\ UNCHANGED valueVars
    BY <1>2 DEF LockKinds, syncVars
  <2> QED BY <1>2, <2>1, ValuesForeign
<1> QED BY <1>1, <1>2, ValuesBegin, ValuesSetter, ValueStored, ValuesEnd, ValuesHeld,
     PropertySteps

\* No property has a value at first.
LEMMA ValuesInit == ASSUME Init PROVE ValuesInv
<1>1. /\ calls = [th \in Threads |-> <<>>] /\ ivar = [o \in Objects |-> NoValue]
      /\ valueRefs = [v \in Values |-> 0] /\ held = {}
  BY DEF Init, SynchronizedInit
<1>2. AllCalls = {}
  BY <1>1, CallsFormedInit, InCalls
<1>3. ASSUME NEW v \in Values PROVE ValueExact(v)
  <2>1. IvarOf(v) = {}
    BY <1>1, SynchronizedAssumption DEF IvarOf
  <2>2. StoringAt(v) = {}
    <3>1. \A p \in Threads \X (1 .. MaxCalls) : ~ (p[2] <= Len(calls[p[1]]))
      BY <1>1, CallsAssumption
    <3> QED BY <3>1 DEF StoringAt, SettingAt
  <2> QED BY <1>1, <2>1, <2>2, FS_EmptySet DEF ValueExact, One
<1> QED BY <1>1, <1>2, <1>3 DEF ValuesInv, ValueTypes

\* The count of a value is that of the guest's reference, of the properties
\* that have it and of the setters about to store it.
LEMMA ValuesCounted == ASSUME CallsFormed, ValuesInv PROVE PropertyRefsExact
<1> SUFFICES ASSUME NEW v \in Values
             PROVE  valueRefs[v] = (IF v \in held THEN 1 ELSE 0)
                       + Cardinality({o \in Objects : ivar[o] = v})
                       + Cardinality({p \in Threads \X (1 .. MaxCalls) :
                             /\ p[2] <= Len(calls[p[1]])
                             /\ LET c == calls[p[1]][p[2]]
                                IN c.kind = "set" /\ c.stage = "store" /\ c.value = v})
  BY DEF PropertyRefsExact
<1>1. StoringAt(v) = {p \in Threads \X (1 .. MaxCalls) :
                          /\ p[2] <= Len(calls[p[1]])
                          /\ LET c == calls[p[1]][p[2]]
                             IN c.kind = "set" /\ c.stage = "store" /\ c.value = v}
  BY DEF StoringAt, SettingAt, Setting
<1>2. valueRefs[v] = One(v \in held) + Cardinality(IvarOf(v)) + Cardinality(StoringAt(v))
  BY ValueCounts
<1> QED BY <1>1, <1>2 DEF One, IvarOf

\* The invariant that both theorems need.
PropertyInv == SyncInv /\ SettersInv /\ LocksInv /\ ValuesInv

\* Properties are in order at first.
LEMMA PropertyInit == ASSUME Init PROVE PropertyInv
BY SyncInit, SettersInit, LocksInit, ValuesInit DEF PropertyInv

\* Every step keeps them so, if the guest sets properties as it should.
LEMMA PropertyStep ==
    ASSUME LawfulSets, PropertyInv, CallsFormed, CallsFormed', [Next]_vars PROVE PropertyInv'
BY SyncStep, SettersStep, LocksStep, ValuesStep DEF PropertyInv

\* The references that the properties have to their values are exact, if the
\* guest sets no property in the copy of a value for it, and such that are not
\* atomic in one thread at a time.
THEOREM PropertiesCounted == ASSUME LawfulSets PROVE Spec => []PropertyRefsExact
<1>1. Init => PropertyInv
  BY PropertyInit
<1>2. PropertyInv /\ CallsFormed /\ CallsFormed' /\ [Next]_vars => PropertyInv'
  BY PropertyStep
<1>3. PropertyInv /\ CallsFormed => PropertyRefsExact
  BY ValuesCounted DEF PropertyInv
<1> QED BY <1>1, <1>2, <1>3, CallsFormedAlways, PTL DEF Spec

-----------------------------------------------------------------------------
(***************************************************************************)
(* Nothing fails, in a program that fires, posts and sets as it should.    *)
(***************************************************************************)

\* What the guest does as it should.
LawfulReferences == LawfulFires /\ LawfulPosts /\ LawfulSets

\* Steps of blocks, operations and messages do not fail.
LEMMA OthersQuiet ==
    ASSUME NEW th \in Threads,
           \/ OperationCalls(th) \/ EndStart(th) \/ EndMain(th) \/ EndCompletion(th)
           \/ DispatchCalls(th) \/ EndBlock(th) \/ EndOnce(th)
           \/ MessageCalls(th) \/ BeginLoads(th) \/ MessageHost(th) \/ EndSend(th)
    PROVE  UNCHANGED host
<1>1. CASE OperationCalls(th) \/ EndStart(th) \/ EndMain(th) \/ EndCompletion(th)
  BY <1>1 DEF OperationCalls, EndStart, EndMain, EndCompletion, StartOperation,
       AddOperation, DropOperation, AddDependency, RemoveDependency, Cancel,
       CancelAllOperations, SetSuspended
<1>2. CASE DispatchCalls(th) \/ EndBlock(th) \/ EndOnce(th)
  BY <1>2 DEF DispatchCalls, EndBlock, EndOnce, DispatchOnce, DispatchBlock,
       DispatchDirect, DispatchApply, SemaphoreWait, SemaphoreSignal
<1>3. CASE MessageCalls(th) \/ BeginLoads(th) \/ MessageHost(th) \/ EndSend(th)
  BY <1>3 DEF MessageCalls, BeginLoads, MessageHost, EndSend, Send, SendSuper,
       InitializeNext, LoadNext, EndLoads, FindLoads, FindLoad, WalkLoads, EndWalk, AllFound
<1> QED BY <1>1, <1>2, <1>3

\* Nor do those of locks and properties.
LEMMA PropertiesHeld ==
    ASSUME PropertyInv, CallsFormed, CallsFormed', NEW th \in Threads,
           \/ BlockCalls(th) \/ PropertyCalls(th)
           \/ SynchronizedHost(th) \/ SynchronizedReturns(th)
    PROVE  UNCHANGED host
<1>1. CASE Store(th)
  BY <1>1, ValueStored DEF PropertyInv
<1>2. CASE ~ Store(th)
  BY <1>2 DEF BlockCalls, PropertyCalls, SynchronizedHost, SynchronizedReturns,
       ObjcSyncEnter, SyncEntered, ObjcSyncExit, NewValue, ReleaseValue, SetProperty,
       SetterLocked, ReadOld, EndCopy, EndDealloc, EndSet, GetProperty, GetterLocked
<1> QED BY <1>1, <1>2

\* The invariant: nothing has failed, and every reference counts.
HostInv ==
    /\ host = "up"
    /\ TimerInv /\ FiredAreOwned
    /\ CenterInv /\ PostsInv
    /\ PropertyInv

\* No step fails while the references count.
LEMMA HostStays ==
    ASSUME HostInv, CallsFormed, CallsFormed', [Next]_vars PROVE host' = "up"
<1> USE DEF HostInv
<1>1. CASE UNCHANGED vars
  BY <1>1 DEF vars
<1>2. CASE TimePasses
  BY <1>2 DEF TimePasses, BecomeDue
<1>3. ASSUME NEW th \in Threads, GuestStep(th) \/ HostStep(th) \/ WakeUp(th) \/ GuestReturns(th)
      PROVE  host' = "up"
  <2>1. CASE \/ TimerCalls(th) \/ RemoteCalls(th, LoopsRun)
             \/ RunLoopHost(th) \/ Wake(th) \/ EndTimer(th) \/ EndFire(th)
    <3>1. LoopStep
      BY <2>1 DEF LoopStep
    <3> QED BY <3>1, TimersHeld
  <2>2. CASE NotificationCalls(th) \/ NotificationHost(th) \/ EndDelivery(th)
    <3>1. CenterActs
      BY <2>2 DEF CenterActs
    <3> QED BY <3>1, ObserversHeld
  <2>3. CASE \/ OperationCalls(th) \/ EndStart(th) \/ EndMain(th) \/ EndCompletion(th)
             \/ DispatchCalls(th) \/ EndBlock(th) \/ EndOnce(th)
             \/ MessageCalls(th) \/ BeginLoads(th) \/ MessageHost(th) \/ EndSend(th)
    BY <2>3, OthersQuiet
  <2>4. CASE \/ BlockCalls(th) \/ PropertyCalls(th)
             \/ SynchronizedHost(th) \/ SynchronizedReturns(th)
    BY <2>4, PropertiesHeld
  <2> QED BY <1>3, <2>1, <2>2, <2>3, <2>4 DEF GuestStep, HostStep, WakeUp, GuestReturns
<1> QED BY <1>1, <1>2, <1>3 DEF Next

\* So none ever does.
LEMMA HostInvAlways == ASSUME LawfulReferences PROVE Spec => []HostInv
<1>1. Init => HostInv
  BY TimerInit, OwnedInit, CenterInit, PostsInit, PropertyInit DEF HostInv, Init
<1>2. HostInv /\ CallsFormed /\ CallsFormed' /\ [Next]_vars => HostInv'
  <2> SUFFICES ASSUME HostInv, CallsFormed, CallsFormed', [Next]_vars PROVE HostInv'
    OBVIOUS
  <2>1. /\ TimerInv /\ FiredAreOwned /\ CenterInv /\ PostsInv /\ PropertyInv
        /\ LawfulFires /\ LawfulPosts /\ LawfulSets
    BY DEF HostInv, LawfulReferences
  <2>2. host' = "up"
    BY HostStays
  <2>3. TimerInv' /\ FiredAreOwned'
    BY <2>1, TimerStep, OwnedStep
  <2>4. CenterInv'
    BY <2>1, CenterStep
  <2>5. PostsInv'
    BY <2>1, <2>4, PostsStep
  <2>6. PropertyInv'
    BY <2>1, PropertyStep
  <2> QED BY <2>2, <2>3, <2>4, <2>5, <2>6 DEF HostInv
<1> QED BY <1>1, <1>2, CallsFormedAlways, PTL DEF Spec

\* The references of all of them are exact, and no step fails.
LEMMA ReferencesCounted ==
    ASSUME LawfulReferences
    PROVE  Spec => [](host = "up" /\ TimerRefsExact /\ CenterRefsExact /\ PropertyRefsExact)
<1>1. HostInv /\ CallsFormed => host = "up" /\ PropertyRefsExact
  BY ValuesCounted DEF HostInv, PropertyInv
<1> QED BY <1>1, HostInvAlways, CallsFormedAlways, TimersCounted, CenterCounted, PTL DEF LawfulReferences

-----------------------------------------------------------------------------
(***************************************************************************)
(* Classes in the order of their superclasses.  A class is marked before   *)
(* it is sent +initialize, after all those above it; the pass that finds   *)
(* the classes with +load lists every one behind its superclasses.         *)
(***************************************************************************)

\* The class d is in the list, no further than the place i.
UpTo(d, list, i) == \E j \in 1 .. i : list[j] = d

\* The elements of a list, and the places they are at.
LEMMA InRange ==
    ASSUME NEW S, NEW s \in Seq(S)
    PROVE  /\ Len(s) \in Nat /\ Range(s) \subseteq S
           /\ \A x : x \in Range(s) <=> \E i \in 1 .. Len(s) : s[i] = x
<1>1. DOMAIN s = 1 .. Len(s) /\ Len(s) \in Nat /\ \A i \in 1 .. Len(s) : s[i] \in S
  OBVIOUS
<1> QED BY <1>1 DEF Range

\* One more element, at the end or at the front, and the first one taken away.
LEMMA Appended ==
    ASSUME NEW S, NEW s \in Seq(S), NEW x \in S
    PROVE  /\ Append(s, x) \in Seq(S) /\ Len(Append(s, x)) = Len(s) + 1
           /\ \A i \in 1 .. Len(s) : Append(s, x)[i] = s[i]
           /\ Append(s, x)[Len(s) + 1] = x
           /\ Range(Append(s, x)) = Range(s) \cup {x}
           /\ Distinct(s) /\ x \notin Range(s) => Distinct(Append(s, x))
<1>1. /\ Append(s, x) \in Seq(S) /\ Len(Append(s, x)) = Len(s) + 1
      /\ \A i \in 1 .. Len(s) : Append(s, x)[i] = s[i]
      /\ Append(s, x)[Len(s) + 1] = x
      /\ Len(s) \in Nat
  OBVIOUS
<1> DEFINE t == Append(s, x)
           n == Len(s)
<1>2. /\ t \in Seq(S) /\ Len(t) = n + 1 /\ n \in Nat /\ t[n + 1] = x
      /\ \A i \in 1 .. n : t[i] = s[i]
      /\ \A y : y \in Range(s) <=> \E i \in 1 .. n : s[i] = y
  BY <1>1, InRange
<1> HIDE DEF t, n
<1>3. \A y : y \in Range(t) <=> \E i \in 1 .. n + 1 : t[i] = y
  BY <1>2, InRange
<1>4. \A i \in 1 .. n + 1 : i \in 1 .. n \/ i = n + 1
  BY <1>2
<1>5. n + 1 \in 1 .. n + 1 /\ \A i \in 1 .. n : i \in 1 .. n + 1
  BY <1>2
<1>6. Range(t) = Range(s) \cup {x}
  BY <1>2, <1>3, <1>4, <1>5
<1>7. ASSUME Distinct(s), x \notin Range(s) PROVE Distinct(t)
  <2>1. \A i, j \in 1 .. n : s[i] = s[j] => i = j
    BY <1>7 DEF Distinct, n
  <2>2. \A i \in 1 .. n : s[i] # x
    BY <1>2, <1>7
  <2> QED BY <1>2, <1>4, <2>1, <2>2 DEF Distinct
<1> QED BY <1>2, <1>6, <1>7 DEF t, n

\* Two lists, one behind the other.
LEMMA Joined ==
    ASSUME NEW S, NEW s \in Seq(S), NEW t \in Seq(S)
    PROVE  /\ s \o t \in Seq(S) /\ Len(s \o t) = Len(s) + Len(t)
           /\ \A i \in 1 .. Len(s) : (s \o t)[i] = s[i]
           /\ \A i \in 1 .. Len(t) : (s \o t)[Len(s) + i] = t[i]
           /\ \A i \in 1 .. Len(s \o t) :
                  i \in 1 .. Len(s) \/ \E k \in 1 .. Len(t) : i = Len(s) + k
           /\ Range(s \o t) = Range(s) \cup Range(t)
           /\ Distinct(s) /\ Distinct(t) /\ Range(s) \cap Range(t) = {} => Distinct(s \o t)
<1> DEFINE q == s \o t
           m == Len(s)
           n == Len(t)
<1>1. /\ q \in Seq(S) /\ m \in Nat /\ n \in Nat /\ Len(q) = m + n
      /\ \A i \in 1 .. m + n : q[i] = IF i <= m THEN s[i] ELSE t[i - m]
  OBVIOUS
<1>2. /\ \A y : y \in Range(s) <=> \E i \in 1 .. m : s[i] = y
      /\ \A y : y \in Range(t) <=> \E i \in 1 .. n : t[i] = y
  BY InRange
<1> HIDE DEF q, m, n
<1>3. \A y : y \in Range(q) <=> \E i \in 1 .. m + n : q[i] = y
  BY <1>1, InRange
<1>4. \A i \in 1 .. m : i \in 1 .. m + n /\ i <= m
  BY <1>1
<1>5. \A i \in 1 .. m : q[i] = s[i]
  BY <1>1, <1>4
<1>6. ASSUME NEW i \in 1 .. n PROVE m + i \in 1 .. m + n /\ q[m + i] = t[i]
  <2>1. m + i \in 1 .. m + n /\ ~ (m + i <= m) /\ (m + i) - m = i
    BY <1>1
  <2>2. PICK k : k = m + i
    OBVIOUS
  <2>3. q[k] = t[k - m]
    BY <1>1, <2>1, <2>2
  <2> QED BY <2>1, <2>2, <2>3
<1>7. ASSUME NEW i \in 1 .. m + n PROVE i \in 1 .. m \/ \E k \in 1 .. n : i = m + k
  <2>1. i <= m \/ (i - m \in 1 .. n /\ i = m + (i - m))
    BY <1>1
  <2> QED BY <1>1, <2>1
<1>8. Range(q) = Range(s) \cup Range(t)
  <2>1. ASSUME NEW y \in Range(q) PROVE y \in Range(s) \cup Range(t)
    <3>1. PICK i \in 1 .. m + n : q[i] = y
      BY <1>3
    <3> QED BY <1>2, <1>5, <1>6, <1>7, <3>1
  <2>2. ASSUME NEW y \in Range(s) PROVE y \in Range(q)
    <3>1. PICK i \in 1 .. m : s[i] = y
      BY <1>2
    <3> QED BY <1>3, <1>4, <1>5, <3>1
  <2>3. ASSUME NEW y \in Range(t) PROVE y \in Range(q)
    <3>1. PICK i \in 1 .. n : t[i] = y
      BY <1>2
    <3> QED BY <1>3, <1>6, <3>1
  <2> QED BY <2>1, <2>2, <2>3
<1>9. ASSUME Distinct(s), Distinct(t), Range(s) \cap Range(t) = {},
             NEW i \in 1 .. m + n, NEW j \in 1 .. m + n, q[i] = q[j]
      PROVE  i = j
  <2>1. /\ \A a, b \in 1 .. m : s[a] = s[b] => a = b
        /\ \A a, b \in 1 .. n : t[a] = t[b] => a = b
    BY <1>9 DEF Distinct, m, n
  <2>2. \A a \in 1 .. m : \A b \in 1 .. n : s[a] # t[b]
    BY <1>2, <1>9
  <2>3. CASE i \in 1 .. m /\ j \in 1 .. m
    BY <1>5, <1>9, <2>1, <2>3
  <2>4. ASSUME i \in 1 .. m, NEW k \in 1 .. n, j = m + k PROVE FALSE
    BY <1>5, <1>6, <1>9, <2>2, <2>4
  <2>5. ASSUME j \in 1 .. m, NEW k \in 1 .. n, i = m + k PROVE FALSE
    BY <1>5, <1>6, <1>9, <2>2, <2>5
  <2>6. ASSUME NEW k \in 1 .. n, i = m + k, NEW l \in 1 .. n, j = m + l PROVE i = j
    <3>1. t[k] = t[l]
      BY <1>6, <1>9, <2>6
    <3> QED BY <2>1, <2>6, <3>1
  <2> QED BY <1>7, <2>3, <2>4, <2>5, <2>6
<1>10. Distinct(s) /\ Distinct(t) /\ Range(s) \cap Range(t) = {} => Distinct(q)
  BY <1>1, <1>9 DEF Distinct
<1> QED BY <1>1, <1>5, <1>6, <1>7, <1>8, <1>10 DEF q, m, n

\* What is left without the first element.
LEMMA Headed ==
    ASSUME NEW S, NEW s \in Seq(S), s # <<>>
    PROVE  /\ Head(s) = s[1] /\ Head(s) \in S
           /\ Tail(s) \in Seq(S) /\ Len(s) \in Nat \ {0} /\ Len(Tail(s)) = Len(s) - 1
           /\ \A i \in 1 .. Len(Tail(s)) : Tail(s)[i] = s[i + 1] /\ i + 1 \in 1 .. Len(s)
           /\ Range(s) = {Head(s)} \cup Range(Tail(s))
           /\ Distinct(s) => Distinct(Tail(s)) /\ Head(s) \notin Range(Tail(s))
<1> DEFINE t == Tail(s)
           n == Len(s)
           m == Len(t)
<1>1. /\ n \in Nat \ {0} /\ t \in Seq(S) /\ m = n - 1
      /\ Head(s) = s[1] /\ s[1] \in S
      /\ \A i \in 1 .. m : t[i] = s[i + 1]
  OBVIOUS
<1>2. \A y : y \in Range(s) <=> \E i \in 1 .. n : s[i] = y
  BY InRange
<1> HIDE DEF t
<1>3. \A y : y \in Range(t) <=> \E i \in 1 .. m : t[i] = y
  BY <1>1, InRange
<1> HIDE DEF n, m
<1>4. \A i \in 1 .. m : i + 1 \in 1 .. n /\ i + 1 # 1
  BY <1>1
<1>5. 1 \in 1 .. n /\ \A i \in 1 .. n : i = 1 \/ \E k \in 1 .. m : i = k + 1
  <2>1. \A i \in 1 .. n : i = 1 \/ (i - 1 \in 1 .. m /\ i = (i - 1) + 1)
    BY <1>1
  <2> QED BY <1>1, <2>1
<1>6. Range(s) = {Head(s)} \cup Range(t)
  <2>1. ASSUME NEW y \in Range(s) PROVE y = Head(s) \/ y \in Range(t)
    <3>1. PICK i \in 1 .. n : s[i] = y
      BY <1>2
    <3>2. ASSUME NEW k \in 1 .. m, i = k + 1 PROVE y \in Range(t)
      <4>1. t[k] = y
        BY <1>1, <3>1, <3>2
      <4> QED BY <1>3, <4>1
    <3> QED BY <1>1, <1>5, <3>1, <3>2
  <2>2. ASSUME NEW y \in Range(t) PROVE y \in Range(s)
    <3>1. PICK i \in 1 .. m : t[i] = y
      BY <1>3
    <3>2. s[i + 1] = y /\ i + 1 \in 1 .. n
      BY <1>1, <1>4, <3>1
    <3> QED BY <1>2, <3>2
  <2>3. Head(s) \in Range(s)
    BY <1>1, <1>2, <1>5
  <2> QED BY <2>1, <2>2, <2>3
<1>7. ASSUME Distinct(s) PROVE Distinct(t) /\ Head(s) \notin Range(t)
  <2>1. \A i, j \in 1 .. n : s[i] = s[j] => i = j
    BY <1>7 DEF Distinct, n
  <2>2. ASSUME NEW i \in 1 .. m, NEW j \in 1 .. m, t[i] = t[j] PROVE i = j
    <3>1. i + 1 = j + 1
      BY <1>1, <1>4, <2>1, <2>2
    <3> QED BY <1>1, <3>1
  <2>3. \A i \in 1 .. m : t[i] # s[1]
    BY <1>1, <1>4, <1>5, <2>1
  <2> QED BY <1>1, <1>3, <2>2, <2>3 DEF Distinct, m
<1> QED BY <1>1, <1>4, <1>6, <1>7 DEF t, n, m

\* A class and its superclasses.
LEMMA ChainElements ==
    ASSUME NEW c \in Classes
    PROVE  /\ Chain[c] \in Seq(Classes) /\ Len(Chain[c]) \in Nat \ {0} /\ Chain[c][1] = c
           /\ Range(Chain[c]) \subseteq Classes /\ c \in Range(Chain[c])
           /\ \A i \in 1 .. Len(Chain[c]) : Chain[c][i] \in Range(Chain[c])
           /\ \A x : x \in Range(Chain[c]) => \E i \in 1 .. Len(Chain[c]) : x = Chain[c][i]
<1>1. /\ Chain[c] \in Seq(Classes) /\ Chain[c] # <<>> /\ Chain[c][1] = c
  BY ClassesAssumption
<1>2. Len(Chain[c]) \in Nat \ {0}
  BY <1>1
<1>3. 1 \in 1 .. Len(Chain[c])
  BY <1>2
<1>4. /\ Range(Chain[c]) \subseteq Classes
      /\ \A x : x \in Range(Chain[c]) <=> \E i \in 1 .. Len(Chain[c]) : Chain[c][i] = x
  BY <1>1, InRange
<1> QED BY <1>1, <1>2, <1>3, <1>4

\* That of a superclass is the rest of the chain.
LEMMA ChainAbove ==
    ASSUME NEW c \in Classes, NEW i \in 1 .. Len(Chain[c])
    PROVE  /\ Chain[c][i] \in Classes
           /\ Len(Chain[Chain[c][i]]) = Len(Chain[c]) - i + 1
           /\ \A k \in 1 .. Len(Chain[c]) - i + 1 : Chain[Chain[c][i]][k] = Chain[c][i + k - 1]
           /\ \A x : x \in Range(Chain[Chain[c][i]]) <=>
                         \E k \in i .. Len(Chain[c]) : x = Chain[c][k]
           /\ Range(Chain[Chain[c][i]]) \subseteq Range(Chain[c])
<1> DEFINE s == Chain[c]
           n == Len(s)
           d == s[i]
           t == Chain[d]
<1>0. s \in Seq(Classes) /\ n \in Nat \ {0} /\ \A k \in 1 .. n : s[k] \in Range(s)
  BY ChainElements
<1>1. s \in Seq(Classes) /\ n \in Nat \ {0} /\ t = SubSeq(s, i, n) /\ i \in Nat
      /\ \A k \in 1 .. n : s[k] \in Range(s)
  <2>1. t = SubSeq(s, i, n)
    BY ClassesAssumption
  <2> QED BY <1>0, <2>1
<1>2. d \in Classes
  BY <1>1
<1> HIDE DEF s, d, t, n
<1>3. /\ i \in 1 .. n /\ n \in Nat /\ n = Len(s)
      /\ Len(SubSeq(s, i, n)) = n - i + 1
      /\ \A k \in 1 .. n - i + 1 : SubSeq(s, i, n)[k] = s[i + k - 1]
  BY <1>1 DEF n, s
<1>4. Len(t) = n - i + 1 /\ \A k \in 1 .. n - i + 1 : t[k] = s[i + k - 1]
  BY <1>1, <1>3
<1>5. \A x : x \in Range(t) <=> \E k \in 1 .. n - i + 1 : t[k] = x
  <2>1. t \in Seq(Classes)
    BY <1>2, ClassesAssumption DEF t
  <2> QED BY <1>4, <2>1, InRange
<1>6. ASSUME NEW x \in Range(t) PROVE \E k \in i .. n : x = s[k]
  <2>1. PICK k \in 1 .. n - i + 1 : t[k] = x
    BY <1>5, <1>6
  <2>2. i + k - 1 \in i .. n
    BY <1>3
  <2> QED BY <1>4, <2>1, <2>2
<1>7. ASSUME NEW k \in i .. n PROVE s[k] \in Range(t)
  <2>1. k - i + 1 \in 1 .. n - i + 1 /\ i + (k - i + 1) - 1 = k
    BY <1>3
  <2>2. PICK j : j = k - i + 1
    OBVIOUS
  <2>3. t[j] = s[k]
    BY <1>4, <2>1, <2>2
  <2> QED BY <1>5, <2>1, <2>2, <2>3
<1>8. Range(t) \subseteq Range(s)
  <2>1. \A k \in i .. n : k \in 1 .. n
    BY <1>3
  <2> QED BY <1>1, <1>6, <2>1
<1>9. /\ d \in Classes /\ Len(t) = n - i + 1
      /\ \A k \in 1 .. n - i + 1 : t[k] = s[i + k - 1]
      /\ \A x : x \in Range(t) <=> \E k \in i .. n : x = s[k]
      /\ Range(t) \subseteq Range(s)
  BY <1>2, <1>4, <1>6, <1>7, <1>8
<1> QED BY <1>9 DEF d, s, t, n

\* No class is among its own superclasses.
LEMMA ChainDistinct == ASSUME NEW c \in Classes PROVE Distinct(Chain[c])
<1> SUFFICES ASSUME NEW i \in 1 .. Len(Chain[c]), NEW j \in 1 .. Len(Chain[c]),
                    Chain[c][i] = Chain[c][j]
             PROVE  i = j
  BY DEF Distinct
<1>1. Len(Chain[Chain[c][i]]) = Len(Chain[c]) - i + 1
  BY ChainAbove
<1>2. Len(Chain[Chain[c][j]]) = Len(Chain[c]) - j + 1
  BY ChainAbove
<1>3. Len(Chain[c]) \in Nat
  BY ChainElements
<1> QED BY <1>1, <1>2, <1>3

\* What is left when the class is taken away is its superclass's chain.
LEMMA ChainRest ==
    ASSUME NEW c \in Classes
    PROVE  /\ Chain[c] # <<>> /\ Head(Chain[c]) = c
           /\ Range(Chain[c]) = {c} \cup Range(Tail(Chain[c]))
           /\ c \notin Range(Tail(Chain[c]))
           /\ Tail(Chain[c]) # <<>> =>
                  /\ Head(Tail(Chain[c])) \in Classes
                  /\ Tail(Chain[c]) = Chain[Head(Tail(Chain[c]))]
<1> DEFINE s == Chain[c]
           t == Tail(s)
<1>1. s \in Seq(Classes) /\ Len(s) \in Nat \ {0} /\ s[1] = c
  BY ChainElements
<1>2. s # <<>>
  BY <1>1
<1>3. Distinct(s)
  BY ChainDistinct
<1> HIDE DEF s
<1>4. /\ Head(s) = s[1] /\ t \in Seq(Classes) /\ Len(t) = Len(s) - 1
      /\ \A i \in 1 .. Len(t) : t[i] = s[i + 1]
      /\ Range(s) = {Head(s)} \cup Range(t)
      /\ Head(s) \notin Range(t)
  BY <1>1, <1>2, <1>3, Headed
<1> HIDE DEF t
<1>5. ASSUME t # <<>> PROVE Head(t) \in Classes /\ t = Chain[Head(t)]
  <2>1. Len(t) \in Nat \ {0} /\ Head(t) = t[1] /\ Head(t) \in Classes
    BY <1>4, <1>5, Headed
  <2>2. 1 \in 1 .. Len(t) /\ Len(s) >= 2
    BY <1>1, <1>4, <2>1
  <2>3. Head(t) = s[2] /\ 2 \in 1 .. Len(s)
    <3>1. t[1] = s[1 + 1]
      BY <1>4, <2>2
    <3> QED BY <1>1, <2>1, <2>2, <3>1
  <2>4. Chain[s[2]] = SubSeq(s, 2, Len(s))
    BY <2>3, ClassesAssumption DEF s
  <2>5. SubSeq(s, 2, Len(s)) = Tail(s)
    BY <1>1, <2>2
  <2> QED BY <2>1, <2>3, <2>4, <2>5 DEF t
<1> QED BY <1>1, <1>2, <1>4, <1>5 DEF s, t

\* The guest sends no message to super in a +load method.
LawfulLoads == "super_in_load" \notin Misuse

\* The limit kept the class's +initialize or +load from being called.
Skipped(c, method) == <<c, method>> \in swallowed

\* What is initialized for a message in progress, and what is still to be.
SendSound(c) ==
    c.kind = "send" =>
        /\ c.class \in Classes
        /\ \/ /\ c.stage = "callback"
              /\ c.method # "load" => c.class \in initialized
           \/ /\ c.stage = "initialize" /\ c.method = "method"
              /\ \E n \in 1 .. Len(Chain[c.class]) :
                    /\ c.pending = SubSeq(Chain[c.class], 1, n)
                    /\ \A k \in n + 1 .. Len(Chain[c.class]) : Chain[c.class][k] \in initialized

\* A class is initialized after its superclasses, and is sent +initialize once.
InitializeInv ==
    /\ initialized \subseteq Classes
    /\ \A c \in initialized : Range(Chain[c]) \subseteq initialized
    /\ initializes \in Seq(Classes) /\ Range(initializes) \subseteq initialized
    /\ Distinct(initializes)
    /\ \A c \in initialized :
           HasInitialize(c) => c \in Range(initializes) \/ Skipped(c, "initialize")
    /\ \A i \in 1 .. Len(initializes) : \A d \in Range(Chain[initializes[i]]) :
           HasInitialize(d) => Skipped(d, "initialize") \/ UpTo(d, initializes, i)
    /\ \A c \in AllCalls : SendSound(c)

\* A superclass's +load comes before, or was skipped.
LoadedBefore(list) ==
    \A i \in 1 .. Len(list) : \A d \in Range(Chain[list[i]]) \cap Loaders :
        Skipped(d, "load") \/ d \in Range(loads) \/ UpTo(d, list, i)

\* What the start of the main thread has found.
LoadSound(c) ==
    c.kind = "load" =>
        /\ c.stage \in {"find", "walk", "next"}
        /\ c.stage # "next" => loads = <<>>
        /\ c.rest \in Seq(Loaders) /\ Distinct(c.rest)
        /\ Range(c.rest) \cap Range(loads) = {}
        /\ LoadedBefore(c.rest)

\* What it has found among the superclasses of a class.
WalkSound(c) ==
    c.kind = "load" /\ c.stage = "walk" =>
        /\ c.walk # <<>> => Head(c.walk) \in Classes /\ c.walk = Chain[Head(c.walk)]
        /\ c.inherited \in Seq(Loaders) /\ Distinct(c.inherited)
        /\ Range(c.inherited) \cap Range(c.rest) = {}
        /\ c.walk # <<>> => Range(c.inherited) \cap Range(c.walk) = {}
        /\ \A i \in 1 .. Len(c.inherited) : \A d \in Range(Chain[c.inherited[i]]) \cap Loaders :
               \/ d \in Range(c.rest) \/ UpTo(d, c.inherited, i)
               \/ c.walk # <<>> /\ d \in Range(c.walk)

\* The start of the main thread is in progress at one place at most.
OnlyLoad(th, n) ==
    \A u \in Threads : \A i \in 1 .. Len(calls[u]) :
        calls[u][i].kind = "load" => u = th /\ i = n

LoadInv ==
    /\ ~started => loads = <<>> /\ \A c \in AllCalls : c.kind # "load"
    /\ \E th, n : OnlyLoad(th, n)
    /\ loads \in Seq(Loaders) /\ Distinct(loads)
    /\ \A i \in 1 .. Len(loads) : \A d \in Range(Chain[loads[i]]) \cap Loaders :
           Skipped(d, "load") \/ UpTo(d, loads, i)
    /\ \A c \in AllCalls : LoadSound(c) /\ WalkSound(c)

\* The steps, as far as messages are concerned.
LEMMA MessageSteps ==
    ASSUME CallsFormed, [Next]_vars
    PROVE  \/ \E th \in Threads :
                 MessageCalls(th) \/ BeginLoads(th) \/ MessageHost(th) \/ EndSend(th)
           \/ UNCHANGED classVars /\ \E K : Step(K) /\ K \cap ClassKinds = {}
<1>1. CASE Step(LoopKinds) /\ OnLoop
  BY <1>1 DEF OnLoop, LoopKinds, ClassKinds
<1>2. CASE Step(CenterKinds) /\ OnCenter
  BY <1>2 DEF OnCenter, CenterKinds, ClassKinds
<1>3. ASSUME OnOperations, NEW th \in Threads,
             OperationCalls(th) \/ EndStart(th) \/ EndMain(th) \/ EndCompletion(th)
      PROVE  UNCHANGED classVars /\ \E K : Step(K) /\ K \cap ClassKinds = {}
  <2>1. Step(OpKinds)
    BY <1>3, OpMoves DEF Step
  <2> QED BY <1>3, <2>1 DEF OnOperations, OpKinds, ClassKinds
<1>4. ASSUME OnDispatch, NEW th \in Threads, DispatchCalls(th) \/ EndBlock(th) \/ EndOnce(th)
      PROVE  UNCHANGED classVars /\ \E K : Step(K) /\ K \cap ClassKinds = {}
  <2>1. Step(BlockKinds)
    BY <1>4, BlockMoves DEF Step
  <2> QED BY <1>4, <2>1 DEF OnDispatch, BlockKinds, ClassKinds
<1>5. ASSUME OnLocks, NEW th \in Threads,
             \/ BlockCalls(th) \/ PropertyCalls(th)
             \/ SynchronizedHost(th) \/ SynchronizedReturns(th)
      PROVE  UNCHANGED classVars /\ \E K : Step(K) /\ K \cap ClassKinds = {}
  <2>1. Step(LockKinds)
    BY <1>5, LockMoves DEF Step
  <2> QED BY <1>5, <2>1 DEF OnLocks, LockKinds, ClassKinds
<1>6. CASE UNCHANGED vars
  <2>1. Step({})
    BY <1>6 DEF vars, Step
  <2> QED BY <1>6, <2>1 DEF vars
<1> QED BY <1>1, <1>2, <1>3, <1>4, <1>5, <1>6, Steps

\* Two calls at once leave the others.
LEMMA CallsNewTwo ==
    ASSUME CallsFormed, CallsFormed', NEW th \in Threads, calls[th] # <<>>, NEW c, NEW d,
           calls' = [calls EXCEPT ![th] = Front(@) \o <<c, d>>]
    PROVE  \A e \in AllCalls' : e = c \/ e = d \/ e \in AllCalls
<1>1. PICK S : calls \in [Threads -> Seq(S)]
  BY DEF CallsFormed
<1> DEFINE n == Len(calls[th])
<1>2. /\ \A u \in Threads \ {th} : calls'[u] = calls[u]
      /\ Len(calls'[th]) = n + 1
      /\ \A i \in 1 .. n - 1 : calls'[th][i] = calls[th][i]
      /\ calls'[th][n] = c /\ calls'[th][n + 1] = d
  BY <1>1, StacksTwo
<1>3. n \in Nat \ {0}
  BY <1>1, Stacks
<1>4. ASSUME NEW e \in AllCalls' PROVE e = c \/ e = d \/ e \in AllCalls
  <2>1. PICK u \in Threads : \E i \in 1 .. Len(calls'[u]) : e = calls'[u][i]
    BY <1>4, InNextCalls
  <2>2. PICK i \in 1 .. Len(calls'[u]) : e = calls'[u][i]
    BY <2>1
  <2>3. CASE u # th
    <3>1. e = calls[u][i] /\ i \in 1 .. Len(calls[u])
      BY <1>2, <2>2, <2>3
    <3> QED BY <3>1, InCalls
  <2>4. CASE u = th
    <3>1. i \in 1 .. n + 1 /\ e = calls'[th][i]
      BY <1>2, <2>2, <2>4
    <3>2. i \in 1 .. n - 1 \/ i = n \/ i = n + 1
      BY <1>3, <3>1
    <3>3. CASE i \in 1 .. n - 1
      <4>1. e = calls[th][i] /\ i \in 1 .. n
        BY <1>2, <1>3, <3>1, <3>3
      <4> QED BY <4>1, InCalls
    <3> QED BY <1>2, <3>1, <3>2, <3>3
  <2> QED BY <2>3, <2>4
<1> QED BY <1>4

\* What ensure_class_initialized starts with.
LEMMA MessageSound ==
    ASSUME InitializeInv, NEW c \in Classes
    PROVE  SendSound(SendCall(c, "method", Uninitialized(c)))
<1> DEFINE s == Chain[c]
           done == {i \in DOMAIN s : s[i] \in initialized}
           call == SendCall(c, "method", Uninitialized(c))
<1>1. /\ s \in Seq(Classes) /\ Len(s) \in Nat \ {0} /\ s[1] = c /\ DOMAIN s = 1 .. Len(s)
      /\ s = SubSeq(s, 1, Len(s))
  <2>1. s \in Seq(Classes) /\ Len(s) \in Nat \ {0} /\ s[1] = c
    BY ChainElements
  <2>2. 1 \in 1 .. Len(s) /\ DOMAIN s = 1 .. Len(s)
    BY <2>1
  <2>3. Chain[s[1]] = SubSeq(s, 1, Len(s))
    BY <2>2, ClassesAssumption
  <2> QED BY <2>1, <2>2, <2>3
<1>2. CASE done = {}
  <2>1. Uninitialized(c) = s
    BY <1>2 DEF Uninitialized
  <2>2. s # <<>>
    BY <1>1
  <2>3. call.kind = "send" /\ call.class = c /\ call.stage = "initialize"
        /\ call.method = "method" /\ call.pending = s
    BY <2>1, <2>2 DEF SendCall
  <2>4. Len(s) \in 1 .. Len(s) /\ \A k \in Len(s) + 1 .. Len(s) : s[k] \in initialized
    BY <1>1
  <2>5. PICK n : n = Len(s)
    OBVIOUS
  <2>6. n \in 1 .. Len(s) /\ s = SubSeq(s, 1, n) /\ \A k \in n + 1 .. Len(s) : s[k] \in initialized
    BY <1>1, <2>4, <2>5
  <2> HIDE DEF call, done
  <2> QED BY <2>3, <2>6 DEF SendSound, call
<1>3. CASE done # {}
  <2>1. done \subseteq Nat
    BY <1>1
  <2>2. \E x \in done : \A y \in done : x <= y
    BY <1>3, <2>1, Least
  <2>3. PICK m : m = Min(done)
    OBVIOUS
  <2>4. m \in done
    BY <2>2, <2>3 DEF Min
  <2>5. m \in 1 .. Len(s) /\ s[m] \in initialized
    BY <1>1, <2>4
  <2>6. Uninitialized(c) = SubSeq(s, 1, m - 1)
    BY <1>3, <2>3 DEF Uninitialized
  <2>7. \A k \in m .. Len(s) : s[k] \in initialized
    <3>1. Range(Chain[s[m]]) \subseteq initialized
      BY <2>5 DEF InitializeInv
    <3>2. \A x : x \in Range(Chain[s[m]]) <=> \E k \in m .. Len(s) : x = s[k]
      BY <2>5, ChainAbove
    <3> QED BY <3>1, <3>2
  <2> HIDE DEF done
  <2>8. CASE m = 1
    <3>1. SubSeq(s, 1, m - 1) = <<>>
      BY <1>1, <2>8
    <3>2. call.kind = "send" /\ call.class = c /\ call.stage = "callback"
      BY <2>6, <3>1 DEF SendCall
    <3>3. c \in initialized
      BY <1>1, <2>5, <2>8
    <3> HIDE DEF call
    <3> QED BY <3>2, <3>3 DEF SendSound, call
  <2>9. CASE m # 1
    <3>1. PICK n : n = m - 1
      OBVIOUS
    <3>2. n \in 1 .. Len(s) /\ n + 1 = m
      BY <1>1, <2>5, <2>9, <3>1
    <3>3. Len(SubSeq(s, 1, n)) = n /\ SubSeq(s, 1, n) # <<>>
      BY <1>1, <3>2
    <3>4. call.kind = "send" /\ call.class = c /\ call.stage = "initialize"
          /\ call.method = "method" /\ call.pending = SubSeq(s, 1, n)
      BY <2>6, <3>1, <3>3 DEF SendCall
    <3>5. \A k \in n + 1 .. Len(s) : s[k] \in initialized
      BY <2>7, <3>2
    <3> HIDE DEF call
    <3> QED BY <3>2, <3>4, <3>5 DEF SendSound, call
  <2> QED BY <2>8, <2>9
<1> QED BY <1>2, <1>3

\* What is sound stays so.
LEMMA SendStays ==
    ASSUME initialized \subseteq initialized', NEW c, SendSound(c) PROVE SendSound(c)'
<1> SUFFICES ASSUME c.kind = "send" PROVE SendSound(c)'
  BY DEF SendSound
<1>1. CASE c.stage = "callback" /\ (c.method # "load" => c.class \in initialized)
  BY <1>1 DEF SendSound
<1>2. ASSUME c.stage = "initialize", c.method = "method", NEW n \in 1 .. Len(Chain[c.class]),
             c.pending = SubSeq(Chain[c.class], 1, n),
             \A k \in n + 1 .. Len(Chain[c.class]) : Chain[c.class][k] \in initialized
      PROVE  SendSound(c)'
  BY <1>2 DEF SendSound
<1> QED BY <1>1, <1>2 DEF SendSound

\* Steps that initialize nothing.
LEMMA InitializeQuiet ==
    ASSUME InitializeInv, UNCHANGED <<initialized, initializes>>, swallowed \subseteq swallowed',
           \A c \in AllCalls' : c \in AllCalls \/ SendSound(c)
    PROVE  InitializeInv'
<1>1. \A c \in AllCalls' : SendSound(c)'
  BY SendStays DEF InitializeInv
<1>2. \A c, m : Skipped(c, m) => Skipped(c, m)'
  BY DEF Skipped
<1>3. /\ \A c \in initialized :
             HasInitialize(c) => c \in Range(initializes) \/ Skipped(c, "initialize")'
      /\ \A i \in 1 .. Len(initializes) : \A d \in Range(Chain[initializes[i]]) :
             HasInitialize(d) => Skipped(d, "initialize")' \/ UpTo(d, initializes, i)
  BY <1>2 DEF InitializeInv
<1>4. /\ initialized \subseteq Classes
      /\ \A c \in initialized : Range(Chain[c]) \subseteq initialized
      /\ initializes \in Seq(Classes) /\ Range(initializes) \subseteq initialized
      /\ Distinct(initializes)
  BY DEF InitializeInv
<1> QED BY <1>1, <1>3, <1>4 DEF InitializeInv

\* A class is initialized.
LEMMA ClassInitialized ==
    ASSUME InitializeInv, CallsFormed, CallsFormed', NEW th \in Threads, InitializeNext(th)
    PROVE  InitializeInv'
<1>1. /\ calls[th] # <<>> /\ Top(th).kind = "send" /\ Top(th).stage = "initialize"
      /\ SendSound(Top(th))
  BY TopInCalls DEF InitializeNext, At, InitializeInv
<1>2. PICK x : x = Top(th).class
  OBVIOUS
<1>3. x \in Classes /\ Top(th).method = "method"
  BY <1>1, <1>2 DEF SendSound
<1> DEFINE s == Chain[x]
<1>4. PICK n \in 1 .. Len(s) : /\ Top(th).pending = SubSeq(s, 1, n)
                               /\ \A k \in n + 1 .. Len(s) : s[k] \in initialized
  BY <1>1, <1>2 DEF SendSound
<1>5. s \in Seq(Classes) /\ Len(s) \in Nat \ {0} /\ s[1] = x /\ n \in Nat \ {0}
  BY <1>3, ChainElements
<1>6. PICK c : c = Last(Top(th).pending)
  OBVIOUS
<1>7. c = s[n] /\ c \in Classes /\ Front(Top(th).pending) = SubSeq(s, 1, n - 1)
  <2>1. SubSeq(s, 1, n) \in Seq(Classes) /\ Len(SubSeq(s, 1, n)) = n /\ SubSeq(s, 1, n)[n] = s[n]
    BY <1>5
  <2>2. SubSeq(SubSeq(s, 1, n), 1, n - 1) = SubSeq(s, 1, n - 1)
    BY <1>5
  <2> QED BY <1>4, <1>5, <1>6, <2>1, <2>2 DEF Last, Front
<1>8. \A y : y \in Range(Chain[c]) <=> \E k \in n .. Len(s) : y = s[k]
  <2>1. \A y : y \in Range(Chain[Chain[x][n]]) <=>
                   \E k \in n .. Len(Chain[x]) : y = Chain[x][k]
    BY <1>3, ChainAbove
  <2> QED BY ONLY <1>7, <2>1
<1>9. Range(Chain[c]) \subseteq initialized \cup {c}
  <2>1. \A k \in n .. Len(s) : k = n \/ k \in n + 1 .. Len(s)
    BY <1>5
  <2> QED BY <1>4, <1>7, <1>8, <2>1
<1>10. PICK rest : rest = SendCall(x, "method", Front(Top(th).pending))
  OBVIOUS
<1>11. PICK next : next = SendCall(c, "initialize", <<>>)
  OBVIOUS
<1>12. /\ initialized' = initialized \cup {c}
       /\ \/ /\ StillToInitialize(c)
             /\ calls' = [calls EXCEPT ![th] = Front(@) \o <<rest, next>>]
             /\ initializes' = Append(initializes, c) /\ UNCHANGED swallowed
          \/ /\ Continue(th, rest) /\ UNCHANGED initializes
             /\ swallowed' = IF StillToInitialize(c)
                             THEN swallowed \cup {<<c, "initialize">>} ELSE swallowed
  BY <1>2, <1>3, <1>6, <1>10, <1>11 DEF InitializeNext
<1>13. SendSound(next)'
  <2>1. next.kind = "send" /\ next.stage = "callback" /\ next.class = c
    BY <1>11 DEF SendCall
  <2> QED BY <1>7, <1>12, <2>1 DEF SendSound
<1>14. SendSound(rest)'
  <2>1. rest.kind = "send" /\ rest.class = x /\ rest.method = "method"
        /\ rest.pending = SubSeq(s, 1, n - 1)
        /\ rest.stage = IF rest.pending = <<>> THEN "callback" ELSE "initialize"
    BY <1>7, <1>10 DEF SendCall
  <2>2. CASE n = 1
    <3>1. rest.pending = <<>>
      BY <1>5, <2>1, <2>2
    <3>2. rest.stage = "callback" /\ x = c
      BY <1>5, <1>7, <2>1, <2>2, <3>1
    <3> QED BY <1>3, <1>12, <2>1, <3>2 DEF SendSound
  <2>3. CASE n # 1
    <3>1. PICK m : m = n - 1
      OBVIOUS
    <3>2. m \in 1 .. Len(s) /\ m + 1 = n
      BY <1>5, <2>3, <3>1
    <3>3. Len(SubSeq(s, 1, m)) = m /\ SubSeq(s, 1, m) # <<>>
      BY <1>5, <3>2
    <3>4. rest.stage = "initialize" /\ rest.pending = SubSeq(s, 1, m)
      BY <2>1, <3>1, <3>3
    <3>5. \A k \in m + 1 .. Len(s) : s[k] \in initialized'
      <4>1. \A k \in n .. Len(s) : k = n \/ k \in n + 1 .. Len(s)
        BY <1>5
      <4> QED BY <1>4, <1>7, <1>12, <3>2, <4>1
    <3> QED BY <1>3, <2>1, <3>2, <3>4, <3>5 DEF SendSound
  <2> QED BY <2>2, <2>3
<1>15. \A d \in AllCalls' : SendSound(d)'
  <2>1. \A d \in AllCalls' : d = rest \/ d = next \/ d \in AllCalls
    BY <1>1, <1>12, CallsNew, CallsNewTwo
  <2>2. \A d \in AllCalls : SendSound(d)'
    BY <1>12, SendStays DEF InitializeInv
  <2> QED BY <1>13, <1>14, <2>1, <2>2
<1>16. /\ initialized \subseteq Classes
       /\ \A d \in initialized : Range(Chain[d]) \subseteq initialized
       /\ initializes \in Seq(Classes) /\ Range(initializes) \subseteq initialized
       /\ Distinct(initializes)
       /\ \A d \in initialized :
              HasInitialize(d) => d \in Range(initializes) \/ Skipped(d, "initialize")
       /\ \A i \in 1 .. Len(initializes) : \A d \in Range(Chain[initializes[i]]) :
              HasInitialize(d) => Skipped(d, "initialize") \/ UpTo(d, initializes, i)
  BY DEF InitializeInv
<1>17. initialized' \subseteq Classes /\ \A d \in initialized' : Range(Chain[d]) \subseteq initialized'
  BY <1>7, <1>9, <1>12, <1>16
<1> HIDE DEF s
<1>18. CASE StillToInitialize(c) /\ initializes' = Append(initializes, c) /\ UNCHANGED swallowed
  <2>1. c \notin Range(initializes)
    BY <1>16, <1>18 DEF StillToInitialize
  <2> DEFINE l == Len(initializes)
  <2>2. /\ initializes' \in Seq(Classes) /\ Len(initializes') = l + 1 /\ l \in Nat
        /\ \A i \in 1 .. l : initializes'[i] = initializes[i]
        /\ initializes'[l + 1] = c
        /\ Range(initializes') = Range(initializes) \cup {c}
        /\ Distinct(initializes')
    BY <1>7, <1>16, <1>18, <2>1, Appended, InRange
  <2>3. \A d, m : Skipped(d, m)' <=> Skipped(d, m)
    BY <1>18 DEF Skipped
  <2>4. \A d \in initialized' :
            HasInitialize(d) => d \in Range(initializes') \/ Skipped(d, "initialize")'
    BY <1>12, <1>16, <2>2, <2>3
  <2>5. \A d \in Range(initializes) : \E j \in 1 .. l : initializes[j] = d
    BY <1>16, InRange
  <2> HIDE DEF l
  <2>6. ASSUME NEW i \in 1 .. l, NEW d, UpTo(d, initializes, i) PROVE UpTo(d, initializes', i)
    <3>1. PICK j \in 1 .. i : initializes[j] = d
      BY <2>6 DEF UpTo
    <3>2. j \in 1 .. l
      BY <2>2
    <3> QED BY <2>2, <3>1, <3>2 DEF UpTo
  <2>7. ASSUME NEW i \in 1 .. l + 1, NEW d \in Range(Chain[initializes'[i]]), HasInitialize(d),
               ~ Skipped(d, "initialize")
        PROVE  UpTo(d, initializes', i)
    <3>1. CASE i \in 1 .. l
      <4>1. UpTo(d, initializes, i)
        BY <1>16, <2>2, <2>7, <3>1 DEF l
      <4> QED BY <2>6, <3>1, <4>1
    <3>2. CASE i = l + 1
      <4>1. d \in initialized \cup {c}
        BY <1>9, <2>2, <2>7, <3>2
      <4>2. CASE d = c
        <5>1. i \in 1 .. i
          BY <2>2, <3>2
        <5> QED BY <2>2, <3>2, <4>2, <5>1 DEF UpTo
      <4>3. CASE d \in initialized
        <5>1. d \in Range(initializes)
          BY <1>16, <2>7, <4>3
        <5>2. PICK j \in 1 .. l : initializes[j] = d
          BY <2>5, <5>1
        <5>3. j \in 1 .. i
          BY <2>2, <3>2
        <5> QED BY <2>2, <5>2, <5>3 DEF UpTo
      <4> QED BY <4>1, <4>2, <4>3
    <3> QED BY <2>2, <3>1, <3>2
  <2>8. \A i \in 1 .. Len(initializes') : \A d \in Range(Chain[initializes'[i]]) :
            HasInitialize(d) => Skipped(d, "initialize")' \/ UpTo(d, initializes', i)
    BY <2>2, <2>3, <2>7
  <2>9. Range(initializes') \subseteq initialized'
    BY <1>12, <1>16, <2>2
  <2> QED BY <1>15, <1>17, <2>2, <2>4, <2>8, <2>9 DEF InitializeInv
<1>19. CASE UNCHANGED initializes
            /\ swallowed' = IF StillToInitialize(c)
                            THEN swallowed \cup {<<c, "initialize">>} ELSE swallowed
  <2>1. \A d, m : Skipped(d, m) => Skipped(d, m)'
    BY <1>19 DEF Skipped
  <2>2. \A d \in initialized' :
            HasInitialize(d) => d \in Range(initializes') \/ Skipped(d, "initialize")'
    <3>1. StillToInitialize(c) => Skipped(c, "initialize")'
      BY <1>19 DEF Skipped
    <3> QED BY <1>12, <1>16, <1>19, <2>1, <3>1 DEF StillToInitialize
  <2>3. \A i \in 1 .. Len(initializes) : \A d \in Range(Chain[initializes[i]]) :
            HasInitialize(d) => Skipped(d, "initialize")' \/ UpTo(d, initializes, i)
    BY <1>16, <2>1
  <2>4. /\ initializes' = initializes /\ initializes \in Seq(Classes) /\ Distinct(initializes)
        /\ Range(initializes) \subseteq initialized'
    BY <1>12, <1>16, <1>19
  <2> QED BY <1>15, <1>17, <2>2, <2>3, <2>4 DEF InitializeInv
<1> QED BY <1>12, <1>18, <1>19

\* The steps of messages other than those of the start change these only.
LEMMA SendMoves ==
    ASSUME NEW th \in Threads, MessageCalls(th) \/ InitializeNext(th) \/ EndSend(th)
    PROVE  Moves(th, {"send"})
<1>1. \A c, method, pending : Of(SendCall(c, method, pending), {"send"})
  BY DEF Of, Formed, SendCall
<1>2. CASE MessageCalls(th)
  BY <1>1, <1>2 DEF MessageCalls, Send, SendSuper, Moves, GuestRuns
<1>3. CASE InitializeNext(th)
  <2>1. Replaces(th, {"send"})
    BY <1>3 DEF InitializeNext, At, Replaces
  <2> DEFINE c == Last(Top(th).pending)
             rest == SendCall(Top(th).class, Top(th).method, Front(Top(th).pending))
             next == SendCall(c, "initialize", <<>>)
  <2>2. Of(rest, {"send"}) /\ Of(next, {"send"}) /\ rest.kind \notin {"sync", "set"}
    BY <1>1 DEF SendCall
  <2>3. \/ calls' = [calls EXCEPT ![th] = Front(@) \o <<rest, next>>]
        \/ Continue(th, rest)
    BY <1>3 DEF InitializeNext
  <2> HIDE DEF rest, next
  <2> QED BY <2>1, <2>2, <2>3 DEF Moves
<1>4. CASE EndSend(th)
  BY <1>4 DEF EndSend, At, Replaces, Moves
<1> QED BY <1>2, <1>3, <1>4

\* A message to super is one to an initialized class.
LEMMA SuperSound ==
    ASSUME LawfulLoads, CallsFormed, InitializeInv, NEW th \in Threads, SendSuper(th)
    PROVE  SendSound(SendCall(Superclass(Top(th).class), "method", <<>>))
<1>1. PICK x : x = Top(th).class
  OBVIOUS
<1>2. /\ calls[th] # <<>> /\ Top(th).kind = "send" /\ Top(th).stage \in GuestStages
      /\ Top(th).method # "load" /\ Len(Chain[x]) > 1
  BY <1>1 DEF SendSuper, GuestRuns, InGuest, Lawful, LawfulLoads
<1>3. SendSound(Top(th)) /\ Top(th).stage # "initialize"
  BY <1>2, TopInCalls DEF InitializeInv, GuestStages
<1>4. x \in Classes /\ x \in initialized
  BY <1>1, <1>2, <1>3 DEF SendSound
<1>5. Len(Chain[x]) \in Nat \ {0} /\ 2 \in 1 .. Len(Chain[x])
  BY <1>2, <1>4, ChainElements
<1>6. Chain[x][2] \in Range(Chain[x]) /\ Chain[x][2] \in Classes
  BY <1>4, <1>5, ChainElements
<1>7. Chain[x][2] \in initialized
  BY <1>4, <1>6 DEF InitializeInv
<1>8. PICK c : c = SendCall(Chain[x][2], "method", <<>>)
  OBVIOUS
<1>9. c.kind = "send" /\ c.class = Chain[x][2] /\ c.stage = "callback"
  BY <1>8 DEF SendCall
<1>10. SendSound(c)
  BY <1>6, <1>7, <1>9 DEF SendSound
<1> QED BY <1>1, <1>8, <1>10 DEF Superclass

\* Every step keeps the order of initialization.
LEMMA InitializeStep ==
    ASSUME LawfulLoads, CallsFormed, CallsFormed', InitializeInv, LoadInv, [Next]_vars
    PROVE  InitializeInv'
<1>1. ASSUME UNCHANGED classVars, NEW K, Step(K), K \cap ClassKinds = {} PROVE InitializeInv'
  <2>1. "send" \notin K
    BY <1>1 DEF ClassKinds
  <2>2. \A c : c.kind = "send" => (c \in AllCalls <=> c \in AllCalls')
    BY <1>1, <2>1, ForeignCalls
  <2>3. \A c \in AllCalls' : c \in AllCalls \/ SendSound(c)
    BY <2>2 DEF SendSound
  <2> QED BY <1>1, <2>3, InitializeQuiet DEF classVars
<1>2. ASSUME NEW th \in Threads, NEW d, SendSound(d), UNCHANGED <<initialized, initializes>>,
             swallowed \subseteq swallowed',
             \/ Enter(th, d)
             \/ calls[th] # <<>> /\ Leave(th)
             \/ calls[th] # <<>> /\ Continue(th, d)
      PROVE  InitializeInv'
  <2>1. \A c \in AllCalls' : c = d \/ c \in AllCalls
    BY <1>2, CallsNew
  <2> QED BY <1>2, <2>1, InitializeQuiet
<1>3. \A stage, unseen, walk, inherited, rest :
          SendSound(LoadCall(stage, unseen, walk, inherited, rest))
  BY DEF SendSound, LoadCall
<1>4. ASSUME NEW th \in Threads, MessageCalls(th) PROVE InitializeInv'
  <2>1. ASSUME NEW c \in Classes, Send(th, c) PROVE InitializeInv'
    <3>1. SendSound(SendCall(c, "method", Uninitialized(c)))
      BY MessageSound
    <3> QED BY <1>2, <2>1, <3>1 DEF Send, classVars
  <2>2. CASE SendSuper(th)
    <3>1. SendSound(SendCall(Superclass(Top(th).class), "method", <<>>))
      BY <2>2, SuperSound
    <3> QED BY <1>2, <2>2, <3>1 DEF SendSuper, classVars
  <2> QED BY <1>4, <2>1, <2>2 DEF MessageCalls
<1>5. ASSUME NEW th \in Threads, BeginLoads(th) PROVE InitializeInv'
  BY <1>2, <1>3, <1>5 DEF BeginLoads
<1>6. ASSUME NEW th \in Threads, EndSend(th) \/ EndLoads(th) PROVE InitializeInv'
  BY <1>2, <1>3, <1>6 DEF EndSend, EndLoads, At, classVars
<1>7. ASSUME NEW th \in Threads, FindLoads(th) PROVE InitializeInv'
  <2>1. \E stage, unseen, walk, inherited, rest :
            calls[th] # <<>> /\ Continue(th, LoadCall(stage, unseen, walk, inherited, rest))
    BY <1>7 DEF FindLoads, FindLoad, WalkLoads, EndWalk, AllFound, At
  <2>2. UNCHANGED classVars
    BY <1>7 DEF FindLoads, FindLoad, WalkLoads, EndWalk, AllFound
  <2> QED BY <1>2, <1>3, <2>1, <2>2 DEF classVars
<1>8. ASSUME NEW th \in Threads, LoadNext(th) PROVE InitializeInv'
  <2>1. calls[th] # <<>> /\ Top(th).kind = "load" /\ Top(th).rest # <<>> /\ LoadSound(Top(th))
    BY <1>8, TopInCalls DEF LoadNext, At, LoadInv
  <2>2. PICK c : c = Head(Top(th).rest)
    OBVIOUS
  <2>3. c \in Classes
    BY <2>1, <2>2, Headed, ClassesAssumption DEF LoadSound
  <2>4. PICK rest : rest = LoadCall("next", {}, <<>>, <<>>, Tail(Top(th).rest))
    OBVIOUS
  <2>5. PICK next : next = SendCall(c, "load", <<>>)
    OBVIOUS
  <2>6. SendSound(rest) /\ SendSound(next)
    <3>1. next.kind = "send" /\ next.class = c /\ next.stage = "callback" /\ next.method = "load"
      BY <2>5 DEF SendCall
    <3> QED BY <1>3, <2>3, <2>4, <3>1 DEF SendSound
  <2>7. /\ UNCHANGED <<initialized, initializes>>
        /\ \/ Continue(th, rest) /\ swallowed' = swallowed \cup {<<c, "load">>}
           \/ /\ calls' = [calls EXCEPT ![th] = Front(@) \o <<rest, next>>]
              /\ UNCHANGED swallowed
    BY <1>8, <2>2, <2>4, <2>5 DEF LoadNext
  <2>8. \A d \in AllCalls' : d = rest \/ d = next \/ d \in AllCalls
    BY <2>1, <2>7, CallsNew, CallsNewTwo
  <2> QED BY <2>6, <2>7, <2>8, InitializeQuiet
<1>9. ASSUME NEW th \in Threads, InitializeNext(th) PROVE InitializeInv'
  BY <1>9, ClassInitialized
<1> QED BY <1>1, <1>4, <1>5, <1>6, <1>7, <1>8, <1>9, MessageSteps DEF MessageHost

\* The program starts with nothing initialized.
LEMMA InitializeInit == ASSUME Init PROVE InitializeInv
<1>1. AllCalls = {}
  BY DEF Init, AllCalls, Range
<1>2. initialized = {} /\ initializes = <<>>
  BY DEF Init, MessagesInit
<1>3. Len(initializes) = 0 /\ Range(initializes) = {} /\ initializes \in Seq(Classes)
  BY <1>2 DEF Range
<1> QED BY <1>1, <1>2, <1>3 DEF InitializeInv, Distinct

\* Steps that leave the start of the main thread alone.
LEMMA LoadsStay ==
    ASSUME LoadInv, CallsFormed, CallsFormed', UNCHANGED <<started, loads>>,
           swallowed \subseteq swallowed', NEW K, Step(K), "load" \notin K
    PROVE  LoadInv'
<1>1. \A c : c.kind = "load" => (c \in AllCalls <=> c \in AllCalls')
  BY ForeignCalls
<1>2. \A d, m : Skipped(d, m) => Skipped(d, m)'
  BY DEF Skipped
<1>3. ASSUME NEW c \in AllCalls' PROVE LoadSound(c)' /\ WalkSound(c)
  <2>1. CASE c.kind = "load"
    <3>1. LoadSound(c) /\ WalkSound(c)
      BY <1>1, <1>3, <2>1 DEF LoadInv
    <3>2. LoadedBefore(c.rest) => LoadedBefore(c.rest)'
      BY <1>2 DEF LoadedBefore
    <3> QED BY <3>1, <3>2 DEF LoadSound
  <2>2. CASE c.kind # "load"
    BY <2>2 DEF LoadSound, WalkSound
  <2> QED BY <2>1, <2>2
<1>4. PICK th, n : OnlyLoad(th, n)
  BY DEF LoadInv
<1>5. OnlyLoad(th, n)'
  <2>1. \A u \in Threads : \A i :
            i \in 1 .. Len(calls[u]) /\ calls[u][i].kind = "load" <=>
                i \in 1 .. Len(calls'[u]) /\ calls'[u][i].kind = "load"
    BY Foreign
  <2> QED BY <1>4, <2>1 DEF OnlyLoad
<1>6. ~started' => loads' = <<>> /\ \A c \in AllCalls' : c.kind # "load"
  BY <1>1 DEF LoadInv
<1>7. /\ loads' \in Seq(Loaders) /\ Distinct(loads')
      /\ \A i \in 1 .. Len(loads') : \A d \in Range(Chain[loads'[i]]) \cap Loaders :
             Skipped(d, "load")' \/ UpTo(d, loads', i)
  BY <1>2 DEF LoadInv
<1> QED BY <1>3, <1>5, <1>6, <1>7 DEF LoadInv

\* A step changes the calls at one place, to d if any, and enters messages.
PutsAt(th, n, d) ==
    /\ \A u \in Threads : \A i \in 1 .. Len(calls'[u]) :
           u # th \/ i # n =>
               \/ i \in 1 .. Len(calls[u]) /\ calls'[u][i] = calls[u][i]
               \/ calls'[u][i].kind # "load"
    /\ n \in 1 .. Len(calls'[th]) => calls'[th][n] = d

\* Where a call replaces the start of the main thread, it is the only one.
LEMMA OneLoad ==
    ASSUME CallsFormed, CallsFormed', NEW th \in Threads, calls[th] # <<>>,
           Top(th).kind = "load", NEW m, NEW k, OnlyLoad(m, k), NEW n \in Nat, NEW d,
           n = Len(calls[th]), PutsAt(th, n, d)
    PROVE  /\ OnlyLoad(th, n)'
           /\ \A c \in AllCalls' : c.kind = "load" => c = d /\ n \in 1 .. Len(calls'[th])
<1>1. n \in 1 .. Len(calls[th]) /\ calls[th][n].kind = "load"
  <2>1. Len(calls[th]) \in Nat \ {0} /\ Top(th) = calls[th][Len(calls[th])]
    BY Stacks DEF CallsFormed
  <2> QED BY <2>1
<1>2. m = th /\ k = n
  BY <1>1 DEF OnlyLoad
<1>3. ASSUME NEW u \in Threads, NEW i \in 1 .. Len(calls'[u]), calls'[u][i].kind = "load"
      PROVE  u = th /\ i = n
  <2>1. ASSUME u # th \/ i # n PROVE FALSE
    <3>1. i \in 1 .. Len(calls[u]) /\ calls[u][i].kind = "load"
      BY <1>3, <2>1 DEF PutsAt
    <3> QED BY <1>2, <2>1, <3>1 DEF OnlyLoad
  <2> QED BY <2>1
<1>4. OnlyLoad(th, n)'
  BY <1>3 DEF OnlyLoad
<1>5. ASSUME NEW c \in AllCalls', c.kind = "load" PROVE c = d /\ n \in 1 .. Len(calls'[th])
  <2>1. PICK u \in Threads : \E i \in 1 .. Len(calls'[u]) : c = calls'[u][i]
    BY <1>5, InNextCalls
  <2>2. PICK i \in 1 .. Len(calls'[u]) : c = calls'[u][i]
    BY <2>1
  <2> QED BY <1>3, <1>5, <2>2 DEF PutsAt
<1> QED BY <1>4, <1>5

\* The invariant after a step of the start of the main thread.
LEMMA LoadReplaced ==
    ASSUME LoadInv, CallsFormed, CallsFormed', NEW th \in Threads, calls[th] # <<>>,
           Top(th).kind = "load", NEW d,
           \/ Continue(th, d)
           \/ \E c : c.kind = "send" /\ calls' = [calls EXCEPT ![th] = Front(@) \o <<d, c>>],
           LoadSound(d)', WalkSound(d), UNCHANGED started,
           loads' \in Seq(Loaders), Distinct(loads'),
           \A i \in 1 .. Len(loads') : \A e \in Range(Chain[loads'[i]]) \cap Loaders :
               Skipped(e, "load")' \/ UpTo(e, loads', i)
    PROVE  LoadInv'
<1>1. PICK S : calls \in [Threads -> Seq(S)]
  BY DEF CallsFormed
<1>2. PICK n : n = Len(calls[th])
  OBVIOUS
<1>3. n \in Nat \ {0}
  BY <1>1, <1>2, Stacks
<1>4. PutsAt(th, n, d)
  <2>1. CASE Continue(th, d)
    <3>1. /\ \A u \in Threads \ {th} : calls'[u] = calls[u]
          /\ Len(calls'[th]) = n /\ calls'[th][n] = d
          /\ \A i \in 1 .. n - 1 : calls'[th][i] = calls[th][i]
      BY <1>1, <1>2, <2>1, Stacks
    <3>2. \A i \in 1 .. n : i = n \/ i \in 1 .. n - 1
      BY <1>3
    <3> QED BY <1>2, <3>1, <3>2 DEF PutsAt
  <2>2. ASSUME NEW c, c.kind = "send", calls' = [calls EXCEPT ![th] = Front(@) \o <<d, c>>]
        PROVE  PutsAt(th, n, d)
    <3>1. /\ \A u \in Threads \ {th} : calls'[u] = calls[u]
          /\ Len(calls'[th]) = n + 1 /\ calls'[th][n] = d /\ calls'[th][n + 1] = c
          /\ \A i \in 1 .. n - 1 : calls'[th][i] = calls[th][i]
      <4>1. /\ \A u \in Threads \ {th} : calls'[u] = calls[u]
            /\ Len(calls'[th]) = Len(calls[th]) + 1
            /\ \A i \in 1 .. Len(calls[th]) - 1 : calls'[th][i] = calls[th][i]
            /\ calls'[th][Len(calls[th])] = d /\ calls'[th][Len(calls[th]) + 1] = c
        <5>1. calls \in [Threads -> Seq(S)] /\ th \in Threads /\ calls[th] # <<>>
          BY <1>1
        <5> QED BY ONLY <5>1, <2>2, StacksTwo
      <4> QED BY <1>2, <4>1
    <3>2. \A i \in 1 .. n + 1 : i = n \/ i = n + 1 \/ (i \in 1 .. n - 1 /\ i \in 1 .. n)
      BY <1>3
    <3> QED BY <1>2, <2>2, <3>1, <3>2 DEF PutsAt
  <2> QED BY <2>1, <2>2
<1>5. PICK m, k : OnlyLoad(m, k)
  BY DEF LoadInv
<1>6. /\ OnlyLoad(th, n)'
      /\ \A c \in AllCalls' : c.kind = "load" => c = d
  <2>1. n \in Nat
    BY <1>3
  <2>2. /\ OnlyLoad(th, n)'
        /\ \A c \in AllCalls' : c.kind = "load" => c = d /\ n \in 1 .. Len(calls'[th])
    BY <1>2, <1>4, <1>5, <2>1, OneLoad
  <2> QED BY <2>2
<1>7. started
  BY TopInCalls DEF LoadInv
<1>8. \A c \in AllCalls' : LoadSound(c)' /\ WalkSound(c)
  BY <1>6 DEF LoadSound, WalkSound
<1> QED BY <1>6, <1>7, <1>8 DEF LoadInv

\* It returns.
LEMMA LoadsEnd ==
    ASSUME LoadInv, CallsFormed, CallsFormed', NEW th \in Threads, EndLoads(th)
    PROVE  LoadInv'
<1>1. calls[th] # <<>> /\ Top(th).kind = "load" /\ Leave(th) /\ UNCHANGED classVars
  BY DEF EndLoads, At
<1>2. PICK S : calls \in [Threads -> Seq(S)]
  BY DEF CallsFormed
<1>3. PICK n : n = Len(calls[th])
  OBVIOUS
<1>4. n \in Nat \ {0}
  BY <1>1, <1>2, <1>3, Stacks
<1>5. /\ \A u \in Threads \ {th} : calls'[u] = calls[u]
      /\ Len(calls'[th]) = n - 1
      /\ \A i \in 1 .. n - 1 : calls'[th][i] = calls[th][i] /\ i \in 1 .. n
      /\ n \notin 1 .. n - 1
  <2>1. /\ \A u \in Threads \ {th} : calls'[u] = calls[u]
        /\ Len(calls'[th]) = n - 1
        /\ \A i \in 1 .. n - 1 : calls'[th][i] = calls[th][i]
    BY <1>1, <1>2, <1>3, Stacks
  <2>2. n \notin 1 .. n - 1 /\ \A i \in 1 .. n - 1 : i \in 1 .. n
    BY <1>4
  <2> QED BY <2>1, <2>2
<1>6. PICK m, k : OnlyLoad(m, k)
  BY DEF LoadInv
<1>7. OnlyLoad(th, n)' /\ \A c \in AllCalls' : c.kind # "load"
  <2>1. PutsAt(th, n, {})
    BY <1>3, <1>5 DEF PutsAt
  <2>2. n \in Nat
    BY <1>4
  <2>3. n \notin 1 .. Len(calls'[th])
    BY <1>5
  <2> QED BY <1>1, <1>3, <1>6, <2>1, <2>2, <2>3, OneLoad
<1>8. \A c \in AllCalls' : LoadSound(c)' /\ WalkSound(c)
  BY <1>7 DEF LoadSound, WalkSound
<1>9. started' = started /\ loads' = loads /\ \A e, l : Skipped(e, l)' <=> Skipped(e, l)
  BY <1>1 DEF classVars, Skipped
<1> QED BY <1>7, <1>8, <1>9 DEF LoadInv

\* What the start of the main thread has found is sound when it goes on.
LEMMA LoadTop ==
    ASSUME LoadInv, CallsFormed, NEW th \in Threads, calls[th] # <<>>, Top(th).kind = "load"
    PROVE  /\ LoadSound(Top(th)) /\ WalkSound(Top(th))
           /\ loads \in Seq(Loaders) /\ Distinct(loads)
           /\ \A i \in 1 .. Len(loads) : \A e \in Range(Chain[loads[i]]) \cap Loaders :
                  Skipped(e, "load") \/ UpTo(e, loads, i)
BY TopInCalls DEF LoadInv

\* While it only finds the classes.
LEMMA LoadFinds ==
    ASSUME LoadInv, CallsFormed, CallsFormed', NEW th \in Threads, calls[th] # <<>>,
           Top(th).kind = "load", NEW d, Continue(th, d), LoadSound(d), WalkSound(d),
           UNCHANGED classVars
    PROVE  LoadInv'
<1>1. /\ loads \in Seq(Loaders) /\ Distinct(loads)
      /\ \A i \in 1 .. Len(loads) : \A e \in Range(Chain[loads[i]]) \cap Loaders :
             Skipped(e, "load") \/ UpTo(e, loads, i)
  BY LoadTop
<1>2. started' = started /\ loads' = loads /\ \A e, m : Skipped(e, m)' <=> Skipped(e, m)
  BY DEF classVars, Skipped
<1>3. LoadSound(d)'
  <2>1. LoadedBefore(d.rest) => LoadedBefore(d.rest)'
    BY <1>2 DEF LoadedBefore
  <2> QED BY <1>2, <2>1 DEF LoadSound
<1>4. /\ loads' \in Seq(Loaders) /\ Distinct(loads')
      /\ \A i \in 1 .. Len(loads') : \A e \in Range(Chain[loads'[i]]) \cap Loaders :
             Skipped(e, "load")' \/ UpTo(e, loads', i)
  BY <1>1, <1>2
<1> QED BY <1>2, <1>3, <1>4, LoadReplaced

\* The next class that has not been seen: the walk up from it begins.
LEMMA FindStep ==
    ASSUME LoadInv, CallsFormed, CallsFormed', NEW th \in Threads, NEW c \in Classes,
           FindLoad(th, c)
    PROVE  LoadInv'
<1>1. /\ calls[th] # <<>> /\ Top(th).kind = "load" /\ Top(th).stage = "find"
      /\ UNCHANGED classVars
  BY DEF FindLoad, At
<1>2. PICK s : s = Top(th).rest
  OBVIOUS
<1>3. loads = <<>> /\ s \in Seq(Loaders) /\ Distinct(s) /\ LoadedBefore(s)
  BY <1>1, <1>2, LoadTop DEF LoadSound
<1>4. PICK unseen : unseen = Top(th).unseen \ {c}
  OBVIOUS
<1>5. Range(loads) = {}
  BY <1>3 DEF Range
<1>6. CASE Continue(th, LoadCall("walk", unseen, Chain[c], <<>>, s))
  <2>1. PICK d : d = LoadCall("walk", unseen, Chain[c], <<>>, s)
    OBVIOUS
  <2>2. /\ d.kind = "load" /\ d.stage = "walk" /\ d.walk = Chain[c] /\ d.inherited = <<>>
        /\ d.rest = s
    BY <2>1 DEF LoadCall
  <2>3. LoadSound(d)
    BY <1>3, <1>5, <2>2 DEF LoadSound
  <2>4. Head(Chain[c]) = c
    BY ChainRest
  <2>5. <<>> \in Seq(Loaders) /\ Range(<<>>) = {} /\ Distinct(<<>>) /\ Len(<<>>) = 0
    BY DEF Range, Distinct
  <2>6. WalkSound(d)
    BY <2>2, <2>4, <2>5 DEF WalkSound
  <2> QED BY <1>1, <1>6, <2>1, <2>3, <2>6, LoadFinds
<1>7. CASE Continue(th, LoadCall("find", unseen, <<>>, <<>>, s))
  <2>1. PICK d : d = LoadCall("find", unseen, <<>>, <<>>, s)
    OBVIOUS
  <2>2. d.kind = "load" /\ d.stage = "find" /\ d.rest = s
    BY <2>1 DEF LoadCall
  <2>3. LoadSound(d) /\ WalkSound(d)
    BY <1>3, <1>5, <2>2 DEF LoadSound, WalkSound
  <2> QED BY <1>1, <1>7, <2>1, <2>3, LoadFinds
<1> QED BY <1>2, <1>4, <1>6, <1>7 DEF FindLoad

\* All classes have been found, and the first is going to be sent +load.
LEMMA AllFoundStep ==
    ASSUME LoadInv, CallsFormed, CallsFormed', NEW th \in Threads, AllFound(th)
    PROVE  LoadInv'
<1>1. /\ calls[th] # <<>> /\ Top(th).kind = "load" /\ Top(th).stage = "find"
      /\ UNCHANGED classVars
  BY DEF AllFound, At
<1>2. PICK s : s = Top(th).rest
  OBVIOUS
<1>3. s \in Seq(Loaders) /\ Distinct(s) /\ LoadedBefore(s) /\ Range(s) \cap Range(loads) = {}
  BY <1>1, <1>2, LoadTop DEF LoadSound
<1>4. PICK d : d = LoadCall("next", {}, <<>>, <<>>, s)
  OBVIOUS
<1>5. d.kind = "load" /\ d.stage = "next" /\ d.rest = s
  BY <1>4 DEF LoadCall
<1>6. LoadSound(d) /\ WalkSound(d)
  BY <1>3, <1>5 DEF LoadSound, WalkSound
<1>7. Continue(th, d)
  BY <1>2, <1>4 DEF AllFound
<1> QED BY <1>1, <1>6, <1>7, LoadFinds

\* The classes found on the way up from a class are added to the list.
LEMMA EndWalkStep ==
    ASSUME LoadInv, CallsFormed, CallsFormed', NEW th \in Threads, EndWalk(th)
    PROVE  LoadInv'
<1>1. /\ calls[th] # <<>> /\ Top(th).kind = "load" /\ Top(th).stage = "walk"
      /\ Top(th).walk = <<>> /\ UNCHANGED classVars
  BY DEF EndWalk, At
<1>2. PICK s : s = Top(th).rest
  OBVIOUS
<1>3. PICK t : t = Top(th).inherited
  OBVIOUS
<1>4. loads = <<>> /\ s \in Seq(Loaders) /\ Distinct(s) /\ LoadedBefore(s)
  BY <1>1, <1>2, LoadTop DEF LoadSound
<1>5. /\ t \in Seq(Loaders) /\ Distinct(t) /\ Range(t) \cap Range(s) = {}
      /\ \A i \in 1 .. Len(t) : \A e \in Range(Chain[t[i]]) \cap Loaders :
             e \in Range(s) \/ UpTo(e, t, i)
  BY <1>1, <1>2, <1>3, LoadTop DEF WalkSound
<1>6. PICK q : q = s \o t
  OBVIOUS
<1>7. /\ q \in Seq(Loaders) /\ Len(q) = Len(s) + Len(t) /\ Distinct(q)
      /\ \A i \in 1 .. Len(s) : q[i] = s[i]
      /\ \A i \in 1 .. Len(t) : q[Len(s) + i] = t[i]
      /\ \A i \in 1 .. Len(q) : i \in 1 .. Len(s) \/ \E k \in 1 .. Len(t) : i = Len(s) + k
  BY <1>4, <1>5, <1>6, Joined
<1>8. Len(s) \in Nat /\ Len(t) \in Nat /\ \A e \in Range(s) : \E j \in 1 .. Len(s) : s[j] = e
  BY <1>4, <1>5, InRange
<1>9. LoadedBefore(q)
  <2>1. ASSUME NEW i \in 1 .. Len(s), NEW e \in Range(Chain[s[i]]) \cap Loaders
        PROVE  Skipped(e, "load") \/ e \in Range(loads) \/ UpTo(e, q, i)
    <3>1. Skipped(e, "load") \/ e \in Range(loads) \/ UpTo(e, s, i)
      BY <1>4, <2>1 DEF LoadedBefore
    <3>2. ASSUME NEW j \in 1 .. i, s[j] = e PROVE UpTo(e, q, i)
      <4>1. j \in 1 .. Len(s)
        BY <1>8
      <4> QED BY <1>7, <3>2, <4>1 DEF UpTo
    <3> QED BY <3>1, <3>2 DEF UpTo
  <2>2. ASSUME NEW k \in 1 .. Len(t), NEW i, i = Len(s) + k,
               NEW e \in Range(Chain[t[k]]) \cap Loaders
        PROVE  UpTo(e, q, i)
    <3>1. ASSUME NEW j \in 1 .. Len(s), s[j] = e PROVE UpTo(e, q, i)
      <4>1. j \in 1 .. i
        BY <1>8, <2>2
      <4> QED BY <1>7, <3>1, <4>1 DEF UpTo
    <3>2. ASSUME NEW j \in 1 .. k, t[j] = e PROVE UpTo(e, q, i)
      <4>1. j \in 1 .. Len(t) /\ Len(s) + j \in 1 .. i
        BY <1>8, <2>2
      <4> QED BY <1>7, <3>2, <4>1 DEF UpTo
    <3> QED BY <1>5, <1>8, <2>2, <3>1, <3>2 DEF UpTo
  <2>3. ASSUME NEW i \in 1 .. Len(q), NEW e \in Range(Chain[q[i]]) \cap Loaders
        PROVE  Skipped(e, "load") \/ e \in Range(loads) \/ UpTo(e, q, i)
    <3>1. CASE i \in 1 .. Len(s)
      <4>1. q[i] = s[i]
        BY <1>7, <3>1
      <4> QED BY <2>1, <2>3, <3>1, <4>1
    <3>2. ASSUME NEW k \in 1 .. Len(t), i = Len(s) + k
          PROVE  UpTo(e, q, i)
      <4>1. q[i] = t[k]
        BY <1>7, <3>2
      <4> QED BY <2>2, <2>3, <3>2, <4>1
    <3> QED BY <1>7, <3>1, <3>2
  <2> QED BY <2>3 DEF LoadedBefore
<1>10. PICK unseen : unseen = Top(th).unseen
  OBVIOUS
<1>11. PICK d : d = LoadCall("find", unseen, <<>>, <<>>, q)
  OBVIOUS
<1>12. d.kind = "load" /\ d.stage = "find" /\ d.rest = q
  BY <1>11 DEF LoadCall
<1>13. Range(loads) = {}
  BY <1>4 DEF Range
<1>14. LoadSound(d) /\ WalkSound(d)
  BY <1>4, <1>7, <1>9, <1>12, <1>13 DEF LoadSound, WalkSound
<1>15. Continue(th, d)
  BY <1>2, <1>3, <1>6, <1>10, <1>11 DEF EndWalk
<1> QED BY <1>1, <1>14, <1>15, LoadFinds

\* One class on the way up from a class.
LEMMA WalkStep ==
    ASSUME LoadInv, CallsFormed, CallsFormed', NEW th \in Threads, WalkLoads(th)
    PROVE  LoadInv'
<1>1. /\ calls[th] # <<>> /\ Top(th).kind = "load" /\ Top(th).stage = "walk"
      /\ Top(th).walk # <<>> /\ UNCHANGED classVars
  BY DEF WalkLoads, At
<1>2. PICK s : s = Top(th).rest
  OBVIOUS
<1>3. PICK t : t = Top(th).inherited
  OBVIOUS
<1>4. PICK c : c = Head(Top(th).walk)
  OBVIOUS
<1>5. PICK w : w = Tail(Top(th).walk)
  OBVIOUS
<1>6. /\ loads = <<>> /\ s \in Seq(Loaders) /\ Distinct(s) /\ LoadedBefore(s)
      /\ Range(s) \cap Range(loads) = {}
  BY <1>1, <1>2, LoadTop DEF LoadSound
<1>7. /\ c \in Classes /\ Top(th).walk = Chain[c]
      /\ t \in Seq(Loaders) /\ Distinct(t) /\ Range(t) \cap Range(s) = {}
      /\ Range(t) \cap Range(Chain[c]) = {}
      /\ \A i \in 1 .. Len(t) : \A e \in Range(Chain[t[i]]) \cap Loaders :
             e \in Range(s) \/ UpTo(e, t, i) \/ e \in Range(Chain[c])
  <2>1. WalkSound(Top(th))
    BY <1>1, LoadTop
  <2> QED BY <1>1, <1>2, <1>3, <1>4, <2>1 DEF WalkSound
<1>8. /\ Range(Chain[c]) = {c} \cup Range(w) /\ c \notin Range(w)
      /\ w # <<>> => Head(w) \in Classes /\ w = Chain[Head(w)]
  BY <1>5, <1>7, ChainRest
<1>9. w = <<>> => Range(w) = {}
  BY DEF Range
<1> DEFINE new == c \in Loaders /\ c \notin Range(s \o t)
<1>10. Range(s \o t) = Range(s) \cup Range(t)
  BY <1>6, <1>7, Joined
<1>11. PICK q : q = IF new THEN <<c>> \o t ELSE t
  OBVIOUS
<1>12. /\ q \in Seq(Loaders) /\ Distinct(q) /\ Range(q) \cap Range(s) = {}
       /\ w # <<>> => Range(q) \cap Range(w) = {}
       /\ \A i \in 1 .. Len(q) : \A e \in Range(Chain[q[i]]) \cap Loaders :
              e \in Range(s) \/ UpTo(e, q, i) \/ (w # <<>> /\ e \in Range(w))
  <2>1. CASE new
    <3>1. PICK a : a = <<c>>
      OBVIOUS
    <3>2. a \in Seq(Loaders) /\ Len(a) = 1 /\ a[1] = c /\ Range(a) = {c} /\ Distinct(a)
      BY <2>1, <3>1 DEF Range, Distinct
    <3>3. q = a \o t
      BY <1>11, <2>1, <3>1
    <3>4. c \notin Range(s) /\ c \notin Range(t)
      BY <1>10, <2>1
    <3>5. /\ q \in Seq(Loaders) /\ Len(q) = 1 + Len(t) /\ q[1] = c
          /\ \A i \in 1 .. Len(t) : q[1 + i] = t[i]
          /\ \A i \in 1 .. Len(q) : i = 1 \/ \E k \in 1 .. Len(t) : i = 1 + k
          /\ Range(q) = {c} \cup Range(t) /\ Distinct(q)
      <4>1. /\ q \in Seq(Loaders) /\ Len(q) = Len(a) + Len(t)
            /\ \A i \in 1 .. Len(a) : q[i] = a[i]
            /\ \A i \in 1 .. Len(t) : q[Len(a) + i] = t[i]
            /\ \A i \in 1 .. Len(q) :
                   i \in 1 .. Len(a) \/ \E k \in 1 .. Len(t) : i = Len(a) + k
            /\ Range(q) = Range(a) \cup Range(t)
        <5>1. a \in Seq(Loaders) /\ t \in Seq(Loaders)
          BY <1>7, <3>2
        <5> QED BY ONLY <3>3, <5>1, Joined
      <4>2. Distinct(q)
        BY <1>7, <3>2, <3>3, <3>4, Joined
      <4>3. \A i : i \in 1 .. 1 <=> i = 1
        OBVIOUS
      <4> QED BY <3>2, <4>1, <4>2, <4>3
    <3>6. Len(t) \in Nat
      BY <1>7
    <3>7. ASSUME NEW e \in Range(Chain[c]), NEW i \in 1 .. Len(q)
          PROVE  UpTo(e, q, i) \/ (w # <<>> /\ e \in Range(w))
      <4>1. 1 \in 1 .. i
        BY <3>5, <3>6
      <4> QED BY <1>8, <1>9, <3>5, <3>7, <4>1 DEF UpTo
    <3>8. ASSUME NEW k \in 1 .. Len(t), NEW i \in 1 .. Len(q), i = 1 + k,
                 NEW e \in Range(Chain[t[k]]) \cap Loaders
          PROVE  e \in Range(s) \/ UpTo(e, q, i) \/ (w # <<>> /\ e \in Range(w))
      <4>1. ASSUME NEW j \in 1 .. k, t[j] = e PROVE UpTo(e, q, i)
        <5>1. j \in 1 .. Len(t) /\ 1 + j \in 1 .. i
          BY <3>6, <3>8
        <5> QED BY <3>5, <4>1, <5>1 DEF UpTo
      <4> QED BY <1>7, <3>7, <3>8, <4>1 DEF UpTo
    <3>9. ASSUME NEW i \in 1 .. Len(q), NEW e \in Range(Chain[q[i]]) \cap Loaders
          PROVE  e \in Range(s) \/ UpTo(e, q, i) \/ (w # <<>> /\ e \in Range(w))
      <4>1. CASE i = 1
        BY <3>5, <3>7, <3>9, <4>1
      <4>2. ASSUME NEW k \in 1 .. Len(t), i = 1 + k
          PROVE  e \in Range(s) \/ UpTo(e, q, i) \/ (w # <<>> /\ e \in Range(w))
        <5>1. q[i] = t[k]
          BY <3>5, <4>2
        <5> QED BY <3>8, <3>9, <4>2, <5>1
      <4> QED BY <3>5, <4>1, <4>2
    <3> QED BY <1>7, <1>8, <3>4, <3>5, <3>9
  <2>2. CASE ~ new
    <3>1. c \in Loaders => c \in Range(s)
      BY <1>7, <1>8, <1>10, <2>2
    <3>2. q = t
      BY <1>11, <2>2
    <3> QED BY <1>7, <1>8, <1>9, <3>1, <3>2
  <2> QED BY <2>1, <2>2
<1>13. PICK unseen : unseen = Top(th).unseen
  OBVIOUS
<1>14. PICK d : d = LoadCall("walk", unseen, w, q, s)
  OBVIOUS
<1>15. /\ d.kind = "load" /\ d.stage = "walk" /\ d.walk = w /\ d.inherited = q
       /\ d.rest = s
  BY <1>14 DEF LoadCall
<1>16. LoadSound(d)
  BY <1>6, <1>15 DEF LoadSound
<1>17. WalkSound(d)
  BY <1>8, <1>12, <1>15 DEF WalkSound
<1>18. Continue(th, d)
  BY <1>2, <1>3, <1>4, <1>5, <1>11, <1>13, <1>14 DEF WalkLoads
<1> QED BY <1>1, <1>16, <1>17, <1>18, LoadFinds

\* The start of the main thread begins.
LEMMA BeginStep ==
    ASSUME LoadInv, CallsFormed, CallsFormed', NEW th \in Threads, BeginLoads(th)
    PROVE  LoadInv'
<1>1. PICK d : d = LoadCall("find", Classes, <<>>, <<>>, <<>>)
  OBVIOUS
<1>2. /\ ~started /\ started' /\ Enter(th, d) /\ UNCHANGED <<loads, swallowed>>
  BY <1>1 DEF BeginLoads
<1>3. d.kind = "load" /\ d.stage = "find" /\ d.rest = <<>>
  BY <1>1 DEF LoadCall
<1>4. loads = <<>> /\ \A c \in AllCalls : c.kind # "load"
  BY <1>2 DEF LoadInv
<1>5. <<>> \in Seq(Loaders) /\ Range(<<>>) = {} /\ Distinct(<<>>) /\ Len(<<>>) = 0
  BY DEF Range, Distinct
<1>6. LoadSound(d)' /\ WalkSound(d)
  BY <1>2, <1>3, <1>4, <1>5 DEF LoadSound, WalkSound, LoadedBefore
<1>7. \A c \in AllCalls' : c = d \/ c \in AllCalls
  BY <1>2, CallsNew
<1>8. \A c \in AllCalls' : LoadSound(c)' /\ WalkSound(c)
  BY <1>4, <1>6, <1>7 DEF LoadSound, WalkSound
<1>9. PICK n : n = Len(calls[th]) + 1
  OBVIOUS
<1>10. OnlyLoad(th, n)'
  <2>1. Elsewhere(th, n)
    BY <1>2, <1>9, TopElsewhere
  <2>2. ASSUME NEW u \in Threads, NEW i \in 1 .. Len(calls'[u]), calls'[u][i].kind = "load",
               u # th \/ i # n
        PROVE  FALSE
    <3>1. i \in Nat
      BY DEF CallsFormed
    <3>2. i \in 1 .. Len(calls[u]) /\ calls[u][i].kind = "load"
      BY <2>1, <2>2, <3>1 DEF Elsewhere
    <3> QED BY <1>4, <3>2, InCalls
  <2> QED BY <2>2 DEF OnlyLoad
<1>11. loads' = <<>>
  BY <1>2, <1>4
<1> QED BY <1>2, <1>5, <1>8, <1>10, <1>11 DEF LoadInv

\* A class is sent +load.
LEMMA LoadNextStep ==
    ASSUME LoadInv, CallsFormed, CallsFormed', NEW th \in Threads, LoadNext(th)
    PROVE  LoadInv'
<1>1. /\ calls[th] # <<>> /\ Top(th).kind = "load" /\ Top(th).stage = "next"
      /\ Top(th).rest # <<>> /\ UNCHANGED started
  BY DEF LoadNext, At
<1>2. PICK s : s = Top(th).rest
  OBVIOUS
<1>3. PICK c : c = Head(s)
  OBVIOUS
<1>4. PICK t : t = Tail(s)
  OBVIOUS
<1>5. /\ s \in Seq(Loaders) /\ Distinct(s) /\ LoadedBefore(s) /\ s # <<>>
      /\ Range(s) \cap Range(loads) = {}
  BY <1>1, <1>2, LoadTop DEF LoadSound
<1>6. /\ loads \in Seq(Loaders) /\ Distinct(loads)
      /\ \A i \in 1 .. Len(loads) : \A e \in Range(Chain[loads[i]]) \cap Loaders :
             Skipped(e, "load") \/ UpTo(e, loads, i)
  BY <1>1, LoadTop
<1>7. /\ c = s[1] /\ c \in Loaders /\ t \in Seq(Loaders) /\ Len(s) \in Nat \ {0}
      /\ Len(t) = Len(s) - 1 /\ Range(s) = {c} \cup Range(t) /\ Distinct(t) /\ c \notin Range(t)
      /\ \A i \in 1 .. Len(t) : t[i] = s[i + 1] /\ i + 1 \in 1 .. Len(s)
  BY <1>3, <1>4, <1>5, Headed
<1>8. PICK rest : rest = LoadCall("next", {}, <<>>, <<>>, t)
  OBVIOUS
<1>9. PICK next : next = SendCall(c, "load", <<>>)
  OBVIOUS
<1>10. \/ /\ Continue(th, rest) /\ swallowed' = swallowed \cup {<<c, "load">>}
          /\ UNCHANGED loads
       \/ /\ calls' = [calls EXCEPT ![th] = Front(@) \o <<rest, next>>]
          /\ loads' = Append(loads, c) /\ UNCHANGED swallowed
  BY <1>2, <1>3, <1>4, <1>8, <1>9 DEF LoadNext
<1>11. rest.kind = "load" /\ rest.stage = "next" /\ rest.rest = t /\ next.kind = "send"
  BY <1>8, <1>9 DEF LoadCall, SendCall
<1>12. WalkSound(rest)
  BY <1>11 DEF WalkSound
<1>13. \A e, m : Skipped(e, m) => Skipped(e, m)'
  BY <1>10 DEF Skipped
<1>14. ASSUME Skipped(c, "load")' \/ c \in Range(loads'), Range(loads) \subseteq Range(loads')
       PROVE  LoadedBefore(t)'
  <2>1. ASSUME NEW i \in 1 .. Len(t), NEW e \in Range(Chain[t[i]]) \cap Loaders
        PROVE  Skipped(e, "load")' \/ e \in Range(loads') \/ UpTo(e, t, i)
    <3>1. Skipped(e, "load") \/ e \in Range(loads) \/ UpTo(e, s, i + 1)
      BY <1>5, <1>7, <2>1 DEF LoadedBefore
    <3>2. ASSUME NEW j \in 1 .. i + 1, s[j] = e, j # 1 PROVE UpTo(e, t, i)
      <4>1. PICK k : k = j - 1
        OBVIOUS
      <4>2. k \in 1 .. i /\ k \in 1 .. Len(t) /\ k + 1 = j
        BY <1>7, <2>1, <3>2, <4>1
      <4> QED BY <1>7, <3>2, <4>2 DEF UpTo
    <3> QED BY <1>7, <1>13, <1>14, <3>1, <3>2 DEF UpTo
  <2> QED BY <2>1 DEF LoadedBefore
<1>15. CASE Continue(th, rest) /\ swallowed' = swallowed \cup {<<c, "load">>} /\ UNCHANGED loads
  <2>1. Skipped(c, "load")'
    BY <1>15 DEF Skipped
  <2>2. LoadedBefore(t)' /\ Range(t) \cap Range(loads') = {}
    BY <1>5, <1>7, <1>14, <1>15, <2>1
  <2>3. LoadSound(rest)'
    BY <1>7, <1>11, <2>2 DEF LoadSound
  <2>4. /\ loads' \in Seq(Loaders) /\ Distinct(loads')
        /\ \A i \in 1 .. Len(loads') : \A e \in Range(Chain[loads'[i]]) \cap Loaders :
               Skipped(e, "load")' \/ UpTo(e, loads', i)
    BY <1>6, <1>13, <1>15
  <2> QED BY <1>1, <1>12, <1>15, <2>3, <2>4, LoadReplaced
<1>16. CASE /\ calls' = [calls EXCEPT ![th] = Front(@) \o <<rest, next>>]
            /\ loads' = Append(loads, c) /\ UNCHANGED swallowed
  <2> DEFINE l == Len(loads)
  <2>1. c \notin Range(loads)
    BY <1>5, <1>7
  <2>2. /\ loads' \in Seq(Loaders) /\ Len(loads') = l + 1 /\ l \in Nat /\ loads'[l + 1] = c
        /\ \A i \in 1 .. l : loads'[i] = loads[i]
        /\ Range(loads') = Range(loads) \cup {c} /\ Distinct(loads')
    BY <1>6, <1>7, <1>16, <2>1, Appended
  <2>3. \A e \in Range(loads) : \E j \in 1 .. l : loads[j] = e
    BY <1>6, InRange
  <2>4. LoadedBefore(t)' /\ Range(t) \cap Range(loads') = {}
    BY <1>5, <1>7, <1>14, <2>2
  <2>5. LoadSound(rest)'
    BY <1>7, <1>11, <2>4 DEF LoadSound
  <2> HIDE DEF l
  <2>6. ASSUME NEW i \in 1 .. l + 1, NEW e \in Range(Chain[loads'[i]]) \cap Loaders
        PROVE  Skipped(e, "load")' \/ UpTo(e, loads', i)
    <3>1. ASSUME NEW j \in 1 .. i, j \in 1 .. l, loads[j] = e PROVE UpTo(e, loads', i)
      BY <2>2, <3>1 DEF UpTo
    <3>2. CASE i \in 1 .. l
      <4>1. Skipped(e, "load") \/ UpTo(e, loads, i)
        BY <1>6, <2>2, <2>6, <3>2 DEF l
      <4>2. \A j \in 1 .. i : j \in 1 .. l
        BY <2>2, <3>2
      <4> QED BY <1>13, <3>1, <4>1, <4>2 DEF UpTo
    <3>3. CASE i = l + 1
      <4>1. 1 \in 1 .. Len(s) /\ e \in Range(Chain[s[1]]) \cap Loaders
        BY <1>7, <2>2, <2>6, <3>3
      <4>2. Skipped(e, "load") \/ e \in Range(loads) \/ UpTo(e, s, 1)
        BY <1>5, <4>1 DEF LoadedBefore
      <4>3. CASE e \in Range(loads)
        <5>1. PICK j \in 1 .. l : loads[j] = e
          BY <2>3, <4>3
        <5>2. j \in 1 .. i
          BY <2>2, <3>3
        <5> QED BY <3>1, <5>1, <5>2
      <4>4. CASE UpTo(e, s, 1)
        <5>1. e = c
          BY <1>7, <4>4 DEF UpTo
        <5>2. i \in 1 .. i /\ loads'[i] = c
          BY <2>2, <3>3
        <5> QED BY <5>1, <5>2 DEF UpTo
      <4> QED BY <1>13, <4>2, <4>3, <4>4
    <3> QED BY <2>2, <3>2, <3>3
  <2>7. \A i \in 1 .. Len(loads') : \A e \in Range(Chain[loads'[i]]) \cap Loaders :
            Skipped(e, "load")' \/ UpTo(e, loads', i)
    BY <2>2, <2>6
  <2> QED BY <1>1, <1>11, <1>12, <1>16, <2>2, <2>5, <2>7, LoadReplaced
<1> QED BY <1>10, <1>15, <1>16

\* Every step keeps the order of +load.
LEMMA LoadStep ==
    ASSUME CallsFormed, CallsFormed', LoadInv, [Next]_vars
    PROVE  LoadInv'
<1>1. ASSUME UNCHANGED classVars, NEW K, Step(K), K \cap ClassKinds = {} PROVE LoadInv'
  <2>1. "load" \notin K
    BY <1>1 DEF ClassKinds
  <2> QED BY <1>1, <2>1, LoadsStay DEF classVars
<1>2. ASSUME NEW th \in Threads, MessageCalls(th) \/ InitializeNext(th) \/ EndSend(th)
      PROVE  LoadInv'
  <2>1. Step({"send"})
    BY <1>2, SendMoves DEF Step
  <2>2. UNCHANGED <<started, loads>> /\ swallowed \subseteq swallowed'
    BY <1>2 DEF MessageCalls, Send, SendSuper, InitializeNext, EndSend, classVars
  <2>3. "load" \notin {"send"}
    OBVIOUS
  <2> QED BY <2>1, <2>2, <2>3, LoadsStay
<1>3. ASSUME NEW th \in Threads, BeginLoads(th) PROVE LoadInv'
  BY <1>3, BeginStep
<1>4. ASSUME NEW th \in Threads, FindLoads(th) PROVE LoadInv'
  BY <1>4, FindStep, WalkStep, EndWalkStep, AllFoundStep DEF FindLoads
<1>5. ASSUME NEW th \in Threads, LoadNext(th) PROVE LoadInv'
  BY <1>5, LoadNextStep
<1>6. ASSUME NEW th \in Threads, EndLoads(th) PROVE LoadInv'
  BY <1>6, LoadsEnd
<1> QED BY <1>1, <1>2, <1>3, <1>4, <1>5, <1>6, MessageSteps DEF MessageHost

\* The program starts with nothing loaded.
LEMMA LoadInit == ASSUME Init PROVE LoadInv
<1>1. AllCalls = {} /\ \A u \in Threads : Len(calls[u]) = 0
  BY DEF Init, AllCalls, Range
<1>2. loads = <<>>
  BY DEF Init, MessagesInit
<1>3. Len(loads) = 0 /\ loads \in Seq(Loaders)
  BY <1>2
<1>4. \A th, n : OnlyLoad(th, n)
  BY <1>1 DEF OnlyLoad
<1> QED BY <1>1, <1>2, <1>3, <1>4 DEF LoadInv, Distinct

\* A list without repetition that has every superclass up to its subclass's
\* place has it once.
LEMMA OnceInList ==
    ASSUME NEW S, NEW list \in Seq(S), Distinct(list), NEW belongs,
           \A i \in 1 .. Len(list) : \A d \in Range(Chain[list[i]]) \cap belongs :
               UpTo(d, list, i)
    PROVE  SuperclassesFirst(list, belongs)
<1>1. DOMAIN list = 1 .. Len(list) /\ Len(list) \in Nat
  OBVIOUS
<1>2. ASSUME NEW i \in 1 .. Len(list), NEW d \in Range(Chain[list[i]]) \cap belongs
      PROVE  /\ Cardinality({j \in DOMAIN list : list[j] = d}) = 1
             /\ \E j \in 1 .. i : list[j] = d
  <2>1. PICK j \in 1 .. i : list[j] = d
    BY <1>2 DEF UpTo
  <2>2. j \in 1 .. Len(list)
    BY <1>1
  <2>3. {k \in DOMAIN list : list[k] = d} = {j}
    BY <1>1, <2>1, <2>2 DEF Distinct
  <2>4. Cardinality({j}) = 1
    BY FS_Singleton
  <2> QED BY <2>1, <2>3, <2>4
<1> QED BY <1>1, <1>2 DEF SuperclassesFirst

\* What the invariants say of the order of +initialize and +load.
LEMMA OrderImplied == ASSUME CallsFormed, InitializeInv, LoadInv PROVE InitializedInOrder
<1>1. SuperclassesFirst(loads, {c \in Loaders : <<c, "load">> \notin swallowed})
  <2> DEFINE belongs == {c \in Loaders : <<c, "load">> \notin swallowed}
  <2>1. \A i \in 1 .. Len(loads) : \A d \in Range(Chain[loads[i]]) \cap belongs :
            UpTo(d, loads, i)
    BY DEF LoadInv, Skipped
  <2>2. loads \in Seq(Loaders) /\ Distinct(loads)
    BY DEF LoadInv
  <2> HIDE DEF belongs
  <2>3. SuperclassesFirst(loads, belongs)
    BY <2>1, <2>2, OnceInList
  <2> QED BY <2>3 DEF belongs
<1>2. SuperclassesFirst(initializes, {c \in Classes : /\ HasInitialize(c)
                                                      /\ <<c, "initialize">> \notin swallowed})
  <2> DEFINE belongs == {c \in Classes : /\ HasInitialize(c)
                                         /\ <<c, "initialize">> \notin swallowed}
  <2>1. \A i \in 1 .. Len(initializes) : \A d \in Range(Chain[initializes[i]]) \cap belongs :
            UpTo(d, initializes, i)
    BY DEF InitializeInv, Skipped
  <2>2. initializes \in Seq(Classes) /\ Distinct(initializes)
    BY DEF InitializeInv
  <2> HIDE DEF belongs
  <2>3. SuperclassesFirst(initializes, belongs)
    BY <2>1, <2>2, OnceInList
  <2> QED BY <2>3 DEF belongs
<1>3. ASSUME NEW p \in Sends, NEW c, c = calls[p[1]][p[2]], c.stage = "callback",
             c.method = "method", NEW d \in Range(Chain[c.class]), HasInitialize(d)
      PROVE  d \in Range(initializes) \/ <<d, "initialize">> \in swallowed
  <2>1. PICK th \in Threads : p \in {th} \X DOMAIN calls[th]
    BY <1>3 DEF Sends
  <2>2. p[1] = th /\ p[2] \in DOMAIN calls[th] /\ c.kind = "send"
    BY <1>3, <2>1 DEF Sends
  <2>3. c \in AllCalls
    BY <1>3, <2>2 DEF AllCalls, Range
  <2>4. c.class \in initialized
    BY <1>3, <2>2, <2>3 DEF InitializeInv, SendSound
  <2> QED BY <1>3, <2>4 DEF InitializeInv, Skipped
<1> QED BY <1>1, <1>2, <1>3 DEF InitializedInOrder

\* A class is sent +initialize and +load once, after its superclasses, and a
\* method is called after the class has been sent +initialize, for all
\* classes, threads and programs, unless the limit keeps one from being sent.
THEOREM ClassesInOrder == ASSUME LawfulLoads PROVE Spec => []InitializedInOrder
<1>1. Init => InitializeInv /\ LoadInv
  BY InitializeInit, LoadInit
<1>2. CallsFormed /\ CallsFormed' /\ InitializeInv /\ LoadInv /\ [Next]_vars
          => InitializeInv' /\ LoadInv'
  BY InitializeStep, LoadStep
<1>3. CallsFormed /\ InitializeInv /\ LoadInv => InitializedInOrder
  BY OrderImplied
<1> QED BY <1>1, <1>2, <1>3, CallsFormedAlways, PTL DEF Spec

-----------------------------------------------------------------------------
(***************************************************************************)
(* Types.  Most of them are among the invariants above; the rest is what   *)
(* the steps of one module each keep.                                      *)
(***************************************************************************)

\* What other invariants do not say of the calls.
KindSound(c) ==
    /\ c.kind \in LoopKinds \cup CenterKinds \cup OpKinds \cup BlockKinds \cup ClassKinds
                  \cup LockKinds
    /\ c.kind \in {"fire", "once", "block"} => c.stage = "callback"
    /\ c.kind = "block" => c.left \in Nat \ {0}
    /\ c.kind = "start" => c.stage \in {"main", "completion", "end"}
    /\ c.kind = "get" => c.stage = "sleep"

KindsSound == \A c \in AllCalls : KindSound(c)

\* What a step of a thread may do to that.
KeepsSound(th) ==
    \/ UNCHANGED calls
    \/ calls[th] # <<>> /\ Leave(th)
    \/ \E c : KindSound(c) /\ Enter(th, c)
    \/ calls[th] # <<>> /\ \E c : KindSound(c) /\ Continue(th, c)
    \/ /\ calls[th] # <<>>
       /\ \E c, d : /\ KindSound(c) /\ KindSound(d)
                    /\ calls' = [calls EXCEPT ![th] = Front(@) \o <<c, d>>]

\* A step that does no more keeps what is said of all calls.
LEMMA KindsKept ==
    ASSUME KindsSound, CallsFormed, CallsFormed', NEW th \in Threads, KeepsSound(th)
    PROVE  KindsSound'
<1>1. CASE UNCHANGED calls
  BY <1>1 DEF KindsSound, AllCalls
<1>2. CASE calls[th] # <<>> /\ Leave(th)
  BY <1>2, CallsNew DEF KindsSound
<1>3. ASSUME NEW c, KindSound(c), Enter(th, c) \/ (calls[th] # <<>> /\ Continue(th, c))
      PROVE  KindsSound'
  BY <1>3, CallsNew DEF KindsSound
<1>4. ASSUME NEW c, NEW d, KindSound(c), KindSound(d), calls[th] # <<>>,
             calls' = [calls EXCEPT ![th] = Front(@) \o <<c, d>>]
      PROVE  KindsSound'
  BY <1>4, CallsNewTwo DEF KindsSound
<1> QED BY <1>1, <1>2, <1>3, <1>4 DEF KeepsSound

\* The kinds of which the other invariants say enough.
Plain == {"run", "post", "send", "load", "sync", "set"}

\* Of them nothing else is said.
LEMMA PlainSound == ASSUME NEW c, c.kind \in Plain PROVE KindSound(c)
BY DEF KindSound, Plain, LoopKinds, CenterKinds, OpKinds, BlockKinds, ClassKinds, LockKinds

\* Steps of modules that have such calls only.
LEMMA PlainKept ==
    ASSUME NEW th \in Threads, NEW K, K \subseteq Plain, Moves(th, K) PROVE KeepsSound(th)
<1>1. \A c : Of(c, K) => KindSound(c)
  BY PlainSound DEF Of
<1> QED BY <1>1 DEF Moves, KeepsSound, Replaces

\* Steps of run loops and timers.
LEMMA LoopKeeps ==
    ASSUME CallsFormed, NEW th \in Threads,
           \/ TimerCalls(th) \/ RemoteCalls(th, LoopsRun)
           \/ RunLoopHost(th) \/ Wake(th) \/ EndTimer(th) \/ EndFire(th)
    PROVE  KeepsSound(th)
<1>1. \A l, single, batch : KindSound(RunCall(l, single, batch))
  BY PlainSound DEF RunCall, Plain
<1>2. \A t : KindSound(FireCall(t))
  BY DEF FireCall, KindSound, LoopKinds
<1>3. CASE TimerCalls(th)
  <2>1. \/ UNCHANGED calls \/ \E t \in Timers : Enter(th, FireCall(t))
        \/ \E single \in BOOLEAN : Enter(th, RunCall(th, single, timers[th]))
    BY <1>3 DEF TimerCalls, NewTimer, ReleaseTimer, SetFireDate, Fire,
         CancelPerformSelectors, BeginRun
  <2> QED BY <1>1, <1>2, <2>1 DEF KeepsSound
<1>4. CASE RemoteCalls(th, LoopsRun)
  BY <1>4 DEF RemoteCalls, InvalidateTimer, AddTimer, CFRunLoopStop, KeepsSound
<1>5. ASSUME calls[th] # <<>>, Top(th).kind = "run"
      PROVE  /\ \A s : KindSound([Top(th) EXCEPT !.stage = s])
             /\ \A s, t : KindSound([Top(th) EXCEPT !.stage = s, !.timer = t])
             /\ \A b : KindSound([Top(th) EXCEPT !.batch = b])
             /\ \A b, s, t :
                    KindSound([[Top(th) EXCEPT !.batch = b] EXCEPT !.stage = s, !.timer = t])
  <2>1. "kind" \in DOMAIN Top(th)
    BY <1>5, TopFormed DEF Formed
  <2>2. \A c : c.kind = "run" => KindSound(c)
    BY PlainSound DEF Plain
  <2> QED BY <1>5, <2>1, <2>2
<1>6. CASE RunLoopHost(th)
  <2>1. calls[th] # <<>> /\ Top(th).kind = "run"
    BY <1>6 DEF RunLoopHost, EndPass, HandleTimer, At
  <2>2. CASE EndPass(th)
    BY <1>5, <2>1, <2>2 DEF EndPass, KeepsSound
  <2>3. ASSUME NEW t \in Timers, HandleTimer(th, t) PROVE KeepsSound(th)
    <3>1. \E b : \/ Continue(th, [Top(th) EXCEPT !.batch = b])
                 \/ Continue(th, [[Top(th) EXCEPT !.batch = b] EXCEPT
                                    !.stage = "callback", !.timer = t])
      BY <2>3 DEF HandleTimer
    <3> QED BY <1>5, <2>1, <3>1 DEF KeepsSound
  <2> QED BY <1>6, <2>2, <2>3 DEF RunLoopHost
<1>7. CASE Wake(th)
  <2>1. calls[th] # <<>> /\ (Leave(th) \/ NextPass(th))
    BY <1>7 DEF Wake, At
  <2> QED BY <1>1, <2>1 DEF NextPass, KeepsSound
<1>8. CASE EndTimer(th)
  BY <1>5, <1>8 DEF EndTimer, At, KeepsSound
<1>9. CASE EndFire(th)
  BY <1>9 DEF EndFire, At, KeepsSound
<1> QED BY <1>3, <1>4, <1>6, <1>7, <1>8, <1>9

\* Steps of operations.
LEMMA OpKeeps ==
    ASSUME CallsFormed, NEW th \in Threads,
           OperationCalls(th) \/ EndStart(th) \/ EndMain(th) \/ EndCompletion(th)
    PROVE  KeepsSound(th)
<1>1. \A o, queue : KindSound(StartCall(o, queue))
  BY DEF StartCall, KindSound, OpKinds
<1>2. CASE OperationCalls(th)
  <2>1. UNCHANGED calls \/ \E o, queue : Enter(th, StartCall(o, queue))
    BY <1>2 DEF OperationCalls, StartOperation, AddOperation, Start, DropOperation,
         AddDependency, RemoveDependency, Cancel, CancelAllOperations, SetSuspended
  <2> QED BY <1>1, <2>1 DEF KeepsSound
<1>3. CASE EndStart(th)
  BY <1>3 DEF EndStart, At, KeepsSound
<1>4. CASE EndMain(th) \/ EndCompletion(th)
  <2>1. /\ calls[th] # <<>> /\ Top(th).kind = "start"
        /\ \E s \in {"completion", "end"} : Continue(th, [Top(th) EXCEPT !.stage = s])
    BY <1>4 DEF EndMain, EndCompletion, At
  <2>2. {"kind", "stage"} \subseteq DOMAIN Top(th)
    BY <2>1, TopFormed DEF Formed
  <2>3. \A s \in {"completion", "end"} : KindSound([Top(th) EXCEPT !.stage = s])
    BY <2>1, <2>2 DEF KindSound, OpKinds
  <2> QED BY <2>1, <2>3 DEF KeepsSound
<1> QED BY <1>2, <1>3, <1>4

\* Steps of blocks: the last iteration is the one that ends the call.
LEMMA BlockKeeps ==
    ASSUME KindsSound, CallsFormed, NEW th \in Threads,
           DispatchCalls(th) \/ EndBlock(th) \/ EndOnce(th)
    PROVE  KeepsSound(th)
<1>1. \A q, pushed : KindSound(BlockCall(q, 1, pushed)) /\ KindSound(BlockCall(q, 2, pushed))
  BY DEF BlockCall, KindSound, BlockKinds
<1>2. \A token : KindSound(OnceCall(token))
  BY DEF OnceCall, KindSound, BlockKinds
<1>3. CASE DispatchCalls(th)
  <2>1. \/ UNCHANGED calls \/ \E token \in Tokens : Enter(th, OnceCall(token))
        \/ \E q \in DispatchQueues :
               \/ Enter(th, BlockCall(q, 1, TRUE)) \/ Enter(th, BlockCall(q, 1, FALSE))
               \/ Enter(th, BlockCall(q, 2, FALSE))
    BY <1>3 DEF DispatchCalls, DispatchOnce, DispatchBlock, DispatchDirect, DispatchApply,
         SemaphoreWait, SemaphoreSignal
  <2> QED BY <1>1, <1>2, <2>1 DEF KeepsSound
<1>4. CASE EndBlock(th)
  <2>1. calls[th] # <<>> /\ Top(th).kind = "block" /\ Top(th).stage = "callback"
    BY <1>4 DEF EndBlock, At
  <2>2. {"kind", "stage", "left"} \subseteq DOMAIN Top(th)
    BY <2>1, TopFormed DEF Formed
  <2>3. Top(th).left \in Nat \ {0}
    BY <2>1, TopInCalls DEF KindsSound, KindSound
  <2>4. PICK c : c = [Top(th) EXCEPT !.left = @ - 1]
    OBVIOUS
  <2>5. c.kind = "block" /\ c.stage = "callback" /\ c.left = Top(th).left - 1
    BY <2>1, <2>2, <2>4
  <2>6. CASE Top(th).left > 1 /\ Continue(th, c)
    <3>1. c.left \in Nat \ {0}
      BY <2>3, <2>5, <2>6
    <3>2. KindSound(c)
      BY <2>5, <3>1 DEF KindSound, BlockKinds
    <3> QED BY <2>1, <2>6, <3>2 DEF KeepsSound
  <2> QED BY <1>4, <2>1, <2>4, <2>6 DEF EndBlock, MoreIterations, KeepsSound
<1>5. CASE EndOnce(th)
  BY <1>5 DEF EndOnce, At, KeepsSound
<1> QED BY <1>3, <1>4, <1>5

\* Steps of locks and properties.
LEMMA LockKeeps ==
    ASSUME CallsFormed, NEW th \in Threads,
           \/ BlockCalls(th) \/ PropertyCalls(th)
           \/ SynchronizedHost(th) \/ SynchronizedReturns(th)
    PROVE  KeepsSound(th)
<1>1. \A o, m : KindSound(EnterCall(o, m))
  BY PlainSound DEF EnterCall, Plain
<1>2. \A o, v, copy, m, stage : KindSound(SetCall(o, v, copy, m, stage))
  BY PlainSound DEF SetCall, Plain
<1>3. \A m : KindSound(GetCall(m))
  BY DEF GetCall, KindSound, LockKinds
<1>4. CASE BlockCalls(th)
  BY <1>1, <1>4 DEF BlockCalls, ObjcSyncEnter, ObjcSyncExit, KeepsSound
<1>5. CASE PropertyCalls(th)
  <2>1. \/ UNCHANGED calls
        \/ \E o, v, copy, m, stage : Enter(th, SetCall(o, v, copy, m, stage))
        \/ \E m : Enter(th, GetCall(m))
    <3>1. ASSUME NEW o, NEW v, NEW copy, NEW atomic, SetProperty(th, o, v, copy, atomic)
          PROVE  \E m, stage : Enter(th, SetCall(o, v, copy, m, stage))
      BY <3>1 DEF SetProperty
    <3>2. ASSUME NEW o, GetProperty(th, o) PROVE UNCHANGED calls \/ \E m : Enter(th, GetCall(m))
      BY <3>2 DEF GetProperty
    <3>3. ASSUME NEW v, NewValue(th, v) \/ ReleaseValue(th, v) PROVE UNCHANGED calls
      BY <3>3 DEF NewValue, ReleaseValue
    <3> QED BY <1>5, <3>1, <3>2, <3>3 DEF PropertyCalls
  <2> QED BY <1>2, <1>3, <2>1 DEF KeepsSound
<1>6. ASSUME calls[th] # <<>>, Top(th).kind = "set"
      PROVE  /\ \A s : KindSound([Top(th) EXCEPT !.stage = s])
             /\ \A w, s : KindSound([[Top(th) EXCEPT !.old = w] EXCEPT !.stage = s])
             /\ \A v, s : KindSound([Top(th) EXCEPT !.stage = s, !.value = v])
  <2>1. "kind" \in DOMAIN Top(th)
    BY <1>6, TopFormed DEF Formed
  <2>2. \A c : c.kind = "set" => KindSound(c)
    BY PlainSound DEF Plain
  <2> QED BY <1>6, <2>1, <2>2
<1>7. CASE SyncEntered(th) \/ GetterLocked(th) \/ EndSet(th)
  BY <1>7 DEF SyncEntered, GetterLocked, EndSet, At, KeepsSound
<1>8. CASE SetterLocked(th)
  BY <1>6, <1>8 DEF SetterLocked, At, KeepsSound
<1>9. CASE ReadOld(th)
  BY <1>6, <1>9 DEF ReadOld, At, KeepsSound
<1>10. CASE Store(th)
  BY <1>6, <1>10 DEF Store, At, KeepsSound
<1>11. CASE SynchronizedReturns(th)
  BY <1>6, <1>11 DEF SynchronizedReturns, EndCopy, EndDealloc, At, KeepsSound
<1> QED BY <1>4, <1>5, <1>7, <1>8, <1>9, <1>10, <1>11 DEF SynchronizedHost

\* What a step puts into the other variables.
LoopRest ==
    /\ stopped \in [Threads -> BOOLEAN]
    /\ repeats \in [Timers -> BOOLEAN]
    /\ target \in [Timers -> Targets]

OpRest ==
    /\ opState \in [Ops -> {"Ready", "Executing", "Finished"}]
    /\ cancelled \in [Ops -> BOOLEAN]
    /\ deps \in [Ops -> SUBSET Ops]
    /\ queued \in [Queues -> SUBSET Ops]
    /\ suspended \in [Queues -> BOOLEAN]

BlockRest ==
    /\ queueStack \in Seq(DispatchQueues)
    /\ onceTokens \subseteq Tokens /\ onceRuns \in [Tokens -> Nat]
    /\ permits \in -MaxPermits .. MaxPermits

ClassRest == started \in BOOLEAN /\ swallowed \subseteq Classes \X {"initialize", "load"}

\* Steps of run loops and timers keep the types of these.
LEMMA LoopStays ==
    ASSUME LoopRest, NEW th \in Threads,
           \/ TimerCalls(th) \/ RemoteCalls(th, LoopsRun)
           \/ RunLoopHost(th) \/ Wake(th) \/ EndTimer(th) \/ EndFire(th)
    PROVE  LoopRest'
<1>1. CASE UNCHANGED <<stopped, repeats, target>>
  BY <1>1 DEF LoopRest
<1>2. ASSUME NEW t, NEW r \in BOOLEAN, NEW g \in Targets, NewTimer(th, t, r, g) PROVE LoopRest'
  BY <1>2 DEF NewTimer, LoopRest
<1>3. ASSUME NEW l, CFRunLoopStop(th, l) PROVE LoopRest'
  BY <1>3 DEF CFRunLoopStop, timerVars, LoopRest
<1>4. CASE Wake(th)
  BY <1>4 DEF Wake, ClearStopped, LoopRest
<1>5. CASE TimerCalls(th)
  <2>1. \/ \E t \in Timers : \E r \in BOOLEAN, g \in Targets : NewTimer(th, t, r, g)
        \/ UNCHANGED <<stopped, repeats, target>>
    BY <1>5 DEF TimerCalls, ReleaseTimer, SetFireDate, Fire, CancelPerformSelectors,
         BeginRun, loopVars, timerVars
  <2> QED BY <1>1, <1>2, <2>1
<1>6. CASE RemoteCalls(th, LoopsRun)
  <2>1. (\E l : CFRunLoopStop(th, l)) \/ UNCHANGED <<stopped, repeats, target>>
    BY <1>6 DEF RemoteCalls, InvalidateTimer, AddTimer
  <2> QED BY <1>1, <1>3, <2>1
<1>7. CASE RunLoopHost(th) \/ EndTimer(th) \/ EndFire(th)
  BY <1>1, <1>7 DEF RunLoopHost, EndPass, HandleTimer, EndTimer, EndFire, loopVars, timerVars
<1> QED BY <1>4, <1>5, <1>6, <1>7

\* Steps of operations keep the types of these.
LEMMA OpStays ==
    ASSUME OpRest, NEW th \in Threads,
           OperationCalls(th) \/ EndStart(th) \/ EndMain(th) \/ EndCompletion(th)
    PROVE  OpRest'
<1>1. ASSUME NEW o \in Ops, NEW queue, Start(th, o, queue), UNCHANGED <<cancelled, deps, suspended>>
      PROVE  OpRest'
  BY <1>1 DEF Start, OpRest
<1>2. CASE OperationCalls(th)
  <2>1. CASE \E o \in Ops : StartOperation(th, o) \/ \E q \in Queues : AddOperation(th, o, q)
    BY <1>1, <2>1 DEF StartOperation, AddOperation
  <2>2. CASE \E o \in Ops : Cancel(th, o) \/ \E q \in Queues : DropOperation(th, o, q)
    BY <2>2 DEF Cancel, DropOperation, OpRest
  <2>3. CASE \E o, d \in Ops : AddDependency(th, o, d) \/ RemoveDependency(th, o, d)
    BY <2>3 DEF AddDependency, RemoveDependency, OpRest
  <2>4. ASSUME NEW q \in Queues, CancelAllOperations(th, q) PROVE OpRest'
    <3>1. \A o \in Ops : (cancelled[o] \/ o \in queued[q]) \in BOOLEAN
      OBVIOUS
    <3>2. cancelled' \in [Ops -> BOOLEAN]
      BY <2>4, <3>1 DEF CancelAllOperations
    <3> QED BY <2>4, <3>2 DEF CancelAllOperations, OpRest
  <2>5. CASE \E q \in Queues : \E suspend \in BOOLEAN : SetSuspended(th, q, suspend)
    BY <2>5 DEF SetSuspended, OpRest
  <2> QED BY <1>2, <2>1, <2>2, <2>3, <2>4, <2>5 DEF OperationCalls
<1>3. CASE EndStart(th)
  BY <1>3 DEF EndStart, Dequeue, OpRest
<1>4. CASE EndMain(th)
  BY <1>4 DEF EndMain, OpRest
<1>5. CASE EndCompletion(th)
  BY <1>5 DEF EndCompletion, opVars, OpRest
<1> QED BY <1>2, <1>3, <1>4, <1>5

\* Steps of blocks keep the types of these.
LEMMA BlockStays ==
    ASSUME BlockRest, NEW th \in Threads,
           DispatchCalls(th) \/ EndBlock(th) \/ EndOnce(th)
    PROVE  BlockRest'
<1>1. ASSUME NEW token \in Tokens, DispatchOnce(th, token) PROVE BlockRest'
  BY <1>1 DEF DispatchOnce, BlockRest
<1>2. ASSUME NEW q \in DispatchQueues,
             DispatchBlock(th, q) \/ DispatchDirect(th, q) \/ DispatchApply(th, q, 2)
      PROVE  BlockRest'
  <2>1. CASE DispatchBlock(th, q)
    <3>1. Append(queueStack, q) \in Seq(DispatchQueues)
      BY DEF BlockRest
    <3>2. queueStack' = Append(queueStack, q) /\ UNCHANGED <<onceTokens, onceRuns, permits>>
      BY <2>1 DEF DispatchBlock
    <3> QED BY <3>1, <3>2 DEF BlockRest
  <2>2. CASE DispatchDirect(th, q) \/ DispatchApply(th, q, 2)
    BY <2>2 DEF DispatchDirect, DispatchApply, dispatchVars, BlockRest
  <2> QED BY <1>2, <2>1, <2>2
<1>3. CASE SemaphoreWait(th) \/ SemaphoreSignal(th)
  BY <1>3, DispatchAssumption DEF SemaphoreWait, SemaphoreSignal, BlockRest
<1>4. CASE EndBlock(th)
  <2>1. Front(queueStack) \in Seq(DispatchQueues)
    <3>1. CASE queueStack = <<>>
      <4>1. SubSeq(queueStack, 1, Len(queueStack) - 1) = <<>>
        BY <3>1
      <4> QED BY <4>1 DEF Front
    <3>2. CASE queueStack # <<>>
      BY <3>2, FrontAndLast DEF BlockRest
    <3> QED BY <3>1, <3>2
  <2>2. queueStack' \in {queueStack, Front(queueStack)} /\ UNCHANGED <<onceTokens, onceRuns, permits>>
    BY <1>4 DEF EndBlock, PopQueue
  <2> QED BY <2>1, <2>2 DEF BlockRest
<1>5. CASE EndOnce(th)
  BY <1>5 DEF EndOnce, dispatchVars, BlockRest
<1> QED BY <1>1, <1>2, <1>3, <1>4, <1>5 DEF DispatchCalls

\* Steps of messages keep the types of these: whatever is dropped is a class's.
LEMMA ClassStays ==
    ASSUME ClassRest, InitializeInv', LoadInv, CallsFormed, NEW th \in Threads,
           MessageCalls(th) \/ BeginLoads(th) \/ MessageHost(th) \/ EndSend(th)
    PROVE  ClassRest'
<1>1. CASE UNCHANGED <<started, swallowed>>
  BY <1>1 DEF ClassRest
<1>2. CASE MessageCalls(th) \/ FindLoads(th) \/ EndLoads(th) \/ EndSend(th)
  <2>1. UNCHANGED classVars
    BY <1>2 DEF MessageCalls, Send, SendSuper, FindLoads, FindLoad, WalkLoads, EndWalk,
         AllFound, EndLoads, EndSend
  <2> QED BY <1>1, <2>1 DEF classVars
<1>3. CASE BeginLoads(th)
  BY <1>3 DEF BeginLoads, ClassRest
<1>4. CASE InitializeNext(th)
  <2>1. PICK c : /\ initialized' = initialized \cup {c} /\ UNCHANGED started
                 /\ swallowed' \subseteq swallowed \cup {<<c, "initialize">>}
    BY <1>4 DEF InitializeNext
  <2>2. c \in Classes
    BY <2>1 DEF InitializeInv
  <2> QED BY <2>1, <2>2 DEF ClassRest
<1>5. CASE LoadNext(th)
  <2>1. calls[th] # <<>> /\ Top(th).kind = "load" /\ Top(th).rest # <<>>
    BY <1>5 DEF LoadNext, At
  <2>2. Head(Top(th).rest) \in Classes
    BY <2>1, LoadTop, Headed, ClassesAssumption DEF LoadSound
  <2>3. /\ UNCHANGED started
        /\ swallowed' \subseteq swallowed \cup {<<Head(Top(th).rest), "load">>}
    BY <1>5 DEF LoadNext
  <2> QED BY <2>2, <2>3 DEF ClassRest
<1> QED BY <1>2, <1>3, <1>4, <1>5 DEF MessageHost

\* What no other invariant says.
RestInv == KindsSound /\ program \in Programs /\ LoopRest /\ OpRest /\ BlockRest /\ ClassRest

\* It holds at first.
LEMMA RestInit == ASSUME Init PROVE RestInv
<1>1. AllCalls = {}
  BY DEF Init, AllCalls, Range
<1>2. KindsSound
  BY <1>1 DEF KindsSound
<1>3. LoopRest
  <2>1. (CHOOSE g \in Targets : TRUE) \in Targets
    BY TimersAssumption
  <2> QED BY <2>1 DEF LoopRest, Init, RunLoopInit
<1>4. OpRest
  BY DEF OpRest, Init, OperationsInit
<1>5. BlockRest
  BY DispatchAssumption DEF BlockRest, Init, DispatchInit
<1>6. ClassRest
  BY DEF ClassRest, Init, MessagesInit
<1> QED BY <1>2, <1>3, <1>4, <1>5, <1>6 DEF RestInv, Init

\* Steps of the other parts.
LEMMA LoopQuiet == ASSUME LoopRest, UNCHANGED loopVars PROVE LoopRest'
BY DEF LoopRest, loopVars, timerVars

LEMMA OpQuiet == ASSUME OpRest, UNCHANGED opVars PROVE OpRest'
BY DEF OpRest, opVars

LEMMA BlockQuiet == ASSUME BlockRest, UNCHANGED dispatchVars PROVE BlockRest'
BY DEF BlockRest, dispatchVars

LEMMA ClassQuiet == ASSUME ClassRest, UNCHANGED classVars PROVE ClassRest'
BY DEF ClassRest, classVars

\* Every step keeps it, of whichever module it is.
LEMMA RestStep ==
    ASSUME RestInv, InitializeInv', LoadInv, CallsFormed, CallsFormed', [Next]_vars
    PROVE  RestInv'
<1>0. KindsSound /\ program \in Programs /\ LoopRest /\ OpRest /\ BlockRest /\ ClassRest
  BY DEF RestInv
<1>1. ASSUME NEW th \in Threads, OnLoop,
             \/ TimerCalls(th) \/ RemoteCalls(th, LoopsRun)
             \/ RunLoopHost(th) \/ Wake(th) \/ EndTimer(th) \/ EndFire(th)
      PROVE  RestInv'
  BY <1>0, <1>1, LoopKeeps, KindsKept, LoopStays, OpQuiet, BlockQuiet, ClassQuiet
     DEF OnLoop, RestInv
<1>2. ASSUME NEW th \in Threads, OnCenter,
             NotificationCalls(th) \/ NotificationHost(th) \/ EndDelivery(th)
      PROVE  RestInv'
  <2>1. KeepsSound(th)
    <3>1. CenterKinds \subseteq Plain /\ Moves(th, CenterKinds)
      BY <1>2, CenterMoves DEF CenterKinds, Plain
    <3> QED BY <3>1, PlainKept
  <2> QED BY <1>0, <1>2, <2>1, KindsKept, LoopQuiet, OpQuiet, BlockQuiet, ClassQuiet
          DEF OnCenter, RestInv
<1>3. ASSUME NEW th \in Threads, OnOperations,
             OperationCalls(th) \/ EndStart(th) \/ EndMain(th) \/ EndCompletion(th)
      PROVE  RestInv'
  BY <1>0, <1>3, OpKeeps, KindsKept, OpStays, LoopQuiet, BlockQuiet, ClassQuiet
     DEF OnOperations, RestInv
<1>4. ASSUME NEW th \in Threads, OnDispatch, DispatchCalls(th) \/ EndBlock(th) \/ EndOnce(th)
      PROVE  RestInv'
  BY <1>0, <1>4, BlockKeeps, KindsKept, BlockStays, LoopQuiet, OpQuiet, ClassQuiet
     DEF OnDispatch, RestInv
<1>5. ASSUME NEW th \in Threads, OnClasses,
             MessageCalls(th) \/ BeginLoads(th) \/ MessageHost(th) \/ EndSend(th)
      PROVE  RestInv'
  <2>1. KeepsSound(th)
    <3>1. ClassKinds \subseteq Plain /\ Moves(th, ClassKinds)
      BY <1>5, ClassMoves DEF ClassKinds, Plain
    <3> QED BY <3>1, PlainKept
  <2> QED BY <1>0, <1>5, <2>1, KindsKept, ClassStays, LoopQuiet, OpQuiet, BlockQuiet
          DEF OnClasses, RestInv
<1>6. ASSUME NEW th \in Threads, OnLocks,
             \/ BlockCalls(th) \/ PropertyCalls(th)
             \/ SynchronizedHost(th) \/ SynchronizedReturns(th)
      PROVE  RestInv'
  BY <1>0, <1>6, LockKeeps, KindsKept, LoopQuiet, OpQuiet, BlockQuiet, ClassQuiet
     DEF OnLocks, RestInv
<1>7. UNCHANGED calls => KindsSound'
  BY <1>0 DEF KindsSound, AllCalls
<1>8. CASE TimePasses
  <2>1. UNCHANGED <<calls, stopped, repeats, target>> /\ OnLoop
    BY <1>8 DEF TimePasses, BecomeDue
  <2>2. LoopRest'
    BY <1>0, <2>1 DEF LoopRest
  <2> QED BY <1>0, <1>7, <2>1, <2>2, OpQuiet, BlockQuiet, ClassQuiet DEF OnLoop, RestInv
<1>9. CASE UNCHANGED vars
  BY <1>0, <1>7, <1>9, LoopQuiet, OpQuiet, BlockQuiet, ClassQuiet DEF vars, RestInv
<1>10. ASSUME NEW th \in Threads,
              GuestStep(th) \/ HostStep(th) \/ WakeUp(th) \/ GuestReturns(th)
       PROVE  RestInv'
  BY <1>1, <1>2, <1>3, <1>4, <1>5, <1>6, <1>10 DEF GuestStep, HostStep, WakeUp, GuestReturns
<1> QED BY <1>8, <1>9, <1>10 DEF Next

\* A mutex is locked no less than never.
LEMMA LockedOften == ASSUME PropertyInv PROVE lockCount \in [Mutexes -> Nat]
<1>0. SyncTypes /\ Entries /\ \A o \in Objects : Counted(o)
  BY DEF PropertyInv, SyncInv
<1>1. ASSUME NEW m \in Mutexes PROVE lockCount[m] \in Nat
  <2>1. CASE owner[m] = NoMutex
    BY <1>0, <2>1 DEF Entries
  <2>2. ASSUME NEW o \in Objects, m = syncMutexes[o] PROVE lockCount[m] \in Nat
    <3>1. /\ \A th \in Threads : owner[m] = th => lockCount[m] = inside[th][o]
          /\ owner[m] \notin Threads => lockCount[m] = 0
      BY <1>0, <2>2, SynchronizedAssumption DEF Counted
    <3>2. \A th \in Threads : inside[th][o] \in Nat
      BY <1>0 DEF SyncTypes
    <3> QED BY <3>1, <3>2
  <2>3. ASSUME NEW o \in Objects, m = propLocks[o] PROVE lockCount[m] \in Nat
    <3>1. LockedBy(m)
      BY <2>3, SynchronizedAssumption DEF PropertyInv, LocksInv
    <3> QED BY <3>1, FS_CardinalityType DEF LockedBy
  <2> QED BY <1>0, <2>1, <2>2, <2>3 DEF Entries
<1>2. lockCount = [m \in Mutexes |-> lockCount[m]]
  BY <1>0 DEF SyncTypes
<1> QED BY <1>1, <1>2

Stages == GuestStages \cup {"timers", "sleep", "deliver", "end", "initialize",
                            "find", "walk", "next", "read", "store"}

\* The stage of a call is one of those its kind goes through.
LEMMA StageSound ==
    ASSUME CallsFormed, RestInv, TimerInv, CenterInv, PropertyInv, InitializeInv, LoadInv,
           NEW c \in AllCalls
    PROVE  c.stage \in Stages
<1> USE DEF Stages, GuestStages
<1>1. KindSound(c)
  BY DEF RestInv, KindsSound
<1>2. CASE c.kind = "run"
  <2>1. PICK th \in Threads : \E i \in 1 .. Len(calls[th]) : c = calls[th][i]
    BY InCalls
  <2>2. RunSound(c)
    BY <1>2, <2>1 DEF TimerInv, LoopCallsSound
  <2> QED BY <2>2 DEF RunSound
<1>3. CASE c.kind = "post"
  BY <1>3 DEF CenterInv, PostSound
<1>4. CASE c.kind = "sync"
  <2>1. LockSound(c)
    BY DEF PropertyInv, SyncInv
  <2> QED BY <1>4, <2>1 DEF LockSound
<1>5. CASE c.kind = "set"
  <2>1. SetSound(c)
    BY DEF PropertyInv, SettersInv
  <2> QED BY <1>5, <2>1 DEF SetSound, Locked
<1>6. CASE c.kind = "send"
  <2>1. SendSound(c)
    BY DEF InitializeInv
  <2> QED BY <1>6, <2>1 DEF SendSound
<1>7. CASE c.kind = "load"
  <2>1. LoadSound(c)
    BY DEF LoadInv
  <2> QED BY <1>7, <2>1 DEF LoadSound
<1>8. CASE c.kind \in {"fire", "once", "block", "start", "get"}
  BY <1>1, <1>8 DEF KindSound
<1> QED BY <1>1, <1>2, <1>3, <1>4, <1>5, <1>6, <1>7, <1>8
        DEF KindSound, LoopKinds, CenterKinds, OpKinds, BlockKinds, ClassKinds, LockKinds

\* The invariants together say what the type of every variable is.
LEMMA TypesImplied ==
    ASSUME CallsFormed, RestInv, HostInv, InitializeInv, LoadInv PROVE TypeOK
<1>1. \A th \in Threads : \A c \in Range(calls[th]) :
          c.stage \in Stages /\ (c.kind = "block" => c.left \in Nat \ {0})
  <2>1. \A th \in Threads : Range(calls[th]) \subseteq AllCalls
    BY DEF AllCalls
  <2>2. \A c \in AllCalls : c.stage \in Stages
    BY StageSound DEF HostInv
  <2>3. \A c \in AllCalls : c.kind = "block" => c.left \in Nat \ {0}
    BY DEF RestInv, KindsSound, KindSound
  <2> QED BY <2>1, <2>2, <2>3
<1>2. TimerTypes /\ CenterTypes /\ SyncTypes /\ ValueTypes /\ host = "up"
  BY DEF HostInv, TimerInv, CenterInv, PropertyInv, SyncInv, ValuesInv
<1>3. lockCount \in [Mutexes -> Nat]
  BY LockedOften DEF HostInv
<1>4. initialized \subseteq Classes /\ loads \in Seq(Loaders) /\ initializes \in Seq(Classes)
  BY DEF InitializeInv, LoadInv
<1>5. program \in Programs /\ LoopRest /\ OpRest /\ BlockRest /\ ClassRest
  BY DEF RestInv
<1> HIDE DEF TypeOK
<1>6. /\ timers \in [Threads -> SUBSET Timers]
      /\ refs \in [Timers -> Nat]
      /\ owned \subseteq Timers
      /\ due \in [Timers -> {"none", "later", "now"}]
      /\ inCallback \in [Timers -> BOOLEAN]
      /\ runLoop \in [Timers -> Threads \cup {NoLoop}]
  BY <1>2 DEF TimerTypes
<1>7. /\ observers \subseteq Registrations
      /\ objRefs \in [Observers \cup Blocks \cup Posters -> Nat]
      /\ objOwned \subseteq Observers
  BY <1>2 DEF CenterTypes, Counting
<1>8. /\ syncMutexes \in [Objects -> Mutexes \cup {NoMutex}]
      /\ propLocks \in [Objects -> Mutexes \cup {NoMutex}]
      /\ owner \in [Mutexes -> Threads \cup {NoMutex, Nobody}]
      /\ inside \in [Threads -> [Objects -> Nat]]
  BY <1>2 DEF SyncTypes
<1>9. /\ ivar \in [Objects -> Values \cup {NoValue}]
      /\ valueRefs \in [Values -> Nat]
      /\ held \subseteq Values
  BY <1>2 DEF ValueTypes
<1> QED BY <1>1, <1>2, <1>3, <1>4, <1>5, <1>6, <1>7, <1>8, <1>9
        DEF TypeOK, Stages, LoopRest, OpRest, BlockRest, ClassRest

\* Every variable keeps its type, a call is at one of the stages that the code
\* that called it goes through, and a block that is called has iterations left,
\* for all threads, objects, classes and queues, in every lawful program.
THEOREM TypesKept == ASSUME LawfulReferences, LawfulLoads PROVE Spec => []TypeOK
<1>1. Init => InitializeInv /\ LoadInv /\ RestInv
  BY InitializeInit, LoadInit, RestInit
<1>2. /\ CallsFormed /\ CallsFormed' /\ InitializeInv /\ LoadInv /\ RestInv /\ [Next]_vars
      => InitializeInv' /\ LoadInv' /\ RestInv'
  BY InitializeStep, LoadStep, RestStep
<1>3. CallsFormed /\ RestInv /\ HostInv /\ InitializeInv /\ LoadInv => TypeOK
  BY TypesImplied
<1> QED BY <1>1, <1>2, <1>3, CallsFormedAlways, HostInvAlways, PTL DEF Spec

\* The references of all of them are exact, and no step fails: none is released
\* twice and none is lost, of guests that keep the timers they fire and the
\* observers that are to be called, post in one thread at a time, set properties
\* as in PropertiesCounted, and send nothing to super from +load.
THEOREM ReferencesKept ==
    ASSUME LawfulReferences, LawfulLoads PROVE Spec => []ReferencesExact
<1>1. /\ TypeOK
      /\ host = "up" /\ TimerRefsExact /\ CenterRefsExact /\ PropertyRefsExact
      => ReferencesExact
  BY DEF ReferencesExact
<1> QED BY <1>1, TypesKept, ReferencesCounted, PTL
=============================================================================
