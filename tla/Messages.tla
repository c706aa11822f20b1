------------------------------ MODULE Messages ------------------------------
(***************************************************************************)
(* Messages to Objective-C classes (src/src/objc/messages.rs): +initialize *)
(* is sent to a class and its superclasses before the first message to it  *)
(* is answered, and the messages in progress are limited in number.  +load *)
(* is sent to the classes that have one when the main thread starts        *)
(* (src/src/environment.rs).  Methods are guest code: they send further    *)
(* messages, and other threads run meanwhile.                              *)
(***************************************************************************)
EXTENDS GuestCalls, Naturals

CONSTANTS
    Classes,      \* the classes of the program
    Chain,        \* every class with its superclasses, from the class upwards
    Initializers, \* the classes with a method +initialize of their own
    Loaders,      \* the classes with a method +load of their own
    MaxDispatch   \* MAX_DEPTH of objc_msgSend_inner, 128

ASSUME ClassesAssumption ==
    /\ Chain \in [Classes -> Seq(Classes)]
    /\ \A c \in Classes :
           /\ Chain[c] # <<>> /\ Chain[c][1] = c
           /\ \A i \in 1 .. Len(Chain[c]) :
                  Chain[Chain[c][i]] = SubSeq(Chain[c], i, Len(Chain[c]))
    /\ Initializers \subseteq Classes
    /\ Loaders \subseteq Classes
    /\ MaxDispatch \in Nat \ {0}

VARIABLES
    initialized, \* ObjC::initialized_classes
    started,     \* the main thread's +load pass has begun
    loads,       \* history: the classes whose +load has been called, in order
    initializes, \* history: the classes whose +initialize has been called, in order
    swallowed    \* history: the calls of +initialize and +load that the limit kept from
                 \* being made

classVars == <<initialized, started, loads, initializes, swallowed>>

\* get_superclass, of a class that has one.
Superclass(c) == Chain[c][2]

\* class_has_method: the class inherits an +initialize or has its own.
HasInitialize(c) == Range(Chain[c]) \cap Initializers # {}

\* objc_msgSend_inner; `pending` are the classes that are still to be
\* initialized before the method is called, the last one first.
SendCall(c, method, pending) ==
    [kind |-> "send", class |-> c, method |-> method, pending |-> pending,
     stage |-> IF pending = <<>> THEN "callback" ELSE "initialize"]

\* The start of the main thread: `unseen` are the classes it has not come to,
\* `walk` are those of the class at hand that it has not, `inherited` and
\* `rest` (to_be_loaded) those that it has found.
LoadCall(stage, unseen, walk, inherited, rest) ==
    [kind |-> "load", stage |-> stage, unseen |-> unseen, walk |-> walk,
     inherited |-> inherited, rest |-> rest]

\* Where messages are in progress: thread and depth.
Sends == {p \in UNION {{th} \X DOMAIN calls[th] : th \in Threads} :
              calls[p[1]][p[2]].kind = "send"}

\* DISPATCH_DEPTH belongs to the host thread, which all guest threads share.
AtLimit == Cardinality(Sends) >= MaxDispatch

MessagesInit ==
    /\ initialized = {}
    /\ started = FALSE
    /\ loads = <<>>
    /\ initializes = <<>>
    /\ swallowed = {}

-----------------------------------------------------------------------------
\* What ensure_class_initialized finds on its way up from c, as far as a class
\* that is initialized, before it calls any guest code.
Uninitialized(c) ==
    LET done == {i \in DOMAIN Chain[c] : Chain[c][i] \in initialized}
    IN IF done = {} THEN Chain[c] ELSE SubSeq(Chain[c], 1, Min(done) - 1)

\* A message to c or an object of it; at the limit it is answered with nil.
Send(th, c) ==
    /\ GuestRuns(th)
    /\ ~AtLimit
    /\ Enter(th, SendCall(c, "method", Uninitialized(c)))
    /\ UNCHANGED <<classVars, host>>

\* A message to super initializes nothing.
SendSuper(th) ==
    /\ GuestRuns(th)
    /\ ~AtLimit
    /\ calls[th] # <<>>
    /\ Top(th).kind = "send"
    /\ Lawful("super_in_load", Top(th).method # "load")
    /\ Len(Chain[Top(th).class]) > 1
    /\ Enter(th, SendCall(Superclass(Top(th).class), "method", <<>>))
    /\ UNCHANGED <<classVars, host>>

\* Mutant: the class is not looked up again after its superclass's turn.
InitializesAgain(c) == HasInitialize(c)

\* The class was not initialized by the +initialize of its superclass, or by
\* another thread meanwhile, and there is something to call.
StillToInitialize(c) == c \notin initialized /\ HasInitialize(c)

\* The return from the recursive call for the superclass, for the next class.
InitializeNext(th) ==
    /\ At(th, "send", "initialize")
    /\ LET c == Last(Top(th).pending)
           rest == SendCall(Top(th).class, Top(th).method, Front(Top(th).pending))
       IN /\ initialized' = initialized \cup {c}
          /\ IF StillToInitialize(c) /\ ~AtLimit
             THEN /\ calls' = [calls EXCEPT ![th] =
                                   Front(@) \o <<rest, SendCall(c, "initialize", <<>>)>>]
                  /\ initializes' = Append(initializes, c)
                  /\ UNCHANGED swallowed
             ELSE /\ Continue(th, rest)
                  /\ swallowed' = IF StillToInitialize(c)
                                   THEN swallowed \cup {<<c, "initialize">>} ELSE swallowed
                  /\ UNCHANGED initializes
    /\ UNCHANGED <<started, loads, host>>

EndSend(th) ==
    /\ At(th, "send", "callback")
    /\ Leave(th)
    /\ UNCHANGED <<classVars, host>>

-----------------------------------------------------------------------------
\* The main thread starts.
BeginLoads(th) ==
    /\ GuestRuns(th)
    /\ ~started
    /\ started' = TRUE
    /\ Enter(th, LoadCall("find", Classes, <<>>, <<>>, <<>>))
    /\ UNCHANGED <<initialized, loads, initializes, swallowed, host>>

\* The next class in the order of a hash map: if it has a +load and was not
\* found yet, so are its superclasses.
FindLoad(th, c) ==
    /\ At(th, "load", "find")
    /\ c \in Top(th).unseen
    /\ LET unseen == Top(th).unseen \ {c}
       IN IF c \in Loaders \ Range(Top(th).rest)
          THEN Continue(th, LoadCall("walk", unseen, Chain[c], <<>>, Top(th).rest))
          ELSE Continue(th, LoadCall("find", unseen, <<>>, <<>>, Top(th).rest))
    /\ UNCHANGED <<classVars, host>>

\* One class of the chain, for the list that is reversed in the end.
WalkLoads(th) ==
    /\ At(th, "load", "walk")
    /\ Top(th).walk # <<>>
    /\ LET c == Head(Top(th).walk)
           found == Top(th).inherited
           new == c \in Loaders /\ c \notin Range(Top(th).rest \o found)
       IN Continue(th, LoadCall("walk", Top(th).unseen, Tail(Top(th).walk),
                                IF new THEN <<c>> \o found ELSE found, Top(th).rest))
    /\ UNCHANGED <<classVars, host>>

EndWalk(th) ==
    /\ At(th, "load", "walk")
    /\ Top(th).walk = <<>>
    /\ Continue(th, LoadCall("find", Top(th).unseen, <<>>, <<>>,
                             Top(th).rest \o Top(th).inherited))
    /\ UNCHANGED <<classVars, host>>

AllFound(th) ==
    /\ At(th, "load", "find")
    /\ Top(th).unseen = {}
    /\ Continue(th, LoadCall("next", {}, <<>>, <<>>, Top(th).rest))
    /\ UNCHANGED <<classVars, host>>

\* msg_send_no_initialize.
LoadNext(th) ==
    /\ At(th, "load", "next")
    /\ Top(th).rest # <<>>
    /\ LET c == Head(Top(th).rest)
           rest == LoadCall("next", {}, <<>>, <<>>, Tail(Top(th).rest))
       IN IF AtLimit
          THEN /\ Continue(th, rest)
               /\ swallowed' = swallowed \cup {<<c, "load">>}
               /\ UNCHANGED loads
          ELSE /\ calls' = [calls EXCEPT ![th] = Front(@) \o <<rest, SendCall(c, "load", <<>>)>>]
               /\ loads' = Append(loads, c)
               /\ UNCHANGED swallowed
    /\ UNCHANGED <<initialized, started, initializes, host>>

EndLoads(th) ==
    /\ At(th, "load", "next")
    /\ Top(th).rest = <<>>
    /\ Leave(th)
    /\ UNCHANGED <<classVars, host>>

MessageCalls(th) ==
    \/ \E c \in Classes : Send(th, c)
    \/ SendSuper(th)

FindLoads(th) ==
    \/ \E c \in Classes : FindLoad(th, c)
    \/ WalkLoads(th)
    \/ EndWalk(th)
    \/ AllFound(th)

MessageHost(th) == InitializeNext(th) \/ FindLoads(th) \/ LoadNext(th) \/ EndLoads(th)

-----------------------------------------------------------------------------
\* Every class in the list comes once, after those of its superclasses that
\* belong to it.
SuperclassesFirst(list, belongs) ==
    \A i \in DOMAIN list : \A d \in Range(Chain[list[i]]) \cap belongs :
        Cardinality({j \in DOMAIN list : list[j] = d}) = 1 /\ \E j \in 1 .. i : list[j] = d

\* "The runtime sends initialize to each class in a program just before the
\* class, or any class that inherits from it, is sent its first message [...]
\* Superclasses receive this message before their subclasses"
\* (messages.rs:27-30), and once, however +initialize methods and threads
\* message the classes that are being initialized; +load keeps that order too.
\* A class whose +initialize met the limit counts as initialized.
InitializedInOrder ==
    /\ SuperclassesFirst(loads, {c \in Loaders : <<c, "load">> \notin swallowed})
    /\ SuperclassesFirst(initializes, {c \in Classes : /\ HasInitialize(c)
                                                       /\ <<c, "initialize">> \notin swallowed})
    /\ \A p \in Sends :
           LET call == calls[p[1]][p[2]]
           IN call.stage = "callback" /\ call.method = "method" =>
                  \A d \in Range(Chain[call.class]) :
                      HasInitialize(d) => \/ d \in Range(initializes)
                                          \/ <<d, "initialize">> \in swallowed

\* No +initialize is left out because too many messages are in progress.
NoneSwallowed == swallowed = {}
=============================================================================
