--------------------------- MODULE Notifications ---------------------------
(***************************************************************************)
(* NSNotificationCenter                                                    *)
(* (src/src/frameworks/foundation/ns_notification_center.rs).  A post      *)
(* calls the observers it found when it began, one after the other, in     *)
(* the posting thread; their callbacks, and the other threads meanwhile,   *)
(* register, remove, release and post.                                     *)
(***************************************************************************)
EXTENDS GuestCalls, Naturals, FiniteSets

CONSTANTS
    Observers, \* guest objects that observe
    Blocks,    \* blocks that observe, each with its token
    Posters,   \* objects that notifications are posted for; the guest keeps them
    Names,     \* names of notifications
    AnyName,   \* "", the bucket of the observers of every name
    Nil,       \* no name or no object, in a call
    MaxObservers \* bound on the number of registrations

ASSUME NotificationsAssumption ==
    /\ Observers \cap (Blocks \cup Posters) = {}
    /\ Blocks \cap Posters = {}
    /\ Nil \notin Observers \cup Blocks \cup Posters

VARIABLES
    observers, \* the Observer registrations, each with its bucket
    objRefs,   \* reference counts of observers, tokens and posters
    objOwned   \* the observers the guest holds a reference to

centerVars == <<observers, objRefs, objOwned>>

Registrations ==
    [observer : Observers \cup Blocks, name : Names \cup {AnyName},
     object : Posters \cup {Nil}]

PostCalls == {c \in AllCalls : c.kind = "post"}

\* Some post is still to call the observer o, or is calling it.
AwaitsCall(o) == \E c \in PostCalls : \E e \in c.rest : e.observer = o

BeingCalled(o) == \E c \in PostCalls : c.stage = "callback" /\ c.entry.observer = o

\* postNotification:.  `rest` is what is left of its `observers`.
PostCall(p, entries) ==
    [kind |-> "post", stage |-> "deliver", poster |-> p, rest |-> entries,
     entry |-> Nil]

NotificationsInit ==
    /\ observers = {}
    /\ objRefs = [o \in Observers \cup Blocks \cup Posters |->
                      IF o \in Posters THEN 1 ELSE 0]
    /\ objOwned = {}

-----------------------------------------------------------------------------
NewObserver(th, o) ==
    /\ GuestRuns(th)
    /\ objRefs[o] = 0
    /\ objRefs' = [objRefs EXCEPT ![o] = 1]
    /\ objOwned' = objOwned \cup {o}
    /\ UNCHANGED <<observers, calls, host>>

Register(e) ==
    /\ e \notin observers
    /\ Cardinality(observers) < MaxObservers
    /\ observers' = observers \cup {e}

\* The object is retained, an observer is not.
AddObserver(th, e) ==
    /\ GuestRuns(th)
    /\ e.observer \in objOwned
    /\ Register(e)
    /\ objRefs' = [x \in DOMAIN objRefs |->
                       IF x = e.object THEN objRefs[x] + 1 ELSE objRefs[x]]
    /\ UNCHANGED <<objOwned, calls, host>>

\* addObserverForName:...usingBlock: the center alone owns token and block.
AddBlock(th, e) ==
    /\ GuestRuns(th)
    /\ e.observer \in Blocks
    /\ objRefs[e.observer] = 0
    /\ Register(e)
    /\ objRefs' = [x \in DOMAIN objRefs |->
                       IF x \in {e.object, e.observer} THEN objRefs[x] + 1 ELSE objRefs[x]]
    /\ UNCHANGED <<objOwned, calls, host>>

\* The releases of x when these registrations go.
ReleasesOf(removed, x) ==
    Cardinality({e \in removed : e.object = x})
    + Cardinality({e \in removed : e.observer \in Blocks /\ e.observer = x})

\* remove_observers_internal, in the bucket of the name or in every one.
Matching(o, name, object) ==
    {e \in observers : /\ e.observer = o
                       /\ name \in {Nil, e.name}
                       /\ object \in {Nil, e.object}}

\* The registrations go, and n references of o.
Unregister(removed, o, n) ==
    /\ observers' = observers \ removed
    /\ objRefs' = [x \in DOMAIN objRefs |->
                       objRefs[x] - ReleasesOf(removed, x) - (IF x = o THEN n ELSE 0)]

\* removeObserver:name:object:, by which a token and its block are released
\* at once, even if a post is still to call the block, or is calling it.
RemoveObserver(th, o, name, object) ==
    /\ GuestRuns(th)
    /\ objRefs[o] > 0
    /\ (o \in Blocks => Lawful("free_pending_observer", ~AwaitsCall(o) /\ ~BeingCalled(o)))
    /\ Matching(o, name, object) # {}
    /\ Unregister(Matching(o, name, object), o, 0)
    /\ UNCHANGED <<objOwned, calls, host>>

\* The last release deallocates an observer, whose -dealloc removes it from
\* the center.
ReleaseObserver(o) ==
    Unregister(IF objRefs[o] = 1 THEN Matching(o, Nil, Nil) ELSE {}, o, 1)

ReleaseObject(th, o) ==
    /\ GuestRuns(th)
    /\ o \in objOwned
    /\ Lawful("free_pending_observer", ~AwaitsCall(o))
    /\ objOwned' = objOwned \ {o}
    /\ ReleaseObserver(o)
    /\ UNCHANGED <<calls, host>>

\* Two threads that post at once may each deallocate an observer that the
\* other is to call.
PostNotification(th, name, p) ==
    /\ CanCall(th)
    /\ Lawful("post_in_threads", PostCalls \subseteq Range(calls[th]))
    /\ LET found == {e \in observers : e.name \in {name, AnyName}}
       IN found # {} /\ Enter(th, PostCall(p, found))
    /\ UNCHANGED <<centerVars, host>>

-----------------------------------------------------------------------------
RetainForCall(th, e) == objRefs' = [objRefs EXCEPT ![e.observer] = @ + 1]

\* One observer of the post: those of the name come before those of any name.
Deliver(th, e) ==
    /\ At(th, "post", "deliver")
    /\ e \in Top(th).rest
    /\ e.name = AnyName => \A f \in Top(th).rest : f.name = AnyName
    /\ LET rest == [Top(th) EXCEPT !.rest = @ \ {e}]
       IN CASE e.object \notin {Nil, Top(th).poster} ->
                 Continue(th, rest) /\ UNCHANGED <<host, objRefs>>
            [] e.object \in {Nil, Top(th).poster} /\ objRefs[e.observer] = 0 ->
                 host' = "panic" /\ UNCHANGED <<calls, objRefs>>
            [] OTHER ->
                 /\ Continue(th, [rest EXCEPT !.stage = "callback", !.entry = e])
                 /\ RetainForCall(th, e)
                 /\ UNCHANGED host
    /\ UNCHANGED <<observers, objOwned>>

EndDelivery(th) ==
    /\ At(th, "post", "callback")
    /\ ReleaseObserver(Top(th).entry.observer)
    /\ Continue(th, [Top(th) EXCEPT !.stage = "deliver", !.entry = Nil])
    /\ UNCHANGED <<objOwned, host>>

EndPost(th) ==
    /\ At(th, "post", "deliver")
    /\ Top(th).rest = {}
    /\ Leave(th)
    /\ UNCHANGED <<host, centerVars>>

NotificationCalls(th) ==
    \/ \E o \in Observers : NewObserver(th, o) \/ ReleaseObject(th, o)
    \/ \E e \in Registrations : AddObserver(th, e) \/ AddBlock(th, e)
    \/ \E o \in Observers \cup Blocks, name \in Names \cup {Nil}, object \in Posters \cup {Nil} :
           RemoveObserver(th, o, name, object)
    \/ \E name \in Names, p \in Posters : PostNotification(th, name, p)

NotificationHost(th) ==
    \/ calls[th] # <<>> /\ Top(th).kind = "post" /\ \E e \in Top(th).rest : Deliver(th, e)
    \/ EndPost(th)

-----------------------------------------------------------------------------
Calling(o) == Cardinality({p \in Threads \X (1 .. MaxCalls) :
                  /\ p[2] <= Len(calls[p[1]])
                  /\ calls[p[1]][p[2]].kind = "post"
                  /\ calls[p[1]][p[2]].stage = "callback"
                  /\ calls[p[1]][p[2]].entry.observer = o})

\* The objects and tokens of the center have exactly the references that the
\* guest, the registrations and the calls in progress stand for, however
\* observers are removed and deallocated while posts are under way.
CenterRefsExact ==
    \A x \in Observers \cup Blocks \cup Posters :
        objRefs[x] = (IF x \in objOwned \cup Posters THEN 1 ELSE 0)
                     + Cardinality({e \in observers : e.object = x})
                     + Cardinality({e \in observers : x \in Blocks /\ e.observer = x})
                     + Calling(x)
=============================================================================
