------------------------------ MODULE RunLoop ------------------------------
(***************************************************************************)
(* Run loops and timers (src/src/frameworks/foundation/ns_run_loop.rs,     *)
(* ns_timer.rs and cf_run_loop.rs).  Every thread has one run loop, which  *)
(* is named by its thread.  A run is a host function that calls the guest  *)
(* back for every due timer, and a callback may run the loop again, add,   *)
(* fire, invalidate and release timers, or stop a loop; so may the other   *)
(* threads meanwhile.                                                      *)
(***************************************************************************)
EXTENDS GuestCalls, Naturals, FiniteSets

CONSTANTS
    Timers,   \* the addresses an NSTimer can be allocated at
    Targets,  \* the objects timers send their message to
    NoTimer,  \* no timer is being handled
    NoLoop    \* nil as the run_loop of a timer

ASSUME TimersAssumption ==
    NoTimer \notin Timers /\ NoLoop \notin Threads /\ Targets # {}

VARIABLES
    timers,     \* NSRunLoopHostObject::timers, in no particular order
    stopped,    \* NSRunLoopHostObject::stopped
    refs,       \* reference counts of the timers; 0: deallocated
    owned,      \* the timers the guest holds a reference to
    due,        \* due_by: "none", "later" or "now"
    repeats,    \* NSTimerHostObject::repeats
    target,     \* NSTimerHostObject::target
    inCallback, \* NSTimerHostObject::is_running_callback
    runLoop     \* NSTimerHostObject::run_loop

timerVars == <<refs, owned, due, repeats, target, inCallback, runLoop>>
loopVars == <<timers, stopped, timerVars>>

\* run_run_loop.  `batch` is what is left of timers_tmp.
RunCall(l, single, batch) ==
    [kind |-> "run", loop |-> l, single |-> single, stage |-> "timers",
     batch |-> batch, timer |-> NoTimer]

FireCall(t) == [kind |-> "fire", stage |-> "callback", timer |-> t]

\* The runs of loop l that thread l is inside of, and the timers being fired.
Runs(l) == {c \in Range(calls[l]) : c.kind = "run"}

RunsUntilStopped(l) == \E c \in Runs(l) : ~c.single

Fired(t) == \E c \in AllCalls : c.kind = "fire" /\ c.timer = t

Listed(t) == runLoop[t] # NoLoop /\ t \in timers[runLoop[t]]

\* The guest has a pointer to t that it may use.
Knows(t) == t \in owned \/ Listed(t)

RunLoopInit ==
    /\ timers = [l \in Threads |-> {}]
    /\ stopped = [l \in Threads |-> FALSE]
    /\ refs = [t \in Timers |-> 0]
    /\ owned = {}
    /\ due = [t \in Timers |-> "none"]
    /\ repeats = [t \in Timers |-> FALSE]
    /\ target \in [Timers -> {CHOOSE g \in Targets : TRUE}]
    /\ inCallback = [t \in Timers |-> FALSE]
    /\ runLoop = [t \in Timers |-> NoLoop]

-----------------------------------------------------------------------------
(***************************************************************************)
(* References.  A timer with none left is deallocated, which invalidates   *)
(* it; the run loop would then release it once more.  The deallocation     *)
(* also releases the target and the userInfo: a guest -dealloc that runs   *)
(* there is not modelled, so that a release is one step.                   *)
(***************************************************************************)
Panic == host' = "panic" /\ UNCHANGED <<timers, refs, due, runLoop>>

Release(t, n) ==
    IF refs[t] < n \/ (refs[t] = n /\ Listed(t)) THEN Panic
    ELSE /\ refs' = [refs EXCEPT ![t] = @ - n]
         /\ due' = IF refs[t] = n THEN [due EXCEPT ![t] = "none"] ELSE due
         /\ runLoop' = IF refs[t] = n THEN [runLoop EXCEPT ![t] = NoLoop] ELSE runLoop
         /\ UNCHANGED <<timers, host>>

\* invalidate and remove_timer, followed by n releases.
Invalidate(t, n) ==
    IF refs[t] < n + (IF Listed(t) THEN 1 ELSE 0) \/ refs[t] = 0 THEN Panic
    ELSE /\ due' = [due EXCEPT ![t] = "none"]
         /\ runLoop' = [runLoop EXCEPT ![t] = NoLoop]
         /\ timers' = IF Listed(t) THEN [timers EXCEPT ![runLoop[t]] = @ \ {t}] ELSE timers
         /\ refs' = [refs EXCEPT ![t] = @ - n - (IF Listed(t) THEN 1 ELSE 0)]
         /\ UNCHANGED host

-----------------------------------------------------------------------------
NewTimer(th, t, r, g) ==
    /\ GuestRuns(th)
    /\ refs[t] = 0
    /\ refs' = [refs EXCEPT ![t] = 1]
    /\ owned' = owned \cup {t}
    /\ due' = [due EXCEPT ![t] = "later"]
    /\ repeats' = [repeats EXCEPT ![t] = r]
    /\ target' = [target EXCEPT ![t] = g]
    /\ inCallback' = [inCallback EXCEPT ![t] = FALSE]
    /\ runLoop' = [runLoop EXCEPT ![t] = NoLoop]
    /\ UNCHANGED <<timers, stopped, calls, host>>

\* Fired(t): the caller of `fire` keeps the timer until it returns.
ReleaseTimer(th, t) ==
    /\ GuestRuns(th)
    /\ t \in owned
    /\ Lawful("release_fired", ~Fired(t))
    /\ owned' = owned \ {t}
    /\ Release(t, 1)
    /\ UNCHANGED <<stopped, repeats, target, inCallback, calls>>

AddTimer(th, t, l) ==
    /\ GuestRuns(th)
    /\ Knows(t)
    /\ t \notin timers[l]
    /\ Lawful("two_loops", runLoop[t] = NoLoop)
    /\ Lawful("add_invalid", due[t] # "none")
    /\ refs' = [refs EXCEPT ![t] = @ + 1]
    /\ timers' = [timers EXCEPT ![l] = @ \cup {t}]
    /\ runLoop' = [runLoop EXCEPT ![t] = l]
    /\ UNCHANGED <<stopped, owned, due, repeats, target, inCallback, calls, host>>

InvalidateTimer(th, t) ==
    /\ GuestRuns(th)
    /\ Knows(t)
    /\ Invalidate(t, 0)
    /\ UNCHANGED <<stopped, owned, repeats, target, inCallback, calls>>

\* setFireDate:, which an invalid timer ignores; the date may be past.
SetFireDate(th, t) ==
    /\ GuestRuns(th)
    /\ Knows(t)
    /\ due[t] # "none"
    /\ due' = [due EXCEPT ![t] = "later"]
    /\ UNCHANGED <<timers, stopped, refs, owned, repeats, target, inCallback,
                   runLoop, calls, host>>

\* fire neither looks at is_running_callback nor keeps the timer alive.
Fire(th, t) ==
    /\ CanCall(th)
    /\ Lawful("fire_unowned", t \in owned)
    /\ Knows(t)
    /\ Enter(th, FireCall(t))
    /\ UNCHANGED <<host, loopVars>>

EndFire(th) ==
    /\ At(th, "fire", "callback")
    /\ LET t == Top(th).timer
       IN IF repeats[t] THEN UNCHANGED <<timers, refs, due, runLoop, host>>
          ELSE Invalidate(t, 0)
    /\ Leave(th)
    /\ UNCHANGED <<stopped, owned, repeats, target, inCallback>>

\* cancelPerformSelectorsWithTarget: its own retains come to nothing.
CancelPerformSelectors(th, l, g) ==
    /\ GuestRuns(th)
    /\ LET cancelled == {t \in timers[l] : target[t] = g}
           gone == {t \in cancelled : Listed(t)}
       IN /\ cancelled # {}
          /\ due' = [t \in Timers |-> IF t \in cancelled THEN "none" ELSE due[t]]
          /\ runLoop' = [t \in Timers |-> IF t \in cancelled THEN NoLoop ELSE runLoop[t]]
          /\ timers' = [m \in Threads |-> timers[m] \ {t \in gone : runLoop[t] = m}]
          /\ refs' = [t \in Timers |-> IF t \in gone THEN refs[t] - 1 ELSE refs[t]]
    /\ UNCHANGED <<stopped, owned, repeats, target, inCallback, calls, host>>

CFRunLoopStop(th, l) ==
    /\ GuestRuns(th)
    /\ Lawful("stop_idle_loop", RunsUntilStopped(l))
    /\ stopped' = [stopped EXCEPT ![l] = TRUE]
    /\ UNCHANGED <<timers, timerVars, calls, host>>

\* Time passes.
BecomeDue(t) ==
    /\ host = "up"
    /\ due[t] = "later"
    /\ due' = [due EXCEPT ![t] = "now"]
    /\ UNCHANGED <<timers, stopped, refs, owned, repeats, target, inCallback,
                   runLoop, calls, host>>

-----------------------------------------------------------------------------
(***************************************************************************)
(* run_run_loop, in the thread of the loop.                                *)
(***************************************************************************)
\* Mutant: the timers of the pass are not retained.
BorrowAll(l) == UNCHANGED refs

\* The timers of a pass are retained until their turn is over.
RetainAll(l) ==
    refs' = [t \in Timers |-> IF t \in timers[l] THEN refs[t] + 1 ELSE refs[t]]

\* run, runUntilDate: (single = FALSE), or runMode:beforeDate:.
BeginRun(l, single) ==
    /\ CanCall(l)
    /\ Enter(l, RunCall(l, single, timers[l]))
    /\ RetainAll(l)
    /\ UNCHANGED <<host, timers, stopped, owned, due, repeats, target,
                   inCallback, runLoop>>

\* Mutant: a timer in its callback is fired again by a nested run.
DueAgain(t) == due[t] = "now"

CanFire(t) == due[t] = "now" /\ ~inCallback[t]

\* handle_timer for one timer of the pass.
HandleTimer(l, t) ==
    /\ At(l, "run", "timers")
    /\ t \in Top(l).batch
    /\ LET rest == [Top(l) EXCEPT !.batch = @ \ {t}]
       IN \/ /\ ~CanFire(t)
             /\ Continue(l, rest)
             /\ Release(t, 1)
             /\ UNCHANGED <<stopped, owned, repeats, target, inCallback>>
          \/ /\ CanFire(t)
             /\ Continue(l, [rest EXCEPT !.stage = "callback", !.timer = t])
             /\ refs' = [refs EXCEPT ![t] = @ + 1]
             /\ due' = IF repeats[t] THEN [due EXCEPT ![t] = "later"] ELSE due
             /\ inCallback' = [inCallback EXCEPT ![t] = TRUE]
             /\ UNCHANGED <<host, timers, stopped, owned, repeats, target, runLoop>>

\* Mutant: is_running_callback is left set.
StillInCallback(t) == UNCHANGED inCallback

CallbackOver(t) == inCallback' = [inCallback EXCEPT ![t] = FALSE]

\* The callback returns; handle_timer and the pass release the timer.
EndTimer(l) ==
    /\ At(l, "run", "callback")
    /\ LET t == Top(l).timer
       IN /\ CallbackOver(t)
          /\ IF repeats[t] THEN Release(t, 2) ELSE Invalidate(t, 2)
    /\ Continue(l, [Top(l) EXCEPT !.stage = "timers", !.timer = NoTimer])
    /\ UNCHANGED <<stopped, owned, repeats, target>>

EndPass(l) ==
    /\ At(l, "run", "timers")
    /\ Top(l).batch = {}
    /\ Continue(l, [Top(l) EXCEPT !.stage = "sleep"])
    /\ UNCHANGED <<host, loopVars>>

ClearStopped(l) == stopped' = [stopped EXCEPT ![l] = FALSE]

NextPass(l) == Continue(l, RunCall(l, FALSE, timers[l])) /\ RetainAll(l)

\* The sleep is over: a single iteration ends before the flag is looked at, a
\* stop ends the run, and so does its time limit, if it has one.
Wake(l) ==
    /\ At(l, "run", "sleep")
    /\ IF Top(l).single THEN Leave(l) /\ UNCHANGED <<refs, stopped>>
       ELSE IF stopped[l] THEN Leave(l) /\ ClearStopped(l) /\ UNCHANGED refs
       ELSE /\ \/ Leave(l) /\ UNCHANGED refs
               \/ NextPass(l)
            /\ UNCHANGED stopped
    /\ UNCHANGED <<host, timers, owned, due, repeats, target, inCallback, runLoop>>

-----------------------------------------------------------------------------
\* What a thread does to the loops L of other threads as well as its own.
RemoteCalls(th, L) ==
    \/ \E t \in Timers : InvalidateTimer(th, t) \/ \E l \in L : AddTimer(th, t, l)
    \/ \E l \in L : CFRunLoopStop(th, l)

TimerCalls(th) ==
    \/ \E t \in Timers :
           \/ \E r \in BOOLEAN, g \in Targets : NewTimer(th, t, r, g)
           \/ ReleaseTimer(th, t)
           \/ SetFireDate(th, t)
           \/ Fire(th, t)
    \/ \E l \in Threads, g \in Targets : CancelPerformSelectors(th, l, g)
    \/ \E single \in BOOLEAN : BeginRun(th, single)

RunLoopHost(th) == EndPass(th) \/ \E t \in Timers : HandleTimer(th, t)

-----------------------------------------------------------------------------
\* The runs in progress, by thread and place in its stack.
Places == {p \in Threads \X (1 .. MaxCalls) :
               p[2] <= Len(calls[p[1]]) /\ calls[p[1]][p[2]].kind = "run"}

Handling(t) == {p \in Places : calls[p[1]][p[2]].timer = t}

\* A timer has exactly the references that the guest, the run loops and the
\* passes and callbacks in progress hold: no interleaving of threads or
\* nesting of runs leaks one or releases one twice.
TimerRefsExact ==
    host = "up" =>
        \A t \in Timers :
            refs[t] = (IF t \in owned THEN 1 ELSE 0)
                      + Cardinality({l \in Threads : t \in timers[l]})
                      + Cardinality({p \in Places : t \in calls[p[1]][p[2]].batch})
                      + 2 * Cardinality(Handling(t))

\* The callback of a timer is not called by a run loop while it is running,
\* whatever run it starts, in this thread or another (ns_timer.rs:33-36).
NotReentered ==
    \A t \in Timers : Cardinality(Handling(t)) <= 1

\* "The timer must remove itself when invalidated" (ns_run_loop.rs:55-56): a
\* run loop owns no timer that will not fire again.
InvalidLeave ==
    \A l \in Threads : \A t \in timers[l] : due[t] # "none"

\* A timer is called by one run at a time, and stays in a run loop only as
\* long as it will fire again.
TimersConsistent == NotReentered /\ InvalidLeave

Awaited(t) ==
    /\ due[t] = "now"
    /\ Handling(t) = {}
    /\ \E l \in Threads : t \in timers[l] /\ RunsUntilStopped(l)

\* A due timer of a loop that runs is fired, if it is not rescheduled or taken
\* out of the loop, however runs are nested and other threads interfere.
DueTimersFire == \A t \in Timers : Awaited(t) ~> ~Awaited(t)

\* "Set by CFRunLoopStop; cleared at the start of the next run"
\* (ns_run_loop.rs:71): a run does not end for a stop of an earlier one.
RunsStartUnstopped ==
    [][\A l \in Threads : BeginRun(l, FALSE) => ~stopped'[l]]_<<calls, host, loopVars>>
=============================================================================
