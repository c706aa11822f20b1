# A verification of touchHLE's threads, object runtime and event handling

touchHLE runs iPhone OS applications: it executes their ARM code and provides,
in Rust, the system they expect (threads, the Objective-C runtime, libc and the
frameworks). This directory holds TLA+ models of the parts of it whose
correctness depends on the order in which things happen, the TLC runs that check
them on small instances, and theorems about them proved with TLAPS.

Paths below are relative to `src/` of the repository unless they start with it.

## 1. The system

### Components, their state and their operations

| component | state | operations | what makes it correct |
|---|---|---|---|
| Thread scheduler (`environment.rs`) | the thread table, `current_thread`, a `ThreadBlock` per thread, a grace counter | `run`, `schedule_next_thread`, `yield_thread`, `new_thread`, `sleep`, `suspend_thread`, `resume_thread`, `join_with_thread` | only a thread that may run runs; every runnable one does; a deadlock is declared only when there is one |
| Mutexes (`environment/mutex.rs`) | owner, lock count, waiting count per mutex | `init_mutex`, `destroy_mutex`, `lock_mutex`, `unlock_mutex`, `relock_unblocked_mutex_for_thread` | one owner; none destroyed under a waiter |
| Condition variables (`libc/pthread/cond.rs`) | two queues, the waiters' mutex, the set of timed-out threads | init, destroy, wait, timed wait, signal, broadcast | no waiter forgotten or woken twice; a wait returns with its mutex |
| Semaphores (`libc/semaphore.rs`, `libc/mach/semaphore.rs`) | a value, a set of waiters, a table of named ones | init, destroy, open, close, unlink, post, wait, trywait | as many waits end as there are permits |
| Pthread handles (`libc/pthread/*.rs`) | magic numbers and ids in guest memory, a table of threads | mutex, rwlock, once, key, create, join, detach, cancel | a handle refers to its object or is refused |
| Object table (`objc/objects.rs`, `ns_object.rs`) | host object and reference count per address | alloc, retain, release, dealloc | freed once, when nobody owns it |
| Weak references (`objc/weak.rs`) | a side table from objects to weak variables | `objc_*Weak` | a weak variable is nil or refers to a live object |
| Autorelease pools (`ns_autorelease_pool.rs`) | a stack of pools per thread, the objects of each | new, addObject:, drain | each autoreleased object is released once |
| Associated objects (`objc.rs`) | a table from object and key to value | set, get, remove | a retained value is released once |
| @synchronized, properties (`objc/synchronization.rs`, `objc/properties.rs`) | two tables from object addresses to recursive mutexes | enter, exit, getter, setter | exclusion; the old value of a property is released once |
| Messages and classes (`objc/messages.rs`, the start in `environment.rs`) | the set of initialized classes, a depth counter | send, send to super, `+initialize`, the `+load` pass | superclasses first, once, before any other method |
| NSCondition, NSConditionLock (`ns_condition.rs`) | a flag, a condition, queues of threads | lock, unlock, wait, signal, with and without dates | one holder; no wakeup is lost; a date ends a wait |
| Run loops and timers (`ns_run_loop.rs`, `ns_timer.rs`, `cf_run_loop.rs`) | timers, a stop flag, a date and a flag per timer | run, stop, add, fire, reschedule and invalidate timers | a due timer fires; none is re-entered, leaked or used after it is freed |
| Operation queues (`ns_operation.rs`) | operations, their states and dependencies, a suspended flag | add, start, suspend, cancel | an operation runs after those it depends on |
| Notification centre (`ns_notification_center.rs`) | observers per name | add, remove, post | registrations hold the references they took, while posts go on |
| Grand Central Dispatch (`libc/dispatch.rs`, `libc/pthread/once.rs`) | a stack of queues, the tokens done, semaphores | sync, async, apply, once, wait, signal | a block finds its own queue; once is done when it returns |
| Audio queues (`audio_queue.rs`) | Stopped, Running or Stopping; buffers; an OpenAL source | start, pause, stop, enqueue, reset, dispose, the handler | two queues of buffers in step; buffers are heard and handed back; a stop ends |
| Allocator (`mem/allocator.rs`, `mem.rs`, `libc/stdlib.rs`) | used and free chunks | reserve, malloc, posix_memalign, realloc, free | chunks are disjoint and cover the memory |
| Everything else | see `PROJECT.json` | | |

### How they interact

All guest threads are coroutines on one host thread. The main loop
(`Environment::run`) resumes the coroutine of `current_thread`; guest code runs
there until it calls the host, or until its budget of 100,000 ticks is used up.
A host function runs to its end without interruption unless it calls
`yield_thread` (to block) or calls back into the guest (a method the guest
overrides, a callback). What a blocked thread waits for is written in its
`ThreadBlock`; the scheduler reads the mutexes, semaphores and condition
variables when it scans the threads, and grants them (relocks a mutex, takes a
permit) to the thread it lets through. So there are no data races, and two
kinds of hard behaviour:

* between a call that blocks and its return, any thread may have made any call:
  locks change hands, deadlines pass, objects are destroyed and created again;
* inside a host function that calls back into the guest, and above all inside
  anything that releases an object, since the last release sends `-dealloc`,
  any guest code may run, of any thread.

The run loop is where most of the second kind meet. It calls timers, hands audio
buffers back and lets notifications out; the callbacks run the loop again,
invalidate what is being called, and release the last reference to it. An operation
or a dispatched block is executed at once, inside the call that submits it, in the
thread that does.

There is no persistence, no network protocol and no shared-memory parallelism in
the parts modelled, hence no crash recovery or message loss to model. Timeouts
are there: sleeps, timed waits, timers.

## 2. The modules

Three families, for the two kinds of hard behaviour and their combination, and
three modules that stand alone.

    Threads --- Mutex --- Cond ---+
       |                  Queues -+--- Scheduler --- SchedulerMonitor -+- MCScheduler
       +------- Semaphore --------+                        |           +- SchedulerProofs
                                                        Monitor

    Objects --- ObjcRuntime --- MCObjects
                     |
                ObjcProofs

    GuestCalls -+- RunLoop        -+
                +- Notifications  -+
                +- Operations     -+- EventLoop -+- MCEventLoop
                +- Dispatch       -+             +- EventProofs --- ReferenceProofs
                +- Messages       -+
                +- Synchronized   -+

    OpenAL --- AudioQueue -+- MCAudioQueue     Heap --- HeapProofs
                           +- AudioProofs

    Queues --- FoundationLocks --- FoundationProofs

The modules of proofs use the lemmas of `QueueProofs`.

### Threads, Mutex, Cond, Semaphore, Scheduler

`Threads` has the thread table and the calls that change it. `phase` says who
runs: the coroutine of `current` ("run") or the scheduler ("schedule"); "panic"
and "deadlock" are the two ways the emulator stops. `YieldThread(block)` is
`yield_thread`: it writes the block and hands over to the scheduler. The
`Suspended(n, block)` variant wraps another block, so it is a count
(`suspended`) next to `blockedBy`.

`Mutex`, `Cond` and `Semaphore` have one action per call. A `pthread_cond_wait`
is two: `PthreadCondWait` up to its `yield_thread`, and `PthreadCondReturn` for
the tail, which runs when the thread is resumed; in between the thread has a
`frame`, the part of its call stack that matters. Calls that fail without
changing anything (EBUSY, EDEADLK, trylock and trywait on something taken) are
left out: they are stuttering steps.

`Scheduler` is `schedule_next_thread`, one action per branch of its loop and
one step per iteration, and the specification `Spec`. Time is abstracted to the
question the scan asks: whether the deadline has passed is chosen by the scan,
at every look, so that deadlines pass in every order. `awakening` is
`next_awakening.is_some()`.

`Monitor` is the abstract specification of mutexes and condition variables: who
holds a mutex, how often, and how far each wait has come (waiting, woken, late,
back). It has no scheduler, queue or running thread. A wait gives its mutex up
and starts to wait in one step; it goes on only after a signal or its own
deadline, with the mutex; ETIMEDOUT is reported exactly if the deadline was what
ended it, even if a signal had come before. `SchedulerMonitor` maps `Scheduler` to
it: `owner` and `lockCount` are the mutexes, and `WaitAt` reads a wait off the
frame, the block and the queues of its thread. It says what may
happen, not that it does: that waits end is `TimedWaitEnds`.

`GuestOps` is the set of calls the guest makes and `Misuse` the set of
preconditions it breaks. All but one are those POSIX documents for the
call (do not destroy or initialise again what others wait for, do not use what was
destroyed, wait with one mutex at a time, unlock only what you own), and they guard
the calls that have them. A call that breaks one does what the code does: the
condition variables' `unwrap()`s of an entry that was destroyed fail (`CondGone`). The
one that is not POSIX's is `destroy_signalled_cond`: POSIX lets a condition variable be
destroyed as soon as nobody waits for a signal, the code only survives it once every
wait has returned. With `Misuse = {}` the guest is any program that keeps them all,
with `Misuse = {"destroy_signalled_cond"}` any that keeps what POSIX asks.

### Objects, ObjcRuntime

`Objects` has the object table, reference counts and weak references. Guest
threads are modelled by their `stack` of calls in progress. A frame is there only
for a host call that has more to do after it called back into the guest, or for
a guest `-dealloc` that has not reached `[super dealloc]`. Threads switch only in
guest code. `ReleaseThen(o, frames)` is a release by a call that goes on as
`frames`; if it is the last one and the guest overrides `-dealloc`, the frame of
the `-dealloc` is put on top, otherwise the object is freed at once. `refcount` 0 stands for `None`.

`ObjcRuntime` adds pools and associations, and the specification. The drain of a
pool is a frame with the pools still to free and the references still to
release; `DrainNextPool` and `DrainNextObject` are the two loops of
`-[NSAutoreleasePool dealloc]`.

`held` counts the references guest code owns and `leaked` those autoreleased
without a pool: history variables, which the guest program's discipline
(`GiveUp`) and the properties need and the code does not have. The guest releases
only what it owns, drains only pools that are on a stack, and does not use a weak
variable twice as the target of `objc_initWeak`.

Abstractions: one association key; COPY is RETAIN of the copy; a pool is created
by one step (`alloc` and `init`, between which nothing that the model has can
matter); classes differ only in whether the guest overrides `-dealloc`, which a
release that sends it chooses.

### GuestCalls, EventLoop and what they compose

`GuestCalls` has what the six modules after it share: `calls`, the host functions
each thread is inside of, innermost last, each with its `stage` and the local
variables that outlive a callback. In the stages of `GuestStages` guest code
runs; "sleep" lets other threads run; in every other stage the host function runs
to its next callback and no other thread moves (`At`, `Interruptible`), because
the scheduler is entered from guest code and from `yield_thread` alone.

* `RunLoop`: a pass over the timers is a call with the retained copy of the list
  (`batch`); `HandleTimer` calls a due timer back, `EndTimer` is what follows
  the callback, `EndPass` sleeps or returns. Timers are fired, rescheduled,
  invalidated, released and freed by callbacks and by other threads meanwhile. A date is
  "none", "later" or "now"; `BecomeDue` is the clock.
* `Notifications`: `PostNotification` copies the observers, `Deliver` calls the next
  one, `EndDelivery` releases what the call had retained. A token and its block are
  one object with its count.
* `Operations`: `AddOperation` starts the operation and takes it out of the queue
  again (`Dequeue`), whatever came of it. `EndMain` and `EndCompletion` are the
  returns of its two callbacks.
* `Dispatch`: `DispatchBlock` pushes the queue and calls the block, `DispatchDirect` is
  the `_f` functions, which push nothing, `DispatchApply` iterates. `pthread_once`
  works as `dispatch_once`.
* `Messages`: `Send` notes the classes that are not initialized, from the receiver's
  upwards, as `ensure_class_initialized` does before it calls anything;
  `InitializeNext` is the code after each recursive call. The hierarchy is a constant,
  the list of each class's superclasses (`Chain`). The `+load` pass comes to the
  classes in any order, which is what a hash map gives (`FindLoad`), goes up from each
  (`WalkLoads`) and appends what it found, reversed (`EndWalk`); then it calls them
  (`LoadNext`). `swallowed`, `loads` and `initializes` are history variables.
* `Synchronized`: of the mutexes it keeps owner and count; that only their waiters
  get them is the subject of `Scheduler`. `ObjcSyncExit` destroys the mutex unless
  somebody waits (`DropMutex`). A setter locks, reads the old value, retains or
  copies the new one (a callback), stores, and releases the old one (another).

`EventLoop` composes them. Each thread has a set of the modules it uses
(`program`), and the specification starts from any of the given programs, so that
one run checks them all, one next to the other.

### AudioQueue and OpenAL, Heap, FoundationLocks

`AudioQueue` has the calls of an audio queue, which its callbacks may make too, and `handle_audio_queue` in the steps
between its callbacks. `OpenAL` is the state machine of a source in the OpenAL
specification, external to the repository; its mixer may move between any two
steps, since it has its own thread.

`Heap` is the allocator with the functions on top of it, on addresses that count
units of 16 bytes. Chunks are sets of intervals; the buckets matter by the order
in which they are searched (`Choices`).

`FoundationLocks` has one NSCondition and one NSConditionLock with the block of
each thread, since these classes write it themselves. A step is what runs
between two `yield_thread`s. `thread_suspend` and `thread_resume` write the same
field.

## 3. What is checked

Every property of a passing run has a mutant: an operator next to the definition
it would replace, commented "Mutant", that changes the code's behaviour the way a
plausible bug would, and that TLC finds the property violated by.

| run | instance | what holds |
|---|---|---|
| `sharing` | 3 threads, 1 mutex normal or recursive, 1 semaphore, suspension, join | `DeadlockVerdict`: the verdict is never premature, and final; `WaitingCountAccurate` although the guest destroys awaited mutexes; `GrantsExact`: mutexes and permits pass only from who had them to whom the scheduler lets through |
| `monitor` | 3 threads, 2 recursive mutexes, 1 condition variable, destroyed and created again, waits with either mutex | `CondQueuesConsistent`, `ReturnsWithMutex`, `CondMutexAgree`, `DeadlockPanicSound`, and `ImplementsMonitor`: threads observe a Mesa monitor; the emulator panics instead of mixing mutexes |
| `misuse` | 2 threads, one object of each kind, every call, every precondition broken | `TypeOK`, `RunnerUnblocked`; panics are reachable and allowed |
| `fair` | 3 threads, a monitor whose condition variable is destroyed as early as POSIX allows and created again, sleeps, `FairSpec` | `SchedulerDecides`, `RunnableRuns`, `TimedWaitEnds`; `OnlyDestroyPanics`: nothing but such a destruction makes an assertion or `unwrap()` fail |
| `pools` | 3 addresses, 2 weak variables, 2 threads, 2 pools each, 3 unfinished calls per thread, guest `-dealloc` | `RefcountExact`, `PoolsConsistent`, `WeakTableExact`, `WeakAlive` |
| `zombies` | 2 addresses, guest `-dealloc`, weak loads and associations during it | `DeallocOnce` |
| `locks` | 3 threads, one object of each class, 2 conditions, one thread suspends others, `FairSpec` | `MutualExclusion`; `NoWakeupLost`: while an object is free and somebody is queued for it, somebody has been woken; `QueuesExact`; `TimedCallsEnd` |
| `heap` | 20 units in pages of 4, requests of 1, 3 and 5, alignment 4, up to 5 blocks, and a segment beside the null segment and the stack | `Tiled`: every address is in one chunk; `UsedIsOwned`: nothing is lost or kept; `BestFit`; `NoHostPanic` |
| `audio` | 2 queues that share 1 source and 2 buffers, of which one queues up to 2 and the other 1, 2 nested calls, `FairSpec`; callbacks stop, reset, free and dispose of the queue they are called for | `InStep`, `NoHostPanic`; `PassesKeepToTheirQueue`: a pass that outlives its queue touches no other's source; `RunningBuffersHeard`: no buffer is dropped unheard; `KeepsCallingBack`: every underrun is recovered from; `StopEnds` |
| `eventloop` | eight programs of up to 3 threads: 2 timers, 1 observer, 1 token, 2 operations, 2 dispatch queues, 3 classes in a line with at most 4 nested messages, 1 object with blocks and a property; 2 nested calls; `FairSpec` | `ReferencesExact`: every reference to a timer, an observer, a token or the value of a property is held by somebody and released once, nothing panics, and every variable keeps its type; `TimersConsistent`; `OperationsOrdered`; `BlocksAreServed`; `InitializedInOrder`; `SynchronizedExcludes`; `DueTimersFire` |

CHECK_DEADLOCK is FALSE everywhere: the emulator really stops when it panics, and
a guest whose bounded calls are used up stops too.

### Disagreements with the repository's own words

Two runs end in a violation, of one property each that a comment or an assertion
of the repository states.

* `destroy` (`LockersKeepMutex`): the waiting count of a mutex is also taken down
  by condition waiters, who never took it up. A mutex with a thread blocked in
  `lock_mutex` can be destroyed. The other runs that check the count have no
  condition variables.
* `audio_reset` (`InStep`): resetting a queue that was primed and never started
  leaves the buffers on the OpenAL source, and the next priming fails its
  assertion.

The passing runs keep off further ones by a precondition of the guest, or by a
property they do not check. Each can be seen by the change in the second column.

| what the code does | change to a configuration | the code's words |
|---|---|---|
| A condition variable that is destroyed when all its waiters have been signalled, but before they are back, makes `pthread_cond_destroy` panic (`cond.rs:290`); destroyed when they have timed out, it makes the `unwrap()` at the end of their wait panic (`cond.rs:174-177`). | `fair.cfg`, `INVARIANT NoHostPanic` | |
| A condition variable that is destroyed when its waiters have timed out and is created again at once: they return 0 instead of ETIMEDOUT. | `monitor.cfg`, `Misuse = {"wait_with_two_mutexes", "destroy_signalled_cond"}`, `ImplementsMonitor` alone | |
| A suspended thread at the head of `waking` blocks the signalled ones behind it, and the scheduler panics with "No active threads". | `monitor.cfg`, `GuestOps <- SuspendOps`, `DeadlockPanicSound` alone | the message of that panic |
| A weak load during a guest `-dealloc` returns an object that it did not retain. | `zombies.cfg`, `OwnedIsRetained` | `objc/weak.rs`, the comment of the load |
| The associations of an object survive it, with the references they hold. | `zombies.cfg`, `AssociationsEnd` | `objc.rs`, the comment of the table |
| The `-dealloc` of an old association that sets the key again makes the outer call drop a retained value. | `zombies.cfg`, `Calling <- AssociationCalls`, `PROPERTY OverwrittenIsReleased` | |
| `addOperation:` of an operation that is not ready, or to a suspended queue, returns without running it, and nothing ever does. | `eventloop.cfg`, `AddedHaveFinished` | `ns_operation.rs:550-551` |
| A stop of a loop that does not run ends the next run. | `eventloop.cfg`, `SPECIFICATION Spec`, `Misuse = {"stop_idle_loop"}`, `PROPERTY RunsStartUnstopped` | `ns_run_loop.rs:71` |
| A timer in two loops stays in one of them when it is invalidated. | `eventloop.cfg`, `Misuse = {"two_loops"}`, `TimersConsistent` | `ns_run_loop.rs:55-56` |
| A timer that the guest does not own is freed by its own `fire`, which then uses it. | `eventloop.cfg`, `Misuse = {"fire_unowned"}`, `ReferencesExact` | |
| A timer whose owner releases it while its `fire` runs is used after it is freed. | `eventloop.cfg`, `Misuse = {"release_fired"}`, `ReferencesExact` | |
| An observer that an earlier observer removed and freed is still called. | `eventloop.cfg`, `Misuse = {"free_pending_observer"}`, `ReferencesExact` | `ns_notification_center.rs:335-338` |
| Blocks of two threads, or of the `_f` functions, find another queue than their own. | `eventloop.cfg`, `Misuse = {"blocks_in_threads"}` or `{"query_direct_block"}`, `BlocksAreServed` | `dispatch.rs:643-647` |
| A call of `dispatch_once` or `pthread_once` returns while the block is still running, in another thread or further down the stack. | `eventloop.cfg`, `PassersFindItDone` | `dispatch.rs:125-126`: "Since we're single-threaded this is straightforward" |
| Two threads that set one `nonatomic` property release its old value twice. | `eventloop.cfg`, `Misuse = {"nonatomic_in_threads"}`, `ReferencesExact` | |
| A setter reads the old value before `copyWithZone:`; if that sets the property again, its value is leaked and the old one released twice. | `eventloop.cfg`, `Misuse = {"set_in_copy"}`, `ReferencesExact` | `objc.rs:127-131` expects accessors to be re-entered from `copyWithZone:` |
| A `+load` method, before which no `+initialize` is sent, messages `super`: the method of the superclass runs before its `+initialize`. | `eventloop.cfg`, `Misuse = {"super_in_load"}`, `InitializedInOrder` | `messages.rs:258-261`: "the calling class is already initialized by the time we reach a `super` call site" |
| At the limit of 128 nested messages, which counts those of all threads, `+initialize` is swallowed and the class counts as initialized. | `eventloop.cfg`, `NoneSwallowed` | `messages.rs:27-30` |
| A buffer that is freed, or whose queue is disposed of, in a callback of a pass is still handed to the next callback of that pass. | `audio.cfg`, `SPECIFICATION Spec`, `INVARIANT PendingBuffersAlive` alone | `audio_queue.rs:1461-1463`: the callback "is allowed to call AudioQueueDispose" |
| A callback disposes of its queue and makes a new one, which may get the same address: the pass goes on with the new queue and the old source. | `audio.cfg`, `SPECIFICATION Spec`, `Misuse = {"reuse_in_pass"}`, `NoHostPanic` or `PassesKeepToTheirQueue` | the same: "the queue is gone and there is nothing left to do here" |
| Priming a running queue whose source has stopped puts buffers on it that the next pass takes for played. | `audio.cfg`, `SPECIFICATION Spec`, `Misuse = {"prime_running_queue"}`, `RunningBuffersHeard` | |
| A block that `posix_memalign` moved up cannot be freed. | `heap.cfg`, `Misuse = {"free_aligned_block"}`, `NothingLeaks` | `stdlib.rs:222-224` |
| A `realloc` that cannot be satisfied frees the block all the same. | `heap.cfg`, `Misuse = {"realloc_too_large"}`, `OwnedAreUsed` | |
| Waking a waiter of an NSCondition undoes a suspension by another thread. | `locks.cfg`, `Misuse = {"suspend_waiter"}`, `SuspensionHolds` | `environment.rs:154-156` |

The other names in `Misuse` are calls that a guest has no reason to make and that
take a property with them: it starts an operation before its dependencies
(`start_early`), adds an invalidated timer (`add_invalid`), starts a queue that is
running over and over (`start_running_queue`, `KeepsCallingBack`), or gives buffers to a
queue that it is stopping (`feed_stopping_queue`, `StopEnds`). `post_in_threads` (two
threads that post at once may each free what the other is to call) is a hypothesis of
`CenterNeverFails` that needs more observers than the run has.

`messages.rs:68-69` says that the recursive call for the superclass "could not have
initialised this class": it can, by a message in that class's `+initialize`, and
the mutant that drops the re-check is caught for that reason.

For object lifetimes, `pools` checks `RefcountExact` and `WeakAlive` of guests that
neither load weak variables nor associate objects; `zombies` has those calls and
checks what survives them.

### Bounds

Threads are interchangeable but for their index in the round robin and for
thread 0, which never exits; three give a waiter in each queue of a condition
variable, or two in one, and a third party. One condition variable is enough where two
do not share state; two mutexes are needed only where a condition variable can
see both. `MaxLockCount` 2 distinguishes the last unlock from others. `MaxGrace`
is 3 in the code and 1 in the runs, since the retries only count.
`MaxValue` 1 lets a semaphore be empty or not.

`MaxDepth` 3 lets a drain run a `-dealloc` that drains, and that one a
`-dealloc`; `MaxRefs` bounds the references of one kind to one object. Addresses
are symmetric (nothing compares them), threads are not.

`MaxCalls` 2 puts one host function inside a callback of another, in each of two
threads: a run inside a timer, a post inside a post, a setter inside a `-dealloc`.
What the outer one does after the callback depends on its own variables only, so
that a third level repeats the second. Two timers are the one that is called and
another in the same batch; two operations and their dependencies make the chain
of one; three classes have a middle one, which is initialized on behalf of another
and does it for another. `MaxDispatch` 4 is reached by a message, its three
`+initialize`s, and one more. `MaxNested` 2 distinguishes the last exit from a block.

The heap has room for two pages beside the null segment and the stack: enough to
split a chunk in three, to join in both directions, and to run out. The sizes are
less than a page and more, so that both alignment rules apply. An audio queue
with two buffers has one playing and one to come, or the same one twice. A second queue is
there to get the source of the first: one buffer in it is enough for that, and a
longer queue is left to the theorems.

### Fairness

`Scheduler`'s `FairSpec` assumes what the code's scheduling gives and nothing of the
guest: the main loop never stops scanning (weak fairness of `ScanStep`); the tick budget
ends every turn (`TickBudget`), so a thread that loops does not keep the host;
a host call that was resumed runs to its end (`HostCallReturns`); and time
passes, so a scan that looks at a deadline again and again finds it passed
at some time (strong fairness of `ScanSleeping(t, TRUE)` and
`ScanCondTimeout(t, c)`, strong because the scan looks only now and then).

`EventLoop`'s: a pass of a run loop goes on until it sleeps or returns (weak:
nothing interrupts it), a sleep in it ends, and the callback of a timer returns, at
each depth of the stack by itself (strong: other threads run in between). The
last one is an assumption on the guest; without it nothing can be said of what
follows the callback.

`AudioQueue`'s: host functions go on, the mixer plays, also while guest code runs, the
callbacks of a queue return, and passes over it begin again and again, since the
run loop goes round. `FoundationLocks`': a thread that is not suspended
goes on with its call (as `RunnableRuns` shows), and the date of a call passes.

## 4. What is proved

Every theorem is about `Spec` for all values of the constants that satisfy the
assumptions of the modules: positive bounds, null values outside the sets they are
added to, finitely many objects with blocks or locked properties and mutexes enough
for all (`SynchronizedAssumption`: `init_mutex` counts up and never fails). TLC evaluates
them on every run. A hypothesis on `Misuse`, `Calling` or `Conds` is part of
the statement; section 3 has the behaviours of the code that make it necessary.

An induction over naturals is made without an operator parameter, by the least
element of a set that is not empty (`Least` in `QueueProofs`, which also has the lemmas
on queues: append, tail, concatenation and removal keep members and distinctness).

### The scheduler

`SchedulerProofs`, for every guest, `Misuse` included:

* `TypeCorrect`: `[]TypeOK`. `TypeOK` is inductive by itself because it
  says which slots of the table are blank and that a mutex has an owner exactly
  while its lock count is positive; the unguarded subtractions need both.
* `RunnerIsUnblocked`: `[]RunnerUnblocked`, inductive given `TypeOK`.
* `DeadlockFinal`: once a scan has found neither a thread nor a deadline, the
  retries of the grace period change nothing. `DeadlockInv` says of the threads a scan
  has passed that they stay (`Stays`) as long as it has noted no deadline; a step that
  releases one is the end of the scan.
* `Grants` (`GrantsExact`), of guests that unlock their own mutexes: each step is one
  of a few forms of what it does to owners and permits (`HandsOver`).
* `WaitingCounts` and `LockersKeep`, of programs without condition variables
  (`Conds = {}`): `CountsExact` says that every `waiting_count` is the cardinality of
  the threads blocked on the mutex. With condition variables it is false; run `destroy`
  shows how.

The second part is about guests that keep what POSIX asks (`PosixGuest`). An early
destruction of a condition variable may make the emulator panic, so their invariant is
`LawfulInv` until then, and after it what a panic leaves true (`AfterPanic`); together
they are inductive given `TypeOK` (`PosixInvariant`). `DestroyPanicsOnly`
(`OnlyDestroyPanics`), `QueuesConsistent`, `WaitersAgree` and `WaitRelocks` follow from
it. With `Misuse = {}` there is no such panic: `LawfulInvariant`, and `NoPanic`, which
run `fair` refutes without that hypothesis.

The properties are not inductive one by one. That an `unwrap()` of
a condition variable does not fail needs that the objects in the frames of
waiters exist (`FramesConsistent`); that a wait returns with its mutex needs to
know where a waiter can be in between (`FramePlace`: still queued, timed out and
queued for the mutex, or resumed as its owner); that the timeout's assertion
holds needs that a waiter is not in `timed_out` (`WaitersConsistent`). Steps that
leave the condition variables and their waiters alone are proved together
(`QuietCallKeeps`, `QuietScanKeeps`), the others one by one.

`DeadlockSound` and `DeadlockVerdicts` join the two: the threads that stay can never
go on, and the panic comes exactly then. They hold without condition variables,
whatever the guest breaks, and with them for guests that keep what POSIX asks and
suspend nobody (a suspended thread at the head of `waking` is the counterexample).

The third part, with `Misuse = {}`: `MonitorImplemented`, `Spec => ImplementsMonitor`.
Of the mapping it is enough to know one thread at a time: `SameWait` says when a wait is
the same after a step, `OneWait` and `NoWait` put the function together. Steps that threads do not observe (`Hidden`) stutter;
the others have a lemma each, named for what they map to. `LawfulInv` is needed
throughout: a thread the scan finds blocked on a mutex is a late waiter or a caller
of `lock_mutex`, and only its frame tells which; a signal maps to one because the
queues hold the waiters and nobody else (`SleepersQueued`).

### The object runtime

`ObjcProofs`. `WeakTable` (`[]WeakTableExact`) and `TypeCorrect` hold of every
program: once the table and the variables have their types the first is inductive,
whatever the stacks and the counts are.

The counts are sums over the calls of all threads, and one step may push several
calls. A call is therefore named by its thread and its level, counted from the bottom
of the stack, which it keeps as long as it lasts; and an entry of a drain by its place
from the end, which it keeps while those before it are released. So a step changes
one level, and every sum becomes the cardinality of a set that gains or loses one element.

* `DeallocatedOnce`: `DyingInv` says that the object of a `-dealloc` in progress
  is in the table, without a count, and in one such call.
* `CountsExact`, `PoolsKept`, `WeakStaysAlive`, `OwnedStaysRetained`,
  `OverwrittenReleased` follow from `CountInv`: `Sound(o)` of every object (its count is
  its references; it is gone only with none left), `PoolsOnce` (a pool is in
  one place) and `Atomic` (what a call in progress says of other threads).

They are about `LawfulProgram`s: those that override no `-dealloc`, and those that do
and neither associate objects nor load weak variables. The remaining programs
violate `OwnedIsRetained` and `OverwrittenIsReleased` (section 3). `DeallocatedOnce`
also holds of all programs that do not both make and drain pools (`Undraining`).

### Locks of Foundation, and the heap

`FoundationProofs`: `LocksExclude`, `LockQueuesExact`, `LockWakeups` and
`LockSuspensions`, from `LocksInv`, for guests that unlock and wait with what they hold
and do not suspend a thread inside such a call (`LawfulGuest`). `QueuedOK` says, by the
call a thread is in, whether it is queued; `Promised` that a free object with a
queue has somebody woken for it, which is what a step that wakes one waiter and lets
another in must keep.

`HeapProofs`: `ChunksTile` and `AllocatorAsserts` for every guest, from `HeapInv`:
chunks are disjoint, cover the memory and are aligned by their size.
It is stated of a value of the maps (`Sound(heap)`), because `realloc` is three
operations on it in one step. `UsedChunksOwned` adds the blocks of the guest (`Held`),
for guests that neither free a block that `posix_memalign` moved nor use one that
`realloc` could not enlarge. `SearchBestFit`: the least size in the least bucket that
fits is the least size.

### Callbacks of Foundation

`EventProofs` and `ReferenceProofs` are about all of `EventLoop`, for any number of
threads, any programs and any depth of calls. Their basis is that a step of a thread disturbs only the top
of that thread's stack, and there only calls of its own module: `Moves` lists what a
step may do, `Steps` proves it of every action, and `Foreign` concludes that calls of
another kind are where they were. So each property needs only the actions of its own
module. `CallsFormedAlways` says that each call has the fields its module uses.

* `TimersCounted`, for every program: until something panics, a timer has the references
  of its holders (`TimerRefsExact`). `TimerInv` says so with finite sets of holders
  (`Exact`), that a run has a timer exactly during its callback (`RunSound`), and that
  `is_running_callback` is set exactly while one run is calling the timer (`Handled`). A
  step adds or removes one place, one loop and the guest at most (`Balanced`).
* `TimersInLoops` (`TimersConsistent`), if valid timers are added, to one loop each
  (`LawfulTimers`): the timers of a loop name it and will fire (`Linked`). A new timer
  disturbs nobody because one without references is in no loop and no run (`NobodyHas`).
* `RunLoopsNeverFail`, if the guest keeps the timers it fires (`LawfulFires`): each of
  the holders counts (`AtLeast`), so no release and no `get` of a timer fails.
* `OperationsInOrder` (`OperationsOrdered`), if no operation is started early: an
  entry of a queue is there only with the `start` in progress that put it there.
* `OncesRunOnce` (`OnceOnly`), for every program: `OnceInv` says that the block of a
  token was called once if the token is recorded, and not otherwise. It says nothing of
  when the block is done: `PassersFindItDone` is false.
* `BlocksServed` (`BlocksAreServed`), if one thread at a time executes blocks and queues
  are queried only where the code can answer (`LawfulBlocks`). `BlockInv`: the queues
  that the thread's blocks pushed are the stack of queues, in order (`Matches`), and a
  block that pushed none has the queue of the one around it (`Inherits`).
* `BlocksExclude` (`SynchronizedExcludes`), for every program. `SyncInv`: a mutex exists
  exactly if one of the two tables has it, for one object (`Entries`); its owner is the
  thread inside and its count their number (`Counted`); a thread that waits is on top of
  its stack (`SleepersOnTop`), so that `destroy_mutex` sees every waiter; and
  a call waits for a mutex its table still has (`LockSound`). That both tables
  find a free mutex (`FreeMutex`) is the pigeonhole principle.
* `CenterCounted`, for every program: the references to an observer or a block are those
  of the guest, of the registrations that name it and of the posts that are calling it
  (`CenterExact`). What a removal releases is a set of registrations, so the counts
  are cardinalities, as for timers.
* `CenterNeverFails`, if the guest keeps an observer while a post is still to call it
  and posts in one thread at a time (`LawfulPosts`). The center does not retain
  observers; `Kept` says of every registration that a post has still to
  come to who keeps its observer: the guest, the center if it is a block, or a call
  further down the stack that is calling it.

`ReferenceProofs` has what takes several modules together:

* `PropertiesCounted` (`PropertyRefsExact`), if the guest sets no property in the
  `copyWithZone:` of a value that is copied for it, and properties that are not atomic in
  one thread at a time (`LawfulSets`): what the two hypotheses exclude violates it
  (section 3). -dealloc methods may set properties, and so may other threads if these
  are atomic. The
  old value that a setter is going to release must still be that of the property
  (`Current`) when another setter may have run in a callback since. `SettersInv`: two
  setters of an object in different threads both have a lock to wait for (`Alone`), and
  one that made another call is in the guest's code (`Below`). `LocksInv`: whoever is between
  its lock and its unlock owns the mutex (`Owns`), which is locked as often as setters
  are there (`LockedBy`). `ValuesInv` counts the values.
* `ClassesInOrder` (`InitializedInOrder`), if no `+load` messages `super` (`LawfulLoads`).
  `InitializeInv`: the superclasses of an initialized class are initialized; each has
  been sent `+initialize` or was swallowed by the limit; and what a message in progress has
  still to initialize is the lower part of its chain, all above being done
  (`SendSound`). That is why the re-check after the recursive call is needed: the
  `+initialize` of the superclass may have messaged the class. `LoadInv`: what the pass
  has found is a list in which each class comes after its superclasses with a `+load`
  (`LoadedBefore`); a walk that meets a class found earlier has met all above it, because
  those were found with it (`WalkSound`).
* `ReferencesKept` (`ReferencesExact`), of guests with all four hypotheses. A panic in
  any module ends them all, so each count holds only because the others do: `HostStays`
  puts them together. The rest is `TypesKept` (`TypeOK`): most types are parts of the
  invariants above, and `RestInv` has the others. That no lock count is negative
  comes from `Counted` and `LockedBy` (`LockedOften`), that a block that is
  called has iterations left from the test before the count is taken down (`BlockKeeps`).

### Audio queues

`AudioProofs`, for any number of queues, buffers and sources and any nesting of
callbacks. `TypeCorrect` holds of every guest. The others need one of these hypotheses,
each of which names what the code does not survive (section 3):

* `QueuesInStep` (`InStep`) and `AudioNeverFails` (`NoHostPanic`), of guests that
  reset no queue that is primed and was never started, and make none at the address of
  a queue that a pass is at (`LawfulQueues`); callbacks may dispose of their queue. They
  are proved together, from `AudioInv`: a source in use belongs to one queue, which
  exists (`Attached`); each pass over a queue that exists goes on with the source of
  that queue (`PassesHold`); and the buffers of the source are the first
  ones of the queue's (`QueuesFollow`). `InStep` alone is not inductive: two queues
  that shared a source would break it, and a panic
  of `AudioQueueReset` is excluded by `InStep` itself. A step changes the two queues of at most
  one audio queue (`RequeueStep`), and a pass that goes on has the source it began with
  (`PassCalls`).
* `PassesKeep` (`PassesKeepToTheirQueue`), of the same guests, from `PassesHold`: a pass
  whose queue is gone changes nothing, whoever has its source by then.
* `RunningHeard` (`RunningBuffersHeard`), if the guest also primes only stopped queues
  (`LawfulPriming`). OpenAL counts everything on a stopped source as processed, and the
  mixer may stop a source between any two steps, just before a buffer is put on
  it. `HeardInv`: whenever a running queue has such a buffer (`Unheard`), the innermost call is one
  that will start the source before guest code can run (`Restarts`). That no
  other call can be between them is `Nested`: only passes have calls inside them.

### Only model-checked

Liveness under fairness, which the prover does not reach: `SchedulerDecides`,
`RunnableRuns`, `TimedWaitEnds`, `TimedCallsEnd`, `KeepsCallingBack`, `StopEnds`,
`DueTimersFire`. Of the deallocations, whatever concerns programs outside
`LawfulProgram`. Every safety property of a passing run is a theorem, under the
hypotheses named with it.

## 5. What is not modelled

`PROJECT.json` lists every component with the reason. By far the most of the code
is tables of functions that translate one call to another (OpenGL ES), value
classes (strings, collections, views, images), parsers, wrappers of libraries,
and workarounds for single games. These keep little state between calls, and
what they keep is not touched by another actor; tests reach it.

Of the parts with control of their own that are missing: named semaphores, the
handles of pthreads in guest memory (magic numbers, rwlocks, keys, detach and
cancel), events of UIKit and Core Animation in a pass of the run loop, CFRunLoop
sources, the references that an NSThread holds, and the load order of binaries.

Seen while reading, and outside the models: `sem_open` tests `O_EXCL` the wrong way
round; `removeObject:` of a mutable array (`ns_array.rs:1211-1225`) goes on with
stale indices; an NSLock that its holder locks again panics on EDEADLK; the two
tables of mutexes by object address are never cleaned up when an object is
freed, although `objc.rs:131-132` says so of one; `swift_getInitializedObjCClass`
(`classes.rs:2232-2247`) sends `+initialize` every time; `handle_touches_down`
(`ui_touch.rs:403-408`) returns when it meets a finger that is already down, with its
autorelease pool still pushed and the other fingers of the event dropped.

## 6. Plan

Theorems: `RefcountExact` and `WeakAlive` for guests that load weak variables but never
of a dying object, which would widen `LawfulProgram`; `DeadlockSound` for guests that
suspend threads outside condition variables.

Models: the handles of pthreads with named semaphores; load order as a function
against the definition of a topological order.
