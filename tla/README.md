# tinyState in TLA+

Specifications, model-checking configurations and proofs for the core of
tinyState, the C++ state-machine framework in this repository (`src/classes/ts2/c++`
and its posix layer).  A program is a tree of *tinyState* objects.  Each object is a
state machine with an event queue; its state functions run on whatever thread calls
its `eventHandler()`: the reactor, a gc thread, a worker of the pool, or another
object's state function.

## Inventory

| Component | Source | State it keeps | Operations | What is hard |
|---|---|---|---|---|
| Event dispatch | `tinyState.cpp`, `sCallSection.cpp` | `_state`, `que`, `onlyOneEvent_occur`, the flag bitfields, `thrInfo`, the call stack of each thread | `eventHandler`, `inherit`, `destroy`, `refEvent`, `invoke_state` | every thread enters at once; nested calls; a recursive application mutex taken and given back along the stack; hand-off of `TS_THREAD` states to workers; deep calls deferred to the gc |
| Semaphores | `stdSemaphore.cpp`, `stdLimitSemaphore.cpp`, `stdQueue.h` | `count`, `v_limit`, wait queue | `get`, `release`, `limit` | waiting without blocking: the woken client has to come back for its permit |
| Reader-writer lock | `stdMutex.cpp` | `count`, wait queue | `read_lock`, `write_lock`, `release` | wake-all that runs clients in the middle of `release` |
| Reference counting, gc threads | `stdObject.cpp` | `ref`, `refEvent_num`, buckets of lists and flags | `addref`, `relref`, `gc`, `is_stable`, `finish` | flags announced up a tree of mutexes; a reference that is counted down late |
| Worker pool | `tsThread.cpp` | `ready`, `run`, thread counts, latch | `ins`, worker loop, `finish` | growing, shrinking and shutting down while objects still arrive |
| Worker interruption | `stdThreadInfo` in `tsThread.cpp` | `KF_*` state, `signal_flag`, `pol` | `start`, `finish`, `kill_begin`, `kill_finish`, `kill`, `wait`, `signal` | a kill racing the section it interrupts |
| gc dispatcher | `tsGC.cpp`, `stdHalfOrderQueue.cpp` | heap of jobs, time budget | `exe`, `interval`, `ACT_START`, `ACT_RET`, `ACT_EXE` | callers with and without the application mutex; jobs that hand themselves in again; jobs that come after the loop has ended |
| Reactor | `fwIO.cpp`, `fwIOarch.cpp`, `stdInterval.cpp` | registrations, timers, `refio` | `read`, `write`, `wait`, `detach`, `abort`, loop | an answer already taken out when its registration is withdrawn |
| Listeners | `tinyState.cpp`, `stdEventHandle.cpp` | both ends of each registration | `listen`, `remove`, `invoke_listen` | removal during a notification |
| Application | `tsApplication.cpp` | pool, gc, reactor | start, main loop, `FIN_*` | order of shutdown |

How they interact: state functions and listener notifications call other objects'
`eventHandler()` directly, so a chain of events is a chain of nested calls on one
thread.  An object whose state is a `TS_THREAD` one asks the pool (`ins`) and a worker
calls its `eventHandler()` with a `stdThreadInfo`.  A call nested beyond `evh_depth` is
given to tsGC, which calls `eventHandler()` again from a shallow stack.  fwIO delivers
timers and descriptors as events.  gc threads call `refEvent()` when the last public
handle goes.  Semaphores and locks end a state function with an `sException`, and wake
the object later with `TSE_WAKEUP`.

What makes each correct: *dispatch* — one runner per object, no event left behind, the
application mutex balanced and held exactly by `TS_STATE` functions, listeners told of
the last state, destroy requests and worker requests honoured; *semaphores* — the
limit, the order of the queue, no permit free beside a sleeper; *lock* — exclusion, no
sleeper beside a lock it could have; *reference counting* — nothing is deleted while
referenced, everything unreferenced is, sleepers wake; *pool* —
every accepted object is served, shutdown waits for all; *interruption* — a request made
in time ends the call and reaches nobody else; *reactor* — it never sleeps past what was
registered, tells what it takes, returns when there is nothing left; *listeners* — the two
ends of a registration agree, and who waits for an end hears of it; *gc dispatcher* — a job given
is kept until it is delivered, and the reactor has its turn.

## Modules

### EventHandler — the dispatch core

Each thread is a stack of calls: `call[t][d]` is the frame of the `d`-th nested
`eventHandler()`, its `pc` tells where between two sections of the object's mutex `lm`
it stands.  All that is done while `lm` is held is one action; what is done outside is
one action per shared access.

| Action | Code (`tinyState.cpp` unless said otherwise) |
|---|---|
| `Construct` | `inherit()`, which dispatches `TSE_INIT` |
| `Call`, `Destroy`, `FireTimer`, `RefEvent`, `RefFlag` | `wakeup()` and other senders; `destroy(delayFlag)`, its zero-delay timer; `refEvent()` |
| `Escape`, `EnterZombie`, `EnterBusy`, `EnterLock` | the depth test and `gc->exe`; the `C_ZOM` guard; `_insEvent` with `state_lock` taken; with it free |
| `Proceed` (in `EnterLock`, `Return`) | a turn of the event loop: run a `TS_STATE` function, run a `TS_THREAD` function, ask for a worker, or leave |
| `AppMtxLock`, `AppAcquire`, `AppMtxUnlock`, `AppRelease` | `appMtxLock()`, `appMtxUnlock()` around `application->mtx` |
| `Return` | the state function returns `rDO\|s`, `s` or 0, or throws; `invoke_check()` |
| `InvokeState`, `Tell`, `NotifyDone`, `PoolIns` | `invoke_state()`, `invoke_listen()`, `th->ins(ifThis)` |
| `PoolTake` | the worker loop of `tsThread.cpp` |
| `GcStart`, `GcDeliver`, `GcEnd` | `ACT_EXE` of `tsGC.cpp`: deliveries with the application mutex held, one level below the gc's own dispatch |

State functions are the program's: the model lets them call anything and return any
transition of `Moves`.  The chain of `C_ZOM` states, which runs under `state_lock`
without interruption, is one state `Zom`.  The depth test reads `_state` just before
`lm` is taken; the model reads both in one step.  Left out: `filter()`, tracing, event
payloads, `thrInfo->signal()`, the `TSE_DESTROY` notification, the panic of
`destroyStop()`, and the branches for an application or pool that is already gone.

`Torn` chooses how a store to a bitfield outside `lm` is taken: as one step on that bit,
or as the load and the store of the word it shares with `state_lock`.  The first is what
the rest of the design presumes; the second is what a compiler emits, and run
`flag_word` shows what it does.

### SerialObject — what dispatch promises

No locks, stacks or pool: an object is served by one thread at a time, takes its events
in order, is not left while an event waits unless it turns to the pool or dies, and hears
nothing once dead.  `EventHandler` implements it with `inbox <- que`, `runner` the thread
of the frame that runs the object, `parked <- want`, `dead` the objects in `Zom`
(property `ServesSerially`).

### Semaphore

`stdSemaphore` and `stdLimitSemaphore` in one module (`kind`), since they differ in what
`count` counts.  `get`, `release` and `limit` run under the application mutex and are
single actions, except that `limit()`'s wake-ups are steps of their own (`GrowWake`)
because `wakeup()` may run the woken client.  `Disturb` says what may happen to a waiting
client beside its wake-up: an evaluation for another event, or giving up.
Not modelled: a second `limit()` inside the wake-ups of the first, over-release, which
the header leaves to the caller, and the destructors.

### RwMutex and RwLock

`stdMutex`, with the wake-ups of `release()` as steps of their own; the queue is a set
because it is always emptied whole.  `RwLock` is the lock with no queue; `RwMutex`
implements it with the clients that got the lock as `readers` and `writers`.

### RefCount — reference counts and the gc thread

Objects live in buckets, each with a mutex; a handle is a pair of an owner and an object, and
`ref` is counted apart from the handles that exist, which is what `CountsHandles` compares.
One action is what is done under one bucket's mutex.

| Action | Code (`stdObject.cpp` unless said otherwise) |
|---|---|
| `Acquire`, `Drop`, `Mint`, `Disarm` | a handle is copied or let go of (`sPtr.h`); `ifThis` in `refEvent()`; `nRefEvent(-1)` at the end of an object (`tinyState.cpp`) |
| `RelRef`, `Announce` | `relref()` in the object's bucket; then a turn of its way up the tree of flags |
| `GcCheck`, `GcWake`, `GcStart` | `gc_thread()` between sweeps, and asleep on `refCond` |
| `GcDelete`, `GcShed`, `GcCallback`, `GcTeardown`, `GcCallbackDone`, `GcDescend`, `GcReturn` | `gc(id)`: the lists it took off a bucket, destructors, `refEvent()` callbacks, the recursion |
| `WaitStable`, `Finish` and their `...Wake` | `wait_stable()`, `finish()` of the main thread |

A program may take a handle only from one it has, so the model's threads do; `Member` says
which objects may hold which.

### STimer and ThreadPool — the worker pool

`STimer` has the timer a tinyState keeps as a member, with the registrations it leaves in
the reactor, as operators on a record; times count down.  `ThreadPool` is `tsThread` with
the parts of the application, the reactor and the gc thread that its end depends on.

| Action | Code (`tsThread.cpp` unless said otherwise) |
|---|---|
| `Ins` (with `Submits`, `Signal`), `Create` | `th->ins(ifThis)` at the end of `eventHandler()`; `ins()`; `create()` |
| `Look`, `Take`, `TimedOut`, `LookLate`, `Return`, `Done`, `Leave`, `End` | the worker's body: look at `ready`, `timedwait()`, run the job, come back, leave |
| `SetLimit`, `RunThreads` | `limitThreadsNumber()`, `runThreads()`, in any phase of the pool while the program has not begun to end |
| `Act`, `ActOldest`, `Wait2`, `DownWait`, `StableWait`, `FinWait` | the pool's state machine, `ACT_TINYSTATE_START` to `FIN_WAIT` |
| `Tick`, `Deliver`, `GrowsOld` | time, the reactor's delivery of the timer, the age of the first job |
| `LeaveLoop` to `WaitWorkers`, `FinishReady/Run/Stable` | the end of the application (`tsApplication.cpp` `FIN_THREAD_ROOT_LOOP`); `finish()`, whose three conditions are three steps |
| `Release`, `RefEvent`, `RefEventDone` | an object let go of in the teardown, whose `refEvent()` may ask for a worker |

A unit of time is the shortest the pool tells apart (at least 10 ms), so `Tick` waits for
workers that are between two looks at the queue but not for jobs.

### Reactor

`fwIO` and its posix loop.  A channel is a descriptor with a direction.

| Action | Code (`fwIO.cpp`, `fwIOarch.cpp`) |
|---|---|
| `Register`, `Wait`, `Detach`, `addRefio`, `delRefio`, `abort` | the functions of these names, one section under `mu` each (`read` and `write` are `Register`), with `writePipe()` inside |
| `LoopEnter`, `LoopPrepare`, `LoopStable` | entry; before `select()`: zombies, fd_sets, timeout, `wait_flag`, the way out |
| `Select`, `Interrupted` | `select()`, with the pipe, a ready channel, the timeout or a signal |
| `LoopCollect`, `LoopDeliver` | what is ready and what is due is taken off the lists under `mu`; it is delivered without |
| `Tick`, `Change`, `Die`, `GcRests`, `GcStarts` | the world: time, readiness of descriptors, objects that end, the gc thread |

### ThreadKill — interrupting a blocked worker

One object, the worker that has it, the threads that destroy it, and the pollers
(`co_tsThreadKill`) they leave behind.

| Action | Code (`tsThread.cpp` unless said otherwise) |
|---|---|
| `Enter`, `Start`, `FnReturns`, `FnThrows`, `Proceed`, `Requeue` | the dispatch around a `TS_THREAD` function: `setId()`, `start()`, `finish()` or an `sException`, the next function, the next job |
| `KillBegin`, `Call`, `CallDone`, `KillFinish`, `Unpoll` | the killable section around a blocking call (as `ts2IOraw` has it) |
| `Destroy`, `ThrKill`, `Kill`, `CreatePoller` | `ts2IOraw_::destroy()`, `thrKill()` under `lm`, `kill()`, `thNEW(co_tsThreadKill)` |
| `Poll` | `co_tsThreadKill` every 10 ms, or its end with its parent |

### Listeners

Registrations (`stdEventHandle`), each on a list of its source and on a list of its
listener.  A thread is a stack of dispatches, as in `EventHandler`, but only the steps that
touch registrations are kept apart.

| Action | Code (`tinyState.cpp`, `stdEventHandle.cpp`) |
|---|---|
| `Run`, `Return` | a dispatch, from its lock to its notifications |
| `Listen`, `Add`, `Look` | `listen()` with `search_listen()` and `add_listener()` under the source's `lm`; `ins_handle_list()` under the listener's as well; the look at the source that follows in `COOKBOOK.md`, section 9 |
| `Clean`, `CleanNext`, `Unhook`, `RemoveListener`, `RemoveHandle` | `clean_stdEventHandle()`, `remove_handle(thNULL)`; `stdEventHandle::remove()`: fields, the source's list, the listener's list |
| `Tell`, `CallHandler`, `HandlerReturns` | `invoke_listen()`: the test and the call read the field twice |
| `End`, `TinyStateLast`, `Sweep`, `Pop` | `ZOM_START` to `ZOM`: the notification, then both lists emptied without `lm` |

`role` is not state of the framework but what an application makes of its objects: whom an object
listens to, which threads call its functions, and whether it changes at all.  It is chosen
at the start and never changes.

The race of two threads in `remove()` of one registration is taken as one step (`Unhook`):
both would take it off the same lists.  What the queue itself suffers when it is read
without `lm` is reduced to a lost insertion.

### HalfOrderQueue, JobQueue and GcDispatch — the gc dispatcher

`HalfOrderQueue` is `stdHalfOrderQueue`, a node being named by its place: `top` is 1, and `n[0]` and `n[1]` of the
node at p are at 2p and 2p + 1.  `step` and `np` say which loop is at which node.

| Action | Code (`stdHalfOrderQueue.cpp`) |
|---|---|
| `Ins`, `Descend`, `Climb` | `ins()` up to `_ins()`; a call of `_ins()` up to the next one, which counts and picks the side or makes the node; the rest of it, with the swap, when that one has returned |
| `Del`, `Cut`, `Sink` | `del()` up to its loops; a turn of the first loop, which counts down, or takes the leaf off; a turn of the second |

`WellFormed` says what the nodes have to be between any two of these steps: `Tree`; `Ordered`, but where an
entry is on its way; `Balanced`, the count of the node a descent is at being off by one until its turn.
`JobQueue` has no heap: a set of jobs, one of the least key taken at a time.  `GcDispatch` implements it.

| Action | Code (`tsGC.cpp` unless said otherwise) |
|---|---|
| `Exe`, `ExeInside` | `exe()` under the application mutex: by another state function, and by the object that is being delivered, when the wake-up has to wait |
| `ExeLook`, `ExeStore` | `exe()` without it: `ins()` finds the queue empty (`stdHalfOrderQueue.cpp:16`), stores its node as `top` (17); or begins `_ins()` |
| `InsGoesOn`, `ExeWake` | `_ins()` to its end, whoever called; `wakeup()` |
| `TimerFires`, `ActExe`, `DelGoesOn`, `Delivered`, `Rest` | `ACT_RET` with its `TSE_RETURN`; `ACT_EXE` with `del()`, up to the job's `eventHandler()`; after it; the wake-ups left in the gc's queue |
| `Elapse` | the clock, which `now() - enter_time > budget_us` reads |
| `LoopReturns`, `DestroyGc` | `tsApplication.cpp`: the reactor's loop has ended and the pool is folded; `gc->destroy()` and the wait for it |

In a queue with entries `ins()` and `del()` take turns: a caller without the mutex begins when `step` is idle, and
what begins meanwhile waits for it.  What two that overlap there could do to the nodes is left out; the one
collision that is modelled, on the empty queue, is enough to lose a job.
Not modelled: the `del()` of `stdHalfOrderQueueTS`, which re-sorts and is no longer called by `tsGC`; the panic
on a depth cap below the gc's own; a restart of the application; a caller that read `application->gc`
before the gc ended and calls it after (its `que` is null by then).

## Runs

| Run | Instance | What it shows |
|---|---|---|
| `dispatch_threads` | 1 object, 2 threads + 2 workers (symmetric), 1 coalesced event type; calls, both kinds of destroy, refEvent; 201,000 states | every interleaving of entry, loop, hand-off, notification and destruction of one object, and that it implements `SerialObject` |
| `dispatch_nested` | 2 objects that do not end, 1 thread + 1 worker, nesting to 3 with the cap at 2, nested and delayed destroy and refEvent; 66,000 states | construction past the cap, escapes to the gc, balance of the mutex through recursion; destroy and worker requests are honoured |
| `flag_word` | 1 object, `Torn` | **violated**: two calls run one object |
| `semaphore` | both kinds, 3 clients of two priorities, limits 1 to 3, both disturbances; 54,000 states | queue order, limit, and the only way a permit is lost |
| `semaphore_lost` | plain semaphore, 3 clients, evaluations out of turn | **violated**: a client sleeps beside a free permit |
| `rw_mutex` | 3 clients, both disturbances; 10,000 states | refinement of `RwLock`, no sleeper without a reason, a free lock is taken |
| `refcount` | 3 objects, 2 threads, 5 buckets; 120,000 states | counts agree with handles, no work is overlooked, all that is unreferenced is deleted, sleepers wake |
| `pool` | 2 objects, 2 workers, limits 1 and 2; 308,000 states | jobs find workers, the reactor is kept and let go, the application ends but for a stranded job |
| `reactor` | 2 objects, 1 channel; 83,000 states | the loop never oversleeps, tells what it takes, and returns |
| `thread_kill` | 2 killers, one of them in a `TS_THREAD` function, 2 pollers; 7,300 states | a request made in time ends the call and reaches nobody else, but for killers that cross |
| `listeners` | 3 objects, two with `TS_THREAD` functions, 3 threads, nesting to 2, 3 registrations; two applications, a pair and a ring; 117,000 states | the ends of a registration agree, who waits for an end hears of it, `listen()` returns but in a ring of threads |
| `gc_dispatch` | 5 jobs of 3 priorities; a caller with the application mutex, one without, one without that outlives the loop; 290,000 states | the heap is balanced, the least key goes first, nothing is lost but in a collision, the reactor has its turn, the gc ends |

Bounds.  Two foreign threads and two workers give every pairwise race on one object
and a third party to disturb it.  Two objects are enough for A calling B calling A, and
`MaxDepth = 3` with `DepthCap = 2` puts one level beyond the cap, which is all the code
distinguishes.  `QueCap` bounds only the queue a *new* outside call adds to; events from
destroy, refEvent, timers and the gc go in regardless.  `GcCap` bounds the jobs in flight.
Three clients of a semaphore or lock are a holder, the one woken, and the one that
overtakes or is overtaken.
Five buckets are a tree of three levels with two inner ones, so that an announcement has a
step left after a flag that is set already and the gc thread descends beside it; the three objects
lie at different depths, and two of them are armed for `refEvent`.
In `pool`, two workers are one that runs for ever and one that leaves; `MaxIdle = 1` makes the
second surplus; `Up`, `Linger` and `Down` are in the order of the source's durations and `Down`
is the only one longer than a unit; limits go down only, since raising one needs no care: it only allows more; `Late = 1` and `Freed = {o1}` let one `ins()` and one `refEvent()` come
in the teardown.  In `reactor`, `MaxReg = 2` puts a second registration behind the first on one
descriptor, `MaxTime = 1` separates what is due from what is not, and `MaxRefio = 1` is one
keep-alive to release.  Two pollers are the one in `pol` and one that was created too late
for it.  `listeners` has two applications.  In `Pair` two objects listen to each other, notify, remove and
end, with three registrations: one each way, and one made again after its removal.  In `Ring` three objects
listen round a ring, each on a thread of its own, which is the shortest ring that is not a crossing of
two; only one of them changes, since what the others do after `listen()` is in `Pair`.  An object's
functions are begun by one thread and called by others in their notifications: the pool may give
it another worker each time, but a thread keeps nothing between two dispatches.  Five jobs make a heap of three levels with both inner nodes, so that the leaf comes from
either side, sinks past one or both, and meets equal keys; a budget of 0 with `MaxSpent = 1` has a
delivery within the budget and one beyond it, which is all that the code tells apart.

`CHECK_DEADLOCK FALSE` everywhere: a program that asks for nothing more is at rest.
`dispatch_threads` uses the symmetry of threads; no liveness run uses symmetry.

Fairness.  *Dispatch*: a thread inside `eventHandler()` goes on, and a mutex that is free again and
again is had at last (strong fairness: pthread mutexes are not fair, but do not starve a
thread for ever in practice, and the framework presumes it); state functions and handlers
return, which is the contract of cooperative states in the docs, and do not answer
`rDO` for ever; the pool has a worker, the reactor runs the gc and the timers.  Nothing
is assumed of callers.  For semaphores and the lock only the delivery of `TSE_WAKEUP` is
assumed (that is what dispatch guarantees) and never that a holder releases.
*Reference counting*: threads inside `relref()` go on, the gc thread runs, `refEvent()` returns.
*Pool*: workers and the state machine run, time passes, the reactor delivers; a job may run for
ever and `timedwait()` may never give up, except that `EndsOrStrands` presumes that jobs end.
*Reactor*: the loop and time go on, and the gc thread comes to rest again and again; nobody
has to register, detach or die.  *Interruption*: threads run and whoever wants `lm` gets it; the
blocked call need not return by itself.  *Listeners*: a function that has begun comes to its end,
and an object with an event in its queue is run if it can be again and again (strong fairness:
this is `DemandServed` and `DestroyNoticed` of dispatch, and that the application mutex does not starve).  `Add` is only
weakly fair: the `lm` it waits for is kept by other `add_listener()` alone, `MaxReg` times at most.
*gc dispatcher*: deliveries return, the reactor delivers its timers while its loop runs, the clock runs, and
who is inside `exe()` goes on; nobody has to call it.

## Findings

* **Flags in one word** (`flag_word`).  `invoke_state_flag`, `mtxLock_flag` and
  `ref_destroy_flag` are stored without `lm` (`tinyState.cpp:689, 454, 466, 381`) into the
  word that holds `state_lock`.  A store that loaded the word before another thread's
  change of `state_lock` and stores it after puts the old `state_lock` back; two calls then
  run one object, against `docs/MENTAL_MODEL.md:148`.
* **Stale entries in the wait queue** (`semaphore_lost`).  `get()` takes a permit without
  taking the caller off the queue it may be on (`stdSemaphore.cpp:48-51`,
  `stdLimitSemaphore.cpp:126-129`).  Its entry later swallows a wake-up, its own or
  another's, and the next client sleeps beside a free permit, against
  `docs/COOKBOOK.md:914`.  `NoLostPermit` shows that this is the only way: while no wake-up
  went to a client that does not wait, every free permit has a wake-up under way.  The case
  needs an evaluation of the waiting client between the wake-up of another and its run,
  which a second thread that entered it with an event and waits for the application mutex
  provides.
* `docs/COOKBOOK.md:949` still says that `stdSemaphore` inverts ties; the constructor has
  set `insNeq` since (`stdSemaphore.cpp:13-21`).  The model follows the code.

Further disagreements with the texts.  The properties state them as exceptions, so that all else is
checked beside them:

* `Crossed` (`Interrupted`, `PollersEnd`): `thrKill()` holds the target's `lm` while `kill()` creates
  the poller (`tinyState.cpp:753-757`, `tsThread.cpp:341`), whose first state takes the application
  mutex.  `destroy()` from a `TS_THREAD` function does not hold that mutex, so a state function that
  does and calls the same object deadlocks with it, against the rule at `tinyState.cpp:1041-1042`.
* `raced` (`ImplementsJobQueue`, `DeliveredAtLast`): `exe()` inserts without a lock of its own (`tsGC.cpp:118, 129`).
  Two `TS_THREAD` functions, which hold no application mutex and which `docs/COOKBOOK.md:1552` tells to use
  `application->gc->exe`, can both find the queue empty and both store their node as `top`; the first
  job is gone.
* `NoMoreGiven` (`DeliveredAtLast`): among equal keys, and by default all are, the heap keeps no order.
  Two jobs that hand themselves in again in turn can keep a third from ever being delivered, where
  `docs/COOKBOOK.md:589, 601` say that `exe()` lines up behind the other work.
* `late` (`GcEnds`, `DeliveredAtLast`): a gc thread that hands in a job when the loop has ended leaves the gc in
  `ACT_RET` with a timer that nobody delivers, and the application waits for it.
* `interval(0)` yields only when the delivery took a measurable time (`>`, `tsGC.cpp:318`); the comment at 41-44
  says "0 or less" yields after every one.  `LoopGetsItsTurn` holds all the same, since the clock runs.

Behaviours that no text of the repository excludes, or that it names, are exceptions in the
properties:

* `Stranded` (`EndsOrStrands`): in `FIN_STABLE_WAIT` the pool makes no worker (`tsThread.cpp:941`).  If
  all have left for lack of work, a job that comes then is never run, and `finish()` waits for it.
* `TimerLost` (`Served`): `sTimer::stop()` detaches the registration and leaves `setup_time` in the future
  (`sTimer.h:62-67`); a `start()` before that time registers nothing.  The next event repairs it.
* `finish()` reads its three conditions one after the other, not at once as the comment at
  `tsThread.cpp:604-616` wants.  The properties hold all the same: a job that comes between
  the reads is run by a worker that is left, or thrown away by `FIN_WAIT` with the pool's keep-alive given back.
* A kill is not recorded while no worker has the object or between two functions (`KF_IDLE`);
  a call made later blocks.  `Interrupted` promises nothing of it.  Destroying a poller does not end it;
  `PollersEnd` holds because it looks at its parent.
* A second registration of the same kind on a descriptor is taken off with the first one and its
  object is not told (`TellsWhatItTakes`).
* `crashed` (`HearsTheEnd`): `invoke_listen()` tests a registration's listener and reads it again for the
  call (`tinyState.cpp:1336-1338`) with no mutex.  If the listener removes the registration in between,
  on another thread, the handler is called on null, and `sPtr` does not check.
* `Ringed` (`ListenReturns`, `HearsTheEnd`): `add_listener()` holds the source's `lm` while it takes the
  listener's (`tinyState.cpp:1115, 1131, 1195`).  Objects that listen to each other at once round a ring, two
  or more, each on a thread of its own, wait for each other for ever; so does who then wants the `lm` of one of
  them.  All but one of the threads are in `TS_THREAD` functions, for the others hold the application mutex: the
  property says so, and that nothing else keeps `listen()` from returning.  `docs/GOTCHAS.md`, rule 1
  of the section on mutexes, forbids calls of other objects with `lm` held; this one is left.

## Proofs

`EventHandlerProofs`, for all values of the constants under `ConstantsAssumption` and
`BoundsAssumption` (disjoint threads and states, `1 < DepthCap < MaxDepth`; tsGC panics on
a lower cap):

* `TypeInvariant`.  `TypeOK` is not inductive: that a step of thread `t` finds an object in
  its top frame needs to know which frames are in use.  `IInv` adds `Stacks`: above its depth
  a stack is blank, below it each frame is sound — it has an object, or is the gc's own
  frame at the bottom of a thread outside the pool.  Lemmas show that a call, a return and
  a step of the top frame keep the stacks, then that `Leave`, `Proceed` and `StoreFlag` keep the
  types, then one lemma per group of actions.
* `OneRunner`.  Assuming `~Torn`, `SingleRunner`.  The strengthening `Alone` says that a frame
  that runs an object finds its `state_lock` up and is the only one to do so.  `PlaceKeepsAlone`
  reduces each action to the frame it puts and the locks it lowers: only `Leave` lowers a
  lock, of the object its own frame runs, and that frame was alone.
* `NoEventStranded`, `AppMutexBalanced`, `RightPlace`, `ListenersKnow`, `OneClaimHeld`: the other safety
  invariants of the dispatch, assuming `~Torn`.  They need each other, so one invariant, `Kept`, is inductive
  with the types and `Alone`.  `FrameShape` and `Served` say what a frame is like and what the one that
  runs an object knows of it; `LockUsed` that a raised `state_lock` has such a frame and no claim of the pool
  beside it, and a lowered one leaves no event.  So a worker with the pool's claim never meets a running object,
  and the retraction at `tinyState.cpp:936-937` has nothing to retract.  `Coalesced` relates the queue to its bits;
  `ClaimsAgree` counts the pool's claims; `ToldOrWillBe` finds
  the call that has still to tell the listeners; `Balance` counts the levels of the application mutex.  An action
  outside the event loop moves one frame and at most one of these (`OutsideKeeps`); a turn of the loop
  (`TurnKeeps`) runs a function or leaves, and `Leave` is allowed to lower `state_lock` because it has just found
  the queue empty.  The counts are cardinalities, so each step is shown to add or take one member.
* `ServesInTurn`: each object implements `SerialObject`.  The runner of an object is a `CHOOSE`; `Alone` makes it
  the frame's thread (`RunnerNow`, `RunnerThen`).  Every step is mapped to a step of the abstract object or to a
  stutter, one lemma per group of actions.

`~Torn` says that a store to one bit-field leaves the others of its word alone.  The build does not promise it: run
`flag_word` refutes `SingleRunner` without it.  So these theorems are about the dispatch with that finding
repaired, not about the build as it stands.  All proofs but the types use the assumption; that each of the other
properties also fails without it has not been checked.

`RwMutexProofs`, for any finite set of clients: `TypeInvariant` with `Counted` (what `count`
says of the holders), `NobodySleepsInVain`, and `Implements`, the refinement of `RwLock`.
`Counted` is what turns the code's tests of `count` into statements about holders
(lemma `Guards`); `AsleepForReason` is inductive with it because the only step that lets
`count` reach 0 sends the whole queue on its way to be woken.

`SemaphoreProofs`, under `SemaphoreAssumption` (finitely many clients): `GrantsStayWithinLimit` from
`PermitsAccounted` (the count and the holders account for each other, whoever is queued), and
`PermitsNotLost`.  The latter needs `QueueInv`: a client is queued once, a woken one has been taken off, and
who waits without being woken is queued, so that an empty queue lets nobody sleep.  Each operation then
moves the free permits and the clients on their way to them by the same one (`GetCovers`,
`ReleaseCovers`, ...).  Where a key is inserted does not matter for it.
`TypeInvariant` follows from the two: the queue holds nobody twice, and the holders keep the count from going
below zero.  `ServedByKeyAndTurn` is about where a key is inserted: `OrderInv` says that the keys ascend and that
entries to be served in turn stand as they came, which `came`, a history of who was queued behind whom, records.
`KeyInsertPlaces` counts the entries that stay in front of a new one, and `FirstNumbers` shows that in a sorted
queue these are exactly the first ones.

`RefCountProofs`, under `RefCountAssumption` (finite sets, at least one bucket): `TypeInvariant` and
`NoWorkOverlooked`.  `TInv` is `TypeOK` with `Tree` (a flag names a bucket that exists: else `gc()` would
descend past the last one) and `Shape` (the recursion exists in a sweep only, and a callback that has
run is that of the first event of the top frame).  `WorkIsKnown` is inductive with it.  The argument goes by
the lemmas `Up` and `Down` (parents and children of the heap), and one lemma for each thing a step can do to
the knowledge of a bucket: put work into it and begin to climb (`Releases`), pass the knowledge from climber
to flag, or from flag to the gc thread's frame (`Pushes`, `Descends`), or drop a frame that has nothing to visit.

`NoHandleDangles` proves `CountsHandles` from `CInv`: beside `Counted`, the property of one object with its watch
flag, `Lists` says that no object is on two lists, of buckets or in the hands of the gc thread, or twice on one.
Each operation adds or takes one handle, one entry, or passes an object from list to list (`Among`, `Apart`).

`WorkerProofs` has both parts of `tsThread`.  The pool, under `ThreadPoolAssumption`: `ReactorKept` and `NoWorkerFolded`.  `Phases` says which states of the
pool go with `folded` and with which workers; it is needed because `limitThreadsNumber()` creates
workers in whatever phase of growing or shrinking the pool is.  `TypeInvariant` says that the number of workers the
pool wants stays between zero and the limit.  That is a matter of who sleeps: `Sleeps` and `Noticed` say that
nobody sleeps at a target of zero, and that whoever was called away from sleep has noticed before `DOWN_WAIT` counts
again.  It assumes that some limit is not below `MaxIdle`: the limit is `MAX_INTEGER` until it is set
(`tsThread.cpp:192`).

The interruption, under `ThreadKillAssumption`: `KillTypeInvariant` and `NoStraySignal`.  Both rest on the killer's holding
`lm` from its look at `thrInfo` to the end of `kill()`: the very thing that lets killers cross is what makes
`HandsOff` inductive.

`ReactorProofs`, under `ReactorAssumption`: `NeverOversleeps`.  `Listens` says that a loop in `select()` either has a
byte in the pipe or has `wait_flag` at 0, so that the next registration will write one; the least timeout of
a finite set of times is found with the library's well-founded induction facts.  `TypeInvariant` and
`NothingForgotten` add what is taken off the lists: `Without` numbers the entries that stay, and lemmas say
which these are (`Numbered`, `WithoutLeaves`).

`ListenersProofs`, under `ListenersAssumption`: `TwoEndsAgree`.  `EndsAgree` speaks of registrations nobody has in
hand; the invariant must say what those know who have one in hand.  `LinkedAgree`: a registration that is not cleared
is on its source's list, and on its listener's unless a thread is at work on it.  `ClearedAgree`: a list that
still names a cleared one has a thread on the way to it.  The heart is `Adding`: `add_listener()` keeps the source's `lm`
while it goes to the listener, so whoever removes the registration meanwhile waits at the source
(`RemoveListenerKeeps`) and comes to the listener's list afterwards.  Objects that have begun to end are
excepted: their lists are swept without `lm`.  `Quiet` deals at once with all steps that leave the registrations
of the living alone.

`GcDispatchProofs`, under `GcAssumption` (priorities are integers, and `NoJob` is no job; the sets may be infinite):
`TypeInvariant`, `QueueKept` and `LockedCallersLoseNothing`.  `TypeOK` has the heap in it, and is not inductive.

* `Working` says which nodes a loop may count on, and `OnItsWay` what `Ordered` leaves open where an entry moves:
  while one rises, what lies two levels below the node `_ins()` is at is not less than that node, and one of its
  sides at most may rise; while one sinks, what lies below it is not less than what lies above.  Each of
  `Descend`, `Climb`, `Cut` and `Sink` then has a lemma (`DescendOn`, `DescendEnds`, `ClimbKeeps`, `CutOn`, `CutEnds`,
  `SinkKeeps`).  `CutEnds` is where the counts matter: the code moves `n[1]` of the parent to `n[0]` as it is, and
  by the balance it is a leaf.
* What holds from the top down needs an induction.  A set of places has a least member (`LeastNumber`, from the
  library's well-founded order of the naturals), and the parent of a place is less than it: so a heap without a
  top is empty (`EmptyHeap`), one whose top has no sides has one entry (`LoneTop`), and no key is less than the
  top's (`TopIsLeast`).
* `Distinct`, `Keyed` and `Fresh` say that a job is in one place, with its priority; `Hands` that a caller which
  found the queue empty holds a job that is nowhere else; `GcPlaces` who can be in the queue in which state
  of the gc.  With these each step gives, takes or ends one job of `JobQueue`, closes it, or leaves it alone.
* The exception of `ImplementsJobQueue`, `raced`, comes true only when an entry is stored over another.
  `LockedCallersLoseNothing` shows that it needs a caller without the application mutex: if there is none,
  `GcDispatch` implements `JobQueue` as it stands.

Only model-checked: all liveness properties, since fairness and `ENABLED` are out of the prover's reach.  No safety
property that a passing run checks is left to TLC alone.  The type invariants of `EventHandler`, `Semaphore`,
`RwMutex`, `RefCount` and `ThreadKill`, and `AsleepForReason`, are proved and no longer part of a run.

## Plan

1. `exe()` of callers without the application mutex that overlap in a heap with entries.
2. `waitWrap` of the recursive mutex, and `wait()` and `signal()` of `THR_CATCH`.
3. `filter()`, and the `announce()` and `EBADF` paths of the reactor.

## Not modelled

The repository has 34,000 lines of implementation; the modules stand for the framework's core, where
threads, locks and order decide.  The rest is left out for these reasons:

* files, sockets, processes and signals (`ts2IO*`, `ts2System`, `ts2Parallel`, `tsSignal`): sequences of
  system calls whose outcome the operating system decides; what they ask of the reactor and of
  `stdThreadInfo` is in `Reactor` and `ThreadKill`;
* the Darwin, Cygwin, Linux and MinGW overlays: variants of the posix code that is modelled;
* containers, strings and buffers: sequential data without shared state;
* probes and traces: they change nothing;
* mathematics, the JavaScript port, generators, vendored code: no part of the core;
* within modelled components: what each section above and `PROJECT.json` says.
