# A TLA+ verification of mini-async-runtime

`mini-async-runtime` is a small async runtime for Linux: a single-threaded and a
multi-threaded executor, an epoll reactor with TCP sockets on top, timers, join
handles and an mpsc channel. This directory holds TLA+ models of its parts, the
TLC configurations that check them on small instances, and TLAPS proofs of the
safety properties of every one of them for any number of threads, tasks, timers,
descriptors, handles and clones.

Source paths below are relative to `src/` (so `src/reactor.rs` is the file
`src/src/reactor.rs` of this tree). `PROJECT.json` lists every definition with
the lines it models, every run, the hazards of the code and the findings.

## The system and its parts

| part | code | module | proofs |
|---|---|---|---|
| what an executor promises to futures | (abstract) | `WakeContract` | |
| multi-threaded executor, spawn, shutdown | `src/multi_thread/{executor,task,runtime}.rs` | `Executor` | `ExecutorInvariant`, `ExecutorSteps`, `ExecutorProofs` |
| multi-threaded timers, `sleep` | `src/multi_thread/{timer,executor,runtime}.rs` | `Timers` | `TimersProofs` |
| multi-threaded `block_on`, `JoinHandle` | `src/multi_thread/{task,runtime}.rs` | `Join` | `JoinProofs` |
| reactor and sockets of both runtimes | `src/reactor.rs`, `src/net.rs`, `src/multi_thread/net.rs` | `Reactor` | `ReactorProofs` |
| single-threaded runtime, executor, handles, timers, and the timeout of `Reactor::poll` | `src/{runtime,executor,task,join_handle,timer,reactor}.rs` | `LocalRuntime` | `LocalProofs` |
| channel | `src/channel.rs` | `Channel` | `ChannelProofs` |
| raw wakers of both runtimes, `flag_waker`, task ids, what the runtimes own | `src/{executor,runtime,lib}.rs`, `src/multi_thread/{executor,runtime}.rs` | `Wakers` | `WakersProofs` |
| re-exports, tests, examples, benches | `src/lib.rs`, `examples/`, `benches/` | not modelled | |

How they interact. Futures only see wakers and polls. `WakeContract` states what
they may rely on: a wake is answered by a poll that begins after it, one thread
polls a task at a time, a finished task is not polled again. `Executor` and
`LocalRuntime` are shown to implement it. `Timers`, `Join`, `Channel`, `Reactor`
and `Wakers` run their tasks on it (`Sched == INSTANCE WakeContract`), so each of
them is checked against every schedule that either executor may produce. The
other way round, what timers and sockets do to the executor is to wake tasks
while a worker drives, which `Executor` allows at any moment it can happen.

## The models

**Executor.** One program counter per thread; one step is one critical section,
one atomic access or one system call. `enqueue_task` is four steps (push, read of
`driver_token`, eventfd write, `notify_one`), as is the tail of `poll_task`.
`wake_by_ref_impl` is one step, since an iteration whose compare-exchange fails
has no effect. The only critical section longer than a step is that of a worker
about to wait on the condvar (`QueueUnlocked`). A future inside `poll` may wake any
task whose waker was handed out, spawn, sleep and return Pending or be done; a
panic and `Ready` take the same path through `poll_task`. Clients may do the same
from outside and shut the runtime down. The eventfd is a Boolean, since a
counter that is not zero is all that level-triggered epoll reports.

**Timers.** Sleepers register a timer, poke the eventfd, and run `Sleep::poll` load
by load. The driver runs `drive_io`: `process`, `epoll_wait`, `process`. `AtomicWaker`
is modelled by its claim and its release. Time is relative: `left` counts down to
a deadline, so there is no bound on the length of a behaviour. `late` is the time
between reading the clock and blocking, which no timeout can account for.

**Join.** `TaskState` of each spawned task, `JoinHandle::poll` and the end of
`wrap_future_with_state` under their mutex, the result slot of `block_on` with its
condvar (spurious wake-ups included), and panics.

**Channel.** Every operation borrows the `RefCell` from its first to its last
statement on one thread, so it is one action. The n-th value sent is n.

**Reactor.** The kernel's interest list with `EPOLLET | EPOLLONESHOT`, the map of
registrations, and tasks that open sockets (`Bind`, `Connect`, or a successful
`Accept`), try an operation, register and are retried, or fail. `Reactor::poll` is
the call and three steps (wait without the lock, collect and re-arm under it, wake
without it); `epoll_wait` may return nothing, as after its timeout. `deregister` and
close are three steps. Descriptor numbers are used again.
`epoll_ctl` may fail on registration, and on a re-arm when the descriptor has left
the interest list. `Shared` lets tasks accept on each other's listeners.

**LocalRuntime.** The loop of `block_on` step by step. `spawn` and `sleep` need the
runtime, which `block_on` borrows mutably, so they happen between two calls. A
future may be given one `Sleep` and the `JoinHandle` of one other task; the root's
handle is awaited by `block_on`, with `Caller` standing for its `flag_waker`.
`TimeoutMs` is the conversion of `Reactor::poll` from a `Duration` to the `c_int` of
`epoll_wait`, rounding up and clamping; `UnitsPerMs` scales the nanoseconds of a
millisecond and `MaxMs` stands for `i32::MAX`. A panic that leaves `block_on` unwinds
`tick` and drops the ids it had drained; the history variable `lost` holds them, so
that `WaiterQueued` and `KeepsWakeContract` state what is promised to all others. A
future that has panicked stays in the map (`poisoned`) and panics again when polled.

**Wakers.** What the vtables do by hand: which box the pointer in a `Waker` leads to,
whether the box is allocated, the id in it, and the strong counts of the `Rc` of
the ready queue, of the `Arc` of `SharedState` and of the flag of `block_on`. Both
runtimes run in one process and draw ids from one counter. A `Waker` is that of a
`Task`, or a clone, which may be woken, woken by reference or dropped by anybody at
any time: while its task is polled, after it has finished, after a `block_on` has
unwound from a panic, and after its runtime is gone. `Free` on a box that is free
already, or a use of one, would show as a violation of `WakersSound`. A future that
panics drops its side of the `TaskState`, and a clone of `flag_waker` in it; a root
that another task's panic leaves behind keeps its clone.

Memory orderings are abstracted to sequential consistency. Where the code relies
on more than the single atomic's order it goes through the queue's mutex, whose
order the models have; the `Relaxed` read of `shutdown` may be delayed on hardware,
which only adds delay.

## The runs

| run | instance | shows |
|---|---|---|
| `executor_safety` | 2 workers, 1 client, 2 tasks | `ExclusivePoll`, `OneTicket`, `SoleDriver`, `WorkConserving`, `ActiveExact`, and `KeepsWakeContract`: refinement of `WakeContract` |
| `executor_live` | same; one task spawned, the client only shuts down | `OwedTaskRuns` and `DriverComes` with no timeout, `ShutdownReturns` with timeouts |
| `timers` | 2 sleepers, delays 0..2 | `NeverEarly`, `CellExclusive`, `NoMissedWake`, `InWheel`, `DriverWakesInTime`, `SleepResolves` |
| `join` | root and 2 tasks, panics | `JoinNotMissed`, `CallerSignalled`, `BlockOnCompletes` |
| `channel` | 3 handles, 4 values | `InOrder`, `CountExact`, `ReceiverWoken`, `NoneIsLast`, `AllReceived` |
| `reactor` | 2 tasks, 1 descriptor, failing calls | `MapMatchesKernel`, `NoSideStranded`, `TaskNotForgotten`, `Resumed` |
| `local` | 2 tasks, delays 0..2, 2 units a millisecond, at most 3 ms, panics | `TypeOK`, `NeverGivesUp`, `ParksUnresolved`, `ParksInTime`, `NeverSpins`, `WaiterQueued`, `KeepsWakeContract` with double polls, `QueuedTaskRuns`, `ReturnsWhenQuiet` |
| `wakers` | 2 tasks of `Runtime` and 1 of `MultiThreadRuntime`, 1 worker, 2 clones, 5 addresses | `WakersSound`, `BoxesOwned`, `StrongExact`, `FlagExact` |

`TypeOK` of the other modules is not part of a run: it is proved. In `local` it is
checked as well, since it also says that no id is twice in the ready queue.

Four runs are expected to fail, and show where the code does something else than
its comments say:

| run | the comment | what happens |
|---|---|---|
| `join_panic` | `catch_unwind` so that a panicking task does not "potentially hang `block_on`" (`src/multi_thread/executor.rs:315`) | a panic stores no result and wakes nobody; `block_on` parks for ever |
| `executor_stop` | "Wake workers sleeping on condvar.", "Wake the driver if it is blocked in epoll_wait." (`src/multi_thread/runtime.rs:160`, `:162`) | `notify_all` without the mutex is missed by a worker about to wait, and a poke drained by one driver is missed by the next; `shutdown` waits for a timeout |
| `reactor_shared` | "the task will yield until the reactor signals readability" (`src/net.rs:68`) | a second `accept` on a listener replaces the waker of the first |
| `local_busy` | "blocks the current thread until `future` resolves" (`src/runtime.rs:111`) | a task that keeps waking itself keeps `while tick() {}` going |

Three more observations have no run of their own:

- The comment of `drive_io` (`src/multi_thread/executor.rs:352`) says it blocks
  indefinitely without timers, the code waits for at most 5 ms (`:368`).
- A worker drives only when it finds the ready queue empty, and `Runtime` calls
  `Reactor::poll` only then. As many self-waking tasks as there are workers, or one
  on `Runtime`, leave timers and sockets unserved for ever, although `sleep` is said to resolve "after
  `duration`" (`src/multi_thread/runtime.rs:95`, `src/runtime.rs:69`) and `accept` to
  yield "until the reactor signals readability" (`src/net.rs:68`). It is the pattern
  of `local_busy`. `SleepResolves` and `Resumed` name the condition, and fail without it.
- Tasks that are in `SharedState::tasks` when the workers return are never freed, nor
  is `SharedState`: the theorem `LeftoversAreKept`. No doc or comment says otherwise.

### Bounds

Two workers are enough for every race of the executor between a driver and a
sleeper; with the client there are three threads that push. Two tasks let one be
woken by the other while it is polled, queued or finished. The theorems lift
those bounds for all safety properties. `MaxDelay` 2 lets a timer be
registered with a deadline before, at and after that of another and before the
driver's timeouts; the idle timeout of 5 ms is kept as it is. In `local` it is 10
units, which `MaxMs` clamps, and delays of 1 need rounding. In `Reactor` every
opening of the one descriptor but the first is a reuse; batches of events of
several descriptors, and more ready descriptors than `MaxEvents`, are covered by
the theorems, which hold for any of them, and not by the run of `Resumed`. In
`wakers` there is an address for each `Waker` that can exist, so allocation never
fails, and a freed one is used again. That run uses symmetry in addresses and
clones: no definition tells them apart, and it checks invariants only.

### Fairness

- `Executor`: a thread in the runtime's code keeps running, and one that competes
  for the queue mutex gets it in the end (strong fairness, as the operating
  system's futex queue gives no more than that); polls return and the wake
  loops of the driver are finite. `OwedTaskRuns` and `DriverComes` need no timeout.
  `ShutdownReturns` needs those of `epoll_wait` and of the condvar, which are finite in the code.
- `Timers`: time passes, tasks that are owed a poll get it, and a worker that drives
  goes on. That a worker begins to drive is not assumed. `SleepResolves` says it as
  its own condition, `[]<>(dpc # "off")`: if workers drive again and again, an awaited
  sleep resolves. `DriverComes` of `Executor` gives that condition for a queue that
  runs empty; it is a condition on the load otherwise.
- `Join`: besides the scheduler, a future that can finish does not yield for ever.
  `BlockOnCompletes` excuses `block_on` when a future has panicked, and `join_panic`
  shows that it has to.
- `Channel`: the receiving task goes on receiving. This presumes that `block_on` keeps
  running and that no panic has dropped the receiver's id from the ready queue.
- `Reactor`: tasks that are owed a poll get it, a thread inside `Reactor::poll` goes on,
  and the kernel does not pass over a ready descriptor in one `epoll_wait` after
  another. That anybody calls `Reactor::poll` is not assumed: as in `Timers`, `Resumed`
  has the condition that it is called again and again.
- `LocalRuntime`: the thread runs, time passes, polls end. `ReturnsWhenQuiet` adds that
  the queue runs empty again and again, and `local_busy` shows that it has to.

## What is proved

Every theorem of a component is `Spec => []P`, or `Spec => P` for an action property
or a refinement (`KeepsWakeContract`), under the `ConstAssumption` of its module. Each
rests on an inductive invariant `IInv`, which was checked with TLC and is proved by a lemma
per conjunct with a step per action (`Invariance`). `TypeCorrect` proves `TypeOK`.

The theorems fall in two groups. Those of the first state a property that a run
checks, and lift its bounds. Those of the second go beyond the runs: their
properties are defined beside the proofs (for the executor in `ExecutorInvariant`),
follow from the same `IInv`, and no run checks them.

### Executor

`ExecutorProofs` proves, for any finite sets of workers and clients and any set
of tasks (`ConstAssumption`: there is a worker, workers and clients are disjoint,
`NoTask` is no task):

| theorem | statement |
|---|---|
| `Invariance` | `Spec => []IInv` |
| `TypeCorrect`, `PollIsExclusive`, `TicketsAreUnique`, `DriverIsSole`, `ActiveIsExact`, `NoWorkIsLeft` | `Spec => []P` for `TypeOK`, `ExclusivePoll`, `OneTicket`, `SoleDriver`, `ActiveExact`, `WorkConserving` |
| `ContractIsKept` | `Spec => KeepsWakeContract` |

and beyond the runs:

| theorem | statement |
|---|---|
| `ChecksNeverFail` | `poll_task` finds the task it dequeued in the map, its compare-exchanges meet the state they expect, and the pending set rejects no push: these branches are dead code |
| `QueueIsBounded` | the ready queue is never longer than the map of live tasks |
| `OwedIsNeverLost` | a wake-up not yet answered is a queue entry, a thread that carries the task, or the worker inside the poll it interrupted |
| `RestMeansDone` | before shutdown, when every worker is blocked and no client is inside `spawn` or a wake, no task is owed a poll |
| `ExitIsClean` | when the workers have exited nobody polls, drives or waits, and each live task is IDLE or has its ticket |
| `StoppedForGood` | after that no task is polled, finishes or leaves the queue, whatever clients spawn and wake |

`RestMeansDone` is what remains of `OwedTaskRuns` when progress is taken away.

None of these properties is inductive. `IInv` is the conjunction of

- `TypeOK`;
- `Scopes`: which local variables are set at which program point;
- `Tickets`: `OneTicket`, and `pending` is the set of queued ids;
- `Owners`: a task that a worker has claimed is RUNNING or NOTIFIED, and no other
  worker has claimed it;
- `Claimed`: a RUNNING or NOTIFIED task has been handed to a worker, which still has
  it while it is in the map;
- `Exits`: a worker leaves its loop only after shutdown;
- `Mapped`: a task is in the map from its insertion to its completion;
- `Driver`: `token` is set exactly while a worker is in the code it guards, that
  worker is alone, and from its re-check until it leaves `epoll_wait` a queue that
  is not empty means that the eventfd is set or a push is about to set it;
- `Counted`: `ActiveExact`, and the map is finite;
- `Parked`: who is in `waiting` is asleep, and a worker about to wait has seen the
  queue empty and holds its mutex;
- `Staffed`: while somebody waits on the condvar, the queue is no longer than the
  number of workers that will look at it plus the number of pushes still to be
  announced.

`Driver` is the argument of the comment in `run_worker` on the re-check after the
token's compare-exchange: a push is either seen by the re-check or sees the token
and pokes the eventfd. `Staffed` is why one `notify_one` per push is enough, although
a notified worker may find the queue emptied by another: it counts, which the
property it serves, `WorkConserving`, does not. `ExecutorInvariant` defines `IInv`,
`ExecutorSteps` has the lemmas on the conjuncts that are about tasks, and
`ExecutorProofs` those about who drives, waits and looks, and the theorems. They are
separate modules because the prover slows down with every obligation of one; for
the same reason every proof module makes Zenon the default, with a minute for a leaf
(`USE ZenonT(60)`), and cites SMT where it is needed. For the
refinement, each action is shown to map to one action of `WakeContract` or to a stuttering step.

### The single-threaded runtime

`LocalProofs` proves all safety properties of the run `local`, for any set of tasks,
any `MaxDelay`, any number of units in a millisecond and any `MaxMs`
(`ConstAssumption`: the last two are not zero; `NoTask` and `Caller` are no tasks).
Panics of any future at any poll are part of it.

| theorem | statement |
|---|---|
| `Invariance` | `Spec => []IInv` |
| `TypeCorrect`, `RootIsNeverLost`, `FlagIsNotLost`, `ParkingIsBounded`, `WaitersAreQueued` | `Spec => []P` for `TypeOK`, `NeverGivesUp`, `ParksUnresolved`, `ParksInTime`, `WaiterQueued` |
| `ParkingBlocks` | `Spec => NeverSpins` |
| `ContractIsKept` | `Spec => KeepsWakeContract` |
| `LastLookUnreached` | when `block_on` comes to its step 6 the root is still in the map, and every timer in the heap has a deadline that `process` has returned |
| `NextLookReturns` | once the result of the root is there, `block_on` does not block and returns from its next look at the handle |
| `PolledInOrder` | the ids that `tick` has drained, followed by the ready queue, are one line: ids join at its end and leave at its head, and only a panic drops any |
| `TickPollsOnce` | a tick polls no task twice |
| `ParksWhenIdle` | when `block_on` blocks in the reactor no id is queued and no entry due, and every waiting task, but those whose id a panic dropped, has its waker where its event will find it |

The last five theorems of the table go beyond the runs.

`IInv` is the conjunction of

- `TypeOK`, which includes that no id is twice in the ready queue;
- `Places`: where in the loop a task is polled, ids are drained and timers are due;
- `OneOwner`: a `JoinHandle` belongs to the caller, to one future or to `block_on`, so
  nobody replaces the waker in it or takes its result from another;
- `StoredLast`: a result is stored by the last poll of its task, and `tick` removes
  the task before it polls another;
- `RootReturns`: the root is in the map or its result is stored. When it is stored
  the flag is set, and `block_on` has not yet gone past its look at the handle; while
  the flag is not set, the waker in the root's handle is the one that sets it;
- `Deadlines`: after `process`, what it returned bounds every deadline that is not
  due, to within the time since it read the clock;
- `Waiting`: a task that waits is in the map and not being polled, its timer has its
  waker until it fires, and `WaiterQueued`.

`RootReturns` is the argument for the flag of `block_on`, which is cleared before the
handle is polled: a completion after that sets it again through the waker that this
poll stored. It follows that two pieces of `block_on` are dead code, which
`LastLookUnreached` states: the final attempt with its panic
(`src/runtime.rs:187`), and the fallback to a millisecond when timers are pending
and `process` returned nothing (`:169`). `ParksInTime` and `NeverSpins` rest on two
lemmas: `TimeoutMs` maps a duration that is not zero to a time that is not zero and
exceeds it by less than a millisecond (`TimeoutRounds`), and `block_on` never asks for
a duration of zero (`TimeoutPositive`). `NextLookReturns` and `PolledInOrder`
are what remains of `ReturnsWhenQuiet` and `QueuedTaskRuns` when progress is taken
away; TLC checks both whole.

### The other components

| module | theorems | for any | what makes `IInv` inductive |
|---|---|---|---|
| `TimersProofs` | `NoSleepIsEarly`, `CellsAreExclusive`, `NoWakeIsMissed`, `WheelIsExact`, `DriverIsInTime` | sleepers, delays | `WakerKept`: from its registration until the driver takes it, the waker of a sleeper whose timer has not completed is in the cell; `NextDue`: what `process` will return is no later than the deadlines it has seen, and a timer it has not seen has its poke still to come |
| `JoinProofs` | `NoResultIsMissed`, `CallerIsSignalled` | tasks | `Registered`: from the moment a poll of a handle finds no result, until it is woken, the waker is in the `TaskState`; `ResultsKept`, the property of `ResultsAreKept` |
| `ChannelProofs` | `ValuesInOrder`, `CountIsExact`, `ReceiverIsWoken`, `NoneComesLast` | finite set of handles, number of values | `Listening`: a receiver that found nothing and was not woken has its waker in the channel, and there is nothing to say; `Places`: the receiver is dropped exactly when its task has finished |
| `ReactorProofs` | `MapIsExact`, `NobodyIsStranded`, and, if tasks do not share listeners, `TasksAreKnown` | tasks, descriptors, length of the event array | `Known`: a task that has registered and not been woken has its waker in the map or among those being woken; `Places` and `Owned`: a socket that is awaited is open, one that is being dropped is awaited by nobody else; `Leaving`: a socket that `deregister` is about to delete is in the interest list; `OwnWakers`: without sharing, the wakers of a socket are its owner's |
| `WakersProofs` | `WakersAreSound`, `BoxesAreOwned`, `StrongCountsAreExact`, `FlagCountsAreExact` | tasks, clones, workers (finite), addresses | `Lifetimes`: the `Waker` of a `Task` exists while the `Task` is in the map or polled; `Ids`: the counter is ahead of every id; `Places`: a poll on `Runtime` happens inside `block_on`, one at a time; `LocalGone`: a dropped `Runtime` has no tasks and no flags; `WorkersSuffice`: there are at least as many workers as polls |

and beyond the runs:

| module | theorem | statement |
|---|---|---|
| `TimersProofs` | `TimersFireOnce` | no timer fires twice, nor after its `Sleep` has resolved |
| | `TakeNeverMisses` | `AtomicWaker::wake` claims a cell only when there is a waker in it |
| | `ShortTimeoutIsRight` | when `process` reports no deadline although timers exist, they are all in the inbox and their poke is there or about to come |
| `JoinProofs` | `ResultsAreKept` | the result of a task that has run to its end is in its `TaskState` until its handle has returned it, and not after; that of the root is in the slot until `block_on` has returned it |
| | `OwnersTakeResults` | only a poll by the task that called `spawn` takes a result, and no result is stored over another or stored again |
| `ChannelProofs` | `EndIsFinal` | after `recv` has returned `None`, or the receiver is dropped, no value is accepted, buffered or received |
| `ReactorProofs` | `EpollCtlNeverMisses` | the choice of `register` between ADD and MOD, the MOD of `poll` and the DEL of `deregister` fit the interest list |
| | `WakersAreAccounted` | a waker leaves the map only to be called, replaced by a `register` for the same direction, or dropped with its socket |
| | `WakersAreNotLost` | if tasks do not share listeners, it leaves only to be called or because its own task drops the socket |
| `WakersProofs` | `CountsGuardLifetimes` | no strong count becomes negative, and each is zero exactly when no owner is left |
| | `LocalIsFreed` | a dropped `Runtime`, once the clones of its wakers are gone, leaves no queue, box or flag, even if panics had unwound `block_on` |
| | `WakesReachTheirTask` | a task comes to be owed a poll only by its spawn or by the use of a `Waker` made for it |
| | `LeftoversAreKept` | a task that is in `SharedState::tasks` when the workers have returned stays there and keeps `SharedState` alive |

The premise of `TasksAreKnown` and of `WakersAreNotLost` is needed: `reactor_shared`
shows what happens otherwise. `LeftoversAreKept` is about a cycle of counted
references: a `Task` in the map owns its `Waker`, the `Waker` owns `SharedState`, and
that owns the map, which nobody empties once the workers are gone.

Only model-checked: liveness (`OwedTaskRuns`, `DriverComes`, `ShutdownReturns`,
`SleepResolves`, `BlockOnCompletes`, `AllReceived`, `Resumed`, `QueuedTaskRuns`,
`ReturnsWhenQuiet`). It needs fairness, and so `ENABLED`, about which the prover cannot
reason. Every other property of a run that is expected to pass is proved.

## What is not modelled

- Bytes and addresses: what is read, written, resolved or formatted. A socket
  operation succeeds, would block or fails.
- Overflow of `NEXT_TASK_ID`, a 64-bit counter, and of reference counts.
- A `Sleep` or a handle that moves from one task to another between polls, and
  futures that poll several of them at once.
- A runtime that is dropped, or shut down, by its own workers.
- A `shutdown` by another thread during `block_on` of `MultiThreadRuntime`: `Join` has
  no shutdown. `StoppedForGood` shows that a root which has not finished when the
  workers exit is polled no more, so that `block_on` waits for ever.
- Memory orderings weaker than sequential consistency (end of "The models").
- The composition of `Executor` and `Timers` in one state space: each of them is
  checked against what the other may do. A ready queue that never empties is the
  case which the condition of `SleepResolves` and of `Resumed` leaves out.
- `lib.rs` and `multi_thread/mod.rs` beyond `next_task_id`, which are re-exports and
  tests.
