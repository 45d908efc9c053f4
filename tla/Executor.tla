------------------------------ MODULE Executor ------------------------------
(***************************************************************************)
(* The multi-threaded executor: the shared ready queue, the atomic task    *)
(* state machine, the wakers, the worker loop with its I/O-driver election *)
(* and condvar parking, and runtime shutdown (src/multi_thread/executor.rs,*)
(* task.rs and runtime.rs).                                                *)
(*                                                                         *)
(* Every thread has a program counter.  A step is one critical section of  *)
(* a mutex, one atomic access or one system call.  What a future does      *)
(* inside poll is arbitrary: it may wake any task whose waker has been     *)
(* handed out, spawn tasks, create timers and then return.  What expired   *)
(* timers and ready sockets do inside the driver is to wake tasks.         *)
(***************************************************************************)
EXTENDS Integers, Sequences, FiniteSets

CONSTANTS
  Worker,   \* the threads started by MultiThreadRuntime::new
  Client,   \* other threads that hold the runtime or wakers
  Task,     \* the tasks that may be spawned
  NoTask    \* the value of an unset task variable

Thread == Worker \cup Client

ASSUME ConstAssumption ==
  /\ Worker # {} /\ IsFiniteSet(Worker) /\ IsFiniteSet(Client)
  /\ Worker \cap Client = {}
  /\ NoTask \notin Task

VARIABLES
  tasks,     \* SharedState::tasks, the ids in the map
  active,    \* SharedState::active_count
  state,     \* Task::state of each task; FRESH before Task::new
  handed,    \* tasks whose waker some poll has handed out
  queue,     \* ReadyQueue::queue
  pending,   \* ReadyQueue::pending
  token,     \* SharedState::driver_token
  eventfd,   \* Reactor::wake_fd: TRUE iff its counter is not zero
  shutdown,  \* SharedState::shutdown
  waiting,   \* workers asleep on SharedState::condvar and not notified
  pc,        \* where each thread is
  cur,       \* the task_id of run_worker and poll_task
  arg,       \* the task_id of spawn and enqueue_task
  ret        \* where enqueue_task returns to

taskVars   == <<tasks, active, state, handed>>
queueVars  == <<queue, pending>>
driverVars == <<token, eventfd>>
parkVars   == <<shutdown, waiting>>
callVars   == <<arg, ret>>
vars == <<taskVars, queueVars, driverVars, parkVars, pc, cur, callVars>>

FRESH     == "fresh"
IDLE      == "idle"
SCHEDULED == "scheduled"
RUNNING   == "running"
NOTIFIED  == "notified"

TaskStates == {FRESH, IDLE, SCHEDULED, RUNNING, NOTIFIED}

(* Where a worker may be inside run_worker, poll_task and drive_io.  At    *)
(* "wait" it holds the ready-queue mutex.                                  *)
WorkerPc ==
  {"top", "dequeue", "lookup", "claim", "poll", "pending", "resched", "done",
   "uncount", "announce", "elect", "recheck", "process", "epoll", "drain",
   "events", "release", "sleep", "wait", "asleep", "exit"}

(* Where a client may be: between calls, or inside shutdown.               *)
ClientPc == {"outside", "shut_notify", "shut_poke", "join"}

(* Where any thread may be inside spawn and enqueue_task.                  *)
CallPc == {"insert", "count", "push", "peek", "poke", "notify"}

ReturnPc == {"poll", "process", "events", "outside", "top"}

Init ==
  /\ tasks = {}
  /\ active = 0
  /\ state = [t \in Task |-> FRESH]
  /\ handed = {}
  /\ queue = <<>>
  /\ pending = {}
  /\ token = FALSE
  /\ eventfd = FALSE
  /\ shutdown = FALSE
  /\ waiting = {}
  /\ pc = [a \in Thread |-> IF a \in Worker THEN "top" ELSE "outside"]
  /\ cur = [a \in Thread |-> NoTask]
  /\ arg = [a \in Thread |-> NoTask]
  /\ ret = [a \in Thread |-> "top"]

-----------------------------------------------------------------------------
(* Shared primitives.                                                      *)

At(a, l) == pc[a] = l
Goto(a, l) == pc' = [pc EXCEPT ![a] = l]

(* The ready-queue mutex is free: the only critical section longer than a  *)
(* step is the one of a worker about to wait on the condvar.               *)
QueueUnlocked == \A w \in Worker : pc[w] # "wait"

(* Condvar::notify_one and notify_all; no effect when nobody waits.        *)
NotifyOne ==
  IF waiting = {} THEN UNCHANGED waiting
                  ELSE \E w \in waiting : waiting' = waiting \ {w}

NotifyAll == waiting' = {}

(* Call a function of SharedState on task t from program point back.       *)
Call(a, entry, t, back) ==
  /\ pc' = [pc EXCEPT ![a] = entry]
  /\ arg' = [arg EXCEPT ![a] = t]
  /\ ret' = [ret EXCEPT ![a] = back]

-----------------------------------------------------------------------------
(* SharedState::enqueue_task.                                              *)

EnqueuePush(a) ==
  /\ At(a, "push")
  /\ QueueUnlocked
  /\ queue' = IF arg[a] \in pending THEN queue ELSE Append(queue, arg[a])
  /\ pending' = pending \cup {arg[a]}
  /\ Goto(a, "peek")
  /\ UNCHANGED <<taskVars, driverVars, parkVars, cur, callVars>>

EnqueuePeek(a) ==
  /\ At(a, "peek")
  /\ Goto(a, IF token THEN "poke" ELSE "notify")
  /\ UNCHANGED <<taskVars, queueVars, driverVars, parkVars, cur, callVars>>

EnqueuePoke(a) ==
  /\ At(a, "poke")
  /\ eventfd' = TRUE
  /\ Goto(a, "notify")
  /\ UNCHANGED <<taskVars, queueVars, token, parkVars, cur, callVars>>

EnqueueNotify(a) ==
  /\ At(a, "notify")
  /\ NotifyOne
  /\ Goto(a, ret[a])
  /\ arg' = [arg EXCEPT ![a] = NoTask]
  /\ ret' = [ret EXCEPT ![a] = "top"]
  /\ UNCHANGED <<taskVars, queueVars, driverVars, shutdown, cur>>

EnqueueTask(a) ==
  EnqueuePush(a) \/ EnqueuePeek(a) \/ EnqueuePoke(a) \/ EnqueueNotify(a)

-----------------------------------------------------------------------------
(* What a thread does through the public API or through a waker.           *)

(* Program points at which user code, a timer or the reactor may wake.     *)
MayWake == {"poll", "process", "events", "outside"}

(* Program points at which user code runs.                                 *)
UserCode == {"poll", "outside"}

(* Mutant: a task woken while it runs is enqueued at once.                 *)
WakeEnqueuesRunning(a, t) ==
  /\ pc[a] \in MayWake
  /\ t \in handed
  /\ IF state[t] \in {IDLE, RUNNING}
       THEN /\ state' = [state EXCEPT ![t] = SCHEDULED]
            /\ Call(a, "push", t, pc[a])
       ELSE UNCHANGED <<state, pc, callVars>>
  /\ UNCHANGED <<tasks, active, handed, queueVars, driverVars, parkVars, cur>>

(* wake_by_ref_impl.  The load and the compare-exchange are one step: an   *)
(* iteration whose compare-exchange fails has no effect and is repeated.   *)
Wake(a, t) ==
  /\ pc[a] \in MayWake
  /\ t \in handed
  /\ state' = [state EXCEPT ![t] = IF @ = IDLE THEN SCHEDULED ELSE
                                   IF @ = RUNNING THEN NOTIFIED ELSE @]
  /\ IF state[t] = IDLE THEN Call(a, "push", t, pc[a])
                        ELSE UNCHANGED <<pc, callVars>>
  /\ UNCHANGED <<tasks, active, handed, queueVars, driverVars, parkVars, cur>>

(* MultiThreadRuntime::spawn and the first half of block_on: the task is   *)
(* built in state SCHEDULED and given to SharedState::spawn.               *)
Spawn(a, t) ==
  /\ pc[a] \in UserCode
  /\ state[t] = FRESH
  /\ state' = [state EXCEPT ![t] = SCHEDULED]
  /\ Call(a, "insert", t, pc[a])
  /\ UNCHANGED <<tasks, active, handed, queueVars, driverVars, parkVars, cur>>

SpawnInsert(a) ==
  /\ At(a, "insert")
  /\ tasks' = tasks \cup {arg[a]}
  /\ Goto(a, "count")
  /\ UNCHANGED <<active, state, handed, queueVars, driverVars, parkVars, cur,
                 callVars>>

SpawnCount(a) ==
  /\ At(a, "count")
  /\ active' = active + 1
  /\ Goto(a, "push")
  /\ UNCHANGED <<tasks, state, handed, queueVars, driverVars, parkVars, cur,
                 callVars>>

(* MultiThreadRuntime::sleep, as far as the executor sees it: the poke of  *)
(* the reactor after the timer is registered.                              *)
Sleep(a) ==
  /\ pc[a] \in UserCode
  /\ eventfd' = TRUE
  /\ UNCHANGED <<taskVars, queueVars, token, parkVars, pc, cur, callVars>>

(* MultiThreadRuntime::shutdown, called by a client.                       *)
ShutdownStore(c) ==
  /\ At(c, "outside")
  /\ shutdown' = TRUE
  /\ Goto(c, "shut_notify")
  /\ UNCHANGED <<taskVars, queueVars, driverVars, waiting, cur, callVars>>

ShutdownNotify(c) ==
  /\ At(c, "shut_notify")
  /\ NotifyAll
  /\ Goto(c, "shut_poke")
  /\ UNCHANGED <<taskVars, queueVars, driverVars, shutdown, cur, callVars>>

ShutdownPoke(c) ==
  /\ At(c, "shut_poke")
  /\ eventfd' = TRUE
  /\ Goto(c, "join")
  /\ UNCHANGED <<taskVars, queueVars, token, parkVars, cur, callVars>>

ShutdownJoin(c) ==
  /\ At(c, "join")
  /\ \A w \in Worker : At(w, "exit")
  /\ Goto(c, "outside")
  /\ UNCHANGED <<taskVars, queueVars, driverVars, parkVars, cur, callVars>>

-----------------------------------------------------------------------------
(* run_worker.                                                             *)

(* Mutant: a busy or driving worker never looks at shutdown.               *)
CheckShutdownSkipped(w) ==
  /\ At(w, "top")
  /\ Goto(w, "dequeue")
  /\ UNCHANGED <<taskVars, queueVars, driverVars, parkVars, cur, callVars>>

CheckShutdown(w) ==
  /\ At(w, "top")
  /\ Goto(w, IF shutdown THEN "exit" ELSE "dequeue")
  /\ UNCHANGED <<taskVars, queueVars, driverVars, parkVars, cur, callVars>>

(* Mutant: the newest entry is taken first.                                *)
DequeueNewest(w) ==
  /\ At(w, "dequeue")
  /\ QueueUnlocked
  /\ IF queue = <<>>
       THEN Goto(w, "elect") /\ UNCHANGED <<queueVars, cur>>
       ELSE LET t == queue[Len(queue)] IN
            /\ queue' = SubSeq(queue, 1, Len(queue) - 1)
            /\ pending' = pending \ {t}
            /\ cur' = [cur EXCEPT ![w] = t]
            /\ Goto(w, "lookup")
  /\ UNCHANGED <<taskVars, driverVars, parkVars, callVars>>

Dequeue(w) ==
  /\ At(w, "dequeue")
  /\ QueueUnlocked
  /\ IF queue = <<>>
       THEN Goto(w, "elect") /\ UNCHANGED <<queueVars, cur>>
       ELSE /\ queue' = Tail(queue)
            /\ pending' = pending \ {Head(queue)}
            /\ cur' = [cur EXCEPT ![w] = Head(queue)]
            /\ Goto(w, "lookup")
  /\ UNCHANGED <<taskVars, driverVars, parkVars, callVars>>

(* Mutant: the token is stored, not compared and exchanged.                *)
ElectStore(w) ==
  /\ At(w, "elect")
  /\ token' = TRUE
  /\ Goto(w, "recheck")
  /\ UNCHANGED <<taskVars, queueVars, eventfd, parkVars, cur, callVars>>

Elect(w) ==
  /\ At(w, "elect")
  /\ token' = TRUE
  /\ Goto(w, IF token THEN "sleep" ELSE "recheck")
  /\ UNCHANGED <<taskVars, queueVars, eventfd, parkVars, cur, callVars>>

(* Mutant: the queue is not looked at again.                               *)
RecheckSkipped(w) ==
  /\ At(w, "recheck")
  /\ Goto(w, "process")
  /\ UNCHANGED <<taskVars, queueVars, driverVars, parkVars, cur, callVars>>

Recheck(w) ==
  /\ At(w, "recheck")
  /\ QueueUnlocked
  /\ Goto(w, IF queue = <<>> THEN "process" ELSE "release")
  /\ UNCHANGED <<taskVars, queueVars, driverVars, parkVars, cur, callVars>>

(* Mutant: the token is kept.                                              *)
ReleaseTokenKept(w) ==
  /\ At(w, "release")
  /\ Goto(w, "top")
  /\ UNCHANGED <<taskVars, queueVars, driverVars, parkVars, cur, callVars>>

ReleaseToken(w) ==
  /\ At(w, "release")
  /\ token' = FALSE
  /\ Goto(w, "top")
  /\ UNCHANGED <<taskVars, queueVars, eventfd, parkVars, cur, callVars>>

(* Step 3 of the loop.  The worker locks the queue, reads it and reads     *)
(* shutdown; it goes to "wait" with the mutex still held.                  *)
PrepareSleep(w) ==
  /\ At(w, "sleep")
  /\ QueueUnlocked
  /\ Goto(w, IF queue # <<>> THEN "top" ELSE
             IF shutdown THEN "exit" ELSE "wait")
  /\ UNCHANGED <<taskVars, queueVars, driverVars, parkVars, cur, callVars>>

(* Condvar::wait_timeout: release the mutex and sleep in one step ...      *)
CondvarWait(w) ==
  /\ At(w, "wait")
  /\ waiting' = waiting \cup {w}
  /\ Goto(w, "asleep")
  /\ UNCHANGED <<taskVars, queueVars, driverVars, shutdown, cur, callVars>>

(* ... until 100ms have passed, or spuriously ...                          *)
CondvarTimeout(w) ==
  /\ At(w, "asleep")
  /\ w \in waiting
  /\ waiting' = waiting \ {w}
  /\ UNCHANGED <<taskVars, queueVars, driverVars, shutdown, pc, cur, callVars>>

(* ... and lock it again once woken; the guard is dropped at once.         *)
CondvarReturn(w) ==
  /\ At(w, "asleep")
  /\ w \notin waiting
  /\ QueueUnlocked
  /\ Goto(w, "top")
  /\ UNCHANGED <<taskVars, queueVars, driverVars, parkVars, cur, callVars>>

-----------------------------------------------------------------------------
(* poll_task.                                                              *)

PollLookup(w) ==
  /\ At(w, "lookup")
  /\ Goto(w, IF cur[w] \in tasks THEN "claim" ELSE "top")
  /\ cur' = IF cur[w] \in tasks THEN cur ELSE [cur EXCEPT ![w] = NoTask]
  /\ UNCHANGED <<taskVars, queueVars, driverVars, parkVars, callVars>>

(* The compare-exchange SCHEDULED -> RUNNING; the future then gets a       *)
(* context that holds the task's waker.                                    *)
PollClaim(w) ==
  /\ At(w, "claim")
  /\ IF state[cur[w]] = SCHEDULED
       THEN /\ state' = [state EXCEPT ![cur[w]] = RUNNING]
            /\ handed' = handed \cup {cur[w]}
            /\ Goto(w, "poll")
            /\ UNCHANGED cur
       ELSE /\ cur' = [cur EXCEPT ![w] = NoTask]
            /\ Goto(w, "top")
            /\ UNCHANGED <<state, handed>>
  /\ UNCHANGED <<tasks, active, queueVars, driverVars, parkVars, callVars>>

(* The future returns Pending, or returns Ready or panics.                 *)
PollReturn(w) ==
  /\ At(w, "poll")
  /\ Goto(w, "pending") \/ Goto(w, "done")
  /\ UNCHANGED <<taskVars, queueVars, driverVars, parkVars, cur, callVars>>

(* Ready and panic: remove the task, count it, notify.                     *)
DoneRemove(w) ==
  /\ At(w, "done")
  /\ tasks' = tasks \ {cur[w]}
  /\ Goto(w, "uncount")
  /\ UNCHANGED <<active, state, handed, queueVars, driverVars, parkVars, cur,
                 callVars>>

(* Mutant: active_count is not decremented.                                *)
DoneUncountSkipped(w) ==
  /\ At(w, "uncount")
  /\ Goto(w, "announce")
  /\ UNCHANGED <<taskVars, queueVars, driverVars, parkVars, cur, callVars>>

DoneUncount(w) ==
  /\ At(w, "uncount")
  /\ active' = active - 1
  /\ Goto(w, "announce")
  /\ UNCHANGED <<tasks, state, handed, queueVars, driverVars, parkVars, cur,
                 callVars>>

DoneAnnounce(w) ==
  /\ At(w, "announce")
  /\ NotifyAll
  /\ cur' = [cur EXCEPT ![w] = NoTask]
  /\ Goto(w, "top")
  /\ UNCHANGED <<taskVars, queueVars, driverVars, shutdown, callVars>>

(* Mutant: IDLE is stored whatever the state has become.                   *)
PendingIdleStore(w) ==
  /\ At(w, "pending")
  /\ state' = [state EXCEPT ![cur[w]] = IDLE]
  /\ cur' = [cur EXCEPT ![w] = NoTask]
  /\ Goto(w, "top")
  /\ UNCHANGED <<tasks, active, handed, queueVars, driverVars, parkVars,
                 callVars>>

(* Pending: the compare-exchange RUNNING -> IDLE.                          *)
PendingIdle(w) ==
  /\ At(w, "pending")
  /\ IF state[cur[w]] = RUNNING
       THEN /\ state' = [state EXCEPT ![cur[w]] = IDLE]
            /\ cur' = [cur EXCEPT ![w] = NoTask]
            /\ Goto(w, "top")
       ELSE Goto(w, "resched") /\ UNCHANGED <<state, cur>>
  /\ UNCHANGED <<tasks, active, handed, queueVars, driverVars, parkVars,
                 callVars>>

(* Mutant: enqueue_task is called without storing SCHEDULED first.         *)
PendingRescheduleNoStore(w) ==
  /\ At(w, "resched")
  /\ Call(w, "push", cur[w], "top")
  /\ cur' = [cur EXCEPT ![w] = NoTask]
  /\ UNCHANGED <<taskVars, queueVars, driverVars, parkVars>>

(* It failed: store SCHEDULED and call enqueue_task.                       *)
PendingReschedule(w) ==
  /\ At(w, "resched")
  /\ state' = [state EXCEPT ![cur[w]] = SCHEDULED]
  /\ Call(w, "push", cur[w], "top")
  /\ cur' = [cur EXCEPT ![w] = NoTask]
  /\ UNCHANGED <<tasks, active, handed, queueVars, driverVars, parkVars>>

PollTask(w) ==
  \/ PollLookup(w) \/ PollClaim(w)
  \/ DoneRemove(w) \/ DoneUncount(w) \/ DoneAnnounce(w)
  \/ PendingIdle(w) \/ PendingReschedule(w)

-----------------------------------------------------------------------------
(* drive_io and the parts of Reactor::poll it relies on.  The wakes that   *)
(* TimerWheel::process and Reactor::poll issue are Wake steps taken at     *)
(* "process" and "events".                                                 *)

DriveEnterEpoll(w) ==
  /\ At(w, "process")
  /\ Goto(w, "epoll")
  /\ UNCHANGED <<taskVars, queueVars, driverVars, parkVars, cur, callVars>>

(* epoll_wait reports the level-triggered eventfd ...                      *)
EpollWoken(w) ==
  /\ At(w, "epoll")
  /\ eventfd
  /\ Goto(w, "drain")
  /\ UNCHANGED <<taskVars, queueVars, driverVars, parkVars, cur, callVars>>

(* ... or returns without it: the timeout, an error, or sockets only (even *)
(* with the eventfd readable, as one call reports at most 64 descriptors). *)
EpollTimeout(w) ==
  /\ At(w, "epoll")
  /\ Goto(w, "events")
  /\ UNCHANGED <<taskVars, queueVars, driverVars, parkVars, cur, callVars>>

DrainWakeFd(w) ==
  /\ At(w, "drain")
  /\ eventfd' = FALSE
  /\ Goto(w, "events")
  /\ UNCHANGED <<taskVars, queueVars, token, parkVars, cur, callVars>>

DriveReturn(w) ==
  /\ At(w, "events")
  /\ Goto(w, "release")
  /\ UNCHANGED <<taskVars, queueVars, driverVars, parkVars, cur, callVars>>

-----------------------------------------------------------------------------
(* The specification.                                                      *)

(* Steps a thread takes inside the runtime's code without waiting for user *)
(* code or for a timeout.                                                  *)
CallStep(a) == EnqueueTask(a) \/ SpawnInsert(a) \/ SpawnCount(a)

ShutdownStep(c) == ShutdownNotify(c) \/ ShutdownPoke(c) \/ ShutdownJoin(c)

WorkerStep(w) ==
  \/ CheckShutdown(w) \/ Dequeue(w) \/ Elect(w) \/ Recheck(w)
  \/ ReleaseToken(w) \/ PrepareSleep(w) \/ CondvarWait(w) \/ CondvarReturn(w)
  \/ EpollWoken(w) \/ DrainWakeFd(w) \/ PollTask(w)

RuntimeStep(a) ==
  \/ CallStep(a)
  \/ a \in Client /\ ShutdownStep(a)
  \/ a \in Worker /\ WorkerStep(a)

(* Returns from the user's future and from the driver's wake loops.        *)
Return(w) == PollReturn(w) \/ DriveEnterEpoll(w) \/ DriveReturn(w)

Timeout(w) == CondvarTimeout(w) \/ EpollTimeout(w)

UserStep(a) == Sleep(a) \/ \E t \in Task : Wake(a, t) \/ Spawn(a, t)

Next ==
  \/ \E a \in Thread : RuntimeStep(a) \/ UserStep(a)
  \/ \E c \in Client : ShutdownStore(c)
  \/ \E w \in Worker : Return(w) \/ Timeout(w)

Spec == Init /\ [][Next]_vars

(* What the operating system's scheduler and the user's futures must       *)
(* grant: a thread inside the runtime keeps running and, when it competes  *)
(* for the queue mutex, gets it in the end; a poll returns; the driver's   *)
(* wake loops are finite.  No timeout is needed.                           *)
Fairness ==
  /\ \A a \in Thread : SF_vars(RuntimeStep(a))
  /\ \A w \in Worker : SF_vars(Return(w))

(* The condvar's 100ms and the finite timeout of epoll_wait do elapse.     *)
TimeoutFairness == \A w \in Worker : WF_vars(Timeout(w))


-----------------------------------------------------------------------------
(* Properties.                                                             *)

(* Every variable has its type; in particular active_count, an unsigned    *)
(* counter in the code, never goes below zero.                             *)
TypeOK ==
  /\ tasks \subseteq Task
  /\ active \in Nat
  /\ state \in [Task -> TaskStates]
  /\ handed \subseteq Task
  /\ queue \in Seq(Task)
  /\ pending \subseteq Task
  /\ token \in BOOLEAN
  /\ eventfd \in BOOLEAN
  /\ shutdown \in BOOLEAN
  /\ waiting \subseteq Worker
  /\ pc \in [Thread -> WorkerPc \cup ClientPc \cup CallPc]
  /\ cur \in [Thread -> Task \cup {NoTask}]
  /\ arg \in [Thread -> Task \cup {NoTask}]
  /\ ret \in [Thread -> ReturnPc]

(* Worker w is inside the future of task t.                                *)
Polling(w, t) ==
  /\ cur[w] = t
  /\ pc[w] = "poll" \/ ret[w] = "poll"

(* The SAFETY claim of poll_task and Task::poll: whoever moved the task to *)
(* RUNNING is the only thread that touches its future.                     *)
ExclusivePoll ==
  \A w, v \in Worker : \A t \in Task :
    Polling(w, t) /\ Polling(v, t) => w = v

(* Thread a is on its way to push t, or took t from the queue and has not  *)
(* claimed it yet.                                                         *)
Holds(a, t) ==
  \/ arg[a] = t /\ pc[a] \in {"insert", "count", "push"}
  \/ cur[a] = t /\ pc[a] \in {"lookup", "claim"}

InQueue(t) == \E i \in 1..Len(queue) : queue[i] = t

(* A SCHEDULED task has exactly one ticket that leads to its next poll,    *)
(* its queue entry or the thread that carries it, and no other task has    *)
(* one.  So no wake-up is dropped on the way, and the early returns of     *)
(* poll_task, the dedup of ReadyQueue::enqueue and its pending set never   *)
(* swallow one.                                                            *)
OneTicket ==
  /\ \A t \in Task : state[t] = SCHEDULED <=>
       InQueue(t) \/ \E a \in Thread : Holds(a, t)
  /\ \A t \in Task : \A a \in Thread :
       Holds(a, t) => /\ ~InQueue(t)
                      /\ \A b \in Thread : Holds(b, t) => a = b
  /\ \A i, j \in 1..Len(queue) : queue[i] = queue[j] => i = j

(* Worker w executes the code guarded by driver_token.                     *)
Driving(w) ==
  \/ pc[w] \in {"recheck", "process", "epoll", "drain", "events", "release"}
  \/ ret[w] \in {"process", "events"}

(* The SAFETY contract of TimerWheel::process: one thread at a time drives *)
(* the timers and the reactor, the one that holds driver_token.            *)
SoleDriver ==
  \A w, v \in Worker : Driving(w) =>
    /\ token
    /\ Driving(v) => w = v

(* Worker w does not run until somebody else or a timeout wakes it.        *)
Blocked(w) ==
  \/ pc[w] = "asleep" /\ w \in waiting
  \/ pc[w] = "epoll" /\ ~eventfd

(* A push whose wake-ups are still to come.                                *)
Announcing == \E a \in Thread : pc[a] \in {"peek", "poke", "notify"}

(* "condvar.notify_one() and reactor.wake() provide instant wake-up when   *)
(* new work arrives": no worker stays blocked beside a non-empty queue     *)
(* unless another one, awake and not busy with a poll, is about to look    *)
(* at it.  This is what the re-check after the token's compare-exchange    *)
(* and the empty-queue test under the mutex before sleeping protect.       *)
WorkConserving ==
  ~shutdown /\ queue # <<>> /\ (\E w \in Worker : Blocked(w)) =>
    \/ Announcing
    \/ \E w \in Worker : ~Blocked(w) /\ \A t \in Task : ~Polling(w, t)

(* active_count is the number of tasks in the map, up to the threads that  *)
(* have changed one and not yet the other.                                 *)
ActiveExact ==
  active + Cardinality({a \in Thread : pc[a] = "count"})
    = Cardinality(tasks) + Cardinality({w \in Worker : pc[w] = "uncount"})

(* The future of t has returned Ready or panicked.                         *)
Finished(t) ==
  \/ t \in handed \ tasks
  \/ \E w \in Worker : cur[w] = t /\ pc[w] = "done"

FreshTasks    == {t \in Task : state[t] = FRESH}
FinishedTasks == {t \in Task : Finished(t)}
PollingTasks  == {t \in Task : \E w \in Worker : Polling(w, t)}
OwedTasks     == {t \in Task : state[t] \in {SCHEDULED, NOTIFIED}}
                   \ FinishedTasks

Contract == INSTANCE WakeContract WITH
  fresh <- FreshTasks, owed <- OwedTasks, polling <- PollingTasks,
  finished <- FinishedTasks

(* The executor keeps the contract its futures rely on: in particular a    *)
(* wake that meets a RUNNING task is answered by another poll, and nothing *)
(* polls a task that has finished.                                         *)
KeepsWakeContract == Contract!Spec

(* A task owed a poll gets one, whatever else is spawned or woken, unless  *)
(* the runtime is shut down; no timeout has to elapse for it.              *)
OwedTaskRuns ==
  \A t \in Task :
    state[t] \in {SCHEDULED, NOTIFIED} ~>
      shutdown \/ Finished(t) \/ state[t] = RUNNING

(* "When no tasks are ready the worker tries to become the I/O driver":    *)
(* the timers and the reactor are not left alone while the queue is empty, *)
(* whichever worker gave up the token last.                                *)
DriverComes ==
  queue = <<>> ~> shutdown \/ queue # <<>> \/ \E w \in Worker : Driving(w)

(* shutdown returns: every worker leaves its loop and is joined, if the    *)
(* timeouts elapse.                                                        *)
ShutdownReturns ==
  TimeoutFairness => \A c \in Client : pc[c] = "join" ~> pc[c] = "outside"

(* "Wake workers sleeping on condvar", "Wake the driver if it is blocked   *)
(* in epoll_wait": once shutdown has done both and joins, no worker is     *)
(* left to a timeout.                                                      *)
ShutdownWakes ==
  \A c \in Client : pc[c] = "join" => \A w \in Worker : ~Blocked(w)

=============================================================================
