---------------------------- MODULE LocalRuntime ----------------------------
(***************************************************************************)
(* The single-threaded runtime: Runtime::spawn, sleep and block_on         *)
(* (src/runtime.rs), its executor and ready queue (src/executor.rs), its   *)
(* timers (src/timer.rs), the results of tasks and their JoinHandles       *)
(* (src/task.rs, src/join_handle.rs), and the timeout that Reactor::poll   *)
(* gives to epoll_wait (src/reactor.rs).                                   *)
(*                                                                         *)
(* spawn and sleep borrow the runtime, as block_on does mutably, so they   *)
(* are called between two calls of block_on.  Only time passes while the   *)
(* thread runs.  Each task may await one Sleep and one JoinHandle, which   *)
(* its future is given when it is made.  Time is counted in Durations too  *)
(* short for epoll_wait, UnitsPerMs of them a millisecond; left is how     *)
(* long until a deadline.                                                  *)
(***************************************************************************)
EXTENDS Integers, Sequences, FiniteSets

CONSTANTS
  Task,
  NoTask,
  Caller,      \* flag_waker, as the waker in a TaskState
  MaxDelay,    \* bound on the duration given to sleep
  UnitsPerMs,  \* stands for the 1,000,000 nanoseconds of a millisecond
  MaxMs        \* stands for i32::MAX

ASSUME ConstAssumption ==
  /\ NoTask \notin Task /\ Caller \notin Task \cup {NoTask}
  /\ MaxDelay \in Nat
  /\ UnitsPerMs \in Nat \ {0} /\ MaxMs \in Nat \ {0}

VARIABLES
  fresh,      \* tasks not spawned yet
  tasks,      \* Executor::tasks
  queue,      \* ReadyQueue
  batch,      \* what is left of the ids that tick has drained
  poisoned,   \* tasks whose poll has panicked
  lost,       \* ids drained and never polled, because of a panic (history)
  cur,        \* the task being polled
  pc,         \* where the thread is in block_on; "outside" when in none
  root,       \* the task that block_on spawned
  handles,    \* JoinHandles that have not been given to a future
  awaits,     \* the task whose JoinHandle a future has
  result,     \* tasks whose TaskState::result is Some
  waker,      \* TaskState::waker: a task, Caller, or NoTask for None
  woken,      \* handle_woken
  left,       \* TimerEntry::deadline minus now
  heap,       \* TimerWheel::heap
  completed,  \* timers whose TimerState::completed is set
  stored,     \* timers whose TimerState::waker is Some
  sleeping,   \* tasks that have returned Pending from their Sleep
  joining,    \* tasks that have returned Pending from their JoinHandle
  due,        \* entries that were due when process read the clock
  next,       \* what process returned; 0 stands for None
  budget,     \* what is left of the timeout of epoll_wait
  late        \* time since process read the clock

handleVars == <<root, woken, handles, awaits, result, waker>>
timerVars  == <<heap, completed, stored>>
clockVars  == <<left, budget, late>>
execVars   == <<fresh, tasks, queue, batch, poisoned, lost, cur, sleeping,
                joining>>
vars == <<execVars, pc, handleVars, timerVars, clockVars, due, next>>

InSeq(t, s) == \E i \in 1..Len(s) : s[i] = t
Least(S) == CHOOSE x \in S : \A y \in S : x <= y

IdleTimeout    == 5 * UnitsPerMs  \* block_on's timeout without timers
PendingTimeout == UnitsPerMs

Init ==
  /\ fresh = Task
  /\ tasks = {}
  /\ queue = <<>>
  /\ batch = <<>>
  /\ poisoned = {}
  /\ lost = {}
  /\ cur = NoTask
  /\ pc = "outside"
  /\ root = NoTask
  /\ woken = FALSE
  /\ handles = {}
  /\ awaits = [t \in Task |-> NoTask]
  /\ result = {}
  /\ waker = [t \in Task |-> NoTask]
  /\ left = [t \in Task |-> 0]
  /\ heap = {}
  /\ completed = {}
  /\ stored = {}
  /\ sleeping = {}
  /\ joining = {}
  /\ due = {}
  /\ next = 0
  /\ budget = 0
  /\ late = 0

(* Mutant: the queue takes duplicates.                                     *)
PushAlways(t) == queue' = Append(queue, t)

(* ReadyQueue::push, which every task waker calls.                         *)
Push(t) == queue' = IF InSeq(t, queue) THEN queue ELSE Append(queue, t)

-----------------------------------------------------------------------------
(* Between two calls of block_on.                                          *)

Sleep(t, d) ==
  /\ pc = "outside"
  /\ t \in fresh \ (heap \cup completed)
  /\ heap' = heap \cup {t}
  /\ left' = [left EXCEPT ![t] = d]
  /\ UNCHANGED <<execVars, pc, handleVars, completed, stored, budget, late,
                 due, next>>

(* A new task, whose future may take the handle of an earlier one.         *)
Insert(t, c) ==
  /\ t \in fresh
  /\ fresh' = fresh \ {t}
  /\ tasks' = tasks \cup {t}
  /\ awaits' = [awaits EXCEPT ![t] = c]
  /\ Push(t)

Spawn(t, c) ==
  /\ pc = "outside"
  /\ Insert(t, c)
  /\ handles' = (handles \ {c}) \cup {t}
  /\ UNCHANGED <<batch, poisoned, lost, cur, sleeping, joining, pc, root,
                 woken, result, waker, timerVars, clockVars, due, next>>

(* Mutant: the handle is first polled when it is woken.                    *)
StartUnwoken == FALSE

(* "start as true to poll once".                                           *)
StartWoken == TRUE

BlockOn(t, c) ==
  /\ pc = "outside"
  /\ Insert(t, c)
  /\ handles' = handles \ {c}
  /\ root' = t
  /\ woken' = StartWoken
  /\ pc' = "tick"
  /\ UNCHANGED <<batch, poisoned, lost, cur, sleeping, joining, result, waker,
                 timerVars, clockVars, due, next>>

Leave ==
  /\ pc' = "outside"
  /\ root' = NoTask

-----------------------------------------------------------------------------
(* Step 1: while tick() {}.                                                *)

(* Mutant: the drained ids are polled newest first, one a tick.            *)
DrainNewest == IF queue = <<>> THEN <<>> ELSE <<queue[Len(queue)]>>

Drain == queue

Tick ==
  /\ pc = "tick"
  /\ batch' = Drain
  /\ queue' = SubSeq(queue, 1, Len(queue) - Len(Drain))
  /\ pc' = IF queue = <<>> THEN "handle" ELSE "next"
  /\ UNCHANGED <<fresh, tasks, poisoned, lost, cur, sleeping, joining,
                 handleVars, timerVars, clockVars, due, next>>

TickReturns ==
  /\ pc = "next"
  /\ batch = <<>>
  /\ pc' = "tick"
  /\ UNCHANGED <<execVars, handleVars, timerVars, clockVars, due, next>>

(* Mutant: a completed task is polled again.                               *)
AliveAlways(t) == TRUE

Alive(t) == t \in tasks

(* Poll the next id, unless its task has completed.                        *)
PollNext ==
  /\ pc = "next"
  /\ batch # <<>>
  /\ batch' = Tail(batch)
  /\ IF Alive(Head(batch))
       THEN /\ cur' = Head(batch)
            /\ sleeping' = sleeping \ {Head(batch)}
            /\ joining' = joining \ {Head(batch)}
            /\ lost' = lost \ {Head(batch)}
            /\ pc' = "poll"
       ELSE UNCHANGED <<cur, sleeping, joining, lost, pc>>
  /\ UNCHANGED <<fresh, tasks, queue, poisoned, handleVars, timerVars,
                 clockVars, due, next>>

(* The future runs; one that has panicked panics when it is polled again.  *)
Running == pc = "poll" /\ cur \notin poisoned

Suspend == cur' = NoTask /\ pc' = "next"

(* It wakes a task, itself perhaps; wakers outlive their tasks.            *)
UserWake(t) ==
  /\ Running
  /\ t \notin fresh
  /\ Push(t)
  /\ UNCHANGED <<fresh, tasks, batch, poisoned, lost, cur, sleeping, joining,
                 pc, handleVars, timerVars, clockVars, due, next>>

(* It returns Pending for a reason of its own ...                          *)
PollPending ==
  /\ Running
  /\ Suspend
  /\ UNCHANGED <<fresh, tasks, queue, batch, poisoned, lost, sleeping, joining,
                 handleVars, timerVars, clockVars, due, next>>

(* ... or because its Sleep does, having stored the waker ...              *)
PollSleep ==
  /\ Running
  /\ cur \in heap \ completed
  /\ stored' = stored \cup {cur}
  /\ sleeping' = sleeping \cup {cur}
  /\ Suspend
  /\ UNCHANGED <<fresh, tasks, queue, batch, poisoned, lost, joining,
                 handleVars, heap, completed, clockVars, due, next>>

(* Mutant: a Pending handle keeps an earlier waker, or none.               *)
JoinKeeps(c) == UNCHANGED waker

JoinStore(c) == waker' = [waker EXCEPT ![c] = cur]

(* ... or because its JoinHandle does, which has stored the waker too; the *)
(* future goes on when the handle has the result.                          *)
PollJoin ==
  /\ Running
  /\ awaits[cur] # NoTask
  /\ IF awaits[cur] \in result
       THEN /\ result' = result \ {awaits[cur]}
            /\ awaits' = [awaits EXCEPT ![cur] = NoTask]
            /\ UNCHANGED <<cur, pc, waker, joining>>
       ELSE /\ JoinStore(awaits[cur])
            /\ joining' = joining \cup {cur}
            /\ Suspend
            /\ UNCHANGED <<result, awaits>>
  /\ UNCHANGED <<fresh, tasks, queue, batch, poisoned, lost, sleeping, root,
                 woken, handles, timerVars, clockVars, due, next>>

(* Mutant: the result is not stored.                                       *)
StoreNothing == UNCHANGED <<result, woken, waker, queue>>

(* The end of wrap_future_with_state: store the result and call the waker  *)
(* of the handle.  The flag_waker of a block_on that has unwound sets a    *)
(* flag that nobody reads.                                                 *)
StoreResult ==
  /\ result' = result \cup {cur}
  /\ waker' = [waker EXCEPT ![cur] = NoTask]
  /\ woken' = (woken \/ (waker[cur] = Caller /\ cur = root))
  /\ IF waker[cur] \in Task THEN Push(waker[cur]) ELSE UNCHANGED queue

(* ... or it ends, and the result is stored ...                            *)
PollReady ==
  /\ Running
  /\ awaits' = [awaits EXCEPT ![cur] = NoTask]
  /\ StoreResult
  /\ pc' = "ready"
  /\ UNCHANGED <<fresh, tasks, batch, poisoned, lost, cur, sleeping, joining,
                 root, handles, timerVars, clockVars, due, next>>

(* ... before tick removes the task ...                                    *)
Remove ==
  /\ pc = "ready"
  /\ tasks' = tasks \ {cur}
  /\ Suspend
  /\ UNCHANGED <<fresh, queue, batch, poisoned, lost, sleeping, joining,
                 handleVars, timerVars, clockVars, due, next>>

(* ... or it panics, through tick and block_on: the rest of the drained    *)
(* ids is gone, the task stays in the map.                                 *)
PollPanics ==
  /\ pc = "poll"
  /\ poisoned' = poisoned \cup {cur}
  /\ awaits' = [awaits EXCEPT ![cur] = NoTask]
  /\ lost' = lost \cup {batch[i] : i \in 1..Len(batch)}
  /\ batch' = <<>>
  /\ cur' = NoTask
  /\ Leave
  /\ UNCHANGED <<fresh, tasks, queue, sleeping, joining, woken, handles,
                 result, waker, timerVars, clockVars, due, next>>

-----------------------------------------------------------------------------
(* The rest of block_on's loop.                                            *)

(* JoinHandle::poll of the root's handle: return what it has, or store     *)
(* flag_waker and go on.                                                   *)
TakeResult(l) ==
  IF root \in result
    THEN result' = result \ {root} /\ Leave /\ UNCHANGED waker
    ELSE /\ waker' = [waker EXCEPT ![root] = Caller]
         /\ pc' = l
         /\ UNCHANGED <<root, result>>

(* Steps 2 and 3: poll the handle if it was woken, and if no tasks remain. *)
PollHandle ==
  /\ pc = "handle"
  /\ woken' = FALSE
  /\ IF woken \/ tasks = {}
       THEN TakeResult("process")
       ELSE pc' = "process" /\ UNCHANGED <<root, result, waker>>
  /\ UNCHANGED <<execVars, handles, awaits, timerVars, clockVars, due, next>>

(* Steps 4 and 7, TimerWheel::process: read the clock ...                  *)
Process(l, m) ==
  /\ pc = l
  /\ due' = {t \in heap : left[t] = 0}
  /\ next' = IF heap = due' THEN 0 ELSE Least({left[t] : t \in heap \ due'})
  /\ late' = 0
  /\ pc' = m
  /\ UNCHANGED <<execVars, handleVars, timerVars, left, budget>>

FireWake(t) == IF t \in stored THEN Push(t) ELSE UNCHANGED queue

(* ... and fire what is due.                                               *)
Fire(t) ==
  /\ pc \in {"fire", "fire again"}
  /\ t \in due
  /\ due' = due \ {t}
  /\ heap' = heap \ {t}
  /\ completed' = completed \cup {t}
  /\ stored' = stored \ {t}
  /\ FireWake(t)
  /\ UNCHANGED <<fresh, tasks, batch, poisoned, lost, cur, sleeping, joining,
                 pc, handleVars, clockVars, next>>

(* Mutant: the timers do not shorten the wait.                             *)
TimeoutIdle == IdleTimeout

Timeout ==
  IF heap = {} THEN IdleTimeout ELSE IF next = 0 THEN PendingTimeout ELSE next

(* Mutant: the timeout is cut to whole milliseconds.                       *)
TimeoutMsCut(d) == d \div UnitsPerMs

(* The timeout_ms of Reactor::poll: whole milliseconds, rounded up, and no *)
(* more than an i32 holds.                                                 *)
TimeoutMs(d) ==
  LET ms == (d + UnitsPerMs - 1) \div UnitsPerMs
  IN  IF ms > MaxMs THEN MaxMs ELSE ms

(* Steps 5 and 6: go on with ready tasks, give up after a last look at the *)
(* handle when there is nothing left to do, or block in the reactor.       *)
EnterReactor ==
  /\ pc = "fire"
  /\ due = {}
  /\ IF queue = <<>> /\ heap = {} /\ tasks = {}
       THEN TakeResult("panicked") /\ UNCHANGED budget
       ELSE /\ IF queue # <<>> THEN pc' = "tick" /\ UNCHANGED budget
               ELSE pc' = "park" /\ budget' = UnitsPerMs * TimeoutMs(Timeout)
            /\ UNCHANGED <<root, result, waker>>
  /\ UNCHANGED <<execVars, woken, handles, awaits, timerVars, left, late, due,
                 next>>

(* Reactor::poll wakes tasks whose sockets are ready, one after another,   *)
(* and returns, after a time-out or before it.  A waker that is left in    *)
(* the reactor may be that of a task that has completed.                   *)
IoWake(t) ==
  /\ pc = "park"
  /\ t \notin fresh
  /\ Push(t)
  /\ UNCHANGED <<fresh, tasks, batch, poisoned, lost, cur, sleeping, joining,
                 pc, handleVars, timerVars, clockVars, due, next>>

LeaveReactor ==
  /\ pc = "park"
  /\ pc' = "process again"
  /\ budget' = 0
  /\ UNCHANGED <<execVars, handleVars, timerVars, left, late, due, next>>

EndOfLoop ==
  /\ pc = "fire again"
  /\ due = {}
  /\ pc' = "tick"
  /\ UNCHANGED <<execVars, handleVars, timerVars, clockVars, due, next>>

(* A unit of time passes.                                                  *)
ClockTick ==
  /\ left' = [t \in Task |-> IF left[t] = 0 THEN 0 ELSE left[t] - 1]
  /\ budget' = IF pc = "park" /\ budget > 0 THEN budget - 1 ELSE budget
  /\ late' = IF pc = "fire" /\ late < MaxDelay THEN late + 1 ELSE late
  /\ UNCHANGED <<execVars, pc, handleVars, timerVars, due, next>>

-----------------------------------------------------------------------------

LoopStep ==
  \/ Tick \/ TickReturns \/ PollNext \/ Remove \/ PollHandle
  \/ Process("process", "fire") \/ Process("process again", "fire again")
  \/ (\E t \in Task : Fire(t)) \/ EnterReactor \/ EndOfLoop
  \/ budget = 0 /\ LeaveReactor
  \/ cur \in poisoned /\ PollPanics

PollEnds == PollPending \/ PollSleep \/ PollJoin \/ PollReady

Next ==
  \/ LoopStep \/ PollEnds \/ PollPanics \/ LeaveReactor \/ ClockTick
  \/ \E t \in Task :
       \/ UserWake(t) \/ IoWake(t)
       \/ \E c \in handles \cup {NoTask} : Spawn(t, c) \/ BlockOn(t, c)
       \/ \E d \in 0..MaxDelay : Sleep(t, d)

(* The thread runs, time passes and polls end.                             *)
Fairness == WF_vars(LoopStep) /\ SF_vars(PollEnds) /\ WF_vars(ClockTick)

Spec == Init /\ [][Next]_vars
FairSpec == Spec /\ Fairness

-----------------------------------------------------------------------------
(* Properties.                                                             *)

(* Types; and no id is twice in the ready queue.                           *)
TypeOK ==
  /\ fresh \subseteq Task
  /\ tasks \subseteq Task \ fresh
  /\ queue \in Seq(Task)
  /\ \A i, j \in 1..Len(queue) : queue[i] = queue[j] => i = j
  /\ batch \in Seq(Task)
  /\ poisoned \subseteq Task /\ lost \subseteq Task
  /\ cur \in Task \cup {NoTask}
  /\ pc \in {"outside", "tick", "next", "poll", "ready", "handle", "process",
             "fire", "park", "process again", "fire again", "panicked"}
  /\ root \in Task \cup {NoTask}
  /\ woken \in BOOLEAN
  /\ handles \subseteq Task \ fresh
  /\ awaits \in [Task -> (Task \ fresh) \cup {NoTask}]
  /\ result \subseteq Task
  /\ waker \in [Task -> Task \cup {NoTask, Caller}]
  /\ left \in [Task -> 0..MaxDelay]
  /\ due \subseteq heap /\ heap \subseteq Task
  /\ completed \subseteq Task /\ stored \subseteq heap
  /\ sleeping \subseteq Task /\ joining \subseteq Task

(* "The root task finished - result must be stored": the panic at the end  *)
(* of block_on is not reached.                                             *)
NeverGivesUp == pc # "panicked"

(* The flag loses no completion: block_on does not block in the reactor    *)
(* while the result of its future is there.                                *)
ParksUnresolved == pc = "park" => root \notin result

(* "Don't block longer than the next timer deadline", but for the time     *)
(* spent between reading the clock and blocking, and for less than the     *)
(* millisecond to which Reactor::poll rounds up.                           *)
ParksInTime ==
  pc = "park" => \A t \in heap : budget < left[t] + late + UnitsPerMs

(* A short sleep "doesn't degenerate into a zero-timeout call that         *)
(* busy-spins": block_on always gives epoll_wait time to block.            *)
NeverSpins == [][pc # "park" /\ pc' = "park" => budget' > 0]_vars

Queued(t) == InSeq(t, queue) \/ InSeq(t, batch)

(* A task that waits for a timer that has fired, or for a task that has    *)
(* stored its result, is queued, unless a panic has lost its id; before    *)
(* that, the task it waits for has its waker.                              *)
WaiterQueued ==
  /\ \A t \in sleeping \cap completed : Queued(t) \/ t \in lost
  /\ \A t \in joining \cap tasks :
       awaits[t] # NoTask =>
         IF awaits[t] \in result THEN Queued(t) \/ t \in lost
                                ELSE waker[awaits[t]] = t

Owed == {t \in tasks : Queued(t) \/ t \in lost}
Polling == {cur} \ {NoTask}

Contract == INSTANCE WakeContract WITH
  owed <- Owed,
  polling <- Polling,
  finished <- Task \ (fresh \cup tasks)

(* A task that is woken after tick has drained its id and before it is     *)
(* polled is queued a second time, so it is polled now and once more.      *)
PolledTwice(t) ==
  /\ t \in Owed \ Polling
  /\ Polling' = Polling \cup {t}
  /\ UNCHANGED <<fresh, Owed, tasks>>

(* The executor keeps the contract of the multi-threaded one, but for      *)
(* polls that no wake asked for.  It goes on owing the polls that a panic  *)
(* has lost.                                                               *)
KeepsWakeContract ==
  /\ Contract!Init
  /\ [][Contract!Next \/ \E t \in Task : PolledTwice(t)]_Contract!vars

(* "Run one tick: poll every ready task once": a queued task is polled or  *)
(* block_on returns, however often tasks wake themselves.                  *)
QueuedTaskRuns ==
  \A t \in Task : (t \in tasks /\ Queued(t) /\ pc # "outside") ~>
                    (cur = t \/ pc = "outside")

(* "It blocks the current thread until `future` resolves."                 *)
ReturnsWhenResolved == root \in result ~> pc = "outside"

(* It does so if again and again the ready queue runs empty.               *)
ReturnsWhenQuiet ==
  []<>(pc \notin {"tick", "next", "poll", "ready"}) => ReturnsWhenResolved

=============================================================================
