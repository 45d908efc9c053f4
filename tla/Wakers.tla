------------------------------- MODULE Wakers -------------------------------
(***************************************************************************)
(* Who owns what behind the raw wakers of both runtimes: the boxed         *)
(* WakerData of src/executor.rs and src/multi_thread/executor.rs, the      *)
(* reference-counted flag of flag_waker in src/runtime.rs, the ready queue *)
(* (Rc) or SharedState (Arc) that every box keeps alive, and the ids of    *)
(* next_task_id in src/lib.rs.                                             *)
(*                                                                         *)
(* Both runtimes are in use in one process.  Tasks run on the scheduler    *)
(* that WakeContract describes.  A Waker value is named: that of a Task by *)
(* the task, a clone by a member of Copy.  What the code does by hand is   *)
(* explicit: which box a pointer leads to, whether the box is allocated,   *)
(* and the strong counts.                                                  *)
(***************************************************************************)
EXTENDS Integers, FiniteSets

CONSTANTS
  LocalTask,    \* tasks of a Runtime
  SharedTask,   \* tasks of a MultiThreadRuntime
  Copy,         \* names for clones of wakers
  Worker,       \* worker threads of the latter
  Addr,         \* addresses of boxes
  Nil           \* no task, no box, no pointer

Task == LocalTask \cup SharedTask
Handle == Task \cup Copy

ASSUME ConstAssumption ==
  /\ LocalTask \cap SharedTask = {}
  /\ Task \cap Copy = {}
  /\ Nil \notin Task \cup Copy \cup Addr
  /\ IsFiniteSet(Task) /\ IsFiniteSet(Copy) /\ IsFiniteSet(Worker)

VARIABLES
  fresh, owed, polling, finished,  \* the schedulers, see WakeContract
  next_id,    \* NEXT_TASK_ID
  id,         \* Task::id; 0 before the task is spawned
  box,        \* WakerData::task_id at an address; 0 when it is free
  ptr,        \* the pointer in a Waker; Nil when there is no such Waker
  made,       \* the task a Waker was made for (history)
  strong,     \* strong counts of the ready queue and of SharedState
  open,       \* the runtimes that have not been dropped
  shutdown,   \* SharedState::shutdown
  workers,    \* worker threads that have not returned
  map,        \* Executor::tasks and SharedState::tasks
  calling,    \* the root of the block_on in progress, of Runtime
  count,      \* strong count of the flag that block_on made for a root
  stored      \* roots whose TaskState::waker holds a clone of flag_waker

schedVars == <<fresh, owed, polling, finished>>
boxVars   == <<next_id, id, box, ptr, made, strong>>
flagVars  == <<calling, count, stored>>
vars == <<schedVars, boxVars, flagVars, open, shutdown, workers, map>>

Sched == INSTANCE WakeContract

Of(t) == IF t \in LocalTask THEN "local" ELSE "shared"

(* Runtime::new, and MultiThreadRuntime::new: every worker has an Arc.     *)
Init ==
  /\ Sched!Init
  /\ next_id = 1
  /\ id = [t \in Task |-> 0]
  /\ box = [a \in Addr |-> 0]
  /\ ptr = [h \in Handle |-> Nil]
  /\ made = [h \in Handle |-> Nil]
  /\ strong = [local |-> 1, shared |-> 1 + Cardinality(Worker)]
  /\ open = {"local", "shared"}
  /\ shutdown = FALSE
  /\ workers = Worker
  /\ map = {}
  /\ calling = Nil
  /\ count = [t \in LocalTask |-> 0]
  /\ stored = {}

-----------------------------------------------------------------------------
(* The vtables.                                                            *)

(* fetch_add on a counter of the process.                                  *)
NextTaskId(t) ==
  /\ id' = [id EXCEPT ![t] = next_id]
  /\ next_id' = next_id + 1

(* A new box for task t, behind Waker h, with an Rc or an Arc of its own.  *)
Allocate(h, t, a, n) ==
  /\ box[a] = 0
  /\ ptr[h] = Nil
  /\ box' = [box EXCEPT ![a] = n]
  /\ ptr' = [ptr EXCEPT ![h] = a]
  /\ made' = [made EXCEPT ![h] = t]
  /\ strong' = [strong EXCEPT ![Of(t)] = @ + 1]

(* Dropping the box that Waker h points to, with its Rc or Arc.            *)
Free(h) ==
  /\ box' = [box EXCEPT ![ptr[h]] = 0]
  /\ ptr' = [ptr EXCEPT ![h] = Nil]
  /\ made' = [made EXCEPT ![h] = Nil]
  /\ strong' = [strong EXCEPT ![Of(made[h])] = @ - 1]

(* A future may use the waker of its context while it is polled; a clone   *)
(* is used by whoever holds it, at any time.                               *)
InUse(h) == ptr[h] # Nil /\ (h \in Copy \/ h \in polling \cap map)

(* Push the id in the box; an id that is in the map no more is skipped, as *)
(* it is by the state of its task.                                         *)
Push(h) ==
  LET found == {t \in map : Of(t) = Of(made[h]) /\ id[t] = box[ptr[h]]}
  IN  IF found = {} THEN UNCHANGED schedVars
                    ELSE \E t \in found : Sched!Wake(t)

Frame == UNCHANGED <<next_id, id, flagVars, open, shutdown, workers, map>>

(* Mutant: the clone points to the same box.                               *)
LocalCloneShares(h, c, a) ==
  /\ InUse(h) /\ made[h] \in LocalTask
  /\ ptr[c] = Nil
  /\ ptr' = [ptr EXCEPT ![c] = ptr[h]]
  /\ made' = [made EXCEPT ![c] = made[h]]
  /\ UNCHANGED <<box, strong, schedVars>>
  /\ Frame

(* The vtable of Runtime: a clone has a box of its own ...                 *)
LocalClone(h, c, a) ==
  /\ InUse(h) /\ made[h] \in LocalTask
  /\ Allocate(c, made[h], a, box[ptr[h]])
  /\ UNCHANGED schedVars /\ Frame

(* ... which wake frees ...                                                *)
LocalWake(c) ==
  /\ InUse(c) /\ made[c] \in LocalTask
  /\ Push(c)
  /\ Free(c)
  /\ Frame

(* ... and wake_by_ref does not ...                                        *)
LocalWakeByRef(h) ==
  /\ InUse(h) /\ made[h] \in LocalTask
  /\ Push(h)
  /\ UNCHANGED <<box, ptr, made, strong>> /\ Frame

(* ... and drop frees.                                                     *)
LocalDrop(c) ==
  /\ InUse(c) /\ made[c] \in LocalTask
  /\ Free(c)
  /\ UNCHANGED schedVars /\ Frame

(* Mutant: the clone takes no Arc of its own.                              *)
SharedCloneBorrows(h, c, a) ==
  /\ InUse(h) /\ made[h] \in SharedTask
  /\ box[a] = 0 /\ ptr[c] = Nil
  /\ box' = [box EXCEPT ![a] = box[ptr[h]]]
  /\ ptr' = [ptr EXCEPT ![c] = a]
  /\ made' = [made EXCEPT ![c] = made[h]]
  /\ UNCHANGED <<strong, schedVars>>
  /\ Frame

(* The vtable of MultiThreadRuntime.                                       *)
SharedClone(h, c, a) ==
  /\ InUse(h) /\ made[h] \in SharedTask
  /\ Allocate(c, made[h], a, box[ptr[h]])
  /\ UNCHANGED schedVars /\ Frame

(* Mutant: wake by value leaves the box, like wake_by_ref.                 *)
SharedWakeKeeps(c) ==
  /\ InUse(c) /\ made[c] \in SharedTask
  /\ Push(c)
  /\ ptr' = [ptr EXCEPT ![c] = Nil]
  /\ made' = [made EXCEPT ![c] = Nil]
  /\ UNCHANGED <<box, strong>>
  /\ Frame

SharedWake(c) ==
  /\ InUse(c) /\ made[c] \in SharedTask
  /\ Push(c)
  /\ Free(c)
  /\ Frame

SharedWakeByRef(h) ==
  /\ InUse(h) /\ made[h] \in SharedTask
  /\ Push(h)
  /\ UNCHANGED <<box, ptr, made, strong>> /\ Frame

SharedDrop(c) ==
  /\ InUse(c) /\ made[c] \in SharedTask
  /\ Free(c)
  /\ UNCHANGED schedVars /\ Frame

VtableStep ==
  \/ \E h \in Handle : LocalWakeByRef(h) \/ SharedWakeByRef(h)
  \/ \E c \in Copy :
       LocalWake(c) \/ LocalDrop(c) \/ SharedWake(c) \/ SharedDrop(c)
  \/ \E h \in Handle, c \in Copy, a \in Addr :
       LocalClone(h, c, a) \/ SharedClone(h, c, a)

-----------------------------------------------------------------------------
(* Tasks.                                                                  *)

(* make_waker, and the insertion of the Task that holds the Waker.         *)
MakeTask(t, a) ==
  /\ Of(t) \in open
  /\ Sched!Spawn(t)
  /\ NextTaskId(t)
  /\ Allocate(t, t, a, id'[t])
  /\ map' = map \cup {t}
  /\ UNCHANGED <<open, shutdown, workers>>

(* spawn of a Runtime needs the runtime that block_on borrows.             *)
LocalSpawn(t, a) ==
  /\ t \in LocalTask /\ calling = Nil
  /\ MakeTask(t, a)
  /\ UNCHANGED flagVars

SharedSpawn(t, a) ==
  /\ t \in SharedTask
  /\ MakeTask(t, a)
  /\ UNCHANGED flagVars

(* block_on has two Rc of the flag, handle_woken and that in its waker.    *)
BlockOn(t, a) ==
  /\ t \in LocalTask /\ calling = Nil
  /\ MakeTask(t, a)
  /\ calling' = t
  /\ count' = [count EXCEPT ![t] = 2]
  /\ UNCHANGED stored

(* tick, on the thread of block_on, and poll_task, on a worker that has    *)
(* not returned: both clone the Rc or Arc of the Task for the poll.        *)
BeginPoll(t) ==
  /\ t \in map
  /\ IF t \in LocalTask
       THEN calling # Nil /\ polling \cap LocalTask = {}
       ELSE Cardinality(polling \cap SharedTask) < Cardinality(workers)
  /\ Sched!BeginPoll(t)
  /\ UNCHANGED <<boxVars, flagVars, open, shutdown, workers, map>>

PollPending(t) ==
  /\ t \in map
  /\ Sched!PollPending(t)
  /\ UNCHANGED <<boxVars, flagVars, open, shutdown, workers, map>>

(* The counts without the clone of flag_waker in the TaskState of task t.  *)
DropClone(t) == IF t \in stored THEN [count EXCEPT ![t] = @ - 1] ELSE count

(* At the end of a root's future the waker in its TaskState, a clone of    *)
(* flag_waker, is woken by value.                                          *)
FlagWake(t) ==
  /\ stored' = stored \ {t}
  /\ count' = DropClone(t)
  /\ UNCHANGED calling

(* The future is done, or has panicked on a worker: the Task is removed    *)
(* from the map ...                                                        *)
Remove(t) ==
  /\ t \in polling \cap map
  /\ map' = map \ {t}
  /\ FlagWake(t)
  /\ UNCHANGED <<schedVars, boxVars, open, shutdown, workers>>

(* ... and dropped, with its Waker, when the poll's own Rc or Arc is.      *)
Release(t) ==
  /\ t \in polling \ map
  /\ Sched!PollDone(t)
  /\ Free(t)
  /\ UNCHANGED <<next_id, id, flagVars, open, shutdown, workers, map>>

-----------------------------------------------------------------------------
(* block_on of Runtime, with its flag_waker.                               *)

(* Mutant: the Rc that clone makes of the raw pointer is not forgotten.    *)
FlagCloneDrops(t) == UNCHANGED count

(* clone adds an Rc; the clone that it replaces in the TaskState drops its.*)
FlagClone(t) ==
  count' = IF t \in stored THEN count ELSE [count EXCEPT ![t] = @ + 1]

(* JoinHandle::poll without a result stores a clone of the waker.          *)
PollHandle ==
  /\ calling \in map
  /\ polling \cap LocalTask = {}
  /\ FlagClone(calling)
  /\ stored' = stored \cup {calling}
  /\ UNCHANGED <<schedVars, boxVars, calling, open, shutdown, workers, map>>

(* The locals of block_on are dropped, the waker and handle_woken, from    *)
(* the counts n.                                                           *)
DropLocals(n) ==
  /\ count' = [n EXCEPT ![calling] = @ - 2]
  /\ calling' = Nil

Return ==
  /\ calling # Nil /\ calling \notin map
  /\ polling \cap LocalTask = {}
  /\ DropLocals(count)
  /\ UNCHANGED <<schedVars, boxVars, stored, open, shutdown, workers, map>>

(* A panic unwinds the async block of spawn, tick and block_on.  The Task  *)
(* stays in the map, but the block has dropped its Rc of the TaskState,    *)
(* and with it the clone of the waker.  If it is not the root that         *)
(* panicked, the root is left in the map too, and keeps its clone.         *)
PollPanics(t) ==
  /\ t \in map \cap LocalTask
  /\ Sched!PollPending(t)
  /\ stored' = stored \ {t}
  /\ DropLocals(DropClone(t))
  /\ UNCHANGED <<boxVars, open, shutdown, workers, map>>

-----------------------------------------------------------------------------
(* The end of the runtimes.                                                *)

(* Runtime is dropped: its Tasks, with their Wakers and the clones of      *)
(* flag_waker in their TaskStates, and its Rc of the ready queue.          *)
DropLocal ==
  LET gone == map \cap LocalTask
  IN  /\ "local" \in open /\ calling = Nil
      /\ open' = open \ {"local"}
      /\ map' = map \ gone
      /\ finished' = finished \cup gone
      /\ owed' = owed \ gone
      /\ box' = [a \in Addr |->
                   IF \E t \in gone : ptr[t] = a THEN 0 ELSE box[a]]
      /\ ptr' = [h \in Handle |-> IF h \in gone THEN Nil ELSE ptr[h]]
      /\ made' = [h \in Handle |-> IF h \in gone THEN Nil ELSE made[h]]
      /\ strong' = [strong EXCEPT !["local"] = @ - (Cardinality(gone) + 1)]
      /\ count' = [t \in LocalTask |->
                     IF t \in stored THEN count[t] - 1 ELSE count[t]]
      /\ stored' = {}
      /\ UNCHANGED <<fresh, polling, next_id, id, calling, shutdown, workers>>

Shutdown ==
  /\ "shared" \in open /\ ~shutdown
  /\ shutdown' = TRUE
  /\ UNCHANGED <<schedVars, boxVars, flagVars, open, workers, map>>

(* A worker that polls no task returns and drops its Arc.                  *)
WorkerExits(w) ==
  /\ shutdown
  /\ w \in workers
  /\ Cardinality(polling \cap SharedTask) < Cardinality(workers)
  /\ workers' = workers \ {w}
  /\ strong' = [strong EXCEPT !["shared"] = @ - 1]
  /\ UNCHANGED <<schedVars, next_id, id, box, ptr, made, flagVars, open,
                 shutdown, map>>

(* Drop has joined the workers; the Tasks left in the map stay there.      *)
DropShared ==
  /\ "shared" \in open /\ shutdown /\ workers = {}
  /\ open' = open \ {"shared"}
  /\ strong' = [strong EXCEPT !["shared"] = @ - 1]
  /\ UNCHANGED <<schedVars, next_id, id, box, ptr, made, flagVars, shutdown,
                 workers, map>>

Next ==
  \/ VtableStep
  \/ PollHandle \/ Return \/ DropLocal \/ Shutdown \/ DropShared
  \/ \E w \in Worker : WorkerExits(w)
  \/ \E t \in Task :
       \/ BeginPoll(t) \/ PollPending(t) \/ Remove(t) \/ Release(t)
       \/ PollPanics(t)
       \/ \E a \in Addr :
            LocalSpawn(t, a) \/ SharedSpawn(t, a) \/ BlockOn(t, a)

Spec == Init /\ [][Next]_vars

-----------------------------------------------------------------------------
(* Properties.                                                             *)

Alive == {h \in Handle : ptr[h] # Nil}

(* Types; and a task that has finished is neither owed a poll nor polled.  *)
TypeOK ==
  /\ owed \cup polling \subseteq Task \ (fresh \cup finished)
  /\ next_id \in Nat /\ id \in [Task -> Nat] /\ box \in [Addr -> Nat]
  /\ ptr \in [Handle -> Addr \cup {Nil}]
  /\ made \in [Handle -> Task \cup {Nil}]
  /\ strong \in [{"local", "shared"} -> Int]
  /\ open \subseteq {"local", "shared"}
  /\ shutdown \in BOOLEAN
  /\ workers \subseteq Worker
  /\ map \subseteq Task
  /\ calling \in LocalTask \cup {Nil}
  /\ count \in [LocalTask -> Int]
  /\ stored \subseteq LocalTask

(* "the vtable functions below correctly manage the WakerData lifetime":   *)
(* every Waker leads to an allocated box of its own, so that no box is     *)
(* used after it is freed or freed twice; and "IDs never collide even when *)
(* both runtimes are in use": the id in it names the task that the Waker   *)
(* was made for and no other.                                              *)
WakersSound ==
  /\ \A h \in Alive : made[h] \in Task /\ box[ptr[h]] = id[made[h]]
  /\ \A h, k \in Alive : ptr[h] = ptr[k] => h = k
  /\ \A t, u \in Task \ fresh : id[t] # 0 /\ (id[t] = id[u] => t = u)

(* No operation of the vtables forgets a box: each is that of a Waker that *)
(* still exists.  The Wakers of Tasks that are left in SharedState::tasks  *)
(* exist for ever, and so do their boxes (see StrongExact).                *)
BoxesOwned == \A a \in Addr : box[a] # 0 => \E h \in Alive : ptr[h] = a

(* What keeps the ready queue and SharedState alive: the runtime, its      *)
(* workers and every box, that is every Waker.                             *)
Owners(r) ==
  Cardinality(open \cap {r}) + Cardinality({h \in Alive : Of(made[h]) = r})
    + (IF r = "shared" THEN Cardinality(workers) ELSE 0)

(* The strong counts are exact: neither is freed while somebody could      *)
(* reach it, and both are when nobody can.  Wakers of the Tasks that are   *)
(* left in SharedState::tasks keep it for ever, by the cycle.              *)
StrongExact == \A r \in {"local", "shared"} : strong[r] = Owners(r)

(* The flag of a root has an Rc for each of the two locals of block_on and *)
(* one for the clone in the TaskState, which a root that another task's    *)
(* panic has left over wakes long after block_on has unwound.              *)
FlagExact ==
  \A t \in LocalTask :
    count[t] = (IF calling = t THEN 2 ELSE 0) + (IF t \in stored THEN 1 ELSE 0)

=============================================================================
