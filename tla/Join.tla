-------------------------------- MODULE Join --------------------------------
(***************************************************************************)
(* Results of the multi-threaded runtime: the TaskState that a spawned     *)
(* task shares with its JoinHandle (src/multi_thread/task.rs), and the     *)
(* slot and condvar on which block_on parks its caller                     *)
(* (src/multi_thread/runtime.rs).                                          *)
(*                                                                         *)
(* One thread calls block_on(Root).  A task spawns others and awaits their *)
(* handles one at a time.  Tasks run on the scheduler that WakeContract    *)
(* describes.                                                              *)
(***************************************************************************)

CONSTANTS
  Task,
  Root,       \* the task made by block_on
  NoTask

ASSUME ConstAssumption ==
  /\ Root \in Task
  /\ NoTask \notin Task

VARIABLES
  fresh, owed, polling, finished,  \* the scheduler, see WakeContract
  pc,       \* where each task is in its poll
  owner,    \* who holds a task's JoinHandle
  awaits,   \* the task whose handle a task awaits
  result,   \* tasks whose TaskState::result is Some
  waker,    \* tasks whose TaskState::waker is Some: that of the owner
  joined,   \* tasks whose handle has returned Ready
  slot,     \* block_on's result slot is Some
  caller    \* where the thread in block_on is

schedVars == <<fresh, owed, polling, finished>>
joinVars  == <<owner, awaits, result, waker, joined>>
vars == <<schedVars, pc, joinVars, slot, caller>>

Sched == INSTANCE WakeContract

Init ==
  /\ Sched!Init
  /\ pc = [t \in Task |-> "run"]
  /\ owner = [t \in Task |-> NoTask]
  /\ awaits = [t \in Task |-> NoTask]
  /\ result = {}
  /\ waker = {}
  /\ joined = {}
  /\ slot = FALSE
  /\ caller = "spawn"

At(t, l) == t \in polling /\ pc[t] = l
Goto(t, l) == pc' = [pc EXCEPT ![t] = l]

-----------------------------------------------------------------------------
(* The thread in block_on.                                                 *)

BlockOn ==
  /\ caller = "spawn"
  /\ Sched!Spawn(Root)
  /\ caller' = "check"
  /\ UNCHANGED <<pc, joinVars, slot>>

(* Under the slot's lock: take the result, or wait, which unlocks.         *)
CheckSlot ==
  /\ caller = "check"
  /\ caller' = IF slot THEN "returned" ELSE "parked"
  /\ slot' = FALSE
  /\ UNCHANGED <<schedVars, pc, joinVars>>

SpuriousWakeup ==
  /\ caller = "parked"
  /\ caller' = "check"
  /\ UNCHANGED <<schedVars, pc, joinVars, slot>>

-----------------------------------------------------------------------------
(* A task's poll.                                                          *)

BeginPoll(t) ==
  /\ Sched!BeginPoll(t)
  /\ UNCHANGED <<pc, joinVars, slot, caller>>

(* Somebody else wakes the task: it shares its waker with other futures.   *)
OtherWake(t) ==
  /\ Sched!Wake(t)
  /\ UNCHANGED <<pc, joinVars, slot, caller>>

(* The future calls spawn and keeps the handle.                            *)
Spawn(t, c) ==
  /\ At(t, "run")
  /\ awaits[t] = NoTask
  /\ c # Root
  /\ Sched!Spawn(c)
  /\ owner' = [owner EXCEPT ![c] = t]
  /\ UNCHANGED <<pc, awaits, result, waker, joined, slot, caller>>

(* It starts to await a handle it holds.                                   *)
Await(t, c) ==
  /\ At(t, "run")
  /\ awaits[t] = NoTask
  /\ owner[c] = t
  /\ c \notin joined
  /\ awaits' = [awaits EXCEPT ![t] = c]
  /\ UNCHANGED <<schedVars, pc, owner, result, waker, joined, slot, caller>>

(* Mutant: Pending without leaving a waker.                                *)
PollJoinNoWaker(t, c) ==
  /\ At(t, "run")
  /\ awaits[t] = c
  /\ IF c \in result
       THEN /\ result' = result \ {c}
            /\ joined' = joined \cup {c}
            /\ awaits' = [awaits EXCEPT ![t] = NoTask]
            /\ UNCHANGED pc
       ELSE /\ Goto(t, "pending")
            /\ UNCHANGED <<result, joined, awaits>>
  /\ UNCHANGED <<schedVars, waker, owner, slot, caller>>

(* JoinHandle::poll, under the lock of the TaskState.                      *)
PollJoin(t, c) ==
  /\ At(t, "run")
  /\ awaits[t] = c
  /\ IF c \in result
       THEN /\ result' = result \ {c}
            /\ joined' = joined \cup {c}
            /\ awaits' = [awaits EXCEPT ![t] = NoTask]
            /\ UNCHANGED <<waker, pc>>
       ELSE /\ waker' = waker \cup {c}
            /\ Goto(t, "pending")
            /\ UNCHANGED <<result, joined, awaits>>
  /\ UNCHANGED <<schedVars, owner, slot, caller>>

(* A future that wakes itself before it returns Pending.                   *)
Yield(t) ==
  /\ At(t, "run")
  /\ awaits[t] = NoTask
  /\ Sched!Wake(t)
  /\ Goto(t, "pending")
  /\ UNCHANGED <<joinVars, slot, caller>>

Pending(t) ==
  /\ At(t, "pending")
  /\ Sched!PollPending(t)
  /\ Goto(t, "run")
  /\ UNCHANGED <<joinVars, slot, caller>>

(* The end of wrap_future_with_state: under the lock, store the result,    *)
(* take the waker and wake the owner, which may have finished.             *)
Deposit(c) ==
  /\ c # Root
  /\ At(c, "run")
  /\ awaits[c] = NoTask
  /\ result' = result \cup {c}
  /\ IF c \in waker /\ owner[c] \notin finished
       THEN Sched!Wake(owner[c])
       ELSE UNCHANGED schedVars
  /\ waker' = waker \ {c}
  /\ Goto(c, "done")
  /\ UNCHANGED <<owner, awaits, joined, slot, caller>>

(* The end of block_on's wrapper: fill the slot under its lock ...         *)
RootDeposit ==
  /\ At(Root, "run")
  /\ awaits[Root] = NoTask
  /\ slot' = TRUE
  /\ Goto(Root, "notify")
  /\ UNCHANGED <<schedVars, joinVars, caller>>

(* Mutant: the parked caller is left to find out by itself.                *)
RootNotifySkipped ==
  /\ At(Root, "notify")
  /\ Goto(Root, "done")
  /\ UNCHANGED <<schedVars, joinVars, slot, caller>>

(* ... then notify_one.                                                    *)
RootNotify ==
  /\ At(Root, "notify")
  /\ caller' = IF caller = "parked" THEN "check" ELSE caller
  /\ Goto(Root, "done")
  /\ UNCHANGED <<schedVars, joinVars, slot>>

Ready(t) ==
  /\ At(t, "done")
  /\ Sched!PollDone(t)
  /\ UNCHANGED <<pc, joinVars, slot, caller>>

(* The future panics: poll_task removes the task, its result is never      *)
(* stored and nobody is woken.                                             *)
Panic(t) ==
  /\ At(t, "run")
  /\ Sched!PollDone(t)
  /\ UNCHANGED <<pc, joinVars, slot, caller>>

-----------------------------------------------------------------------------

Step(t) ==
  \/ Yield(t) \/ Pending(t) \/ Deposit(t) \/ Ready(t)
  \/ t = Root /\ (RootDeposit \/ RootNotify)
  \/ \E c \in Task : Spawn(t, c) \/ Await(t, c) \/ PollJoin(t, c)

Next ==
  \/ BlockOn \/ CheckSlot \/ SpuriousWakeup
  \/ \E t \in Task : BeginPoll(t) \/ Step(t) \/ OtherWake(t) \/ Panic(t)

(* The caller and the workers run; a future that can finish does not yield *)
(* for ever.                                                               *)
Fairness ==
  /\ WF_vars(BlockOn)
  /\ WF_vars(CheckSlot)
  /\ \A t \in Task :
       /\ WF_vars(BeginPoll(t))
       /\ WF_vars(Step(t))
       /\ SF_vars(Deposit(t))
  /\ SF_vars(RootDeposit)

Spec == Init /\ [][Next]_vars
FairSpec == Spec /\ Fairness

-----------------------------------------------------------------------------
(* Properties.                                                             *)

(* Types; and the wakers left in a TaskState enqueue no finished task.     *)
TypeOK ==
  /\ owed \cup polling \subseteq Task \ (fresh \cup finished)
  /\ pc \in [Task -> {"run", "pending", "notify", "done"}]
  /\ owner \in [Task -> Task \cup {NoTask}]
  /\ awaits \in [Task -> Task \cup {NoTask}]
  /\ result \subseteq Task
  /\ waker \subseteq Task
  /\ joined \subseteq Task
  /\ slot \in BOOLEAN
  /\ caller \in {"spawn", "check", "parked", "returned"}

(* A task whose poll has returned Pending on a handle is woken when the    *)
(* result is there, and until then its waker is in the TaskState.          *)
JoinNotMissed ==
  \A c \in Task :
    LET t == owner[c] IN
      t # NoTask /\ awaits[t] = c
      /\ t \notin polling \cup owed \cup finished =>
        c \in waker /\ c \notin result

(* block_on returns only when the root's result is there, and a caller     *)
(* that is parked although it is there is about to be notified.            *)
CallerSignalled ==
  /\ slot /\ caller = "parked" => pc[Root] = "notify"
  /\ caller = "returned" => pc[Root] \in {"notify", "done"}

(* Tasks that poll_task has removed because their future panicked.         *)
Panicked == {t \in finished : pc[t] # "done"}

(* "the calling thread parks until the result is ready": block_on returns, *)
(* unless a future panics.                                                 *)
BlockOnCompletes ==
  caller = "check" ~> (caller = "returned" \/ Panicked # {})

(* catch_unwind is there so that a panicking task does not "potentially    *)
(* hang `block_on`": it returns, whatever panics.                          *)
BlockOnReturns == caller = "check" ~> caller = "returned"

=============================================================================
