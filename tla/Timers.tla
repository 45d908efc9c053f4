------------------------------- MODULE Timers -------------------------------
(***************************************************************************)
(* Timers of the multi-threaded runtime: MultiThreadRuntime::sleep, the    *)
(* TimerWheel with its inbox and heap, the lock-free AtomicWaker of each   *)
(* timer, Sleep::poll and the timer side of drive_io                       *)
(* (src/multi_thread/timer.rs, executor.rs, runtime.rs).                   *)
(*                                                                         *)
(* Each sleeper is a task that creates one Sleep and awaits it.  Tasks run *)
(* on the scheduler that WakeContract describes.  One driver at a time     *)
(* runs drive_io, which Executor shows of the driver token.                *)
(*                                                                         *)
(* Time is relative: left is how long until a deadline, in milliseconds,   *)
(* and a tick counts it down, so behaviours are unbounded in time.         *)
(***************************************************************************)
EXTENDS Naturals, FiniteSets

CONSTANTS
  Sleeper,    \* the tasks that sleep, and their timers
  MaxDelay,   \* bound on the duration given to sleep
  NoTimer

ASSUME ConstAssumption ==
  /\ MaxDelay \in Nat
  /\ NoTimer \notin Sleeper

VARIABLES
  fresh, owed, polling, finished,  \* the scheduler, see WakeContract
  pc,         \* where each sleeper is in sleep and Sleep::poll
  left,       \* TimerEntry::deadline minus now
  completed,  \* TimerState::completed
  cell,       \* TimerState::waker.state
  stored,     \* TimerState::waker.waker is Some
  inbox,      \* TimerWheel::inbox
  heap,       \* TimerWheel::heap
  eventfd,    \* the reactor's eventfd is readable
  dpc,        \* where the driver is in drive_io; "off" when there is none
  pass,       \* its first or its second call of process
  due,        \* entries of the heap that were due when it read the clock
  entry,      \* the entry it is firing
  next,       \* what process returned; 0 stands for None
  budget,     \* what is left of the timeout of epoll_wait
  late        \* time between reading the clock and entering epoll_wait

schedVars  == <<fresh, owed, polling, finished>>
timerVars  == <<completed, cell, stored>>
driverVars == <<dpc, pass, due, entry, next, budget, late>>
vars == <<schedVars, pc, left, timerVars, inbox, heap, eventfd, driverVars>>

Sched == INSTANCE WakeContract WITH Task <- Sleeper

EMPTY  == "empty"
STORED == "stored"
WAKING == "waking"

IdleTimeout    == 5  \* drive_io's timeout without timers
PendingTimeout == 1  \* its timeout when only the inbox has timers

Least(S) == CHOOSE x \in S : \A y \in S : x <= y
Greater(x, y) == IF x < y THEN y ELSE x

Init ==
  /\ Sched!Init
  /\ pc = [s \in Sleeper |-> "new"]
  /\ left = [s \in Sleeper |-> 0]
  /\ completed = [s \in Sleeper |-> FALSE]
  /\ cell = [s \in Sleeper |-> EMPTY]
  /\ stored = [s \in Sleeper |-> FALSE]
  /\ inbox = {}
  /\ heap = {}
  /\ eventfd = FALSE
  /\ dpc = "off"
  /\ pass = 1
  /\ due = {}
  /\ entry = NoTimer
  /\ next = 0
  /\ budget = 0
  /\ late = 0

-----------------------------------------------------------------------------
(* The scheduler.  Waking an idle task enqueues it, and enqueue_task pokes *)
(* the reactor while there is a driver.                                    *)

WakeTask(s) ==
  IF s \in finished
    THEN UNCHANGED <<schedVars, eventfd>>
    ELSE /\ Sched!Wake(s)
         /\ eventfd' = (eventfd \/ (dpc # "off" /\ s \notin owed \cup polling))

SpawnSleeper(s) ==
  /\ Sched!Spawn(s)
  /\ UNCHANGED <<pc, left, timerVars, inbox, heap, eventfd, driverVars>>

BeginPoll(s) ==
  /\ Sched!BeginPoll(s)
  /\ UNCHANGED <<pc, left, timerVars, inbox, heap, eventfd, driverVars>>

(* Somebody else wakes the task: it shares its waker with other futures.   *)
OtherWake(s) ==
  /\ s \notin fresh \cup finished
  /\ WakeTask(s)
  /\ UNCHANGED <<pc, left, timerVars, inbox, heap, driverVars>>

-----------------------------------------------------------------------------
(* MultiThreadRuntime::sleep, called inside the task's poll.               *)

At(s, l) == s \in polling /\ pc[s] = l

Register(s, d) ==
  /\ At(s, "new")
  /\ left' = [left EXCEPT ![s] = d]
  /\ inbox' = inbox \cup {s}
  /\ pc' = [pc EXCEPT ![s] = "poke"]
  /\ UNCHANGED <<schedVars, timerVars, heap, eventfd, driverVars>>

(* Mutant: the driver is not told about the new deadline.                  *)
SleepPokeSkipped(s) ==
  /\ At(s, "poke")
  /\ pc' = [pc EXCEPT ![s] = "load"]
  /\ UNCHANGED <<schedVars, left, timerVars, inbox, heap, eventfd, driverVars>>

SleepPoke(s) ==
  /\ At(s, "poke")
  /\ eventfd' = TRUE
  /\ pc' = [pc EXCEPT ![s] = "load"]
  /\ UNCHANGED <<schedVars, left, timerVars, inbox, heap, driverVars>>

(* Mutant: WAKING is not waited for.                                       *)
ClaimableAlways(s) == TRUE

(* Both sides of an AtomicWaker spin while its state is WAKING.            *)
Claimable(s) == cell[s] # WAKING

(* Sleep::poll.  The first load of completed ...                           *)
PollLoad(s) ==
  /\ At(s, "load")
  /\ ~completed[s]
  /\ pc' = [pc EXCEPT ![s] = "claim"]
  /\ UNCHANGED <<schedVars, left, timerVars, inbox, heap, eventfd, driverVars>>

(* ... AtomicWaker::register, which claims the cell, then fills it ...     *)
RegisterClaim(s) ==
  /\ At(s, "claim")
  /\ Claimable(s)
  /\ cell' = [cell EXCEPT ![s] = WAKING]
  /\ pc' = [pc EXCEPT ![s] = "write"]
  /\ UNCHANGED <<schedVars, left, completed, stored, inbox, heap, eventfd,
                 driverVars>>

RegisterStore(s) ==
  /\ At(s, "write")
  /\ stored' = [stored EXCEPT ![s] = TRUE]
  /\ cell' = [cell EXCEPT ![s] = STORED]
  /\ pc' = [pc EXCEPT ![s] = "check"]
  /\ UNCHANGED <<schedVars, left, completed, inbox, heap, eventfd, driverVars>>

(* Mutant: Pending without looking at completed again.                     *)
PollPendingUnchecked(s) ==
  /\ At(s, "check")
  /\ pc' = [pc EXCEPT ![s] = "load"]
  /\ Sched!PollPending(s)
  /\ UNCHANGED <<left, timerVars, inbox, heap, eventfd, driverVars>>

(* ... and the second load: Pending.                                       *)
PollPending(s) ==
  /\ At(s, "check")
  /\ ~completed[s]
  /\ pc' = [pc EXCEPT ![s] = "load"]
  /\ Sched!PollPending(s)
  /\ UNCHANGED <<left, timerVars, inbox, heap, eventfd, driverVars>>

(* Either load finds the timer completed: Ready, and the task goes on to   *)
(* finish.                                                                 *)
PollReady(s) ==
  /\ At(s, "load") \/ At(s, "check")
  /\ completed[s]
  /\ pc' = [pc EXCEPT ![s] = "ready"]
  /\ Sched!PollDone(s)
  /\ UNCHANGED <<left, timerVars, inbox, heap, eventfd, driverVars>>

(* The task drops the Sleep instead of polling it; its entry stays.        *)
DropSleep(s) ==
  /\ At(s, "load")
  /\ pc' = [pc EXCEPT ![s] = "dropped"]
  /\ Sched!PollDone(s)
  /\ UNCHANGED <<left, timerVars, inbox, heap, eventfd, driverVars>>

-----------------------------------------------------------------------------
(* drive_io: process, epoll_wait, process.                                 *)

Goto(l) == dpc' = l

BeginDrive ==
  /\ dpc = "off"
  /\ Goto("drain")
  /\ pass' = 1
  /\ UNCHANGED <<schedVars, pc, left, timerVars, inbox, heap, eventfd, due,
                 entry, next, budget, late>>

(* Mutant: the inbox is cleared and not moved.                             *)
DrainInboxCleared ==
  /\ dpc = "drain"
  /\ inbox' = {}
  /\ Goto("clock")
  /\ UNCHANGED <<schedVars, pc, left, timerVars, heap, eventfd, pass, due,
                 entry, next, budget, late>>

(* TimerWheel::process moves the inbox to the heap ...                     *)
DrainInbox ==
  /\ dpc = "drain"
  /\ heap' = heap \cup inbox
  /\ inbox' = {}
  /\ Goto("clock")
  /\ UNCHANGED <<schedVars, pc, left, timerVars, eventfd, pass, due, entry,
                 next, budget, late>>

(* Mutant: entries due within a millisecond count as due.                  *)
ExpiredEarly == {s \in heap : left[s] <= 1}

Expired == {s \in heap : left[s] = 0}

(* ... reads the clock once ...                                            *)
ReadClock ==
  /\ dpc = "clock"
  /\ due' = Expired
  /\ next' = IF heap = Expired THEN 0
                               ELSE Least({left[s] : s \in heap \ Expired})
  /\ late' = 0
  /\ Goto("fire")
  /\ UNCHANGED <<schedVars, pc, left, timerVars, inbox, heap, eventfd, pass,
                 entry, budget>>

(* Mutant: the entry is peeked at, not popped.                             *)
PopPeeks(s) == heap

Pop(s) == heap \ {s}

(* ... and pops the entries due by then: set completed, then wake.         *)
Fire(s) ==
  /\ dpc = "fire"
  /\ s \in due
  /\ due' = due \ {s}
  /\ heap' = Pop(s)
  /\ completed' = [completed EXCEPT ![s] = TRUE]
  /\ entry' = s
  /\ Goto("wake")
  /\ UNCHANGED <<schedVars, pc, left, cell, stored, inbox, eventfd, pass, next,
                 budget, late>>

(* AtomicWaker::wake: nothing to wake, or claim the cell, empty it, call.  *)
WakeClaim ==
  /\ dpc = "wake"
  /\ Claimable(entry)
  /\ IF cell[entry] = EMPTY
       THEN Goto("fire") /\ entry' = NoTimer /\ UNCHANGED cell
       ELSE /\ Goto("take")
            /\ cell' = [cell EXCEPT ![entry] = WAKING]
            /\ UNCHANGED entry
  /\ UNCHANGED <<schedVars, pc, left, completed, stored, inbox, heap, eventfd,
                 pass, due, next, budget, late>>

WakeTake ==
  /\ dpc = "take"
  /\ stored' = [stored EXCEPT ![entry] = FALSE]
  /\ cell' = [cell EXCEPT ![entry] = EMPTY]
  /\ Goto(IF stored[entry] THEN "call" ELSE "fire")
  /\ entry' = IF stored[entry] THEN entry ELSE NoTimer
  /\ UNCHANGED <<schedVars, pc, left, completed, inbox, heap, eventfd, pass,
                 due, next, budget, late>>

WakeCall ==
  /\ dpc = "call"
  /\ WakeTask(entry)
  /\ entry' = NoTimer
  /\ Goto("fire")
  /\ UNCHANGED <<pc, left, timerVars, inbox, heap, pass, due, next, budget,
                 late>>

(* process returns; after the first call drive_io picks the timeout and    *)
(* enters epoll_wait, after the second it is done.                         *)
ProcessReturns ==
  /\ dpc = "fire"
  /\ due = {}
  /\ IF pass = 1
       THEN /\ budget' = IF next # 0 THEN next ELSE
                         IF heap \cup inbox # {} THEN PendingTimeout
                                                 ELSE IdleTimeout
            /\ Goto("epoll")
            /\ UNCHANGED late
       ELSE /\ Goto("off")
            /\ late' = 0
            /\ UNCHANGED budget
  /\ next' = 0
  /\ UNCHANGED <<schedVars, pc, left, timerVars, inbox, heap, eventfd, pass,
                 due, entry>>

(* epoll_wait returns and Reactor::poll drains the eventfd; sockets may    *)
(* make it return at any time.                                             *)
EpollReturns ==
  /\ dpc = "epoll"
  /\ eventfd' = FALSE
  /\ budget' = 0
  /\ late' = 0
  /\ pass' = 2
  /\ Goto("drain")
  /\ UNCHANGED <<schedVars, pc, left, timerVars, inbox, heap, due, entry,
                 next>>

EpollMustReturn == (eventfd \/ budget = 0) /\ EpollReturns

DriverStep ==
  \/ DrainInbox \/ ReadClock \/ (\E s \in Sleeper : Fire(s))
  \/ WakeClaim \/ WakeTake \/ WakeCall \/ ProcessReturns \/ EpollMustReturn

-----------------------------------------------------------------------------

(* A millisecond passes.                                                   *)
Tick ==
  /\ left' = [s \in Sleeper |-> IF left[s] = 0 THEN 0 ELSE left[s] - 1]
  /\ IF dpc = "epoll"
       THEN /\ budget' = IF budget = 0 THEN 0 ELSE budget - 1
            /\ UNCHANGED late
       ELSE /\ late' = IF /\ dpc \in {"fire", "wake", "take", "call"}
                          /\ late < MaxDelay
                         THEN late + 1 ELSE late
            /\ UNCHANGED budget
  /\ UNCHANGED <<schedVars, pc, timerVars, inbox, heap, eventfd, dpc, pass,
                 due, entry, next>>

PollStep(s) ==
  \/ SleepPoke(s) \/ PollLoad(s) \/ RegisterClaim(s) \/ RegisterStore(s)
  \/ PollPending(s) \/ PollReady(s)
  \/ \E d \in 0..MaxDelay : Register(s, d)

Next ==
  \/ \E s \in Sleeper :
       \/ SpawnSleeper(s) \/ BeginPoll(s) \/ OtherWake(s)
       \/ PollStep(s) \/ DropSleep(s)
  \/ BeginDrive \/ DriverStep \/ EpollReturns \/ Tick

(* Time passes; tasks that are owed a poll get it and polls run to their   *)
(* end (see Executor); a worker that drives goes on.  None has to begin: a *)
(* worker drives only when it finds the ready queue empty.                 *)
Fairness ==
  /\ WF_vars(Tick)
  /\ WF_vars(DriverStep)
  /\ \A s \in Sleeper : WF_vars(BeginPoll(s) \/ PollStep(s))

Spec == Init /\ [][Next]_vars
FairSpec == Spec /\ Fairness

-----------------------------------------------------------------------------
(* Properties.                                                             *)

(* Types; and no deadline is farther away than the duration given to sleep.*)
TypeOK ==
  /\ pc \in [Sleeper -> {"new", "poke", "load", "claim", "write", "check",
                         "ready", "dropped"}]
  /\ left \in [Sleeper -> 0..MaxDelay]
  /\ completed \in [Sleeper -> BOOLEAN]
  /\ cell \in [Sleeper -> {EMPTY, STORED, WAKING}]
  /\ stored \in [Sleeper -> BOOLEAN]
  /\ inbox \subseteq Sleeper
  /\ heap \subseteq Sleeper
  /\ eventfd \in BOOLEAN
  /\ dpc \in {"off", "drain", "clock", "fire", "wake", "take", "call", "epoll"}
  /\ pass \in {1, 2}
  /\ due \subseteq heap
  /\ entry \in Sleeper \cup {NoTimer}
  /\ next \in 0..MaxDelay
  /\ budget \in 0..Greater(IdleTimeout, MaxDelay)
  /\ late \in 0..MaxDelay

(* A Sleep never resolves before its deadline.                             *)
NeverEarly ==
  \A s \in Sleeper : completed[s] \/ pc[s] = "ready" => left[s] = 0

(* The SAFETY comments of AtomicWaker: who has set WAKING is alone in the  *)
(* cell, and outside that the state tells what the cell holds.             *)
CellExclusive ==
  \A s \in Sleeper :
    /\ ~(pc[s] = "write" /\ dpc = "take" /\ entry = s)
    /\ cell[s] = WAKING <=> pc[s] = "write" \/ (dpc = "take" /\ entry = s)
    /\ cell[s] # WAKING => (stored[s] <=> cell[s] = STORED)

(* "Double-check after registering to avoid missed wake": a task that has  *)
(* returned Pending from its Sleep is woken once the timer has fired; the  *)
(* only ones that are neither owed a poll nor in one are about to be       *)
(* woken by the driver.                                                    *)
NoMissedWake ==
  \A s \in Sleeper :
    completed[s] /\ pc[s] = "load" =>
      \/ s \in owed \cup polling \cup finished
      \/ entry = s /\ dpc \in {"wake", "take", "call"}

(* A pending timer is in the wheel exactly once, until it has completed.   *)
InWheel ==
  \A s \in Sleeper :
    /\ pc[s] # "new" /\ ~completed[s] <=> s \in inbox \cup heap
    /\ ~(s \in inbox /\ s \in heap)

(* The comment in sleep: poking the reactor makes the driver recompute the *)
(* next deadline.  While the driver is in epoll_wait, no timer's deadline  *)
(* lies before the timeout, by more than the time it took to get there or  *)
(* the millisecond of PendingTimeout, unless the eventfd is set or the     *)
(* registering thread is about to set it.                                  *)
DriverWakesInTime ==
  dpc = "epoll" =>
    \A s \in inbox \cup heap :
      \/ budget <= left[s] + Greater(late, 1)
      \/ eventfd
      \/ pc[s] = "poke"

(* A Sleep "resolves after `duration`", and its task gets past it, if      *)
(* again and again a worker finds the ready queue empty and drives.        *)
SleepResolves ==
  []<>(dpc # "off") => \A s \in Sleeper : pc[s] = "load" ~> s \in finished

=============================================================================
