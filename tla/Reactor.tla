------------------------------ MODULE Reactor -------------------------------
(***************************************************************************)
(* The I/O reactor (src/reactor.rs) with the socket futures that use it    *)
(* (src/net.rs, src/multi_thread/net.rs), against the kernel's epoll.      *)
(*                                                                         *)
(* The kernel keeps an interest list of descriptors.  With EPOLLET and     *)
(* EPOLLONESHOT a descriptor that epoll_ctl has armed is reported once,    *)
(* when one of its directions is ready then or becomes ready later, and is *)
(* disarmed by the report.  A closed descriptor's number may be used again *)
(* for the next socket.                                                    *)
(*                                                                         *)
(* Tasks run on the scheduler that WakeContract describes.  One thread at  *)
(* a time is in Reactor::poll: the driver that Executor elects, or the     *)
(* thread of the single-threaded runtime.  The reactor's own eventfd is    *)
(* part of Executor and Timers.                                            *)
(***************************************************************************)
EXTENDS Naturals, FiniteSets

CONSTANTS
  Task,
  Fd,          \* descriptor numbers
  NoTask,
  MaxEvents,   \* length of the array given to epoll_wait
  Shared       \* whether tasks accept on each other's sockets

ASSUME ConstAssumption ==
  /\ NoTask \notin Task
  /\ MaxEvents \in Nat \ {0}
  /\ Shared \in BOOLEAN

VARIABLES
  fresh, owed, polling, finished,  \* the scheduler, see WakeContract
  owner,     \* who holds the socket of a descriptor
  listeners, \* descriptors whose socket is a TcpListener
  ready,     \* directions in which a system call would not block
  hup,       \* sockets with an error or a hang-up
  inlist,    \* the kernel's interest list
  mask,      \* directions it watches
  armed,     \* descriptors that ONESHOT has not disabled
  regs,      \* keys of Reactor::registrations
  waker,     \* Registration::read_waker and write_waker
  awaits,    \* the future a task awaits, as <<descriptor, operation>>
  pc,        \* where a task is in its poll
  dpc,       \* where the thread in Reactor::poll is
  events,    \* what epoll_wait returned, as <<descriptor, directions>>
  wakers     \* wakers_to_wake

schedVars  == <<fresh, owed, polling, finished>>
socketVars == <<owner, listeners, ready, hup>>
kernelVars == <<inlist, mask, armed>>
regVars    == <<regs, waker>>
taskVars   == <<awaits, pc>>
pollVars   == <<dpc, events, wakers>>
vars == <<schedVars, socketVars, kernelVars, regVars, taskVars, pollVars>>

Sched == INSTANCE WakeContract

Dir == {"read", "write"}
Op  == {"accept", "read", "write"}

(* register_readable or register_writable.                                 *)
Side(o) == IF o = "write" THEN "write" ELSE "read"

NoOp == <<NoTask, "none">>
NoWakers == [d \in Dir |-> NoTask]

Init ==
  /\ Sched!Init
  /\ owner = [f \in Fd |-> NoTask]
  /\ listeners = {}
  /\ ready = [f \in Fd |-> {}]
  /\ hup = {}
  /\ inlist = {}
  /\ mask = [f \in Fd |-> {}]
  /\ armed = {}
  /\ regs = {}
  /\ waker = [f \in Fd |-> NoWakers]
  /\ awaits = [t \in Task |-> NoOp]
  /\ pc = [t \in Task |-> "run"]
  /\ dpc = "off"
  /\ events = {}
  /\ wakers = {}

Open(f) == owner[f] # NoTask

(* The directions of a Registration that have a waker.                     *)
Interest(w) == {d \in Dir : w[d] # NoTask}

-----------------------------------------------------------------------------
(* The other ends of the connections.                                      *)

BecomesReady(f, d) ==
  /\ Open(f)
  /\ d \notin ready[f]
  /\ ready' = [ready EXCEPT ![f] = @ \cup {d}]
  /\ UNCHANGED <<schedVars, owner, listeners, hup, kernelVars, regVars,
                 taskVars, pollVars>>

HangUp(f) ==
  /\ Open(f)
  /\ f \notin hup
  /\ hup' = hup \cup {f}
  /\ ready' = [ready EXCEPT ![f] = Dir]
  /\ UNCHANGED <<schedVars, owner, listeners, kernelVars, regVars, taskVars,
                 pollVars>>

-----------------------------------------------------------------------------
(* A task's poll.                                                          *)

At(t, l) == t \in polling /\ pc[t] = l
Goto(t, l) == pc' = [pc EXCEPT ![t] = l]

SpawnTask(t) ==
  /\ Sched!Spawn(t)
  /\ UNCHANGED <<socketVars, kernelVars, regVars, taskVars, pollVars>>

BeginPoll(t) ==
  /\ Sched!BeginPoll(t)
  /\ UNCHANGED <<socketVars, kernelVars, regVars, taskVars, pollVars>>

(* Somebody else wakes the task: it shares its waker with other futures.   *)
OtherWake(t) ==
  /\ Sched!Wake(t)
  /\ UNCHANGED <<socketVars, kernelVars, regVars, taskVars, pollVars>>

(* A new socket.                                                           *)
OpenSocket(t, f) ==
  /\ At(t, "run")
  /\ awaits[t] = NoOp
  /\ ~Open(f)
  /\ owner' = [owner EXCEPT ![f] = t]
  /\ UNCHANGED <<schedVars, ready, hup, kernelVars, regVars, taskVars,
                 pollVars>>

(* tcp_listen.  Without a socket, or when it cannot be set to non-blocking *)
(* mode, nothing is left of it.                                            *)
Bind(t, f) == OpenSocket(t, f) /\ listeners' = listeners \cup {f}

(* tcp_connect, which blocks its thread; or the stream that accept gave.   *)
Connect(t, f) == OpenSocket(t, f) /\ UNCHANGED listeners

(* accept, async_read and async_write make a future; a future that awaits  *)
(* something else may be dropped for it, its waker stays behind.           *)
StartOp(t, f, o) ==
  /\ At(t, "run")
  /\ Open(f)
  /\ f \in listeners <=> o = "accept"
  /\ owner[f] = t \/ (Shared /\ o = "accept")
  /\ \A u \in Task : awaits[u] # <<f, "drop">>
  /\ awaits[t] # <<f, o>>
  /\ awaits' = [awaits EXCEPT ![t] = <<f, o>>]
  /\ UNCHANGED <<schedVars, socketVars, kernelVars, regVars, pc, pollVars>>

(* The system call succeeds, and may use up the readiness.                 *)
Succeeds(t, f, o) ==
  /\ At(t, "run")
  /\ awaits[t] = <<f, o>>
  /\ Side(o) \in ready[f]
  /\ awaits' = [awaits EXCEPT ![t] = NoOp]
  /\ \/ UNCHANGED ready
     \/ f \notin hup /\ ready' = [ready EXCEPT ![f] = @ \ {Side(o)}]
  /\ UNCHANGED <<schedVars, owner, listeners, hup, kernelVars, regVars, pc,
                 pollVars>>

(* It would block: the task goes on to register its waker.                 *)
WouldBlock(t, f, o) ==
  /\ At(t, "run")
  /\ awaits[t] = <<f, o>>
  /\ Side(o) \notin ready[f]
  /\ Goto(t, "register")
  /\ UNCHANGED <<schedVars, socketVars, kernelVars, regVars, awaits, pollVars>>

(* It fails, or set_nonblocking does on the accepted stream: the future    *)
(* resolves to the error.                                                  *)
Fails(t, f, o) ==
  /\ At(t, "run")
  /\ awaits[t] = <<f, o>>
  /\ awaits' = [awaits EXCEPT ![t] = NoOp]
  /\ UNCHANGED <<schedVars, socketVars, kernelVars, regVars, pc, pollVars>>

Accept(t, f) == Succeeds(t, f, "accept") \/ WouldBlock(t, f, "accept")
Read(t, f)   == Succeeds(t, f, "read") \/ WouldBlock(t, f, "read")
Write(t, f)  == Succeeds(t, f, "write") \/ WouldBlock(t, f, "write")

(* Mutant: the directions that had a waker before this one.                *)
RegisterMaskStale(f, d) == Interest(waker[f])

(* Every direction of the entry that has a waker once this one is stored.  *)
RegisterMask(f, d) == Interest(waker[f]) \cup {d}

(* Reactor::register, under the lock: store the waker, then EPOLL_CTL_ADD  *)
(* or EPOLL_CTL_MOD with every direction that has one.  ADD fails on a     *)
(* descriptor in the list and MOD on one that is not.                      *)
Register(t, f, o) ==
  /\ At(t, "register")
  /\ awaits[t] = <<f, o>>
  /\ f \in regs <=> f \in inlist
  /\ waker' = [waker EXCEPT ![f][Side(o)] = t]
  /\ regs' = regs \cup {f}
  /\ inlist' = inlist \cup {f}
  /\ mask' = [mask EXCEPT ![f] = RegisterMask(f, Side(o))]
  /\ armed' = armed \cup {f}
  /\ Goto(t, "pending")
  /\ UNCHANGED <<schedVars, socketVars, awaits, pollVars>>

(* Mutant: a new entry stays in the map when ADD fails.                    *)
RegisterFailsKept(t, f, o) ==
  /\ At(t, "register")
  /\ awaits[t] = <<f, o>>
  /\ regs' = regs \cup {f}
  /\ awaits' = [awaits EXCEPT ![t] = NoOp]
  /\ Goto(t, "run")
  /\ UNCHANGED <<schedVars, socketVars, kernelVars, waker, pollVars>>

(* epoll_ctl fails: the old waker is put back, a new entry removed, and    *)
(* the future resolves to the error.                                       *)
RegisterFails(t, f, o) ==
  /\ At(t, "register")
  /\ awaits[t] = <<f, o>>
  /\ awaits' = [awaits EXCEPT ![t] = NoOp]
  /\ Goto(t, "run")
  /\ UNCHANGED <<schedVars, socketVars, kernelVars, regVars, pollVars>>

Pending(t) ==
  /\ At(t, "pending")
  /\ Sched!PollPending(t)
  /\ Goto(t, "run")
  /\ UNCHANGED <<socketVars, kernelVars, regVars, awaits, pollVars>>

(* Dropping a socket that no future borrows: deregister takes the entry    *)
(* out of the map ...                                                      *)
Deregister(t, f) ==
  /\ At(t, "run")
  /\ owner[f] = t
  /\ \A u \in Task \ {t} : awaits[u][1] # f
  /\ awaits' = [awaits EXCEPT ![t] = <<f, "drop">>]
  /\ regs' = regs \ {f}
  /\ waker' = [waker EXCEPT ![f] = NoWakers]
  /\ Goto(t, IF f \in regs THEN "delete" ELSE "close")
  /\ UNCHANGED <<schedVars, socketVars, kernelVars, pollVars>>

(* ... and, having unlocked it, out of the kernel's list ...               *)
Delete(t, f) ==
  /\ At(t, "delete")
  /\ awaits[t] = <<f, "drop">>
  /\ inlist' = inlist \ {f}
  /\ armed' = armed \ {f}
  /\ mask' = [mask EXCEPT ![f] = {}]
  /\ Goto(t, "close")
  /\ UNCHANGED <<schedVars, socketVars, regVars, awaits, pollVars>>

(* ... then the socket is closed.  The kernel forgets a closed descriptor. *)
Close(t, f) ==
  /\ At(t, "close")
  /\ awaits[t] = <<f, "drop">>
  /\ owner' = [owner EXCEPT ![f] = NoTask]
  /\ listeners' = listeners \ {f}
  /\ ready' = [ready EXCEPT ![f] = {}]
  /\ hup' = hup \ {f}
  /\ inlist' = inlist \ {f}
  /\ armed' = armed \ {f}
  /\ mask' = [mask EXCEPT ![f] = {}]
  /\ awaits' = [awaits EXCEPT ![t] = NoOp]
  /\ Goto(t, "run")
  /\ UNCHANGED <<schedVars, regVars, pollVars>>

Finish(t) ==
  /\ At(t, "run")
  /\ awaits[t] = NoOp
  /\ \A f \in Fd : owner[f] # t
  /\ Sched!PollDone(t)
  /\ UNCHANGED <<socketVars, kernelVars, regVars, taskVars, pollVars>>

-----------------------------------------------------------------------------
(* Reactor::poll.                                                          *)

Reported(f) == IF f \in hup THEN Dir ELSE mask[f] \cap ready[f]

Deliverable == {f \in armed : Reported(f) # {}}

(* A thread calls Reactor::poll; the length of the timeout is left open.   *)
EnterPoll ==
  /\ dpc = "off"
  /\ dpc' = "wait"
  /\ UNCHANGED <<schedVars, socketVars, kernelVars, regVars, taskVars, events,
                 wakers>>

(* epoll_wait, without the lock, returns some of the descriptors that are  *)
(* ready, at most as many as the array holds, and disarms them.  It        *)
(* returns none after its timeout, an interrupt or a write to the eventfd. *)
EpollWait(fs) ==
  /\ dpc = "wait"
  /\ Cardinality(fs) <= MaxEvents
  /\ events' = {<<f, Reported(f)>> : f \in fs}
  /\ armed' = armed \ fs
  /\ dpc' = "collect"
  /\ UNCHANGED <<schedVars, socketVars, inlist, mask, regVars, taskVars,
                 wakers>>

(* The directions of a descriptor that fired, and the wakers it is left    *)
(* with.                                                                   *)
Fired(f) == {d \in Dir : \E e \in events : e[1] = f /\ d \in e[2]}

(* Mutant: the entry is emptied, whatever direction fired.                 *)
SurvivingNone(f) == NoWakers

Surviving(f) == [d \in Dir |-> IF d \in Fired(f) THEN NoTask ELSE waker[f][d]]

(* Mutant: what survives is not armed again.                               *)
RearmedNone(fs) == {}

Rearmed(fs) == {f \in fs : Interest(Surviving(f)) # {}}

(* Under the lock: take the wakers of the directions that fired and arm    *)
(* the descriptor again for those that survive, with EPOLL_CTL_MOD, whose  *)
(* failure on a descriptor that is not in the list is ignored.  An event   *)
(* of a descriptor that is not registered is skipped.                      *)
Collect ==
  LET seen == {e[1] : e \in events} \cap regs
  IN  /\ dpc = "collect"
      /\ waker' = [f \in Fd |-> IF f \in seen THEN Surviving(f) ELSE waker[f]]
      /\ wakers' = {t \in Task :
                      \E f \in seen : \E d \in Fired(f) : waker[f][d] = t}
      /\ armed' = armed \cup (Rearmed(seen) \cap inlist)
      /\ mask' = [f \in Fd |-> IF f \in Rearmed(seen) \cap inlist
                                 THEN Interest(Surviving(f)) ELSE mask[f]]
      /\ events' = {}
      /\ dpc' = "wake"
      /\ UNCHANGED <<schedVars, socketVars, inlist, regs, taskVars>>

(* Waker::wake; the waker may outlive its task.                            *)
Wake(t) == IF t \in finished THEN UNCHANGED schedVars ELSE Sched!Wake(t)

(* Without the lock: call the wakers.                                      *)
WakeOne(t) ==
  /\ dpc = "wake"
  /\ t \in wakers
  /\ wakers' = wakers \ {t}
  /\ Wake(t)
  /\ UNCHANGED <<socketVars, kernelVars, regVars, taskVars, dpc, events>>

PollReturns ==
  /\ dpc = "wake"
  /\ wakers = {}
  /\ dpc' = "off"
  /\ UNCHANGED <<schedVars, socketVars, kernelVars, regVars, taskVars, events,
                 wakers>>

-----------------------------------------------------------------------------

OpStep(t) ==
  \E f \in Fd :
    \/ Accept(t, f) \/ Read(t, f) \/ Write(t, f)
    \/ \E o \in Op : Register(t, f, o)

TaskStep(t) ==
  \/ OpStep(t)
  \/ Pending(t)
  \/ \E f \in Fd : Delete(t, f) \/ Close(t, f)

DriverStep == Collect \/ PollReturns \/ \E t \in Task : WakeOne(t)

Next ==
  \/ \E t \in Task :
       \/ SpawnTask(t) \/ BeginPoll(t) \/ OtherWake(t)
       \/ TaskStep(t) \/ Finish(t)
       \/ \E f \in Fd :
            \/ Bind(t, f) \/ Connect(t, f) \/ Deregister(t, f)
            \/ \E o \in Op :
                 StartOp(t, f, o) \/ Fails(t, f, o) \/ RegisterFails(t, f, o)
  \/ \E f \in Fd : HangUp(f) \/ \E d \in Dir : BecomesReady(f, d)
  \/ \E fs \in SUBSET Deliverable : EpollWait(fs)
  \/ EnterPoll \/ DriverStep

(* Owed tasks are polled and polls go on (see Executor).  A thread that is *)
(* in Reactor::poll goes on, and the kernel passes over no descriptor that *)
(* it can report in one call of epoll_wait after another.  No thread has   *)
(* to call Reactor::poll: both runtimes do so only when they find the      *)
(* ready queue empty.                                                      *)
Fairness ==
  /\ \A t \in Task : WF_vars(BeginPoll(t) \/ TaskStep(t))
  /\ WF_vars(DriverStep)
  /\ \A f \in Fd :
       SF_vars(\E fs \in SUBSET Deliverable : f \in fs /\ EpollWait(fs))

Spec == Init /\ [][Next]_vars
FairSpec == Spec /\ Fairness

-----------------------------------------------------------------------------
(* Properties.                                                             *)

(* Types; and wakers left in the reactor enqueue no finished task.         *)
TypeOK ==
  /\ owed \cup polling \subseteq Task \ (fresh \cup finished)
  /\ owner \in [Fd -> Task \cup {NoTask}]
  /\ ready \in [Fd -> SUBSET Dir]
  /\ hup \subseteq Fd /\ listeners \subseteq Fd
  /\ inlist \subseteq Fd
  /\ mask \in [Fd -> SUBSET Dir]
  /\ armed \subseteq inlist
  /\ regs \subseteq Fd
  /\ waker \in [Fd -> [Dir -> Task \cup {NoTask}]]
  /\ awaits \in [Task -> {NoOp} \cup (Fd \X (Op \cup {"drop"}))]
  /\ pc \in [Task -> {"run", "register", "pending", "delete", "close"}]
  /\ dpc \in {"off", "wait", "collect", "wake"}
  /\ events \subseteq Fd \X SUBSET Dir
  /\ wakers \subseteq Task

(* The map and the kernel's interest list hold the same descriptors, all   *)
(* open, but for one that is being dropped: register picks ADD or MOD by   *)
(* the map, and "the map stays consistent" when epoll_ctl fails.           *)
MapMatchesKernel ==
  \A f \in Fd :
    /\ f \in regs => f \in inlist
    /\ f \in inlist \ regs =>
         \E t \in Task : pc[t] = "delete" /\ awaits[t][1] = f
    /\ f \in inlist => Open(f)
    /\ f \notin regs => waker[f] = NoWakers

(* "or that side's task is stranded": a waker in the map has its direction *)
(* armed in the kernel, or the thread in poll holds an event of the        *)
(* descriptor and will take the waker or arm it again.                     *)
NoSideStranded ==
  \A f \in regs : \A d \in Interest(waker[f]) :
    \/ f \in armed /\ d \in mask[f]
    \/ f \in {e[1] : e \in events}

(* A task that has returned Pending from a socket operation is known to    *)
(* the reactor, or its wake is under way.                                  *)
TaskNotForgotten ==
  \A t \in Task :
    awaits[t] # NoOp /\ t \notin polling \cup owed =>
      waker[awaits[t][1]][Side(awaits[t][2])] = t \/ t \in wakers

(* An operation that would not block any more is resumed, if again and     *)
(* again a thread finds the ready queue empty and is in Reactor::poll:     *)
(* "the task will yield until the reactor signals readability".            *)
Resumed ==
  []<>(dpc # "off") =>
    \A t \in Task, f \in Fd, o \in Op :
      (awaits[t] = <<f, o>> /\ Side(o) \in ready[f]) ~>
        (awaits[t] # <<f, o>> \/ Side(o) \notin ready[f])

=============================================================================
