---------------------------- MODULE LocalProofs ----------------------------
(***************************************************************************)
(* Proofs about LocalRuntime, for any tasks, any delays, any number of     *)
(* units in a millisecond and any bound on the milliseconds of a timeout.  *)
(***************************************************************************)
EXTENDS LocalRuntime, WellFoundedInduction, SequenceTheorems, TLAPS

(* A task is being polled, ids are drained and entries are due only at     *)
(* some places of block_on, and block_on has a root task throughout.       *)
Places ==
  /\ cur # NoTask <=> pc \in {"poll", "ready"}
  /\ cur # NoTask => cur \in tasks
  /\ root = NoTask <=> pc = "outside"
  /\ root \notin fresh
  /\ batch # <<>> => pc \in {"next", "poll", "ready"}
  /\ due # {} => pc \in {"fire", "fire again"}

(* A JoinHandle has one owner: the caller of spawn, one future, or         *)
(* block_on.                                                               *)
OneOwner ==
  /\ root \notin handles
  /\ \A t \in Task :
       awaits[t] # NoTask =>
         /\ awaits[t] \notin handles \cup {root}
         /\ \A u \in Task : awaits[u] = awaits[t] => u = t

(* A result is stored once, by the task's last poll: the task is in the    *)
(* executor's map only until tick removes it.                              *)
StoredLast ==
  /\ result \cap fresh = {}
  /\ \A t \in result \cap tasks : pc = "ready" /\ t = cur
  /\ pc = "ready" => cur \in result

(* Until block_on takes it, the result of the root is there or the task    *)
(* that will store it is in the map; when it is there, the flag is set;    *)
(* and while the flag is not, storing it will set it.                      *)
RootReturns ==
  /\ NeverGivesUp
  /\ root # NoTask =>
       /\ root \in tasks \cup result
       /\ root \in result =>
            woken /\ pc \in {"tick", "next", "poll", "ready", "handle"}
       /\ woken \/ waker[root] = Caller

(* After process, what it returned bounds every deadline that is not due,  *)
(* to within the time since it read the clock.                             *)
Deadlines ==
  /\ next \in 0..MaxDelay /\ late \in Nat /\ budget \in Nat
  /\ pc = "fire" =>
       IF next = 0 THEN heap = due
                   ELSE \A t \in heap \ due : next <= left[t] + late
  /\ ParksInTime

(* A task that waits is in the map and is not the one being polled, and    *)
(* its timer has its waker until it fires.                                 *)
Waiting ==
  /\ sleeping \cup joining \subseteq tasks \ {cur}
  /\ sleeping \subseteq completed \cup stored
  /\ WaiterQueued

IInv ==
  /\ TypeOK /\ Places /\ OneOwner /\ StoredLast /\ RootReturns
  /\ Deadlines /\ Waiting

-----------------------------------------------------------------------------

(* Zenon proves most leaves; the others, with arithmetic, sequences or     *)
(* updated functions, cite SMT.                                            *)
USE ZenonT(60)

-----------------------------------------------------------------------------
(* The ready queue.                                                        *)

(* ReadyQueue::push queues the task, keeps what is queued, and no id is    *)
(* twice in the queue.                                                     *)
LEMMA PushQueues ==
  ASSUME NEW t \in Task, queue \in Seq(Task), Push(t)
  PROVE  /\ queue' \in Seq(Task)
         /\ \A u : InSeq(u, queue)' <=> InSeq(u, queue) \/ u = t
         /\ (\A i, j \in 1..Len(queue) : queue[i] = queue[j] => i = j)
            => \A i, j \in 1..Len(queue') : queue'[i] = queue'[j] => i = j
<1>1. CASE InSeq(t, queue)
  BY <1>1 DEF Push, InSeq
<1>2. CASE ~InSeq(t, queue)
  <2>1. queue' = Append(queue, t)
    BY <1>2 DEF Push
  <2>2. /\ queue' \in Seq(Task) /\ Len(queue') = Len(queue) + 1
        /\ queue'[Len(queue) + 1] = t
        /\ \A i \in 1..Len(queue) : queue'[i] = queue[i]
    BY <2>1, SMT
  <2>3. \A u : InSeq(u, queue)' <=> InSeq(u, queue) \/ u = t
    BY <2>2, SMT DEF InSeq
  <2> QED
    BY <1>2, <2>2, <2>3, SMTT(60) DEF InSeq
<1> QED
  BY <1>1, <1>2

(* A wake adds the task to those that are queued.                          *)
LEMMA WakeQueues ==
  ASSUME NEW t \in Task, queue \in Seq(Task), Push(t), UNCHANGED batch
  PROVE  \A u : Queued(u)' <=> Queued(u) \/ u = t
BY PushQueues DEF Queued, InSeq

(* tick takes the whole queue, so a queued task stays queued.              *)
LEMMA TickQueues ==
  ASSUME Tick, queue \in Seq(Task), batch = <<>>
  PROVE  /\ queue' = <<>> /\ batch' = queue
         /\ \A u : Queued(u)' <=> Queued(u)
<1>1. queue' = <<>> /\ batch' = queue
  BY SMT DEF Tick, Drain
<1> QED
  BY <1>1 DEF Queued, InSeq

(* The next drained id, and only it, leaves the batch.                     *)
LEMMA PopQueues ==
  ASSUME batch \in Seq(Task), batch # <<>>, batch' = Tail(batch),
         UNCHANGED queue
  PROVE  /\ Head(batch) \in Task /\ batch' \in Seq(Task)
         /\ Queued(Head(batch))
         /\ \A u : Queued(u) => Queued(u)' \/ u = Head(batch)
         /\ \A u : Queued(u)' => Queued(u)
<1>1. /\ batch' \in Seq(Task) /\ Len(batch') = Len(batch) - 1
      /\ Len(batch) \in Nat \ {0} /\ Head(batch) = batch[1]
      /\ Head(batch) \in Task
      /\ \A i \in 1..Len(batch') : batch'[i] = batch[i + 1]
  BY SMT
<1>2. InSeq(Head(batch), batch)
  BY <1>1, SMT DEF InSeq
<1>3. ASSUME NEW u, InSeq(u, batch), u # Head(batch) PROVE InSeq(u, batch')
  <2>1. PICK i \in 1..Len(batch) : batch[i] = u
    BY <1>3 DEF InSeq
  <2>2. i - 1 \in 1..Len(batch') /\ batch'[i - 1] = u
    BY <1>1, <1>3, <2>1, SMTT(60)
  <2> QED
    BY <2>2 DEF InSeq
<1>4. ASSUME NEW u, InSeq(u, batch') PROVE InSeq(u, batch)
  <2>1. PICK i \in 1..Len(batch') : batch'[i] = u
    BY <1>4 DEF InSeq
  <2>2. i + 1 \in 1..Len(batch) /\ batch[i + 1] = u
    BY <1>1, <2>1, SMT
  <2> QED
    BY <2>2 DEF InSeq
<1> QED
  BY <1>1, <1>2, <1>3, <1>4 DEF Queued, InSeq

(* A panic moves the rest of the batch to what is lost, so a task that was *)
(* queued or lost still is.                                                *)
LEMMA PanicLoses ==
  ASSUME PollPanics, batch \in Seq(Task)
  PROVE  \A u : Queued(u)' \/ u \in lost' <=> Queued(u) \/ u \in lost
<1>1. queue' = queue /\ batch' = <<>>
  BY DEF PollPanics
<1>2. \A u : u \in lost' <=> u \in lost \/ InSeq(u, batch)
  BY DEF PollPanics, InSeq
<1>3. \A u : InSeq(u, queue)' <=> InSeq(u, queue)
  BY <1>1 DEF InSeq
<1>4. \A u : ~InSeq(u, batch)'
  BY <1>1, SMT DEF InSeq
<1> QED
  BY <1>2, <1>3, <1>4 DEF Queued

(* What leaves the queue and the batch alone leaves the same tasks queued. *)
LEMMA QueuesSame ==
  UNCHANGED <<queue, batch>> => \A u : Queued(u)' <=> Queued(u)
BY DEF Queued, InSeq

-----------------------------------------------------------------------------
(* Durations.                                                              *)

(* A set of durations that is not empty has a least one: the deadline that *)
(* process finds at the top of the heap.                                   *)
LEMMA LeastIsLeast ==
  ASSUME NEW S \in SUBSET Nat, S # {}
  PROVE  Least(S) \in S /\ \A y \in S : Least(S) <= y
<1>1. PICK x \in S : \A y \in S : ~(<<y, x>> \in OpToRel(<, Nat))
  BY NatLessThanWellFounded, WFMin
<1>2. \A y \in S : x <= y
  <2>1. \A y \in S : ~(y < x)
    BY <1>1 DEF OpToRel
  <2> QED
    BY <2>1, SMT
<1> QED
  BY <1>2 DEF Least

(* Reactor::poll gives epoll_wait a time that is not zero, and less than a *)
(* millisecond more than the duration it was given.                        *)
LEMMA TimeoutRounds ==
  ASSUME NEW d \in Nat \ {0}
  PROVE  /\ TimeoutMs(d) \in Nat
         /\ UnitsPerMs * TimeoutMs(d) \in Nat
         /\ UnitsPerMs * TimeoutMs(d) > 0
         /\ UnitsPerMs * TimeoutMs(d) < d + UnitsPerMs
<1> DEFINE ms == (d + UnitsPerMs - 1) \div UnitsPerMs
<1>1. /\ ms \in Nat /\ ms >= 1
      /\ UnitsPerMs * ms <= d + UnitsPerMs - 1
  BY ConstAssumption, SMTT(60)
<1>2. TimeoutMs(d) \in Nat /\ TimeoutMs(d) >= 1 /\ TimeoutMs(d) <= ms
  BY <1>1, ConstAssumption, SMT DEF TimeoutMs
<1> HIDE DEF ms
<1>3. ASSUME NEW k \in Nat, k >= 1, k <= ms
      PROVE  /\ UnitsPerMs * k \in Nat
             /\ UnitsPerMs * k > 0 /\ UnitsPerMs * k <= UnitsPerMs * ms
  BY <1>1, <1>3, ConstAssumption, SMTT(60)
<1> QED
  BY <1>1, <1>2, <1>3, ConstAssumption, SMTT(60)

(* block_on never gives Reactor::poll a timeout of zero.                   *)
LEMMA TimeoutPositive ==
  ASSUME next \in 0..MaxDelay PROVE Timeout \in Nat \ {0}
BY ConstAssumption, SMT DEF Timeout, IdleTimeout, PendingTimeout

-----------------------------------------------------------------------------
(* The steps.                                                              *)

(* A step is one of these operations, or it leaves everything alone.       *)
LEMMA NextCases ==
  ASSUME [Next]_vars
  PROVE  \/ \E t \in Task, d \in 0..MaxDelay : Sleep(t, d)
         \/ \E t \in Task, c \in handles \cup {NoTask} : Spawn(t, c)
         \/ \E t \in Task, c \in handles \cup {NoTask} : BlockOn(t, c)
         \/ Tick \/ TickReturns \/ PollNext
         \/ \E t \in Task : UserWake(t)
         \/ PollPending \/ PollSleep \/ PollJoin \/ PollReady
         \/ Remove \/ PollPanics \/ PollHandle
         \/ Process("process", "fire")
         \/ Process("process again", "fire again")
         \/ \E t \in Task : Fire(t)
         \/ EnterReactor
         \/ \E t \in Task : IoWake(t)
         \/ LeaveReactor \/ EndOfLoop \/ ClockTick
         \/ UNCHANGED vars
BY DEF Next, LoopStep, PollEnds

(* TypeOK by parts: the queues, the rest of the executor, the handles and  *)
(* the timers.                                                             *)
QueuesTyped ==
  /\ queue \in Seq(Task) /\ batch \in Seq(Task)
  /\ \A i, j \in 1..Len(queue) : queue[i] = queue[j] => i = j

ExecTyped ==
  /\ fresh \subseteq Task /\ tasks \subseteq Task \ fresh
  /\ poisoned \subseteq Task /\ lost \subseteq Task
  /\ cur \in Task \cup {NoTask}
  /\ pc \in {"outside", "tick", "next", "poll", "ready", "handle", "process",
             "fire", "park", "process again", "fire again", "panicked"}
  /\ sleeping \subseteq Task /\ joining \subseteq Task

HandlesTyped ==
  /\ root \in Task \cup {NoTask}
  /\ woken \in BOOLEAN
  /\ handles \subseteq Task \ fresh
  /\ awaits \in [Task -> (Task \ fresh) \cup {NoTask}]
  /\ result \subseteq Task
  /\ waker \in [Task -> Task \cup {NoTask, Caller}]

TimersTyped ==
  /\ left \in [Task -> 0..MaxDelay]
  /\ due \subseteq heap /\ heap \subseteq Task
  /\ completed \subseteq Task /\ stored \subseteq heap

(* The types, by the part of the runtime that keeps them.                  *)
LEMMA TypeParts ==
  TypeOK <=> QueuesTyped /\ ExecTyped /\ HandlesTyped /\ TimersTyped
BY DEF TypeOK, QueuesTyped, ExecTyped, HandlesTyped, TimersTyped

(* A runtime that was just made satisfies the invariant.                   *)
LEMMA InitIInv == Init => IInv
<1> SUFFICES ASSUME Init PROVE IInv
  OBVIOUS
<1> USE ConstAssumption DEF Init
<1>1. TypeOK
  <2>1. QueuesTyped
    BY SMT DEF QueuesTyped
  <2>2. ExecTyped
    BY DEF ExecTyped
  <2>3. HandlesTyped
    BY DEF HandlesTyped
  <2>4. TimersTyped
    BY SMT DEF TimersTyped
  <2> QED
    BY <2>1, <2>2, <2>3, <2>4, TypeParts
<1>2. Places /\ OneOwner /\ StoredLast /\ RootReturns
  BY DEF Places, OneOwner, StoredLast, RootReturns, NeverGivesUp
<1>3. Deadlines /\ Waiting
  BY SMT DEF Deadlines, ParksInTime, Waiting, WaiterQueued
<1> QED
  BY <1>1, <1>2, <1>3 DEF IInv

(* No step puts an id twice into the ready queue, or what is not an id.    *)
LEMMA QueuesStep ==
  TypeOK /\ Places /\ [Next]_vars => QueuesTyped'
<1> SUFFICES ASSUME TypeOK, Places, [Next]_vars
             PROVE  QueuesTyped'
  OBVIOUS
<1> USE ConstAssumption DEF execVars, handleVars, timerVars, clockVars
<1>1. ASSUME NEW t \in Task, NEW c \in handles \cup {NoTask}, Spawn(t, c)
      PROVE  QueuesTyped'
  BY <1>1, PushQueues DEF Spawn, Insert, TypeOK, QueuesTyped
<1>2. ASSUME NEW t \in Task, NEW c \in handles \cup {NoTask}, BlockOn(t, c)
      PROVE  QueuesTyped'
  BY <1>2, PushQueues DEF BlockOn, Insert, StartWoken, TypeOK, QueuesTyped
<1>3. CASE Tick
  BY <1>3, TickQueues, SMTT(60) DEF Tick, Drain, TypeOK, QueuesTyped
<1>4. CASE PollNext
  BY <1>4, PopQueues DEF PollNext, Alive, TypeOK, QueuesTyped
<1>5. ASSUME NEW t \in Task, UserWake(t)
      PROVE  QueuesTyped'
  BY <1>5, PushQueues DEF UserWake, Running, TypeOK, QueuesTyped
<1>6. CASE PollReady
  BY <1>6, PushQueues DEF PollReady, StoreResult, Running, TypeOK, QueuesTyped
<1>7. CASE PollPanics
  BY <1>7, SMTT(60) DEF PollPanics, Leave, TypeOK, QueuesTyped
<1>8. ASSUME NEW t \in Task, Fire(t)
      PROVE  QueuesTyped'
  BY <1>8, PushQueues DEF Fire, FireWake, TypeOK, QueuesTyped
<1>9. ASSUME NEW t \in Task, IoWake(t)
      PROVE  QueuesTyped'
  BY <1>9, PushQueues DEF IoWake, TypeOK, QueuesTyped
<1>10. CASE UNCHANGED <<queue, batch>>
  BY <1>10 DEF TypeOK, QueuesTyped
<1>11. CASE (\E t \in Task, d \in 0..MaxDelay : Sleep(t, d)) \/ TickReturns \/
          PollPending \/ PollSleep \/ PollJoin \/ Remove \/ PollHandle \/
          Process("process", "fire") \/
          Process("process again", "fire again") \/ EnterReactor \/
          LeaveReactor \/ EndOfLoop \/ ClockTick \/ UNCHANGED vars
  BY <1>11, <1>10 DEF Sleep, TickReturns, PollPending, Running, Suspend,
     PollSleep, PollJoin, JoinStore, Remove, PollHandle, TakeResult, Leave,
     Process, EnterReactor, LeaveReactor, EndOfLoop, ClockTick, vars
<1> QED
  BY NextCases, <1>1, <1>2, <1>3, <1>4, <1>5, <1>6, <1>7, <1>8, <1>9, <1>10,
     <1>11

(* Each step of block_on keeps its place.                                  *)
LEMMA PlacesStep ==
  TypeOK /\ Places /\ [Next]_vars => Places'
<1> SUFFICES ASSUME TypeOK, Places, [Next]_vars
             PROVE  Places'
  OBVIOUS
<1> USE ConstAssumption DEF execVars, handleVars, timerVars, clockVars
<1>1. ASSUME NEW t \in Task, NEW c \in handles \cup {NoTask}, Spawn(t, c)
      PROVE  Places'
  BY <1>1 DEF Spawn, Insert, Places
<1>2. ASSUME NEW t \in Task, NEW c \in handles \cup {NoTask}, BlockOn(t, c)
      PROVE  Places'
  BY <1>2 DEF BlockOn, Insert, StartWoken, Places
<1>3. CASE Tick
  BY <1>3 DEF Tick, Drain, Places
<1>4. CASE TickReturns
  BY <1>4 DEF TickReturns, Places
<1>5. CASE PollNext
  BY <1>5 DEF PollNext, Alive, TypeOK, Places
<1>6. CASE PollPending
  BY <1>6 DEF PollPending, Running, Suspend, Places
<1>7. CASE PollSleep
  BY <1>7 DEF PollSleep, Running, Suspend, Places
<1>8. CASE PollJoin
  BY <1>8 DEF PollJoin, JoinStore, Running, Suspend, Places
<1>9. CASE PollReady
  BY <1>9 DEF PollReady, StoreResult, Running, Places
<1>10. CASE Remove
  BY <1>10 DEF Remove, Suspend, Places
<1>11. CASE PollPanics
  BY <1>11 DEF PollPanics, Leave, TypeOK, Places
<1>12. CASE PollHandle
  <2>1. /\ pc = "handle" /\ UNCHANGED <<cur, tasks, fresh, batch, due>>
        /\ \/ pc' = "process" /\ root' = root
           \/ pc' = "outside" /\ root' = NoTask
    BY <1>12 DEF PollHandle, TakeResult, Leave
  <2>2. NoTask \notin fresh
    BY DEF TypeOK
  <2> QED
    BY <2>1, <2>2 DEF Places
<1>13. CASE Process("process", "fire") \/ Process("process again",
          "fire again")
  BY <1>13 DEF Process, Places
<1>14. ASSUME NEW t \in Task, Fire(t)
      PROVE  Places'
  BY <1>14 DEF Fire, FireWake, Places
<1>15. CASE EnterReactor
  BY <1>15, SMT DEF EnterReactor, TakeResult, Leave, TypeOK, Places
<1>16. CASE LeaveReactor
  BY <1>16 DEF LeaveReactor, Places
<1>17. CASE EndOfLoop
  BY <1>17 DEF EndOfLoop, Places
<1>18. CASE UNCHANGED <<cur, pc, tasks, root, fresh, batch, due>>
  BY <1>18 DEF Places
<1>19. CASE (\E t \in Task, d \in 0..MaxDelay : Sleep(t, d)) \/
          (\E t \in Task : UserWake(t)) \/ (\E t \in Task : IoWake(t)) \/
          ClockTick \/ UNCHANGED vars
  BY <1>19, <1>18 DEF Sleep, UserWake, Running, IoWake, ClockTick, vars
<1> QED
  BY NextCases, <1>1, <1>2, <1>3, <1>4, <1>5, <1>6, <1>7, <1>8, <1>9, <1>10,
     <1>11, <1>12, <1>13, <1>14, <1>15, <1>16, <1>17, <1>18, <1>19

(* No step gives a JoinHandle a second owner.                              *)
LEMMA OneOwnerStep ==
  TypeOK /\ Places /\ OneOwner /\ [Next]_vars => OneOwner'
<1> SUFFICES ASSUME TypeOK, Places, OneOwner, [Next]_vars
             PROVE  OneOwner'
  OBVIOUS
<1> USE ConstAssumption DEF execVars, handleVars, timerVars, clockVars
<1>1. ASSUME NEW t \in Task, NEW c \in handles \cup {NoTask}, Spawn(t, c)
      PROVE  OneOwner'
  BY <1>1, SMTT(60) DEF Spawn, Insert, TypeOK, Places, OneOwner
<1>2. ASSUME NEW t \in Task, NEW c \in handles \cup {NoTask}, BlockOn(t, c)
      PROVE  OneOwner'
  BY <1>2, SMTT(60) DEF BlockOn, Insert, StartWoken, TypeOK, OneOwner
<1>3. CASE PollJoin
  BY <1>3, SMTT(60) DEF PollJoin, JoinStore, Running, Suspend, TypeOK, OneOwner
<1>4. CASE PollReady
  BY <1>4, SMT DEF PollReady, StoreResult, Running, OneOwner
<1>5. CASE PollPanics
  BY <1>5 DEF PollPanics, Leave, TypeOK, OneOwner
<1>6. CASE PollHandle
  BY <1>6, SMTT(60) DEF PollHandle, TakeResult, Leave, TypeOK, OneOwner
<1>7. CASE EnterReactor
  BY <1>7, SMTT(60) DEF EnterReactor, TakeResult, Leave, TypeOK, OneOwner
<1>8. CASE UNCHANGED <<root, handles, awaits>>
  BY <1>8 DEF OneOwner
<1>9. CASE (\E t \in Task, d \in 0..MaxDelay : Sleep(t, d)) \/ Tick \/
          TickReturns \/ PollNext \/ (\E t \in Task : UserWake(t)) \/
          PollPending \/ PollSleep \/ Remove \/ Process("process", "fire") \/
          Process("process again", "fire again") \/
          (\E t \in Task : Fire(t)) \/ (\E t \in Task : IoWake(t)) \/
          LeaveReactor \/ EndOfLoop \/ ClockTick \/ UNCHANGED vars
  BY <1>9, <1>8 DEF Sleep, Tick, Drain, TickReturns, PollNext, Alive,
     UserWake, Running, PollPending, Suspend, PollSleep, Remove, Process,
     Fire, FireWake, IoWake, LeaveReactor, EndOfLoop, ClockTick, vars
<1> QED
  BY NextCases, <1>1, <1>2, <1>3, <1>4, <1>5, <1>6, <1>7, <1>8, <1>9

(* A task stores its result in its last poll.                              *)
LEMMA StoredLastStep ==
  TypeOK /\ Places /\ StoredLast /\ [Next]_vars => StoredLast'
<1> SUFFICES ASSUME TypeOK, Places, StoredLast, [Next]_vars
             PROVE  StoredLast'
  OBVIOUS
<1> USE ConstAssumption DEF execVars, handleVars, timerVars, clockVars
<1>1. ASSUME NEW t \in Task, NEW c \in handles \cup {NoTask}, Spawn(t, c)
      PROVE  StoredLast'
  BY <1>1 DEF Spawn, Insert, StoredLast
<1>2. ASSUME NEW t \in Task, NEW c \in handles \cup {NoTask}, BlockOn(t, c)
      PROVE  StoredLast'
  BY <1>2 DEF BlockOn, Insert, StartWoken, StoredLast
<1>3. CASE Tick
  BY <1>3 DEF Tick, Drain, StoredLast
<1>4. CASE TickReturns
  BY <1>4 DEF TickReturns, StoredLast
<1>5. CASE PollNext
  BY <1>5 DEF PollNext, Alive, StoredLast
<1>6. CASE PollPending
  BY <1>6 DEF PollPending, Running, Suspend, StoredLast
<1>7. CASE PollSleep
  BY <1>7 DEF PollSleep, Running, Suspend, StoredLast
<1>8. CASE PollJoin
  BY <1>8 DEF PollJoin, JoinStore, Running, Suspend, StoredLast
<1>9. CASE PollReady
  BY <1>9, SMT DEF PollReady, StoreResult, Running, TypeOK, Places, StoredLast
<1>10. CASE Remove
  BY <1>10 DEF Remove, Suspend, StoredLast
<1>11. CASE PollPanics
  BY <1>11 DEF PollPanics, Leave, StoredLast
<1>12. CASE PollHandle
  BY <1>12 DEF PollHandle, TakeResult, Leave, StoredLast
<1>13. CASE Process("process", "fire") \/ Process("process again",
          "fire again")
  BY <1>13 DEF Process, StoredLast
<1>14. CASE EnterReactor
  BY <1>14 DEF EnterReactor, TakeResult, Leave, StoredLast
<1>15. CASE LeaveReactor
  BY <1>15 DEF LeaveReactor, StoredLast
<1>16. CASE EndOfLoop
  BY <1>16 DEF EndOfLoop, StoredLast
<1>17. CASE UNCHANGED <<fresh, tasks, result, pc, cur>>
  BY <1>17 DEF StoredLast
<1>18. CASE (\E t \in Task, d \in 0..MaxDelay : Sleep(t, d)) \/
          (\E t \in Task : UserWake(t)) \/ (\E t \in Task : Fire(t)) \/
          (\E t \in Task : IoWake(t)) \/ ClockTick \/ UNCHANGED vars
  BY <1>18, <1>17 DEF Sleep, UserWake, Running, Fire, FireWake, IoWake,
     ClockTick, vars
<1> QED
  BY NextCases, <1>1, <1>2, <1>3, <1>4, <1>5, <1>6, <1>7, <1>8, <1>9, <1>10,
     <1>11, <1>12, <1>13, <1>14, <1>15, <1>16, <1>17, <1>18

(* No step loses the result of the root, nor the flag that says it is      *)
(* there.                                                                  *)
LEMMA RootReturnsStep ==
  TypeOK /\ Places /\ OneOwner /\ StoredLast /\ RootReturns /\ [Next]_vars =>
    RootReturns'
<1> SUFFICES ASSUME TypeOK, Places, OneOwner, StoredLast, RootReturns,
                     [Next]_vars
             PROVE  RootReturns'
  OBVIOUS
<1> USE ConstAssumption DEF execVars, handleVars, timerVars, clockVars
<1>1. ASSUME NEW t \in Task, NEW c \in handles \cup {NoTask}, Spawn(t, c)
      PROVE  RootReturns'
  BY <1>1 DEF Spawn, Insert, RootReturns, NeverGivesUp
<1>2. ASSUME NEW t \in Task, NEW c \in handles \cup {NoTask}, BlockOn(t, c)
      PROVE  RootReturns'
  BY <1>2 DEF BlockOn, Insert, StartWoken, RootReturns, NeverGivesUp
<1>3. CASE Tick
  BY <1>3 DEF Tick, Drain, RootReturns, NeverGivesUp
<1>4. CASE TickReturns
  BY <1>4 DEF TickReturns, RootReturns, NeverGivesUp
<1>5. CASE PollNext
  BY <1>5 DEF PollNext, Alive, RootReturns, NeverGivesUp
<1>6. CASE PollPending
  BY <1>6 DEF PollPending, Running, Suspend, RootReturns, NeverGivesUp
<1>7. CASE PollSleep
  BY <1>7 DEF PollSleep, Running, Suspend, RootReturns, NeverGivesUp
<1>8. CASE PollJoin
  BY <1>8, SMTT(60) DEF PollJoin, JoinStore, Running, Suspend, TypeOK, Places,
     OneOwner, RootReturns, NeverGivesUp
<1>9. CASE PollReady
  <2>1. /\ pc = "poll" /\ cur \in tasks /\ cur \in Task
        /\ pc' = "ready" /\ root' = root /\ tasks' = tasks
        /\ result' = result \cup {cur}
        /\ waker' = [waker EXCEPT ![cur] = NoTask]
    BY <1>9 DEF PollReady, StoreResult, Running, TypeOK, Places
  <2>2. woken' = (woken \/ (waker[cur] = Caller /\ cur = root))
    BY <1>9 DEF PollReady, StoreResult, Running
  <2>3. CASE cur = root
    <3>1. woken'
      BY <2>1, <2>2, <2>3 DEF RootReturns
    <3> QED
      BY <2>1, <2>3, <3>1 DEF RootReturns, NeverGivesUp
  <2>4. CASE cur # root
    <3>1. waker'[root] = waker[root] \/ root = NoTask
      BY <2>1, <2>4, SMT
    <3> QED
      BY <2>1, <2>2, <2>4, <3>1 DEF RootReturns, NeverGivesUp
  <2> QED
    BY <2>3, <2>4
<1>10. CASE Remove
  BY <1>10 DEF Remove, Suspend, StoredLast, RootReturns, NeverGivesUp
<1>11. CASE PollPanics
  BY <1>11 DEF PollPanics, Leave, RootReturns, NeverGivesUp
<1>12. CASE PollHandle
  BY <1>12, SMTT(60) DEF PollHandle, TakeResult, Leave, TypeOK, RootReturns,
     NeverGivesUp
<1>13. CASE Process("process", "fire") \/ Process("process again",
          "fire again")
  BY <1>13 DEF Process, RootReturns, NeverGivesUp
<1>14. CASE EnterReactor
  BY <1>14, SMT DEF EnterReactor, TakeResult, Leave, Places, RootReturns,
     NeverGivesUp
<1>15. CASE LeaveReactor
  BY <1>15 DEF LeaveReactor, RootReturns, NeverGivesUp
<1>16. CASE EndOfLoop
  BY <1>16 DEF EndOfLoop, RootReturns, NeverGivesUp
<1>17. CASE UNCHANGED <<pc, root, tasks, result, woken, waker>>
  BY <1>17 DEF RootReturns, NeverGivesUp
<1>18. CASE (\E t \in Task, d \in 0..MaxDelay : Sleep(t, d)) \/
          (\E t \in Task : UserWake(t)) \/ (\E t \in Task : Fire(t)) \/
          (\E t \in Task : IoWake(t)) \/ ClockTick \/ UNCHANGED vars
  BY <1>18, <1>17 DEF Sleep, UserWake, Running, Fire, FireWake, IoWake,
     ClockTick, vars
<1> QED
  BY NextCases, <1>1, <1>2, <1>3, <1>4, <1>5, <1>6, <1>7, <1>8, <1>9, <1>10,
     <1>11, <1>12, <1>13, <1>14, <1>15, <1>16, <1>17, <1>18

(* A step spawns a fresh task and polls one that is in the map.            *)
LEMMA ExecStep ==
  TypeOK /\ Places /\ [Next]_vars => ExecTyped'
<1> SUFFICES ASSUME TypeOK, Places, [Next]_vars
             PROVE  ExecTyped'
  OBVIOUS
<1> USE ConstAssumption DEF execVars, handleVars, timerVars, clockVars
<1>1. ASSUME NEW t \in Task, NEW c \in handles \cup {NoTask}, Spawn(t, c)
      PROVE  ExecTyped'
  BY <1>1 DEF Spawn, Insert, TypeOK, ExecTyped
<1>2. ASSUME NEW t \in Task, NEW c \in handles \cup {NoTask}, BlockOn(t, c)
      PROVE  ExecTyped'
  BY <1>2 DEF BlockOn, Insert, StartWoken, TypeOK, ExecTyped
<1>3. CASE Tick
  BY <1>3 DEF Tick, Drain, TypeOK, ExecTyped
<1>4. CASE TickReturns
  BY <1>4 DEF TickReturns, TypeOK, ExecTyped
<1>5. CASE PollNext
  BY <1>5, PopQueues DEF PollNext, Alive, TypeOK, ExecTyped
<1>6. CASE PollPending
  BY <1>6 DEF PollPending, Running, Suspend, TypeOK, ExecTyped
<1>7. CASE PollSleep
  BY <1>7, SMT DEF PollSleep, Running, Suspend, TypeOK, ExecTyped
<1>8. CASE PollJoin
  <2>1. /\ cur \in Task
        /\ joining' \in {joining, joining \cup {cur}}
        /\ cur' \in {cur, NoTask} /\ pc' \in {pc, "next"}
        /\ UNCHANGED <<fresh, tasks, poisoned, lost, sleeping>>
    BY <1>8 DEF PollJoin, JoinStore, Running, Suspend, TypeOK, Places
  <2> QED
    BY <2>1 DEF TypeOK, ExecTyped
<1>9. CASE PollReady
  BY <1>9 DEF PollReady, StoreResult, Running, TypeOK, ExecTyped
<1>10. CASE Remove
  BY <1>10 DEF Remove, Suspend, TypeOK, ExecTyped
<1>11. CASE PollPanics
  BY <1>11, SMTT(60) DEF PollPanics, Leave, TypeOK, Places, ExecTyped
<1>12. CASE PollHandle
  BY <1>12 DEF PollHandle, TakeResult, Leave, TypeOK, ExecTyped
<1>13. CASE Process("process", "fire") \/ Process("process again",
          "fire again")
  BY <1>13 DEF Process, TypeOK, ExecTyped
<1>14. CASE EnterReactor
  BY <1>14 DEF EnterReactor, TakeResult, Leave, TypeOK, ExecTyped
<1>15. CASE LeaveReactor
  BY <1>15 DEF LeaveReactor, TypeOK, ExecTyped
<1>16. CASE EndOfLoop
  BY <1>16 DEF EndOfLoop, TypeOK, ExecTyped
<1>17. CASE UNCHANGED <<fresh, tasks, poisoned, lost, cur, pc, sleeping,
          joining>>
  BY <1>17 DEF TypeOK, ExecTyped
<1>18. CASE (\E t \in Task, d \in 0..MaxDelay : Sleep(t, d)) \/
          (\E t \in Task : UserWake(t)) \/ (\E t \in Task : Fire(t)) \/
          (\E t \in Task : IoWake(t)) \/ ClockTick \/ UNCHANGED vars
  BY <1>18, <1>17 DEF Sleep, UserWake, Running, Fire, FireWake, IoWake,
     ClockTick, vars
<1> QED
  BY NextCases, <1>1, <1>2, <1>3, <1>4, <1>5, <1>6, <1>7, <1>8, <1>9, <1>10,
     <1>11, <1>12, <1>13, <1>14, <1>15, <1>16, <1>17, <1>18

(* A step leaves the states of tasks and their handles well formed.        *)
LEMMA HandlesStep ==
  TypeOK /\ Places /\ [Next]_vars => HandlesTyped'
<1> SUFFICES ASSUME TypeOK, Places, [Next]_vars
             PROVE  HandlesTyped'
  OBVIOUS
<1> USE ConstAssumption DEF execVars, handleVars, timerVars, clockVars
<1>1. ASSUME NEW t \in Task, NEW c \in handles \cup {NoTask}, Spawn(t, c)
      PROVE  HandlesTyped'
  BY <1>1 DEF Spawn, Insert, TypeOK, HandlesTyped
<1>2. ASSUME NEW t \in Task, NEW c \in handles \cup {NoTask}, BlockOn(t, c)
      PROVE  HandlesTyped'
  BY <1>2 DEF BlockOn, Insert, StartWoken, TypeOK, HandlesTyped
<1>3. CASE PollJoin
  <2>1. /\ cur \in Task /\ awaits[cur] \in Task \ fresh
        /\ UNCHANGED <<fresh, root, woken, handles>>
    BY <1>3 DEF PollJoin, JoinStore, Running, Suspend, TypeOK, Places
  <2>2. result' \subseteq Task
    BY <1>3 DEF PollJoin, JoinStore, Running, Suspend, TypeOK
  <2>3. awaits' \in [Task -> (Task \ fresh) \cup {NoTask}]
    BY <1>3, <2>1 DEF PollJoin, JoinStore, Running, Suspend, TypeOK
  <2>4. waker' \in [Task -> Task \cup {NoTask, Caller}]
    <3>1. waker' \in {waker, [waker EXCEPT ![awaits[cur]] = cur]}
      BY <1>3 DEF PollJoin, JoinStore, Running, Suspend
    <3>2. waker \in [Task -> Task \cup {NoTask, Caller}]
      BY DEF TypeOK
    <3>3. [waker EXCEPT ![awaits[cur]] = cur]
            \in [Task -> Task \cup {NoTask, Caller}]
      BY <2>1, <3>2, SMT
    <3> QED
      BY <3>1, <3>2, <3>3
  <2> QED
    BY <2>1, <2>2, <2>3, <2>4 DEF TypeOK, HandlesTyped
<1>4. CASE PollReady
  BY <1>4 DEF PollReady, StoreResult, Running, TypeOK, Places, HandlesTyped
<1>5. CASE PollPanics
  BY <1>5 DEF PollPanics, Leave, TypeOK, HandlesTyped
<1>6. CASE PollHandle
  BY <1>6 DEF PollHandle, TakeResult, Leave, TypeOK, HandlesTyped
<1>7. CASE EnterReactor
  BY <1>7, SMTT(60) DEF EnterReactor, TakeResult, Leave, TypeOK, Places,
     HandlesTyped
<1>8. CASE UNCHANGED <<fresh, root, woken, handles, awaits, result, waker>>
  BY <1>8 DEF TypeOK, HandlesTyped
<1>9. CASE (\E t \in Task, d \in 0..MaxDelay : Sleep(t, d)) \/ Tick \/
          TickReturns \/ PollNext \/ (\E t \in Task : UserWake(t)) \/
          PollPending \/ PollSleep \/ Remove \/ Process("process", "fire") \/
          Process("process again", "fire again") \/
          (\E t \in Task : Fire(t)) \/ (\E t \in Task : IoWake(t)) \/
          LeaveReactor \/ EndOfLoop \/ ClockTick \/ UNCHANGED vars
  BY <1>9, <1>8 DEF Sleep, Tick, Drain, TickReturns, PollNext, Alive,
     UserWake, Running, PollPending, Suspend, PollSleep, Remove, Process,
     Fire, FireWake, IoWake, LeaveReactor, EndOfLoop, ClockTick, vars
<1> QED
  BY NextCases, <1>1, <1>2, <1>3, <1>4, <1>5, <1>6, <1>7, <1>8, <1>9

(* A step leaves the timers well formed.                                   *)
LEMMA TimersStep ==
  TypeOK /\ Places /\ [Next]_vars => TimersTyped'
<1> SUFFICES ASSUME TypeOK, Places, [Next]_vars
             PROVE  TimersTyped'
  OBVIOUS
<1> USE ConstAssumption DEF execVars, handleVars, timerVars, clockVars
<1>1. ASSUME NEW t \in Task, NEW d \in 0..MaxDelay, Sleep(t, d)
      PROVE  TimersTyped'
  BY <1>1 DEF Sleep, TypeOK, TimersTyped
<1>2. CASE PollSleep
  BY <1>2 DEF PollSleep, Running, Suspend, TypeOK, TimersTyped
<1>3. CASE Process("process", "fire") \/ Process("process again",
          "fire again")
  BY <1>3 DEF Process, TypeOK, TimersTyped
<1>4. ASSUME NEW t \in Task, Fire(t)
      PROVE  TimersTyped'
  BY <1>4 DEF Fire, FireWake, TypeOK, TimersTyped
<1>5. CASE ClockTick
  <2>1. \A t \in Task : left[t] \in 0..MaxDelay
    BY DEF TypeOK
  <2>2. left' \in [Task -> 0..MaxDelay]
    BY <1>5, <2>1, SMTT(60) DEF ClockTick
  <2> QED
    BY <1>5, <2>2 DEF ClockTick, TypeOK, TimersTyped
<1>6. CASE UNCHANGED <<left, due, heap, completed, stored>>
  BY <1>6 DEF TypeOK, TimersTyped
<1>7. CASE (\E t \in Task, c \in handles \cup {NoTask} : Spawn(t, c)) \/
          (\E t \in Task, c \in handles \cup {NoTask} : BlockOn(t, c)) \/
          Tick \/ TickReturns \/ PollNext \/ (\E t \in Task : UserWake(t)) \/
          PollPending \/ PollJoin \/ PollReady \/ Remove \/ PollPanics \/
          PollHandle \/ EnterReactor \/ (\E t \in Task : IoWake(t)) \/
          LeaveReactor \/ EndOfLoop \/ UNCHANGED vars
  BY <1>7, <1>6 DEF Spawn, Insert, BlockOn, StartWoken, Tick, Drain,
     TickReturns, PollNext, Alive, UserWake, Running, PollPending, Suspend,
     PollJoin, JoinStore, PollReady, StoreResult, Remove, PollPanics, Leave,
     PollHandle, TakeResult, EnterReactor, IoWake, LeaveReactor, EndOfLoop,
     vars
<1> QED
  BY NextCases, <1>1, <1>2, <1>3, <1>4, <1>5, <1>6, <1>7

(* The thread never goes to block for longer than the first deadline       *)
(* allows.                                                                 *)
LEMMA DeadlinesStep ==
  TypeOK /\ Places /\ RootReturns /\ Deadlines /\ [Next]_vars => Deadlines'
<1> SUFFICES ASSUME TypeOK, Places, RootReturns, Deadlines, [Next]_vars
             PROVE  Deadlines'
  OBVIOUS
<1> USE ConstAssumption DEF execVars, handleVars, timerVars, clockVars
<1>1. ASSUME NEW t \in Task, NEW d \in 0..MaxDelay, Sleep(t, d)
      PROVE  Deadlines'
  BY <1>1 DEF Sleep, Deadlines, ParksInTime
<1>2. ASSUME NEW t \in Task, NEW c \in handles \cup {NoTask}, BlockOn(t, c)
      PROVE  Deadlines'
  BY <1>2 DEF BlockOn, Insert, StartWoken, Deadlines, ParksInTime
<1>3. CASE Tick
  BY <1>3 DEF Tick, Drain, Deadlines, ParksInTime
<1>4. CASE TickReturns
  BY <1>4 DEF TickReturns, Deadlines, ParksInTime
<1>5. CASE PollNext
  BY <1>5 DEF PollNext, Alive, Deadlines, ParksInTime
<1>6. CASE PollPending
  BY <1>6 DEF PollPending, Running, Suspend, Deadlines, ParksInTime
<1>7. CASE PollSleep
  BY <1>7 DEF PollSleep, Running, Suspend, Deadlines, ParksInTime
<1>8. CASE PollJoin
  BY <1>8 DEF PollJoin, JoinStore, Running, Suspend, Deadlines, ParksInTime
<1>9. CASE PollReady
  BY <1>9 DEF PollReady, StoreResult, Running, Deadlines, ParksInTime
<1>10. CASE Remove
  BY <1>10 DEF Remove, Suspend, Deadlines, ParksInTime
<1>11. CASE PollPanics
  BY <1>11 DEF PollPanics, Leave, Deadlines, ParksInTime
<1>12. CASE PollHandle
  BY <1>12 DEF PollHandle, TakeResult, Leave, Deadlines, ParksInTime
<1>13. CASE Process("process", "fire") \/ Process("process again",
          "fire again")
  <2> DEFINE S == {left[t] : t \in heap \ due'}
  <2>1. /\ due' = {t \in heap : left[t] = 0}
        /\ next' = IF heap = due' THEN 0 ELSE Least(S)
        /\ late' = 0 /\ pc' # "park"
        /\ UNCHANGED <<heap, left, budget>>
    BY <1>13 DEF Process
  <2>2. \A t \in heap : left[t] \in 0..MaxDelay
    BY DEF TypeOK
  <2>3. CASE heap = due'
    <3>1. next' = 0
      BY <2>1, <2>3
    <3> QED
      BY <2>1, <2>3, <3>1, SMTT(60) DEF Deadlines, ParksInTime
  <2>4. CASE heap # due'
    <3>1. S \in SUBSET Nat /\ S # {} /\ S \subseteq 1..MaxDelay
      BY <2>1, <2>2, <2>4, SMTT(60)
    <3>2. Least(S) \in S /\ \A y \in S : Least(S) <= y
      BY <3>1, LeastIsLeast
    <3>3. \A t \in heap \ due' : Least(S) <= left[t]
      BY <3>2
    <3>4. next' = Least(S) /\ next' \in 1..MaxDelay
      BY <2>1, <2>4, <3>1, <3>2
    <3> HIDE DEF S
    <3> QED
      BY <2>1, <2>2, <3>3, <3>4, SMTT(60) DEF Deadlines, ParksInTime
  <2> QED
    BY <2>3, <2>4
<1>14. ASSUME NEW t \in Task, Fire(t)
      PROVE  Deadlines'
  BY <1>14 DEF Fire, FireWake, Deadlines, ParksInTime
<1>15. CASE EnterReactor
  <2>1. CASE pc' # "park"
    BY <1>15, <2>1 DEF EnterReactor, TakeResult, Leave, Deadlines,
       ParksInTime, RootReturns
  <2>2. CASE pc' = "park"
    <3>1. /\ budget' = UnitsPerMs * TimeoutMs(Timeout)
          /\ UNCHANGED <<heap, left, late, next, due>>
          /\ pc = "fire" /\ due = {}
      BY <1>15, <2>2 DEF EnterReactor, TakeResult, Leave
    <3>2. Timeout \in Nat \ {0}
      BY TimeoutPositive DEF Deadlines
    <3>3. budget' \in Nat /\ budget' < Timeout + UnitsPerMs
      BY <3>1, <3>2, TimeoutRounds
    <3>4. \A t \in heap : Timeout = next /\ next <= left[t] + late
      BY <3>1 DEF Timeout, Deadlines
    <3> QED
      BY <2>2, <3>1, <3>3, <3>4, SMTT(60) DEF TypeOK, Deadlines, ParksInTime
  <2> QED
    BY <2>1, <2>2
<1>16. CASE LeaveReactor
  BY <1>16 DEF LeaveReactor, Deadlines, ParksInTime
<1>17. CASE EndOfLoop
  BY <1>17 DEF EndOfLoop, Deadlines, ParksInTime
<1>18. CASE ClockTick
  <2>1. /\ next' = next /\ pc' = pc /\ heap' = heap /\ due' = due
        /\ heap \subseteq Task
        /\ next \in 0..MaxDelay /\ late \in Nat /\ budget \in Nat
    BY <1>18 DEF ClockTick, TypeOK, Deadlines
  <2>2. late' \in Nat /\ budget' \in Nat
    <3>1. late' = IF pc = "fire" /\ late < MaxDelay THEN late + 1 ELSE late
      BY <1>18 DEF ClockTick
    <3>2. budget' = IF pc = "park" /\ budget > 0 THEN budget - 1 ELSE budget
      BY <1>18 DEF ClockTick
    <3> QED
      BY <2>1, <3>1, <3>2, SMTT(60)
  <2>3. ASSUME NEW t \in Task
        PROVE  /\ left[t] \in Nat /\ left'[t] \in Nat
               /\ left'[t] >= left[t] - 1
    <3>1. left'[t] = IF left[t] = 0 THEN 0 ELSE left[t] - 1
      BY <1>18 DEF ClockTick
    <3>2. left[t] \in 0..MaxDelay
      BY DEF TypeOK
    <3> QED
      BY <3>1, <3>2, SMTT(60)
  <2>4. ASSUME pc = "fire", NEW t \in Task, next <= left[t] + late
        PROVE  next <= left'[t] + late'
    <3>1. late' = IF late < MaxDelay THEN late + 1 ELSE late
      BY <1>18, <2>4 DEF ClockTick
    <3> QED
      BY <2>1, <2>3, <2>4, <3>1, SMTT(60)
  <2>5. ASSUME pc = "park", NEW t \in Task,
               budget < left[t] + late + UnitsPerMs
        PROVE  budget' < left'[t] + late' + UnitsPerMs
    <3>1. late' = late /\ budget' = IF budget > 0 THEN budget - 1 ELSE budget
      BY <1>18, <2>5 DEF ClockTick
    <3> QED
      BY <2>1, <2>3, <2>5, <3>1, SMTT(60)
  <2> QED
    BY <2>1, <2>2, <2>4, <2>5 DEF Deadlines, ParksInTime
<1>19. CASE UNCHANGED <<next, late, budget, pc, heap, due, left>>
  BY <1>19 DEF Deadlines, ParksInTime
<1>20. CASE (\E t \in Task, c \in handles \cup {NoTask} : Spawn(t, c)) \/
          (\E t \in Task : UserWake(t)) \/ (\E t \in Task : IoWake(t)) \/
          UNCHANGED vars
  BY <1>20, <1>19 DEF Spawn, Insert, UserWake, Running, IoWake, vars
<1> QED
  BY NextCases, <1>1, <1>2, <1>3, <1>4, <1>5, <1>6, <1>7, <1>8, <1>9, <1>10,
     <1>11, <1>12, <1>13, <1>14, <1>15, <1>16, <1>17, <1>18, <1>19, <1>20

(* No step loses the wake of a task that waits.                            *)
LEMMA WaitingStep ==
  TypeOK /\ Places /\ OneOwner /\ StoredLast /\ Waiting /\ [Next]_vars =>
    Waiting'
<1> SUFFICES ASSUME TypeOK, Places, OneOwner, StoredLast, Waiting, [Next]_vars
             PROVE  Waiting'
  OBVIOUS
<1> USE ConstAssumption DEF execVars, handleVars, timerVars, clockVars
<1>1. ASSUME NEW t \in Task, NEW c \in handles \cup {NoTask}, Spawn(t, c)
      PROVE  Waiting'
  BY <1>1, WakeQueues, SMTT(60) DEF Spawn, Insert, TypeOK, Waiting,
     WaiterQueued
<1>2. ASSUME NEW t \in Task, NEW c \in handles \cup {NoTask}, BlockOn(t, c)
      PROVE  Waiting'
  BY <1>2, WakeQueues, SMTT(60) DEF BlockOn, Insert, StartWoken, TypeOK,
     Waiting, WaiterQueued
<1>3. CASE Tick
  BY <1>3, TickQueues DEF Tick, Drain, TypeOK, Places, Waiting, WaiterQueued
<1>4. CASE PollNext
  BY <1>4, PopQueues, SMTT(60) DEF PollNext, Alive, TypeOK, Waiting,
     WaiterQueued
<1>5. ASSUME NEW t \in Task, UserWake(t)
      PROVE  Waiting'
  BY <1>5, WakeQueues DEF UserWake, Running, TypeOK, Waiting, WaiterQueued
<1>6. CASE PollPending
  BY <1>6, QueuesSame, SMTT(60) DEF PollPending, Running, Suspend, TypeOK,
     Waiting, WaiterQueued
<1>7. CASE PollSleep
  BY <1>7, QueuesSame, SMTT(60) DEF PollSleep, Running, Suspend, TypeOK,
     Places, Waiting, WaiterQueued
<1>8. CASE PollJoin
  BY <1>8, QueuesSame, SMTT(60) DEF PollJoin, JoinStore, Running, Suspend,
     TypeOK, Places, OneOwner, Waiting, WaiterQueued
<1>9. CASE PollReady
  BY <1>9, WakeQueues, QueuesSame, SMTT(60) DEF PollReady, StoreResult,
     Running, TypeOK, Waiting, WaiterQueued
<1>10. CASE Remove
  BY <1>10, QueuesSame, SMTT(60) DEF Remove, Suspend, TypeOK, Waiting,
     WaiterQueued
<1>11. CASE PollPanics
  BY <1>11, PanicLoses, SMTT(60) DEF PollPanics, Leave, TypeOK, Waiting,
     WaiterQueued
<1>12. CASE PollHandle
  BY <1>12, QueuesSame, SMTT(60) DEF PollHandle, TakeResult, Leave, TypeOK,
     OneOwner, Waiting, WaiterQueued
<1>13. ASSUME NEW t \in Task, Fire(t)
      PROVE  Waiting'
  <2>1. CASE t \in stored
    BY <1>13, <2>1, WakeQueues DEF Fire, FireWake, TypeOK, Waiting,
       WaiterQueued
  <2>2. CASE t \notin stored
    <3>1. t \in sleeping => t \in completed
      BY <2>2 DEF Waiting
    <3>2. /\ completed' = completed \cup {t} /\ stored' = stored
          /\ UNCHANGED <<queue, batch, lost, sleeping, joining, tasks, cur,
                         awaits, result, waker>>
      BY <1>13, <2>2 DEF Fire, FireWake
    <3> QED
      BY <3>1, <3>2, QueuesSame DEF Waiting, WaiterQueued
  <2> QED
    BY <2>1, <2>2
<1>14. CASE EnterReactor
  BY <1>14, QueuesSame DEF EnterReactor, TakeResult, Leave, Waiting,
     WaiterQueued
<1>15. ASSUME NEW t \in Task, IoWake(t)
      PROVE  Waiting'
  BY <1>15, WakeQueues DEF IoWake, TypeOK, Waiting, WaiterQueued
<1>16. CASE UNCHANGED <<queue, batch, lost, sleeping, joining, tasks, cur,
          completed, stored, awaits, result, waker>>
  BY <1>16, QueuesSame DEF Waiting, WaiterQueued
<1>17. CASE (\E t \in Task, d \in 0..MaxDelay : Sleep(t, d)) \/ TickReturns \/
          Process("process", "fire") \/
          Process("process again", "fire again") \/ LeaveReactor \/
          EndOfLoop \/ ClockTick \/ UNCHANGED vars
  BY <1>17, <1>16 DEF Sleep, TickReturns, Process, LeaveReactor, EndOfLoop,
     ClockTick, vars
<1> QED
  BY NextCases, <1>1, <1>2, <1>3, <1>4, <1>5, <1>6, <1>7, <1>8, <1>9, <1>10,
     <1>11, <1>12, <1>13, <1>14, <1>15, <1>16, <1>17

(* IInv is inductive.                                                      *)
LEMMA StepIInv == IInv /\ [Next]_vars => IInv'
<1> SUFFICES ASSUME IInv, [Next]_vars PROVE IInv'
  OBVIOUS
<1> USE DEF IInv
<1>1. TypeOK'
  BY QueuesStep, ExecStep, HandlesStep, TimersStep DEF TypeOK, QueuesTyped,
     ExecTyped, HandlesTyped, TimersTyped
<1> QED
  BY <1>1, PlacesStep, OneOwnerStep, StoredLastStep, RootReturnsStep,
     DeadlinesStep, WaitingStep

-----------------------------------------------------------------------------
(* The theorems.                                                           *)

(* In every behaviour of block_on, spawn and sleep, the invariant holds.   *)
THEOREM Invariance == Spec => []IInv
BY InitIInv, StepIInv, PTL DEF Spec

(* The state keeps its types, and ReadyQueue::push never queues an id that *)
(* is queued.                                                              *)
THEOREM TypeCorrect == Spec => []TypeOK
<1>1. IInv => TypeOK
  BY DEF IInv
<1> QED
  BY <1>1, Invariance, PTL

(* The panic at the end of block_on, after a last look at the handle that  *)
(* finds no result, is not reached.                                        *)
THEOREM RootIsNeverLost == Spec => []NeverGivesUp
<1>1. IInv => NeverGivesUp
  BY DEF IInv, RootReturns
<1> QED
  BY <1>1, Invariance, PTL

(* block_on does not block in the reactor while the result of its future   *)
(* is there: handle_woken loses no completion.                             *)
THEOREM FlagIsNotLost == Spec => []ParksUnresolved
<1>1. IInv => ParksUnresolved
  BY DEF IInv, RootReturns, Places, ParksUnresolved
<1> QED
  BY <1>1, Invariance, PTL

(* epoll_wait's timeout exceeds no timer's deadline by a millisecond, but  *)
(* for the time since process read the clock.                              *)
THEOREM ParkingIsBounded == Spec => []ParksInTime
<1>1. IInv => ParksInTime
  BY DEF IInv, Deadlines
<1> QED
  BY <1>1, Invariance, PTL

(* A task whose timer has fired or whose awaited task has ended is queued, *)
(* unless a panic has lost its id; until the end its waker is stored.      *)
THEOREM WaitersAreQueued == Spec => []WaiterQueued
<1>1. IInv => WaiterQueued
  BY DEF IInv, Waiting
<1> QED
  BY <1>1, Invariance, PTL

(* Reactor::poll is never called with a timeout of zero: TimeoutMs rounds  *)
(* a short duration up.                                                    *)
THEOREM ParkingBlocks == Spec => NeverSpins
<1>1. IInv /\ [Next]_vars => [pc # "park" /\ pc' = "park" => budget' > 0]_vars
  <2> SUFFICES ASSUME IInv, Next, pc # "park", pc' = "park"
               PROVE  budget' > 0
    OBVIOUS
  <2>1. EnterReactor
    BY NextCases DEF Sleep, Spawn, BlockOn, Tick, TickReturns, PollNext,
       UserWake, PollPending, PollSleep, PollJoin, Suspend, PollReady, Remove,
       PollPanics, PollHandle, TakeResult, Leave, Process, Fire, IoWake,
       LeaveReactor, EndOfLoop, ClockTick, vars, handleVars
  <2>2. budget' = UnitsPerMs * TimeoutMs(Timeout)
    BY <2>1 DEF EnterReactor, TakeResult, Leave
  <2>3. Timeout \in Nat \ {0}
    BY TimeoutPositive DEF IInv, Deadlines
  <2> QED
    BY <2>2, <2>3, TimeoutRounds
<1> QED
  BY <1>1, Invariance, PTL DEF Spec, NeverSpins

-----------------------------------------------------------------------------
(* The executor keeps the contract.                                        *)

(* What queues no task, drops no id and starts and ends no poll.           *)
LEMMA ContractStutter ==
  ASSUME UNCHANGED <<fresh, tasks, cur>>,
         \A u : Queued(u)' \/ u \in lost' <=> Queued(u) \/ u \in lost
  PROVE  UNCHANGED Contract!vars
BY DEF Contract!vars, Owed, Polling

(* A call of a task's waker is a wake, or nothing once the task has ended. *)
LEMMA ContractWake ==
  ASSUME TypeOK, NEW t \in Task, UNCHANGED <<fresh, tasks, cur, lost>>,
         \A u : Queued(u)' <=> Queued(u) \/ u = t
  PROVE  [Contract!Next]_Contract!vars
<1>1. CASE t \in tasks
  <2>1. Owed' = Owed \cup {t} /\ Polling' = Polling
    BY <1>1 DEF Owed, Polling
  <2>2. Contract!Wake(t)
    BY <1>1, <2>1 DEF Contract!Wake, TypeOK
  <2> QED
    BY <2>2 DEF Contract!Next
<1>2. CASE t \notin tasks
  BY <1>2 DEF Contract!vars, Owed, Polling
<1> QED
  BY <1>1, <1>2

(* A poll that returns Pending, or panics.                                 *)
LEMMA ContractPollEnds ==
  ASSUME cur \in Task, cur' = NoTask, UNCHANGED <<fresh, tasks>>,
         \A u : Queued(u)' \/ u \in lost' <=> Queued(u) \/ u \in lost
  PROVE  Contract!Next
<1>1. Owed' = Owed
  BY DEF Owed
<1>2. Contract!PollPending(cur)
  BY <1>1, ConstAssumption DEF Contract!PollPending, Polling
<1> QED
  BY <1>2 DEF Contract!Next

(* Every step is one of the contract, or a second poll for one wake, or    *)
(* changes nothing that the contract speaks of.                            *)
LEMMA ContractStep ==
  TypeOK /\ Places /\ [Next]_vars
    => [Contract!Next \/ \E u \in Task : PolledTwice(u)]_Contract!vars
<1> SUFFICES ASSUME TypeOK, Places, [Next]_vars
             PROVE  [\/ Contract!Next
                     \/ \E u \in Task : PolledTwice(u)]_Contract!vars
  OBVIOUS
<1> USE ConstAssumption DEF execVars, handleVars, timerVars, clockVars
<1>1. ASSUME NEW t \in Task, NEW c \in handles \cup {NoTask}, Spawn(t, c)
      PROVE  [Contract!Next \/ \E u \in Task : PolledTwice(u)]_Contract!vars
  <2>1. /\ t \in fresh /\ fresh' = fresh \ {t} /\ tasks' = tasks \cup {t}
        /\ UNCHANGED <<cur, lost, batch>>
    BY <1>1 DEF Spawn, Insert
  <2>2. \A u : Queued(u)' <=> Queued(u) \/ u = t
    BY <1>1, <2>1, WakeQueues DEF Spawn, Insert, TypeOK
  <2>3. Owed' = Owed \cup {t} /\ Polling' = Polling
    BY <2>1, <2>2 DEF Owed, Polling
  <2>4. Contract!Spawn(t)
    BY <2>1, <2>3 DEF Contract!Spawn
  <2> QED
    BY <2>4 DEF Contract!Next
<1>2. ASSUME NEW t \in Task, NEW c \in handles \cup {NoTask}, BlockOn(t, c)
      PROVE  [Contract!Next \/ \E u \in Task : PolledTwice(u)]_Contract!vars
  <2>1. /\ t \in fresh /\ fresh' = fresh \ {t} /\ tasks' = tasks \cup {t}
        /\ UNCHANGED <<cur, lost, batch>>
    BY <1>2 DEF BlockOn, Insert, StartWoken
  <2>2. \A u : Queued(u)' <=> Queued(u) \/ u = t
    BY <1>2, <2>1, WakeQueues DEF BlockOn, Insert, StartWoken, TypeOK
  <2>3. Owed' = Owed \cup {t} /\ Polling' = Polling
    BY <2>1, <2>2 DEF Owed, Polling
  <2>4. Contract!Spawn(t)
    BY <2>1, <2>3 DEF Contract!Spawn
  <2> QED
    BY <2>4 DEF Contract!Next
<1>3. CASE Tick
  <2>1. UNCHANGED <<fresh, tasks, cur, lost>>
    BY <1>3 DEF Tick, Drain
  <2>2. \A u : Queued(u)' <=> Queued(u)
    BY <1>3, TickQueues DEF Tick, Drain, TypeOK, Places
  <2> QED
    BY <2>1, <2>2, ContractStutter
<1>4. CASE PollNext
  <2>1. /\ cur = NoTask /\ UNCHANGED <<fresh, tasks>>
        /\ batch \in Seq(Task) /\ batch # <<>> /\ batch' = Tail(batch)
        /\ UNCHANGED queue
    BY <1>4 DEF PollNext, Alive, TypeOK, Places
  <2>2. PICK t \in Task :
          /\ t = Head(batch) /\ Queued(t)
          /\ \A u : Queued(u) => Queued(u)' \/ u = t
          /\ \A u : Queued(u)' => Queued(u)
    BY <2>1, PopQueues
  <2>3. CASE t \notin tasks
    <3>1. UNCHANGED <<cur, lost>>
      BY <1>4, <2>2, <2>3 DEF PollNext, Alive
    <3>2. Owed' = Owed /\ Polling' = Polling
      BY <2>1, <2>2, <2>3, <3>1 DEF Owed, Polling
    <3> QED
      BY <2>1, <3>2 DEF Contract!vars
  <2>4. CASE t \in tasks
    <3>1. cur' = t /\ lost' = lost \ {t}
      BY <1>4, <2>2, <2>4 DEF PollNext, Alive
    <3>2. t \in Owed \ Polling /\ Polling' = Polling \cup {t}
      BY <2>1, <2>2, <2>4, <3>1 DEF Owed, Polling
    <3>3. CASE Queued(t)'
      <4>1. Owed' = Owed
        BY <2>1, <2>2, <3>1, <3>3 DEF Owed
      <4>2. PolledTwice(t)
        BY <2>1, <3>2, <4>1 DEF PolledTwice
      <4> QED
        BY <2>2, <4>2
    <3>4. CASE ~Queued(t)'
      <4>1. Owed' = Owed \ {t}
        BY <2>1, <2>2, <3>1, <3>4 DEF Owed
      <4>2. Contract!BeginPoll(t)
        BY <2>1, <3>2, <4>1 DEF Contract!BeginPoll
      <4> QED
        BY <2>2, <4>2 DEF Contract!Next
    <3> QED
      BY <3>3, <3>4
  <2> QED
    BY <2>3, <2>4
<1>5. ASSUME NEW t \in Task, UserWake(t)
      PROVE  [Contract!Next \/ \E u \in Task : PolledTwice(u)]_Contract!vars
  <2>1. UNCHANGED <<fresh, tasks, cur, lost, batch>> /\ Push(t)
    BY <1>5 DEF UserWake, Running
  <2>2. \A u : Queued(u)' <=> Queued(u) \/ u = t
    BY <2>1, WakeQueues DEF TypeOK
  <2> QED
    BY <2>1, <2>2, ContractWake
<1>6. CASE PollPending
  <2>1. /\ cur \in Task /\ cur' = NoTask
        /\ UNCHANGED <<fresh, tasks, queue, batch, lost>>
    BY <1>6 DEF PollPending, Running, Suspend, TypeOK, Places
  <2> QED
    BY <2>1, QueuesSame, ContractPollEnds
<1>7. CASE PollSleep
  <2>1. /\ cur \in Task /\ cur' = NoTask
        /\ UNCHANGED <<fresh, tasks, queue, batch, lost>>
    BY <1>7 DEF PollSleep, Running, Suspend, TypeOK
  <2> QED
    BY <2>1, QueuesSame, ContractPollEnds
<1>8. CASE PollJoin
  <2>1. CASE awaits[cur] \in result
    <3>1. UNCHANGED <<fresh, tasks, cur, lost, queue, batch>>
      BY <1>8, <2>1 DEF PollJoin, JoinStore, Running, Suspend
    <3> QED
      BY <3>1, QueuesSame, ContractStutter
  <2>2. CASE awaits[cur] \notin result
    <3>1. /\ cur \in Task /\ cur' = NoTask
          /\ UNCHANGED <<fresh, tasks, queue, batch, lost>>
      BY <1>8, <2>2 DEF PollJoin, JoinStore, Running, Suspend, TypeOK, Places
    <3> QED
      BY <3>1, QueuesSame, ContractPollEnds
  <2> QED
    BY <2>1, <2>2
<1>9. CASE PollReady
  <2>1. UNCHANGED <<fresh, tasks, cur, lost, batch>>
    BY <1>9 DEF PollReady, StoreResult, Running
  <2>2. CASE waker[cur] \in Task
    <3>1. \A u : Queued(u)' <=> Queued(u) \/ u = waker[cur]
      BY <1>9, <2>1, <2>2, WakeQueues DEF PollReady, StoreResult, Running,
         TypeOK
    <3> QED
      BY <2>1, <2>2, <3>1, ContractWake
  <2>3. CASE ~(waker[cur] \in Task)
    <3>1. UNCHANGED queue
      BY <1>9, <2>3 DEF PollReady, StoreResult, Running
    <3> QED
      BY <2>1, <3>1, QueuesSame, ContractStutter
  <2> QED
    BY <2>2, <2>3
<1>10. CASE Remove
  <2>1. /\ cur \in tasks /\ tasks' = tasks \ {cur} /\ cur' = NoTask
        /\ UNCHANGED <<fresh, queue, batch, lost>>
    BY <1>10 DEF Remove, Suspend, Places
  <2>2. Owed' = Owed \ {cur}
    BY <2>1, QueuesSame DEF Owed
  <2>3. Polling = {cur} /\ Polling' = {}
    BY <2>1 DEF Polling, TypeOK
  <2>4. (Task \ (fresh \cup tasks))' = (Task \ (fresh \cup tasks)) \cup {cur}
    <3>1. cur \in Task /\ cur \notin fresh /\ cur \in tasks
      BY <2>1 DEF TypeOK
    <3> QED
      BY <2>1, <3>1
  <2>5. Contract!PollDone(cur)
    BY <2>1, <2>2, <2>3, <2>4 DEF Contract!PollDone
  <2> QED
    BY <2>1, <2>5 DEF Contract!Next, TypeOK
<1>11. CASE PollPanics
  <2>1. cur \in Task /\ cur' = NoTask /\ UNCHANGED <<fresh, tasks>>
    BY <1>11 DEF PollPanics, Leave, TypeOK, Places
  <2>2. \A u : Queued(u)' \/ u \in lost' <=> Queued(u) \/ u \in lost
    BY <1>11, PanicLoses DEF TypeOK
  <2> QED
    BY <2>1, <2>2, ContractPollEnds
<1>12. ASSUME NEW t \in Task, Fire(t)
      PROVE  [Contract!Next \/ \E u \in Task : PolledTwice(u)]_Contract!vars
  <2>1. UNCHANGED <<fresh, tasks, cur, lost, batch>>
    BY <1>12 DEF Fire, FireWake
  <2>2. CASE t \in stored
    <3>1. \A u : Queued(u)' <=> Queued(u) \/ u = t
      BY <1>12, <2>1, <2>2, WakeQueues DEF Fire, FireWake, TypeOK
    <3> QED
      BY <2>1, <2>2, <3>1, ContractWake
  <2>3. CASE ~(t \in stored)
    <3>1. UNCHANGED queue
      BY <1>12, <2>3 DEF Fire, FireWake
    <3> QED
      BY <2>1, <3>1, QueuesSame, ContractStutter
  <2> QED
    BY <2>2, <2>3
<1>13. ASSUME NEW t \in Task, IoWake(t)
      PROVE  [Contract!Next \/ \E u \in Task : PolledTwice(u)]_Contract!vars
  <2>1. UNCHANGED <<fresh, tasks, cur, lost, batch>> /\ Push(t)
    BY <1>13 DEF IoWake
  <2>2. \A u : Queued(u)' <=> Queued(u) \/ u = t
    BY <2>1, WakeQueues DEF TypeOK
  <2> QED
    BY <2>1, <2>2, ContractWake
<1>14. CASE UNCHANGED <<fresh, tasks, cur, lost, queue, batch>>
  BY <1>14, QueuesSame, ContractStutter
<1>15. CASE (\E t \in Task, d \in 0..MaxDelay : Sleep(t, d)) \/ TickReturns \/
          PollHandle \/ Process("process", "fire") \/
          Process("process again", "fire again") \/ EnterReactor \/
          LeaveReactor \/ EndOfLoop \/ ClockTick \/ UNCHANGED vars
  BY <1>15, <1>14 DEF Sleep, TickReturns, PollHandle, TakeResult, Leave,
     Process, EnterReactor, LeaveReactor, EndOfLoop, ClockTick, vars
<1> QED
  BY NextCases, <1>1, <1>2, <1>3, <1>4, <1>5, <1>6, <1>7, <1>8, <1>9, <1>10,
     <1>11, <1>12, <1>13, <1>14, <1>15

(* The executor of the single-threaded runtime refines WakeContract, but   *)
(* for polls that no wake asked for: whatever the order of wakes, polls    *)
(* and timers, a wake is answered by a poll that begins after it, or is    *)
(* among those that a panic has dropped with the ids tick had drained.     *)
THEOREM ContractIsKept == Spec => KeepsWakeContract
<1>1. Init => Contract!Init
  BY ConstAssumption DEF Init, Contract!Init, Owed, Polling
<1>2. IInv /\ [Next]_vars => 
        [Contract!Next \/ \E t \in Task : PolledTwice(t)]_Contract!vars
  BY ContractStep DEF IInv
<1> QED
  BY <1>1, <1>2, Invariance, PTL DEF Spec, KeepsWakeContract

-----------------------------------------------------------------------------
(* More than the runs check.                                               *)

(* At step 6 of block_on the root is still in the map: the last look at    *)
(* the handle and the panic after it are never reached, nor is the timeout *)
(* for timers of which process knows no deadline.                          *)
THEOREM LastLookUnreached ==
  Spec => [](pc = "fire" /\ due = {} =>
               root \in tasks /\ (heap # {} => next # 0))
<1>1. IInv => (pc = "fire" /\ due = {} =>
                 root \in tasks /\ (heap # {} => next # 0))
  BY DEF IInv, Places, RootReturns, Deadlines
<1> QED
  BY <1>1, Invariance, PTL

(* With the result of the root there, block_on does not block, and returns *)
(* from its next look at the handle.                                       *)
TakesResult ==
  root \in result => /\ pc = "handle" => pc' \in {"handle", "outside"}
                     /\ pc' # "park"

(* When the result of the root is there, the next time that block_on comes *)
(* to its handle it takes the result and returns, and before that it does  *)
(* not block: the safety half of ReturnsWhenQuiet.                         *)
THEOREM NextLookReturns == Spec => [][TakesResult]_vars
<1>1. IInv /\ [Next]_vars => [TakesResult]_vars
  <2> SUFFICES ASSUME IInv, Next, root \in result
               PROVE  /\ pc = "handle" => pc' \in {"handle", "outside"}
                      /\ pc' # "park"
    BY DEF TakesResult
  <2>1. woken /\ pc \in {"tick", "next", "poll", "ready", "handle"}
    <3>1. root # NoTask
      BY ConstAssumption DEF IInv, TypeOK
    <3> QED
      BY <3>1 DEF IInv, RootReturns
  <2>2. CASE pc = "handle"
    <3>1. PollHandle \/ pc' = pc
      BY <2>2, NextCases DEF Sleep, Spawn, BlockOn, Tick, TickReturns,
         PollNext, UserWake, Running, PollPending, PollSleep, PollJoin,
         PollReady, Remove, PollPanics, Process, Fire, EnterReactor, IoWake,
         LeaveReactor, EndOfLoop, ClockTick, vars
    <3>2. PollHandle => pc' = "outside"
      BY <2>1 DEF PollHandle, TakeResult, Leave
    <3> QED
      BY <2>2, <3>1, <3>2
  <2>3. CASE pc # "handle"
    BY <2>1, <2>3, NextCases DEF Sleep, Spawn, BlockOn, Tick, TickReturns,
       PollNext, UserWake, Running, PollPending, PollSleep, PollJoin, Suspend,
       PollReady, Remove, PollPanics, PollHandle, TakeResult, Leave, Process,
       Fire, EnterReactor, IoWake, LeaveReactor, EndOfLoop, ClockTick, vars
  <2> QED
    BY <2>2, <2>3
<1> QED
  BY <1>1, Invariance, PTL DEF Spec

(* The ids that tick still has to poll, and behind them the ready queue.   *)
Line == batch \o queue

(* A step on this line: an id joins at its end or leaves at its head; only *)
(* a panic drops the rest of the drained ids.                              *)
Served ==
  \/ Line' = Line
  \/ \E u \in Task : Line' = Append(Line, u)
  \/ Line # <<>> /\ Line' = Tail(Line)
  \/ PollPanics /\ Line' = queue

(* Nobody overtakes a task that waits for its poll, however often the      *)
(* others wake themselves.                                                 *)
FirstComeFirstServed == [][Served]_vars

(* An id pushed to the ready queue is behind the drained ones as well.     *)
LEMMA AppendBehind ==
  ASSUME NEW s \in Seq(Task), NEW q \in Seq(Task), NEW t \in Task
  PROVE  s \o Append(q, t) = Append(s \o q, t)
<1>1. <<t>> \in Seq(Task) /\ s \o q \in Seq(Task)
  BY SMT
<1>2. Append(q, t) = q \o <<t>> /\ Append(s \o q, t) = (s \o q) \o <<t>>
  BY <1>1, AppendIsConcat
<1>3. (s \o q) \o <<t>> = s \o (q \o <<t>>)
  BY <1>1, ConcatAssociative, SMTT(60)
<1> QED
  BY <1>2, <1>3

(* The drained id that tick polls next is the first of both.               *)
LEMMA TailInFront ==
  ASSUME NEW s \in Seq(Task), NEW q \in Seq(Task), s # <<>>
  PROVE  s \o q # <<>> /\ Tail(s) \o q = Tail(s \o q)
<1>1. /\ Tail(s) \in Seq(Task) /\ Len(Tail(s)) = Len(s) - 1
      /\ \A i \in 1..Len(s) - 1 : Tail(s)[i] = s[i + 1]
      /\ Len(s) \in Nat \ {0} /\ Len(q) \in Nat
  BY SMT
<1>2. /\ s \o q \in Seq(Task) /\ Len(s \o q) = Len(s) + Len(q)
      /\ \A i \in 1..Len(s) + Len(q) :
           (s \o q)[i] = IF i <= Len(s) THEN s[i] ELSE q[i - Len(s)]
  BY ConcatProperties
<1>3. s \o q # <<>>
  BY <1>1, <1>2, SMTT(60)
<1>4. /\ Tail(s \o q) \in Seq(Task)
      /\ Len(Tail(s \o q)) = Len(s) + Len(q) - 1
      /\ \A i \in 1..Len(s) + Len(q) - 1 : Tail(s \o q)[i] = (s \o q)[i + 1]
  BY <1>1, <1>2, <1>3, SMTT(60)
<1>5. /\ Tail(s) \o q \in Seq(Task)
      /\ Len(Tail(s) \o q) = Len(s) - 1 + Len(q)
      /\ \A i \in 1..Len(s) - 1 + Len(q) :
           (Tail(s) \o q)[i] = IF i <= Len(s) - 1 THEN Tail(s)[i]
                                                  ELSE q[i - (Len(s) - 1)]
  BY <1>1, ConcatProperties, SMTT(60)
<1>6. ASSUME NEW i \in 1..Len(Tail(s) \o q)
      PROVE  (Tail(s) \o q)[i] = Tail(s \o q)[i]
  <2>1. /\ i \in 1..Len(s) + Len(q) - 1 /\ i \in 1..Len(s) - 1 + Len(q)
        /\ i + 1 \in 1..Len(s) + Len(q)
        /\ i - (Len(s) - 1) = i + 1 - Len(s)
        /\ i <= Len(s) - 1 <=> i + 1 <= Len(s)
    BY <1>1, <1>5, <1>6, SMTT(60)
  <2>2. CASE i <= Len(s) - 1
    BY <1>1, <1>2, <1>4, <1>5, <2>1, <2>2, SMTT(60)
  <2>3. CASE ~(i <= Len(s) - 1)
    BY <1>1, <1>2, <1>4, <1>5, <2>1, <2>3, SMTT(60)
  <2> QED
    BY <2>2, <2>3
<1>7. Len(Tail(s) \o q) = Len(Tail(s \o q))
  BY <1>1, <1>4, <1>5, SMTT(60)
<1> QED
  BY <1>3, <1>4, <1>5, <1>6, <1>7, SeqEqual

(* A wake appends the id to the line, or leaves it as it is.               *)
LEMMA PushLine ==
  ASSUME TypeOK, NEW t \in Task, Push(t), UNCHANGED batch
  PROVE  Line' = Line \/ \E u \in Task : Line' = Append(Line, u)
<1>1. queue' = queue \/ queue' = Append(queue, t)
  BY DEF Push
<1>2. batch \o Append(queue, t) = Append(batch \o queue, t)
  BY AppendBehind DEF TypeOK
<1> QED
  BY <1>1, <1>2 DEF Line

(* The ready queue and the ids that tick has drained are polled in the     *)
(* order in which they were pushed: the safety half of QueuedTaskRuns.     *)
THEOREM PolledInOrder == Spec => FirstComeFirstServed
<1>1. IInv /\ [Next]_vars => [Served]_vars
  <2> SUFFICES ASSUME IInv, [Next]_vars PROVE [Served]_vars
    OBVIOUS
  <2> USE DEF IInv, execVars, Served
  <2>1. CASE Tick
    <3>1. batch = <<>> /\ queue \in Seq(Task)
      BY <2>1 DEF Tick, TypeOK, Places
    <3>2. queue' = <<>> /\ batch' = queue
      BY <2>1, <3>1, TickQueues
    <3>3. queue \o <<>> = queue /\ <<>> \o queue = queue
      BY <3>1, ConcatEmptySeq
    <3> QED
      BY <3>1, <3>2, <3>3 DEF Line
  <2>2. CASE PollNext
    BY <2>2, TailInFront DEF PollNext, TypeOK, Line
  <2>3. CASE PollPanics
    <3>1. queue \in Seq(Task) /\ queue' = queue /\ batch' = <<>>
      BY <2>3 DEF PollPanics, TypeOK
    <3>2. <<>> \o queue = queue
      BY <3>1, ConcatEmptySeq
    <3> QED
      BY <2>3, <3>1, <3>2 DEF Line
  <2>4. ASSUME NEW t \in Task, Fire(t) PROVE Served
    <3>1. Push(t) \/ UNCHANGED queue
      BY <2>4 DEF Fire, FireWake
    <3> QED
      BY <2>4, <3>1, PushLine DEF Fire, Line
  <2>5. ASSUME NEW t \in Task, UserWake(t) \/ IoWake(t) PROVE Served
    BY <2>5, PushLine DEF UserWake, IoWake
  <2>6. ASSUME NEW t \in Task, NEW c, Spawn(t, c) \/ BlockOn(t, c)
        PROVE  Served
    BY <2>6, PushLine DEF Spawn, BlockOn, Insert
  <2>7. CASE PollReady
    <3>1. /\ UNCHANGED batch
          /\ \/ waker[cur] \in Task /\ Push(waker[cur])
             \/ UNCHANGED queue
      BY <2>7 DEF PollReady, StoreResult
    <3> QED
      BY <3>1, PushLine DEF Line
  <2>8. CASE UNCHANGED <<queue, batch>>
    BY <2>8 DEF Line
  <2>9. CASE (\E t \in Task, d \in 0..MaxDelay : Sleep(t, d)) \/
             TickReturns \/ PollPending \/ PollSleep \/ PollJoin \/ Remove \/
             PollHandle \/ Process("process", "fire") \/
             Process("process again", "fire again") \/ EnterReactor \/
             LeaveReactor \/ EndOfLoop \/ ClockTick
    BY <2>8, <2>9 DEF Sleep, TickReturns, PollPending, PollSleep, PollJoin,
       Remove, PollHandle, Process, EnterReactor, LeaveReactor, EndOfLoop,
       ClockTick
  <2> HIDE DEF IInv, execVars, Served
  <2> QED
    BY NextCases, <2>1, <2>2, <2>3, <2>4, <2>5, <2>6, <2>7, <2>9
<1> QED
  BY <1>1, Invariance, PTL DEF Spec, FirstComeFirstServed

(* "Run one tick: poll every ready task once": the drained ids differ from *)
(* each other and from the task being polled, so that a tick polls no task *)
(* twice, however often it is woken meanwhile.                             *)
TickOnce ==
  /\ \A i, j \in 1..Len(batch) : batch[i] = batch[j] => i = j
  /\ \A i \in 1..Len(batch) : batch[i] # cur

(* The ids are those of tasks.                                             *)
LEMMA IdsOfTasks ==
  ASSUME NEW s \in Seq(Task)
  PROVE  \A i \in 1..Len(s) : s[i] # NoTask
<1>1. ASSUME NEW i \in 1..Len(s) PROVE s[i] \in Task
  BY ElementOfSeq
<1> QED
  BY <1>1, ConstAssumption

(* ReadyQueue::push rejects an id that is queued, and tick drains the      *)
(* queue as a whole.                                                       *)
THEOREM TickPollsOnce == Spec => []TickOnce
<1>1. Init => TickOnce
  BY SMT DEF Init, TickOnce
<1>2. IInv /\ TickOnce /\ [Next]_vars => TickOnce'
  <2> SUFFICES ASSUME IInv, TickOnce, [Next]_vars PROVE TickOnce'
    OBVIOUS
  <2> USE DEF IInv, execVars
  <2>1. CASE Tick
    <3>1. batch = <<>> /\ queue \in Seq(Task) /\ cur' = NoTask
      BY <2>1 DEF Tick, TypeOK, Places
    <3>2. batch' = queue
      BY <2>1, <3>1, TickQueues
    <3> QED
      BY <3>1, <3>2, IdsOfTasks DEF TypeOK, TickOnce
  <2>2. CASE PollNext
    <3>1. /\ batch' = Tail(batch) /\ batch # <<>> /\ batch \in Seq(Task)
          /\ cur' = Head(batch) \/ cur' = cur
      BY <2>2 DEF PollNext, TypeOK
    <3>2. /\ Len(batch) \in Nat \ {0} /\ Len(batch') = Len(batch) - 1
          /\ Head(batch) = batch[1]
          /\ \A i \in 1..Len(batch') : batch'[i] = batch[i + 1]
      BY <3>1, SMTT(60)
    <3>3. \A i \in 1..Len(batch') : i + 1 \in 1..Len(batch) /\ i + 1 # 1
      BY <3>2, SMTT(60)
    <3>4. \A i, j \in 1..Len(batch') : i + 1 = j + 1 => i = j
      BY SMTT(60)
    <3>5. 1 \in 1..Len(batch)
      BY <3>2, SMTT(60)
    <3>6. ASSUME NEW i \in 1..Len(batch'), NEW j \in 1..Len(batch'),
                 batch'[i] = batch'[j]
          PROVE i = j
      BY <3>2, <3>3, <3>4, <3>6 DEF TickOnce
    <3>7. ASSUME NEW i \in 1..Len(batch')
          PROVE batch'[i] # batch[1] /\ batch'[i] # cur
      BY <3>2, <3>3, <3>5, <3>7 DEF TickOnce
    <3> QED
      BY <3>1, <3>2, <3>6, <3>7 DEF TickOnce
  <2>3. CASE batch' = <<>>
    BY <2>3, SMTT(60) DEF TickOnce
  <2>4. CASE UNCHANGED <<batch, cur>>
    BY <2>4 DEF TickOnce
  <2>5. CASE batch' = batch /\ cur' = NoTask
    BY <2>5, IdsOfTasks DEF TickOnce, TypeOK
  <2>6. \/ Tick \/ PollNext \/ batch' = <<>> \/ UNCHANGED <<batch, cur>>
        \/ batch' = batch /\ cur' = NoTask
    BY NextCases DEF Sleep, Spawn, BlockOn, Insert, TickReturns, UserWake,
       PollPending, PollSleep, PollJoin, Suspend, PollReady, Remove,
       PollPanics, PollHandle, Process, Fire, EnterReactor, IoWake,
       LeaveReactor, EndOfLoop, ClockTick, vars
  <2> QED
    BY <2>1, <2>2, <2>3, <2>4, <2>5, <2>6
<1> QED
  BY <1>1, <1>2, Invariance, PTL DEF Spec

(* When block_on blocks in the reactor nothing else is left to do: no id   *)
(* is queued or drained, no entry is due, and but for the ids that a panic *)
(* has lost, a task that waits has its waker in a timer still to fire, or  *)
(* with a task that has not stored its result.                             *)
ParksIdle ==
  [][pc # "park" /\ pc' = "park" =>
       /\ queue = <<>> /\ batch = <<>> /\ due = {}
       /\ sleeping \ lost \subseteq heap \cap stored
       /\ \A t \in joining \ lost : awaits[t] # NoTask =>
            awaits[t] \notin result /\ waker[awaits[t]] = t]_vars

(* block_on blocks only when no task that waits could go on.               *)
THEOREM ParksWhenIdle == Spec => ParksIdle
<1> DEFINE Idle == /\ queue = <<>> /\ batch = <<>> /\ due = {}
                   /\ sleeping \ lost \subseteq heap \cap stored
                   /\ \A t \in joining \ lost : awaits[t] # NoTask =>
                        awaits[t] \notin result /\ waker[awaits[t]] = t
<1>1. IInv /\ [Next]_vars => [pc # "park" /\ pc' = "park" => Idle]_vars
  <2> SUFFICES ASSUME IInv, [Next]_vars, pc # "park", pc' = "park"
               PROVE Idle
    OBVIOUS
  <2>1. EnterReactor
    BY NextCases DEF Sleep, Spawn, BlockOn, Tick, TickReturns, PollNext,
       UserWake, PollPending, PollSleep, PollJoin, Suspend, PollReady, Remove,
       PollPanics, PollHandle, TakeResult, Leave, Process, Fire, IoWake,
       LeaveReactor, EndOfLoop, ClockTick, vars
  <2>2. pc = "fire" /\ due = {} /\ queue = <<>>
    BY <2>1 DEF EnterReactor, TakeResult, Leave
  <2>3. batch = <<>>
    BY <2>2 DEF IInv, Places
  <2>4. \A t : ~Queued(t)
    BY <2>2, <2>3, SMTT(60) DEF Queued, InSeq
  <2>5. sleeping \ lost \subseteq heap \cap stored
    BY <2>4 DEF IInv, TypeOK, Waiting, WaiterQueued
  <2>6. ASSUME NEW t \in joining \ lost, awaits[t] # NoTask
        PROVE awaits[t] \notin result /\ waker[awaits[t]] = t
    BY <2>4, <2>6 DEF IInv, Waiting, WaiterQueued
  <2> QED
    BY <2>2, <2>3, <2>5, <2>6
<1> QED
  BY <1>1, Invariance, PTL DEF Spec, ParksIdle

=============================================================================
