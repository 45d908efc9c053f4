--------------------------- MODULE ExecutorSteps ----------------------------
(***************************************************************************)
(* Steps of Executor preserve the invariant: the tickets and the owners of *)
(* tasks, the map of tasks, the locals of the threads, active_count and    *)
(* the types.                                                              *)
(***************************************************************************)
EXTENDS ExecutorInvariant, FiniteSetTheorems, TLAPS

(* Zenon proves most leaves; the others cite SMT.                          *)
USE ZenonT(60)
USE ConstAssumption
USE DEF Thread, At, Goto, Call, taskVars, queueVars, driverVars, parkVars,
        callVars, FRESH, IDLE, SCHEDULED, RUNNING, NOTIFIED,
        CallPc, UserCode, MayWake

Distinct(q) == \A i, j \in 1..Len(q) : q[i] = q[j] => i = j

(* ReadyQueue: a step that leaves the deque and the set alone.             *)
LEMMA QueueSame ==
  ASSUME queue' = queue
  PROVE  \A t \in Task : InQueue(t)' <=> InQueue(t)
  BY DEF InQueue

(* ReadyQueue::enqueue: what is in the deque after a push.                 *)
LEMMA QueuePush ==
  ASSUME queue \in Seq(Task), NEW u \in Task, queue' = Append(queue, u),
         ~InQueue(u), Distinct(queue)
  PROVE  /\ \A t \in Task : InQueue(t)' <=> InQueue(t) \/ t = u
         /\ Distinct(queue')
<1>1. Len(queue') = Len(queue) + 1 /\ queue'[Len(queue) + 1] = u
  BY SMT
<1>2. \A i \in 1..Len(queue) : queue'[i] = queue[i]
  BY SMT
<1>3. QED BY <1>1, <1>2, SMTT(60) DEF InQueue, Distinct

(* ReadyQueue::dequeue: what is in the deque after a pop.                  *)
LEMMA QueuePop ==
  ASSUME queue \in Seq(Task), queue # <<>>, queue' = Tail(queue),
         Distinct(queue)
  PROVE  /\ Head(queue) \in Task
         /\ \A t \in Task : InQueue(t)' <=> InQueue(t) /\ t # Head(queue)
         /\ Distinct(queue')
<1>1. Len(queue) \in Nat \ {0} /\ Head(queue) = queue[1]
  BY SMT
<1>2. Len(queue') = Len(queue) - 1
  BY SMT
<1>3. \A i \in 1..Len(queue') : queue'[i] = queue[i + 1]
  BY SMT
<1>4. \A t \in Task : InQueue(t) /\ t # Head(queue) => InQueue(t)'
  <2> SUFFICES ASSUME NEW t \in Task, NEW i \in 1..Len(queue), queue[i] = t,
                      t # Head(queue)
               PROVE  \E j \in 1..Len(queue') : queue'[j] = t
    BY DEF InQueue
  <2>1. i - 1 \in 1..Len(queue') /\ (i - 1) + 1 = i
    BY <1>1, <1>2, SMTT(60)
  <2>2. queue'[i - 1] = queue[i]
    BY <2>1, <1>3
  <2>3. QED BY <2>1, <2>2
<1>5. \A t \in Task : InQueue(t)' => InQueue(t) /\ t # Head(queue)
  BY <1>1, <1>2, <1>3, SMTT(60) DEF InQueue, Distinct
<1>6. Distinct(queue')
  BY <1>1, <1>2, <1>3, SMTT(60) DEF Distinct
<1>7. QED BY <1>1, <1>4, <1>5, <1>6, SMTT(60)

(* There are finitely many workers and callers.                            *)
LEMMA ThreadFinite == IsFiniteSet(Thread)
  BY FS_Union

(* Steps that move a thread without touching a task, a ticket or an owner. *)
Quiet(a) ==
  \/ EnqueuePeek(a) \/ EnqueuePoke(a) \/ EnqueueNotify(a) \/ Sleep(a)
  \/ a \in Client /\ (ShutdownStore(a) \/ ShutdownStep(a))
  \/ a \in Worker /\
       \/ CheckShutdown(a) \/ Elect(a) \/ Recheck(a) \/ ReleaseToken(a)
       \/ PrepareSleep(a) \/ CondvarWait(a) \/ CondvarReturn(a)
       \/ EpollWoken(a) \/ DrainWakeFd(a) \/ Timeout(a)
       \/ DriveEnterEpoll(a) \/ DriveReturn(a)

(* Program points that Owners, Mapped and Counted tell apart.              *)
Marked == {"insert", "count", "resched", "uncount", "announce"}

(* Nothing that Tickets, Owners and Mapped speak of changes.               *)
Framed ==
  /\ UNCHANGED <<tasks, active, state, handed, queue, pending>>
  /\ \A b \in Thread : \A t \in Task : Holds(b, t)' <=> Holds(b, t)
  /\ \A w \in Worker : \A t \in Task : Owns(w, t)' <=> Owns(w, t)
  /\ \A b \in Thread : \A l \in Marked : pc'[b] = l <=> pc[b] = l

(* Steps that touch neither tasks nor tickets frame the invariants on      *)
(* them.                                                                   *)
LEMMA QuietFrame ==
  ASSUME TypeOK, Scopes, NEW a \in Thread, Quiet(a)
  PROVE  Framed
<1> USE DEF Framed, Marked, Holds, Owns, TypeOK, Scopes
<1>1. CASE EnqueuePeek(a) \/ EnqueuePoke(a)
  BY <1>1, SMTT(60) DEF EnqueuePeek, EnqueuePoke
<1>2. CASE EnqueueNotify(a)
  BY <1>2, SMTT(60) DEF EnqueueNotify, ReturnPc
<1>3. CASE Sleep(a)
  BY <1>3 DEF Sleep
<1>4. CASE a \in Client /\ (ShutdownStore(a) \/ ShutdownStep(a))
  BY <1>4, SMTT(60) DEF ShutdownStore, ShutdownStep, ShutdownNotify,
     ShutdownPoke, ShutdownJoin
<1>5. CASE a \in Worker /\ (CheckShutdown(a) \/ Elect(a) \/ Recheck(a))
  BY <1>5, SMTT(60) DEF CheckShutdown, Elect, Recheck
<1>6. CASE a \in Worker /\ (ReleaseToken(a) \/ PrepareSleep(a))
  BY <1>6, SMTT(60) DEF ReleaseToken, PrepareSleep
<1>7. CASE a \in Worker /\ (CondvarWait(a) \/ CondvarReturn(a) \/ Timeout(a))
  BY <1>7, SMTT(60) DEF CondvarWait, CondvarReturn, Timeout, CondvarTimeout,
     EpollTimeout
<1>8. CASE a \in Worker /\ (EpollWoken(a) \/ DrainWakeFd(a))
  BY <1>8, SMTT(60) DEF EpollWoken, DrainWakeFd
<1>9. CASE a \in Worker /\ (DriveEnterEpoll(a) \/ DriveReturn(a))
  BY <1>9, SMTT(60) DEF DriveEnterEpoll, DriveReturn
<1>10. QED BY <1>1, <1>2, <1>3, <1>4, <1>5, <1>6, <1>7, <1>8, <1>9 DEF Quiet

(* The step relation, split into the quiet steps and the rest.             *)
LEMMA NextCases ==
  ASSUME [Next]_vars
  PROVE  \/ UNCHANGED vars
         \/ \E a \in Thread : \/ Quiet(a) \/ EnqueuePush(a)
                              \/ SpawnInsert(a) \/ SpawnCount(a)
         \/ \E a \in Thread, t \in Task : Wake(a, t) \/ Spawn(a, t)
         \/ \E w \in Worker : \/ Dequeue(w) \/ PollTask(w) \/ PollReturn(w)
BY DEF Next, RuntimeStep, CallStep, EnqueueTask, WorkerStep, Return, Timeout,
   UserStep, Quiet

(* The ready queue, the wakers and poll_task pass tickets on and never     *)
(* lose or duplicate one.                                                  *)
LEMMA TicketsStep ==
  ASSUME TypeOK, Scopes, Tickets, Owners, Mapped, [Next]_vars
  PROVE  Tickets'
<1>0. ASSUME Framed  PROVE Tickets'
  BY <1>0, QueueSame DEF Framed, Tickets, OneTicket
<1>1. CASE UNCHANGED vars
  BY <1>0, <1>1 DEF vars, Framed, Holds, Owns
<1>2. ASSUME NEW a \in Thread, Quiet(a)  PROVE Tickets'
  BY <1>0, <1>2, QuietFrame
<1>3. ASSUME NEW a \in Thread, EnqueuePush(a)  PROVE Tickets'
  <2>1. /\ arg[a] \in Task /\ Holds(a, arg[a])
        /\ ~InQueue(arg[a]) /\ arg[a] \notin pending
    BY <1>3 DEF EnqueuePush, Tickets, OneTicket, Holds, Scopes
  <2>2. /\ \A t \in Task : InQueue(t)' <=> InQueue(t) \/ t = arg[a]
        /\ Distinct(queue')
    BY <1>3, <2>1, QueuePush DEF EnqueuePush, Tickets, OneTicket, Distinct,
       TypeOK
  <2>3. \A b \in Thread : \A t \in Task :
          Holds(b, t)' <=> Holds(b, t) /\ b # a
    BY <1>3 DEF EnqueuePush, Holds, Scopes, TypeOK
  <2>4. state' = state /\ pending' = pending \cup {arg[a]}
    BY <1>3 DEF EnqueuePush
  <2>5. \A t \in Task : Holds(a, t) => t = arg[a]
    BY <1>3 DEF EnqueuePush, Holds
  <2>6. QED BY <2>1, <2>2, <2>3, <2>4, <2>5, SMTT(60) DEF Tickets, OneTicket,
               Distinct
<1>4. ASSUME NEW a \in Thread, SpawnInsert(a) \/ SpawnCount(a)
      PROVE  Tickets'
  <2>1. \A b \in Thread : \A t \in Task : Holds(b, t)' <=> Holds(b, t)
    BY <1>4 DEF SpawnInsert, SpawnCount, Holds, Scopes, TypeOK
  <2>2. UNCHANGED <<queue, pending, state>>
    BY <1>4 DEF SpawnInsert, SpawnCount
  <2>3. QED BY <2>1, <2>2, QueueSame DEF Tickets, OneTicket
<1>5. ASSUME NEW a \in Thread, NEW t \in Task, Wake(a, t)  PROVE Tickets'
  <2>1. UNCHANGED <<queue, pending>>
    BY <1>5 DEF Wake
  <2>2. CASE state[t] = IDLE
    <3>1. \A b \in Thread : \A u \in Task :
            Holds(b, u)' <=> Holds(b, u) \/ (b = a /\ u = t)
      BY <1>5, <2>2, SMTT(60) DEF Wake, Holds, Scopes, TypeOK
    <3>2. state' = [state EXCEPT ![t] = SCHEDULED]
      BY <1>5, <2>2 DEF Wake
    <3>3. QED BY <2>1, <2>2, <3>1, <3>2, QueueSame, SMTT(60)
              DEF Tickets, OneTicket, TypeOK
  <2>3. CASE state[t] # IDLE
    <3>1. \A b \in Thread : \A u \in Task : Holds(b, u)' <=> Holds(b, u)
      BY <1>5, <2>3 DEF Wake, Holds
    <3>2. \A u \in Task : state'[u] = SCHEDULED <=> state[u] = SCHEDULED
      BY <1>5, <2>3 DEF Wake, TypeOK
    <3>3. QED BY <2>1, <3>1, <3>2, QueueSame DEF Tickets, OneTicket
  <2>4. QED BY <2>2, <2>3
<1>6. ASSUME NEW a \in Thread, NEW t \in Task, Spawn(a, t)  PROVE Tickets'
  <2>1. \A b \in Thread : \A u \in Task :
          Holds(b, u)' <=> Holds(b, u) \/ (b = a /\ u = t)
    BY <1>6 DEF Spawn, Holds, Scopes, TypeOK
  <2>2. /\ state[t] = FRESH /\ state' = [state EXCEPT ![t] = SCHEDULED]
        /\ UNCHANGED <<queue, pending>>
    BY <1>6 DEF Spawn
  <2>3. QED BY <2>1, <2>2, QueueSame, SMTT(60) DEF Tickets, OneTicket, TypeOK
<1>7. ASSUME NEW w \in Worker, Dequeue(w)  PROVE Tickets'
  <2>1. CASE queue = <<>>
    <3>1. \A b \in Thread : \A u \in Task : Holds(b, u)' <=> Holds(b, u)
      BY <1>7, <2>1, SMTT(60) DEF Dequeue, Holds, Scopes, TypeOK
    <3>2. QED BY <1>7, <2>1, <3>1, QueueSame DEF Dequeue, Tickets, OneTicket
  <2>2. CASE queue # <<>>
    <3>1. /\ Head(queue) \in Task
          /\ \A t \in Task : InQueue(t)' <=> InQueue(t) /\ t # Head(queue)
          /\ Distinct(queue')
      BY <1>7, <2>2, QueuePop DEF Dequeue, Tickets, OneTicket, Distinct, TypeOK
    <3>2. InQueue(Head(queue))
      BY <2>2, SMTT(60) DEF InQueue, TypeOK
    <3>3. \A b \in Thread : \A u \in Task :
            Holds(b, u)' <=> Holds(b, u) \/ (b = w /\ u = Head(queue))
      BY <1>7, <2>2, SMTT(60) DEF Dequeue, Holds, Scopes, TypeOK
    <3>4. state' = state /\ pending' = pending \ {Head(queue)}
      BY <1>7, <2>2 DEF Dequeue
    <3>5. QED BY <3>1, <3>2, <3>3, <3>4, SMTT(60) DEF Tickets, OneTicket,
                 Distinct
  <2>3. QED BY <2>1, <2>2
<1>8. ASSUME NEW w \in Worker, PollLookup(w)  PROVE Tickets'
  <2>1. cur[w] \in Task /\ cur[w] \in tasks
    BY <1>8 DEF PollLookup, Mapped, Holds, Scopes
  <2>2. \A b \in Thread : \A u \in Task : Holds(b, u)' <=> Holds(b, u)
    BY <1>8, <2>1 DEF PollLookup, Holds, Scopes, TypeOK
  <2>3. QED BY <1>8, <2>2, QueueSame DEF PollLookup, Tickets, OneTicket
<1>9. ASSUME NEW w \in Worker, PollClaim(w)  PROVE Tickets'
  <2>1. cur[w] \in Task /\ Holds(w, cur[w]) /\ state[cur[w]] = SCHEDULED
    BY <1>9, SMTT(60) DEF PollClaim, Tickets, OneTicket, Holds, Scopes
  <2>2. \A b \in Thread : \A u \in Task :
          Holds(b, u)' <=> Holds(b, u) /\ b # w
    BY <1>9, <2>1, SMTT(60) DEF PollClaim, Holds, Scopes, TypeOK
  <2>3. state' = [state EXCEPT ![cur[w]] = RUNNING]
    BY <1>9, <2>1 DEF PollClaim
  <2>4. \A t \in Task : Holds(w, t) => t = cur[w]
    BY <1>9 DEF PollClaim, Holds
  <2>5. UNCHANGED <<queue, pending>>
    BY <1>9 DEF PollClaim
  <2>6. QED BY <2>1, <2>2, <2>3, <2>4, <2>5, QueueSame, SMTT(60)
            DEF Tickets, OneTicket, TypeOK
<1>10. ASSUME NEW w \in Worker,
              \/ PollReturn(w) \/ DoneRemove(w) \/ DoneUncount(w)
              \/ DoneAnnounce(w)
       PROVE  Tickets'
  <2>1. \A b \in Thread : \A u \in Task : Holds(b, u)' <=> Holds(b, u)
    BY <1>10, SMTT(60) DEF PollReturn, DoneRemove, DoneUncount, DoneAnnounce,
       Holds, Scopes, TypeOK
  <2>2. UNCHANGED <<queue, pending, state>>
    BY <1>10 DEF PollReturn, DoneRemove, DoneUncount, DoneAnnounce
  <2>3. QED BY <2>1, <2>2, QueueSame DEF Tickets, OneTicket
<1>11. ASSUME NEW w \in Worker, PendingIdle(w)  PROVE Tickets'
  <2>1. \A b \in Thread : \A u \in Task : Holds(b, u)' <=> Holds(b, u)
    BY <1>11, SMTT(60) DEF PendingIdle, Holds, Scopes, TypeOK
  <2>2. \A u \in Task : state'[u] = SCHEDULED <=> state[u] = SCHEDULED
    BY <1>11, SMTT(60) DEF PendingIdle, TypeOK
  <2>3. UNCHANGED <<queue, pending>>
    BY <1>11 DEF PendingIdle
  <2>4. QED BY <2>1, <2>2, <2>3, QueueSame DEF Tickets, OneTicket
<1>12. ASSUME NEW w \in Worker, PendingReschedule(w)  PROVE Tickets'
  <2>1. cur[w] \in Task /\ state[cur[w]] = NOTIFIED
    BY <1>12 DEF PendingReschedule, Owners, Owns, Scopes
  <2>2. \A b \in Thread : \A u \in Task :
          Holds(b, u)' <=> Holds(b, u) \/ (b = w /\ u = cur[w])
    BY <1>12, <2>1 DEF PendingReschedule, Holds, Scopes, TypeOK
  <2>3. /\ state' = [state EXCEPT ![cur[w]] = SCHEDULED]
        /\ UNCHANGED <<queue, pending>>
    BY <1>12 DEF PendingReschedule
  <2>4. QED BY <2>1, <2>2, <2>3, QueueSame, SMTT(60) DEF Tickets, OneTicket,
               TypeOK
<1>13. QED
  BY <1>1, <1>2, <1>3, <1>4, <1>5, <1>6, <1>7, <1>8, <1>9, <1>10, <1>11,
     <1>12, NextCases DEF PollTask

(* A task leaves RUNNING and NOTIFIED only through its owner.              *)
LEMMA OwnersStep ==
  ASSUME TypeOK, Scopes, Tickets, Owners, [Next]_vars
  PROVE  Owners'
<1> USE DEF Owners, Owns, Scopes, TypeOK
<1>1. CASE UNCHANGED vars
  BY <1>1, SMTT(60) DEF vars
<1>2. ASSUME NEW a \in Thread, Quiet(a)  PROVE Owners'
  BY <1>2, QuietFrame, SMTT(60) DEF Framed, Marked
<1>3. ASSUME NEW a \in Thread,
             EnqueuePush(a) \/ SpawnInsert(a) \/ SpawnCount(a)
      PROVE  Owners'
  BY <1>3, SMTT(60) DEF EnqueuePush, SpawnInsert, SpawnCount
<1>4. ASSUME NEW a \in Thread, NEW t \in Task, Wake(a, t)  PROVE Owners'
  BY <1>4, SMTT(60) DEF Wake
<1>5. ASSUME NEW a \in Thread, NEW t \in Task, Spawn(a, t)  PROVE Owners'
  BY <1>5, SMTT(60) DEF Spawn
<1>6. ASSUME NEW w \in Worker, Dequeue(w) \/ PollLookup(w)  PROVE Owners'
  <2>1. CASE Dequeue(w)
    BY <2>1, SMTT(60) DEF Dequeue
  <2>2. CASE PollLookup(w)
    BY <2>2, SMTT(60) DEF PollLookup
  <2>3. QED BY <1>6, <2>1, <2>2
<1>7. ASSUME NEW w \in Worker, PollClaim(w)  PROVE Owners'
  BY <1>7, SMTT(60) DEF PollClaim
<1>8. ASSUME NEW w \in Worker,
             \/ PollReturn(w) \/ DoneRemove(w)
             \/ DoneUncount(w) \/ DoneAnnounce(w)
      PROVE  Owners'
  BY <1>8, SMTT(60) DEF PollReturn, DoneRemove, DoneUncount, DoneAnnounce
<1>9. ASSUME NEW w \in Worker, PendingIdle(w)  PROVE Owners'
  BY <1>9, SMTT(60) DEF PendingIdle
<1>10. ASSUME NEW w \in Worker, PendingReschedule(w)  PROVE Owners'
  BY <1>10, SMTT(60) DEF PendingReschedule
<1> HIDE DEF Owners, Owns, Scopes, TypeOK
<1>11. QED
  BY <1>1, <1>2, <1>3, <1>4, <1>5, <1>6, <1>7, <1>8, <1>9, <1>10, NextCases
  DEF PollTask

(* The map holds the tasks between insertion and completion.               *)
LEMMA MappedStep ==
  ASSUME TypeOK, Scopes, Tickets, Owners, Mapped, [Next]_vars
  PROVE  Mapped'
<1> USE DEF Mapped, Owns, Holds, Scopes, TypeOK
<1>1. CASE UNCHANGED vars
  BY <1>1, QueueSame, SMTT(60) DEF vars
<1>2. ASSUME NEW a \in Thread, Quiet(a)  PROVE Mapped'
  <2>1. Framed
    BY <1>2, QuietFrame
  <2>2. QED BY <2>1, QueueSame, SMTT(60) DEF Framed, Marked
<1>3. ASSUME NEW a \in Thread, EnqueuePush(a)  PROVE Mapped'
  <2>1. /\ arg[a] \in Task /\ Holds(a, arg[a])
        /\ ~InQueue(arg[a]) /\ arg[a] \notin pending
    BY <1>3, SMTT(60) DEF EnqueuePush, Tickets, OneTicket
  <2>2. \A t \in Task : InQueue(t)' <=> InQueue(t) \/ t = arg[a]
    BY <1>3, <2>1, QueuePush DEF EnqueuePush, Tickets, OneTicket, Distinct
  <2>3. QED BY <1>3, <2>1, <2>2, SMTT(60) DEF EnqueuePush
<1>4. ASSUME NEW a \in Thread, SpawnInsert(a)  PROVE Mapped'
  BY <1>4, QueueSame, SMTT(60) DEF SpawnInsert, Tickets, OneTicket, Owners
<1>5. ASSUME NEW a \in Thread, SpawnCount(a)  PROVE Mapped'
  BY <1>5, QueueSame, SMTT(60) DEF SpawnCount
<1>6. ASSUME NEW a \in Thread, NEW t \in Task, Wake(a, t)  PROVE Mapped'
  <2>1. CASE state[t] = IDLE
    <3>1. t \in tasks /\ \A w \in Worker : ~Owns(w, t)
      BY <2>1 DEF Owners
    <3>2. \A b \in Thread : \A u \in Task :
            Holds(b, u)' <=> Holds(b, u) \/ (b = a /\ u = t)
      BY <1>6, <2>1, SMTT(60) DEF Wake
    <3>3. \A w \in Worker : \A u \in Task : Owns(w, u)' <=> Owns(w, u)
      BY <1>6, SMTT(60) DEF Wake
    <3>4. /\ \A b \in Thread : \A l \in {"insert", "uncount", "announce"} :
               pc'[b] = l <=> pc[b] = l
          /\ pc[a] # "insert"
      BY <1>6, SMTT(60) DEF Wake
    <3>5. /\ UNCHANGED <<tasks, handed, queue>>
          /\ state' = [state EXCEPT ![t] = SCHEDULED]
      BY <1>6, <2>1 DEF Wake
    <3> HIDE DEF Owns, Holds, Scopes
    <3>6. QED BY <2>1, <3>1, <3>2, <3>3, <3>4, <3>5, QueueSame, SMTT(60)
  <2>2. CASE state[t] # IDLE
    BY <1>6, <2>2, QueueSame, SMTT(60) DEF Wake
  <2>3. QED BY <2>1, <2>2
<1>7. ASSUME NEW a \in Thread, NEW t \in Task, Spawn(a, t)  PROVE Mapped'
  BY <1>7, QueueSame, SMTT(60) DEF Spawn, Tickets, OneTicket, Owners
<1>8. ASSUME NEW w \in Worker, Dequeue(w)  PROVE Mapped'
  <2>1. CASE queue = <<>>
    BY <1>8, <2>1, QueueSame, SMTT(60) DEF Dequeue
  <2>2. CASE queue # <<>>
    <3>1. /\ Head(queue) \in Task
          /\ \A t \in Task : InQueue(t)' <=> InQueue(t) /\ t # Head(queue)
      BY <1>8, <2>2, QueuePop DEF Dequeue, Tickets, OneTicket, Distinct
    <3>2. InQueue(Head(queue))
      BY <2>2, SMTT(60) DEF InQueue
    <3>3. QED BY <1>8, <2>2, <3>1, <3>2, SMTT(60) DEF Dequeue
  <2>3. QED BY <2>1, <2>2
<1>9. ASSUME NEW w \in Worker, PollLookup(w)  PROVE Mapped'
  BY <1>9, QueueSame, SMTT(60) DEF PollLookup
<1>10. ASSUME NEW w \in Worker, PollClaim(w)  PROVE Mapped'
  BY <1>10, QueueSame, SMTT(60) DEF PollClaim, Tickets, OneTicket
<1>11. ASSUME NEW w \in Worker, PollReturn(w) \/ DoneUncount(w)
       PROVE  Mapped'
  BY <1>11, QueueSame, SMTT(60) DEF PollReturn, DoneUncount
<1>12. ASSUME NEW w \in Worker, DoneRemove(w)  PROVE Mapped'
  <2>1. /\ cur[w] \in Task /\ Owns(w, cur[w])
        /\ state[cur[w]] \in {RUNNING, NOTIFIED}
    BY <1>12 DEF DoneRemove, Owners
  <2>2. ~InQueue(cur[w]) /\ \A b \in Thread : ~Holds(b, cur[w])
    BY <2>1, SMTT(60) DEF Tickets, OneTicket
  <2>3. QED BY <1>12, <2>1, <2>2, QueueSame, SMTT(60) DEF DoneRemove, Owners
<1>13. ASSUME NEW w \in Worker, DoneAnnounce(w)  PROVE Mapped'
  BY <1>13, QueueSame, SMTT(60) DEF DoneAnnounce
<1>14. ASSUME NEW w \in Worker, PendingIdle(w)  PROVE Mapped'
  BY <1>14, QueueSame, SMTT(60) DEF PendingIdle, Owners
<1>15. ASSUME NEW w \in Worker, PendingReschedule(w)  PROVE Mapped'
  BY <1>15, QueueSame, SMTT(60) DEF PendingReschedule, Owners
<1> HIDE DEF Mapped, Owns, Holds, Scopes, TypeOK
<1>16. QED
  BY <1>1, <1>2, <1>3, <1>4, <1>5, <1>6, <1>7, <1>8, <1>9, <1>10, <1>11,
     <1>12, <1>13, <1>14, <1>15, NextCases DEF PollTask

(* At every point of run_worker, poll_task and enqueue_task the locals     *)
(* hold what the code there needs.                                         *)
LEMMA ScopesStep ==
  ASSUME TypeOK, Scopes, [Next]_vars
  PROVE  Scopes'
<1> USE DEF Scopes, TypeOK, WorkerPc, ClientPc, ReturnPc
<1>1. CASE UNCHANGED vars
  BY <1>1 DEF vars
<1>2. ASSUME NEW a \in Thread, CallStep(a)  PROVE Scopes'
  BY <1>2, SMTT(60) DEF CallStep, EnqueueTask, EnqueuePush, EnqueuePeek,
     EnqueuePoke, EnqueueNotify, SpawnInsert, SpawnCount
<1>3. ASSUME NEW a \in Thread, UserStep(a)  PROVE Scopes'
  BY <1>3, SMTT(60) DEF UserStep, Sleep, Wake, Spawn
<1>4. ASSUME NEW c \in Client, ShutdownStore(c) \/ ShutdownStep(c)
      PROVE  Scopes'
  BY <1>4, SMTT(60) DEF ShutdownStore, ShutdownStep, ShutdownNotify,
     ShutdownPoke, ShutdownJoin
<1>5. ASSUME NEW w \in Worker,
             \/ CheckShutdown(w) \/ Elect(w) \/ Recheck(w) \/ ReleaseToken(w)
             \/ PrepareSleep(w) \/ CondvarWait(w) \/ CondvarReturn(w)
      PROVE  Scopes'
  BY <1>5, SMTT(60) DEF CheckShutdown, Elect, Recheck, ReleaseToken,
     PrepareSleep, CondvarWait, CondvarReturn
<1>6. ASSUME NEW w \in Worker, Dequeue(w)  PROVE Scopes'
  BY <1>6, SMTT(60) DEF Dequeue
<1>7. ASSUME NEW w \in Worker, EpollWoken(w) \/ DrainWakeFd(w)  PROVE Scopes'
  BY <1>7, SMTT(60) DEF EpollWoken, DrainWakeFd
<1>8. ASSUME NEW w \in Worker, Return(w) \/ Timeout(w)  PROVE Scopes'
  BY <1>8, SMTT(60) DEF Return, PollReturn, DriveEnterEpoll, DriveReturn,
     Timeout, CondvarTimeout, EpollTimeout
<1>9. ASSUME NEW w \in Worker, PollTask(w)  PROVE Scopes'
  <2>1. CASE PollLookup(w)
    BY <2>1, SMTT(60) DEF PollLookup
  <2>2. CASE PollClaim(w)
    BY <2>2, SMTT(60) DEF PollClaim
  <2>3. CASE DoneRemove(w) \/ DoneUncount(w) \/ DoneAnnounce(w)
    BY <2>3, SMTT(60) DEF DoneRemove, DoneUncount, DoneAnnounce
  <2>4. CASE PendingIdle(w) \/ PendingReschedule(w)
    BY <2>4, SMTT(60) DEF PendingIdle, PendingReschedule
  <2>5. QED BY <1>9, <2>1, <2>2, <2>3, <2>4 DEF PollTask
<1> HIDE DEF Scopes, TypeOK, WorkerPc, ClientPc, ReturnPc
<1>10. QED
  BY <1>1, <1>2, <1>3, <1>4, <1>5, <1>6, <1>7, <1>8, <1>9
  DEF Next, RuntimeStep, WorkerStep

-----------------------------------------------------------------------------
(* Counting.                                                               *)

Counting == {a \in Thread : pc[a] = "count"}
Uncounting == {w \in Worker : pc[w] = "uncount"}

(* Finitely many threads owe active_count a decrement or an increment.     *)
LEMMA CountingFinite ==
  /\ IsFiniteSet(Counting) /\ Cardinality(Counting) \in Nat
  /\ IsFiniteSet(Uncounting) /\ Cardinality(Uncounting) \in Nat
<1>1. Counting \in SUBSET Thread /\ Uncounting \in SUBSET Worker
  BY DEF Counting, Uncounting
<1>2. IsFiniteSet(Counting) /\ IsFiniteSet(Uncounting)
  BY <1>1, ThreadFinite, FS_Subset
<1>3. QED BY <1>2, FS_CardinalityType

(* A task that is about to be subtracted from active_count is counted in   *)
(* it: the tasks in the map that are not counted yet have each a spawning  *)
(* thread of their own.                                                    *)
LEMMA ActivePositive ==
  ASSUME TypeOK, Scopes, Tickets, Mapped, Counted,
         NEW w \in Worker, pc[w] = "uncount"
  PROVE  active - 1 \in Nat
<1>1. Cardinality(Uncounting) >= 1
  <2>1. Uncounting # {}
    BY DEF Uncounting
  <2>2. QED BY <2>1, CountingFinite, FS_EmptySet, SMTT(60)
<1>2. Cardinality(Counting) <= Cardinality(tasks)
  <2> DEFINE f == [a \in Counting |-> arg[a]]
  <2>1. \A a \in Counting : arg[a] \in tasks
    BY DEF Counting, Mapped, Holds, Scopes
  <2>2. \A a, b \in Counting : arg[a] = arg[b] => a = b
    BY SMTT(60) DEF Counting, Tickets, OneTicket, Holds, Scopes
  <2>3. f \in Injection(Counting, tasks)
    BY <2>1, <2>2 DEF Injection, IsInjective
  <2>4. QED BY <2>3, FS_Injection DEF Counted
<1>3. active + Cardinality(Counting)
        = Cardinality(tasks) + Cardinality(Uncounting)
  BY DEF Counted, ActiveExact, Counting, Uncounting
<1>4. Cardinality(tasks) \in Nat
  BY FS_CardinalityType DEF Counted
<1>5. QED BY <1>1, <1>2, <1>3, <1>4, CountingFinite, SMTT(60) DEF TypeOK

(* Every step changes active_count as it changes the map, or records the   *)
(* debt in a program counter.                                              *)
LEMMA CountedStep ==
  ASSUME TypeOK, Scopes, Tickets, Owners, Mapped, Counted, [Next]_vars
  PROVE  Counted'
<1>0. /\ active \in Int
      /\ active + Cardinality(Counting)
           = Cardinality(tasks) + Cardinality(Uncounting)
      /\ IsFiniteSet(tasks) /\ Cardinality(tasks) \in Nat
  BY FS_CardinalityType, SMTT(60)
  DEF Counted, ActiveExact, Counting, Uncounting, TypeOK
<1>a. ASSUME active' + Cardinality(Counting')
               = Cardinality(tasks') + Cardinality(Uncounting'),
             IsFiniteSet(tasks')
      PROVE  Counted'
  BY <1>a DEF Counted, ActiveExact, Counting, Uncounting
<1>b. ASSUME UNCHANGED <<tasks, active>>,
             \A b \in Thread : \A l \in {"count", "uncount"} :
               pc'[b] = l <=> pc[b] = l
      PROVE  Counted'
  <2>1. Counting' = Counting /\ Uncounting' = Uncounting
    BY <1>b DEF Counting, Uncounting
  <2>2. QED BY <1>0, <1>a, <1>b, <2>1
<1>1. CASE UNCHANGED vars
  BY <1>1, <1>b DEF vars
<1>2. ASSUME NEW a \in Thread, Quiet(a)  PROVE Counted'
  BY <1>2, <1>b, QuietFrame DEF Framed, Marked
<1>3. ASSUME NEW a \in Thread, EnqueuePush(a)  PROVE Counted'
  BY <1>3, <1>b DEF EnqueuePush, TypeOK
<1>4. ASSUME NEW a \in Thread, SpawnInsert(a)  PROVE Counted'
  <2>1. arg[a] \in Task /\ arg[a] \notin tasks
    BY <1>4, SMTT(60) DEF SpawnInsert, Mapped, Holds, Scopes
  <2>2. /\ a \notin Counting /\ Counting' = Counting \cup {a}
        /\ Uncounting' = Uncounting
    BY <1>4 DEF SpawnInsert, Counting, Uncounting, TypeOK
  <2>3. active' = active /\ tasks' = tasks \cup {arg[a]}
    BY <1>4 DEF SpawnInsert
  <2>4. /\ Cardinality(Counting') = Cardinality(Counting) + 1
        /\ Cardinality(tasks') = Cardinality(tasks) + 1
        /\ IsFiniteSet(tasks')
    BY <1>0, <2>1, <2>2, <2>3, CountingFinite, FS_AddElement
  <2>5. QED BY <1>0, <1>a, <2>2, <2>3, <2>4, CountingFinite, SMTT(60)
<1>5. ASSUME NEW a \in Thread, SpawnCount(a)  PROVE Counted'
  <2>1. /\ a \in Counting /\ Counting' = Counting \ {a}
        /\ Uncounting' = Uncounting
    BY <1>5 DEF SpawnCount, Counting, Uncounting, TypeOK
  <2>2. active' = active + 1 /\ tasks' = tasks
    BY <1>5 DEF SpawnCount
  <2>3. Cardinality(Counting') = Cardinality(Counting) - 1
    BY <2>1, CountingFinite, FS_RemoveElement
  <2>4. QED BY <1>0, <1>a, <2>1, <2>2, <2>3, CountingFinite, SMTT(60)
<1>6. ASSUME NEW a \in Thread, NEW t \in Task, Wake(a, t) \/ Spawn(a, t)
      PROVE  Counted'
  BY <1>6, <1>b, SMTT(60) DEF Wake, Spawn, TypeOK
<1>7. ASSUME NEW w \in Worker,
             \/ Dequeue(w) \/ PollLookup(w) \/ PollClaim(w) \/ PollReturn(w)
             \/ DoneAnnounce(w) \/ PendingIdle(w) \/ PendingReschedule(w)
      PROVE  Counted'
  BY <1>7, <1>b DEF Dequeue, PollLookup, PollClaim, PollReturn, DoneAnnounce,
     PendingIdle, PendingReschedule, TypeOK
<1>8. ASSUME NEW w \in Worker, DoneRemove(w)  PROVE Counted'
  <2>1. cur[w] \in tasks
    BY <1>8 DEF DoneRemove, Mapped, Owns, Scopes
  <2>2. /\ w \notin Uncounting /\ Uncounting' = Uncounting \cup {w}
        /\ Counting' = Counting
    BY <1>8 DEF DoneRemove, Counting, Uncounting, TypeOK
  <2>3. active' = active /\ tasks' = tasks \ {cur[w]}
    BY <1>8 DEF DoneRemove
  <2>4. /\ Cardinality(Uncounting') = Cardinality(Uncounting) + 1
        /\ Cardinality(tasks') = Cardinality(tasks) - 1
        /\ IsFiniteSet(tasks')
    BY <1>0, <2>1, <2>2, <2>3, CountingFinite, FS_AddElement, FS_RemoveElement
  <2>5. QED BY <1>0, <1>a, <2>2, <2>3, <2>4, CountingFinite, SMT
<1>9. ASSUME NEW w \in Worker, DoneUncount(w)  PROVE Counted'
  <2>1. /\ w \in Uncounting /\ Uncounting' = Uncounting \ {w}
        /\ Counting' = Counting
    BY <1>9 DEF DoneUncount, Counting, Uncounting, TypeOK
  <2>2. active' = active - 1 /\ tasks' = tasks
    BY <1>9 DEF DoneUncount
  <2>3. Cardinality(Uncounting') = Cardinality(Uncounting) - 1
    BY <2>1, CountingFinite, FS_RemoveElement
  <2>4. QED BY <1>0, <1>a, <2>1, <2>2, <2>3, CountingFinite, SMTT(60)
<1>10. QED
  BY <1>1, <1>2, <1>3, <1>4, <1>5, <1>6, <1>7, <1>8, <1>9, NextCases
  DEF PollTask

(* Every step of the workers and callers preserves the types.              *)
LEMMA TypeStep ==
  ASSUME TypeOK, Scopes, Tickets, Mapped, Counted, [Next]_vars
  PROVE  TypeOK'
<1> USE DEF TypeOK, TaskStates, WorkerPc, ClientPc, ReturnPc
<1>1. CASE UNCHANGED vars
  BY <1>1 DEF vars
<1>2. ASSUME NEW a \in Thread, EnqueuePush(a)  PROVE TypeOK'
  BY <1>2, SMTT(60) DEF EnqueuePush, Scopes
<1>3. ASSUME NEW a \in Thread, EnqueuePeek(a) \/ EnqueuePoke(a)
      PROVE  TypeOK'
  BY <1>3 DEF EnqueuePeek, EnqueuePoke
<1>4. ASSUME NEW a \in Thread, EnqueueNotify(a)  PROVE TypeOK'
  BY <1>4 DEF EnqueueNotify, NotifyOne
<1>5. ASSUME NEW a \in Thread, SpawnInsert(a) \/ SpawnCount(a)  PROVE TypeOK'
  BY <1>5, SMTT(60) DEF SpawnInsert, SpawnCount, Scopes
<1>6. ASSUME NEW a \in Thread, UserStep(a)  PROVE TypeOK'
  <2>1. CASE Sleep(a)
    BY <2>1 DEF Sleep
  <2>2. ASSUME NEW t \in Task, Wake(a, t)  PROVE TypeOK'
    BY <2>2, SMTT(60) DEF Wake
  <2>3. ASSUME NEW t \in Task, Spawn(a, t)  PROVE TypeOK'
    BY <2>3 DEF Spawn
  <2>4. QED BY <1>6, <2>1, <2>2, <2>3 DEF UserStep
<1>7. ASSUME NEW c \in Client, ShutdownStore(c) \/ ShutdownStep(c)
      PROVE  TypeOK'
  <2>1. CASE ShutdownStore(c)
    BY <2>1 DEF ShutdownStore
  <2>2. CASE ShutdownNotify(c)
    BY <2>2 DEF ShutdownNotify, NotifyAll
  <2>3. CASE ShutdownPoke(c)
    BY <2>3 DEF ShutdownPoke
  <2>4. CASE ShutdownJoin(c)
    BY <2>4 DEF ShutdownJoin
  <2>5. QED BY <1>7, <2>1, <2>2, <2>3, <2>4 DEF ShutdownStep
<1>8. ASSUME NEW w \in Worker, CheckShutdown(w) \/ Elect(w) \/ Recheck(w)
      PROVE  TypeOK'
  <2>1. CASE CheckShutdown(w)
    BY <2>1 DEF CheckShutdown
  <2>2. CASE Elect(w)
    BY <2>2 DEF Elect
  <2>3. CASE Recheck(w)
    BY <2>3 DEF Recheck
  <2>4. QED BY <1>8, <2>1, <2>2, <2>3
<1>9. ASSUME NEW w \in Worker, Dequeue(w)  PROVE TypeOK'
  <2>1. queue # <<>> => Head(queue) \in Task /\ Tail(queue) \in Seq(Task)
    BY SMTT(60)
  <2>2. QED BY <1>9, <2>1, SMTT(60) DEF Dequeue
<1>10. ASSUME NEW w \in Worker,
              \/ ReleaseToken(w) \/ PrepareSleep(w) \/ CondvarWait(w)
              \/ CondvarReturn(w)
       PROVE  TypeOK'
  <2>1. CASE ReleaseToken(w) \/ PrepareSleep(w)
    BY <2>1 DEF ReleaseToken, PrepareSleep
  <2>2. CASE CondvarWait(w) \/ CondvarReturn(w)
    BY <2>2 DEF CondvarWait, CondvarReturn
  <2>3. QED BY <1>10, <2>1, <2>2
<1>11. ASSUME NEW w \in Worker, EpollWoken(w) \/ DrainWakeFd(w)
       PROVE  TypeOK'
  BY <1>11 DEF EpollWoken, DrainWakeFd
<1>12. ASSUME NEW w \in Worker, Return(w) \/ Timeout(w)  PROVE TypeOK'
  BY <1>12, SMTT(60) DEF Return, PollReturn, DriveEnterEpoll, DriveReturn,
     Timeout, CondvarTimeout, EpollTimeout
<1>13. ASSUME NEW w \in Worker, PollLookup(w) \/ PollClaim(w)  PROVE TypeOK'
  BY <1>13, SMTT(60) DEF PollLookup, PollClaim, Scopes
<1>14. ASSUME NEW w \in Worker, DoneUncount(w)  PROVE TypeOK'
  <2>1. active - 1 \in Nat
    BY <1>14, ActivePositive DEF DoneUncount
  <2>2. QED BY <1>14, <2>1 DEF DoneUncount
<1>15. ASSUME NEW w \in Worker, DoneRemove(w) \/ DoneAnnounce(w)
       PROVE  TypeOK'
  BY <1>15, SMTT(60) DEF DoneRemove, DoneAnnounce, NotifyAll
<1>16. ASSUME NEW w \in Worker, PendingIdle(w) \/ PendingReschedule(w)
       PROVE  TypeOK'
  BY <1>16, SMTT(60) DEF PendingIdle, PendingReschedule, Scopes
<1> HIDE DEF TypeOK, TaskStates, WorkerPc, ClientPc, ReturnPc
<1>17. QED
  BY <1>1, <1>2, <1>3, <1>4, <1>5, <1>6, <1>7, <1>8, <1>9, <1>10, <1>11,
     <1>12, <1>13, <1>14, <1>15, <1>16
  DEF Next, RuntimeStep, CallStep, EnqueueTask, WorkerStep, PollTask

-----------------------------------------------------------------------------

=============================================================================
