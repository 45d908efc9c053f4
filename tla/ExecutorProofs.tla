--------------------------- MODULE ExecutorProofs ---------------------------
(***************************************************************************)
(* The rest of what keeps the driver and the parked workers from sleeping  *)
(* beside a queue with work; then the invariant of Executor, the safety    *)
(* properties that follow from it and the refinement of WakeContract, for  *)
(* any number of workers, clients and tasks.                               *)
(***************************************************************************)
EXTENDS ExecutorSteps

(* Zenon proves most leaves; the others cite SMT.                          *)
USE ZenonT(60)
USE ConstAssumption
USE DEF Thread, At, Goto, Call, taskVars, queueVars, driverVars, parkVars,
        callVars, FRESH, IDLE, SCHEDULED, RUNNING, NOTIFIED,
        CallPc, UserCode, MayWake

(* The driver token: one holder, from the CAS in run_worker to the store.  *)
LEMMA DriverStep ==
  ASSUME TypeOK, Scopes, Driver, [Next]_vars
  PROVE  Driver'
<1> USE DEF Driver, Driving, Scopes, TypeOK
<1>1. CASE UNCHANGED vars
  BY <1>1 DEF vars
<1>2. ASSUME NEW a \in Thread, EnqueuePush(a)  PROVE Driver'
  BY <1>2 DEF EnqueuePush
<1>3. ASSUME NEW a \in Thread,
             EnqueuePeek(a) \/ EnqueuePoke(a) \/ EnqueueNotify(a)
      PROVE  Driver'
  <2>1. CASE EnqueuePeek(a) \/ EnqueuePoke(a)
    BY <2>1, SMTT(60) DEF EnqueuePeek, EnqueuePoke
  <2>2. CASE EnqueueNotify(a)
    BY <2>2, SMTT(60) DEF EnqueueNotify, ReturnPc
  <2>3. QED BY <1>3, <2>1, <2>2
<1>4. ASSUME NEW a \in Thread, SpawnInsert(a) \/ SpawnCount(a)  PROVE Driver'
  BY <1>4, SMTT(60) DEF SpawnInsert, SpawnCount
<1>5. ASSUME NEW a \in Thread, UserStep(a)  PROVE Driver'
  <2>1. CASE Sleep(a)
    BY <2>1 DEF Sleep
  <2>2. ASSUME NEW t \in Task, Wake(a, t) \/ Spawn(a, t)  PROVE Driver'
    BY <2>2, SMTT(60) DEF Wake, Spawn
  <2>3. QED BY <1>5, <2>1, <2>2 DEF UserStep
<1>6. ASSUME NEW c \in Client, ShutdownStore(c) \/ ShutdownStep(c)
      PROVE  Driver'
  BY <1>6, SMTT(60) DEF ShutdownStore, ShutdownStep, ShutdownNotify,
     ShutdownPoke, ShutdownJoin
<1>7. ASSUME NEW w \in Worker, Dequeue(w)  PROVE Driver'
  <2>1. \A v \in Worker : Driving(v)' <=> Driving(v)
    BY <1>7, SMT DEF Dequeue
  <2>2. queue' # <<>> => queue # <<>>
    BY <1>7 DEF Dequeue
  <2>3. /\ \A b \in Thread : \A l \in {"process", "epoll", "peek", "poke"} :
             pc'[b] = l <=> pc[b] = l
        /\ UNCHANGED <<token, eventfd, ret>>
    BY <1>7, SMTT(60) DEF Dequeue
  <2>4. QED BY <2>1, <2>2, <2>3 DEF Driver
<1>8. ASSUME NEW w \in Worker,
             \/ CheckShutdown(w) \/ Elect(w) \/ Recheck(w) \/ ReleaseToken(w)
      PROVE  Driver'
  BY <1>8, SMTT(60) DEF CheckShutdown, Elect, Recheck, ReleaseToken
<1>9. ASSUME NEW w \in Worker,
             \/ PrepareSleep(w) \/ CondvarWait(w) \/ CondvarReturn(w)
             \/ EpollWoken(w) \/ DrainWakeFd(w)
      PROVE  Driver'
  BY <1>9, SMTT(60) DEF PrepareSleep, CondvarWait, CondvarReturn, EpollWoken,
     DrainWakeFd
<1>10. ASSUME NEW w \in Worker, Return(w) \/ Timeout(w)  PROVE Driver'
  BY <1>10, SMTT(60) DEF Return, PollReturn, DriveEnterEpoll, DriveReturn,
     Timeout, CondvarTimeout, EpollTimeout
<1>11. ASSUME NEW w \in Worker, PollTask(w)  PROVE Driver'
  <2>1. CASE PollLookup(w) \/ PollClaim(w)
    BY <2>1, SMTT(60) DEF PollLookup, PollClaim
  <2>2. CASE DoneRemove(w) \/ DoneUncount(w) \/ DoneAnnounce(w)
    BY <2>2, SMTT(60) DEF DoneRemove, DoneUncount, DoneAnnounce
  <2>3. CASE PendingIdle(w) \/ PendingReschedule(w)
    BY <2>3, SMTT(60) DEF PendingIdle, PendingReschedule
  <2>4. QED BY <1>11, <2>1, <2>2, <2>3 DEF PollTask
<1> HIDE DEF Driver, Driving, Scopes, TypeOK
<1>12. QED
  BY <1>1, <1>2, <1>3, <1>4, <1>5, <1>6, <1>7, <1>8, <1>9, <1>10, <1>11
  DEF Next, RuntimeStep, CallStep, EnqueueTask, WorkerStep

(* A worker that waits on the condvar is in the sleep of run_worker.       *)
LEMMA ParkedStep ==
  ASSUME TypeOK, Scopes, Parked, [Next]_vars
  PROVE  Parked'
<1> USE DEF Parked, Scopes, TypeOK
<1>1. CASE UNCHANGED vars
  BY <1>1 DEF vars
<1>2. ASSUME NEW a \in Thread, EnqueuePush(a)  PROVE Parked'
  BY <1>2 DEF EnqueuePush, QueueUnlocked
<1>3. ASSUME NEW a \in Thread,
             EnqueuePeek(a) \/ EnqueuePoke(a) \/ EnqueueNotify(a)
      PROVE  Parked'
  <2>1. CASE EnqueuePeek(a) \/ EnqueuePoke(a)
    BY <2>1 DEF EnqueuePeek, EnqueuePoke
  <2>2. CASE EnqueueNotify(a)
    BY <2>2 DEF EnqueueNotify, ReturnPc, NotifyOne
  <2>3. QED BY <1>3, <2>1, <2>2
<1>4. ASSUME NEW a \in Thread, SpawnInsert(a) \/ SpawnCount(a)  PROVE Parked'
  BY <1>4 DEF SpawnInsert, SpawnCount
<1>5. ASSUME NEW a \in Thread, UserStep(a)  PROVE Parked'
  BY <1>5, SMT DEF UserStep, Sleep, Wake, Spawn
<1>6. ASSUME NEW c \in Client, ShutdownStore(c) \/ ShutdownStep(c)
      PROVE  Parked'
  BY <1>6, SMT DEF ShutdownStore, ShutdownStep, ShutdownNotify, ShutdownPoke,
     ShutdownJoin, NotifyAll
<1>7. ASSUME NEW w \in Worker, Dequeue(w)  PROVE Parked'
  BY <1>7 DEF Dequeue, QueueUnlocked
<1>8. ASSUME NEW w \in Worker,
             \/ CheckShutdown(w) \/ Elect(w) \/ Recheck(w) \/ ReleaseToken(w)
      PROVE  Parked'
  BY <1>8, SMT DEF CheckShutdown, Elect, Recheck, ReleaseToken
<1>9. ASSUME NEW w \in Worker,
             \/ PrepareSleep(w) \/ CondvarWait(w) \/ CondvarReturn(w)
             \/ EpollWoken(w) \/ DrainWakeFd(w)
      PROVE  Parked'
  BY <1>9, SMT DEF PrepareSleep, CondvarWait, CondvarReturn, EpollWoken,
     DrainWakeFd
<1>10. ASSUME NEW w \in Worker, Return(w) \/ Timeout(w)  PROVE Parked'
  BY <1>10, SMT DEF Return, PollReturn, DriveEnterEpoll, DriveReturn, Timeout,
     CondvarTimeout, EpollTimeout
<1>11. ASSUME NEW w \in Worker, PollTask(w)  PROVE Parked'
  BY <1>11, SMTT(60) DEF PollTask, PollLookup, PollClaim, DoneRemove,
     DoneUncount, DoneAnnounce, PendingIdle, PendingReschedule, NotifyAll
<1> HIDE DEF Parked, Scopes, TypeOK
<1>12. QED
  BY <1>1, <1>2, <1>3, <1>4, <1>5, <1>6, <1>7, <1>8, <1>9, <1>10, <1>11
  DEF Next, RuntimeStep, CallStep, EnqueueTask, WorkerStep

(* The workers that are about to look at the queue are finitely many,      *)
LEMMA StaffFinite ==
  /\ IsFiniteSet(Lookers) /\ Cardinality(Lookers) \in Nat
  /\ IsFiniteSet(Announcers) /\ Cardinality(Announcers) \in Nat
<1>1. Lookers \in SUBSET Worker /\ Announcers \in SUBSET Thread
  BY DEF Lookers, Announcers
<1>2. IsFiniteSet(Lookers) /\ IsFiniteSet(Announcers)
  BY <1>1, ThreadFinite, FS_Subset
<1>3. QED BY <1>2, FS_CardinalityType

(* and so they are after a step.                                           *)
LEMMA StaffFiniteNext ==
  /\ IsFiniteSet(Lookers') /\ Cardinality(Lookers') \in Nat
  /\ IsFiniteSet(Announcers') /\ Cardinality(Announcers') \in Nat
<1>1. Lookers' \in SUBSET Worker /\ Announcers' \in SUBSET Thread
  BY DEF Lookers, Announcers
<1>2. IsFiniteSet(Lookers') /\ IsFiniteSet(Announcers')
  BY <1>1, ThreadFinite, FS_Subset
<1>3. QED BY <1>2, FS_CardinalityType

(* A set that loses one element shrinks by at most one.                    *)
LEMMA CardLoseOne ==
  ASSUME NEW S, NEW T, NEW x, IsFiniteSet(S), IsFiniteSet(T),
         S \ {x} \subseteq T
  PROVE  Cardinality(T) >= Cardinality(S) - 1
<1>1. Cardinality(S \ {x}) <= Cardinality(T)
  BY FS_Subset
<1>2. Cardinality(S \ {x}) \in {Cardinality(S), Cardinality(S) - 1}
  BY FS_RemoveElement
<1>3. Cardinality(S) \in Nat /\ Cardinality(T) \in Nat
  BY FS_CardinalityType
<1>4. QED BY <1>1, <1>2, <1>3, SMTT(60)

(* A set that gains an element grows by one.                               *)
LEMMA CardGainOne ==
  ASSUME NEW S, NEW T, NEW x, IsFiniteSet(S), IsFiniteSet(T),
         x \notin S, S \cup {x} \subseteq T
  PROVE  Cardinality(T) >= Cardinality(S) + 1
<1>1. Cardinality(S \cup {x}) <= Cardinality(T)
  BY FS_Subset
<1>2. Cardinality(S \cup {x}) = Cardinality(S) + 1
  BY FS_AddElement
<1>3. Cardinality(S) \in Nat /\ Cardinality(T) \in Nat
  BY FS_CardinalityType
<1>4. QED BY <1>1, <1>2, <1>3

(* A push creates an announcer, a notification turns the announcer into a  *)
(* looker, and a looker leaves only with an entry of the queue or after    *)
(* seeing it empty.                                                        *)
LEMMA StaffedStep ==
  ASSUME TypeOK, Scopes, Driver, Parked, Staffed, [Next]_vars
  PROVE  Staffed'
<1> DEFINE L == Cardinality(Lookers)
           N == Cardinality(Announcers)
<1>0. Len(queue) \in Nat
  BY SMT DEF TypeOK
<1>a. ASSUME waiting' # {} => waiting # {}, shutdown' = shutdown,
             queue' = queue,
             Lookers \subseteq Lookers', Announcers \subseteq Announcers'
      PROVE  Staffed'
  <2>1. L <= L' /\ N <= N'
    BY <1>a, StaffFiniteNext, FS_Subset
  <2>2. QED BY <1>0, <1>a, <2>1, StaffFinite, StaffFiniteNext,
               SMTT(60) DEF Staffed
<1>b. ASSUME queue' = <<>>  PROVE Staffed'
  BY <1>b, StaffFiniteNext, SMTT(60) DEF Staffed
<1>1. CASE UNCHANGED vars
  BY <1>1, <1>a DEF vars, Lookers, Looking, Announcers
<1>2. ASSUME NEW a \in Thread, EnqueuePush(a)  PROVE Staffed'
  <2>1. /\ Lookers \subseteq Lookers'
        /\ a \notin Announcers /\ Announcers \cup {a} \subseteq Announcers'
    BY <1>2 DEF EnqueuePush, Lookers, Looking, Announcers, TypeOK
  <2>2. Len(queue') <= Len(queue) + 1 /\ Len(queue') \in Nat
    BY <1>2, SMTT(60) DEF EnqueuePush, TypeOK, Scopes
  <2>3. L <= L' /\ N + 1 <= N'
    BY <2>1, StaffFinite, StaffFiniteNext, FS_Subset, CardGainOne
  <2>4. UNCHANGED parkVars
    BY <1>2 DEF EnqueuePush
  <2>5. QED BY <1>0, <2>2, <2>3, <2>4, StaffFinite, StaffFiniteNext, SMTT(60)
            DEF Staffed
<1>3. ASSUME NEW a \in Thread, EnqueuePeek(a) \/ EnqueuePoke(a)
      PROVE  Staffed'
  <2>1. Lookers \subseteq Lookers' /\ Announcers \subseteq Announcers'
    BY <1>3 DEF EnqueuePeek, EnqueuePoke, Lookers, Looking, Announcers, TypeOK
  <2>2. QED BY <1>3, <1>a, <2>1 DEF EnqueuePeek, EnqueuePoke
<1>4. ASSUME NEW a \in Thread, EnqueueNotify(a)  PROVE Staffed'
  <2>1. CASE waiting' = {}
    BY <2>1 DEF Staffed
  <2>2. CASE waiting' # {}
    <3>1. PICK w \in waiting : waiting' = waiting \ {w}
      BY <1>4, <2>2 DEF EnqueueNotify, NotifyOne
    <3>2. w \in Worker /\ pc[w] = "asleep" /\ ret[w] = "top" /\ w # a
      BY <1>4, <3>1 DEF EnqueueNotify, Parked, Scopes, TypeOK
    <3>3. w \notin Lookers /\ w \in Lookers'
      BY <1>4, <3>1, <3>2 DEF EnqueueNotify, Lookers, Looking, TypeOK
    <3>4. Lookers \subseteq Lookers'
      BY <1>4, <3>1 DEF EnqueueNotify, Lookers, Looking, TypeOK, Scopes
    <3>5. Announcers \ {a} \subseteq Announcers'
      BY <1>4 DEF EnqueueNotify, Announcers, TypeOK
    <3>6. L + 1 <= L' /\ N - 1 <= N'
      BY <3>3, <3>4, <3>5, StaffFinite, StaffFiniteNext, CardGainOne,
         CardLoseOne, SMTT(60)
    <3>7. queue' = queue /\ shutdown' = shutdown /\ waiting # {}
      BY <1>4, <3>1 DEF EnqueueNotify
    <3>8. QED BY <1>0, <3>6, <3>7, StaffFinite, StaffFiniteNext, SMTT(60)
              DEF Staffed
  <2>3. QED BY <2>1, <2>2
<1>5. ASSUME NEW a \in Thread, SpawnInsert(a) \/ SpawnCount(a) \/ UserStep(a)
      PROVE  Staffed'
  <2>1. Lookers \subseteq Lookers' /\ Announcers \subseteq Announcers'
    BY <1>5, SMTT(60) DEF SpawnInsert, SpawnCount, UserStep, Sleep, Wake,
       Spawn, Lookers, Looking, Announcers, TypeOK, Scopes
  <2>2. QED BY <1>5, <1>a, <2>1
            DEF SpawnInsert, SpawnCount, UserStep, Sleep, Wake, Spawn
<1>6. ASSUME NEW c \in Client, ShutdownStore(c) \/ ShutdownNotify(c)
      PROVE  Staffed'
  BY <1>6 DEF ShutdownStore, ShutdownNotify, NotifyAll, Staffed
<1>7. ASSUME NEW c \in Client, ShutdownPoke(c) \/ ShutdownJoin(c)
      PROVE  Staffed'
  <2>1. Lookers \subseteq Lookers' /\ Announcers \subseteq Announcers'
    BY <1>7 DEF ShutdownPoke, ShutdownJoin, Lookers, Looking, Announcers,
       TypeOK, Scopes
  <2>2. QED BY <1>7, <1>a, <2>1 DEF ShutdownPoke, ShutdownJoin
<1>8. ASSUME NEW w \in Worker, CheckShutdown(w)  PROVE Staffed'
  <2>1. CASE shutdown
    BY <1>8, <2>1 DEF CheckShutdown, Staffed
  <2>2. CASE ~shutdown
    <3>1. Lookers \subseteq Lookers' /\ Announcers \subseteq Announcers'
      BY <1>8, <2>2 DEF CheckShutdown, Lookers, Looking, Announcers, TypeOK
    <3>2. QED BY <1>8, <1>a, <3>1 DEF CheckShutdown
  <2>3. QED BY <2>1, <2>2
<1>9. ASSUME NEW w \in Worker, Dequeue(w)  PROVE Staffed'
  <2>1. CASE queue = <<>>
    BY <1>9, <1>b, <2>1 DEF Dequeue
  <2>2. CASE queue # <<>>
    <3>1. /\ Lookers \ {w} \subseteq Lookers'
          /\ Announcers \subseteq Announcers'
      BY <1>9, <2>2 DEF Dequeue, Lookers, Looking, Announcers, TypeOK
    <3>2. Len(queue') = Len(queue) - 1
      BY <1>9, <2>2, SMTT(60) DEF Dequeue, TypeOK
    <3>3. L - 1 <= L' /\ N <= N'
      BY <3>1, StaffFinite, StaffFiniteNext, FS_Subset, CardLoseOne
    <3>4. UNCHANGED parkVars
      BY <1>9 DEF Dequeue
    <3>5. QED BY <1>0, <3>2, <3>3, <3>4, StaffFinite, StaffFiniteNext,
                 SMTT(60)
              DEF Staffed
  <2>3. QED BY <2>1, <2>2
<1>10. ASSUME NEW w \in Worker, Elect(w) \/ ReleaseToken(w)  PROVE Staffed'
  <2>1. Lookers \subseteq Lookers' /\ Announcers \subseteq Announcers'
    BY <1>10 DEF Elect, ReleaseToken, Lookers, Looking, Announcers, TypeOK
  <2>2. QED BY <1>10, <1>a, <2>1 DEF Elect, ReleaseToken
<1>11. ASSUME NEW w \in Worker, Recheck(w) \/ PrepareSleep(w)  PROVE Staffed'
  <2>1. CASE queue = <<>>
    BY <1>11, <1>b, <2>1 DEF Recheck, PrepareSleep
  <2>2. CASE queue # <<>>
    <3>1. Lookers \subseteq Lookers' /\ Announcers \subseteq Announcers'
      BY <1>11, <2>2 DEF Recheck, PrepareSleep, Lookers, Looking, Announcers,
         TypeOK
    <3>2. QED BY <1>11, <1>a, <3>1 DEF Recheck, PrepareSleep
  <2>3. QED BY <2>1, <2>2
<1>12. ASSUME NEW w \in Worker, CondvarWait(w)  PROVE Staffed'
  BY <1>12, <1>b DEF CondvarWait, Parked
<1>13. ASSUME NEW w \in Worker, CondvarReturn(w) \/ Timeout(w)  PROVE Staffed'
  <2>1. Lookers \subseteq Lookers' /\ Announcers \subseteq Announcers'
    BY <1>13 DEF CondvarReturn, Timeout, CondvarTimeout, EpollTimeout,
       Lookers, Looking, Announcers, TypeOK
  <2>2. QED BY <1>13, <1>a, <2>1
            DEF CondvarReturn, Timeout, CondvarTimeout, EpollTimeout
<1>14. ASSUME NEW w \in Worker, EpollWoken(w) \/ Return(w)  PROVE Staffed'
  <2>1. Lookers \subseteq Lookers' /\ Announcers \subseteq Announcers'
    BY <1>14 DEF EpollWoken, Return, PollReturn, DriveEnterEpoll, DriveReturn,
       Lookers, Looking, Announcers, TypeOK
  <2>2. QED BY <1>14, <1>a, <2>1
            DEF EpollWoken, Return, PollReturn, DriveEnterEpoll, DriveReturn
<1>15. ASSUME NEW w \in Worker, DrainWakeFd(w)  PROVE Staffed'
  <2>1. Lookers \subseteq Lookers' /\ Announcers \subseteq Announcers'
    BY <1>15 DEF DrainWakeFd, Lookers, Looking, Announcers, TypeOK, Driver,
       Driving
  <2>2. QED BY <1>15, <1>a, <2>1 DEF DrainWakeFd
<1>16. ASSUME NEW w \in Worker,
              PollLookup(w) \/ PollClaim(w) \/ DoneRemove(w) \/ DoneUncount(w)
       PROVE  Staffed'
  <2>1. Lookers \subseteq Lookers' /\ Announcers \subseteq Announcers'
    BY <1>16, SMTT(60) DEF PollLookup, PollClaim, DoneRemove, DoneUncount,
       Lookers, Looking, Announcers, TypeOK, Scopes
  <2>2. QED BY <1>16, <1>a, <2>1
            DEF PollLookup, PollClaim, DoneRemove, DoneUncount
<1>17. ASSUME NEW w \in Worker, DoneAnnounce(w)  PROVE Staffed'
  BY <1>17 DEF DoneAnnounce, NotifyAll, Staffed
<1>18. ASSUME NEW w \in Worker, PendingIdle(w) \/ PendingReschedule(w)
       PROVE  Staffed'
  <2>1. Lookers \subseteq Lookers' /\ Announcers \subseteq Announcers'
    BY <1>18, SMTT(60) DEF PendingIdle, PendingReschedule, Lookers, Looking,
       Announcers, TypeOK, Scopes
  <2>2. QED BY <1>18, <1>a, <2>1 DEF PendingIdle, PendingReschedule
<1>19. QED
  BY <1>1, <1>2, <1>3, <1>4, <1>5, <1>6, <1>7, <1>8, <1>9, <1>10, <1>11,
     <1>12, <1>13, <1>14, <1>15, <1>16, <1>17, <1>18
  DEF Next, RuntimeStep, CallStep, EnqueueTask, ShutdownStep, WorkerStep,
      PollTask

(* A task becomes RUNNING in its owner's compare-exchange and is given up  *)
(* only when it is stored IDLE or SCHEDULED again, or out of the map.      *)
LEMMA ClaimedStep ==
  ASSUME TypeOK, Scopes, Tickets, Owners, Mapped, Claimed, [Next]_vars
  PROVE  Claimed'
<1>0. ASSUME UNCHANGED <<tasks, state, handed>>,
             \A v \in Worker : \A u \in Task : Owns(v, u) => Owns(v, u)'
      PROVE  Claimed'
  BY <1>0 DEF Claimed
<1>1. CASE UNCHANGED vars
  BY <1>0, <1>1 DEF vars, Owns
<1>2. ASSUME NEW a \in Thread, Quiet(a)  PROVE Claimed'
  BY <1>0, <1>2, QuietFrame DEF Framed
<1>3. ASSUME NEW a \in Thread, EnqueuePush(a) \/ SpawnCount(a)
      PROVE  Claimed'
  <2>1. \A v \in Worker : \A u \in Task : Owns(v, u) => Owns(v, u)'
    BY <1>3, SMTT(60) DEF EnqueuePush, SpawnCount, Owns, TypeOK, Scopes
  <2>2. QED BY <1>0, <1>3, <2>1 DEF EnqueuePush, SpawnCount
<1>4. ASSUME NEW a \in Thread, SpawnInsert(a)  PROVE Claimed'
  <2>1. \A v \in Worker : \A u \in Task : Owns(v, u) => Owns(v, u)'
    BY <1>4, SMTT(60) DEF SpawnInsert, Owns, TypeOK, Scopes
  <2>2. arg[a] \in Task /\ state[arg[a]] = SCHEDULED
    BY <1>4 DEF SpawnInsert, Scopes, Tickets, OneTicket, Holds
  <2>3. QED BY <1>4, <2>1, <2>2 DEF SpawnInsert, Claimed
<1>5. ASSUME NEW a \in Thread, NEW t \in Task, Wake(a, t) \/ Spawn(a, t)
      PROVE  Claimed'
  <2>1. \A v \in Worker : \A u \in Task : Owns(v, u) => Owns(v, u)'
    BY <1>5, SMTT(60) DEF Wake, Spawn, Owns, TypeOK, Scopes
  <2>2. \A u \in Task : state'[u] \in {RUNNING, NOTIFIED}
                          => state[u] \in {RUNNING, NOTIFIED}
    BY <1>5, SMTT(60) DEF Wake, Spawn, TypeOK
  <2>3. UNCHANGED <<tasks, handed>>
    BY <1>5 DEF Wake, Spawn
  <2>4. QED BY <2>1, <2>2, <2>3 DEF Claimed
<1>6. ASSUME NEW w \in Worker,
             Dequeue(w) \/ PollLookup(w) \/ PollReturn(w) \/ DoneUncount(w)
      PROVE  Claimed'
  <2>1. \A v \in Worker : \A u \in Task : Owns(v, u) => Owns(v, u)'
    BY <1>6, SMTT(60)
    DEF Dequeue, PollLookup, PollReturn, DoneUncount, Owns, TypeOK, Scopes
  <2>2. QED BY <1>0, <1>6, <2>1
            DEF Dequeue, PollLookup, PollReturn, DoneUncount
<1>7. ASSUME NEW w \in Worker, PollClaim(w)  PROVE Claimed'
  <2>1. cur[w] \in Task /\ ~\E u \in Task : Owns(w, u)
    BY <1>7 DEF PollClaim, Owns, Scopes
  <2>2. \A v \in Worker : \A u \in Task : Owns(v, u) => Owns(v, u)'
    BY <1>7, <2>1, SMTT(60) DEF PollClaim, Owns, TypeOK
  <2>3. \A u \in Task : state'[u] # state[u] => u = cur[w] /\ Owns(w, u)'
    BY <1>7, <2>1, SMTT(60) DEF PollClaim, Owns, TypeOK
  <2>4. \A u \in Task : state'[u] # state[u] => u \in handed'
    BY <1>7, <2>1, <2>3, SMTT(60) DEF PollClaim, TypeOK
  <2>5. tasks' = tasks /\ handed \subseteq handed'
    BY <1>7 DEF PollClaim
  <2>6. QED BY <2>2, <2>3, <2>4, <2>5 DEF Claimed
<1>8. ASSUME NEW w \in Worker, DoneRemove(w) \/ DoneAnnounce(w)
      PROVE  Claimed'
  <2>1. \A v \in Worker : \A u \in Task :
          Owns(v, u) /\ u \in tasks' => Owns(v, u)'
    BY <1>8, SMTT(60)
    DEF DoneRemove, DoneAnnounce, Owns, Mapped, TypeOK, Scopes
  <2>2. tasks' \subseteq tasks /\ UNCHANGED <<state, handed>>
    BY <1>8 DEF DoneRemove, DoneAnnounce
  <2>3. QED BY <2>1, <2>2 DEF Claimed
<1>9. ASSUME NEW w \in Worker, PendingIdle(w) \/ PendingReschedule(w)
      PROVE  Claimed'
  <2>1. \A v \in Worker : \A u \in Task :
          /\ Owns(v, u)
          /\ state'[u] \in {RUNNING, NOTIFIED}
          => Owns(v, u)'
    BY <1>9, SMTT(60)
    DEF PendingIdle, PendingReschedule, Owns, TypeOK, Scopes
  <2>2. \A u \in Task : state'[u] \in {RUNNING, NOTIFIED}
                          => state[u] \in {RUNNING, NOTIFIED}
    BY <1>9, SMTT(60) DEF PendingIdle, PendingReschedule, TypeOK
  <2>3. UNCHANGED <<tasks, handed>>
    BY <1>9 DEF PendingIdle, PendingReschedule
  <2>4. QED BY <2>1, <2>2, <2>3 DEF Claimed
<1>10. QED
  BY <1>1, <1>2, <1>3, <1>4, <1>5, <1>6, <1>7, <1>8, <1>9, NextCases
  DEF PollTask

(* Both ways out of run_worker have read shutdown as true, and it is never *)
(* reset.                                                                  *)
LEMMA ExitsStep ==
  ASSUME TypeOK, Scopes, Exits, [Next]_vars
  PROVE  Exits'
<1>0. ASSUME \A w \in Worker : pc'[w] = "exit" => pc[w] = "exit" \/ shutdown,
             shutdown => shutdown'
      PROVE  Exits'
  BY <1>0 DEF Exits
<1>1. CASE UNCHANGED vars
  BY <1>0, <1>1 DEF vars
<1>2. ASSUME NEW a \in Thread,
             EnqueueTask(a) \/ SpawnInsert(a) \/ SpawnCount(a)
      PROVE  Exits'
  BY <1>0, <1>2, SMTT(60) DEF EnqueueTask, EnqueuePush, EnqueuePeek,
     EnqueuePoke, EnqueueNotify, SpawnInsert, SpawnCount, TypeOK, ReturnPc
<1>3. ASSUME NEW a \in Thread, UserStep(a)  PROVE Exits'
  BY <1>0, <1>3, SMTT(60) DEF UserStep, Sleep, Wake, Spawn, TypeOK
<1>4. ASSUME NEW c \in Client, ShutdownStore(c) \/ ShutdownStep(c)
      PROVE  Exits'
  BY <1>0, <1>4, SMTT(60) DEF ShutdownStore, ShutdownStep, ShutdownNotify,
     ShutdownPoke, ShutdownJoin, TypeOK
<1>5. ASSUME NEW w \in Worker,
             \/ CheckShutdown(w) \/ Dequeue(w) \/ Elect(w) \/ Recheck(w)
             \/ ReleaseToken(w) \/ PrepareSleep(w)
      PROVE  Exits'
  BY <1>0, <1>5, SMTT(60) DEF CheckShutdown, Dequeue, Elect, Recheck,
     ReleaseToken, PrepareSleep, TypeOK
<1>6. ASSUME NEW w \in Worker,
             \/ CondvarWait(w) \/ CondvarReturn(w) \/ EpollWoken(w)
             \/ DrainWakeFd(w) \/ Return(w) \/ Timeout(w)
      PROVE  Exits'
  BY <1>0, <1>6, SMTT(60) DEF CondvarWait, CondvarReturn, EpollWoken,
     DrainWakeFd, Return, PollReturn, DriveEnterEpoll, DriveReturn, Timeout,
     CondvarTimeout, EpollTimeout, TypeOK
<1>7. ASSUME NEW w \in Worker, PollTask(w)  PROVE Exits'
  BY <1>0, <1>7, SMTT(60) DEF PollTask, PollLookup, PollClaim, DoneRemove,
     DoneUncount, DoneAnnounce, PendingIdle, PendingReschedule, TypeOK
<1>8. QED
  BY <1>1, <1>2, <1>3, <1>4, <1>5, <1>6, <1>7
  DEF Next, RuntimeStep, CallStep, WorkerStep

-----------------------------------------------------------------------------

(* SharedState::new and the start of the workers establish the invariant.  *)
LEMMA InitIInv == Init => IInv
<1> SUFFICES ASSUME Init  PROVE IInv
  OBVIOUS
<1> USE DEF Init, TaskStates, WorkerPc, ClientPc, ReturnPc
<1>1. TypeOK
  <2>1. /\ queue \in Seq(Task)
        /\ pc \in [Thread -> WorkerPc \cup ClientPc \cup CallPc]
    BY SMTT(60)
  <2>2. QED BY <2>1 DEF TypeOK
<1>2. Scopes
  BY DEF Scopes
<1>3. Tickets
  BY SMTT(60) DEF Tickets, OneTicket, Holds, InQueue
<1>4. Owners /\ Mapped
  BY SMTT(60) DEF Owners, Owns, Mapped, Holds, InQueue
<1>5. Driver /\ Parked /\ Staffed
  BY DEF Driver, Driving, Parked, Staffed
<1>6. Counted
  <2>1. Counting = {} /\ Uncounting = {}
    BY DEF Counting, Uncounting
  <2>2. QED BY <2>1, FS_EmptySet DEF Counted, ActiveExact, Counting,
               Uncounting
<1>7. Claimed /\ Exits
  BY DEF Claimed, Exits
<1>8. QED BY <1>1, <1>2, <1>3, <1>4, <1>5, <1>6, <1>7 DEF IInv

(* Every step of every thread preserves it.                                *)
LEMMA StepIInv == IInv /\ [Next]_vars => IInv'
  BY TypeStep, ScopesStep, TicketsStep, OwnersStep, MappedStep, DriverStep,
     CountedStep, ParkedStep, StaffedStep, ClaimedStep, ExitsStep DEF IInv

(* IInv is an invariant of the executor.                                   *)
THEOREM Invariance == Spec => []IInv
  BY InitIInv, StepIInv, PTL DEF Spec

(* Every variable keeps its type; active_count never goes below zero.      *)
THEOREM TypeCorrect == Spec => []TypeOK
<1>1. IInv => TypeOK
  BY DEF IInv
<1>2. QED BY <1>1, Invariance, PTL

(* No two workers are ever inside the same future: the claim on which the  *)
(* unsafe Sync implementation of Task rests.                               *)
THEOREM PollIsExclusive == Spec => []ExclusivePoll
<1>1. IInv => ExclusivePoll
  BY SMTT(60) DEF IInv, Owners, Owns, ExclusivePoll, Polling
<1>2. QED BY <1>1, Invariance, PTL

(* A SCHEDULED task has exactly one queue entry or carrier.                *)
THEOREM TicketsAreUnique == Spec => []OneTicket
<1>1. IInv => OneTicket
  BY DEF IInv, Tickets
<1>2. QED BY <1>1, Invariance, PTL

(* At most one worker drives timers and reactor, and it holds the token.   *)
THEOREM DriverIsSole == Spec => []SoleDriver
<1>1. IInv => SoleDriver
  BY DEF IInv, Driver, SoleDriver
<1>2. QED BY <1>1, Invariance, PTL

(* active_count is the size of the map, up to steps in progress.           *)
THEOREM ActiveIsExact == Spec => []ActiveExact
<1>1. IInv => ActiveExact
  BY DEF IInv, Counted
<1>2. QED BY <1>1, Invariance, PTL

(* While a worker is blocked and the queue is not empty, somebody is about *)
(* to announce the push or to look at the queue.                           *)
LEMMA WorkConserved == IInv => WorkConserving
<1> SUFFICES ASSUME IInv, ~shutdown, queue # <<>>,
                    NEW w \in Worker, Blocked(w)
             PROVE  \/ Announcing
                    \/ \E v \in Worker :
                         ~Blocked(v) /\ \A t \in Task : ~Polling(v, t)
  BY DEF WorkConserving
<1>1. CASE pc[w] = "epoll" /\ ~eventfd
  BY <1>1 DEF IInv, Driver, Announcing
<1>2. CASE pc[w] = "asleep" /\ w \in waiting
  <2>1. Len(queue) \in Nat /\ Len(queue) # 0
    BY SMTT(60) DEF IInv, TypeOK
  <2>2. Lookers # {} \/ Announcers # {}
    BY <1>2, <2>1, StaffFinite, FS_EmptySet, SMTT(60) DEF IInv, Staffed
  <2>3. Announcers # {} => Announcing
    BY DEF Announcers, Announcing
  <2>4. \A v \in Lookers : ~Blocked(v) /\ \A t \in Task : ~Polling(v, t)
    BY SMTT(60) DEF Lookers, Looking, Blocked, Polling, IInv, Scopes, TypeOK
  <2>5. QED BY <2>2, <2>3, <2>4 DEF Lookers
<1>3. QED BY <1>1, <1>2 DEF Blocked

(* No worker stays blocked beside a non-empty queue unless another one is  *)
(* about to look at it: enqueue_task's poke and notify_one, the driver's   *)
(* re-check and the test before sleeping leave no gap.                     *)
THEOREM NoWorkIsLeft == Spec => []WorkConserving
  BY WorkConserved, Invariance, PTL

(* The lookup and the compare-exchange at the head of poll_task never fail *)
(* and the pending set of ReadyQueue never swallows a push: the wake-up    *)
(* that a task's ticket stands for is always answered by a poll.           *)
THEOREM ChecksNeverFail == Spec => []ChecksSucceed
<1>1. IInv => ChecksSucceed
  <2> SUFFICES ASSUME IInv  PROVE ChecksSucceed
    OBVIOUS
  <2>1. \A w \in Worker : \A t \in Task :
          cur[w] = t /\ pc[w] \in {"lookup", "claim"}
            => t \in tasks /\ state[t] = SCHEDULED
    BY SMTT(60) DEF IInv, Tickets, OneTicket, Mapped, Holds
  <2>2. \A w \in Worker : pc[w] = "resched" => state[cur[w]] = NOTIFIED
    BY DEF IInv, Scopes, Owners, Owns
  <2>3. \A a \in Thread : pc[a] = "push" => arg[a] \notin pending
    BY DEF IInv, Scopes, Tickets, OneTicket, Holds
  <2>4. \A w \in Worker : pc[w] \in {"lookup", "claim"} => cur[w] \in Task
    BY DEF IInv, Scopes
  <2>5. QED BY <2>1, <2>2, <2>3, <2>4 DEF ChecksSucceed
<1>2. QED BY <1>1, Invariance, PTL

(* However often tasks are woken, the ready queue has at most one entry    *)
(* for each task in the map.                                               *)
THEOREM QueueIsBounded == Spec => []ReadyBounded
<1>1. IInv => ReadyBounded
  <2> SUFFICES ASSUME IInv  PROVE Len(queue) <= Cardinality(tasks)
    BY DEF ReadyBounded
  <2> DEFINE n == Len(queue)
             f == [i \in 1..n |-> queue[i]]
  <2>1. n \in Nat /\ \A i \in 1..n : queue[i] \in Task
    BY SMTT(60) DEF IInv, TypeOK
  <2>2. \A i \in 1..n : queue[i] \in tasks
    BY <2>1 DEF IInv, Mapped, InQueue
  <2>3. \A i, j \in 1..n : queue[i] = queue[j] => i = j
    BY DEF IInv, Tickets, OneTicket
  <2>4. f \in Injection(1..n, tasks)
    BY <2>2, <2>3 DEF Injection, IsInjective
  <2>5. Cardinality(1..n) <= Cardinality(tasks)
    BY <2>4, FS_Injection DEF IInv, Counted
  <2>6. Cardinality(1..n) = n
    <3>1. 1 \in Int /\ n \in Int
      BY <2>1, SMTT(60)
    <3>2. Cardinality(1..n) = IF 1 > n THEN 0 ELSE n - 1 + 1
      BY <3>1, FS_Interval
    <3> HIDE DEF n
    <3>3. QED BY <2>1, <3>2, SMTT(60)
  <2>7. QED BY <2>5, <2>6
<1>2. QED BY <1>1, Invariance, PTL

(* Whoever may be inside an enqueue, a poll or the driver, a wake-up is in *)
(* one of three places: the queue, a thread that carries the task, or the  *)
(* worker whose poll it interrupted.                                       *)
LEMMA OwedHeld == IInv => OwedIsHeld
<1> SUFFICES ASSUME IInv, NEW t \in OwedTasks
             PROVE  IF state[t] = SCHEDULED
                      THEN InQueue(t) \/ \E a \in Thread : Holds(a, t)
                      ELSE \E w \in Worker : WillReschedule(w, t)
  BY DEF OwedIsHeld
<1>1. /\ t \in Task /\ state[t] \in {SCHEDULED, NOTIFIED}
      /\ ~Finished(t)
  BY DEF OwedTasks, FinishedTasks
<1>2. CASE state[t] = SCHEDULED
  BY <1>1, <1>2 DEF IInv, Tickets, OneTicket
<1>3. CASE state[t] = NOTIFIED
  <2>1. t \in tasks
    BY <1>1, <1>3 DEF IInv, Claimed, Finished
  <2>2. PICK w \in Worker : Owns(w, t)
    BY <1>1, <1>3, <2>1 DEF IInv, Claimed
  <2>3. pc[w] \notin {"uncount", "announce"}
    BY <1>1, <2>1, <2>2 DEF IInv, Mapped
  <2>4. cur[w] = t /\ pc[w] # "done"
    BY <1>1, <2>2 DEF Owns, Finished
  <2>5. QED BY <1>3, <2>2, <2>3, <2>4 DEF Owns, WillReschedule, Polling
<1>4. QED BY <1>1, <1>2, <1>3

(* No wake-up is lost between the wakers, the queue and poll_task.         *)
THEOREM OwedIsNeverLost == Spec => []OwedIsHeld
  BY OwedHeld, Invariance, PTL

(* The executor comes to rest only when nothing is owed a poll: with every *)
(* worker blocked and no client inside a call, every live task is IDLE.    *)
THEOREM RestMeansDone == Spec => []QuietMeansDone
<1>1. IInv => QuietMeansDone
  <2> SUFFICES ASSUME IInv, ~shutdown,
                      \A w \in Worker : Blocked(w),
                      \A c \in Client : pc[c] \notin CallPc
               PROVE  OwedTasks = {} /\ \A t \in tasks : state[t] = IDLE
    BY DEF QuietMeansDone
  <2>1. /\ \A w \in Worker : pc[w] \in {"asleep", "epoll"} /\ ret[w] = "top"
        /\ \A a \in Thread : pc[a] \notin CallPc
    BY DEF Blocked, IInv, Scopes
  <2>2. queue = <<>>
    BY <2>1, WorkConserved, ConstAssumption DEF WorkConserving, Announcing
  <2>3. \A t \in Task : ~InQueue(t)
    BY <2>2, SMTT(60) DEF InQueue
  <2>4. \A t \in Task : \A a \in Thread : ~Holds(a, t)
    BY <2>1 DEF Holds, IInv, Scopes
  <2>5. \A t \in Task : \A w \in Worker : ~Owns(w, t)
    BY <2>1 DEF Owns
  <2>6. \A t \in tasks : state[t] = IDLE
    BY <2>3, <2>4, <2>5 DEF IInv, TypeOK, TaskStates, Tickets, OneTicket,
       Claimed, Mapped
  <2>7. OwedTasks = {}
    <3> SUFFICES ASSUME NEW t \in OwedTasks  PROVE FALSE
      OBVIOUS
    <3>1. /\ t \in Task /\ state[t] \in {SCHEDULED, NOTIFIED}
          /\ ~Finished(t)
      BY DEF OwedTasks, FinishedTasks
    <3>2. state[t] = NOTIFIED
      BY <2>3, <2>4, <3>1 DEF IInv, Tickets, OneTicket
    <3>3. t \in tasks
      BY <3>1, <3>2 DEF IInv, Claimed, Finished
    <3>4. QED BY <2>6, <3>2, <3>3
  <2>8. QED BY <2>6, <2>7
<1>2. QED BY <1>1, Invariance, PTL

(* When shutdown has joined the workers, none of them has left a future    *)
(* half polled, a token taken or a ticket lost.                            *)
THEOREM ExitIsClean == Spec => []CleanExit
<1>1. IInv => CleanExit
  <2> SUFFICES ASSUME IInv, AllExited  PROVE CleanExit
    BY DEF CleanExit
  <2>1. \A w \in Worker :
          pc[w] = "exit" /\ ret[w] = "top" /\ cur[w] \notin Task
    BY DEF AllExited, IInv, Scopes
  <2>2. shutdown
    BY <2>1 DEF IInv, Exits
  <2>3. ~token
    BY <2>1 DEF IInv, Driver, Driving
  <2>4. waiting = {}
    BY <2>1 DEF IInv, TypeOK, Parked
  <2>5. PollingTasks = {}
    BY <2>1 DEF PollingTasks, Polling
  <2>6. \A t \in Task : \A w \in Worker : ~Owns(w, t) /\ ~Holds(w, t)
    BY <2>1 DEF Owns, Holds
  <2>7. \A t \in tasks : \/ state[t] = IDLE
                         \/ /\ state[t] = SCHEDULED
                            /\ InQueue(t) \/ \E c \in Client : Holds(c, t)
    BY <2>6 DEF IInv, TypeOK, TaskStates, Tickets, OneTicket, Claimed, Mapped
  <2>8. QED BY <2>2, <2>3, <2>4, <2>5, <2>7 DEF CleanExit
<1>2. QED BY <1>1, Invariance, PTL

(* After that the clients may still spawn and wake, but what they enqueue  *)
(* stays where it is.                                                      *)
THEOREM StoppedForGood == Spec => StaysStopped
<1>1. IInv /\ [Next]_vars =>
        (AllExited => /\ AllExited' /\ handed' = handed
                      /\ tasks \subseteq tasks'
                      /\ FinishedTasks' = FinishedTasks
                      /\ \A t \in Task : InQueue(t) => InQueue(t)')
  <2> DEFINE Goal == /\ AllExited' /\ handed' = handed
                     /\ tasks \subseteq tasks'
                     /\ FinishedTasks' = FinishedTasks
                     /\ \A t \in Task : InQueue(t) => InQueue(t)'
  <2> SUFFICES ASSUME IInv, [Next]_vars, AllExited  PROVE Goal
    OBVIOUS
  <2>1. \A w \in Worker : pc[w] = "exit"
    BY DEF AllExited
  <2>2. ASSUME NEW w \in Worker, RuntimeStep(w) \/ UserStep(w)  PROVE FALSE
    <3>1. ~CallStep(w) /\ ~UserStep(w)
      BY <2>1 DEF CallStep, EnqueueTask, EnqueuePush, EnqueuePeek,
         EnqueuePoke, EnqueueNotify, SpawnInsert, SpawnCount, UserStep, Sleep,
         Wake, Spawn
    <3>2. ~PollTask(w)
      BY <2>1 DEF PollTask, PollLookup, PollClaim, DoneRemove, DoneUncount,
         DoneAnnounce, PendingIdle, PendingReschedule
    <3>3. ~WorkerStep(w)
      BY <2>1, <3>2 DEF WorkerStep, CheckShutdown, Dequeue, Elect, Recheck,
         ReleaseToken, PrepareSleep, CondvarWait, CondvarReturn, EpollWoken,
         DrainWakeFd
    <3>4. QED BY <2>2, <3>1, <3>3 DEF RuntimeStep
  <2>3. ASSUME NEW w \in Worker, Return(w) \/ Timeout(w)  PROVE FALSE
    BY <2>1, <2>3 DEF Return, PollReturn, DriveEnterEpoll, DriveReturn,
       Timeout, CondvarTimeout, EpollTimeout, IInv, Parked
  <2>4. ASSUME \A w \in Worker : pc'[w] = pc[w], UNCHANGED <<handed, cur>>,
               tasks \subseteq tasks', tasks' \cap handed \subseteq tasks,
               \A t \in Task : InQueue(t) => InQueue(t)'
        PROVE  Goal
    <3>1. \A t \in Task : Finished(t)' <=> Finished(t)
      BY <2>4 DEF Finished
    <3>2. QED BY <2>1, <2>4, <3>1 DEF AllExited, FinishedTasks
  <2>5. CASE UNCHANGED vars
    BY <2>4, <2>5, QueueSame DEF vars
  <2>6. ASSUME NEW c \in Client, EnqueuePush(c)  PROVE Goal
    <3>1. arg[c] \in Task /\ arg[c] \notin pending /\ ~InQueue(arg[c])
      BY <2>6 DEF EnqueuePush, IInv, Scopes, Tickets, OneTicket, Holds
    <3>2. \A t \in Task : InQueue(t) => InQueue(t)'
      BY <2>6, <3>1, QueuePush
      DEF EnqueuePush, IInv, TypeOK, Tickets, OneTicket, Distinct
    <3>3. QED BY <2>4, <2>6, <3>2 DEF EnqueuePush, IInv, TypeOK
  <2>7. ASSUME NEW c \in Client, SpawnInsert(c)  PROVE Goal
    <3>1. arg[c] \in Task /\ arg[c] \notin handed
      BY <2>7, SMTT(60) DEF SpawnInsert, IInv, Scopes, Mapped, Holds
    <3>2. QED BY <2>4, <2>7, <3>1, QueueSame DEF SpawnInsert, IInv, TypeOK
  <2>8. ASSUME NEW c \in Client, Quiet(c) \/ SpawnCount(c)  PROVE Goal
    <3>1. /\ UNCHANGED <<tasks, handed, queue, cur>>
          /\ \A w \in Worker : pc'[w] = pc[w]
      BY <2>8 DEF Quiet, EnqueuePeek, EnqueuePoke, EnqueueNotify, Sleep,
         ShutdownStore, ShutdownStep, ShutdownNotify, ShutdownPoke,
         ShutdownJoin, SpawnCount, IInv, TypeOK
    <3>2. QED BY <2>4, <3>1, QueueSame
  <2>9. ASSUME NEW c \in Client, NEW t \in Task, Wake(c, t) \/ Spawn(c, t)
        PROVE  Goal
    <3>1. /\ UNCHANGED <<tasks, handed, queue, cur>>
          /\ \A w \in Worker : pc'[w] = pc[w]
      BY <2>9, SMTT(60) DEF Wake, Spawn, IInv, TypeOK
    <3>2. QED BY <2>4, <3>1, QueueSame
  <2>10. QED
    BY <2>2, <2>3, <2>5, <2>6, <2>7, <2>8, <2>9
    DEF Next, RuntimeStep, CallStep, EnqueueTask, UserStep, Quiet
<1>2. QED BY <1>1, Invariance, PTL DEF Spec, StaysStopped

-----------------------------------------------------------------------------
(* The executor implements WakeContract.                                   *)

AbstractVars == <<FreshTasks, OwedTasks, PollingTasks, FinishedTasks>>

(* A step that moves no task between the abstract sets.                    *)
LEMMA AbstractStutter ==
  ASSUME UNCHANGED <<state, tasks, handed>>,
         \A w \in Worker : \A t \in Task :
           /\ Polling(w, t)' <=> Polling(w, t)
           /\ (cur[w] = t /\ pc[w] = "done")' <=> cur[w] = t /\ pc[w] = "done"
  PROVE  UNCHANGED AbstractVars
<1>1. \A t \in Task : Finished(t)' <=> Finished(t)
  BY DEF Finished
<1>2. FinishedTasks' = FinishedTasks /\ PollingTasks' = PollingTasks
  BY <1>1 DEF FinishedTasks, PollingTasks
<1>3. QED BY <1>2 DEF AbstractVars, FreshTasks, OwedTasks

(* Steps that touch no task state are stutters of the contract.            *)
LEMMA QuietStutter ==
  ASSUME TypeOK, Scopes, NEW a \in Thread, Quiet(a)
  PROVE  UNCHANGED AbstractVars
<1>1. UNCHANGED <<state, tasks, handed>>
  BY QuietFrame DEF Framed
<1>2. \A w \in Worker : \A t \in Task :
        /\ Polling(w, t)' <=> Polling(w, t)
        /\ (cur[w] = t /\ pc[w] = "done")' <=> cur[w] = t /\ pc[w] = "done"
  <2> USE DEF Polling, TypeOK, Scopes
  <2>1. CASE EnqueuePeek(a) \/ EnqueuePoke(a) \/ EnqueueNotify(a) \/ Sleep(a)
    BY <2>1, SMTT(60) DEF EnqueuePeek, EnqueuePoke, EnqueueNotify, Sleep
  <2>2. CASE a \in Client /\ (ShutdownStore(a) \/ ShutdownStep(a))
    BY <2>2, SMTT(60) DEF ShutdownStore, ShutdownStep, ShutdownNotify,
       ShutdownPoke, ShutdownJoin
  <2>3. CASE a \in Worker /\ (CheckShutdown(a) \/ Elect(a) \/ Recheck(a))
    BY <2>3, SMTT(60) DEF CheckShutdown, Elect, Recheck
  <2>4. CASE a \in Worker /\ (ReleaseToken(a) \/ PrepareSleep(a))
    BY <2>4, SMTT(60) DEF ReleaseToken, PrepareSleep
  <2>5. CASE a \in Worker /\ (CondvarWait(a) \/ CondvarReturn(a) \/ Timeout(a))
    BY <2>5 DEF CondvarWait, CondvarReturn, Timeout, CondvarTimeout,
       EpollTimeout
  <2>6. CASE a \in Worker /\ (EpollWoken(a) \/ DrainWakeFd(a))
    BY <2>6 DEF EpollWoken, DrainWakeFd
  <2>7. CASE a \in Worker /\ (DriveEnterEpoll(a) \/ DriveReturn(a))
    BY <2>7 DEF DriveEnterEpoll, DriveReturn
  <2>8. QED BY <2>1, <2>2, <2>3, <2>4, <2>5, <2>6, <2>7 DEF Quiet
<1>3. QED BY <1>1, <1>2, AbstractStutter

(* Every other step of the executor is a step or a stutter of the          *)
(* contract.                                                               *)
LEMMA ContractStep ==
  ASSUME IInv, [Next]_vars
  PROVE  \/ UNCHANGED AbstractVars
         \/ \E t \in Task :
              \/ Contract!Spawn(t) \/ Contract!Wake(t) \/ Contract!BeginPoll(t)
              \/ Contract!PollPending(t) \/ Contract!PollDone(t)
<1> DEFINE Goal ==
      \/ UNCHANGED AbstractVars
      \/ \E t \in Task :
           \/ Contract!Spawn(t) \/ Contract!Wake(t) \/ Contract!BeginPoll(t)
           \/ Contract!PollPending(t) \/ Contract!PollDone(t)
<1> USE DEF IInv
<1>1. CASE UNCHANGED vars
  BY <1>1, AbstractStutter DEF vars, Polling
<1>2. ASSUME NEW a \in Thread, Quiet(a)  PROVE Goal
  BY <1>2, QuietStutter
<1>3. ASSUME NEW a \in Thread, EnqueuePush(a) \/ SpawnCount(a)  PROVE Goal
  <2>1. UNCHANGED <<state, tasks, handed>>
    BY <1>3 DEF EnqueuePush, SpawnCount
  <2>2. QED BY <1>3, <2>1, AbstractStutter
            DEF EnqueuePush, SpawnCount, Polling, TypeOK, Scopes
<1>4. ASSUME NEW a \in Thread, SpawnInsert(a)  PROVE Goal
  <2>1. arg[a] \in Task /\ arg[a] \notin handed
    BY <1>4, SMTT(60) DEF SpawnInsert, Mapped, Holds, Scopes
  <2>2. \A w \in Worker : \A t \in Task : Polling(w, t)' <=> Polling(w, t)
    BY <1>4 DEF SpawnInsert, Polling, TypeOK, Scopes
  <2>3. \A t \in Task : Finished(t)' <=> Finished(t)
    BY <1>4, <2>1 DEF SpawnInsert, Finished, TypeOK
  <2>4. FinishedTasks' = FinishedTasks /\ PollingTasks' = PollingTasks
    BY <2>2, <2>3 DEF FinishedTasks, PollingTasks
  <2>5. QED BY <1>4, <2>4
            DEF SpawnInsert, AbstractVars, FreshTasks, OwedTasks
<1>5. ASSUME NEW a \in Thread, NEW t \in Task, Wake(a, t)  PROVE Goal
  <2>1. FinishedTasks' = FinishedTasks /\ PollingTasks' = PollingTasks
    <3>1. \A w \in Worker : \A u \in Task : Polling(w, u)' <=> Polling(w, u)
      BY <1>5, SMTT(60) DEF Wake, Polling, TypeOK, Scopes
    <3>2. \A u \in Task : Finished(u)' <=> Finished(u)
      BY <1>5 DEF Wake, Finished, TypeOK
    <3>3. QED BY <3>1, <3>2 DEF FinishedTasks, PollingTasks
  <2>2. state[t] # FRESH
    BY <1>5 DEF Wake, Mapped
  <2>3. FreshTasks' = FreshTasks
    BY <1>5, <2>2 DEF Wake, FreshTasks, TypeOK
  <2>4. CASE state[t] \in {IDLE, RUNNING} /\ t \notin FinishedTasks
    <3>1. OwedTasks' = OwedTasks \cup {t}
      BY <1>5, <2>1, <2>4 DEF Wake, OwedTasks, TypeOK
    <3>2. Contract!Wake(t)
      BY <2>1, <2>2, <2>3, <2>4, <3>1 DEF Contract!Wake, FreshTasks
    <3>3. QED BY <3>2
  <2>5. CASE ~(state[t] \in {IDLE, RUNNING} /\ t \notin FinishedTasks)
    <3>1. OwedTasks' = OwedTasks
      BY <1>5, <2>1, <2>5 DEF Wake, OwedTasks, TypeOK
    <3>2. QED BY <2>1, <2>3, <3>1 DEF AbstractVars
  <2>6. QED BY <2>4, <2>5
<1>6. ASSUME NEW a \in Thread, NEW t \in Task, Spawn(a, t)  PROVE Goal
  <2>1. FinishedTasks' = FinishedTasks /\ PollingTasks' = PollingTasks
    <3>1. \A w \in Worker : \A u \in Task : Polling(w, u)' <=> Polling(w, u)
      BY <1>6 DEF Spawn, Polling, TypeOK, Scopes
    <3>2. \A u \in Task : Finished(u)' <=> Finished(u)
      BY <1>6 DEF Spawn, Finished, TypeOK
    <3>3. QED BY <3>1, <3>2 DEF FinishedTasks, PollingTasks
  <2>2. t \in FreshTasks /\ t \notin FinishedTasks
    BY <1>6 DEF Spawn, FreshTasks, FinishedTasks, Finished, Mapped, Owners,
       Owns
  <2>3. FreshTasks' = FreshTasks \ {t}
    BY <1>6 DEF Spawn, FreshTasks, TypeOK
  <2>4. OwedTasks' = OwedTasks \cup {t}
    BY <1>6, <2>1, <2>2 DEF Spawn, OwedTasks, TypeOK
  <2>5. Contract!Spawn(t)
    BY <2>1, <2>2, <2>3, <2>4 DEF Contract!Spawn
  <2>6. QED BY <2>5
<1>7. ASSUME NEW w \in Worker,
             \/ Dequeue(w) \/ PollLookup(w) \/ DoneUncount(w)
             \/ DoneAnnounce(w)
      PROVE  Goal
  <2>1. UNCHANGED <<state, tasks, handed>>
    BY <1>7 DEF Dequeue, PollLookup, DoneUncount, DoneAnnounce
  <2>2. \A v \in Worker : \A t \in Task :
          /\ Polling(v, t)' <=> Polling(v, t)
          /\ (cur[v] = t /\ pc[v] = "done")' <=> cur[v] = t /\ pc[v] = "done"
    BY <1>7, SMTT(60) DEF Dequeue, PollLookup, DoneUncount, DoneAnnounce,
       Polling, TypeOK, Scopes
  <2>3. QED BY <2>1, <2>2, AbstractStutter
<1>8. ASSUME NEW w \in Worker, PollClaim(w)  PROVE Goal
  <2> DEFINE t == cur[w]
  <2>1. /\ t \in Task /\ t \in tasks /\ state[t] = SCHEDULED
        /\ \A v \in Worker : ~Owns(v, t)
    <3>1. t \in Task /\ Holds(w, t) /\ pc[w] # "insert"
      BY <1>8 DEF PollClaim, Holds, Scopes
    <3>2. state[t] = SCHEDULED
      BY <3>1 DEF Tickets, OneTicket
    <3>3. t \in tasks
      BY <3>1 DEF Mapped
    <3>4. \A v \in Worker : ~Owns(v, t)
      BY <3>1, <3>2 DEF Owners
    <3>5. QED BY <3>1, <3>2, <3>3, <3>4
  <2>2. \A v \in Worker : \A u \in Task :
          Polling(v, u)' <=> Polling(v, u) \/ (v = w /\ u = t)
    BY <1>8, <2>1, SMTT(60) DEF PollClaim, Polling, TypeOK, Scopes
  <2>3. \A u \in Task : Finished(u)' <=> Finished(u)
    BY <1>8, <2>1, SMTT(60) DEF PollClaim, Finished, TypeOK
  <2>4. t \notin FinishedTasks /\ t \notin PollingTasks
    BY <2>1 DEF FinishedTasks, Finished, PollingTasks, Polling, Owns
  <2>5. FinishedTasks' = FinishedTasks
    BY <2>3 DEF FinishedTasks
  <2>6. PollingTasks' = PollingTasks \cup {t}
    BY <2>1, <2>2 DEF PollingTasks
  <2>7. /\ t \in OwedTasks /\ OwedTasks' = OwedTasks \ {t}
        /\ FreshTasks' = FreshTasks
    BY <1>8, <2>1, <2>4, <2>5, SMTT(60) DEF PollClaim, OwedTasks, FreshTasks,
       TypeOK
  <2>8. Contract!BeginPoll(t)
    BY <2>4, <2>5, <2>6, <2>7 DEF Contract!BeginPoll
  <2>9. QED BY <2>1, <2>8
<1>9. ASSUME NEW w \in Worker, PollReturn(w)  PROVE Goal
  <2> DEFINE t == cur[w]
  <2>1. t \in Task /\ Polling(w, t) /\ \A v \in Worker : Polling(v, t) => v = w
    BY <1>9 DEF PollReturn, Polling, Scopes, Owners, Owns
  <2>2. \A v \in Worker : \A u \in Task :
          Polling(v, u)' <=> Polling(v, u) /\ v # w
    BY <1>9 DEF PollReturn, Polling, TypeOK, Scopes
  <2>3. \A u \in Task : Polling(w, u) => u = t
    BY DEF Polling
  <2>4. t \in PollingTasks /\ PollingTasks' = PollingTasks \ {t}
    BY <2>1, <2>2, <2>3 DEF PollingTasks
  <2>5. UNCHANGED <<state, tasks, handed, cur>>
    BY <1>9 DEF PollReturn
  <2>6. CASE pc'[w] = "pending"
    <3>1. \A u \in Task : Finished(u)' <=> Finished(u)
      BY <1>9, <2>5, <2>6 DEF PollReturn, Finished, TypeOK
    <3>2. FinishedTasks' = FinishedTasks
      BY <3>1 DEF FinishedTasks
    <3>3. OwedTasks' = OwedTasks /\ FreshTasks' = FreshTasks
      BY <2>5, <3>2 DEF OwedTasks, FreshTasks
    <3>4. Contract!PollPending(t)
      BY <2>4, <3>2, <3>3 DEF Contract!PollPending
    <3>5. QED BY <2>1, <3>4
  <2>7. CASE pc'[w] = "done"
    <3>1. \A u \in Task : Finished(u)' <=> Finished(u) \/ u = t
      BY <1>9, <2>1, <2>5, <2>7 DEF PollReturn, Finished, TypeOK
    <3>2. FinishedTasks' = FinishedTasks \cup {t}
      BY <2>1, <3>1 DEF FinishedTasks
    <3>3. OwedTasks' = OwedTasks \ {t} /\ FreshTasks' = FreshTasks
      BY <2>5, <3>2 DEF OwedTasks, FreshTasks
    <3>4. Contract!PollDone(t)
      BY <2>4, <3>2, <3>3 DEF Contract!PollDone
    <3>5. QED BY <2>1, <3>4
  <2>8. QED BY <1>9, <2>6, <2>7 DEF PollReturn, TypeOK
<1>10. ASSUME NEW w \in Worker, DoneRemove(w)  PROVE Goal
  <2>1. cur[w] \in Task /\ cur[w] \in handed
    BY <1>10 DEF DoneRemove, Scopes, Owners, Owns
  <2>2. \A v \in Worker : \A u \in Task : Polling(v, u)' <=> Polling(v, u)
    BY <1>10 DEF DoneRemove, Polling, TypeOK, Scopes
  <2>3. \A u \in Task : Finished(u)' <=> Finished(u)
    BY <1>10, <2>1 DEF DoneRemove, Finished, TypeOK
  <2>4. FinishedTasks' = FinishedTasks /\ PollingTasks' = PollingTasks
    BY <2>2, <2>3 DEF FinishedTasks, PollingTasks
  <2>5. QED BY <1>10, <2>4
            DEF DoneRemove, AbstractVars, FreshTasks, OwedTasks
<1>11. ASSUME NEW w \in Worker, PendingIdle(w) \/ PendingReschedule(w)
       PROVE  Goal
  <2>1. \A v \in Worker : \A u \in Task : Polling(v, u)' <=> Polling(v, u)
    <3>1. CASE PendingIdle(w)
      BY <3>1, SMTT(60) DEF PendingIdle, Polling, TypeOK, Scopes
    <3>2. CASE PendingReschedule(w)
      BY <3>2 DEF PendingReschedule, Polling, TypeOK, Scopes
    <3>3. QED BY <1>11, <3>1, <3>2
  <2>2. \A u \in Task : Finished(u)' <=> Finished(u)
    <3>1. CASE PendingIdle(w)
      BY <3>1, SMTT(60) DEF PendingIdle, Finished, TypeOK
    <3>2. CASE PendingReschedule(w)
      BY <3>2 DEF PendingReschedule, Finished, TypeOK
    <3>3. QED BY <1>11, <3>1, <3>2
  <2>3. FinishedTasks' = FinishedTasks /\ PollingTasks' = PollingTasks
    BY <2>1, <2>2 DEF FinishedTasks, PollingTasks
  <2>4. \A u \in Task :
          /\ state'[u] = FRESH <=> state[u] = FRESH
          /\ state'[u] \in {SCHEDULED, NOTIFIED}
               <=> state[u] \in {SCHEDULED, NOTIFIED}
    <3>1. CASE PendingIdle(w)
      BY <3>1, SMTT(60) DEF PendingIdle, TypeOK
    <3>2. CASE PendingReschedule(w)
      <4>1. cur[w] \in Task /\ state[cur[w]] = NOTIFIED
        BY <3>2 DEF PendingReschedule, Owners, Owns, Scopes
      <4>2. QED BY <3>2, <4>1 DEF PendingReschedule, TypeOK
    <3>3. QED BY <1>11, <3>1, <3>2
  <2>5. QED BY <2>3, <2>4 DEF AbstractVars, FreshTasks, OwedTasks
<1>12. QED
  BY <1>1, <1>2, <1>3, <1>4, <1>5, <1>6, <1>7, <1>8, <1>9, <1>10, <1>11,
     NextCases DEF PollTask

(* Every behaviour of the executor is one that WakeContract allows.        *)
THEOREM ContractIsKept == Spec => KeepsWakeContract
<1>1. Init => Contract!Init
  <2> SUFFICES ASSUME Init  PROVE Contract!Init
    OBVIOUS
  <2>1. FreshTasks = Task /\ OwedTasks = {}
    BY DEF Init, FreshTasks, OwedTasks
  <2>2. PollingTasks = {} /\ FinishedTasks = {}
    BY DEF Init, PollingTasks, Polling, FinishedTasks, Finished
  <2>3. QED BY <2>1, <2>2 DEF Contract!Init
<1>2. IInv /\ [Next]_vars => [Contract!Next]_(Contract!vars)
  BY ContractStep DEF Contract!Next, Contract!vars, AbstractVars
<1>3. QED
  BY <1>1, <1>2, Invariance, PTL DEF Spec, KeepsWakeContract, Contract!Spec

====
