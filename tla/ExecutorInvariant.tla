------------------------- MODULE ExecutorInvariant --------------------------
(***************************************************************************)
(* The inductive invariant of Executor, which ExecutorProofs shows to hold *)
(* in every behaviour.                                                     *)
(***************************************************************************)
EXTENDS Executor

(* Worker w has claimed task t and has not yet let go of it.               *)
Owns(w, t) ==
  /\ cur[w] = t
  /\ \/ pc[w] \in {"poll", "pending", "resched", "done", "uncount", "announce"}
     \/ ret[w] = "poll"

(* Which local variables are in scope at which program point.              *)
Scopes ==
  /\ \A a \in Thread :
       /\ pc[a] \notin CallPc => ret[a] = "top"
       /\ pc[a] \in CallPc => arg[a] \in Task
       /\ pc[a] \in {"insert", "count"} => ret[a] \in UserCode
  /\ \A c \in Client :
       /\ pc[c] \in ClientPc \cup CallPc
       /\ pc[c] \in CallPc => ret[c] = "outside"
       /\ cur[c] = NoTask
  /\ \A w \in Worker :
       /\ pc[w] \in WorkerPc \cup CallPc
       /\ ret[w] # "outside"
       /\ cur[w] \in Task <=>
            \/ pc[w] \in {"lookup", "claim", "poll", "pending", "resched",
                          "done", "uncount", "announce"}
            \/ ret[w] = "poll"

(* Every SCHEDULED task has its one ticket.                                *)
Tickets ==
  /\ OneTicket
  /\ \A t \in Task : t \in pending <=> InQueue(t)

(* A claimed task has one owner and is not SCHEDULED.                      *)
Owners ==
  \A w \in Worker : \A t \in Task : Owns(w, t) =>
    /\ state[t] \in {RUNNING, NOTIFIED} /\ t \in handed
    /\ pc[w] = "resched" => state[t] = NOTIFIED
    /\ \A v \in Worker : Owns(v, t) => v = w

(* A task is in the map from its insertion to its completion.              *)
Mapped ==
  /\ \A t \in Task : state[t] = FRESH => t \notin tasks \cup handed
  /\ \A t \in Task : InQueue(t) \/ state[t] = IDLE => t \in tasks
  /\ \A t \in Task : \A a \in Thread : Holds(a, t) =>
       IF pc[a] = "insert" THEN t \notin tasks \cup handed ELSE t \in tasks
  /\ \A t \in Task : \A w \in Worker : Owns(w, t) =>
       (t \in tasks <=> pc[w] \notin {"uncount", "announce"})

(* The driver's token, and what keeps a driver from sleeping through a     *)
(* push: from the re-check on, a non-empty queue means that the eventfd is *)
(* set or about to be.                                                     *)
Driver ==
  /\ \A w, v \in Worker : Driving(w) /\ Driving(v) => w = v
  /\ token <=> \E w \in Worker : Driving(w)
  /\ \A w \in Worker :
       (pc[w] \in {"process", "epoll"} \/ ret[w] = "process")
         /\ queue # <<>> =>
           eventfd \/ \E a \in Thread : pc[a] \in {"peek", "poke"}

(* active_count is exact and the map finite.                               *)
Counted == ActiveExact /\ IsFiniteSet(tasks)

(* Waiters are asleep, and whoever is about to wait holds the mutex and    *)
(* has seen the queue empty.                                               *)
Parked ==
  \A w \in Worker :
    /\ w \in waiting => pc[w] = "asleep"
    /\ pc[w] = "wait" => queue = <<>>

(* Workers that will look at the queue before they block or poll.          *)
Looking(w) ==
  \/ pc[w] \in {"top", "dequeue", "elect", "recheck", "release", "sleep",
                "drain", "events"}
  \/ ret[w] = "events"
  \/ pc[w] = "asleep" /\ w \notin waiting
  \/ (pc[w] \in {"process", "epoll"} \/ ret[w] = "process") /\ eventfd

Lookers == {w \in Worker : Looking(w)}
Announcers == {a \in Thread : pc[a] \in {"peek", "poke", "notify"}}

(* While somebody waits, there is somebody up for every entry of the queue *)
(* or a notification on its way.                                           *)
Staffed ==
  ~shutdown /\ waiting # {} =>
    Len(queue) <= Cardinality(Lookers) + Cardinality(Announcers)

(* A task that is RUNNING or NOTIFIED has been claimed, and until it is    *)
(* removed from the map a worker owns it.                                  *)
Claimed ==
  \A t \in Task : state[t] \in {RUNNING, NOTIFIED} =>
    /\ t \in handed
    /\ t \in tasks => \E w \in Worker : Owns(w, t)

(* A worker leaves its loop only after shutdown.                           *)
Exits == \A w \in Worker : pc[w] = "exit" => shutdown

IInv ==
  /\ TypeOK /\ Scopes /\ Tickets /\ Owners /\ Mapped /\ Driver /\ Counted
  /\ Parked /\ Staffed /\ Claimed /\ Exits

-----------------------------------------------------------------------------
(* Further properties that ExecutorProofs derives from it.                 *)

(* The precautions of the code that never act: poll_task finds the task it *)
(* dequeued in the map, its compare-exchange from SCHEDULED succeeds, the  *)
(* failed one back to IDLE has met NOTIFIED, and ReadyQueue::enqueue meets *)
(* no duplicate.                                                           *)
ChecksSucceed ==
  /\ \A w \in Worker :
       /\ pc[w] = "lookup"  => cur[w] \in tasks
       /\ pc[w] = "claim"   => state[cur[w]] = SCHEDULED
       /\ pc[w] = "resched" => state[cur[w]] = NOTIFIED
  /\ \A a \in Thread : pc[a] = "push" => arg[a] \notin pending

(* The ready queue is no longer than the map is large, however often tasks *)
(* are woken.                                                              *)
ReadyBounded == Len(queue) <= Cardinality(tasks)

(* Worker w is inside the future of t or between its return with Pending   *)
(* and the compare-exchange or store that follows.                         *)
WillReschedule(w, t) ==
  \/ Polling(w, t)
  \/ cur[w] = t /\ pc[w] \in {"pending", "resched"}

(* A task that is owed a poll is in the queue, on its way to it or from it *)
(* in the hands of one thread, or with the worker that polls it and will   *)
(* see that it was notified.  No wake-up is anywhere else.                 *)
OwedIsHeld ==
  \A t \in OwedTasks :
    IF state[t] = SCHEDULED
      THEN InQueue(t) \/ \E a \in Thread : Holds(a, t)
      ELSE \E w \in Worker : WillReschedule(w, t)

(* If every worker is blocked and no client is inside spawn or a wake, the *)
(* work is done: nothing is owed a poll, and every task in the map is IDLE *)
(* and waits for its own wake-up.                                          *)
QuietMeansDone ==
  (/\ ~shutdown
   /\ \A w \in Worker : Blocked(w)
   /\ \A c \in Client : pc[c] \notin CallPc)
     => OwedTasks = {} /\ \A t \in tasks : state[t] = IDLE

AllExited == \A w \in Worker : pc[w] = "exit"

(* What shutdown's joins leave behind: nobody polls or drives, nobody      *)
(* waits on the condvar, and a task that has not finished is IDLE or still *)
(* has its ticket, in the queue or in the hands of a client.               *)
CleanExit ==
  AllExited =>
    /\ shutdown /\ ~token /\ waiting = {} /\ PollingTasks = {}
    /\ \A t \in tasks :
         \/ state[t] = IDLE
         \/ /\ state[t] = SCHEDULED
            /\ InQueue(t) \/ \E c \in Client : Holds(c, t)

(* Once the workers have exited no task is polled, finishes or leaves the  *)
(* queue any more.                                                         *)
StaysStopped ==
  [][AllExited => /\ AllExited' /\ handed' = handed /\ tasks \subseteq tasks'
                  /\ FinishedTasks' = FinishedTasks
                  /\ \A t \in Task : InQueue(t) => InQueue(t)']_vars

=============================================================================
