----------------------------- MODULE JoinProofs -----------------------------
(***************************************************************************)
(* Proofs about Join, for any tasks.                                       *)
(***************************************************************************)
EXTENDS Join, TLAPS

(* Where a task may be; and a handle is awaited by the task that owns it,  *)
(* so by one only.                                                         *)
Places ==
  /\ fresh \subseteq Task /\ finished \subseteq Task
  /\ fresh \cap finished = {}
  /\ \A t \in Task :
       /\ pc[t] \in {"pending", "notify"} => t \in polling
       /\ pc[t] = "done" => t \in polling \cup finished
       /\ awaits[t] # NoTask => owner[awaits[t]] = t
       /\ t \in fresh => owner[t] = NoTask
       /\ t \in waker => owner[t] # NoTask

(* From the moment JoinHandle::poll finds no result, and as long as the    *)
(* task is not woken, its waker is in the TaskState.                       *)
Registered ==
  \A t \in Task :
    /\ awaits[t] # NoTask
    /\ pc[t] = "pending" \/ t \notin polling
    /\ t \notin owed \cup finished
    => awaits[t] \in waker /\ awaits[t] \notin result

(* The slot is filled by the root, which notifies after that.              *)
SlotFilled ==
  /\ slot => pc[Root] \in {"notify", "done"}
  /\ CallerSignalled

(* A result is stored once and taken once: that of a task which has run to *)
(* its end is in its TaskState until the owner's JoinHandle::poll returns  *)
(* it, and then nowhere, and no handle is polled after that; that of the   *)
(* root is in the slot until block_on returns it.  A panic stores none.    *)
ResultsKept ==
  /\ Root \notin result \cup joined
  /\ \A c \in Task \ {Root} : pc[c] = "done" <=> c \in result \cup joined
  /\ result \cap joined = {}
  /\ \A t \in Task : awaits[t] \notin joined
  /\ pc[Root] \in {"notify", "done"} <=> slot \/ caller = "returned"
  /\ ~(slot /\ caller = "returned")

IInv == TypeOK /\ Places /\ Registered /\ SlotFilled /\ ResultsKept

(* Nobody but the task that called spawn takes a result out of a           *)
(* TaskState, in a poll of the handle, which returns it; what was returned *)
(* is not stored again, and no result overwrites another.                  *)
TakenByOwner ==
  [][/\ \A c \in result \ result' :
          /\ owner[c] \in polling /\ awaits[owner[c]] = c
          /\ c \in joined'
     /\ joined \subseteq joined' \ result'
     /\ \A c \in Task : Deposit(c) => c \notin result \cup joined
     /\ RootDeposit => ~slot /\ caller # "returned"]_vars

-----------------------------------------------------------------------------

(* Zenon proves most leaves; the others cite SMT.                          *)
USE ZenonT(60)

(* Before the first block_on or spawn the invariant holds.                 *)
LEMMA InitHolds == Init => IInv
BY ConstAssumption DEF Init, Sched!Init, IInv, TypeOK, Places, Registered,
   SlotFilled, CallerSignalled, ResultsKept

(* Every step keeps the types; a waker left behind in a TaskState enqueues *)
(* no task that has finished.                                              *)
LEMMA TypeStep ==
  TypeOK /\ Places /\ [Next]_vars => TypeOK'
<1> SUFFICES ASSUME TypeOK, Places, [Next]_vars
             PROVE TypeOK'
  OBVIOUS
<1> USE ConstAssumption DEF schedVars, joinVars
<1>1. CASE BlockOn
  BY <1>1, SMT DEF BlockOn, Sched!Spawn, TypeOK, Places
<1>2. CASE CheckSlot \/ SpuriousWakeup
  BY <1>2 DEF CheckSlot, SpuriousWakeup, TypeOK, Places
<1>3. ASSUME NEW t \in Task, BeginPoll(t)
      PROVE TypeOK'
  BY <1>3, SMT DEF BeginPoll, Sched!BeginPoll, TypeOK, Places
<1>4. ASSUME NEW t \in Task, OtherWake(t)
      PROVE TypeOK'
  BY <1>4 DEF OtherWake, Sched!Wake, TypeOK, Places
<1>5. ASSUME NEW t \in Task, NEW c \in Task, Spawn(t, c)
      PROVE TypeOK'
  BY <1>5, SMT DEF Spawn, Sched!Spawn, At, TypeOK, Places
<1>6. ASSUME NEW t \in Task, NEW c \in Task, Await(t, c)
      PROVE TypeOK'
  BY <1>6 DEF Await, At, TypeOK, Places
<1>7. ASSUME NEW t \in Task, NEW c \in Task, PollJoin(t, c)
      PROVE TypeOK'
  BY <1>7, SMT DEF PollJoin, At, Goto, TypeOK, Places
<1>8. ASSUME NEW t \in Task, Yield(t)
      PROVE TypeOK'
  BY <1>8, SMT DEF Yield, Sched!Wake, At, Goto, TypeOK, Places
<1>9. ASSUME NEW t \in Task, Pending(t)
      PROVE TypeOK'
  BY <1>9 DEF Pending, Sched!PollPending, At, Goto, TypeOK, Places
<1>10. ASSUME NEW t \in Task, Deposit(t)
      PROVE TypeOK'
  BY <1>10, SMT DEF Deposit, Sched!Wake, At, Goto, TypeOK, Places
<1>11. CASE RootDeposit
  BY <1>11 DEF RootDeposit, At, Goto, TypeOK, Places
<1>12. CASE RootNotify
  BY <1>12 DEF RootNotify, At, Goto, TypeOK, Places
<1>13. ASSUME NEW t \in Task, Ready(t)
      PROVE TypeOK'
  BY <1>13 DEF Ready, Sched!PollDone, At, TypeOK, Places
<1>14. ASSUME NEW t \in Task, Panic(t)
      PROVE TypeOK'
  BY <1>14 DEF Panic, Sched!PollDone, At, TypeOK, Places
<1>15. CASE UNCHANGED vars
  BY <1>15 DEF vars, TypeOK, Places
<1> QED
  BY <1>1, <1>2, <1>3, <1>4, <1>5, <1>6, <1>7, <1>8, <1>9, <1>10, <1>11,
     <1>12, <1>13, <1>14, <1>15
  DEF Next, Step

(* A handle stays with the task that spawned the other.                    *)
LEMMA PlacesStep ==
  TypeOK /\ Places /\ [Next]_vars => Places'
<1> SUFFICES ASSUME TypeOK, Places, [Next]_vars
             PROVE Places'
  OBVIOUS
<1> USE ConstAssumption DEF schedVars, joinVars
<1>1. CASE BlockOn
  BY <1>1 DEF BlockOn, Sched!Spawn, TypeOK, Places
<1>2. CASE CheckSlot \/ SpuriousWakeup
  BY <1>2, SMT DEF CheckSlot, SpuriousWakeup, TypeOK, Places
<1>3. ASSUME NEW t \in Task, BeginPoll(t)
      PROVE Places'
  BY <1>3 DEF BeginPoll, Sched!BeginPoll, TypeOK, Places
<1>4. ASSUME NEW t \in Task, OtherWake(t)
      PROVE Places'
  BY <1>4 DEF OtherWake, Sched!Wake, TypeOK, Places
<1>5. ASSUME NEW t \in Task, NEW c \in Task, Spawn(t, c)
      PROVE Places'
  BY <1>5, SMT DEF Spawn, Sched!Spawn, At, TypeOK, Places
<1>6. ASSUME NEW t \in Task, NEW c \in Task, Await(t, c)
      PROVE Places'
  BY <1>6 DEF Await, At, TypeOK, Places
<1>7. ASSUME NEW t \in Task, NEW c \in Task, PollJoin(t, c)
      PROVE Places'
  BY <1>7, SMT DEF PollJoin, At, Goto, TypeOK, Places
<1>8. ASSUME NEW t \in Task, Yield(t)
      PROVE Places'
  BY <1>8 DEF Yield, Sched!Wake, At, Goto, TypeOK, Places
<1>9. ASSUME NEW t \in Task, Pending(t)
      PROVE Places'
  BY <1>9 DEF Pending, Sched!PollPending, At, Goto, TypeOK, Places
<1>10. ASSUME NEW t \in Task, Deposit(t)
      PROVE Places'
  BY <1>10, SMT DEF Deposit, Sched!Wake, At, Goto, TypeOK, Places
<1>11. CASE RootDeposit
  BY <1>11 DEF RootDeposit, At, Goto, TypeOK, Places
<1>12. CASE RootNotify
  BY <1>12 DEF RootNotify, At, Goto, TypeOK, Places
<1>13. ASSUME NEW t \in Task, Ready(t)
      PROVE Places'
  BY <1>13 DEF Ready, Sched!PollDone, At, TypeOK, Places
<1>14. ASSUME NEW t \in Task, Panic(t)
      PROVE Places'
  BY <1>14, SMT DEF Panic, Sched!PollDone, At, TypeOK, Places
<1>15. CASE UNCHANGED vars
  BY <1>15 DEF vars, TypeOK, Places
<1> QED
  BY <1>1, <1>2, <1>3, <1>4, <1>5, <1>6, <1>7, <1>8, <1>9, <1>10, <1>11,
     <1>12, <1>13, <1>14, <1>15
  DEF Next, Step

(* The end of wrap_future_with_state takes the waker and calls it in the   *)
(* critical section in which it stores the result.                         *)
LEMMA RegisteredStep ==
  TypeOK /\ Places /\ Registered /\ [Next]_vars => Registered'
<1> SUFFICES ASSUME TypeOK, Places, Registered, [Next]_vars
             PROVE Registered'
  OBVIOUS
<1> USE ConstAssumption DEF schedVars, joinVars
<1>1. CASE BlockOn
  BY <1>1 DEF BlockOn, Sched!Spawn, TypeOK, Places, Registered
<1>2. CASE CheckSlot \/ SpuriousWakeup
  BY <1>2, SMT DEF CheckSlot, SpuriousWakeup, TypeOK, Places, Registered
<1>3. ASSUME NEW t \in Task, BeginPoll(t)
      PROVE Registered'
  BY <1>3 DEF BeginPoll, Sched!BeginPoll, TypeOK, Places, Registered
<1>4. ASSUME NEW t \in Task, OtherWake(t)
      PROVE Registered'
  BY <1>4 DEF OtherWake, Sched!Wake, TypeOK, Places, Registered
<1>5. ASSUME NEW t \in Task, NEW c \in Task, Spawn(t, c)
      PROVE Registered'
  BY <1>5 DEF Spawn, Sched!Spawn, At, TypeOK, Places, Registered
<1>6. ASSUME NEW t \in Task, NEW c \in Task, Await(t, c)
      PROVE Registered'
  BY <1>6, SMT DEF Await, At, TypeOK, Places, Registered
<1>7. ASSUME NEW t \in Task, NEW c \in Task, PollJoin(t, c)
      PROVE Registered'
  BY <1>7, SMT DEF PollJoin, At, Goto, TypeOK, Places, Registered
<1>8. ASSUME NEW t \in Task, Yield(t)
      PROVE Registered'
  BY <1>8, SMT DEF Yield, Sched!Wake, At, Goto, TypeOK, Places, Registered
<1>9. ASSUME NEW t \in Task, Pending(t)
      PROVE Registered'
  BY <1>9, SMT DEF Pending, Sched!PollPending, At, Goto, TypeOK, Places,
     Registered
<1>10. ASSUME NEW t \in Task, Deposit(t)
      PROVE Registered'
  BY <1>10, SMT DEF Deposit, Sched!Wake, At, Goto, TypeOK, Places, Registered
<1>11. CASE RootDeposit
  BY <1>11, SMT DEF RootDeposit, At, Goto, TypeOK, Places, Registered
<1>12. CASE RootNotify
  BY <1>12, SMT DEF RootNotify, At, Goto, TypeOK, Places, Registered
<1>13. ASSUME NEW t \in Task, Ready(t)
      PROVE Registered'
  BY <1>13 DEF Ready, Sched!PollDone, At, TypeOK, Places, Registered
<1>14. ASSUME NEW t \in Task, Panic(t)
      PROVE Registered'
  BY <1>14 DEF Panic, Sched!PollDone, At, TypeOK, Places, Registered
<1>15. CASE UNCHANGED vars
  BY <1>15 DEF vars, TypeOK, Places, Registered
<1> QED
  BY <1>1, <1>2, <1>3, <1>4, <1>5, <1>6, <1>7, <1>8, <1>9, <1>10, <1>11,
     <1>12, <1>13, <1>14, <1>15
  DEF Next, Step

(* The root's result and the caller of block_on.                           *)
LEMMA SlotStep ==
  TypeOK /\ Places /\ SlotFilled /\ [Next]_vars => SlotFilled'
<1> SUFFICES ASSUME TypeOK, Places, SlotFilled, [Next]_vars
             PROVE SlotFilled'
  OBVIOUS
<1> USE ConstAssumption DEF schedVars, joinVars
<1>1. CASE BlockOn
  BY <1>1 DEF BlockOn, Sched!Spawn, TypeOK, Places, SlotFilled, CallerSignalled
<1>2. CASE CheckSlot \/ SpuriousWakeup
  BY <1>2, SMT DEF CheckSlot, SpuriousWakeup, TypeOK, Places, SlotFilled,
     CallerSignalled
<1>3. ASSUME NEW t \in Task, BeginPoll(t)
      PROVE SlotFilled'
  BY <1>3 DEF BeginPoll, Sched!BeginPoll, TypeOK, Places, SlotFilled,
     CallerSignalled
<1>4. ASSUME NEW t \in Task, OtherWake(t)
      PROVE SlotFilled'
  BY <1>4 DEF OtherWake, Sched!Wake, TypeOK, Places, SlotFilled,
     CallerSignalled
<1>5. ASSUME NEW t \in Task, NEW c \in Task, Spawn(t, c)
      PROVE SlotFilled'
  BY <1>5 DEF Spawn, Sched!Spawn, At, TypeOK, Places, SlotFilled,
     CallerSignalled
<1>6. ASSUME NEW t \in Task, NEW c \in Task, Await(t, c)
      PROVE SlotFilled'
  BY <1>6 DEF Await, At, TypeOK, Places, SlotFilled, CallerSignalled
<1>7. ASSUME NEW t \in Task, NEW c \in Task, PollJoin(t, c)
      PROVE SlotFilled'
  BY <1>7 DEF PollJoin, At, Goto, TypeOK, Places, SlotFilled, CallerSignalled
<1>8. ASSUME NEW t \in Task, Yield(t)
      PROVE SlotFilled'
  BY <1>8 DEF Yield, Sched!Wake, At, Goto, TypeOK, Places, SlotFilled,
     CallerSignalled
<1>9. ASSUME NEW t \in Task, Pending(t)
      PROVE SlotFilled'
  BY <1>9 DEF Pending, Sched!PollPending, At, Goto, TypeOK, Places,
     SlotFilled, CallerSignalled
<1>10. ASSUME NEW t \in Task, Deposit(t)
      PROVE SlotFilled'
  BY <1>10 DEF Deposit, Sched!Wake, At, Goto, TypeOK, Places, SlotFilled,
     CallerSignalled
<1>11. CASE RootDeposit
  BY <1>11 DEF RootDeposit, At, Goto, TypeOK, Places, SlotFilled,
     CallerSignalled
<1>12. CASE RootNotify
  BY <1>12 DEF RootNotify, At, Goto, TypeOK, Places, SlotFilled,
     CallerSignalled
<1>13. ASSUME NEW t \in Task, Ready(t)
      PROVE SlotFilled'
  BY <1>13 DEF Ready, Sched!PollDone, At, TypeOK, Places, SlotFilled,
     CallerSignalled
<1>14. ASSUME NEW t \in Task, Panic(t)
      PROVE SlotFilled'
  BY <1>14 DEF Panic, Sched!PollDone, At, TypeOK, Places, SlotFilled,
     CallerSignalled
<1>15. CASE UNCHANGED vars
  BY <1>15 DEF vars, TypeOK, Places, SlotFilled, CallerSignalled
<1> QED
  BY <1>1, <1>2, <1>3, <1>4, <1>5, <1>6, <1>7, <1>8, <1>9, <1>10, <1>11,
     <1>12, <1>13, <1>14, <1>15
  DEF Next, Step

(* The TaskState's lock, and the slot's, make storing and taking atomic.   *)
LEMMA KeptStep ==
  TypeOK /\ Places /\ ResultsKept /\ [Next]_vars => ResultsKept'
<1> SUFFICES ASSUME TypeOK, Places, ResultsKept, [Next]_vars
             PROVE ResultsKept'
  OBVIOUS
<1> USE ConstAssumption DEF schedVars, joinVars
<1>1. CASE BlockOn
  BY <1>1 DEF BlockOn, Sched!Spawn, TypeOK, Places, ResultsKept
<1>2. CASE CheckSlot \/ SpuriousWakeup
  BY <1>2, SMT DEF CheckSlot, SpuriousWakeup, TypeOK, Places, ResultsKept
<1>3. ASSUME NEW t \in Task, BeginPoll(t)
      PROVE ResultsKept'
  BY <1>3 DEF BeginPoll, Sched!BeginPoll, TypeOK, Places, ResultsKept
<1>4. ASSUME NEW t \in Task, OtherWake(t)
      PROVE ResultsKept'
  BY <1>4 DEF OtherWake, Sched!Wake, TypeOK, Places, ResultsKept
<1>5. ASSUME NEW t \in Task, NEW c \in Task, Spawn(t, c)
      PROVE ResultsKept'
  BY <1>5 DEF Spawn, Sched!Spawn, At, TypeOK, Places, ResultsKept
<1>6. ASSUME NEW t \in Task, NEW c \in Task, Await(t, c)
      PROVE ResultsKept'
  BY <1>6, SMT DEF Await, At, TypeOK, Places, ResultsKept
<1>7. ASSUME NEW t \in Task, NEW c \in Task, PollJoin(t, c)
      PROVE ResultsKept'
  BY <1>7, SMT DEF PollJoin, At, Goto, TypeOK, Places, ResultsKept
<1>8. ASSUME NEW t \in Task, Yield(t)
      PROVE ResultsKept'
  BY <1>8, SMT DEF Yield, Sched!Wake, At, Goto, TypeOK, Places, ResultsKept
<1>9. ASSUME NEW t \in Task, Pending(t)
      PROVE ResultsKept'
  BY <1>9, SMT DEF Pending, Sched!PollPending, At, Goto, TypeOK, Places,
     ResultsKept
<1>10. ASSUME NEW t \in Task, Deposit(t)
      PROVE ResultsKept'
  BY <1>10, SMT DEF Deposit, Sched!Wake, At, Goto, TypeOK, Places, ResultsKept
<1>11. CASE RootDeposit
  BY <1>11, SMT DEF RootDeposit, At, Goto, TypeOK, Places, ResultsKept
<1>12. CASE RootNotify
  BY <1>12, SMT DEF RootNotify, At, Goto, TypeOK, Places, ResultsKept
<1>13. ASSUME NEW t \in Task, Ready(t)
      PROVE ResultsKept'
  BY <1>13 DEF Ready, Sched!PollDone, At, TypeOK, Places, ResultsKept
<1>14. ASSUME NEW t \in Task, Panic(t)
      PROVE ResultsKept'
  BY <1>14 DEF Panic, Sched!PollDone, At, TypeOK, Places, ResultsKept
<1>15. CASE UNCHANGED vars
  BY <1>15 DEF vars, TypeOK, Places, ResultsKept
<1> QED
  BY <1>1, <1>2, <1>3, <1>4, <1>5, <1>6, <1>7, <1>8, <1>9, <1>10, <1>11,
     <1>12, <1>13, <1>14, <1>15
  DEF Next, Step

-----------------------------------------------------------------------------

(* IInv holds in every reachable state.                                    *)
THEOREM Invariance == Spec => []IInv
<1>1. IInv /\ [Next]_vars => IInv'
  BY TypeStep, PlacesStep, RegisteredStep, SlotStep, KeptStep DEF IInv
<1> QED
  BY InitHolds, <1>1, PTL DEF Spec

(* Type correctness, for the results of tasks.                             *)
THEOREM TypeCorrect == Spec => []TypeOK
<1>1. IInv => TypeOK
  BY DEF IInv
<1> QED
  BY Invariance, <1>1, PTL

(* A task that awaits a JoinHandle misses no result, however many tasks    *)
(* await each other: either its waker is in the TaskState, or it has been  *)
(* woken.                                                                  *)
THEOREM NoResultIsMissed == Spec => []JoinNotMissed
<1>1. IInv => JoinNotMissed
  BY ConstAssumption, SMT DEF IInv, TypeOK, Registered, JoinNotMissed
<1> QED
  BY Invariance, <1>1, PTL

(* A caller parked in block_on is notified after the result is in its slot.*)
THEOREM CallerIsSignalled == Spec => []CallerSignalled
<1>1. IInv => CallerSignalled
  BY DEF IInv, SlotFilled
<1> QED
  BY Invariance, <1>1, PTL

(* The result of a task, and of the future given to block_on, is delivered *)
(* exactly once, whatever order the tasks and the caller run in.           *)
THEOREM ResultsAreKept == Spec => []ResultsKept
<1>1. IInv => ResultsKept
  BY DEF IInv
<1> QED
  BY Invariance, <1>1, PTL

(* JoinHandle::poll is the only way out of a TaskState, and it is the      *)
(* owner's.                                                                *)
THEOREM OwnersTakeResults == Spec => TakenByOwner
<1> DEFINE Act == /\ \A c \in result \ result' :
                        /\ owner[c] \in polling /\ awaits[owner[c]] = c
                        /\ c \in joined'
                  /\ joined \subseteq joined' \ result'
                  /\ \A c \in Task : Deposit(c) => c \notin result \cup joined
                  /\ RootDeposit => ~slot /\ caller # "returned"
<1>1. ASSUME IInv, [Next]_vars PROVE [Act]_vars
  <2>1. \A c \in Task : Deposit(c) => c \notin result \cup joined
    BY <1>1 DEF IInv, ResultsKept, Deposit, At
  <2>2. RootDeposit => ~slot /\ caller # "returned"
    BY <1>1 DEF IInv, ResultsKept, RootDeposit, At
  <2>3. CASE UNCHANGED <<result, joined>>
    BY <1>1, <2>1, <2>2, <2>3 DEF IInv, ResultsKept
  <2>4. ASSUME NEW t \in Task, NEW c \in Task, PollJoin(t, c) PROVE Act
    <3>1. owner[c] = t /\ t \in polling /\ awaits[t] = c
      BY <1>1, <2>4, ConstAssumption DEF IInv, Places, PollJoin, At
    <3> QED
      BY <1>1, <2>1, <2>2, <2>4, <3>1 DEF IInv, ResultsKept, PollJoin
  <2>5. ASSUME NEW t \in Task, Deposit(t) PROVE Act
    BY <1>1, <2>1, <2>2, <2>5 DEF IInv, ResultsKept, Deposit
  <2> QED
    BY <1>1, <2>3, <2>4, <2>5 DEF Next, Step, vars, joinVars, BlockOn,
       CheckSlot, SpuriousWakeup, BeginPoll, OtherWake, Spawn, Await, Yield,
       Pending, RootDeposit, RootNotify, Ready, Panic
<1> QED
  BY Invariance, <1>1, PTL DEF Spec, TakenByOwner

=============================================================================
