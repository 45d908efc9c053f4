---------------------------- MODULE TimersProofs ----------------------------
(***************************************************************************)
(* Proofs about Timers, for any sleepers and any durations.                *)
(***************************************************************************)
EXTENDS Timers, WellFoundedInduction, TLAPS

(* The scheduler's sets, and where a task may be while it has the CPU.     *)
Places ==
  /\ fresh \subseteq Sleeper /\ owed \subseteq Sleeper
  /\ polling \subseteq Sleeper /\ finished \subseteq Sleeper
  /\ \A s \in Sleeper :
       /\ pc[s] \in {"poke", "claim", "write", "check"} => s \in polling
       /\ pc[s] = "new" => ~completed[s]
       /\ pc[s] = "ready" => completed[s]
       /\ s \in finished <=> pc[s] \in {"ready", "dropped"}
       /\ s \in fresh => s \notin owed \cup polling \cup finished
       /\ s \in finished => s \notin owed \cup polling

(* The driver has an entry exactly while it fires it, and has marked it    *)
(* completed; what it has found due is due.                                *)
Firing ==
  /\ dpc \in {"wake", "take", "call"} <=> entry # NoTimer
  /\ entry # NoTimer => completed[entry]
  /\ due # {} => dpc \in {"fire", "wake", "take", "call"}
  /\ \A s \in due : left[s] = 0

(* Until its timer has completed, a task that has registered its waker has *)
(* it in the cell; after that the driver has it, or has called it.         *)
Waits(s) ==
  \/ pc[s] = "check" /\ ~completed[s]
  \/ pc[s] = "load" /\ s \notin owed \cup polling \cup finished

WakerKept ==
  \A s \in Sleeper :
    Waits(s) =>
      \/ ~completed[s] /\ cell[s] = STORED
      \/ /\ completed[s] /\ entry = s
         /\ \/ dpc = "wake" /\ cell[s] = STORED
            \/ dpc = "take" /\ stored[s]
            \/ dpc = "call"

(* What drive_io knows of the deadlines between process and epoll_wait.    *)
InProcess == pass = 1 /\ dpc \in {"clock", "fire", "wake", "take", "call"}

NextDue ==
  /\ InProcess => \A s \in inbox : eventfd \/ pc[s] = "poke"
  /\ InProcess /\ dpc # "clock" =>
       IF next = 0 THEN heap = due
                   ELSE \A s \in heap \ due : next <= left[s] + late

(* AtomicWaker::wake claims a cell only when there is a waker in it: its   *)
(* take never gives None.                                                  *)
TakeFindsWaker == dpc = "take" => stored[entry]

IInv ==
  /\ TypeOK /\ Places /\ Firing /\ CellExclusive /\ InWheel
  /\ WakerKept /\ NeverEarly /\ NextDue /\ DriverWakesInTime
  /\ TakeFindsWaker

-----------------------------------------------------------------------------
(* Further properties that follow from it.                                 *)

(* No timer fires twice, nor one whose task has seen it complete.          *)
FiresOnce ==
  [][\A s \in Sleeper : Fire(s) => ~completed[s] /\ pc[s] # "ready"]_vars

(* If process reports no deadline although there are timers, they are in   *)
(* the inbox, and their poke ends the short timeout that drive_io takes.   *)
ShortTimeoutFits ==
  dpc = "fire" /\ due = {} /\ pass = 1 /\ next = 0 =>
    heap = {} /\ \A s \in inbox : eventfd \/ pc[s] = "poke"

-----------------------------------------------------------------------------

(* Zenon proves most leaves; the others cite SMT.                          *)
USE ZenonT(60)

(* A set of numbers that is not empty has a least one: what process takes  *)
(* from the top of the heap.                                               *)
LEMMA LeastIsLeast ==
  ASSUME NEW S \in SUBSET Nat, S # {}
  PROVE  Least(S) \in S /\ \A y \in S : Least(S) <= y
<1>1. PICK x \in S : \A y \in S : ~(<<y, x>> \in OpToRel(<, Nat))
  BY NatLessThanWellFounded, WFMin
<1>2. \A y \in S : x <= y
  <2>1. \A y \in S : ~(y < x)
    BY <1>1 DEF OpToRel
  <2> QED
    BY <2>1, SMT
<1> QED
  BY <1>2 DEF Least

(* A wheel without timers satisfies the invariant.                         *)
LEMMA InitHolds == Init => IInv
<1> SUFFICES ASSUME Init PROVE IInv
  OBVIOUS
<1> USE ConstAssumption DEF Init, Sched!Init
<1>1. TypeOK
  <2>1. 0 \in 0..MaxDelay /\ 0 \in 0..Greater(IdleTimeout, MaxDelay)
    BY SMT DEF Greater, IdleTimeout
  <2> QED
    BY <2>1 DEF TypeOK, EMPTY
<1>2. Places /\ Firing /\ InWheel /\ NeverEarly /\ NextDue /\ DriverWakesInTime
  BY DEF Places, Firing, InWheel, NeverEarly, NextDue, InProcess,
     DriverWakesInTime
<1>3. CellExclusive /\ WakerKept
  BY DEF CellExclusive, WakerKept, Waits, EMPTY, STORED, WAKING
<1>4. TakeFindsWaker
  BY DEF TakeFindsWaker
<1> QED
  BY <1>1, <1>2, <1>3, <1>4 DEF IInv

(* Every step keeps the types; the timeout of a process is one of the      *)
(* deadlines, by LeastIsLeast.                                             *)
LEMMA TypeStep ==
  TypeOK /\ Places /\ Firing /\ [Next]_vars => TypeOK'
<1> SUFFICES ASSUME TypeOK, Places, Firing, [Next]_vars
             PROVE TypeOK'
  OBVIOUS
<1> USE ConstAssumption DEF schedVars, timerVars, driverVars
<1>1. ASSUME NEW s \in Sleeper, SpawnSleeper(s) \/ BeginPoll(s)
      PROVE TypeOK'
  BY <1>1 DEF SpawnSleeper, BeginPoll, Sched!Spawn, Sched!BeginPoll, TypeOK
<1>2. ASSUME NEW s \in Sleeper, OtherWake(s)
      PROVE TypeOK'
  BY <1>2 DEF OtherWake, WakeTask, Sched!Wake, TypeOK
<1>3. ASSUME NEW s \in Sleeper, NEW d \in 0..MaxDelay, Register(s, d)
      PROVE TypeOK'
  BY <1>3 DEF Register, At, TypeOK
<1>4. ASSUME NEW s \in Sleeper, SleepPoke(s) \/ PollLoad(s)
      PROVE TypeOK'
  <2>1. CASE SleepPoke(s)
    BY <2>1 DEF SleepPoke, At, TypeOK
  <2>2. CASE PollLoad(s)
    BY <2>2 DEF PollLoad, At, TypeOK
  <2> QED
    BY <1>4, <2>1, <2>2
<1>5. ASSUME NEW s \in Sleeper, RegisterClaim(s)
      PROVE TypeOK'
  BY <1>5 DEF RegisterClaim, At, TypeOK, WAKING
<1>6. ASSUME NEW s \in Sleeper, RegisterStore(s)
      PROVE TypeOK'
  BY <1>6 DEF RegisterStore, At, TypeOK, STORED
<1>7. ASSUME NEW s \in Sleeper, PollPending(s)
      PROVE TypeOK'
  BY <1>7 DEF PollPending, Sched!PollPending, At, TypeOK
<1>8. ASSUME NEW s \in Sleeper, PollReady(s) \/ DropSleep(s)
      PROVE TypeOK'
  BY <1>8 DEF PollReady, DropSleep, Sched!PollDone, At, TypeOK
<1>9. CASE BeginDrive
  BY <1>9 DEF BeginDrive, Goto, TypeOK
<1>10. CASE DrainInbox
  BY <1>10 DEF DrainInbox, Goto, TypeOK
<1>11. CASE ReadClock
  <2>1. next' \in 0..MaxDelay
    <3>1. CASE heap = Expired
      BY <1>11, <3>1, SMT DEF ReadClock
    <3>2. CASE heap # Expired
      <4> DEFINE S == {left[s] : s \in heap \ Expired}
      <4>1. S \in SUBSET (0..MaxDelay) /\ S # {}
        BY <3>2, SMT DEF TypeOK, Expired
      <4>2. Least(S) \in S
        <5>1. S \in SUBSET Nat /\ S # {}
          BY <4>1, SMT
        <5> HIDE DEF S
        <5> QED
          BY <5>1, LeastIsLeast
      <4>3. next' = Least(S)
        BY <1>11, <3>2 DEF ReadClock
      <4> QED
        BY <4>1, <4>2, <4>3
    <3> QED
      BY <3>1, <3>2
  <2> QED
    BY <1>11, <2>1, SMT DEF ReadClock, Expired, Goto, TypeOK
<1>12. ASSUME NEW s \in Sleeper, Fire(s)
      PROVE TypeOK'
  BY <1>12 DEF Fire, Pop, Goto, TypeOK
<1>13. CASE WakeClaim
  BY <1>13 DEF WakeClaim, Goto, TypeOK, WAKING
<1>14. CASE WakeTake
  BY <1>14 DEF WakeTake, Goto, TypeOK, EMPTY
<1>15. CASE WakeCall
  BY <1>15 DEF WakeCall, WakeTask, Sched!Wake, Goto, TypeOK
<1>16. CASE ProcessReturns
  <2>1. budget' \in 0..Greater(IdleTimeout, MaxDelay)
    BY <1>16, SMT DEF ProcessReturns, Greater, IdleTimeout, PendingTimeout,
       TypeOK
  <2> QED
    BY <1>16, <2>1, SMTT(60) DEF ProcessReturns, Goto, TypeOK
<1>17. CASE EpollReturns
  <2>1. budget' \in 0..Greater(IdleTimeout, MaxDelay)
    BY <1>17, SMT DEF EpollReturns, Greater, IdleTimeout
  <2> QED
    <3>1. /\ eventfd' = FALSE /\ late' \in 0..MaxDelay /\ pass' = 2
          /\ dpc' = "drain"
          /\ UNCHANGED <<pc, left, timerVars, inbox, heap, due, entry, next>>
      BY <1>17, SMT DEF EpollReturns, Goto
    <3> QED
      BY <2>1, <3>1 DEF TypeOK
<1>18. CASE Tick
  <2>1. budget' \in 0..Greater(IdleTimeout, MaxDelay)
    BY <1>18, SMT DEF Tick, Greater, IdleTimeout, TypeOK
  <2> QED
    BY <1>18, <2>1, SMTT(60) DEF Tick, TypeOK
<1>19. CASE UNCHANGED vars
  BY <1>19 DEF vars, TypeOK
<1> QED
  BY <1>1, <1>2, <1>3, <1>4, <1>5, <1>6, <1>7, <1>8, <1>9, <1>10, <1>11,
     <1>12, <1>13, <1>14, <1>15, <1>16, <1>17, <1>18, <1>19
  DEF Next, PollStep, DriverStep, EpollMustReturn

(* Where a task is in its poll agrees with what the scheduler does with    *)
(* it.                                                                     *)
LEMMA PlacesStep ==
  TypeOK /\ Places /\ Firing /\ InWheel /\ [Next]_vars => Places'
<1> SUFFICES ASSUME TypeOK, Places, Firing, InWheel, [Next]_vars
             PROVE Places'
  OBVIOUS
<1> USE ConstAssumption DEF schedVars, timerVars, driverVars
<1>1. ASSUME NEW s \in Sleeper, SpawnSleeper(s) \/ BeginPoll(s)
      PROVE Places'
  BY <1>1, SMT DEF SpawnSleeper, BeginPoll, Sched!Spawn, Sched!BeginPoll,
     TypeOK, Places
<1>2. ASSUME NEW s \in Sleeper, OtherWake(s)
      PROVE Places'
  BY <1>2, SMT DEF OtherWake, WakeTask, Sched!Wake, TypeOK, Places
<1>3. ASSUME NEW s \in Sleeper, NEW d \in 0..MaxDelay, Register(s, d)
      PROVE Places'
  BY <1>3 DEF Register, At, TypeOK, Places
<1>4. ASSUME NEW s \in Sleeper, SleepPoke(s) \/ PollLoad(s)
      PROVE Places'
  BY <1>4, SMT DEF SleepPoke, PollLoad, At, TypeOK, Places
<1>5. ASSUME NEW s \in Sleeper, RegisterClaim(s)
      PROVE Places'
  BY <1>5 DEF RegisterClaim, Claimable, At, TypeOK, Places
<1>6. ASSUME NEW s \in Sleeper, RegisterStore(s)
      PROVE Places'
  BY <1>6 DEF RegisterStore, At, TypeOK, Places
<1>7. ASSUME NEW s \in Sleeper, PollPending(s)
      PROVE Places'
  BY <1>7 DEF PollPending, Sched!PollPending, At, TypeOK, Places
<1>8. ASSUME NEW s \in Sleeper, PollReady(s) \/ DropSleep(s)
      PROVE Places'
  BY <1>8, SMT DEF PollReady, DropSleep, Sched!PollDone, At, TypeOK, Places
<1>9. CASE BeginDrive
  BY <1>9 DEF BeginDrive, Goto, TypeOK, Places
<1>10. CASE DrainInbox
  BY <1>10 DEF DrainInbox, Goto, TypeOK, Places
<1>11. CASE ReadClock
  BY <1>11 DEF ReadClock, Expired, Goto, TypeOK, Places
<1>12. ASSUME NEW s \in Sleeper, Fire(s)
      PROVE Places'
  BY <1>12 DEF Fire, Pop, Goto, TypeOK, Places, InWheel
<1>13. CASE WakeClaim
  BY <1>13 DEF WakeClaim, Claimable, Goto, TypeOK, Places
<1>14. CASE WakeTake
  BY <1>14 DEF WakeTake, Goto, TypeOK, Places
<1>15. CASE WakeCall
  BY <1>15, SMT DEF WakeCall, WakeTask, Sched!Wake, Goto, TypeOK, Firing,
     Places
<1>16. CASE ProcessReturns
  BY <1>16 DEF ProcessReturns, Goto, TypeOK, Places
<1>17. CASE EpollReturns
  BY <1>17 DEF EpollReturns, Goto, TypeOK, Places
<1>18. CASE Tick
  BY <1>18 DEF Tick, TypeOK, Places
<1>19. CASE UNCHANGED vars
  BY <1>19 DEF vars, TypeOK, Places
<1> QED
  BY <1>1, <1>2, <1>3, <1>4, <1>5, <1>6, <1>7, <1>8, <1>9, <1>10, <1>11,
     <1>12, <1>13, <1>14, <1>15, <1>16, <1>17, <1>18, <1>19
  DEF Next, PollStep, DriverStep, EpollMustReturn

(* The driver fires one entry at a time, and only what is due.             *)
LEMMA FiringStep ==
  TypeOK /\ Places /\ Firing /\ InWheel /\ [Next]_vars => Firing'
<1> SUFFICES ASSUME TypeOK, Places, Firing, InWheel, [Next]_vars
             PROVE Firing'
  OBVIOUS
<1> USE ConstAssumption DEF schedVars, timerVars, driverVars
<1>1. ASSUME NEW s \in Sleeper, SpawnSleeper(s) \/ BeginPoll(s)
      PROVE Firing'
  BY <1>1 DEF SpawnSleeper, BeginPoll, Sched!Spawn, Sched!BeginPoll, TypeOK,
     Firing
<1>2. ASSUME NEW s \in Sleeper, OtherWake(s)
      PROVE Firing'
  BY <1>2 DEF OtherWake, WakeTask, Sched!Wake, TypeOK, Firing
<1>3. ASSUME NEW s \in Sleeper, NEW d \in 0..MaxDelay, Register(s, d)
      PROVE Firing'
  BY <1>3 DEF Register, At, TypeOK, Firing, InWheel, Places
<1>4. ASSUME NEW s \in Sleeper, SleepPoke(s) \/ PollLoad(s)
      PROVE Firing'
  BY <1>4 DEF SleepPoke, PollLoad, At, TypeOK, Firing
<1>5. ASSUME NEW s \in Sleeper, RegisterClaim(s)
      PROVE Firing'
  BY <1>5 DEF RegisterClaim, Claimable, At, TypeOK, Firing
<1>6. ASSUME NEW s \in Sleeper, RegisterStore(s)
      PROVE Firing'
  BY <1>6 DEF RegisterStore, At, TypeOK, Firing
<1>7. ASSUME NEW s \in Sleeper, PollPending(s)
      PROVE Firing'
  BY <1>7 DEF PollPending, Sched!PollPending, At, TypeOK, Firing
<1>8. ASSUME NEW s \in Sleeper, PollReady(s) \/ DropSleep(s)
      PROVE Firing'
  BY <1>8 DEF PollReady, DropSleep, Sched!PollDone, At, TypeOK, Firing
<1>9. CASE BeginDrive
  BY <1>9 DEF BeginDrive, Goto, TypeOK, Firing
<1>10. CASE DrainInbox
  BY <1>10 DEF DrainInbox, Goto, TypeOK, Firing
<1>11. CASE ReadClock
  BY <1>11 DEF ReadClock, Expired, Goto, TypeOK, Firing
<1>12. ASSUME NEW s \in Sleeper, Fire(s)
      PROVE Firing'
  BY <1>12 DEF Fire, Pop, Goto, TypeOK, Firing
<1>13. CASE WakeClaim
  BY <1>13 DEF WakeClaim, Claimable, Goto, TypeOK, Firing
<1>14. CASE WakeTake
  BY <1>14 DEF WakeTake, Goto, TypeOK, Firing
<1>15. CASE WakeCall
  BY <1>15 DEF WakeCall, WakeTask, Sched!Wake, Goto, TypeOK, Firing
<1>16. CASE ProcessReturns
  BY <1>16 DEF ProcessReturns, Goto, TypeOK, Firing
<1>17. CASE EpollReturns
  BY <1>17 DEF EpollReturns, Goto, TypeOK, Firing
<1>18. CASE Tick
  BY <1>18 DEF Tick, TypeOK, Firing
<1>19. CASE UNCHANGED vars
  BY <1>19 DEF vars, TypeOK, Firing
<1> QED
  BY <1>1, <1>2, <1>3, <1>4, <1>5, <1>6, <1>7, <1>8, <1>9, <1>10, <1>11,
     <1>12, <1>13, <1>14, <1>15, <1>16, <1>17, <1>18, <1>19
  DEF Next, PollStep, DriverStep, EpollMustReturn

(* Register and wake exclude each other from an AtomicWaker: both claim it *)
(* by moving it to WAKING, and only from another state.                    *)
LEMMA CellStep ==
  TypeOK /\ Places /\ Firing /\ CellExclusive /\ [Next]_vars => CellExclusive'
<1> SUFFICES ASSUME TypeOK, Places, Firing, CellExclusive, [Next]_vars
             PROVE CellExclusive'
  OBVIOUS
<1> USE ConstAssumption DEF schedVars, timerVars, driverVars
<1>1. ASSUME NEW s \in Sleeper, SpawnSleeper(s) \/ BeginPoll(s)
      PROVE CellExclusive'
  BY <1>1, SMT DEF SpawnSleeper, BeginPoll, Sched!Spawn, Sched!BeginPoll,
     TypeOK, Firing, Places, CellExclusive, EMPTY, STORED, WAKING
<1>2. ASSUME NEW s \in Sleeper, OtherWake(s)
      PROVE CellExclusive'
  BY <1>2 DEF OtherWake, WakeTask, Sched!Wake, TypeOK, Firing, Places,
     CellExclusive, EMPTY, STORED, WAKING
<1>3. ASSUME NEW s \in Sleeper, NEW d \in 0..MaxDelay, Register(s, d)
      PROVE CellExclusive'
  BY <1>3, SMTT(60) DEF Register, At, TypeOK, Firing, Places, CellExclusive,
     EMPTY, STORED, WAKING
<1>4. ASSUME NEW s \in Sleeper, SleepPoke(s) \/ PollLoad(s)
      PROVE CellExclusive'
  BY <1>4, SMTT(60) DEF SleepPoke, PollLoad, At, TypeOK, Firing, Places,
     CellExclusive, EMPTY, STORED, WAKING
<1>5. ASSUME NEW s \in Sleeper, RegisterClaim(s)
      PROVE CellExclusive'
  BY <1>5, SMTT(60) DEF RegisterClaim, Claimable, At, TypeOK, Firing, Places,
     CellExclusive, EMPTY, STORED, WAKING
<1>6. ASSUME NEW s \in Sleeper, RegisterStore(s)
      PROVE CellExclusive'
  BY <1>6, SMTT(60) DEF RegisterStore, At, TypeOK, Firing, Places,
     CellExclusive, EMPTY, STORED, WAKING
<1>7. ASSUME NEW s \in Sleeper, PollPending(s)
      PROVE CellExclusive'
  BY <1>7, SMTT(60) DEF PollPending, Sched!PollPending, At, TypeOK, Firing,
     Places, CellExclusive, EMPTY, STORED, WAKING
<1>8. ASSUME NEW s \in Sleeper, PollReady(s) \/ DropSleep(s)
      PROVE CellExclusive'
  BY <1>8, SMT DEF PollReady, DropSleep, Sched!PollDone, At, TypeOK, Firing,
     Places, CellExclusive, EMPTY, STORED, WAKING
<1>9. CASE BeginDrive
  BY <1>9 DEF BeginDrive, Goto, TypeOK, Firing, Places, CellExclusive, EMPTY,
     STORED, WAKING
<1>10. CASE DrainInbox
  BY <1>10 DEF DrainInbox, Goto, TypeOK, Firing, Places, CellExclusive, EMPTY,
     STORED, WAKING
<1>11. CASE ReadClock
  BY <1>11 DEF ReadClock, Expired, Goto, TypeOK, Firing, Places,
     CellExclusive, EMPTY, STORED, WAKING
<1>12. ASSUME NEW s \in Sleeper, Fire(s)
      PROVE CellExclusive'
  BY <1>12 DEF Fire, Pop, Goto, TypeOK, Firing, Places, CellExclusive, EMPTY,
     STORED, WAKING
<1>13. CASE WakeClaim
  BY <1>13, SMTT(60) DEF WakeClaim, Claimable, Goto, TypeOK, Firing, Places,
     CellExclusive, EMPTY, STORED, WAKING
<1>14. CASE WakeTake
  BY <1>14, SMT DEF WakeTake, Goto, TypeOK, Firing, Places, CellExclusive,
     EMPTY, STORED, WAKING
<1>15. CASE WakeCall
  BY <1>15 DEF WakeCall, WakeTask, Sched!Wake, Goto, TypeOK, Firing, Places,
     CellExclusive, EMPTY, STORED, WAKING
<1>16. CASE ProcessReturns
  BY <1>16 DEF ProcessReturns, Goto, TypeOK, Firing, Places, CellExclusive,
     EMPTY, STORED, WAKING
<1>17. CASE EpollReturns
  BY <1>17 DEF EpollReturns, Goto, TypeOK, Firing, Places, CellExclusive,
     EMPTY, STORED, WAKING
<1>18. CASE Tick
  BY <1>18 DEF Tick, TypeOK, Firing, Places, CellExclusive, EMPTY, STORED,
     WAKING
<1>19. CASE UNCHANGED vars
  BY <1>19 DEF vars, TypeOK, Firing, Places, CellExclusive, EMPTY, STORED,
     WAKING
<1> QED
  BY <1>1, <1>2, <1>3, <1>4, <1>5, <1>6, <1>7, <1>8, <1>9, <1>10, <1>11,
     <1>12, <1>13, <1>14, <1>15, <1>16, <1>17, <1>18, <1>19
  DEF Next, PollStep, DriverStep, EpollMustReturn

(* An entry moves from the inbox to the heap and leaves it when it         *)
(* completes.                                                              *)
LEMMA WheelStep ==
  TypeOK /\ Places /\ Firing /\ InWheel /\ [Next]_vars => InWheel'
<1> SUFFICES ASSUME TypeOK, Places, Firing, InWheel, [Next]_vars
             PROVE InWheel'
  OBVIOUS
<1> USE ConstAssumption DEF schedVars, timerVars, driverVars
<1>1. ASSUME NEW s \in Sleeper, SpawnSleeper(s) \/ BeginPoll(s)
      PROVE InWheel'
  BY <1>1 DEF SpawnSleeper, BeginPoll, Sched!Spawn, Sched!BeginPoll, TypeOK,
     InWheel
<1>2. ASSUME NEW s \in Sleeper, OtherWake(s)
      PROVE InWheel'
  BY <1>2 DEF OtherWake, WakeTask, Sched!Wake, TypeOK, InWheel
<1>3. ASSUME NEW s \in Sleeper, NEW d \in 0..MaxDelay, Register(s, d)
      PROVE InWheel'
  BY <1>3 DEF Register, At, TypeOK, Places, InWheel
<1>4. ASSUME NEW s \in Sleeper, SleepPoke(s) \/ PollLoad(s)
      PROVE InWheel'
  BY <1>4, SMT DEF SleepPoke, PollLoad, At, TypeOK, InWheel
<1>5. ASSUME NEW s \in Sleeper, RegisterClaim(s)
      PROVE InWheel'
  BY <1>5 DEF RegisterClaim, Claimable, At, TypeOK, InWheel
<1>6. ASSUME NEW s \in Sleeper, RegisterStore(s)
      PROVE InWheel'
  BY <1>6 DEF RegisterStore, At, TypeOK, InWheel
<1>7. ASSUME NEW s \in Sleeper, PollPending(s)
      PROVE InWheel'
  BY <1>7 DEF PollPending, Sched!PollPending, At, TypeOK, InWheel
<1>8. ASSUME NEW s \in Sleeper, PollReady(s) \/ DropSleep(s)
      PROVE InWheel'
  BY <1>8, SMT DEF PollReady, DropSleep, Sched!PollDone, At, TypeOK, InWheel
<1>9. CASE BeginDrive
  BY <1>9 DEF BeginDrive, Goto, TypeOK, InWheel
<1>10. CASE DrainInbox
  BY <1>10 DEF DrainInbox, Goto, TypeOK, InWheel
<1>11. CASE ReadClock
  BY <1>11 DEF ReadClock, Expired, Goto, TypeOK, InWheel
<1>12. ASSUME NEW s \in Sleeper, Fire(s)
      PROVE InWheel'
  BY <1>12 DEF Fire, Pop, Goto, TypeOK, InWheel
<1>13. CASE WakeClaim
  BY <1>13 DEF WakeClaim, Claimable, Goto, TypeOK, InWheel
<1>14. CASE WakeTake
  BY <1>14 DEF WakeTake, Goto, TypeOK, InWheel
<1>15. CASE WakeCall
  BY <1>15 DEF WakeCall, WakeTask, Sched!Wake, Goto, TypeOK, InWheel
<1>16. CASE ProcessReturns
  BY <1>16 DEF ProcessReturns, Goto, TypeOK, InWheel
<1>17. CASE EpollReturns
  BY <1>17 DEF EpollReturns, Goto, TypeOK, InWheel
<1>18. CASE Tick
  BY <1>18 DEF Tick, TypeOK, InWheel
<1>19. CASE UNCHANGED vars
  BY <1>19 DEF vars, TypeOK, InWheel
<1> QED
  BY <1>1, <1>2, <1>3, <1>4, <1>5, <1>6, <1>7, <1>8, <1>9, <1>10, <1>11,
     <1>12, <1>13, <1>14, <1>15, <1>16, <1>17, <1>18, <1>19
  DEF Next, PollStep, DriverStep, EpollMustReturn

(* The race of Sleep::poll with the driver.  The second load of completed  *)
(* comes after the waker is in the cell: when it finds the timer pending,  *)
(* the driver has still to look at the cell.                               *)
LEMMA WakerStep ==
  TypeOK /\ Places /\ Firing /\ CellExclusive /\ InWheel /\ WakerKept /\
    [Next]_vars => WakerKept'
<1> SUFFICES ASSUME TypeOK, Places, Firing, CellExclusive, InWheel, WakerKept,
                     [Next]_vars
             PROVE WakerKept'
  OBVIOUS
<1> USE ConstAssumption DEF schedVars, timerVars, driverVars
<1>1. ASSUME NEW s \in Sleeper, SpawnSleeper(s) \/ BeginPoll(s)
      PROVE WakerKept'
  BY <1>1, SMTT(60) DEF SpawnSleeper, BeginPoll, Sched!Spawn, Sched!BeginPoll,
     TypeOK, Firing, Places, CellExclusive, InWheel, WakerKept, Waits, EMPTY,
     STORED, WAKING
<1>2. ASSUME NEW s \in Sleeper, OtherWake(s)
      PROVE WakerKept'
  BY <1>2, SMTT(60) DEF OtherWake, WakeTask, Sched!Wake, TypeOK, Firing,
     Places, CellExclusive, InWheel, WakerKept, Waits, EMPTY, STORED, WAKING
<1>3. ASSUME NEW s \in Sleeper, NEW d \in 0..MaxDelay, Register(s, d)
      PROVE WakerKept'
  BY <1>3, SMTT(60) DEF Register, At, TypeOK, Firing, Places, CellExclusive,
     InWheel, WakerKept, Waits, EMPTY, STORED, WAKING
<1>4. ASSUME NEW s \in Sleeper, SleepPoke(s) \/ PollLoad(s)
      PROVE WakerKept'
  BY <1>4, SMTT(60) DEF SleepPoke, PollLoad, At, TypeOK, Firing, Places,
     CellExclusive, InWheel, WakerKept, Waits, EMPTY, STORED, WAKING
<1>5. ASSUME NEW s \in Sleeper, RegisterClaim(s)
      PROVE WakerKept'
  BY <1>5, SMTT(60) DEF RegisterClaim, Claimable, At, TypeOK, Firing, Places,
     CellExclusive, InWheel, WakerKept, Waits, EMPTY, STORED, WAKING
<1>6. ASSUME NEW s \in Sleeper, RegisterStore(s)
      PROVE WakerKept'
  BY <1>6, SMTT(60) DEF RegisterStore, At, TypeOK, Firing, Places,
     CellExclusive, InWheel, WakerKept, Waits, EMPTY, STORED, WAKING
<1>7. ASSUME NEW s \in Sleeper, PollPending(s)
      PROVE WakerKept'
  BY <1>7, SMTT(60) DEF PollPending, Sched!PollPending, At, TypeOK, Firing,
     Places, CellExclusive, InWheel, WakerKept, Waits, EMPTY, STORED, WAKING
<1>8. ASSUME NEW s \in Sleeper, PollReady(s) \/ DropSleep(s)
      PROVE WakerKept'
  BY <1>8, SMT DEF PollReady, DropSleep, Sched!PollDone, At, TypeOK, Firing,
     Places, CellExclusive, InWheel, WakerKept, Waits, EMPTY, STORED, WAKING
<1>9. CASE BeginDrive
  BY <1>9 DEF BeginDrive, Goto, TypeOK, Firing, Places, CellExclusive,
     InWheel, WakerKept, Waits, EMPTY, STORED, WAKING
<1>10. CASE DrainInbox
  BY <1>10 DEF DrainInbox, Goto, TypeOK, Firing, Places, CellExclusive,
     InWheel, WakerKept, Waits, EMPTY, STORED, WAKING
<1>11. CASE ReadClock
  BY <1>11 DEF ReadClock, Expired, Goto, TypeOK, Firing, Places,
     CellExclusive, InWheel, WakerKept, Waits, EMPTY, STORED, WAKING
<1>12. ASSUME NEW s \in Sleeper, Fire(s)
      PROVE WakerKept'
  BY <1>12, SMTT(60) DEF Fire, Pop, Goto, TypeOK, Firing, Places,
     CellExclusive, InWheel, WakerKept, Waits, EMPTY, STORED, WAKING
<1>13. CASE WakeClaim
  BY <1>13, SMTT(60) DEF WakeClaim, Claimable, Goto, TypeOK, Firing, Places,
     CellExclusive, InWheel, WakerKept, Waits, EMPTY, STORED, WAKING
<1>14. CASE WakeTake
  BY <1>14, SMTT(60) DEF WakeTake, Goto, TypeOK, Firing, Places,
     CellExclusive, InWheel, WakerKept, Waits, EMPTY, STORED, WAKING
<1>15. CASE WakeCall
  BY <1>15, SMT DEF WakeCall, WakeTask, Sched!Wake, Goto, TypeOK, Firing,
     Places, CellExclusive, InWheel, WakerKept, Waits, EMPTY, STORED, WAKING
<1>16. CASE ProcessReturns
  BY <1>16 DEF ProcessReturns, Goto, TypeOK, Firing, Places, CellExclusive,
     InWheel, WakerKept, Waits, EMPTY, STORED, WAKING
<1>17. CASE EpollReturns
  BY <1>17 DEF EpollReturns, Goto, TypeOK, Firing, Places, CellExclusive,
     InWheel, WakerKept, Waits, EMPTY, STORED, WAKING
<1>18. CASE Tick
  BY <1>18 DEF Tick, TypeOK, Firing, Places, CellExclusive, InWheel,
     WakerKept, Waits, EMPTY, STORED, WAKING
<1>19. CASE UNCHANGED vars
  BY <1>19 DEF vars, TypeOK, Firing, Places, CellExclusive, InWheel,
     WakerKept, Waits, EMPTY, STORED, WAKING
<1> QED
  BY <1>1, <1>2, <1>3, <1>4, <1>5, <1>6, <1>7, <1>8, <1>9, <1>10, <1>11,
     <1>12, <1>13, <1>14, <1>15, <1>16, <1>17, <1>18, <1>19
  DEF Next, PollStep, DriverStep, EpollMustReturn

(* What has completed was due, and a deadline that has passed stays so.    *)
LEMMA EarlyStep ==
  TypeOK /\ Places /\ Firing /\ NeverEarly /\ [Next]_vars => NeverEarly'
<1> SUFFICES ASSUME TypeOK, Places, Firing, NeverEarly, [Next]_vars
             PROVE NeverEarly'
  OBVIOUS
<1> USE ConstAssumption DEF schedVars, timerVars, driverVars
<1>1. ASSUME NEW s \in Sleeper, SpawnSleeper(s) \/ BeginPoll(s)
      PROVE NeverEarly'
  BY <1>1 DEF SpawnSleeper, BeginPoll, Sched!Spawn, Sched!BeginPoll, TypeOK,
     Firing, Places, NeverEarly
<1>2. ASSUME NEW s \in Sleeper, OtherWake(s)
      PROVE NeverEarly'
  BY <1>2 DEF OtherWake, WakeTask, Sched!Wake, TypeOK, Firing, Places,
     NeverEarly
<1>3. ASSUME NEW s \in Sleeper, NEW d \in 0..MaxDelay, Register(s, d)
      PROVE NeverEarly'
  BY <1>3 DEF Register, At, TypeOK, Firing, Places, NeverEarly
<1>4. ASSUME NEW s \in Sleeper, SleepPoke(s) \/ PollLoad(s)
      PROVE NeverEarly'
  BY <1>4, SMT DEF SleepPoke, PollLoad, At, TypeOK, Firing, Places, NeverEarly
<1>5. ASSUME NEW s \in Sleeper, RegisterClaim(s)
      PROVE NeverEarly'
  BY <1>5 DEF RegisterClaim, Claimable, At, TypeOK, Firing, Places, NeverEarly
<1>6. ASSUME NEW s \in Sleeper, RegisterStore(s)
      PROVE NeverEarly'
  BY <1>6 DEF RegisterStore, At, TypeOK, Firing, Places, NeverEarly
<1>7. ASSUME NEW s \in Sleeper, PollPending(s)
      PROVE NeverEarly'
  BY <1>7 DEF PollPending, Sched!PollPending, At, TypeOK, Firing, Places,
     NeverEarly
<1>8. ASSUME NEW s \in Sleeper, PollReady(s) \/ DropSleep(s)
      PROVE NeverEarly'
  BY <1>8, SMT DEF PollReady, DropSleep, Sched!PollDone, At, TypeOK, Firing,
     Places, NeverEarly
<1>9. CASE BeginDrive
  BY <1>9 DEF BeginDrive, Goto, TypeOK, Firing, Places, NeverEarly
<1>10. CASE DrainInbox
  BY <1>10 DEF DrainInbox, Goto, TypeOK, Firing, Places, NeverEarly
<1>11. CASE ReadClock
  BY <1>11 DEF ReadClock, Expired, Goto, TypeOK, Firing, Places, NeverEarly
<1>12. ASSUME NEW s \in Sleeper, Fire(s)
      PROVE NeverEarly'
  BY <1>12 DEF Fire, Pop, Goto, TypeOK, Firing, Places, NeverEarly
<1>13. CASE WakeClaim
  BY <1>13 DEF WakeClaim, Claimable, Goto, TypeOK, Firing, Places, NeverEarly
<1>14. CASE WakeTake
  BY <1>14 DEF WakeTake, Goto, TypeOK, Firing, Places, NeverEarly
<1>15. CASE WakeCall
  BY <1>15 DEF WakeCall, WakeTask, Sched!Wake, Goto, TypeOK, Firing, Places,
     NeverEarly
<1>16. CASE ProcessReturns
  BY <1>16 DEF ProcessReturns, Goto, TypeOK, Firing, Places, NeverEarly
<1>17. CASE EpollReturns
  BY <1>17 DEF EpollReturns, Goto, TypeOK, Firing, Places, NeverEarly
<1>18. CASE Tick
  BY <1>18 DEF Tick, TypeOK, Firing, Places, NeverEarly
<1>19. CASE UNCHANGED vars
  BY <1>19 DEF vars, TypeOK, Firing, Places, NeverEarly
<1> QED
  BY <1>1, <1>2, <1>3, <1>4, <1>5, <1>6, <1>7, <1>8, <1>9, <1>10, <1>11,
     <1>12, <1>13, <1>14, <1>15, <1>16, <1>17, <1>18, <1>19
  DEF Next, PollStep, DriverStep, EpollMustReturn

(* Time that passes after process has read the clock is in late; entries   *)
(* that reach the inbox after it was drained come with a poke.             *)
LEMMA NextStep ==
  TypeOK /\ Places /\ Firing /\ InWheel /\ NextDue /\ [Next]_vars => NextDue'
<1> SUFFICES ASSUME TypeOK, Places, Firing, InWheel, NextDue, [Next]_vars
             PROVE NextDue'
  OBVIOUS
<1> USE ConstAssumption DEF schedVars, timerVars, driverVars
<1>1. ASSUME NEW s \in Sleeper, SpawnSleeper(s) \/ BeginPoll(s)
      PROVE NextDue'
  BY <1>1, SMT DEF SpawnSleeper, BeginPoll, Sched!Spawn, Sched!BeginPoll,
     TypeOK, NextDue, InProcess
<1>2. ASSUME NEW s \in Sleeper, OtherWake(s)
      PROVE NextDue'
  BY <1>2 DEF OtherWake, WakeTask, Sched!Wake, TypeOK, NextDue, InProcess
<1>3. ASSUME NEW s \in Sleeper, NEW d \in 0..MaxDelay, Register(s, d)
      PROVE NextDue'
  BY <1>3, SMTT(60) DEF Register, At, TypeOK, Places, InWheel, NextDue,
     InProcess
<1>4. ASSUME NEW s \in Sleeper, SleepPoke(s) \/ PollLoad(s)
      PROVE NextDue'
  BY <1>4, SMT DEF SleepPoke, PollLoad, At, TypeOK, NextDue, InProcess
<1>5. ASSUME NEW s \in Sleeper, RegisterClaim(s)
      PROVE NextDue'
  BY <1>5 DEF RegisterClaim, Claimable, At, TypeOK, NextDue, InProcess
<1>6. ASSUME NEW s \in Sleeper, RegisterStore(s)
      PROVE NextDue'
  BY <1>6 DEF RegisterStore, At, TypeOK, NextDue, InProcess
<1>7. ASSUME NEW s \in Sleeper, PollPending(s)
      PROVE NextDue'
  BY <1>7 DEF PollPending, Sched!PollPending, At, TypeOK, NextDue, InProcess
<1>8. ASSUME NEW s \in Sleeper, PollReady(s) \/ DropSleep(s)
      PROVE NextDue'
  BY <1>8, SMT DEF PollReady, DropSleep, Sched!PollDone, At, TypeOK, NextDue,
     InProcess
<1>9. CASE BeginDrive
  BY <1>9 DEF BeginDrive, Goto, TypeOK, NextDue, InProcess
<1>10. CASE DrainInbox
  BY <1>10 DEF DrainInbox, Goto, TypeOK, NextDue, InProcess
<1>11. CASE ReadClock
  <2>1. CASE heap = Expired
    BY <1>11, <2>1 DEF ReadClock, Goto, NextDue, InProcess
  <2>2. CASE heap # Expired
    <3> DEFINE S == {left[s] : s \in heap \ Expired}
    <3>1. S \in SUBSET (1..MaxDelay) /\ S # {}
      BY <2>2, SMT DEF TypeOK, Expired
    <3>2. Least(S) \in S /\ \A y \in S : Least(S) <= y
      <4>1. S \in SUBSET Nat /\ S # {}
        BY <3>1, SMT
      <4> HIDE DEF S
      <4> QED
        BY <4>1, LeastIsLeast
    <3>3. next' = Least(S) /\ due' = Expired /\ late' = 0
      BY <1>11, <2>2 DEF ReadClock
    <3>4. \A s \in heap \ Expired : next' <= left[s] + 0
      BY <3>1, <3>2, <3>3, SMTT(60) DEF TypeOK
    <3>5. next' # 0
      BY <3>1, <3>2, <3>3, SMT
    <3> QED
      BY <1>11, <3>3, <3>4, <3>5 DEF ReadClock, Goto, NextDue, InProcess
  <2> QED
    BY <2>1, <2>2
<1>12. ASSUME NEW s \in Sleeper, Fire(s)
      PROVE NextDue'
  BY <1>12 DEF Fire, Pop, Goto, TypeOK, NextDue, InProcess
<1>13. CASE WakeClaim
  BY <1>13 DEF WakeClaim, Claimable, Goto, TypeOK, NextDue, InProcess
<1>14. CASE WakeTake
  BY <1>14 DEF WakeTake, Goto, TypeOK, NextDue, InProcess
<1>15. CASE WakeCall
  BY <1>15 DEF WakeCall, WakeTask, Sched!Wake, Goto, TypeOK, NextDue, InProcess
<1>16. CASE ProcessReturns
  BY <1>16 DEF ProcessReturns, Goto, TypeOK, NextDue, InProcess
<1>17. CASE EpollReturns
  BY <1>17 DEF EpollReturns, Goto, TypeOK, NextDue, InProcess
<1>18. CASE Tick
  BY <1>18, SMT DEF Tick, TypeOK, NextDue, InProcess
<1>19. CASE UNCHANGED vars
  BY <1>19 DEF vars, TypeOK, NextDue, InProcess
<1> QED
  BY <1>1, <1>2, <1>3, <1>4, <1>5, <1>6, <1>7, <1>8, <1>9, <1>10, <1>11,
     <1>12, <1>13, <1>14, <1>15, <1>16, <1>17, <1>18, <1>19
  DEF Next, PollStep, DriverStep, EpollMustReturn

(* So does epoll_wait end in time.                                         *)
LEMMA InTimeStep ==
  TypeOK /\ Places /\ Firing /\ NextDue /\ DriverWakesInTime /\ [Next]_vars =>
    DriverWakesInTime'
<1> SUFFICES ASSUME TypeOK, Places, Firing, NextDue, DriverWakesInTime,
                     [Next]_vars
             PROVE DriverWakesInTime'
  OBVIOUS
<1> USE ConstAssumption DEF schedVars, timerVars, driverVars
<1>1. ASSUME NEW s \in Sleeper, SpawnSleeper(s) \/ BeginPoll(s)
      PROVE DriverWakesInTime'
  BY <1>1, SMT DEF SpawnSleeper, BeginPoll, Sched!Spawn, Sched!BeginPoll,
     TypeOK, Firing, Places, NextDue, InProcess, DriverWakesInTime, Greater,
     IdleTimeout, PendingTimeout
<1>2. ASSUME NEW s \in Sleeper, OtherWake(s)
      PROVE DriverWakesInTime'
  BY <1>2 DEF OtherWake, WakeTask, Sched!Wake, TypeOK, Firing, Places,
     NextDue, InProcess, DriverWakesInTime, Greater, IdleTimeout,
     PendingTimeout
<1>3. ASSUME NEW s \in Sleeper, NEW d \in 0..MaxDelay, Register(s, d)
      PROVE DriverWakesInTime'
  BY <1>3, SMTT(60) DEF Register, At, TypeOK, Firing, Places, NextDue,
     InProcess, DriverWakesInTime, Greater, IdleTimeout, PendingTimeout
<1>4. ASSUME NEW s \in Sleeper, SleepPoke(s) \/ PollLoad(s)
      PROVE DriverWakesInTime'
  BY <1>4, SMT DEF SleepPoke, PollLoad, At, TypeOK, Firing, Places, NextDue,
     InProcess, DriverWakesInTime, Greater, IdleTimeout, PendingTimeout
<1>5. ASSUME NEW s \in Sleeper, RegisterClaim(s)
      PROVE DriverWakesInTime'
  BY <1>5 DEF RegisterClaim, Claimable, At, TypeOK, Firing, Places, NextDue,
     InProcess, DriverWakesInTime, Greater, IdleTimeout, PendingTimeout
<1>6. ASSUME NEW s \in Sleeper, RegisterStore(s)
      PROVE DriverWakesInTime'
  BY <1>6 DEF RegisterStore, At, TypeOK, Firing, Places, NextDue, InProcess,
     DriverWakesInTime, Greater, IdleTimeout, PendingTimeout
<1>7. ASSUME NEW s \in Sleeper, PollPending(s)
      PROVE DriverWakesInTime'
  BY <1>7 DEF PollPending, Sched!PollPending, At, TypeOK, Firing, Places,
     NextDue, InProcess, DriverWakesInTime, Greater, IdleTimeout,
     PendingTimeout
<1>8. ASSUME NEW s \in Sleeper, PollReady(s) \/ DropSleep(s)
      PROVE DriverWakesInTime'
  BY <1>8, SMT DEF PollReady, DropSleep, Sched!PollDone, At, TypeOK, Firing,
     Places, NextDue, InProcess, DriverWakesInTime, Greater, IdleTimeout,
     PendingTimeout
<1>9. CASE BeginDrive
  BY <1>9 DEF BeginDrive, Goto, TypeOK, Firing, Places, NextDue, InProcess,
     DriverWakesInTime, Greater, IdleTimeout, PendingTimeout
<1>10. CASE DrainInbox
  BY <1>10 DEF DrainInbox, Goto, TypeOK, Firing, Places, NextDue, InProcess,
     DriverWakesInTime, Greater, IdleTimeout, PendingTimeout
<1>11. CASE ReadClock
  BY <1>11 DEF ReadClock, Expired, Goto, TypeOK, Firing, Places, NextDue,
     InProcess, DriverWakesInTime, Greater, IdleTimeout, PendingTimeout
<1>12. ASSUME NEW s \in Sleeper, Fire(s)
      PROVE DriverWakesInTime'
  BY <1>12 DEF Fire, Pop, Goto, TypeOK, Firing, Places, NextDue, InProcess,
     DriverWakesInTime, Greater, IdleTimeout, PendingTimeout
<1>13. CASE WakeClaim
  BY <1>13 DEF WakeClaim, Claimable, Goto, TypeOK, Firing, Places, NextDue,
     InProcess, DriverWakesInTime, Greater, IdleTimeout, PendingTimeout
<1>14. CASE WakeTake
  BY <1>14 DEF WakeTake, Goto, TypeOK, Firing, Places, NextDue, InProcess,
     DriverWakesInTime, Greater, IdleTimeout, PendingTimeout
<1>15. CASE WakeCall
  BY <1>15 DEF WakeCall, WakeTask, Sched!Wake, Goto, TypeOK, Firing, Places,
     NextDue, InProcess, DriverWakesInTime, Greater, IdleTimeout,
     PendingTimeout
<1>16. CASE ProcessReturns
  BY <1>16, SMT DEF ProcessReturns, Goto, TypeOK, Firing, Places, NextDue,
     InProcess, DriverWakesInTime, Greater, IdleTimeout, PendingTimeout
<1>17. CASE EpollReturns
  BY <1>17 DEF EpollReturns, Goto, TypeOK, Firing, Places, NextDue, InProcess,
     DriverWakesInTime, Greater, IdleTimeout, PendingTimeout
<1>18. CASE Tick
  BY <1>18, SMT DEF Tick, TypeOK, Firing, Places, NextDue, InProcess,
     DriverWakesInTime, Greater, IdleTimeout, PendingTimeout
<1>19. CASE UNCHANGED vars
  BY <1>19 DEF vars, TypeOK, Firing, Places, NextDue, InProcess,
     DriverWakesInTime, Greater, IdleTimeout, PendingTimeout
<1> QED
  BY <1>1, <1>2, <1>3, <1>4, <1>5, <1>6, <1>7, <1>8, <1>9, <1>10, <1>11,
     <1>12, <1>13, <1>14, <1>15, <1>16, <1>17, <1>18, <1>19
  DEF Next, PollStep, DriverStep, EpollMustReturn

-----------------------------------------------------------------------------

(* Nobody empties a cell between the claim of wake and its take.           *)
LEMMA TakeStep ==
  TypeOK /\ Firing /\ CellExclusive /\ TakeFindsWaker /\ [Next]_vars
    => TakeFindsWaker'
<1> SUFFICES ASSUME TypeOK, Firing, CellExclusive, TakeFindsWaker, [Next]_vars,
                    dpc' = "take"
             PROVE stored'[entry']
  BY DEF TakeFindsWaker
<1> USE DEF schedVars, timerVars, driverVars
<1>0. ASSUME dpc = "take", entry' = entry, stored' = stored
      PROVE stored'[entry']
  BY <1>0 DEF TakeFindsWaker
<1>1. ASSUME NEW s \in Sleeper,
             \/ SpawnSleeper(s) \/ BeginPoll(s) \/ OtherWake(s) \/ SleepPoke(s)
             \/ PollLoad(s) \/ RegisterClaim(s)
             \/ PollPending(s) \/ PollReady(s) \/ DropSleep(s)
             \/ \E d \in 0..MaxDelay : Register(s, d)
      PROVE stored'[entry']
  BY <1>0, <1>1 DEF SpawnSleeper, BeginPoll, OtherWake, SleepPoke, PollLoad,
     RegisterClaim, PollPending, PollReady, DropSleep, Register
<1>2. ASSUME NEW s \in Sleeper, RegisterStore(s) PROVE stored'[entry']
  <2>1. entry' = entry /\ entry \in Sleeper /\ stored[entry]
    BY <1>2, ConstAssumption DEF RegisterStore, Firing, TypeOK, TakeFindsWaker
  <2> QED
    BY <1>2, <2>1 DEF RegisterStore, TypeOK
<1>3. CASE WakeClaim
  <2>1. /\ entry' = entry /\ stored' = stored /\ entry \in Sleeper
        /\ cell[entry] # EMPTY /\ cell[entry] # WAKING
    BY <1>3 DEF WakeClaim, Claimable, Goto, Firing, TypeOK
  <2> QED
    BY <2>1 DEF CellExclusive, TypeOK
<1>4. ASSUME \/ BeginDrive \/ DrainInbox \/ ReadClock \/ WakeTake \/ WakeCall
             \/ ProcessReturns \/ EpollReturns \/ \E s \in Sleeper : Fire(s)
      PROVE FALSE
  BY <1>4 DEF BeginDrive, DrainInbox, ReadClock, WakeTake, WakeCall,
     ProcessReturns, EpollReturns, Fire, Goto
<1>5. CASE Tick \/ UNCHANGED vars
  BY <1>0, <1>5 DEF Tick, vars
<1> QED
  BY <1>1, <1>2, <1>3, <1>4, <1>5
  DEF Next, PollStep, DriverStep, EpollMustReturn

(* IInv holds in every reachable state.                                    *)
THEOREM Invariance == Spec => []IInv
<1>1. IInv /\ [Next]_vars => IInv'
  BY TypeStep, PlacesStep, FiringStep, CellStep, WheelStep, WakerStep,
     EarlyStep, NextStep, InTimeStep, TakeStep DEF IInv
<1> QED
  BY InitHolds, <1>1, PTL DEF Spec

(* Type correctness, for the timers of the multi-threaded runtime.         *)
THEOREM TypeCorrect == Spec => []TypeOK
<1>1. IInv => TypeOK
  BY DEF IInv
<1> QED
  BY Invariance, <1>1, PTL

(* No Sleep resolves before its deadline: process completes only entries   *)
(* whose deadline its one reading of the clock has passed.                 *)
THEOREM NoSleepIsEarly == Spec => []NeverEarly
<1>1. IInv => NeverEarly
  BY DEF IInv
<1> QED
  BY Invariance, <1>1, PTL

(* The SAFETY comments of AtomicWaker, in register and in wake: the thread *)
(* that has set WAKING is alone in the cell.                               *)
THEOREM CellsAreExclusive == Spec => []CellExclusive
<1>1. IInv => CellExclusive
  BY DEF IInv
<1> QED
  BY Invariance, <1>1, PTL

(* A task whose Sleep has returned Pending is woken once the timer fires,  *)
(* however Sleep::poll and AtomicWaker::wake interleave.                   *)
THEOREM NoWakeIsMissed == Spec => []NoMissedWake
<1>1. IInv => NoMissedWake
  BY DEF IInv, WakerKept, Waits, NoMissedWake
<1> QED
  BY Invariance, <1>1, PTL

(* TimerWheel loses no timer and fires none twice: one that is pending is  *)
(* in the inbox or in the heap, and in one of them only.                   *)
THEOREM WheelIsExact == Spec => []InWheel
<1>1. IInv => InWheel
  BY DEF IInv
<1> QED
  BY Invariance, <1>1, PTL

(* drive_io does not stay in epoll_wait beyond a deadline it could know    *)
(* of: the poke of sleep makes up for timers registered after process.     *)
THEOREM DriverIsInTime == Spec => []DriverWakesInTime
<1>1. IInv => DriverWakesInTime
  BY DEF IInv
<1> QED
  BY Invariance, <1>1, PTL

(* Each timer is completed and its waker called once, in whichever of the  *)
(* two calls of process in drive_io, on whichever worker.                  *)
THEOREM TimersFireOnce == Spec => FiresOnce
<1>1. IInv /\ [Next]_vars =>
        \A s \in Sleeper : Fire(s) => ~completed[s] /\ pc[s] # "ready"
  <2> SUFFICES ASSUME IInv, NEW s \in Sleeper, Fire(s)
               PROVE ~completed[s] /\ pc[s] # "ready"
    OBVIOUS
  <2>1. s \in heap
    BY DEF Fire, IInv, TypeOK
  <2> QED
    BY <2>1 DEF IInv, InWheel, Places
<1> QED
  BY Invariance, <1>1, PTL DEF Spec, FiresOnce

(* AtomicWaker::wake never claims a cell in vain.                          *)
THEOREM TakeNeverMisses == Spec => []TakeFindsWaker
<1>1. IInv => TakeFindsWaker
  BY DEF IInv
<1> QED
  BY Invariance, <1>1, PTL

(* drive_io takes its short timeout only for timers registered after the   *)
(* inbox was drained, whose poke is there or on its way.                   *)
THEOREM ShortTimeoutIsRight == Spec => []ShortTimeoutFits
<1>1. IInv => ShortTimeoutFits
  BY DEF IInv, NextDue, InProcess, ShortTimeoutFits
<1> QED
  BY Invariance, <1>1, PTL

=============================================================================
