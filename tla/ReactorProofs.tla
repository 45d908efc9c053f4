--------------------------- MODULE ReactorProofs ----------------------------
(***************************************************************************)
(* Proofs about Reactor, for any tasks, any descriptors and any length of  *)
(* the array of events.                                                    *)
(***************************************************************************)
EXTENDS Reactor, TLAPS

(* Where a task may be in its poll, and what it then awaits.  A future     *)
(* borrows its socket, so the socket is open; one that is being dropped is *)
(* borrowed by nobody, and its entry is gone.                              *)
Places ==
  \A t \in Task :
    /\ pc[t] # "run" => t \in polling
    /\ pc[t] \in {"register", "pending"} => awaits[t][2] \in Op
    /\ pc[t] \in {"delete", "close"} <=> awaits[t][2] = "drop"
    /\ awaits[t] # NoOp => Open(awaits[t][1]) /\ t \notin finished
    /\ awaits[t][2] = "drop" =>
         /\ awaits[t][1] \notin regs
         /\ \A u \in Task : awaits[u] # NoOp /\ awaits[u][1] = awaits[t][1]
                              => u = t

(* Without sharing, whoever awaits a socket owns it.                       *)
Owned ==
  ~Shared => \A t \in Task : awaits[t] # NoOp => owner[awaits[t][1]] = t

(* A task that has registered its waker and not been woken since.          *)
Known ==
  ~Shared => \A t \in Task :
    /\ awaits[t][2] \in Op
    /\ pc[t] = "pending" \/ t \notin polling
    /\ t \notin owed
    => waker[awaits[t][1]][Side(awaits[t][2])] = t \/ t \in wakers

(* A finished task is not spawned again; the driver has events only from   *)
(* epoll_wait to Collect, and wakers only after that.                      *)
Quiet ==
  /\ fresh \cap finished = {}
  /\ dpc # "collect" => events = {}
  /\ dpc # "wake" => wakers = {}

(* A socket on its way to EPOLL_CTL_DEL is in the kernel's list.           *)
Leaving == \A t \in Task : pc[t] = "delete" => awaits[t][1] \in inlist

(* Without sharing, the wakers of a socket are its owner's.                *)
OwnWakers ==
  ~Shared => \A f \in Fd : \A d \in Interest(waker[f]) : waker[f][d] = owner[f]

IInv ==
  /\ TypeOK /\ Quiet /\ Places /\ Owned
  /\ MapMatchesKernel /\ NoSideStranded /\ Known /\ Leaving /\ OwnWakers

-----------------------------------------------------------------------------
(* Further properties that follow from it.                                 *)

(* Every epoll_ctl finds the list as it expects it: register calls ADD for *)
(* a descriptor that is not in it and MOD for one that is, and the MOD of  *)
(* poll and the DEL of deregister name one that is.                        *)
EpollCtlFits ==
  /\ \A t \in Task : LET f == awaits[t][1] IN
       /\ At(t, "register") => (f \in regs <=> f \in inlist)
       /\ At(t, "delete") => f \in inlist
  /\ regs \subseteq inlist

(* Task t's waker for direction d of f leaves the map in this step.        *)
Leaves(f, d, t) == waker[f][d] = t /\ waker'[f][d] # t

(* A waker leaves the map only to be called, or when a register replaces   *)
(* it, or when the owner of the socket drops it.                           *)
WakersAccounted ==
  [][\A f \in Fd : \A d \in Dir : \A t \in Task : Leaves(f, d, t) =>
       \/ t \in wakers'
       \/ \E u \in Task, o \in Op : Register(u, f, o) /\ Side(o) = d
       \/ Deregister(owner[f], f)]_vars

(* Nobody's waker is lost to another task: it leaves the map to be called  *)
(* or because its own task drops the socket.                               *)
WakersNotLost ==
  [][\A f \in Fd : \A d \in Dir : \A t \in Task : Leaves(f, d, t) =>
       t \in wakers' \/ Deregister(t, f)]_vars

-----------------------------------------------------------------------------

(* Zenon proves most leaves; the others cite SMT.                          *)
USE ZenonT(60)

(* A reactor without registrations satisfies the invariant.                *)
LEMMA InitHolds == Init => IInv
<1> SUFFICES ASSUME Init PROVE IInv
  OBVIOUS
<1>1. TypeOK /\ Quiet /\ Places /\ Owned /\ MapMatchesKernel
  BY ConstAssumption, SMTT(60) DEF Init, Sched!Init, TypeOK, Quiet, Places,
     Owned, MapMatchesKernel, NoOp, NoWakers, Dir, Op, Open
<1>2. NoSideStranded /\ Known /\ Leaving /\ OwnWakers
  BY SMT DEF Init, NoSideStranded, Known, Leaving, OwnWakers, NoOp, NoWakers,
     Op, Interest
<1> QED
  BY <1>1, <1>2 DEF IInv

(* A step is one of these operations, or it leaves everything alone.       *)
LEMMA NextCases ==
  ASSUME [Next]_vars
  PROVE  \/ \E t \in Task :
              \/ SpawnTask(t) \/ BeginPoll(t) \/ OtherWake(t) \/ Finish(t)
              \/ Pending(t) \/ WakeOne(t)
         \/ \E t \in Task, f \in Fd :
              \/ Bind(t, f) \/ Connect(t, f) \/ Deregister(t, f)
              \/ Delete(t, f) \/ Close(t, f)
         \/ \E t \in Task, f \in Fd, o \in Op :
              \/ StartOp(t, f, o) \/ Fails(t, f, o) \/ RegisterFails(t, f, o)
              \/ Succeeds(t, f, o) \/ WouldBlock(t, f, o)
              \/ Register(t, f, o)
         \/ \E f \in Fd : HangUp(f) \/ \E d \in Dir : BecomesReady(f, d)
         \/ \E fs \in SUBSET Deliverable : EpollWait(fs)
         \/ Collect \/ EnterPoll \/ PollReturns \/ UNCHANGED vars
<1>1. ASSUME NEW t \in Task, OpStep(t)
      PROVE  \E f \in Fd, o \in Op :
               Succeeds(t, f, o) \/ WouldBlock(t, f, o) \/ Register(t, f, o)
  <2>1. "accept" \in Op /\ "read" \in Op /\ "write" \in Op
    BY DEF Op
  <2> QED
    BY <1>1, <2>1 DEF OpStep, Accept, Read, Write
<1> QED
  BY <1>1 DEF Next, TaskStep, DriverStep

(* Every step keeps the types, and what is in Quiet.                       *)
LEMMA TypeStep == TypeOK /\ Quiet /\ [Next]_vars => TypeOK' /\ Quiet'
<1> SUFFICES ASSUME TypeOK, Quiet, [Next]_vars PROVE TypeOK' /\ Quiet'
  OBVIOUS
<1> USE DEF TypeOK, Quiet, schedVars, socketVars, kernelVars, regVars,
            taskVars, pollVars
<1>1. ASSUME NEW t \in Task,
             SpawnTask(t) \/ BeginPoll(t) \/ OtherWake(t) \/ Finish(t)
      PROVE TypeOK' /\ Quiet'
  BY <1>1, SMT DEF SpawnTask, BeginPoll, OtherWake, Finish, Sched!Spawn,
     Sched!BeginPoll, Sched!Wake, Sched!PollDone
<1>2. ASSUME NEW t \in Task, NEW f \in Fd, Bind(t, f) \/ Connect(t, f)
      PROVE TypeOK' /\ Quiet'
  BY <1>2, SMTT(60) DEF Bind, Connect, OpenSocket
<1>3. ASSUME NEW t \in Task, NEW f \in Fd, NEW o \in Op,
             StartOp(t, f, o) \/ Fails(t, f, o) \/ RegisterFails(t, f, o)
               \/ Succeeds(t, f, o) \/ WouldBlock(t, f, o)
      PROVE TypeOK' /\ Quiet'
  <2>1. CASE StartOp(t, f, o)
    BY <2>1 DEF StartOp
  <2>2. CASE Fails(t, f, o)
    BY <2>2 DEF Fails
  <2>3. CASE RegisterFails(t, f, o)
    BY <2>3 DEF RegisterFails, Goto
  <2>4. CASE Succeeds(t, f, o)
    <3>1. ready' \in [Fd -> SUBSET Dir]
      BY <2>4, SMTT(60) DEF Succeeds
    <3> QED
      BY <2>4, <3>1 DEF Succeeds
  <2>5. CASE WouldBlock(t, f, o)
    BY <2>5 DEF WouldBlock, Goto
  <2> QED
    BY <1>3, <2>1, <2>2, <2>3, <2>4, <2>5
<1>4. ASSUME NEW t \in Task, NEW f \in Fd, NEW o \in Op, Register(t, f, o)
      PROVE TypeOK' /\ Quiet'
  BY <1>4 DEF Register, RegisterMask, Interest, Goto, Side, Dir
<1>5. ASSUME NEW t \in Task, Pending(t) PROVE TypeOK' /\ Quiet'
  BY <1>5 DEF Pending, Sched!PollPending, Goto
<1>6. ASSUME NEW t \in Task, NEW f \in Fd, Deregister(t, f)
      PROVE TypeOK' /\ Quiet'
  BY <1>6 DEF Deregister, Goto, NoWakers
<1>7. ASSUME NEW t \in Task, NEW f \in Fd, Delete(t, f) \/ Close(t, f)
      PROVE TypeOK' /\ Quiet'
  BY <1>7 DEF Delete, Close, Goto
<1>8. ASSUME NEW f \in Fd, HangUp(f) \/ \E d \in Dir : BecomesReady(f, d)
      PROVE TypeOK' /\ Quiet'
  <2>1. ready' \in [Fd -> SUBSET Dir]
    BY <1>8, SMTT(60) DEF HangUp, BecomesReady
  <2> QED
    BY <1>8, <2>1 DEF HangUp, BecomesReady
<1>9. ASSUME NEW fs \in SUBSET Deliverable, EpollWait(fs)
      PROVE TypeOK' /\ Quiet'
  <2>1. \A f \in fs : f \in Fd /\ Reported(f) \in SUBSET Dir
    BY DEF Deliverable, Reported
  <2>2. events' \subseteq Fd \X SUBSET Dir
    BY <1>9, <2>1, SMT DEF EpollWait
  <2> QED
    BY <1>9, <2>2 DEF EpollWait
<1>10. ASSUME NEW t \in Task, WakeOne(t) PROVE TypeOK' /\ Quiet'
  BY <1>10, SMT DEF WakeOne, Wake, Sched!Wake
<1>11. CASE EnterPoll \/ PollReturns
  BY <1>11 DEF EnterPoll, PollReturns
<1>12. CASE Collect
  <2>1. UNCHANGED <<fresh, owed, polling, finished, owner, listeners, ready,
                    hup, inlist, regs, awaits, pc>>
    BY <1>12 DEF Collect
  <2>2. waker' \in [Fd -> [Dir -> Task \cup {NoTask}]]
    BY <1>12, SMT DEF Collect, Surviving
  <2>3. wakers' \subseteq Task
    BY <1>12 DEF Collect
  <2>4. armed' \subseteq inlist /\ mask' \in [Fd -> SUBSET Dir]
    BY <1>12 DEF Collect, Interest
  <2>5. events' = {} /\ dpc' = "wake"
    BY <1>12 DEF Collect
  <2> QED
    BY <2>1, <2>2, <2>3, <2>4, <2>5
<1>13. CASE UNCHANGED vars
  BY <1>13 DEF vars
<1> HIDE DEF TypeOK, Quiet
<1> QED
  BY <1>1, <1>2, <1>3, <1>4, <1>5, <1>6, <1>7, <1>8, <1>9, <1>10, <1>11,
     <1>12, <1>13, NextCases

-----------------------------------------------------------------------------

(* The operations whose step leaves tasks, sockets and the map alone.      *)
Elsewhere == UNCHANGED <<polling, finished, owner, regs, awaits, pc>>

(* Sockets and operations stay with the tasks that own them.               *)
LEMMA PlacesStep ==
  TypeOK /\ Places /\ Owned /\ [Next]_vars => Places' /\ Owned'
<1> SUFFICES ASSUME TypeOK, Places, Owned, [Next]_vars
             PROVE Places' /\ Owned'
  OBVIOUS
<1> USE DEF schedVars, socketVars, kernelVars, regVars, taskVars, pollVars
<1>0. ASSUME Elsewhere PROVE Places' /\ Owned'
  BY <1>0 DEF Places, Owned, Open, Elsewhere
<1>1. ASSUME NEW t \in Task, BeginPoll(t) \/ Finish(t) \/ Pending(t)
      PROVE Places' /\ Owned'
  BY <1>1, SMT DEF BeginPoll, Finish, Pending, Sched!BeginPoll,
     Sched!PollDone, Sched!PollPending, At, Goto, TypeOK, Places, Owned, Open,
     NoOp, Op
<1>2. ASSUME NEW t \in Task, NEW f \in Fd, Bind(t, f) \/ Connect(t, f)
      PROVE Places' /\ Owned'
  BY <1>2, ConstAssumption, SMT DEF Bind, Connect, OpenSocket, TypeOK, Places,
     Owned, Open
<1>3. ASSUME NEW t \in Task, NEW f \in Fd, NEW o \in Op, StartOp(t, f, o)
      PROVE Places' /\ Owned'
  <2>1. /\ awaits' = [awaits EXCEPT ![t] = <<f, o>>]
        /\ pc[t] = "run" /\ owner[f] # NoTask
        /\ \A u \in Task : awaits[u] # <<f, "drop">>
        /\ t \in polling
        /\ UNCHANGED <<polling, finished, owner, regs, pc>>
    BY <1>3 DEF StartOp, At, Open
  <2>2. o # "drop" /\ <<f, o>>[1] = f /\ <<f, o>>[2] = o
    BY DEF Op
  <2>3. Places'
    <3> SUFFICES ASSUME NEW u \in Task PROVE Places!(u)'
      BY DEF Places
    <3>1. \A v \in Task : awaits[v][2] = "drop" => awaits[v][1] # f
      BY <2>1, SMTT(60) DEF TypeOK, NoOp, Op
    <3>2. CASE u = t
      BY <2>1, <2>2, <3>2 DEF TypeOK, Places, Open
    <3>3. CASE u # t
      BY <2>1, <2>2, <3>1, <3>3 DEF TypeOK, Places, Open
    <3> QED
      BY <3>2, <3>3
  <2>4. Owned'
    BY <1>3, <2>1, <2>2, SMT DEF StartOp, TypeOK, Owned
  <2> QED
    BY <2>3, <2>4
<1>4. ASSUME NEW t \in Task, NEW f \in Fd, NEW o \in Op,
             Fails(t, f, o) \/ RegisterFails(t, f, o) \/ Succeeds(t, f, o)
      PROVE Places' /\ Owned'
  <2>1. /\ awaits' = [awaits EXCEPT ![t] = NoOp]
        /\ pc' = [pc EXCEPT ![t] = "run"]
        /\ UNCHANGED <<polling, finished, owner, regs>>
    BY <1>4, SMT DEF Fails, RegisterFails, Succeeds, At, Goto, TypeOK
  <2>2. NoOp[2] \notin Op \cup {"drop"}
    BY DEF NoOp, Op
  <2> QED
    BY <2>1, <2>2, SMT DEF TypeOK, Places, Owned, Open
<1>5. ASSUME NEW t \in Task, NEW f \in Fd, NEW o \in Op, WouldBlock(t, f, o)
      PROVE Places' /\ Owned'
  BY <1>5, SMTT(60) DEF WouldBlock, At, Goto, TypeOK, Places, Owned, Open, Op
<1>6. ASSUME NEW t \in Task, NEW f \in Fd, NEW o \in Op, Register(t, f, o)
      PROVE Places' /\ Owned'
  BY <1>6, SMTT(60) DEF Register, At, Goto, TypeOK, Places, Owned, Open, NoOp,
     Op
<1>7. ASSUME NEW t \in Task, NEW f \in Fd, Deregister(t, f)
      PROVE Places' /\ Owned'
  BY <1>7, ConstAssumption, SMTT(60) DEF Deregister, At, Goto, TypeOK, Places,
     Owned, Open, NoOp, Op
<1>8. ASSUME NEW t \in Task, NEW f \in Fd, Delete(t, f) PROVE Places' /\ Owned'
  BY <1>8, SMTT(60) DEF Delete, At, Goto, TypeOK, Places, Owned, Open, Op
<1>9. ASSUME NEW t \in Task, NEW f \in Fd, Close(t, f) PROVE Places' /\ Owned'
  BY <1>9, SMT DEF Close, At, Goto, TypeOK, Places, Owned, Open, NoOp, Op
<1>10. ASSUME NEW t \in Task, SpawnTask(t) \/ OtherWake(t) \/ WakeOne(t)
       PROVE Elsewhere
  BY <1>10 DEF SpawnTask, OtherWake, WakeOne, Wake, Sched!Spawn, Sched!Wake,
     Elsewhere
<1>11. ASSUME NEW f \in Fd, HangUp(f) \/ \E d \in Dir : BecomesReady(f, d)
       PROVE Elsewhere
  BY <1>11 DEF HangUp, BecomesReady, Elsewhere
<1>12. ASSUME NEW fs \in SUBSET Deliverable, EpollWait(fs) PROVE Elsewhere
  BY <1>12 DEF EpollWait, Elsewhere
<1>13. ASSUME Collect \/ EnterPoll \/ PollReturns \/ UNCHANGED vars
       PROVE  Elsewhere
  BY <1>13 DEF Collect, EnterPoll, PollReturns, vars, Elsewhere
<1> QED
  BY <1>0, <1>1, <1>2, <1>3, <1>4, <1>5, <1>6, <1>7, <1>8, <1>9, <1>10, <1>11,
     <1>12, <1>13, NextCases

(* register, deregister and the re-arm change the map and epoll together.  *)
LEMMA MapStep ==
  TypeOK /\ Places /\ MapMatchesKernel /\ [Next]_vars => MapMatchesKernel'
<1> SUFFICES ASSUME TypeOK, Places, MapMatchesKernel, [Next]_vars
             PROVE MapMatchesKernel'
  OBVIOUS
<1> USE DEF schedVars, socketVars, kernelVars, regVars, taskVars, pollVars
<1>0. ASSUME UNCHANGED <<owner, regVars, inlist, taskVars>>
      PROVE MapMatchesKernel'
  BY <1>0 DEF MapMatchesKernel, Open
<1>1. ASSUME NEW t \in Task, Pending(t) PROVE MapMatchesKernel'
  BY <1>1 DEF Pending, At, Goto, TypeOK, MapMatchesKernel, Open
<1>2. ASSUME NEW t \in Task, NEW f \in Fd, Bind(t, f) \/ Connect(t, f)
      PROVE MapMatchesKernel'
  BY <1>2, ConstAssumption, SMTT(60) DEF Bind, Connect, OpenSocket, TypeOK,
     MapMatchesKernel, Open
<1>3. ASSUME NEW t \in Task, NEW f \in Fd, NEW o \in Op,
             StartOp(t, f, o) \/ Fails(t, f, o) \/ RegisterFails(t, f, o)
               \/ Succeeds(t, f, o) \/ WouldBlock(t, f, o)
      PROVE MapMatchesKernel'
  <2>1. /\ pc[t] # "delete"
        /\ \A u \in Task \ {t} : pc'[u] = pc[u] /\ awaits'[u] = awaits[u]
        /\ UNCHANGED <<owner, regs, waker, inlist>>
    BY <1>3 DEF StartOp, Fails, RegisterFails, Succeeds, WouldBlock, At, Goto,
       TypeOK
  <2> QED
    BY <2>1, SMT DEF MapMatchesKernel, Open
<1>4. ASSUME NEW t \in Task, NEW f \in Fd, NEW o \in Op, Register(t, f, o)
      PROVE MapMatchesKernel'
  <2>1. /\ pc[t] # "delete"
        /\ \A u \in Task \ {t} : pc'[u] = pc[u] /\ awaits'[u] = awaits[u]
        /\ regs' = regs \cup {f} /\ inlist' = inlist \cup {f}
        /\ \A g \in Fd \ {f} : waker'[g] = waker[g]
        /\ UNCHANGED owner
    BY <1>4 DEF Register, At, Goto, TypeOK
  <2>2. Open(f)
    BY <1>4, SMT DEF Register, At, Places, NoOp, Op
  <2> QED
    BY <2>1, <2>2, SMT DEF MapMatchesKernel, Open
<1>5. ASSUME NEW t \in Task, NEW f \in Fd, Deregister(t, f)
      PROVE MapMatchesKernel'
  <2>1. /\ pc[t] = "run" /\ pc'[t] = (IF f \in regs THEN "delete" ELSE "close")
        /\ awaits'[t][1] = f
        /\ \A u \in Task \ {t} : pc'[u] = pc[u] /\ awaits'[u] = awaits[u]
        /\ regs' = regs \ {f}
        /\ waker'[f] = NoWakers
        /\ \A g \in Fd \ {f} : waker'[g] = waker[g]
        /\ UNCHANGED <<owner, inlist>>
    BY <1>5 DEF Deregister, At, Goto, TypeOK
  <2> QED
    BY <2>1, SMT DEF MapMatchesKernel, Open
<1>6. ASSUME NEW t \in Task, NEW f \in Fd, Delete(t, f)
      PROVE MapMatchesKernel'
  <2>1. /\ awaits[t] = <<f, "drop">> /\ inlist' = inlist \ {f}
        /\ \A u \in Task \ {t} : pc'[u] = pc[u]
        /\ UNCHANGED <<owner, regs, waker, awaits>>
    BY <1>6 DEF Delete, Goto, TypeOK
  <2>2. f \notin regs
    BY <2>1, SMT DEF Places
  <2> QED
    BY <2>1, <2>2, SMT DEF MapMatchesKernel, Open
<1>7. ASSUME NEW t \in Task, NEW f \in Fd, Close(t, f)
      PROVE MapMatchesKernel'
  <2>1. /\ awaits[t] = <<f, "drop">> /\ pc[t] = "close"
        /\ inlist' = inlist \ {f}
        /\ \A u \in Task \ {t} : pc'[u] = pc[u] /\ awaits'[u] = awaits[u]
        /\ \A g \in Fd \ {f} : owner'[g] = owner[g]
        /\ UNCHANGED <<regs, waker>>
    BY <1>7 DEF Close, At, Goto, TypeOK
  <2>2. f \notin regs
    BY <2>1, SMT DEF Places
  <2> QED
    BY <2>1, <2>2, SMT DEF MapMatchesKernel, Open
<1>8. CASE Collect
  BY <1>8 DEF Collect, TypeOK, MapMatchesKernel, Open
<1>9. ASSUME NEW t \in Task,
             SpawnTask(t) \/ BeginPoll(t) \/ OtherWake(t) \/ Finish(t)
               \/ WakeOne(t)
      PROVE UNCHANGED <<owner, regVars, inlist, taskVars>>
  BY <1>9 DEF SpawnTask, BeginPoll, OtherWake, Finish, WakeOne
<1>10. ASSUME NEW f \in Fd, HangUp(f) \/ \E d \in Dir : BecomesReady(f, d)
       PROVE UNCHANGED <<owner, regVars, inlist, taskVars>>
  BY <1>10 DEF HangUp, BecomesReady
<1>11. ASSUME NEW fs \in SUBSET Deliverable, EpollWait(fs)
       PROVE UNCHANGED <<owner, regVars, inlist, taskVars>>
  BY <1>11 DEF EpollWait
<1>12. ASSUME EnterPoll \/ PollReturns \/ UNCHANGED vars
       PROVE UNCHANGED <<owner, regVars, inlist, taskVars>>
  BY <1>12 DEF EnterPoll, PollReturns, vars
<1> QED
  BY <1>0, <1>1, <1>2, <1>3, <1>4, <1>5, <1>6, <1>7, <1>8, <1>9, <1>10, <1>11,
     <1>12, NextCases

(* What the driver has still to look at.                                   *)
Seen == {e[1] : e \in events}

(* No step leaves a waker in the map that nothing will wake.               *)
LEMMA StrandStep ==
  TypeOK /\ Quiet /\ Places /\ MapMatchesKernel /\ NoSideStranded
    /\ [Next]_vars => NoSideStranded'
<1> SUFFICES ASSUME TypeOK, Quiet, Places, MapMatchesKernel,
                    NoSideStranded, [Next]_vars
             PROVE NoSideStranded'
  OBVIOUS
<1> USE DEF schedVars, socketVars, kernelVars, regVars, taskVars, pollVars
<1>0. ASSUME UNCHANGED <<regVars, mask, armed, events>> PROVE NoSideStranded'
  BY <1>0 DEF NoSideStranded, Interest
<1>1. ASSUME NEW t \in Task, NEW f \in Fd, NEW o \in Op, Register(t, f, o)
      PROVE NoSideStranded'
  <2>1. Side(o) \in Dir
    BY DEF Side, Dir
  <2>2. /\ f \in armed' /\ mask'[f] = Interest(waker[f]) \cup {Side(o)}
        /\ \A d \in Dir \ {Side(o)} : waker'[f][d] = waker[f][d]
        /\ \A g \in Fd \ {f} :
             waker'[g] = waker[g] /\ mask'[g] = mask[g]
        /\ regs' = regs \cup {f} /\ armed' = armed \cup {f}
        /\ UNCHANGED events
    BY <1>1, <2>1 DEF Register, RegisterMask, TypeOK
  <2> QED
    BY <2>1, <2>2, SMT DEF NoSideStranded, Interest, TypeOK
<1>2. ASSUME NEW t \in Task, NEW f \in Fd, Deregister(t, f)
      PROVE NoSideStranded'
  BY <1>2 DEF Deregister, NoSideStranded, Interest, TypeOK
<1>3. ASSUME NEW t \in Task, NEW f \in Fd, Delete(t, f) \/ Close(t, f)
      PROVE NoSideStranded'
  <2>1. /\ awaits[t] = <<f, "drop">>
        /\ armed' = armed \ {f}
        /\ \A g \in Fd \ {f} : mask'[g] = mask[g]
        /\ UNCHANGED <<regs, waker, events>>
    BY <1>3, SMT DEF Delete, Close, TypeOK
  <2>2. f \notin regs
    BY <2>1, SMT DEF Places
  <2> QED
    BY <2>1, <2>2 DEF NoSideStranded, Interest, TypeOK
<1>4. ASSUME NEW fs \in SUBSET Deliverable, EpollWait(fs)
      PROVE NoSideStranded'
  <2>1. dpc = "wait" /\ armed' = armed \ fs
        /\ events' = {<<f, Reported(f)>> : f \in fs}
        /\ UNCHANGED <<regs, waker, mask>>
    BY <1>4 DEF EpollWait
  <2>2. ASSUME NEW f \in fs PROVE f \in Seen'
    <3>1. <<f, Reported(f)>> \in events' /\ <<f, Reported(f)>>[1] = f
      BY <2>1
    <3> QED
      BY <3>1 DEF Seen
  <2>3. events = {}
    BY <2>1 DEF Quiet
  <2>4. \A f \in regs : \A d \in Interest(waker[f]) :
          f \in armed /\ d \in mask[f]
    BY <2>3 DEF NoSideStranded
  <2> QED
    BY <2>1, <2>2, <2>4 DEF NoSideStranded, Interest, Seen
<1>5. CASE Collect
  <2> DEFINE seen == Seen \cap regs
  <2>1. /\ waker' = [f \in Fd |->
                      IF f \in seen THEN Surviving(f) ELSE waker[f]]
        /\ armed' = armed \cup (Rearmed(seen) \cap inlist)
        /\ mask' = [f \in Fd |-> IF f \in Rearmed(seen) \cap inlist
                                   THEN Interest(Surviving(f)) ELSE mask[f]]
        /\ UNCHANGED regs
    BY <1>5 DEF Collect, Seen
  <2>2. regs \subseteq inlist
    BY DEF MapMatchesKernel, TypeOK
  <2>3. ASSUME NEW f \in regs, NEW d \in Interest(waker'[f])
        PROVE f \in armed' /\ d \in mask'[f]
    <3>1. CASE f \in seen
      <4>1. waker'[f] = Surviving(f) /\ f \in Rearmed(seen) \cap inlist
        BY <2>1, <2>2, <2>3, <3>1 DEF Rearmed, TypeOK
      <4> QED
        BY <2>1, <2>3, <4>1 DEF TypeOK
    <3>2. CASE f \notin seen
      <4>1. f \notin Rearmed(seen) /\ waker'[f] = waker[f]
        BY <2>1, <3>2 DEF Rearmed, TypeOK
      <4>2. f \in armed /\ d \in mask[f]
        BY <2>3, <3>2, <4>1 DEF NoSideStranded, Seen
      <4> QED
        BY <2>1, <4>1, <4>2 DEF TypeOK
    <3> QED
      BY <3>1, <3>2
  <2> QED
    BY <2>1, <2>3 DEF NoSideStranded
<1>6. ASSUME NEW t \in Task,
             SpawnTask(t) \/ BeginPoll(t) \/ OtherWake(t) \/ Finish(t)
               \/ Pending(t) \/ WakeOne(t)
      PROVE UNCHANGED <<regVars, mask, armed, events>>
  BY <1>6 DEF SpawnTask, BeginPoll, OtherWake, Finish, Pending, WakeOne
<1>7. ASSUME NEW t \in Task, NEW f \in Fd, Bind(t, f) \/ Connect(t, f)
      PROVE UNCHANGED <<regVars, mask, armed, events>>
  BY <1>7 DEF Bind, Connect, OpenSocket
<1>8. ASSUME NEW t \in Task, NEW f \in Fd, NEW o \in Op,
             StartOp(t, f, o) \/ Fails(t, f, o) \/ RegisterFails(t, f, o)
               \/ Succeeds(t, f, o) \/ WouldBlock(t, f, o)
      PROVE UNCHANGED <<regVars, mask, armed, events>>
  BY <1>8 DEF StartOp, Fails, RegisterFails, Succeeds, WouldBlock
<1>9. ASSUME NEW f \in Fd, HangUp(f) \/ \E d \in Dir : BecomesReady(f, d)
      PROVE UNCHANGED <<regVars, mask, armed, events>>
  BY <1>9 DEF HangUp, BecomesReady
<1>10. ASSUME EnterPoll \/ PollReturns \/ UNCHANGED vars
       PROVE UNCHANGED <<regVars, mask, armed, events>>
  BY <1>10 DEF EnterPoll, PollReturns, vars
<1> QED
  BY <1>0, <1>1, <1>2, <1>3, <1>4, <1>5, <1>6, <1>7, <1>8, <1>9, <1>10,
     NextCases

(* The antecedent of Known: the task counts on its waker.                  *)
Counts(t) ==
  /\ awaits[t][2] \in Op
  /\ pc[t] = "pending" \/ t \notin polling
  /\ t \notin owed

(* A task that waits is not forgotten by a step of its own or another.     *)
LEMMA KnownStep ==
  TypeOK /\ Quiet /\ Places /\ Owned /\ Known /\ [Next]_vars => Known'
<1> SUFFICES ASSUME TypeOK, Quiet, Places, Owned, Known, [Next]_vars, ~Shared,
                    NEW u \in Task, Counts(u)'
             PROVE (\/ waker[awaits[u][1]][Side(awaits[u][2])] = u
                    \/ u \in wakers)'
  BY DEF Known, Counts
<1> DEFINE Holds == waker[awaits[u][1]][Side(awaits[u][2])] = u \/ u \in wakers
<1>a. Counts(u) => Holds
  BY DEF Known, Counts
<1>b. \A t \in Task : pc[t] # "run" => t \in polling
  BY DEF Places
<1> USE DEF schedVars, socketVars, kernelVars, regVars, taskVars, pollVars
<1>1. ASSUME NEW t \in Task, SpawnTask(t) \/ OtherWake(t) PROVE Holds'
  BY <1>a, <1>1 DEF SpawnTask, OtherWake, Sched!Spawn, Sched!Wake, Counts, Side
<1>2. ASSUME NEW t \in Task, BeginPoll(t) PROVE Holds'
  BY <1>a, <1>b, <1>2 DEF BeginPoll, Sched!BeginPoll, Counts, Side
<1>3. ASSUME NEW t \in Task, Finish(t) PROVE Holds'
  BY <1>a, <1>3, SMT DEF Finish, Sched!PollDone, Counts, Side, NoOp, Op
<1>4. ASSUME NEW t \in Task, Pending(t) PROVE Holds'
  BY <1>a, <1>4 DEF Pending, At, Goto, Sched!PollPending, Counts, Side, TypeOK
<1>5. ASSUME NEW t \in Task, NEW f \in Fd, Bind(t, f) \/ Connect(t, f)
      PROVE Holds'
  BY <1>a, <1>5 DEF Bind, Connect, OpenSocket, Counts, Side
<1>6. ASSUME NEW t \in Task, NEW f \in Fd, NEW o \in Op,
             StartOp(t, f, o) \/ Fails(t, f, o) \/ RegisterFails(t, f, o)
               \/ Succeeds(t, f, o) \/ WouldBlock(t, f, o)
      PROVE Holds'
  <2>1. /\ t \in polling /\ pc'[t] # "pending"
        /\ pc' = [pc EXCEPT ![t] = pc'[t]]
        /\ awaits' = [awaits EXCEPT ![t] = awaits'[t]]
        /\ UNCHANGED <<owed, polling, waker, wakers>>
    BY <1>6, SMT DEF StartOp, Fails, RegisterFails, Succeeds, WouldBlock, At,
       Goto, TypeOK
  <2> QED
    BY <1>a, <2>1 DEF Counts, Side, TypeOK
<1>7. ASSUME NEW t \in Task, NEW f \in Fd, NEW o \in Op, Register(t, f, o)
      PROVE Holds'
  <2>1. /\ t \in polling /\ awaits[t] = <<f, o>>
        /\ waker' = [waker EXCEPT ![f][Side(o)] = t]
        /\ pc' = [pc EXCEPT ![t] = "pending"]
        /\ UNCHANGED <<owed, polling, awaits, wakers>>
    BY <1>7 DEF Register, At, Goto
  <2>2. \A x \in Op : Side(x) \in Dir
    BY DEF Side, Dir
  <2>3. CASE u = t
    BY <2>1, <2>2, <2>3, SMT DEF TypeOK
  <2>4. CASE u # t
    <3>1. awaits[u][2] \in Op /\ awaits[u] # NoOp /\ awaits[t] # NoOp
      BY <2>1, SMT DEF Counts, NoOp, Op
    <3>2. awaits[u][1] \in Fd /\ awaits[u][1] # f
      BY <2>1, <2>4, <3>1, SMT DEF Owned, TypeOK, NoOp
    <3>3. Counts(u)
      BY <2>1, <2>4 DEF Counts, TypeOK
    <3> QED
      BY <1>a, <2>1, <3>2, <3>3 DEF TypeOK
  <2> QED
    BY <2>3, <2>4
<1>8. ASSUME NEW t \in Task, NEW f \in Fd, Deregister(t, f) PROVE Holds'
  <2>1. /\ t \in polling /\ pc'[t] # "pending"
        /\ \A v \in Task \ {t} : awaits[v][1] # f
        /\ pc' = [pc EXCEPT ![t] = pc'[t]]
        /\ awaits' = [awaits EXCEPT ![t] = awaits'[t]]
        /\ waker' = [waker EXCEPT ![f] = NoWakers]
        /\ UNCHANGED <<owed, polling, wakers>>
    BY <1>8 DEF Deregister, At, Goto, TypeOK
  <2>2. u # t /\ awaits'[u] = awaits[u] /\ awaits[u][1] # f /\ Counts(u)
    BY <2>1 DEF Counts, TypeOK
  <2>3. awaits[u][1] \in Fd
    BY <2>2, SMT DEF Counts, TypeOK, NoOp, Op
  <2> QED
    BY <1>a, <2>1, <2>2, <2>3 DEF TypeOK
<1>9. ASSUME NEW t \in Task, NEW f \in Fd, Delete(t, f) \/ Close(t, f)
      PROVE Holds'
  <2>1. /\ t \in polling /\ pc'[t] # "pending"
        /\ pc' = [pc EXCEPT ![t] = pc'[t]]
        /\ awaits' = [awaits EXCEPT ![t] = awaits'[t]]
        /\ UNCHANGED <<owed, polling, waker, wakers>>
    BY <1>9, SMT DEF Delete, Close, At, Goto, TypeOK
  <2> QED
    BY <1>a, <2>1 DEF Counts, TypeOK
<1>10. CASE Collect
  <2>1. Counts(u) /\ awaits' = awaits
    BY <1>10 DEF Collect, Counts
  <2> DEFINE f == awaits[u][1]
             d == Side(awaits[u][2])
  <2>2. f \in Fd /\ d \in Dir
    BY <2>1, SMT DEF Counts, Side, Dir, TypeOK, NoOp, Op
  <2>3. waker[f][d] = u
    BY <1>10, <1>a, <2>1 DEF Collect, Quiet
  <2>4. f \in {e[1] : e \in events} \cap regs /\ d \in Fired(f)
          => u \in wakers'
    BY <1>10, <2>3 DEF Collect
  <2>5. ~(f \in {e[1] : e \in events} \cap regs /\ d \in Fired(f))
          => waker'[f][d] = u
    BY <1>10, <2>2, <2>3 DEF Collect, Surviving
  <2> QED
    BY <2>1, <2>4, <2>5
<1>11. ASSUME NEW t \in Task, WakeOne(t) PROVE Holds'
  <2>1. awaits' = awaits /\ UNCHANGED <<waker, pc, polling>>
        /\ wakers' = wakers \ {t}
        /\ (t \in finished \/ owed' = owed \cup {t})
        /\ owed \subseteq owed'
    BY <1>11 DEF WakeOne, Wake, Sched!Wake
  <2>2. awaits[u] # NoOp
    BY <2>1, SMT DEF Counts, NoOp, Op
  <2>3. u \notin finished
    BY <2>2 DEF Places
  <2> QED
    BY <1>a, <2>1, <2>3 DEF Counts
<1>12. ASSUME NEW f \in Fd, HangUp(f) \/ \E d \in Dir : BecomesReady(f, d)
       PROVE Holds'
  BY <1>a, <1>12 DEF HangUp, BecomesReady, Counts
<1>13. ASSUME NEW fs \in SUBSET Deliverable, EpollWait(fs) PROVE Holds'
  BY <1>a, <1>13 DEF EpollWait, Counts
<1>14. ASSUME EnterPoll \/ PollReturns \/ UNCHANGED vars PROVE Holds'
  BY <1>a, <1>14 DEF EnterPoll, PollReturns, vars, Counts
<1> QED
  BY <1>1, <1>2, <1>3, <1>4, <1>5, <1>6, <1>7, <1>8, <1>9, <1>10, <1>11,
     <1>12, <1>13, <1>14, NextCases

-----------------------------------------------------------------------------

(* A descriptor whose entry is gone stays in the kernel's list until its   *)
(* own DEL.                                                                *)
LEMMA LeavingStep ==
  TypeOK /\ Places /\ MapMatchesKernel /\ Leaving /\ [Next]_vars => Leaving'
<1> SUFFICES ASSUME TypeOK, Places, MapMatchesKernel, Leaving, [Next]_vars
             PROVE Leaving'
  OBVIOUS
<1> USE DEF schedVars, socketVars, kernelVars, regVars, taskVars, pollVars
<1>0. ASSUME UNCHANGED <<inlist, taskVars>> PROVE Leaving'
  BY <1>0 DEF Leaving
<1>1. ASSUME NEW t \in Task, inlist \subseteq inlist', pc'[t] # "delete",
             \A u \in Task \ {t} : pc'[u] = pc[u] /\ awaits'[u] = awaits[u]
      PROVE Leaving'
  BY <1>1 DEF Leaving
<1>2. ASSUME NEW t \in Task, Pending(t) PROVE Leaving'
  BY <1>1, <1>2 DEF Pending, Goto, TypeOK
<1>3. ASSUME NEW t \in Task, NEW f \in Fd, NEW o \in Op,
             StartOp(t, f, o) \/ Fails(t, f, o) \/ RegisterFails(t, f, o)
               \/ Succeeds(t, f, o) \/ WouldBlock(t, f, o)
               \/ Register(t, f, o)
      PROVE Leaving'
  <2>1. /\ inlist \subseteq inlist' /\ pc'[t] # "delete"
        /\ \A u \in Task \ {t} : pc'[u] = pc[u] /\ awaits'[u] = awaits[u]
    BY <1>3, SMTT(60) DEF StartOp, Fails, RegisterFails, Succeeds, WouldBlock,
       Register, At, Goto, TypeOK
  <2> QED
    BY <1>1, <2>1
<1>4. ASSUME NEW t \in Task, NEW f \in Fd, Deregister(t, f) PROVE Leaving'
  <2>1. /\ awaits'[t][1] = f /\ (pc'[t] = "delete" => f \in regs)
        /\ \A u \in Task \ {t} : pc'[u] = pc[u] /\ awaits'[u] = awaits[u]
        /\ UNCHANGED inlist
    BY <1>4 DEF Deregister, Goto, TypeOK
  <2> QED
    BY <2>1 DEF Leaving, MapMatchesKernel
<1>5. ASSUME NEW t \in Task, NEW f \in Fd, Delete(t, f) \/ Close(t, f)
      PROVE Leaving'
  <2>1. /\ awaits[t] = <<f, "drop">> /\ inlist' = inlist \ {f}
        /\ pc'[t] # "delete"
        /\ \A u \in Task \ {t} : pc'[u] = pc[u] /\ awaits'[u] = awaits[u]
    BY <1>5, SMT DEF Delete, Close, Goto, TypeOK
  <2>2. \A u \in Task \ {t} : pc[u] = "delete" => awaits[u][1] # f
    BY <2>1, SMT DEF Places, NoOp
  <2> QED
    BY <2>1, <2>2 DEF Leaving
<1>6. ASSUME NEW t \in Task,
             SpawnTask(t) \/ BeginPoll(t) \/ OtherWake(t) \/ Finish(t)
               \/ WakeOne(t)
      PROVE Leaving'
  BY <1>0, <1>6 DEF SpawnTask, BeginPoll, OtherWake, Finish, WakeOne
<1>7. ASSUME NEW t \in Task, NEW f \in Fd, Bind(t, f) \/ Connect(t, f)
      PROVE Leaving'
  BY <1>0, <1>7 DEF Bind, Connect, OpenSocket
<1>8. ASSUME NEW f \in Fd, HangUp(f) \/ \E d \in Dir : BecomesReady(f, d)
      PROVE Leaving'
  BY <1>0, <1>8 DEF HangUp, BecomesReady
<1>9. ASSUME NEW fs \in SUBSET Deliverable, EpollWait(fs) PROVE Leaving'
  BY <1>0, <1>9 DEF EpollWait
<1>10. CASE Collect \/ EnterPoll \/ PollReturns \/ UNCHANGED vars
  BY <1>0, <1>10 DEF Collect, EnterPoll, PollReturns, vars
<1> QED
  BY <1>2, <1>3, <1>4, <1>5, <1>6, <1>7, <1>8, <1>9, <1>10, NextCases

(* How a waker can leave the map.                                          *)
LEMMA LeavesCases ==
  ASSUME TypeOK, [Next]_vars, NEW f \in Fd, NEW d \in Dir, NEW t \in Task,
         Leaves(f, d, t)
  PROVE  \/ t \in wakers'
         \/ \E u \in Task, o \in Op : Register(u, f, o) /\ Side(o) = d
         \/ Deregister(owner[f], f)
<1> USE DEF Leaves, schedVars, socketVars, kernelVars, regVars, taskVars,
            pollVars
<1>1. ASSUME NEW u \in Task, NEW g \in Fd, NEW o \in Op, Register(u, g, o)
      PROVE g = f /\ Side(o) = d
  <2>1. Side(o) \in Dir
    BY DEF Side, Dir
  <2>2. waker' = [waker EXCEPT ![g][Side(o)] = u]
    BY <1>1 DEF Register
  <2> QED
    BY <2>1, <2>2, SMT DEF TypeOK
<1>2. ASSUME NEW u \in Task, NEW g \in Fd, Deregister(u, g)
      PROVE g = f /\ owner[f] = u
  BY <1>2 DEF Deregister, TypeOK
<1>3. CASE Collect
  <2> DEFINE seen == {e[1] : e \in events} \cap regs
  <2>1. /\ waker' = [g \in Fd |->
                      IF g \in seen THEN Surviving(g) ELSE waker[g]]
        /\ wakers' = {u \in Task :
                        \E g \in seen : \E c \in Fired(g) : waker[g][c] = u}
    BY <1>3 DEF Collect
  <2>2. f \in seen /\ waker'[f] = Surviving(f)
    BY <2>1
  <2>3. d \in Fired(f)
    BY <2>2 DEF Surviving
  <2> QED
    BY <2>1, <2>2, <2>3
<1>4. ASSUME UNCHANGED waker PROVE FALSE
  BY <1>4
<1>5. ASSUME NEW u \in Task,
             \/ SpawnTask(u) \/ BeginPoll(u) \/ OtherWake(u) \/ Finish(u)
             \/ Pending(u) \/ WakeOne(u)
      PROVE FALSE
  BY <1>4, <1>5 DEF SpawnTask, BeginPoll, OtherWake, Finish, Pending, WakeOne
<1>6. ASSUME NEW u \in Task, NEW g \in Fd,
             Bind(u, g) \/ Connect(u, g) \/ Delete(u, g) \/ Close(u, g)
      PROVE FALSE
  BY <1>4, <1>6 DEF Bind, Connect, OpenSocket, Delete, Close
<1>7. ASSUME NEW u \in Task, NEW g \in Fd, NEW o \in Op,
             StartOp(u, g, o) \/ Fails(u, g, o) \/ RegisterFails(u, g, o)
               \/ Succeeds(u, g, o) \/ WouldBlock(u, g, o)
      PROVE FALSE
  BY <1>4, <1>7 DEF StartOp, Fails, RegisterFails, Succeeds, WouldBlock
<1>8. ASSUME NEW g \in Fd, HangUp(g) \/ \E c \in Dir : BecomesReady(g, c)
      PROVE FALSE
  BY <1>4, <1>8 DEF HangUp, BecomesReady
<1>9. ASSUME NEW fs \in SUBSET Deliverable, EpollWait(fs) PROVE FALSE
  BY <1>4, <1>9 DEF EpollWait
<1>10. CASE EnterPoll \/ PollReturns \/ UNCHANGED vars
  BY <1>4, <1>10 DEF EnterPoll, PollReturns, vars
<1> HIDE DEF Leaves
<1> QED
  BY <1>1, <1>2, <1>3, <1>5, <1>6, <1>7, <1>8, <1>9, <1>10, NextCases

(* Without sharing, only its owner registers a waker for a socket, and the *)
(* wakers are gone before the descriptor has another owner.                *)
LEMMA OwnWakersStep ==
  TypeOK /\ Places /\ Owned /\ MapMatchesKernel /\ OwnWakers /\ [Next]_vars
    => OwnWakers'
<1> SUFFICES ASSUME TypeOK, Places, Owned, MapMatchesKernel, OwnWakers,
                    [Next]_vars, ~Shared
             PROVE \A f \in Fd : \A d \in Dir :
                     waker'[f][d] # NoTask => waker'[f][d] = owner'[f]
  BY DEF OwnWakers, Interest
<1> DEFINE Own == \A f \in Fd : \A d \in Dir :
                    waker[f][d] # NoTask => waker[f][d] = owner[f]
<1>a. Own
  BY DEF OwnWakers, Interest
<1>b. \A f \in Fd \ regs : \A d \in Dir : waker[f][d] = NoTask
  BY SMT DEF MapMatchesKernel, NoWakers
<1> USE DEF schedVars, socketVars, kernelVars, regVars, taskVars, pollVars
<1>0. ASSUME UNCHANGED <<waker, owner>> PROVE Own'
  BY <1>a, <1>0
<1>1. ASSUME NEW t \in Task, NEW f \in Fd, NEW o \in Op, Register(t, f, o)
      PROVE Own'
  <2>1. Side(o) \in Dir
    BY DEF Side, Dir
  <2>2. owner[f] = t
    BY <1>1, SMT DEF Register, Owned, NoOp, Op
  <2> QED
    BY <1>1, <1>a, <2>1, <2>2, SMT DEF Register, TypeOK
<1>2. ASSUME NEW t \in Task, NEW f \in Fd, Deregister(t, f) PROVE Own'
  BY <1>2, <1>a DEF Deregister, NoWakers, TypeOK
<1>3. ASSUME Collect PROVE Own'
  BY <1>3, <1>a DEF Collect, Surviving, TypeOK
<1>4. ASSUME NEW t \in Task, NEW f \in Fd,
             Bind(t, f) \/ Connect(t, f) \/ Close(t, f)
      PROVE Own'
  <2>1. f \notin regs
    BY <1>4, SMTT(60) DEF Bind, Connect, OpenSocket, Close, Places,
       MapMatchesKernel
  <2>2. UNCHANGED waker /\ \A g \in Fd \ {f} : owner'[g] = owner[g]
    BY <1>4, SMT DEF Bind, Connect, OpenSocket, Close, TypeOK
  <2> QED
    BY <1>a, <1>b, <2>1, <2>2
<1>5. ASSUME NEW t \in Task,
             \/ SpawnTask(t) \/ BeginPoll(t) \/ OtherWake(t) \/ Finish(t)
             \/ Pending(t) \/ WakeOne(t)
             \/ \E f \in Fd : Delete(t, f)
      PROVE Own'
  BY <1>0, <1>5
  DEF SpawnTask, BeginPoll, OtherWake, Finish, Pending, WakeOne, Delete
<1>6. ASSUME NEW t \in Task, NEW f \in Fd, NEW o \in Op,
             StartOp(t, f, o) \/ Fails(t, f, o) \/ RegisterFails(t, f, o)
               \/ Succeeds(t, f, o) \/ WouldBlock(t, f, o)
      PROVE Own'
  BY <1>0, <1>6 DEF StartOp, Fails, RegisterFails, Succeeds, WouldBlock
<1>7. ASSUME NEW f \in Fd, HangUp(f) \/ \E d \in Dir : BecomesReady(f, d)
      PROVE Own'
  BY <1>0, <1>7 DEF HangUp, BecomesReady
<1>8. ASSUME NEW fs \in SUBSET Deliverable, EpollWait(fs) PROVE Own'
  BY <1>0, <1>8 DEF EpollWait
<1>9. ASSUME EnterPoll \/ PollReturns \/ UNCHANGED vars PROVE Own'
  BY <1>0, <1>9 DEF EnterPoll, PollReturns, vars
<1>10. Own'
  <2> HIDE DEF Own
  <2> QED
    BY <1>1, <1>2, <1>3, <1>4, <1>5, <1>6, <1>7, <1>8, <1>9, NextCases
<1> QED
  BY <1>10

(* The inductive invariant holds throughout.                               *)
THEOREM Invariance == Spec => []IInv
<1>1. IInv /\ [Next]_vars => IInv'
  BY TypeStep, PlacesStep, MapStep, StrandStep, KnownStep, LeavingStep,
     OwnWakersStep DEF IInv
<1> QED
  BY InitHolds, <1>1, PTL DEF Spec

(* Types; and no waker that is left in the reactor enqueues a finished     *)
(* task.                                                                   *)
THEOREM TypeCorrect == Spec => []TypeOK
<1>1. IInv => TypeOK
  BY DEF IInv
<1> QED
  BY Invariance, <1>1, PTL

(* Reactor::register always picks the right one of ADD and MOD, however    *)
(* registrations, failures of epoll_ctl, events, drops and the reuse of    *)
(* descriptor numbers interleave.                                          *)
THEOREM MapIsExact == Spec => []MapMatchesKernel
<1>1. IInv => MapMatchesKernel
  BY DEF IInv
<1> QED
  BY Invariance, <1>1, PTL

(* The re-arm of Reactor::poll leaves no waker behind on a descriptor that *)
(* is disarmed, in batches of events of any size.                          *)
THEOREM NobodyIsStranded == Spec => []NoSideStranded
<1>1. IInv => NoSideStranded
  BY DEF IInv
<1> QED
  BY Invariance, <1>1, PTL

(* As long as tasks do not accept on each other's listeners, a task that   *)
(* has returned Pending from a socket operation is known to the reactor or *)
(* about to be woken.                                                      *)
THEOREM TasksAreKnown ==
  ASSUME ~Shared PROVE Spec => []TaskNotForgotten
<1>1. IInv => TaskNotForgotten
  <2> SUFFICES ASSUME IInv, NEW t \in Task,
                      awaits[t] # NoOp, t \notin polling \cup owed
               PROVE \/ waker[awaits[t][1]][Side(awaits[t][2])] = t
                     \/ t \in wakers
    BY DEF TaskNotForgotten
  <2>1. awaits[t][2] \in Op
    BY DEF IInv, TypeOK, Places
  <2> QED
    BY <2>1 DEF IInv, Known
<1> QED
  BY Invariance, <1>1, PTL

(* No epoll_ctl of the reactor meets EEXIST or ENOENT, even when a         *)
(* descriptor number is closed and reused between a registration and the   *)
(* re-arm of poll.                                                         *)
THEOREM EpollCtlNeverMisses == Spec => []EpollCtlFits
<1>1. IInv => EpollCtlFits
  <2> SUFFICES ASSUME IInv PROVE EpollCtlFits
    OBVIOUS
  <2>1. regs \subseteq inlist
    BY DEF IInv, TypeOK, MapMatchesKernel
  <2>2. \A t \in Task : At(t, "delete") => awaits[t][1] \in inlist
    BY DEF IInv, Leaving, At
  <2>3. ASSUME NEW t \in Task, At(t, "register"),
               awaits[t][1] \in inlist, awaits[t][1] \notin regs
        PROVE FALSE
    <3>1. awaits[t] # NoOp /\ awaits[t][2] # "drop" /\ awaits[t][1] \in Fd
      BY <2>3, SMT DEF IInv, At, Places, TypeOK, NoOp, Op
    <3>2. PICK u \in Task : pc[u] = "delete" /\ awaits[u][1] = awaits[t][1]
      BY <2>3, <3>1 DEF IInv, MapMatchesKernel
    <3>3. awaits[u][2] = "drop"
      BY <3>2 DEF IInv, Places
    <3> QED
      BY <3>1, <3>2, <3>3 DEF IInv, Places
  <2> QED
    BY <2>1, <2>2, <2>3 DEF EpollCtlFits
<1> QED
  BY Invariance, <1>1, PTL

(* Reactor::poll calls every waker it takes out of the map, and nothing    *)
(* else takes one out but register, which replaces it, and deregister.     *)
THEOREM WakersAreAccounted == Spec => WakersAccounted
<1>1. TypeOK /\ [Next]_vars =>
        \A f \in Fd : \A d \in Dir : \A t \in Task : Leaves(f, d, t) =>
          \/ t \in wakers'
          \/ \E u \in Task, o \in Op : Register(u, f, o) /\ Side(o) = d
          \/ Deregister(owner[f], f)
  BY LeavesCases
<1> QED
  BY TypeCorrect, <1>1, PTL DEF Spec, WakersAccounted

(* As long as tasks do not accept on each other's listeners, no task's     *)
(* waker is overwritten by another's or dropped with another's socket.     *)
THEOREM WakersAreNotLost ==
  ASSUME ~Shared PROVE Spec => WakersNotLost
<1>1. IInv /\ [Next]_vars =>
        \A f \in Fd : \A d \in Dir : \A t \in Task : Leaves(f, d, t) =>
          t \in wakers' \/ Deregister(t, f)
  <2> SUFFICES ASSUME IInv, [Next]_vars, NEW f \in Fd, NEW d \in Dir,
                      NEW t \in Task, Leaves(f, d, t)
               PROVE t \in wakers' \/ Deregister(t, f)
    OBVIOUS
  <2>1. owner[f] = t
    BY ConstAssumption DEF IInv, OwnWakers, Interest, Leaves
  <2>2. ASSUME NEW u \in Task, NEW o \in Op, Register(u, f, o), Side(o) = d
        PROVE FALSE
    <3>1. owner[f] = u
      BY <2>2, SMTT(60) DEF Register, IInv, Owned, NoOp, Op
    <3>2. waker'[f][d] = u
      BY <2>2, SMT DEF Register, IInv, TypeOK
    <3> QED
      BY <2>1, <3>1, <3>2 DEF Leaves
  <2> QED
    BY <2>1, <2>2, LeavesCases DEF IInv
<1> QED
  BY Invariance, <1>1, PTL DEF Spec, WakersNotLost

=============================================================================
