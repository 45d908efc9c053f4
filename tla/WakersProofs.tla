---------------------------- MODULE WakersProofs ----------------------------
(***************************************************************************)
(* Proofs about Wakers, for any numbers of tasks, clones, workers and      *)
(* addresses.                                                              *)
(***************************************************************************)
EXTENDS Wakers, FiniteSetTheorems, TLAPS

(* Where a task may be.  tick runs inside block_on only, and only a root   *)
(* that was spawned has a clone of flag_waker in its TaskState.            *)
Places ==
  /\ fresh \subseteq Task /\ finished \subseteq Task
  /\ fresh \cap finished = {}
  /\ map \cap (fresh \cup finished) = {}
  /\ calling = Nil => polling \cap LocalTask = {}
  /\ \A t, u \in polling \cap LocalTask : t = u
  /\ stored \cap fresh = {}

(* Ids come from a counter that is ahead of all of them.                   *)
Ids ==
  /\ next_id # 0
  /\ \A t \in Task : id[t] < next_id

(* The Waker of a Task lives as long as the Task: in the map, or in the    *)
(* hands of the thread that polls it.                                      *)
Lifetimes ==
  /\ \A t \in Task : ptr[t] # Nil <=> t \in map \cup polling
  /\ \A t \in Task : ptr[t] # Nil => made[t] = t
  /\ \A h \in Alive : made[h] \notin fresh

(* Runtime is dropped with its Tasks, and not within block_on.             *)
LocalGone ==
  "local" \notin open =>
    map \cap LocalTask = {} /\ calling = Nil /\ stored = {}

(* A worker polls one task at a time, and does not return within a poll.   *)
WorkersSuffice ==
  Cardinality(polling \cap SharedTask) <= Cardinality(workers)

IInv ==
  /\ TypeOK /\ Places /\ Ids /\ Lifetimes /\ WakersSound /\ BoxesOwned
  /\ StrongExact /\ FlagExact /\ LocalGone /\ WorkersSuffice

(* The part of TypeOK that is about boxes and the Wakers that own them.    *)
BoxTypes ==
  /\ box \in [Addr -> Nat]
  /\ ptr \in [Handle -> Addr \cup {Nil}]
  /\ made \in [Handle -> Task \cup {Nil}]
  /\ strong \in [{"local", "shared"} -> Int]

(* The Wakers that share the ownership of one ready queue or SharedState.  *)
Held(r) == {h \in Alive : Of(made[h]) = r}

(* What a strong count stands for.  None wraps; the ready queue, and       *)
(* SharedState, is freed when neither the runtime nor a worker nor a Waker *)
(* can reach it, and not before; and so is the flag of block_on.           *)
CountsMeanAlive ==
  /\ \A r \in {"local", "shared"} :
       /\ strong[r] >= 0
       /\ strong[r] = 0 <=>
            /\ r \notin open /\ Held(r) = {}
            /\ r = "shared" => workers = {}
  /\ \A t \in LocalTask :
       /\ count[t] >= 0
       /\ count[t] = 0 <=> calling # t /\ t \notin stored

(* A dropped Runtime leaves nothing behind once the clones of its wakers   *)
(* are gone: not its ready queue, not a box, not a flag, even when a panic *)
(* unwound block_on and left the root in the map.                          *)
LocalAllFreed ==
  "local" \notin open /\ (\A c \in Copy : made[c] \notin LocalTask) =>
    /\ strong["local"] = 0
    /\ \A a \in Addr : box[a] # 0 => \E h \in Held("shared") : ptr[h] = a
    /\ \A t \in LocalTask : count[t] = 0

(* The ids and boxes send a wake to the right task: a task in the map      *)
(* comes to be owed a poll only when it is spawned, or when a Waker that   *)
(* was made for it is used, although addresses are used again and ids of   *)
(* two runtimes come from one counter.                                     *)
WakesOwnTask ==
  [][\A t \in owed' \ owed :
       \/ t \in fresh
       \/ /\ t \in map
          /\ \E h \in Alive : InUse(h) /\ made[h] = t]_vars

(* What is left in SharedState::tasks when the workers have returned stays *)
(* there, and keeps SharedState for ever, by the cycle through its Waker.  *)
LeftoversStay ==
  [][\A t \in map \cap SharedTask :
       workers = {} => t \in map' /\ strong'["shared"] >= 1]_vars

-----------------------------------------------------------------------------

(* Zenon proves most leaves; the others cite SMT.                          *)
USE ZenonT(60)

(* There are finitely many Wakers.                                         *)
LEMMA HandleFinite == IsFiniteSet(Handle)
BY ConstAssumption, FS_Union DEF Handle

(* Before anything is spawned the invariant holds.                         *)
LEMMA InitHolds == Init => IInv
<1> SUFFICES ASSUME Init PROVE IInv
  OBVIOUS
<1> USE ConstAssumption DEF Init, Sched!Init
<1>1. Alive = {}
  BY DEF Alive
<1>2. TypeOK
  <2>1. strong \in [{"local", "shared"} -> Int]
    BY FS_CardinalityType, SMT
  <2>2. /\ id \in [Task -> Nat] /\ box \in [Addr -> Nat]
        /\ ptr \in [Handle -> Addr \cup {Nil}]
        /\ made \in [Handle -> Task \cup {Nil}]
        /\ count \in [LocalTask -> Int]
    BY SMT
  <2> QED
    BY <2>1, <2>2 DEF TypeOK
<1>3. StrongExact
  <2>1. \A r \in {"local", "shared"} : open \cap {r} = {r}
    OBVIOUS
  <2>2. \A r : {h \in Alive : Of(made[h]) = r} = {}
    BY <1>1
  <2>3. Cardinality(Worker) \in Nat
    BY FS_CardinalityType
  <2> QED
    BY <2>1, <2>2, <2>3, FS_EmptySet, FS_Singleton, SMTT(60) DEF StrongExact,
       Owners
<1>4. Places /\ Ids /\ Lifetimes /\ WakersSound /\ BoxesOwned /\ FlagExact
  BY <1>1, SMT DEF Places, Ids, Lifetimes, WakersSound, BoxesOwned, FlagExact,
     Task, Handle
<1>5. LocalGone /\ WorkersSuffice
  <2>1. polling \cap SharedTask = {} /\ workers = Worker
    OBVIOUS
  <2>2. Cardinality({}) = 0 /\ Cardinality(Worker) \in Nat
    BY FS_EmptySet, FS_CardinalityType
  <2>3. WorkersSuffice
    BY <2>1, <2>2, SMT DEF WorkersSuffice
  <2> QED
    BY <2>3 DEF LocalGone
<1> QED
  BY <1>2, <1>3, <1>4, <1>5 DEF IInv

(* What a waker pushes is the id of a task that has not finished.          *)
LEMMA PushOwes ==
  ASSUME TypeOK, NEW h \in Handle, Push(h)
  PROVE /\ UNCHANGED <<fresh, polling, finished>>
        /\ owed' \subseteq owed \cup (Task \ (fresh \cup finished))
BY SMT DEF Push, Sched!Wake, schedVars, TypeOK

(* It is the id of the task that the waker was made for.                   *)
LEMMA PushFindsOwn ==
  ASSUME TypeOK, Places, Lifetimes, WakersSound, NEW h \in Alive, Push(h)
  PROVE owed' \ owed \subseteq map \cap {made[h]}
<1> DEFINE found == {t \in map : Of(t) = Of(made[h]) /\ id[t] = box[ptr[h]]}
<1>1. made[h] \in Task /\ box[ptr[h]] = id[made[h]]
  BY DEF WakersSound
<1>2. ASSUME NEW t \in found PROVE t = made[h]
  <2>1. t \in Task \ fresh /\ id[t] = id[made[h]] /\ id[t] # 0
    BY <1>1, <1>2 DEF TypeOK, Places, WakersSound
  <2>2. made[h] \in Task \ fresh
    BY <1>1 DEF Lifetimes
  <2> QED
    BY <1>1, <2>1, <2>2 DEF WakersSound
<1>3. CASE found = {}
  BY <1>3 DEF Push, schedVars
<1>4. ASSUME NEW t \in found, Sched!Wake(t)
      PROVE owed' \ owed \subseteq map \cap {made[h]}
  BY <1>2, <1>4 DEF Sched!Wake
<1> QED
  BY <1>3, <1>4 DEF Push

(* What allocating and freeing do to the types.                            *)
LEMMA AllocateTypes ==
  ASSUME TypeOK, NEW h \in Handle, NEW t \in Task, NEW a \in Addr,
         NEW n \in Nat, Allocate(h, t, a, n)
  PROVE BoxTypes'
<1>1. Of(t) \in {"local", "shared"}
  BY DEF Of
<1> QED
  BY <1>1, SMT DEF TypeOK, BoxTypes, Allocate

(* Freeing a box, and its share of the queue or SharedState, keeps types.  *)
LEMMA FreeTypes ==
  ASSUME TypeOK, NEW h \in Handle, Free(h)
  PROVE BoxTypes'
<1>1. Of(made[h]) \in {"local", "shared"}
  BY DEF Of
<1>2. box' \in [Addr -> Nat]
  BY DEF TypeOK, Free
<1>3. ptr' \in [Handle -> Addr \cup {Nil}]
  BY DEF TypeOK, Free
<1>4. made' \in [Handle -> Task \cup {Nil}]
  BY DEF TypeOK, Free
<1>5. strong' \in [{"local", "shared"} -> Int]
  BY <1>1, SMTT(60) DEF TypeOK, Free
<1> QED
  BY <1>1, <1>2, <1>3, <1>4, <1>5 DEF BoxTypes

(* A new box has one more owner of what it refers to ...                   *)
LEMMA AllocateCounts ==
  ASSUME TypeOK, StrongExact, NEW h \in Handle, NEW t \in Task,
         NEW a \in Addr, NEW n, Allocate(h, t, a, n),
         UNCHANGED <<open, workers>>
  PROVE StrongExact'
<1> USE ConstAssumption
<1>1. h \notin Alive /\ ptr' = [ptr EXCEPT ![h] = a] /\ a # Nil
      /\ made' = [made EXCEPT ![h] = t]
      /\ strong' = [strong EXCEPT ![Of(t)] = @ + 1]
  BY DEF Allocate, Alive
<1> SUFFICES ASSUME NEW r \in {"local", "shared"} PROVE strong'[r] = Owners(r)'
  BY DEF StrongExact
<1>2. strong'[r] = IF r = Of(t) THEN strong[r] + 1 ELSE strong[r]
  BY <1>1 DEF TypeOK, Of
<1>3. Held(r)' = IF r = Of(t) THEN Held(r) \cup {h} ELSE Held(r)
  BY <1>1, SMT DEF Held, Alive, TypeOK, Of
<1>4. h \notin Held(r) /\ IsFiniteSet(Held(r)) /\ Cardinality(Held(r)) \in Nat
  <2>1. Held(r) \subseteq Handle /\ h \notin Held(r)
    BY <1>1 DEF Held, Alive
  <2> QED
    BY <2>1, HandleFinite, FS_Subset, FS_CardinalityType
<1>5. Cardinality(Held(r)') =
        IF r = Of(t) THEN Cardinality(Held(r)) + 1 ELSE Cardinality(Held(r))
  BY <1>3, <1>4, FS_AddElement
<1>6. strong[r] = Owners(r) /\ strong[r] \in Int
  BY DEF StrongExact, TypeOK
<1>7. PICK c : Owners(r) = Cardinality(open \cap {r})
                             + Cardinality(Held(r)) + c
               /\ Owners(r)' = Cardinality(open \cap {r})
                                 + Cardinality(Held(r)') + c
               /\ c \in Nat /\ Cardinality(open \cap {r}) \in Nat
  <2>1. Cardinality(workers) \in Nat
    BY FS_Subset, FS_CardinalityType DEF TypeOK
  <2>2. Cardinality(open \cap {r}) \in Nat
    BY FS_Singleton, FS_Subset, FS_CardinalityType
  <2> QED
    BY <2>1, <2>2 DEF Owners, Held
<1> QED
  BY <1>2, <1>4, <1>5, <1>6, <1>7, SMTT(60)

(* ... and one less when it is freed.                                      *)
LEMMA FreeCounts ==
  ASSUME TypeOK, StrongExact, NEW h \in Handle, ptr[h] # Nil,
         made[h] \in Task, Free(h), UNCHANGED <<open, workers>>
  PROVE StrongExact'
<1> USE ConstAssumption
<1>1. h \in Alive /\ ptr' = [ptr EXCEPT ![h] = Nil]
      /\ made' = [made EXCEPT ![h] = Nil]
      /\ strong' = [strong EXCEPT ![Of(made[h])] = @ - 1]
  BY DEF Free, Alive
<1> SUFFICES ASSUME NEW r \in {"local", "shared"} PROVE strong'[r] = Owners(r)'
  BY DEF StrongExact
<1>2. strong'[r] = IF r = Of(made[h]) THEN strong[r] - 1 ELSE strong[r]
  BY <1>1 DEF TypeOK, Of
<1>3. Held(r)' = Held(r) \ {h} /\ (h \in Held(r) <=> r = Of(made[h]))
  BY <1>1 DEF Held, Alive, TypeOK
<1>4. IsFiniteSet(Held(r)) /\ Cardinality(Held(r)) \in Nat
  <2>1. Held(r) \subseteq Handle
    BY DEF Held, Alive
  <2> QED
    BY <2>1, HandleFinite, FS_Subset, FS_CardinalityType
<1>5. Cardinality(Held(r)') = IF r = Of(made[h]) THEN Cardinality(Held(r)) - 1
                                                 ELSE Cardinality(Held(r))
  BY <1>3, <1>4, FS_RemoveElement
<1>6. strong[r] = Owners(r) /\ strong[r] \in Int
  BY DEF StrongExact, TypeOK
<1>7. PICK c : Owners(r) = Cardinality(open \cap {r})
                             + Cardinality(Held(r)) + c
               /\ Owners(r)' = Cardinality(open \cap {r})
                                 + Cardinality(Held(r)') + c
               /\ c \in Nat /\ Cardinality(open \cap {r}) \in Nat
  <2>1. Cardinality(workers) \in Nat
    BY FS_Subset, FS_CardinalityType DEF TypeOK
  <2>2. Cardinality(open \cap {r}) \in Nat
    BY FS_Singleton, FS_Subset, FS_CardinalityType
  <2> QED
    BY <2>1, <2>2 DEF Owners, Held
<1> QED
  BY <1>2, <1>4, <1>5, <1>6, <1>7, SMTT(60)

(* Every step keeps the types; a clone that outlives its task enqueues no  *)
(* task that has finished.                                                 *)
LEMMA TypeStep ==
  TypeOK /\ Places /\ [Next]_vars => TypeOK'
<1> SUFFICES ASSUME TypeOK, Places, [Next]_vars
             PROVE TypeOK'
  OBVIOUS
<1> USE ConstAssumption DEF schedVars, boxVars, flagVars, Frame, InUse, Alive,
        Task, Handle
<1>1. ASSUME NEW h \in Handle, NEW c \in Copy, NEW a \in Addr,
     LocalClone(h, c, a) \/ SharedClone(h, c, a)
      PROVE TypeOK'
  <2>1. made[h] \in Task /\ box[ptr[h]] \in Nat
    BY <1>1 DEF LocalClone, SharedClone, TypeOK
  <2>2. Allocate(c, made[h], a, box[ptr[h]]) /\ c \in Handle
    BY <1>1 DEF LocalClone, SharedClone
  <2>3. BoxTypes'
    BY <2>1, <2>2, AllocateTypes
  <2> QED
    BY <1>1, <2>3 DEF LocalClone, SharedClone, BoxTypes, TypeOK
<1>2. ASSUME NEW c \in Copy, LocalWake(c) \/ SharedWake(c)
      PROVE TypeOK'
  <2>1. Push(c) /\ Free(c) /\ Frame /\ c \in Handle
    BY <1>2 DEF LocalWake, SharedWake
  <2>2. BoxTypes'
    BY <2>1, FreeTypes
  <2>3. /\ UNCHANGED <<fresh, polling, finished>>
        /\ owed' \subseteq owed \cup (Task \ (fresh \cup finished))
    BY <2>1, PushOwes
  <2> QED
    BY <2>1, <2>2, <2>3 DEF BoxTypes, TypeOK
<1>3. ASSUME NEW h \in Handle, LocalWakeByRef(h) \/ SharedWakeByRef(h)
      PROVE TypeOK'
  <2>1. /\ UNCHANGED <<fresh, polling, finished>>
        /\ owed' \subseteq owed \cup (Task \ (fresh \cup finished))
    BY <1>3, PushOwes DEF LocalWakeByRef, SharedWakeByRef
  <2> QED
    BY <1>3, <2>1 DEF LocalWakeByRef, SharedWakeByRef, TypeOK, Places
<1>4. ASSUME NEW c \in Copy, LocalDrop(c) \/ SharedDrop(c)
      PROVE TypeOK'
  <2>1. Free(c) /\ UNCHANGED schedVars /\ Frame /\ c \in Handle
    BY <1>4 DEF LocalDrop, SharedDrop
  <2>2. BoxTypes'
    BY <2>1, FreeTypes
  <2> QED
    BY <2>1, <2>2 DEF BoxTypes, TypeOK
<1>5. ASSUME NEW t \in Task, NEW a \in Addr, LocalSpawn(t, a) \/
     SharedSpawn(t, a)
      PROVE TypeOK'
  <2>1. Sched!Spawn(t) /\ NextTaskId(t) /\ Allocate(t, t, a, id'[t])
        /\ map' = map \cup {t} /\ t \in Handle /\ id'[t] \in Nat
        /\ UNCHANGED <<open, shutdown, workers>>
    BY <1>5 DEF LocalSpawn, SharedSpawn, MakeTask, NextTaskId, TypeOK
  <2>2. BoxTypes'
    BY <2>1, AllocateTypes
  <2>3. calling' \in LocalTask \cup {Nil} /\ count' \in [LocalTask -> Int]
        /\ stored' \subseteq LocalTask
    BY <1>5 DEF LocalSpawn, SharedSpawn, TypeOK
  <2> QED
    BY <2>1, <2>2, <2>3, SMTT(60) DEF BoxTypes, TypeOK, Places, Sched!Spawn,
       NextTaskId
<1>6. ASSUME NEW t \in Task, NEW a \in Addr, BlockOn(t, a)
      PROVE TypeOK'
  <2>1. Sched!Spawn(t) /\ NextTaskId(t) /\ Allocate(t, t, a, id'[t])
        /\ map' = map \cup {t} /\ t \in Handle /\ id'[t] \in Nat
        /\ UNCHANGED <<open, shutdown, workers>>
    BY <1>6 DEF BlockOn, MakeTask, NextTaskId, TypeOK
  <2>2. BoxTypes'
    BY <2>1, AllocateTypes
  <2>3. calling' \in LocalTask \cup {Nil} /\ count' \in [LocalTask -> Int]
        /\ stored' \subseteq LocalTask
    BY <1>6, SMT DEF BlockOn, TypeOK
  <2> QED
    BY <2>1, <2>2, <2>3, SMT DEF BoxTypes, TypeOK, Places, Sched!Spawn,
       NextTaskId
<1>7. ASSUME NEW t \in Task, BeginPoll(t)
      PROVE TypeOK'
  BY <1>7 DEF BeginPoll, Sched!BeginPoll, TypeOK, Places
<1>8. ASSUME NEW t \in Task, PollPending(t)
      PROVE TypeOK'
  BY <1>8 DEF PollPending, Sched!PollPending, TypeOK, Places
<1>9. ASSUME NEW t \in Task, Remove(t)
      PROVE TypeOK'
  BY <1>9, SMT DEF Remove, FlagWake, DropClone, TypeOK, Places
<1>10. ASSUME NEW t \in Task, Release(t)
      PROVE TypeOK'
  <2>1. BoxTypes'
    BY <1>10, FreeTypes DEF Release
  <2> QED
    BY <1>10, <2>1 DEF Release, Sched!PollDone, BoxTypes, TypeOK
<1>11. CASE PollHandle
  BY <1>11, SMTT(60) DEF PollHandle, FlagClone, TypeOK, Places
<1>12. CASE Return
  BY <1>12, SMTT(60) DEF Return, DropLocals, TypeOK, Places
<1>13. ASSUME NEW t \in Task, PollPanics(t)
      PROVE TypeOK'
  <2>1. calling \in LocalTask
    BY <1>13 DEF PollPanics, Sched!PollPending, TypeOK, Places
  <2>2. count' \in [LocalTask -> Int]
    BY <1>13, <2>1, SMTT(60) DEF PollPanics, DropLocals, DropClone, TypeOK
  <2> QED
    BY <1>13, <2>2 DEF PollPanics, Sched!PollPending, DropLocals,
       DropClone, TypeOK
<1>14. CASE DropLocal
  <2>1. /\ box' \in [Addr -> Nat]
        /\ ptr' \in [Handle -> Addr \cup {Nil}]
        /\ made' \in [Handle -> Task \cup {Nil}]
    BY <1>14 DEF DropLocal, TypeOK
  <2>4. strong' \in [{"local", "shared"} -> Int]
    <3>1. IsFiniteSet(map \cap LocalTask)
      BY FS_Subset DEF TypeOK
    <3>2. Cardinality(map \cap LocalTask) \in Nat
      BY <3>1, FS_CardinalityType
    <3> QED
      BY <1>14, <3>2, SMTT(60) DEF DropLocal, TypeOK
  <2>2. count' \in [LocalTask -> Int]
    BY <1>14, SMTT(60) DEF DropLocal, TypeOK
  <2>3. polling \cap (map \cap LocalTask) = {}
    BY <1>14 DEF DropLocal, Places
  <2> QED
    BY <1>14, <2>1, <2>2, <2>3, <2>4 DEF DropLocal, TypeOK
<1>15. CASE Shutdown \/ DropShared
  <2>1. strong' \in [{"local", "shared"} -> Int]
    BY <1>15, SMTT(60) DEF Shutdown, DropShared, TypeOK
  <2> QED
    BY <1>15, <2>1 DEF Shutdown, DropShared, TypeOK
<1>16. ASSUME NEW w \in Worker, WorkerExits(w)
      PROVE TypeOK'
  BY <1>16, SMTT(60) DEF WorkerExits, TypeOK, Places
<1>17. CASE UNCHANGED vars
  BY <1>17 DEF vars, TypeOK
<1> QED
  BY <1>1, <1>2, <1>3, <1>4, <1>5, <1>6, <1>7, <1>8, <1>9, <1>10, <1>11,
     <1>12, <1>13, <1>14, <1>15, <1>16, <1>17
  DEF Next, VtableStep

(* Tasks go from fresh through the map to finished; a call of block_on     *)
(* leaves no poll behind.                                                  *)
LEMMA PlacesStep ==
  TypeOK /\ Places /\ [Next]_vars => Places'
<1> SUFFICES ASSUME TypeOK, Places, [Next]_vars
             PROVE Places'
  OBVIOUS
<1> USE ConstAssumption DEF schedVars, boxVars, flagVars, Frame, InUse, Alive,
        Task, Handle
<1>1. ASSUME NEW h \in Handle, NEW c \in Copy, NEW a \in Addr,
     LocalClone(h, c, a) \/ SharedClone(h, c, a)
      PROVE Places'
  BY <1>1 DEF LocalClone, SharedClone, Allocate, TypeOK, Places
<1>2. ASSUME NEW c \in Copy, LocalWake(c) \/ SharedWake(c)
      PROVE Places'
  <2>1. /\ UNCHANGED <<fresh, polling, finished>>
        /\ owed' \subseteq owed \cup (Task \ (fresh \cup finished))
    BY <1>2, PushOwes DEF LocalWake, SharedWake, Free
  <2> QED
    BY <1>2, <2>1 DEF LocalWake, SharedWake, Free, TypeOK, Places
<1>3. ASSUME NEW h \in Handle, LocalWakeByRef(h) \/ SharedWakeByRef(h)
      PROVE Places'
  <2>1. /\ UNCHANGED <<fresh, polling, finished>>
        /\ owed' \subseteq owed \cup (Task \ (fresh \cup finished))
    BY <1>3, PushOwes DEF LocalWakeByRef, SharedWakeByRef
  <2> QED
    BY <1>3, <2>1 DEF LocalWakeByRef, SharedWakeByRef, TypeOK, Places
<1>4. ASSUME NEW c \in Copy, LocalDrop(c) \/ SharedDrop(c)
      PROVE Places'
  BY <1>4 DEF LocalDrop, SharedDrop, Free, TypeOK, Places
<1>5. ASSUME NEW t \in Task, NEW a \in Addr, LocalSpawn(t, a) \/
     SharedSpawn(t, a)
      PROVE Places'
  BY <1>5, SMTT(60) DEF LocalSpawn, SharedSpawn, MakeTask, Sched!Spawn,
     NextTaskId, Allocate, TypeOK, Places
<1>6. ASSUME NEW t \in Task, NEW a \in Addr, BlockOn(t, a)
      PROVE Places'
  BY <1>6, SMTT(60) DEF BlockOn, MakeTask, Sched!Spawn, NextTaskId, Allocate,
     TypeOK, Places
<1>7. ASSUME NEW t \in Task, BeginPoll(t)
      PROVE Places'
  BY <1>7, SMT DEF BeginPoll, Sched!BeginPoll, TypeOK, Places
<1>8. ASSUME NEW t \in Task, PollPending(t)
      PROVE Places'
  BY <1>8 DEF PollPending, Sched!PollPending, TypeOK, Places
<1>9. ASSUME NEW t \in Task, Remove(t)
      PROVE Places'
  BY <1>9 DEF Remove, FlagWake, DropClone, TypeOK, Places
<1>10. ASSUME NEW t \in Task, Release(t)
      PROVE Places'
  BY <1>10, SMTT(60) DEF Release, Sched!PollDone, Free, TypeOK, Places
<1>11. CASE PollHandle
  BY <1>11, SMT DEF PollHandle, FlagClone, TypeOK, Places
<1>12. CASE Return
  BY <1>12 DEF Return, DropLocals, TypeOK, Places
<1>13. ASSUME NEW t \in Task, PollPanics(t)
      PROVE Places'
  BY <1>13, SMTT(60)
  DEF PollPanics, Sched!PollPending, DropLocals, DropClone, TypeOK, Places
<1>14. CASE DropLocal
  BY <1>14 DEF DropLocal, TypeOK, Places
<1>15. CASE Shutdown \/ DropShared
  BY <1>15 DEF Shutdown, DropShared, TypeOK, Places
<1>16. ASSUME NEW w \in Worker, WorkerExits(w)
      PROVE Places'
  BY <1>16 DEF WorkerExits, TypeOK, Places
<1>17. CASE UNCHANGED vars
  BY <1>17 DEF vars, Places
<1> QED
  BY <1>1, <1>2, <1>3, <1>4, <1>5, <1>6, <1>7, <1>8, <1>9, <1>10, <1>11,
     <1>12, <1>13, <1>14, <1>15, <1>16, <1>17
  DEF Next, VtableStep

(* The Waker of a Task is dropped with the last Rc or Arc of the Task,     *)
(* which the poll holds when the map does not.                             *)
LEMMA LifetimesStep ==
  TypeOK /\ Places /\ Lifetimes /\ [Next]_vars => Lifetimes'
<1> SUFFICES ASSUME TypeOK, Places, Lifetimes, [Next]_vars
             PROVE Lifetimes'
  OBVIOUS
<1> USE ConstAssumption DEF schedVars, boxVars, flagVars, Frame, InUse, Alive,
        Task, Handle
<1>1. ASSUME NEW h \in Handle, NEW c \in Copy, NEW a \in Addr,
     LocalClone(h, c, a) \/ SharedClone(h, c, a)
      PROVE Lifetimes'
  BY <1>1, SMTT(60) DEF LocalClone, SharedClone, Allocate, TypeOK, Places,
     Lifetimes
<1>2. ASSUME NEW c \in Copy, LocalWake(c) \/ SharedWake(c)
      PROVE Lifetimes'
  <2>1. /\ UNCHANGED <<fresh, polling, finished>>
        /\ owed' \subseteq owed \cup (Task \ (fresh \cup finished))
    BY <1>2, PushOwes DEF LocalWake, SharedWake, Free
  <2> QED
    BY <1>2, <2>1, SMTT(60) DEF LocalWake, SharedWake, Free, TypeOK, Places,
       Lifetimes
<1>3. ASSUME NEW h \in Handle, LocalWakeByRef(h) \/ SharedWakeByRef(h)
      PROVE Lifetimes'
  <2>1. /\ UNCHANGED <<fresh, polling, finished>>
        /\ owed' \subseteq owed \cup (Task \ (fresh \cup finished))
    BY <1>3, PushOwes DEF LocalWakeByRef, SharedWakeByRef
  <2> QED
    BY <1>3, <2>1 DEF LocalWakeByRef, SharedWakeByRef, TypeOK, Places,
       Lifetimes
<1>4. ASSUME NEW c \in Copy, LocalDrop(c) \/ SharedDrop(c)
      PROVE Lifetimes'
  BY <1>4, SMTT(60) DEF LocalDrop, SharedDrop, Free, TypeOK, Places, Lifetimes
<1>5. ASSUME NEW t \in Task, NEW a \in Addr, LocalSpawn(t, a) \/
     SharedSpawn(t, a)
      PROVE Lifetimes'
  BY <1>5, SMTT(60) DEF LocalSpawn, SharedSpawn, MakeTask, Sched!Spawn,
     NextTaskId, Allocate, TypeOK, Places, Lifetimes
<1>6. ASSUME NEW t \in Task, NEW a \in Addr, BlockOn(t, a)
      PROVE Lifetimes'
  BY <1>6 DEF BlockOn, MakeTask, Sched!Spawn, NextTaskId, Allocate, TypeOK,
     Places, Lifetimes
<1>7. ASSUME NEW t \in Task, BeginPoll(t)
      PROVE Lifetimes'
  BY <1>7 DEF BeginPoll, Sched!BeginPoll, TypeOK, Places, Lifetimes
<1>8. ASSUME NEW t \in Task, PollPending(t)
      PROVE Lifetimes'
  BY <1>8 DEF PollPending, Sched!PollPending, TypeOK, Places, Lifetimes
<1>9. ASSUME NEW t \in Task, Remove(t)
      PROVE Lifetimes'
  BY <1>9 DEF Remove, FlagWake, DropClone, TypeOK, Places, Lifetimes
<1>10. ASSUME NEW t \in Task, Release(t)
      PROVE Lifetimes'
  BY <1>10 DEF Release, Sched!PollDone, Free, TypeOK, Places, Lifetimes
<1>11. CASE PollHandle
  BY <1>11 DEF PollHandle, FlagClone, TypeOK, Places, Lifetimes
<1>12. CASE Return
  BY <1>12 DEF Return, DropLocals, TypeOK, Places, Lifetimes
<1>13. ASSUME NEW t \in Task, PollPanics(t)
      PROVE Lifetimes'
  BY <1>13 DEF PollPanics, Sched!PollPending, DropLocals, DropClone, TypeOK,
     Places,
     Lifetimes
<1>14. CASE DropLocal
  BY <1>14 DEF DropLocal, TypeOK, Places, Lifetimes
<1>15. CASE Shutdown \/ DropShared
  BY <1>15 DEF Shutdown, DropShared, TypeOK, Places, Lifetimes
<1>16. ASSUME NEW w \in Worker, WorkerExits(w)
      PROVE Lifetimes'
  BY <1>16 DEF WorkerExits, TypeOK, Places, Lifetimes
<1>17. CASE UNCHANGED vars
  BY <1>17 DEF vars, Lifetimes
<1> QED
  BY <1>1, <1>2, <1>3, <1>4, <1>5, <1>6, <1>7, <1>8, <1>9, <1>10, <1>11,
     <1>12, <1>13, <1>14, <1>15, <1>16, <1>17
  DEF Next, VtableStep


(* What a step may do to the boxes and their Wakers.                       *)
LEMMA BoxSteps ==
  ASSUME TypeOK, Lifetimes, [Next]_vars
  PROVE \/ UNCHANGED <<fresh, next_id, id, box, ptr, made>>
        \/ \E h \in Alive, c \in Copy, a \in Addr :
             /\ Allocate(c, made[h], a, box[ptr[h]])
             /\ UNCHANGED <<fresh, next_id, id>>
        \/ \E t \in Task, a \in Addr :
             /\ Sched!Spawn(t) /\ NextTaskId(t) /\ Allocate(t, t, a, id'[t])
        \/ \E h \in Alive : Free(h) /\ UNCHANGED <<fresh, next_id, id>>
        \/ DropLocal
<1> USE DEF schedVars, boxVars, Frame
<1>1. ASSUME NEW h \in Handle, NEW c \in Copy, NEW a \in Addr,
             LocalClone(h, c, a) \/ SharedClone(h, c, a)
      PROVE \E k \in Alive, d \in Copy, b \in Addr :
              /\ Allocate(d, made[k], b, box[ptr[k]])
              /\ UNCHANGED <<fresh, next_id, id>>
  BY <1>1 DEF LocalClone, SharedClone, InUse, Alive
<1>2. ASSUME NEW c \in Copy, LocalWake(c) \/ SharedWake(c)
      PROVE \E h \in Alive : Free(h) /\ UNCHANGED <<fresh, next_id, id>>
  <2>1. c \in Alive /\ Free(c) /\ Push(c) /\ UNCHANGED <<next_id, id>>
    BY <1>2 DEF LocalWake, SharedWake, InUse, Alive, Handle
  <2> QED
    BY <2>1, PushOwes DEF Alive
<1>3. ASSUME NEW h \in Handle, LocalWakeByRef(h) \/ SharedWakeByRef(h)
      PROVE UNCHANGED <<fresh, next_id, id, box, ptr, made>>
  BY <1>3, PushOwes DEF LocalWakeByRef, SharedWakeByRef
<1>4. ASSUME NEW c \in Copy, LocalDrop(c) \/ SharedDrop(c)
      PROVE \E h \in Alive : Free(h) /\ UNCHANGED <<fresh, next_id, id>>
  BY <1>4 DEF LocalDrop, SharedDrop, InUse, Alive, Handle
<1>5. ASSUME NEW t \in Task, NEW a \in Addr,
             LocalSpawn(t, a) \/ SharedSpawn(t, a) \/ BlockOn(t, a)
      PROVE Sched!Spawn(t) /\ NextTaskId(t) /\ Allocate(t, t, a, id'[t])
  BY <1>5 DEF LocalSpawn, SharedSpawn, BlockOn, MakeTask
<1>6. ASSUME NEW t \in Task, Release(t)
      PROVE \E h \in Alive : Free(h) /\ UNCHANGED <<fresh, next_id, id>>
  BY <1>6 DEF Release, Sched!PollDone, Lifetimes, Alive, Handle
<1>7. ASSUME NEW t \in Task, BeginPoll(t) \/ PollPending(t) \/ Remove(t)
                               \/ PollPanics(t)
      PROVE UNCHANGED <<fresh, next_id, id, box, ptr, made>>
  BY <1>7 DEF BeginPoll, Sched!BeginPoll, PollPending, Sched!PollPending,
     Remove, PollPanics
<1>8. ASSUME \/ PollHandle \/ Return \/ Shutdown \/ DropShared
             \/ UNCHANGED vars \/ \E w \in Worker : WorkerExits(w)
      PROVE UNCHANGED <<fresh, next_id, id, box, ptr, made>>
  BY <1>8 DEF PollHandle, Return, Shutdown, DropShared, WorkerExits, vars
<1>9. CASE VtableStep
  BY <1>9, <1>1, <1>2, <1>3, <1>4 DEF VtableStep
<1> HIDE DEF schedVars, boxVars, Frame
<1> QED
  BY <1>5, <1>6, <1>7, <1>8, <1>9 DEF Next

(* next_task_id only counts up.                                            *)
LEMMA IdsStep ==
  TypeOK /\ Lifetimes /\ Ids /\ [Next]_vars => Ids'
<1> SUFFICES ASSUME TypeOK, Lifetimes, Ids, [Next]_vars
             PROVE Ids'
  OBVIOUS
<1> USE ConstAssumption DEF Alive, Task, Handle
<1>1. CASE UNCHANGED <<fresh, next_id, id, box, ptr, made>>
  BY <1>1 DEF TypeOK, Lifetimes, Ids
<1>2. ASSUME NEW h \in Alive, NEW c \in Copy, NEW a \in Addr,
             Allocate(c, made[h], a, box[ptr[h]]), UNCHANGED <<fresh, next_id,
             id>>
      PROVE Ids'
  BY <1>2 DEF Allocate, TypeOK, Lifetimes, Ids
<1>3. ASSUME NEW t \in Task, NEW a \in Addr, Sched!Spawn(t), NextTaskId(t),
             Allocate(t, t, a, id'[t])
      PROVE Ids'
  BY <1>3, SMTT(60)
  DEF Sched!Spawn, NextTaskId, Allocate, TypeOK, Lifetimes, Ids
<1>4. ASSUME NEW h \in Alive, Free(h), UNCHANGED <<fresh, next_id, id>>
      PROVE Ids'
  BY <1>4 DEF Free, TypeOK, Lifetimes, Ids
<1>5. CASE DropLocal
  BY <1>5 DEF DropLocal, TypeOK, Lifetimes, Ids
<1> HIDE DEF Alive
<1> QED
  BY <1>1, <1>2, <1>3, <1>4, <1>5, BoxSteps

(* clone makes a new box with the id of the old one; wake by value and     *)
(* drop free the box and end the Waker.                                    *)
LEMMA SoundStep ==
  TypeOK /\ Places /\ Ids /\ Lifetimes /\ WakersSound /\ [Next]_vars =>
    WakersSound'
<1> SUFFICES ASSUME TypeOK, Places, Ids, Lifetimes, WakersSound, [Next]_vars
             PROVE WakersSound'
  OBVIOUS
<1> USE ConstAssumption DEF Alive, Task, Handle
<1>1. CASE UNCHANGED <<fresh, next_id, id, box, ptr, made>>
  BY <1>1 DEF TypeOK, Places, Ids, Lifetimes, WakersSound
<1>2. ASSUME NEW h \in Alive, NEW c \in Copy, NEW a \in Addr,
             Allocate(c, made[h], a, box[ptr[h]]), UNCHANGED <<fresh, next_id,
             id>>
      PROVE WakersSound'
  BY <1>2, SMTT(60) DEF Allocate, TypeOK, Places, Ids, Lifetimes, WakersSound
<1>3. ASSUME NEW t \in Task, NEW a \in Addr, Sched!Spawn(t), NextTaskId(t),
             Allocate(t, t, a, id'[t])
      PROVE WakersSound'
  BY <1>3, SMTT(60) DEF Sched!Spawn, NextTaskId, Allocate, TypeOK, Places,
     Ids, Lifetimes, WakersSound
<1>4. ASSUME NEW h \in Alive, Free(h), UNCHANGED <<fresh, next_id, id>>
      PROVE WakersSound'
  BY <1>4 DEF Free, TypeOK, Places, Ids, Lifetimes, WakersSound
<1>5. CASE DropLocal
  <2> DEFINE gone == map \cap LocalTask
  <2>1. \A t \in gone : t \in Alive
    BY DEF Lifetimes, TypeOK
  <2>2. \A h \in Alive' : h \in Alive /\ h \notin gone /\ ptr'[h] = ptr[h]
                          /\ made'[h] = made[h]
    BY <1>5 DEF DropLocal
  <2>3. \A h \in Alive' : box'[ptr[h]] = box[ptr[h]]
    <3> SUFFICES ASSUME NEW h \in Alive' PROVE box'[ptr[h]] = box[ptr[h]]
      OBVIOUS
    <3>1. ptr[h] \in Addr /\ ~ \E t \in gone : ptr[t] = ptr[h]
      BY <2>1, <2>2, SMT DEF TypeOK, WakersSound
    <3> QED
      BY <1>5, <3>1 DEF DropLocal
  <2>4. fresh' = fresh /\ id' = id
    BY <1>5 DEF DropLocal
  <2> HIDE DEF gone, Alive
  <2> QED
    BY <2>2, <2>3, <2>4, SMT DEF WakersSound
<1> HIDE DEF Alive
<1> QED
  BY <1>1, <1>2, <1>3, <1>4, <1>5, BoxSteps

(* A box is freed with its only Waker.                                     *)
LEMMA LeaksStep ==
  TypeOK /\ Lifetimes /\ WakersSound /\ BoxesOwned /\ [Next]_vars =>
    BoxesOwned'
<1> SUFFICES ASSUME TypeOK, Lifetimes, WakersSound, BoxesOwned, [Next]_vars
             PROVE BoxesOwned'
  OBVIOUS
<1> USE ConstAssumption DEF Alive, Task, Handle
<1>1. CASE UNCHANGED <<fresh, next_id, id, box, ptr, made>>
  BY <1>1 DEF TypeOK, Lifetimes, WakersSound, BoxesOwned
<1>2. ASSUME NEW h \in Alive, NEW c \in Copy, NEW a \in Addr,
             Allocate(c, made[h], a, box[ptr[h]]), UNCHANGED <<fresh, next_id,
             id>>
      PROVE BoxesOwned'
  BY <1>2, SMTT(60) DEF Allocate, TypeOK, Lifetimes, WakersSound, BoxesOwned
<1>3. ASSUME NEW t \in Task, NEW a \in Addr, Sched!Spawn(t), NextTaskId(t),
             Allocate(t, t, a, id'[t])
      PROVE BoxesOwned'
  BY <1>3, SMTT(60) DEF Sched!Spawn, NextTaskId, Allocate, TypeOK, Lifetimes,
     WakersSound, BoxesOwned
<1>4. ASSUME NEW h \in Alive, Free(h), UNCHANGED <<fresh, next_id, id>>
      PROVE BoxesOwned'
  BY <1>4, SMTT(60) DEF Free, TypeOK, Lifetimes, WakersSound, BoxesOwned
<1>5. CASE DropLocal
  BY <1>5 DEF DropLocal, TypeOK, Lifetimes, WakersSound, BoxesOwned
<1> HIDE DEF Alive
<1> QED
  BY <1>1, <1>2, <1>3, <1>4, <1>5, BoxSteps

(* The flag of block_on: what a clone adds is dropped by its wake, its     *)
(* replacement or the end of the Task.                                     *)
LEMMA FlagStep ==
  TypeOK /\ Places /\ FlagExact /\ [Next]_vars => FlagExact'
<1> SUFFICES ASSUME TypeOK, Places, FlagExact, [Next]_vars
             PROVE FlagExact'
  OBVIOUS
<1> USE ConstAssumption DEF Task
<1>1. CASE UNCHANGED flagVars
  BY <1>1 DEF FlagExact, flagVars
<1>2. ASSUME NEW t \in Task, NEW a \in Addr, BlockOn(t, a)
      PROVE FlagExact'
  BY <1>2, SMTT(60) DEF BlockOn, MakeTask, Sched!Spawn, TypeOK, Places,
     FlagExact
<1>3. ASSUME NEW t \in Task, Remove(t)
      PROVE FlagExact'
  BY <1>3, SMTT(60) DEF Remove, FlagWake, DropClone, TypeOK, FlagExact
<1>4. CASE PollHandle
  BY <1>4, SMTT(60) DEF PollHandle, FlagClone, TypeOK, FlagExact
<1>5. CASE Return
  BY <1>5, SMTT(60) DEF Return, DropLocals, TypeOK, FlagExact
<1>6. ASSUME NEW t \in Task, PollPanics(t)
      PROVE FlagExact'
  <2>1. calling # Nil
    BY <1>6 DEF PollPanics, Sched!PollPending, Places
  <2> QED
    BY <1>6, <2>1, SMTT(60) DEF PollPanics, DropLocals, DropClone, TypeOK,
       FlagExact
<1>7. CASE DropLocal
  BY <1>7, SMTT(60) DEF DropLocal, TypeOK, FlagExact
<1>8. ASSUME NEW t \in Task, NEW a \in Addr,
             LocalSpawn(t, a) \/ SharedSpawn(t, a)
      PROVE UNCHANGED flagVars
  BY <1>8, SMT DEF LocalSpawn, SharedSpawn, flagVars
<1>9. ASSUME VtableStep
      PROVE UNCHANGED flagVars
  BY <1>9 DEF VtableStep, LocalClone, SharedClone, LocalWake, SharedWake,
     LocalWakeByRef, SharedWakeByRef, LocalDrop, SharedDrop, Frame, flagVars
<1>10. ASSUME NEW t \in Task, BeginPoll(t) \/ PollPending(t) \/ Release(t)
       PROVE UNCHANGED flagVars
  BY <1>10 DEF BeginPoll, PollPending, Release, flagVars
<1>11. ASSUME \/ Shutdown \/ DropShared \/ UNCHANGED vars
              \/ \E w \in Worker : WorkerExits(w)
       PROVE UNCHANGED flagVars
  BY <1>11 DEF Shutdown, DropShared, WorkerExits, vars, flagVars
<1> QED
  BY <1>1, <1>2, <1>3, <1>4, <1>5, <1>6, <1>7, <1>8, <1>9, <1>10, <1>11
  DEF Next


(* Only boxes, runtimes and workers own a ready queue or a SharedState.    *)
LEMMA SameCounts ==
  ASSUME StrongExact, UNCHANGED <<ptr, made, strong, open, workers>>
  PROVE StrongExact'
BY DEF StrongExact, Owners, Alive

(* Every box owns one Rc or Arc, for as long as it is allocated.           *)
LEMMA StrongStep ==
  TypeOK /\ Lifetimes /\ WakersSound /\ StrongExact /\ [Next]_vars =>
    StrongExact'
<1> SUFFICES ASSUME TypeOK, Lifetimes, WakersSound, StrongExact, [Next]_vars
             PROVE StrongExact'
  OBVIOUS
<1> USE ConstAssumption DEF boxVars, Frame, Task, Handle
<1>1. ASSUME NEW h \in Handle, NEW c \in Copy, NEW a \in Addr,
     LocalClone(h, c, a) \/ SharedClone(h, c, a)
      PROVE StrongExact'
  <2>1. Allocate(c, made[h], a, box[ptr[h]]) /\ UNCHANGED <<open, workers>>
    BY <1>1 DEF LocalClone, SharedClone
  <2>2. made[h] \in Task /\ c \in Handle
    BY <1>1 DEF LocalClone, SharedClone, TypeOK
  <2> QED
    BY <2>1, <2>2, AllocateCounts
<1>2. ASSUME NEW c \in Copy, LocalWake(c) \/ SharedWake(c)
      PROVE StrongExact'
  <2>1. Free(c) /\ UNCHANGED <<open, workers>>
    BY <1>2 DEF LocalWake, SharedWake
  <2>2. c \in Handle /\ ptr[c] # Nil
    BY <1>2 DEF LocalWake, SharedWake, InUse, Lifetimes
  <2>3. made[c] \in Task
    BY <2>2 DEF WakersSound, Alive
  <2> QED
    BY <2>1, <2>2, <2>3, FreeCounts
<1>3. ASSUME NEW h \in Handle, LocalWakeByRef(h) \/ SharedWakeByRef(h)
      PROVE StrongExact'
  BY <1>3, SameCounts, SMTT(60) DEF LocalWakeByRef, SharedWakeByRef
<1>4. ASSUME NEW c \in Copy, LocalDrop(c) \/ SharedDrop(c)
      PROVE StrongExact'
  <2>1. Free(c) /\ UNCHANGED <<open, workers>>
    BY <1>4 DEF LocalDrop, SharedDrop
  <2>2. c \in Handle /\ ptr[c] # Nil
    BY <1>4 DEF LocalDrop, SharedDrop, InUse, Lifetimes
  <2>3. made[c] \in Task
    BY <2>2 DEF WakersSound, Alive
  <2> QED
    BY <2>1, <2>2, <2>3, FreeCounts
<1>5. ASSUME NEW t \in Task, NEW a \in Addr, LocalSpawn(t, a) \/
     SharedSpawn(t, a)
      PROVE StrongExact'
  <2>1. Allocate(t, t, a, id'[t]) /\ UNCHANGED <<open, workers>>
    BY <1>5 DEF LocalSpawn, SharedSpawn, MakeTask
  <2>2. t \in Handle
    BY <1>5 DEF LocalSpawn, SharedSpawn, MakeTask, TypeOK
  <2> QED
    BY <2>1, <2>2, AllocateCounts
<1>6. ASSUME NEW t \in Task, NEW a \in Addr, BlockOn(t, a)
      PROVE StrongExact'
  <2>1. Allocate(t, t, a, id'[t]) /\ UNCHANGED <<open, workers>>
    BY <1>6 DEF BlockOn, MakeTask
  <2>2. t \in Handle
    BY <1>6 DEF BlockOn, MakeTask, TypeOK
  <2> QED
    BY <2>1, <2>2, AllocateCounts
<1>7. ASSUME NEW t \in Task, BeginPoll(t)
      PROVE StrongExact'
  BY <1>7, SameCounts DEF BeginPoll, Sched!BeginPoll
<1>8. ASSUME NEW t \in Task, PollPending(t)
      PROVE StrongExact'
  BY <1>8, SameCounts DEF PollPending, Sched!PollPending
<1>9. ASSUME NEW t \in Task, Remove(t)
      PROVE StrongExact'
  BY <1>9, SameCounts DEF Remove, FlagWake, DropClone
<1>10. ASSUME NEW t \in Task, Release(t)
      PROVE StrongExact'
  <2>1. Free(t) /\ UNCHANGED <<open, workers>>
    BY <1>10 DEF Release
  <2>2. t \in Handle /\ ptr[t] # Nil
    BY <1>10 DEF Release, InUse, Lifetimes, Sched!PollDone
  <2>3. made[t] \in Task
    BY <2>2 DEF WakersSound, Alive
  <2> QED
    BY <2>1, <2>2, <2>3, FreeCounts
<1>11. CASE PollHandle
  BY <1>11, SameCounts DEF PollHandle, FlagClone
<1>12. CASE Return
  BY <1>12, SameCounts DEF Return, DropLocals
<1>13. ASSUME NEW t \in Task, PollPanics(t)
      PROVE StrongExact'
  BY <1>13, SameCounts DEF PollPanics, Sched!PollPending, DropLocals, DropClone
<1>14. CASE DropLocal
  <2> DEFINE gone == map \cap LocalTask
  <2>1. /\ "local" \in open /\ open' = open \ {"local"} /\ workers' = workers
        /\ strong' = [strong EXCEPT !["local"] =
                                    strong["local"] - (Cardinality(gone) + 1)]
        /\ ptr' = [h \in Handle |-> IF h \in gone THEN Nil ELSE ptr[h]]
        /\ made' = [h \in Handle |-> IF h \in gone THEN Nil ELSE made[h]]
    BY <1>14 DEF DropLocal
  <2>2. gone \subseteq Held("local") /\ gone \cap Held("shared") = {}
    BY SMT DEF Lifetimes, Held, Alive, Of, TypeOK
  <2>3. \A r : Held(r)' = Held(r) \ gone
    BY <2>1 DEF Held, Alive
  <2>4. \A r : IsFiniteSet(Held(r)) /\ Cardinality(Held(r)) \in Nat
    <3>1. \A r : Held(r) \subseteq Handle
      BY DEF Held, Alive
    <3> QED
      BY <3>1, HandleFinite, FS_Subset, FS_CardinalityType
  <2>5. /\ Cardinality(Held("local")') =
             Cardinality(Held("local")) - Cardinality(gone)
        /\ Cardinality(gone) \in Nat
    <3>1. Held("local") \cap gone = gone
      BY <2>2
    <3>2. IsFiniteSet(gone)
      BY <2>2, <2>4, FS_Subset
    <3> QED
      <4>1. Cardinality(Held("local") \ gone) =
              Cardinality(Held("local")) - Cardinality(Held("local") \cap gone)
        BY <2>4, FS_Difference
      <4>2. Held("local")' = Held("local") \ gone
        BY <2>3
      <4> HIDE DEF gone
      <4> QED
        BY <3>1, <3>2, <4>1, <4>2, FS_CardinalityType
  <2>6. Held("shared")' = Held("shared")
    BY <2>2, <2>3
  <2>7. Cardinality(open \cap {"local"}) = 1
        /\ Cardinality(open' \cap {"local"}) = 0
    <3>1. open \cap {"local"} = {"local"} /\ open' \cap {"local"} = {}
      BY <2>1
    <3> QED
      BY <3>1, FS_Singleton, FS_EmptySet
  <2>8. open' \cap {"shared"} = open \cap {"shared"}
    BY <2>1
  <2>9. strong'["local"] = strong["local"] - (Cardinality(gone) + 1)
        /\ strong'["shared"] = strong["shared"]
    BY <2>1 DEF TypeOK
  <2>10. strong'["local"] = Owners("local")'
    <3>1. strong["local"] = 1 + Cardinality(Held("local"))
      <4>1. Owners("local") = 1 + Cardinality(Held("local")) + 0
        BY <2>7 DEF Owners, Held
      <4>2. strong["local"] = Owners("local")
        BY DEF StrongExact
      <4> QED
        BY <2>4, <4>1, <4>2, SMTT(60)
    <3>2. Owners("local")' = 0 + Cardinality(Held("local")') + 0
      BY <2>7 DEF Owners, Held
    <3> QED
      BY <2>4, <2>5, <2>9, <3>1, <3>2, SMTT(60)
  <2>11. strong'["shared"] = Owners("shared")'
    BY <2>1, <2>6, <2>8, <2>9 DEF StrongExact, Owners, Held
  <2> QED
    BY <2>10, <2>11 DEF StrongExact
<1>15. CASE Shutdown \/ DropShared
  <2>1. CASE Shutdown
    BY <2>1, SameCounts DEF Shutdown
  <2>2. CASE DropShared
    <3>1. Cardinality(open \cap {"shared"}) = 1
          /\ Cardinality(open' \cap {"shared"}) = 0
      <4>1. open \cap {"shared"} = {"shared"} /\ open' \cap {"shared"} = {}
        BY <2>2 DEF DropShared
      <4> QED
        BY <4>1, FS_Singleton, FS_EmptySet
    <3>2. open' \cap {"local"} = open \cap {"local"}
      BY <2>2 DEF DropShared
    <3>3. Held("shared")' = Held("shared") /\ Held("local")' = Held("local")
      BY <2>2 DEF DropShared, Held, Alive
    <3>4. Cardinality(Held("shared")) \in Nat /\ Cardinality(workers) \in Nat
      <4>1. Held("shared") \subseteq Handle
        BY DEF Held, Alive
      <4> QED
        BY <4>1, HandleFinite, FS_Subset, FS_CardinalityType DEF TypeOK
    <3>5. strong'["shared"] = strong["shared"] - 1
          /\ strong'["local"] = strong["local"] /\ workers' = workers
      BY <2>2 DEF DropShared, TypeOK
    <3>6. strong'["shared"] = Owners("shared")'
      <4>1. Owners("shared") =
              1 + Cardinality(Held("shared")) + Cardinality(workers)
        BY <3>1 DEF Owners, Held
      <4>2. Owners("shared")' =
              0 + Cardinality(Held("shared")') + Cardinality(workers')
        BY <3>1 DEF Owners, Held
      <4>3. strong["shared"] = Owners("shared")
        BY DEF StrongExact
      <4> QED
        BY <3>3, <3>4, <3>5, <4>1, <4>2, <4>3, SMTT(60)
    <3>7. strong'["local"] = Owners("local")'
      BY <3>2, <3>3, <3>5 DEF StrongExact, Owners, Held
    <3> QED
      BY <3>6, <3>7 DEF StrongExact
  <2> QED
    BY <1>15, <2>1, <2>2
<1>16. ASSUME NEW w \in Worker, WorkerExits(w)
      PROVE StrongExact'
  <2>1. Held("shared")' = Held("shared") /\ Held("local")' = Held("local")
        /\ open' = open
    BY <1>16 DEF WorkerExits, Held, Alive
  <2>2. Cardinality(workers') = Cardinality(workers) - 1
        /\ Cardinality(workers) \in Nat
    <3>1. IsFiniteSet(workers)
      BY FS_Subset DEF TypeOK
    <3> QED
      BY <1>16, <3>1, FS_RemoveElement, FS_CardinalityType
      DEF WorkerExits
  <2>3. strong'["shared"] = strong["shared"] - 1
        /\ strong'["local"] = strong["local"]
    BY <1>16 DEF WorkerExits, TypeOK
  <2>4. Cardinality(Held("shared")) \in Nat
        /\ Cardinality(open \cap {"shared"}) \in Nat
    <3>1. Held("shared") \subseteq Handle
      BY DEF Held, Alive
    <3>2. IsFiniteSet(open \cap {"shared"})
      BY FS_Singleton, FS_Subset
    <3> QED
      BY <3>1, <3>2, HandleFinite, FS_Subset, FS_CardinalityType
  <2>5. strong'["shared"] = Owners("shared")'
    <3>1. Owners("shared") = Cardinality(open \cap {"shared"})
            + Cardinality(Held("shared")) + Cardinality(workers)
      BY DEF Owners, Held
    <3>2. Owners("shared")' = Cardinality(open' \cap {"shared"})
            + Cardinality(Held("shared")') + Cardinality(workers')
      BY DEF Owners, Held
    <3>3. strong["shared"] = Owners("shared")
      BY DEF StrongExact
    <3> QED
      BY <2>1, <2>2, <2>3, <2>4, <3>1, <3>2, <3>3, SMTT(60)
  <2>6. strong'["local"] = Owners("local")'
    BY <2>1, <2>3 DEF StrongExact, Owners, Held
  <2> QED
    BY <2>5, <2>6 DEF StrongExact
<1>17. CASE UNCHANGED vars
  BY <1>17, SameCounts DEF vars
<1> QED
  BY <1>1, <1>2, <1>3, <1>4, <1>5, <1>6, <1>7, <1>8, <1>9, <1>10, <1>11,
     <1>12, <1>13, <1>14, <1>15, <1>16, <1>17, SMTT(60)
  DEF Next, VtableStep


(* Nothing is spawned on a Runtime that was dropped, and no block_on of it *)
(* begins.                                                                 *)
LEMMA LocalGoneStep ==
  TypeOK /\ LocalGone /\ [Next]_vars => LocalGone'
<1> SUFFICES ASSUME TypeOK, LocalGone, [Next]_vars
             PROVE LocalGone'
  OBVIOUS
<1> USE ConstAssumption DEF Task, flagVars
<1>1. CASE UNCHANGED <<open, map, calling, stored>>
  BY <1>1 DEF LocalGone
<1>2. ASSUME NEW t \in Task, NEW a \in Addr,
             LocalSpawn(t, a) \/ SharedSpawn(t, a) \/ BlockOn(t, a)
      PROVE LocalGone'
  BY <1>2 DEF LocalSpawn, SharedSpawn, BlockOn, MakeTask, Of, LocalGone
<1>3. ASSUME NEW t \in Task, Remove(t)
      PROVE LocalGone'
  BY <1>3 DEF Remove, FlagWake, DropClone, LocalGone
<1>4. CASE PollHandle
  BY <1>4 DEF PollHandle, LocalGone, TypeOK
<1>5. CASE Return
  BY <1>5 DEF Return, DropLocals, LocalGone
<1>6. ASSUME NEW t \in Task, PollPanics(t)
      PROVE LocalGone'
  BY <1>6 DEF PollPanics, DropLocals, DropClone, LocalGone
<1>7. CASE DropLocal
  BY <1>7 DEF DropLocal, LocalGone
<1>8. CASE DropShared
  BY <1>8 DEF DropShared, LocalGone
<1>9. ASSUME VtableStep
      PROVE UNCHANGED <<open, map, calling, stored>>
  BY <1>9 DEF VtableStep, LocalClone, SharedClone, LocalWake, SharedWake,
     LocalWakeByRef, SharedWakeByRef, LocalDrop, SharedDrop, Frame
<1>10. ASSUME NEW t \in Task, BeginPoll(t) \/ PollPending(t) \/ Release(t)
       PROVE UNCHANGED <<open, map, calling, stored>>
  BY <1>10 DEF BeginPoll, PollPending, Release
<1>11. ASSUME Shutdown \/ UNCHANGED vars \/ \E w \in Worker : WorkerExits(w)
       PROVE UNCHANGED <<open, map, calling, stored>>
  BY <1>11 DEF Shutdown, WorkerExits, vars
<1> QED
  BY <1>1, <1>2, <1>3, <1>4, <1>5, <1>6, <1>7, <1>8, <1>9, <1>10, <1>11
  DEF Next

(* poll_task runs on a worker that has not returned, and one poll at a     *)
(* time.                                                                   *)
LEMMA WorkersStep ==
  TypeOK /\ WorkersSuffice /\ [Next]_vars => WorkersSuffice'
<1> SUFFICES ASSUME TypeOK, WorkersSuffice, [Next]_vars
             PROVE WorkersSuffice'
  OBVIOUS
<1> DEFINE busy == polling \cap SharedTask
<1> USE ConstAssumption DEF schedVars
<1>1. /\ IsFiniteSet(busy) /\ IsFiniteSet(workers)
      /\ Cardinality(busy) \in Nat /\ Cardinality(workers) \in Nat
  BY FS_Subset, FS_CardinalityType DEF TypeOK, Task
<1>2. ASSUME polling' \subseteq polling, workers' = workers
      PROVE WorkersSuffice'
  <2>1. busy' \subseteq busy
    BY <1>2
  <2>2. Cardinality(busy') \in Nat /\ Cardinality(busy') <= Cardinality(busy)
    BY <1>1, <2>1, FS_Subset, FS_CardinalityType
  <2> QED
    BY <1>1, <1>2, <2>2, SMTT(60) DEF WorkersSuffice
<1>3. ASSUME NEW t \in Task, BeginPoll(t)
      PROVE WorkersSuffice'
  <2>1. CASE t \in LocalTask
    <3>1. busy' = busy /\ workers' = workers
      BY <1>3, <2>1 DEF BeginPoll, Sched!BeginPoll
    <3> QED
      BY <3>1 DEF WorkersSuffice
  <2>2. CASE t \notin LocalTask
    <3>1. /\ busy' = busy \cup {t} /\ t \notin busy /\ workers' = workers
          /\ Cardinality(busy) < Cardinality(workers)
      BY <1>3, <2>2 DEF BeginPoll, Sched!BeginPoll, Task
    <3>2. Cardinality(busy') = Cardinality(busy) + 1
      BY <1>1, <3>1, FS_AddElement
    <3> QED
      BY <1>1, <3>1, <3>2, SMTT(60) DEF WorkersSuffice
  <2> QED
    BY <2>1, <2>2
<1>4. ASSUME NEW w \in Worker, WorkerExits(w)
      PROVE WorkersSuffice'
  <2>1. /\ busy' = busy /\ w \in workers /\ workers' = workers \ {w}
        /\ Cardinality(busy) < Cardinality(workers)
    BY <1>4 DEF WorkerExits
  <2>2. Cardinality(workers') = Cardinality(workers) - 1
    BY <1>1, <2>1, FS_RemoveElement
  <2>3. Cardinality(busy) <= Cardinality(workers) - 1
    BY <1>1, <2>1, SMT
  <2> QED
    BY <2>1, <2>2, <2>3 DEF WorkersSuffice
<1>5. ASSUME VtableStep
      PROVE polling' \subseteq polling /\ workers' = workers
  BY <1>5, PushOwes DEF VtableStep, LocalClone, SharedClone, LocalWake,
     SharedWake, LocalWakeByRef, SharedWakeByRef, LocalDrop, SharedDrop,
     Frame, Handle
<1>6. ASSUME NEW t \in Task,
             PollPending(t) \/ Remove(t) \/ Release(t) \/ PollPanics(t)
      PROVE polling' \subseteq polling /\ workers' = workers
  BY <1>6 DEF PollPending, Remove, Release, PollPanics, Sched!PollPending,
     Sched!PollDone
<1>7. ASSUME NEW t \in Task, NEW a \in Addr,
             LocalSpawn(t, a) \/ SharedSpawn(t, a) \/ BlockOn(t, a)
      PROVE polling' \subseteq polling /\ workers' = workers
  BY <1>7 DEF LocalSpawn, SharedSpawn, BlockOn, MakeTask, Sched!Spawn
<1>8. ASSUME \/ PollHandle \/ Return \/ DropLocal \/ Shutdown \/ DropShared
             \/ UNCHANGED vars
      PROVE polling' \subseteq polling /\ workers' = workers
  BY <1>8 DEF PollHandle, Return, DropLocal, Shutdown, DropShared, vars
<1> QED
  BY <1>2, <1>3, <1>4, <1>5, <1>6, <1>7, <1>8 DEF Next

-----------------------------------------------------------------------------

(* Every step keeps the invariant.                                         *)
LEMMA IInvStep == IInv /\ [Next]_vars => IInv'
BY TypeStep, PlacesStep, IdsStep, LifetimesStep, SoundStep, LeaksStep,
   StrongStep, FlagStep, LocalGoneStep, WorkersStep DEF IInv

(* A count of owners is zero when there are none.                          *)
LEMMA CountsAlive == IInv => CountsMeanAlive
<1> SUFFICES ASSUME IInv PROVE CountsMeanAlive
  OBVIOUS
<1> USE ConstAssumption DEF IInv
<1>1. ASSUME NEW r \in {"local", "shared"}
      PROVE /\ strong[r] >= 0
            /\ strong[r] = 0 <=>
                 /\ r \notin open /\ Held(r) = {}
                 /\ r = "shared" => workers = {}
  <2> DEFINE ours == IF r = "shared" THEN Cardinality(workers) ELSE 0
  <2>1. IsFiniteSet(open \cap {r}) /\ (open \cap {r} = {} <=> r \notin open)
    <3>1. IsFiniteSet({r}) /\ open \cap {r} \in SUBSET {r}
      BY FS_Singleton
    <3>2. IsFiniteSet(open \cap {r})
      BY <3>1, FS_Subset
    <3>3. open \cap {r} = {} <=> r \notin open
      OBVIOUS
    <3> QED
      BY <3>2, <3>3
  <2>2. IsFiniteSet(Held(r))
    BY HandleFinite, FS_Subset DEF Held, Alive
  <2>3. IsFiniteSet(workers)
    BY FS_Subset DEF TypeOK
  <2>4. /\ Cardinality(open \cap {r}) \in Nat
        /\ Cardinality(open \cap {r}) = 0 <=> r \notin open
    BY <2>1, FS_CardinalityType, FS_EmptySet
  <2>5. /\ Cardinality(Held(r)) \in Nat
        /\ Cardinality(Held(r)) = 0 <=> Held(r) = {}
    BY <2>2, FS_CardinalityType, FS_EmptySet
  <2>6. ours \in Nat /\ (ours = 0 <=> (r = "shared" => workers = {}))
    BY <2>3, FS_CardinalityType, FS_EmptySet, SMT
  <2>7. strong[r] = Cardinality(open \cap {r}) + Cardinality(Held(r)) + ours
    BY DEF StrongExact, Owners, Held
  <2> HIDE DEF ours, IInv
  <2> QED
    BY <2>4, <2>5, <2>6, <2>7, SMTT(60)
<1>2. ASSUME NEW t \in LocalTask
      PROVE /\ count[t] >= 0
            /\ count[t] = 0 <=> calling # t /\ t \notin stored
  BY SMT DEF FlagExact
<1> QED
  BY <1>1, <1>2 DEF CountsMeanAlive

(* The inductive invariant holds in every reachable state.                 *)
THEOREM Invariance == Spec => []IInv
<1>1. Init => IInv
  BY InitHolds
<1>2. IInv /\ [Next]_vars => IInv'
  BY IInvStep
<1> QED
  BY <1>1, <1>2, PTL DEF Spec

(* Types; and no task is owed a poll, or polled, after it has finished,    *)
(* whatever a waker that outlives it pushes.                               *)
THEOREM TypeCorrect == Spec => []TypeOK
<1>1. IInv => TypeOK
  BY DEF IInv
<1> QED
  BY Invariance, <1>1, PTL

(* The vtable functions manage the lifetime of WakerData correctly: every  *)
(* Waker leads to an allocated box of its own, with the id of the task it  *)
(* was made for and of no other.                                           *)
THEOREM WakersAreSound == Spec => []WakersSound
<1>1. IInv => WakersSound
  BY DEF IInv
<1> QED
  BY Invariance, <1>1, PTL

(* No clone, wake or drop of the vtables forgets a box: one that is        *)
(* allocated belongs to a Waker that still points to it.                   *)
THEOREM BoxesAreOwned == Spec => []BoxesOwned
<1>1. IInv => BoxesOwned
  BY DEF IInv
<1> QED
  BY Invariance, <1>1, PTL

(* The strong counts of the ready queue and of SharedState are those of    *)
(* the boxes, the workers and the runtime that own them.                   *)
THEOREM StrongCountsAreExact == Spec => []StrongExact
<1>1. IInv => StrongExact
  BY DEF IInv
<1> QED
  BY Invariance, <1>1, PTL

(* The strong count of the flag of block_on is that of its two locals and  *)
(* of the clone in the TaskState of the root.                              *)
THEOREM FlagCountsAreExact == Spec => []FlagExact
<1>1. IInv => FlagExact
  BY DEF IInv
<1> QED
  BY Invariance, <1>1, PTL

(* Every strong count is zero exactly when its owners are gone: no vtable  *)
(* function reaches a ready queue, a SharedState or a flag that was freed, *)
(* and none of them outlives its owners.                                   *)
THEOREM CountsGuardLifetimes == Spec => []CountsMeanAlive
BY Invariance, CountsAlive, PTL

(* Dropping a Runtime, after however many calls of block_on, panicked or   *)
(* not, frees all that its tasks and its wakers allocated.                 *)
THEOREM LocalIsFreed == Spec => []LocalAllFreed
<1>1. ASSUME IInv PROVE LocalAllFreed
  <2> SUFFICES ASSUME "local" \notin open,
                      \A c \in Copy : made[c] \notin LocalTask
               PROVE /\ strong["local"] = 0
                     /\ \A a \in Addr : box[a] # 0 =>
                          \E h \in Held("shared") : ptr[h] = a
                     /\ \A t \in LocalTask : count[t] = 0
    BY DEF LocalAllFreed
  <2>1. map \cap LocalTask = {} /\ polling \cap LocalTask = {}
    BY <1>1 DEF IInv, LocalGone, Places
  <2>2. \A t \in LocalTask : ptr[t] = Nil
    BY <1>1, <2>1 DEF IInv, Lifetimes, Task
  <2>3. ASSUME NEW h \in Alive PROVE Of(made[h]) = "shared"
    <3>1. CASE h \in Copy
      BY <3>1 DEF Of
    <3>2. CASE h \in Task
      BY <1>1, <2>2, <3>2 DEF IInv, Lifetimes, Alive, Of
    <3> QED
      BY <3>1, <3>2 DEF Alive, Handle
  <2>4. Held("local") = {}
    <3>1. "local" # "shared"
      OBVIOUS
    <3> QED
      BY <2>3, <3>1 DEF Held
  <2>5. strong["local"] = 0
    BY <1>1, <2>4, CountsAlive, SMT DEF CountsMeanAlive
  <2>6. \A a \in Addr : box[a] # 0 => \E h \in Held("shared") : ptr[h] = a
    BY <1>1, <2>3 DEF IInv, BoxesOwned, Held
  <2>7. \A t \in LocalTask : count[t] = 0
    BY <1>1, CountsAlive, ConstAssumption
    DEF IInv, LocalGone, CountsMeanAlive, Task
  <2> QED
    BY <2>5, <2>6, <2>7
<1> QED
  BY Invariance, <1>1, PTL

(* A wake reaches the task that its Waker was made for and no other, in    *)
(* whatever order boxes are freed and their addresses used again.          *)
THEOREM WakesReachTheirTask == Spec => WakesOwnTask
<1> DEFINE Act == \A t \in owed' \ owed :
                    \/ t \in fresh
                    \/ /\ t \in map
                       /\ \E h \in Alive : InUse(h) /\ made[h] = t
<1>1. ASSUME IInv, [Next]_vars PROVE [Act]_vars
  <2>1. ASSUME NEW h \in Handle, InUse(h), Push(h) PROVE Act
    <3>1. h \in Alive
      BY <2>1 DEF InUse, Alive
    <3>2. owed' \ owed \subseteq map \cap {made[h]}
      BY <1>1, <2>1, <3>1, PushFindsOwn DEF IInv
    <3> QED
      BY <2>1, <3>1, <3>2
  <2>2. ASSUME owed' \subseteq owed PROVE Act
    BY <2>2
  <2>3. ASSUME NEW t \in Task, Sched!Spawn(t) PROVE Act
    BY <2>3 DEF Sched!Spawn
  <2>4. CASE VtableStep
    <3>1. \/ \E h \in Handle : InUse(h) /\ Push(h)
          \/ UNCHANGED schedVars
      BY <2>4 DEF VtableStep, LocalClone, SharedClone, LocalWake, SharedWake,
         LocalWakeByRef, SharedWakeByRef, LocalDrop, SharedDrop, Handle
    <3> HIDE DEF Act
    <3> QED
      BY <2>1, <2>2, <3>1 DEF schedVars
  <2>5. ASSUME NEW t \in Task, BeginPoll(t) \/ PollPending(t) \/ Remove(t)
                                 \/ Release(t) \/ PollPanics(t)
        PROVE owed' \subseteq owed
    BY <2>5 DEF BeginPoll, PollPending, Remove, Release, PollPanics,
       Sched!BeginPoll, Sched!PollPending, Sched!PollDone, schedVars
  <2>6. ASSUME NEW t \in Task, NEW a \in Addr,
               LocalSpawn(t, a) \/ SharedSpawn(t, a) \/ BlockOn(t, a)
        PROVE Sched!Spawn(t)
    BY <2>6 DEF LocalSpawn, SharedSpawn, BlockOn, MakeTask
  <2>7. ASSUME \/ PollHandle \/ Return \/ DropLocal \/ Shutdown \/ DropShared
               \/ UNCHANGED vars \/ \E w \in Worker : WorkerExits(w)
        PROVE owed' \subseteq owed
    BY <2>7 DEF PollHandle, Return, DropLocal, Shutdown, DropShared,
       WorkerExits, vars, schedVars
  <2> HIDE DEF Act
  <2> QED
    BY <1>1, <2>2, <2>3, <2>4, <2>5, <2>6, <2>7 DEF Next
<1> QED
  BY Invariance, <1>1, PTL DEF Spec, WakesOwnTask

(* Tasks that the workers leave behind stay in SharedState::tasks, and     *)
(* SharedState is never freed, because their Wakers own it.                *)
THEOREM LeftoversAreKept == Spec => LeftoversStay
<1> DEFINE Act == \A t \in map \cap SharedTask :
                    workers = {} => t \in map' /\ strong'["shared"] >= 1
<1>1. ASSUME IInv, IInv', [Next]_vars PROVE Act
  <2> SUFFICES ASSUME NEW t \in map \cap SharedTask, workers = {}
               PROVE t \in map' /\ strong'["shared"] >= 1
    OBVIOUS
  <2>1. polling \cap SharedTask = {}
    <3>1. IsFiniteSet(polling \cap SharedTask)
      BY <1>1, ConstAssumption, FS_Subset DEF IInv, TypeOK, Task
    <3>2. Cardinality(polling \cap SharedTask) \in Nat /\ Cardinality({}) = 0
      BY <3>1, FS_CardinalityType, FS_EmptySet
    <3>3. Cardinality(polling \cap SharedTask) = 0
      BY <1>1, <3>2, SMT DEF IInv, WorkersSuffice
    <3> QED
      BY <3>1, <3>3, FS_EmptySet
  <2>2. t \in map'
    BY <1>1, <2>1, ConstAssumption
    DEF Next, VtableStep, LocalClone, SharedClone, LocalWake, SharedWake,
        LocalWakeByRef, SharedWakeByRef, LocalDrop, SharedDrop, Frame,
        PollHandle, Return, DropLocal, Shutdown, DropShared, WorkerExits,
        BeginPoll, PollPending, Remove, Release, PollPanics, LocalSpawn,
        SharedSpawn, BlockOn, MakeTask, vars
  <2>3. t \in Held("shared")'
    <3>1. t \in Task /\ Of(t) = "shared"
      BY ConstAssumption DEF Task, Of
    <3>2. ptr'[t] # Nil /\ made'[t] = t
      BY <1>1, <2>2, <3>1 DEF IInv, Lifetimes
    <3> QED
      BY <3>1, <3>2 DEF Held, Alive, Handle, Of
  <2>4. CountsMeanAlive'
    BY <1>1, CountsAlive, PTL
  <2>5. strong'["shared"] >= 0 /\ strong'["shared"] # 0
    BY <2>3, <2>4 DEF CountsMeanAlive
  <2>6. strong'["shared"] \in Int
    BY <1>1 DEF IInv, TypeOK
  <2> QED
    BY <2>2, <2>5, <2>6, SMT
<1> QED
  BY Invariance, <1>1, PTL DEF Spec, LeftoversStay

=============================================================================
