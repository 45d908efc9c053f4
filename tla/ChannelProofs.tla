--------------------------- MODULE ChannelProofs ----------------------------
(***************************************************************************)
(* Proofs about Channel, for any sender handles and any number of values.  *)
(***************************************************************************)
EXTENDS Channel, FiniteSetTheorems, TLAPS

(* The receiving task, on its scheduler; the receiver is dropped with it.  *)
Places ==
  /\ fresh \subseteq {Rx} /\ finished \subseteq {Rx}
  /\ fresh \cap finished = {}
  /\ recv # "run" => Rx \in polling \cup finished
  /\ rx_closed <=> Rx \in finished

(* From the moment Recv::poll finds nothing, and as long as the task is    *)
(* not woken, its waker is in the channel, and there is nothing to say.    *)
Listening ==
  /\ Rx \notin fresh \cup owed \cup finished
  /\ Rx \notin polling \/ recv = "pending"
  => rx_waker /\ queue = <<>> /\ sender_count # 0

(* None is the last answer of a channel whose senders are gone.            *)
Closed == recv = "closed" => sender_count = 0 /\ queue = <<>>

IInv == TypeOK /\ Places /\ CountExact /\ InOrder /\ Listening /\ Closed

(* The end of the stream is final, on both sides: once recv has returned   *)
(* None, or the receiver is gone, send accepts no value, nothing is        *)
(* received, and what send refuses is not left in the buffer.              *)
StreamEnds ==
  [][recv = "closed" \/ rx_closed => UNCHANGED <<queue, sent, got>>]_vars

-----------------------------------------------------------------------------
(* Zenon proves most leaves; the others cite SMT.                          *)
USE ZenonT(60)

(* Without handles to count there are none.                                *)
LEMMA NoHandles == TypeOK /\ CountExact /\ sender_count = 0 => handles = {}
BY ConstAssumption, FS_Subset, FS_EmptySet DEF TypeOK, CountExact

(* A channel that was just made satisfies the invariant.                   *)
LEMMA InitHolds == Init => IInv
<1> SUFFICES ASSUME Init PROVE IInv
  OBVIOUS
<1> USE ConstAssumption DEF Init, Sched!Init
<1>1. Cardinality({First}) = 1
  BY FS_Singleton
<1>2. Cardinality(Sender) \in Nat /\ Cardinality(Sender) # 0
  BY FS_CardinalityType, FS_EmptySet
<1>3. TypeOK
  <2>1. 1 \in 0..Cardinality(Sender) /\ 0 \in 0..MaxSends
    BY <1>2, SMT
  <2>2. <<>> \in Seq(1..MaxSends)
    BY SMT
  <2> QED
    BY <2>1, <2>2 DEF TypeOK
<1>4. CountExact
  BY <1>1 DEF CountExact
<1>5. InOrder
  BY SMT DEF InOrder
<1>6. Places /\ Listening /\ Closed
  BY DEF Places, Listening, Closed
<1> QED
  BY <1>3, <1>4, <1>5, <1>6 DEF IInv

(* sender_count is the number of handles, each of which is cloned and      *)
(* dropped once.                                                           *)
LEMMA CountStep ==
  TypeOK /\ CountExact /\ [Next]_vars => CountExact'
<1> SUFFICES ASSUME TypeOK, CountExact, [Next]_vars
             PROVE CountExact'
  OBVIOUS
<1> USE ConstAssumption DEF schedVars
<1>1. ASSUME NEW s \in Sender, NEW c \in Sender, Clone(s, c)
      PROVE CountExact'
  <2>1. IsFiniteSet(handles) /\ c \notin handles
    BY <1>1, FS_Subset DEF Clone, TypeOK
  <2>2. Cardinality(handles \cup {c}) = Cardinality(handles) + 1
    BY <2>1, FS_AddElement
  <2> QED
    BY <1>1, <2>2 DEF Clone, CountExact
<1>2. ASSUME NEW s \in Sender, Send(s)
      PROVE CountExact'
  BY <1>2 DEF Send, WakeReceiver, Sched!Wake, CountExact
<1>3. ASSUME NEW s \in Sender, DropSender(s)
      PROVE CountExact'
  <2>1. IsFiniteSet(handles) /\ s \in handles
    BY <1>3, FS_Subset DEF DropSender, TypeOK
  <2>2. Cardinality(handles \ {s}) = Cardinality(handles) - 1
    BY <2>1, FS_RemoveElement
  <2> QED
    BY <1>3, <2>2 DEF DropSender, CountExact
<1>4. CASE SpawnReceiver
  BY <1>4 DEF SpawnReceiver, Sched!Spawn, CountExact
<1>5. CASE BeginPoll
  BY <1>5 DEF BeginPoll, Sched!BeginPoll, CountExact
<1>6. CASE OtherWake
  BY <1>6 DEF OtherWake, Sched!Wake, CountExact
<1>7. CASE Receive
  BY <1>7 DEF Receive, CountExact
<1>8. CASE RecvNone
  BY <1>8 DEF RecvNone, CountExact
<1>9. CASE RecvPending
  BY <1>9 DEF RecvPending, CountExact
<1>10. CASE PollPending
  BY <1>10 DEF PollPending, Sched!PollPending, CountExact
<1>11. CASE DropReceiver
  BY <1>11 DEF DropReceiver, Sched!PollDone, CountExact
<1>12. CASE UNCHANGED vars
  BY <1>12 DEF vars, CountExact
<1> QED
  BY <1>1, <1>2, <1>3, <1>4, <1>5, <1>6, <1>7, <1>8, <1>9, <1>10, <1>11, <1>12
  DEF Next

(* Every step keeps the types; the waker in the channel enqueues no task   *)
(* that has finished.                                                      *)
LEMMA TypeStep ==
  TypeOK /\ Places /\ CountExact /\ CountExact' /\ [Next]_vars => TypeOK'
<1> SUFFICES ASSUME TypeOK, Places, CountExact, CountExact', [Next]_vars
             PROVE TypeOK'
  OBVIOUS
<1> USE ConstAssumption DEF schedVars
<1>1. ASSUME NEW s \in Sender, NEW c \in Sender, Clone(s, c)
      PROVE TypeOK'
  <2>1. handles' \subseteq Sender
    BY <1>1 DEF Clone, TypeOK
  <2>2. sender_count' \in 0..Cardinality(Sender)
    BY <2>1, FS_Subset, FS_CardinalityType, SMT DEF CountExact
  <2> QED
    BY <1>1, <2>1, <2>2 DEF Clone, TypeOK
<1>2. ASSUME NEW s \in Sender, Send(s)
      PROVE TypeOK'
  <2>1. queue' \in Seq(1..MaxSends) /\ sent' \in 0..MaxSends
    BY <1>2, SMT DEF Send, TypeOK
  <2> QED
    BY <1>2, <2>1 DEF Send, WakeReceiver, Sched!Wake, TypeOK, Places
<1>3. ASSUME NEW s \in Sender, DropSender(s)
      PROVE TypeOK'
  <2>1. handles' \subseteq Sender
    BY <1>3 DEF DropSender, TypeOK
  <2>2. sender_count' \in 0..Cardinality(Sender)
    BY <2>1, FS_Subset, FS_CardinalityType, SMT DEF CountExact
  <2> QED
    BY <1>3, <2>1, <2>2 DEF DropSender, WakeReceiver, Sched!Wake, TypeOK,
       Places
<1>4. CASE SpawnReceiver
  BY <1>4 DEF SpawnReceiver, Sched!Spawn, TypeOK, Places
<1>5. CASE BeginPoll
  BY <1>5 DEF BeginPoll, Sched!BeginPoll, TypeOK, Places
<1>6. CASE OtherWake
  BY <1>6 DEF OtherWake, Sched!Wake, TypeOK, Places
<1>7. CASE Receive
  <2>1. got' \in Seq(1..MaxSends) /\ queue' \in Seq(1..MaxSends)
    BY <1>7, SMTT(60) DEF Receive, TypeOK
  <2> QED
    BY <1>7, <2>1 DEF Receive, TypeOK
<1>8. CASE RecvNone
  BY <1>8 DEF RecvNone, TypeOK, Places
<1>9. CASE RecvPending
  BY <1>9 DEF RecvPending, TypeOK, Places
<1>10. CASE PollPending
  BY <1>10 DEF PollPending, Sched!PollPending, TypeOK, Places
<1>11. CASE DropReceiver
  BY <1>11 DEF DropReceiver, Sched!PollDone, TypeOK, Places
<1>12. CASE UNCHANGED vars
  BY <1>12 DEF vars, TypeOK, Places
<1> QED
  BY <1>1, <1>2, <1>3, <1>4, <1>5, <1>6, <1>7, <1>8, <1>9, <1>10, <1>11, <1>12
  DEF Next

(* The receiving task waits only within a poll.                            *)
LEMMA PlacesStep ==
  TypeOK /\ Places /\ [Next]_vars => Places'
<1> SUFFICES ASSUME TypeOK, Places, [Next]_vars
             PROVE Places'
  OBVIOUS
<1> USE ConstAssumption DEF schedVars
<1>1. ASSUME NEW s \in Sender, NEW c \in Sender, Clone(s, c)
      PROVE Places'
  BY <1>1 DEF Clone, TypeOK, Places
<1>2. ASSUME NEW s \in Sender, Send(s)
      PROVE Places'
  BY <1>2 DEF Send, WakeReceiver, Sched!Wake, TypeOK, Places
<1>3. ASSUME NEW s \in Sender, DropSender(s)
      PROVE Places'
  BY <1>3 DEF DropSender, WakeReceiver, Sched!Wake, TypeOK, Places
<1>4. CASE SpawnReceiver
  BY <1>4 DEF SpawnReceiver, Sched!Spawn, TypeOK, Places
<1>5. CASE BeginPoll
  BY <1>5 DEF BeginPoll, Sched!BeginPoll, TypeOK, Places
<1>6. CASE OtherWake
  BY <1>6 DEF OtherWake, Sched!Wake, TypeOK, Places
<1>7. CASE Receive
  BY <1>7 DEF Receive, TypeOK, Places
<1>8. CASE RecvNone
  BY <1>8 DEF RecvNone, TypeOK, Places
<1>9. CASE RecvPending
  BY <1>9 DEF RecvPending, TypeOK, Places
<1>10. CASE PollPending
  BY <1>10 DEF PollPending, Sched!PollPending, TypeOK, Places
<1>11. CASE DropReceiver
  BY <1>11 DEF DropReceiver, Sched!PollDone, TypeOK, Places
<1>12. CASE UNCHANGED vars
  BY <1>12 DEF vars, TypeOK, Places
<1> QED
  BY <1>1, <1>2, <1>3, <1>4, <1>5, <1>6, <1>7, <1>8, <1>9, <1>10, <1>11, <1>12
  DEF Next

(* A value goes to the end of the buffer and comes from its front.         *)
LEMMA OrderStep ==
  TypeOK /\ InOrder /\ [Next]_vars => InOrder'
<1> SUFFICES ASSUME TypeOK, InOrder, [Next]_vars
             PROVE InOrder'
  OBVIOUS
<1> USE ConstAssumption DEF schedVars
<1>1. ASSUME NEW s \in Sender, NEW c \in Sender, Clone(s, c)
      PROVE InOrder'
  BY <1>1 DEF Clone, InOrder
<1>2. ASSUME NEW s \in Sender, Send(s)
      PROVE InOrder'
  <2>1. /\ queue' = Append(queue, sent + 1) /\ sent' = sent + 1 /\ got' = got
        /\ Len(queue') = Len(queue) + 1
        /\ queue'[Len(queue) + 1] = sent + 1
        /\ \A n \in 1..Len(queue) : queue'[n] = queue[n]
    BY <1>2, SMT DEF Send, TypeOK
  <2> QED
    BY <2>1, SMTT(60) DEF InOrder, TypeOK
<1>3. ASSUME NEW s \in Sender, DropSender(s)
      PROVE InOrder'
  BY <1>3 DEF DropSender, WakeReceiver, Sched!Wake, InOrder
<1>4. CASE SpawnReceiver
  BY <1>4 DEF SpawnReceiver, Sched!Spawn, InOrder
<1>5. CASE BeginPoll
  BY <1>5 DEF BeginPoll, Sched!BeginPoll, InOrder
<1>6. CASE OtherWake
  BY <1>6 DEF OtherWake, Sched!Wake, InOrder
<1>7. CASE Receive
  <2>1. /\ got' = Append(got, Head(queue)) /\ queue' = Tail(queue)
        /\ sent' = sent
        /\ Len(got') = Len(got) + 1 /\ Len(queue') = Len(queue) - 1
        /\ got'[Len(got) + 1] = queue[1]
        /\ \A n \in 1..Len(got) : got'[n] = got[n]
        /\ \A n \in 1..Len(queue') : queue'[n] = queue[n + 1]
        /\ Len(queue) \in Nat \ {0}
    BY <1>7, SMTT(60) DEF Receive, TypeOK
  <2> QED
    BY <2>1, SMTT(60) DEF InOrder, TypeOK
<1>8. CASE RecvNone
  BY <1>8 DEF RecvNone, InOrder
<1>9. CASE RecvPending
  BY <1>9 DEF RecvPending, InOrder
<1>10. CASE PollPending
  BY <1>10 DEF PollPending, Sched!PollPending, InOrder
<1>11. CASE DropReceiver
  BY <1>11 DEF DropReceiver, Sched!PollDone, InOrder
<1>12. CASE UNCHANGED vars
  BY <1>12 DEF vars, InOrder
<1> QED
  BY <1>1, <1>2, <1>3, <1>4, <1>5, <1>6, <1>7, <1>8, <1>9, <1>10, <1>11, <1>12
  DEF Next

(* send and the drop of the last sender take the waker and call it.        *)
LEMMA ListeningStep ==
  TypeOK /\ Places /\ CountExact /\ Listening /\ [Next]_vars => Listening'
<1> SUFFICES ASSUME TypeOK, Places, CountExact, Listening, [Next]_vars
             PROVE Listening'
  OBVIOUS
<1> USE ConstAssumption DEF schedVars
<1>1. ASSUME NEW s \in Sender, NEW c \in Sender, Clone(s, c)
      PROVE Listening'
  BY <1>1, SMT DEF Clone, TypeOK, Places, Listening
<1>2. ASSUME NEW s \in Sender, Send(s)
      PROVE Listening'
  BY <1>2 DEF Send, WakeReceiver, Sched!Wake, TypeOK, Places, Listening
<1>3. ASSUME NEW s \in Sender, DropSender(s)
      PROVE Listening'
  BY <1>3 DEF DropSender, WakeReceiver, Sched!Wake, TypeOK, Places, Listening
<1>4. CASE SpawnReceiver
  BY <1>4 DEF SpawnReceiver, Sched!Spawn, TypeOK, Places, Listening
<1>5. CASE BeginPoll
  BY <1>5 DEF BeginPoll, Sched!BeginPoll, TypeOK, Places, Listening
<1>6. CASE OtherWake
  BY <1>6 DEF OtherWake, Sched!Wake, TypeOK, Places, Listening
<1>7. CASE Receive
  BY <1>7 DEF Receive, TypeOK, Places, Listening
<1>8. CASE RecvNone
  BY <1>8 DEF RecvNone, TypeOK, Places, Listening
<1>9. CASE RecvPending
  BY <1>9 DEF RecvPending, TypeOK, Places, Listening
<1>10. CASE PollPending
  BY <1>10 DEF PollPending, Sched!PollPending, TypeOK, Places, Listening
<1>11. CASE DropReceiver
  BY <1>11 DEF DropReceiver, Sched!PollDone, TypeOK, Places, Listening
<1>12. CASE UNCHANGED vars
  BY <1>12 DEF vars, TypeOK, Places, Listening
<1> QED
  BY <1>1, <1>2, <1>3, <1>4, <1>5, <1>6, <1>7, <1>8, <1>9, <1>10, <1>11, <1>12
  DEF Next

(* Nobody is left to send once None has been returned.                     *)
LEMMA ClosedStep ==
  TypeOK /\ Places /\ CountExact /\ Closed /\ [Next]_vars => Closed'
<1> SUFFICES ASSUME TypeOK, Places, CountExact, Closed, [Next]_vars
             PROVE Closed'
  OBVIOUS
<1> USE ConstAssumption DEF schedVars
<1>1. ASSUME NEW s \in Sender, NEW c \in Sender, Clone(s, c)
      PROVE Closed'
  BY <1>1, NoHandles DEF Clone, Closed
<1>2. ASSUME NEW s \in Sender, Send(s)
      PROVE Closed'
  BY <1>2, NoHandles DEF Send, WakeReceiver, Sched!Wake, Closed
<1>3. ASSUME NEW s \in Sender, DropSender(s)
      PROVE Closed'
  BY <1>3, NoHandles DEF DropSender, WakeReceiver, Sched!Wake, Closed
<1>4. CASE SpawnReceiver
  BY <1>4 DEF SpawnReceiver, Sched!Spawn, TypeOK, Places, Closed
<1>5. CASE BeginPoll
  BY <1>5 DEF BeginPoll, Sched!BeginPoll, TypeOK, Places, Closed
<1>6. CASE OtherWake
  BY <1>6 DEF OtherWake, Sched!Wake, TypeOK, Places, Closed
<1>7. CASE Receive
  BY <1>7 DEF Receive, TypeOK, Places, Closed
<1>8. CASE RecvNone
  BY <1>8 DEF RecvNone, TypeOK, Places, Closed
<1>9. CASE RecvPending
  BY <1>9 DEF RecvPending, TypeOK, Places, Closed
<1>10. CASE PollPending
  BY <1>10 DEF PollPending, Sched!PollPending, TypeOK, Places, Closed
<1>11. CASE DropReceiver
  BY <1>11 DEF DropReceiver, Sched!PollDone, TypeOK, Places, Closed
<1>12. CASE UNCHANGED vars
  BY <1>12 DEF vars, TypeOK, Places, Closed
<1> QED
  BY <1>1, <1>2, <1>3, <1>4, <1>5, <1>6, <1>7, <1>8, <1>9, <1>10, <1>11, <1>12
  DEF Next

-----------------------------------------------------------------------------

(* IInv holds in every reachable state.                                    *)
THEOREM Invariance == Spec => []IInv
<1>1. IInv /\ [Next]_vars => IInv'
  BY CountStep, TypeStep, PlacesStep, OrderStep, ListeningStep, ClosedStep
  DEF IInv
<1> QED
  BY InitHolds, <1>1, PTL DEF Spec

(* Type correctness, for the channel.                                      *)
THEOREM TypeCorrect == Spec => []TypeOK
<1>1. IInv => TypeOK
  BY DEF IInv
<1> QED
  BY Invariance, <1>1, PTL

(* Values are received once each, in the order in which send accepted      *)
(* them.                                                                   *)
THEOREM ValuesInOrder == Spec => []InOrder
<1>1. IInv => InOrder
  BY DEF IInv
<1> QED
  BY Invariance, <1>1, PTL

(* sender_count is exact, and its decrement in drop never wraps.           *)
THEOREM CountIsExact == Spec => []CountExact
<1>1. IInv => CountExact
  BY DEF IInv
<1> QED
  BY Invariance, <1>1, PTL

(* A receiver that waits in recv is woken by send and by the drop of the   *)
(* last sender.                                                            *)
THEOREM ReceiverIsWoken == Spec => []ReceiverWoken
<1>1. IInv => ReceiverWoken
  BY DEF IInv, Listening, ReceiverWoken
<1> QED
  BY Invariance, <1>1, PTL

(* recv returns None only when no sender is left and every value has been  *)
(* received.                                                               *)
THEOREM NoneComesLast == Spec => []NoneIsLast
<1>1. ASSUME IInv PROVE NoneIsLast
  <2> SUFFICES ASSUME recv = "closed" PROVE handles = {} /\ Len(got) = sent
    BY DEF NoneIsLast
  <2>1. sender_count = 0 /\ queue = <<>>
    BY <1>1 DEF IInv, Closed
  <2>3. handles = {}
    BY <1>1, <2>1, NoHandles DEF IInv
  <2> QED
    BY <1>1, <2>1, <2>3, SMT DEF IInv, InOrder, TypeOK
<1> QED
  BY Invariance, <1>1, PTL

(* None and the drop of the receiver end the stream for good, however many *)
(* senders were cloned before.                                             *)
THEOREM EndIsFinal == Spec => StreamEnds
<1> DEFINE Act ==
      recv = "closed" \/ rx_closed => UNCHANGED <<queue, sent, got>>
<1>1. ASSUME IInv, [Next]_vars PROVE [Act]_vars
  <2>1. recv = "closed" => handles = {}
    BY <1>1, NoHandles DEF IInv, Closed
  <2>2. rx_closed => Rx \notin polling
    BY <1>1 DEF IInv, TypeOK, Places
  <2> QED
    BY <1>1, <2>1, <2>2
    DEF Next, vars, Clone, Send, DropSender, SpawnReceiver, BeginPoll,
        OtherWake, Receive, RecvNone, RecvPending, PollPending, DropReceiver
<1> QED
  BY Invariance, <1>1, PTL DEF Spec, StreamEnds

=============================================================================
