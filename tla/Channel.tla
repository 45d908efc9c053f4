------------------------------ MODULE Channel -------------------------------
(***************************************************************************)
(* The unbounded multi-producer, single-consumer channel of the            *)
(* single-threaded runtime (src/channel.rs).                               *)
(*                                                                         *)
(* The receiving task runs on the scheduler that WakeContract describes;   *)
(* sender handles are used, cloned and dropped between its steps.  Every   *)
(* operation borrows the RefCell from its first to its last statement on   *)
(* one thread, so it is one action.                                        *)
(***************************************************************************)
EXTENDS Naturals, Sequences, FiniteSets

CONSTANTS
  Sender,     \* names for sender handles
  First,      \* the handle that unbounded returns
  Rx,         \* the receiving task
  MaxSends    \* bound on the values sent

ASSUME ConstAssumption ==
  /\ First \in Sender
  /\ IsFiniteSet(Sender)
  /\ MaxSends \in Nat

VARIABLES
  fresh, owed, polling, finished,  \* the scheduler, see WakeContract
  queue,          \* Inner::queue
  rx_waker,       \* Inner::rx_waker is Some
  sender_count,   \* Inner::sender_count
  rx_closed,      \* Inner::rx_closed
  handles,        \* the sender handles alive
  unused,         \* names for handles not made yet
  sent,           \* how many values send accepted; the n-th value is n
  got,            \* the values received, in order
  recv            \* where the receiving task is

schedVars == <<fresh, owed, polling, finished>>
vars == <<schedVars, queue, rx_waker, sender_count, rx_closed, handles, unused,
          sent, got, recv>>

Sched == INSTANCE WakeContract WITH Task <- {Rx}

(* unbounded; the receiver has been moved into a task.                     *)
Init ==
  /\ Sched!Init
  /\ queue = <<>>
  /\ rx_waker = FALSE
  /\ sender_count = 1
  /\ rx_closed = FALSE
  /\ handles = {First}
  /\ unused = Sender \ {First}
  /\ sent = 0
  /\ got = <<>>
  /\ recv = "run"

(* Taking rx_waker and waking the receiving task, if it is still there.    *)
WakeReceiver ==
  /\ IF rx_waker /\ Rx \notin finished THEN Sched!Wake(Rx)
                                       ELSE UNCHANGED schedVars
  /\ rx_waker' = FALSE

-----------------------------------------------------------------------------
(* Sender handles.                                                         *)

(* Mutant: a clone is not counted.                                         *)
CloneUncounted(s, c) ==
  /\ s \in handles
  /\ c \in unused
  /\ handles' = handles \cup {c}
  /\ unused' = unused \ {c}
  /\ UNCHANGED <<schedVars, queue, rx_waker, sender_count, rx_closed, sent,
                 got, recv>>

Clone(s, c) ==
  /\ s \in handles
  /\ c \in unused
  /\ sender_count' = sender_count + 1
  /\ handles' = handles \cup {c}
  /\ unused' = unused \ {c}
  /\ UNCHANGED <<schedVars, queue, rx_waker, rx_closed, sent, got, recv>>

(* Mutant: only the first value ever sent wakes the receiver.              *)
SendWakesFirst(s) ==
  /\ s \in handles
  /\ sent < MaxSends
  /\ ~rx_closed
  /\ sent' = sent + 1
  /\ queue' = Append(queue, sent')
  /\ IF sent = 0 THEN WakeReceiver ELSE UNCHANGED <<schedVars, rx_waker>>
  /\ UNCHANGED <<sender_count, rx_closed, handles, unused, got, recv>>

(* Mutant: the value goes to the front.                                    *)
SendToFront(s) ==
  /\ s \in handles
  /\ sent < MaxSends
  /\ ~rx_closed
  /\ sent' = sent + 1
  /\ queue' = <<sent'>> \o queue
  /\ WakeReceiver
  /\ UNCHANGED <<sender_count, rx_closed, handles, unused, got, recv>>

(* Sender::send; once the receiver is gone it gives the value back and     *)
(* changes nothing.                                                        *)
Send(s) ==
  /\ s \in handles
  /\ sent < MaxSends
  /\ ~rx_closed
  /\ sent' = sent + 1
  /\ queue' = Append(queue, sent')
  /\ WakeReceiver
  /\ UNCHANGED <<sender_count, rx_closed, handles, unused, got, recv>>

(* Mutant: the last sender leaves without a word.                          *)
DropSenderSilent(s) ==
  /\ s \in handles
  /\ sender_count' = sender_count - 1
  /\ handles' = handles \ {s}
  /\ UNCHANGED <<schedVars, queue, rx_waker, rx_closed, unused, sent, got,
                 recv>>

DropSender(s) ==
  /\ s \in handles
  /\ sender_count' = sender_count - 1
  /\ IF sender_count' = 0 THEN WakeReceiver
                          ELSE UNCHANGED <<schedVars, rx_waker>>
  /\ handles' = handles \ {s}
  /\ UNCHANGED <<queue, rx_closed, unused, sent, got, recv>>

-----------------------------------------------------------------------------
(* The receiving task.                                                     *)

SpawnReceiver ==
  /\ Sched!Spawn(Rx)
  /\ UNCHANGED <<queue, rx_waker, sender_count, rx_closed, handles, unused,
                 sent, got, recv>>

BeginPoll ==
  /\ Sched!BeginPoll(Rx)
  /\ UNCHANGED <<queue, rx_waker, sender_count, rx_closed, handles, unused,
                 sent, got, recv>>

(* Somebody else wakes the task: it shares its waker with other futures.   *)
OtherWake ==
  /\ Sched!Wake(Rx)
  /\ UNCHANGED <<queue, rx_waker, sender_count, rx_closed, handles, unused,
                 sent, got, recv>>

(* Recv::poll and try_recv find a value.                                   *)
Receive ==
  /\ Rx \in polling
  /\ recv = "run"
  /\ queue # <<>>
  /\ got' = Append(got, Head(queue))
  /\ queue' = Tail(queue)
  /\ UNCHANGED <<schedVars, rx_waker, sender_count, rx_closed, handles, unused,
                 sent, recv>>

(* Mutant: closed is looked at before the buffer.                          *)
RecvNoneEarly ==
  /\ Rx \in polling
  /\ recv = "run"
  /\ sender_count = 0
  /\ recv' = "closed"
  /\ UNCHANGED <<schedVars, queue, rx_waker, sender_count, rx_closed, handles,
                 unused, sent, got>>

(* Recv::poll on a closed channel: Ready(None).                            *)
RecvNone ==
  /\ Rx \in polling
  /\ recv = "run"
  /\ queue = <<>>
  /\ sender_count = 0
  /\ recv' = "closed"
  /\ UNCHANGED <<schedVars, queue, rx_waker, sender_count, rx_closed, handles,
                 unused, sent, got>>

(* Recv::poll leaves its waker ...                                         *)
RecvPending ==
  /\ Rx \in polling
  /\ recv = "run"
  /\ queue = <<>>
  /\ sender_count # 0
  /\ rx_waker' = TRUE
  /\ recv' = "pending"
  /\ UNCHANGED <<schedVars, queue, sender_count, rx_closed, handles, unused,
                 sent, got>>

(* ... and the task, which may use sender handles before, returns Pending. *)
PollPending ==
  /\ recv = "pending"
  /\ Sched!PollPending(Rx)
  /\ recv' = "run"
  /\ UNCHANGED <<queue, rx_waker, sender_count, rx_closed, handles, unused,
                 sent, got>>

(* The task drops the receiver, at the end of the stream or before, and    *)
(* finishes.                                                               *)
DropReceiver ==
  /\ Rx \in polling
  /\ rx_closed' = TRUE
  /\ Sched!PollDone(Rx)
  /\ UNCHANGED <<queue, rx_waker, sender_count, handles, unused, sent, got,
                 recv>>

-----------------------------------------------------------------------------

Next ==
  \/ \E s \in Sender :
       Send(s) \/ DropSender(s) \/ \E c \in Sender : Clone(s, c)
  \/ SpawnReceiver \/ BeginPoll \/ OtherWake
  \/ Receive \/ RecvNone \/ RecvPending \/ PollPending \/ DropReceiver

(* The executor polls an owed task, and the receiving task goes on         *)
(* receiving.                                                              *)
Fairness ==
  /\ WF_vars(BeginPoll)
  /\ WF_vars(Receive)
  /\ WF_vars(RecvNone \/ RecvPending)
  /\ WF_vars(PollPending)

Spec == Init /\ [][Next]_vars
FairSpec == Spec /\ Fairness

-----------------------------------------------------------------------------
(* Properties.                                                             *)

(* Types; and a waker left in the channel enqueues no finished task.       *)
TypeOK ==
  /\ owed \cup polling \subseteq {Rx} \ (fresh \cup finished)
  /\ queue \in Seq(1..MaxSends)
  /\ rx_waker \in BOOLEAN
  /\ sender_count \in 0..Cardinality(Sender)
  /\ rx_closed \in BOOLEAN
  /\ handles \subseteq Sender
  /\ unused \subseteq Sender \ handles
  /\ sent \in 0..MaxSends
  /\ got \in Seq(1..MaxSends)
  /\ recv \in {"run", "pending", "closed"}

(* What was received and what is buffered, in this order, are the values   *)
(* that send accepted, in the order it accepted them.                      *)
InOrder ==
  /\ sent = Len(got) + Len(queue)
  /\ \A n \in 1..Len(got) : got[n] = n
  /\ \A n \in 1..Len(queue) : queue[n] = Len(got) + n

(* Sender::clone and Sender::drop keep the count of the handles alive, so  *)
(* that the decrement never wraps.                                         *)
CountExact == sender_count = Cardinality(handles)

(* A receiver that waits although there is a value, or although all        *)
(* senders are gone, is about to be polled; one that waits for a value has *)
(* its waker in the channel.                                               *)
ReceiverWoken ==
  Rx \notin fresh \cup owed \cup polling \cup finished =>
    rx_waker /\ queue = <<>> /\ sender_count # 0

(* recv: "Returns `None` when all senders have been dropped and the buffer *)
(* is empty": None comes after every accepted value, and is final.         *)
NoneIsLast == recv = "closed" => handles = {} /\ Len(got) = sent

(* Every value that send accepted is received, unless the receiver is      *)
(* dropped; and a receiver whose senders are gone is told so.              *)
AllReceived ==
  /\ \A n \in 1..MaxSends :
       sent >= n ~> (Len(got) >= n \/ rx_closed \/ Rx \in fresh)
  /\ handles = {} ~> (recv = "closed" \/ rx_closed \/ Rx \in fresh)

=============================================================================
