---------------------------- MODULE WakeContract ----------------------------
(***************************************************************************)
(* What the multi-threaded executor promises to the futures it runs,       *)
(* stated without queues, threads or atomics.                              *)
(*                                                                         *)
(* A spawned task is owed one poll.  Waking a task that has not finished   *)
(* makes the executor owe it a poll that BEGINS after the wake: a wake     *)
(* that arrives while the task is being polled is not absorbed by the poll *)
(* in progress.  Several wakes before that poll count as one.  A task is   *)
(* polled by one thread at a time, and never again once it has finished.   *)
(***************************************************************************)

CONSTANT Task

VARIABLES
  fresh,     \* tasks not spawned yet
  owed,      \* tasks the executor must still poll
  polling,   \* tasks being polled
  finished   \* tasks whose future returned Ready or panicked

vars == <<fresh, owed, polling, finished>>

Init ==
  /\ fresh = Task
  /\ owed = {}
  /\ polling = {}
  /\ finished = {}

Spawn(t) ==
  /\ t \in fresh
  /\ fresh' = fresh \ {t}
  /\ owed' = owed \cup {t}
  /\ UNCHANGED <<polling, finished>>

Wake(t) ==
  /\ t \notin fresh \cup finished
  /\ owed' = owed \cup {t}
  /\ UNCHANGED <<fresh, polling, finished>>

BeginPoll(t) ==
  /\ t \in owed \ polling
  /\ owed' = owed \ {t}
  /\ polling' = polling \cup {t}
  /\ UNCHANGED <<fresh, finished>>

PollPending(t) ==
  /\ t \in polling
  /\ polling' = polling \ {t}
  /\ UNCHANGED <<fresh, owed, finished>>

PollDone(t) ==
  /\ t \in polling
  /\ polling' = polling \ {t}
  /\ owed' = owed \ {t}
  /\ finished' = finished \cup {t}
  /\ UNCHANGED fresh

Next ==
  \E t \in Task :
    Spawn(t) \/ Wake(t) \/ BeginPoll(t) \/ PollPending(t) \/ PollDone(t)

Spec == Init /\ [][Next]_vars

=============================================================================
