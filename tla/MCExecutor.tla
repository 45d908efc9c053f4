----------------------------- MODULE MCExecutor -----------------------------
(* Instances of the executor for TLC.                                      *)
EXTENDS Executor

(* A runtime whose clients have spawned one task and do nothing more but   *)
(* shut down: workers and tasks are left to themselves.                    *)
InitLoaded(t) ==
  /\ tasks = {t}
  /\ active = 1
  /\ state = [u \in Task |-> IF u = t THEN SCHEDULED ELSE FRESH]
  /\ handed = {}
  /\ queue = <<t>>
  /\ pending = {t}
  /\ token = FALSE
  /\ eventfd = FALSE
  /\ shutdown = FALSE
  /\ waiting = {}
  /\ pc = [a \in Thread |-> IF a \in Worker THEN "top" ELSE "outside"]
  /\ cur = [a \in Thread |-> NoTask]
  /\ arg = [a \in Thread |-> NoTask]
  /\ ret = [a \in Thread |-> "top"]

NextLoaded ==
  \/ \E a \in Thread : RuntimeStep(a)
  \/ \E c \in Client : ShutdownStore(c)
  \/ \E w \in Worker : UserStep(w) \/ Return(w) \/ Timeout(w)

LoadedSpec ==
  (\E t \in Task : InitLoaded(t)) /\ [][NextLoaded]_vars /\ Fairness

=============================================================================
