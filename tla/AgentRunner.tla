----------------------------- MODULE AgentRunner -----------------------------
(***************************************************************************)
(* OMEGAAgentRunner.run (infrastructure/runtime.py), the runner that the   *)
(* service awaits: a run of AgentRun under the task of RunService._execute *)
(* that asked for it.  It suspends only inside the run, and where the run  *)
(* ends it returns a snapshot, or raises the CancelledError it let pass.   *)
(***************************************************************************)
EXTENDS AgentRun

\* What is not completed is FAILED, whatever the reason.
Snapshot == IF status = "completed" THEN "completed" ELSE "failed"

\* run() marks a cancelled run and raises again: there is no snapshot of it.
Raises == status = "cancelled"

-----------------------------------------------------------------------------
(* The run as its service sees it, from the moment it awaits the runner:   *)
(* one run, without a sink, whose task may be cancelled.                   *)

OfRun(x) == [r \in {1} |-> x]

Service == INSTANCE RunService WITH
    Runs        <- {1},
    HasSink     <- FALSE,
    SinkFails   <- FALSE,
    Cancels     <- TRUE,
    repo        <- OfRun(IF ~Ended THEN "running" ELSE IF Raises THEN "cancelled" ELSE Snapshot),
    tasks       <- {1},
    at          <- OfRun(IF Ended THEN "ended" ELSE "run"),
    pending     <- OfRun(cancelled /\ ~Ended),
    outcome     <- OfRun(IF ~Ended THEN "none" ELSE IF Raises THEN "cancelled" ELSE "returned"),
    produced    <- OfRun(IF Ended /\ ~Raises THEN Snapshot ELSE "called"),
    interrupted <- OfRun(Ended /\ Raises),
    notified    <- OfRun(FALSE),
    heard       <- OfRun(<<>>)

\* Whatever an agent run does is what RunService has its runner do: it goes on
\* unseen, it returns a COMPLETED or a FAILED snapshot if nobody cancelled its
\* task, and if somebody did it ends by the CancelledError and nothing else,
\* whatever its own timer and the operation it awaits do in the same round.
ActsAsRunner == [][Service!Next]_(Service!vars)

=============================================================================
