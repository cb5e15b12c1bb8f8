----------------------------- MODULE RunService -----------------------------
(***************************************************************************)
(* The use case behind the API: RunService (application/run_service.py)    *)
(* over InMemoryRunRepository (infrastructure/repositories.py), with an    *)
(* AgentRunner and, optionally, an event sink.                             *)
(*                                                                         *)
(* Every submitted run is an asyncio task executing _execute.  at[r] is    *)
(* the await it is suspended in.  The repository's save never suspends     *)
(* (its lock is never held across an await) and never fails, so a save     *)
(* belongs to the action before it; the runner and the sink do suspend.    *)
(* The runner is OMEGAAgentRunner over Orchestrator.run, that is AgentRun: *)
(* it returns a COMPLETED or a FAILED snapshot or raises, it always ends,  *)
(* and lets a cancellation through.                                        *)
(*                                                                         *)
(* A definition Op_Variant, right before Op, is a mutated form of Op: a    *)
(* bug that could be made in that code, which a property must notice.      *)
(***************************************************************************)
EXTENDS Naturals, Sequences, SequencesExt

CONSTANTS
    Runs,       \* run ids
    HasSink,    \* the service was given an event sink
    SinkFails,  \* the sink may raise
    Cancels     \* somebody (event loop shutdown, a caller) cancels tasks

ASSUME ServiceAssumption ==
    /\ HasSink \in BOOLEAN
    /\ SinkFails \in BOOLEAN
    /\ Cancels \in BOOLEAN

VARIABLES
    repo,         \* the repository: state of the stored snapshot, or "absent"
    tasks,        \* RunService._tasks
    at,           \* where the task of each run is suspended
    pending,      \* cancel() was called and is not delivered yet
    outcome,      \* how the task ended: "returned", "raised" or "cancelled"
    produced,     \* the runner: not called, "called", or what it made of the run
    interrupted,  \* a CancelledError was raised in the task
    notified,     \* the sink has taken the event of the current call
    heard         \* the events the sink has taken, in order

task == <<at, pending, outcome, produced, interrupted>>
sink == <<notified, heard>>
vars == <<repo, tasks, task, sink>>

-----------------------------------------------------------------------------
Settled  == {"completed", "failed", "cancelled"}
RunState == {"queued", "running"} \union Settled

\* _save awaits the sink from four places of _execute.
Notifying == {"sink_running", "sink_final", "sink_failed", "sink_cancelled"}

Places   == Notifying \union {"none", "created", "run", "ended"}
Live(r)  == at[r] \notin {"none", "ended"}
Resumes(r, p) == at[r] = p /\ ~pending[r]

\* The task is done.
EndTask(r, how) ==
    /\ at' = [at EXCEPT ![r] = "ended"]
    /\ outcome' = [outcome EXCEPT ![r] = how]

\* The runner is called, and awaited.
CallRunner(r) ==
    /\ at' = [at EXCEPT ![r] = "run"]
    /\ produced' = [produced EXCEPT ![r] = "called"]

\* _save: the repository first, then the sink; without a sink _execute goes
\* on at once, which after a settling save means that the task is done.
SaveAndEnd(r, s, place, how) ==
    /\ repo' = [repo EXCEPT ![r] = s]
    /\ \/ /\ HasSink
          /\ at' = [at EXCEPT ![r] = place]
          /\ notified' = [notified EXCEPT ![r] = FALSE]
          /\ UNCHANGED outcome
       \/ /\ ~HasSink
          /\ EndTask(r, how)
          /\ UNCHANGED notified

-----------------------------------------------------------------------------
Init ==
    /\ repo = [r \in Runs |-> "absent"]
    /\ tasks = {}
    /\ at = [r \in Runs |-> "none"]
    /\ pending = [r \in Runs |-> FALSE]
    /\ outcome = [r \in Runs |-> "none"]
    /\ produced = [r \in Runs |-> "none"]
    /\ interrupted = [r \in Runs |-> FALSE]
    /\ notified = [r \in Runs |-> FALSE]
    /\ heard = [r \in Runs |-> <<>>]

\* submit: the queued snapshot is saved without telling the sink.
Submit(r) ==
    /\ at[r] = "none"
    /\ repo' = [repo EXCEPT ![r] = "queued"]
    /\ at' = [at EXCEPT ![r] = "created"]
    /\ tasks' = tasks \union {r}
    /\ UNCHANGED <<pending, outcome, produced, interrupted, sink>>

\* The task's first step: the RUNNING snapshot is saved, outside the try.
Begin_Unannounced(r) ==
    /\ Resumes(r, "created")
    /\ repo' = [repo EXCEPT ![r] = "running"]
    /\ CallRunner(r)
    /\ UNCHANGED <<tasks, pending, outcome, interrupted, sink>>
Begin_NotSaved(r) ==
    /\ Resumes(r, "created")
    /\ CallRunner(r)
    /\ UNCHANGED <<repo, tasks, pending, outcome, interrupted, sink>>
Begin(r) ==
    /\ Resumes(r, "created")
    /\ repo' = [repo EXCEPT ![r] = "running"]
    /\ \/ /\ HasSink
          /\ at' = [at EXCEPT ![r] = "sink_running"]
          /\ notified' = [notified EXCEPT ![r] = FALSE]
          /\ UNCHANGED produced
       \/ /\ ~HasSink
          /\ CallRunner(r)
          /\ UNCHANGED notified
    /\ UNCHANGED <<tasks, pending, outcome, interrupted, heard>>

\* The runner returns a snapshot; its state is saved as it is.
RunnerReturns(r) ==
    /\ Resumes(r, "run")
    /\ \E s \in {"completed", "failed"} :
          /\ produced' = [produced EXCEPT ![r] = s]
          /\ SaveAndEnd(r, s, "sink_final", "returned")
    /\ UNCHANGED <<tasks, pending, interrupted, heard>>

RunnerRaises(r) ==
    /\ Resumes(r, "run")
    /\ produced' = [produced EXCEPT ![r] = "raised"]
    /\ SaveAndEnd(r, "failed", "sink_failed", "returned")
    /\ UNCHANGED <<tasks, pending, interrupted, heard>>

-----------------------------------------------------------------------------
(* The event sink, called by _save.                                        *)

\* The sink takes the event, whatever becomes of the call afterwards.
SinkHears(r) ==
    /\ at[r] \in Notifying
    /\ ~notified[r]
    /\ notified' = [notified EXCEPT ![r] = TRUE]
    /\ heard' = [heard EXCEPT ![r] = Append(@, repo[r])]
    /\ UNCHANGED <<repo, tasks, task>>

RunningNoted(r) ==
    /\ Resumes(r, "sink_running")
    /\ notified[r]
    /\ CallRunner(r)
    /\ UNCHANGED <<repo, tasks, pending, outcome, interrupted, sink>>

\* After the CANCELLED snapshot _execute raises the CancelledError again.
EndNoted(r) ==
    /\ at[r] \in {"sink_final", "sink_failed", "sink_cancelled"}
    /\ Resumes(r, at[r])
    /\ notified[r]
    /\ EndTask(r, IF at[r] = "sink_cancelled" THEN "cancelled" ELSE "returned")
    /\ UNCHANGED <<repo, tasks, pending, produced, interrupted, sink>>

\* The sink's exception leaves _execute: nothing there catches it.
SinkFailsUncaught_Swallowed(r) ==
    /\ SinkFails
    /\ at[r] \in {"sink_running", "sink_failed", "sink_cancelled"}
    /\ Resumes(r, at[r])
    /\ EndTask(r, "returned")
    /\ UNCHANGED <<repo, tasks, pending, produced, interrupted, sink>>
SinkFailsUncaught(r) ==
    /\ SinkFails
    /\ at[r] \in {"sink_running", "sink_failed", "sink_cancelled"}
    /\ Resumes(r, at[r])
    /\ EndTask(r, "raised")
    /\ UNCHANGED <<repo, tasks, pending, produced, interrupted, sink>>

\* While the final snapshot is announced the sink is still inside the try: a
\* FAILED snapshot replaces the one just saved.
SinkFailsFinal(r) ==
    /\ SinkFails
    /\ Resumes(r, "sink_final")
    /\ SaveAndEnd(r, "failed", "sink_failed", "returned")
    /\ UNCHANGED <<tasks, pending, produced, interrupted, heard>>

-----------------------------------------------------------------------------
(* Cancellation.                                                           *)

Cancel(r) ==
    /\ Cancels
    /\ Live(r)
    /\ ~pending[r]
    /\ pending' = [pending EXCEPT ![r] = TRUE]
    /\ UNCHANGED <<repo, tasks, at, outcome, produced, interrupted, sink>>

\* CancelledError is raised where the task is suspended.  Only the runner and
\* the final announcement are inside the try; a task that was cancelled
\* before its first step executes nothing at all.
Interrupt_KeepsCompleted(r) ==
    /\ Live(r)
    /\ pending[r]
    /\ pending' = [pending EXCEPT ![r] = FALSE]
    /\ interrupted' = [interrupted EXCEPT ![r] = TRUE]
    /\ \/ /\ at[r] = "run"
          /\ SaveAndEnd(r, "cancelled", "sink_cancelled", "cancelled")
       \/ /\ at[r] # "run"
          /\ EndTask(r, "cancelled")
          /\ UNCHANGED <<repo, notified>>
    /\ UNCHANGED <<tasks, produced, heard>>
Interrupt_Swallowed(r) ==
    /\ Live(r)
    /\ pending[r]
    /\ pending' = [pending EXCEPT ![r] = FALSE]
    /\ interrupted' = [interrupted EXCEPT ![r] = TRUE]
    /\ \/ /\ at[r] \in {"run", "sink_final"}
          /\ SaveAndEnd(r, "cancelled", "sink_cancelled", "returned")
       \/ /\ at[r] \notin {"run", "sink_final"}
          /\ EndTask(r, "cancelled")
          /\ UNCHANGED <<repo, notified>>
    /\ UNCHANGED <<tasks, produced, heard>>
Interrupt_Requeues(r) ==
    /\ Live(r)
    /\ pending[r]
    /\ pending' = [pending EXCEPT ![r] = FALSE]
    /\ interrupted' = [interrupted EXCEPT ![r] = TRUE]
    /\ \/ /\ at[r] \in {"run", "sink_final"}
          /\ SaveAndEnd(r, "queued", "sink_cancelled", "cancelled")
       \/ /\ at[r] \notin {"run", "sink_final"}
          /\ EndTask(r, "cancelled")
          /\ UNCHANGED <<repo, notified>>
    /\ UNCHANGED <<tasks, produced, heard>>
Interrupt_WiderTry(r) ==
    /\ Live(r)
    /\ pending[r]
    /\ pending' = [pending EXCEPT ![r] = FALSE]
    /\ interrupted' = [interrupted EXCEPT ![r] = TRUE]
    /\ \/ /\ at[r] \in {"run", "sink_final", "sink_failed"}
          /\ SaveAndEnd(r, "cancelled", "sink_cancelled", "cancelled")
       \/ /\ at[r] \notin {"run", "sink_final", "sink_failed"}
          /\ EndTask(r, "cancelled")
          /\ UNCHANGED <<repo, notified>>
    /\ UNCHANGED <<tasks, produced, heard>>
Interrupt_Unrecorded(r) ==
    /\ Live(r)
    /\ pending[r]
    /\ pending' = [pending EXCEPT ![r] = FALSE]
    /\ interrupted' = [interrupted EXCEPT ![r] = TRUE]
    /\ EndTask(r, "cancelled")
    /\ UNCHANGED <<repo, tasks, produced, sink>>
Interrupt(r) ==
    /\ Live(r)
    /\ pending[r]
    /\ pending' = [pending EXCEPT ![r] = FALSE]
    /\ interrupted' = [interrupted EXCEPT ![r] = TRUE]
    /\ \/ /\ at[r] \in {"run", "sink_final"}
          /\ SaveAndEnd(r, "cancelled", "sink_cancelled", "cancelled")
       \/ /\ at[r] \notin {"run", "sink_final"}
          /\ EndTask(r, "cancelled")
          /\ UNCHANGED <<repo, notified>>
    /\ UNCHANGED <<tasks, produced, heard>>

\* task.add_done_callback(self._tasks.discard); the variant is a callback that
\* asks for the result first, which raises for a task that was cancelled.
DoneCallback_AsksResult(r) ==
    /\ at[r] = "ended"
    /\ outcome[r] = "returned"
    /\ r \in tasks
    /\ tasks' = tasks \ {r}
    /\ UNCHANGED <<repo, task, sink>>
DoneCallback(r) ==
    /\ at[r] = "ended"
    /\ r \in tasks
    /\ tasks' = tasks \ {r}
    /\ UNCHANGED <<repo, task, sink>>

Next ==
    \E r \in Runs :
        \/ Submit(r) \/ Begin(r) \/ RunnerReturns(r) \/ RunnerRaises(r)
        \/ SinkHears(r) \/ RunningNoted(r) \/ EndNoted(r)
        \/ SinkFailsUncaught(r) \/ SinkFailsFinal(r)
        \/ Cancel(r) \/ Interrupt(r) \/ DoneCallback(r)

\* The event loop takes up what is ready, and the runner ends (RunEnds of
\* AgentRun).  The sink has no timeout: it may keep a task for ever.
Fairness ==
    \A r \in Runs :
        /\ WF_vars(Begin(r))
        /\ WF_vars(RunnerReturns(r) \/ RunnerRaises(r))
        /\ WF_vars(Interrupt(r))
        /\ WF_vars(DoneCallback(r))

Spec == Init /\ [][Next]_vars /\ Fairness

-----------------------------------------------------------------------------
(* Properties.                                                             *)

TypeOK ==
    /\ repo \in [Runs -> RunState \union {"absent"}]
    /\ tasks \in SUBSET Runs
    /\ at \in [Runs -> Places]
    /\ pending \in [Runs -> BOOLEAN]
    /\ outcome \in [Runs -> {"none", "returned", "raised", "cancelled"}]
    /\ produced \in [Runs -> {"none", "called", "completed", "failed", "raised"}]
    /\ interrupted \in [Runs -> BOOLEAN]
    /\ notified \in [Runs -> BOOLEAN]
    /\ heard \in [Runs -> Seq(RunState)]

\* A task that is not done is held in _tasks: the event loop keeps weak
\* references only, and a run nobody holds could be collected half way.
TaskHeld == \A r \in Runs : Live(r) => r \in tasks

\* A task that ended without an exception has settled its run: the record is
\* final, and the sink has heard that very state, last.
ReturnedMeansRecorded ==
    \A r \in Runs : outcome[r] = "returned" =>
        /\ repo[r] \in Settled
        /\ HasSink => heard[r] # <<>> /\ Last(heard[r]) = repo[r]

\* A run is recorded completed only if its runner said so and no
\* CancelledError was raised in its task: cancellation is never converted
\* into a normal completion.
CompletedIsEarned ==
    \A r \in Runs : repo[r] = "completed" =>
        produced[r] = "completed" /\ ~interrupted[r]

\* How a task is lost before it runs, and between RUNNING and its runner.
LostInQueue(r) == outcome[r] = "cancelled" /\ interrupted[r] /\ heard[r] = <<>>

LostWhileAnnounced(r) ==
    /\ HasSink
    /\ \/ outcome[r] = "raised" /\ SinkFails
       \/ outcome[r] = "cancelled" /\ interrupted[r]
    /\ heard[r] \in {<<>>, <<"running">>}

\* A run whose task is done and whose record is not settled never came to its
\* runner.  Either its task was cancelled before the first step, or it was
\* lost while the sink was told RUNNING, by the sink's exception or by a
\* cancellation: a run that was handed to the runner is always settled, also
\* if it is cancelled there or the runner raises.
StrandedHasCause ==
    \A r \in Runs : at[r] = "ended" /\ repo[r] \notin Settled =>
        /\ produced[r] = "none"
        /\ \/ repo[r] = "queued" /\ LostInQueue(r)
           \/ repo[r] = "running" /\ LostWhileAnnounced(r)

\* The sink hears RUNNING first, then at most two verdicts; COMPLETED only as
\* the first of them, and only of a run whose runner completed it.
SinkFollowsRun ==
    \A r \in Runs : \A k \in 1..Len(heard[r]) :
        /\ k <= 3
        /\ heard[r][k] = "running" <=> k = 1
        /\ heard[r][k] = "completed" => k = 2 /\ produced[r] = "completed"

\* A settled record changes only while its final snapshot is being announced
\* to the sink, and never to COMPLETED.
ReplacedOnlyWhileAnnounced ==
    [][\A r \in Runs : repo[r] \in Settled /\ repo'[r] # repo[r] =>
          at[r] = "sink_final" /\ repo'[r] # "completed"]_repo

\* A task in which a CancelledError was raised ends cancelled.
CancellationPropagates ==
    \A r \in Runs : at[r] = "ended" /\ interrupted[r] => outcome[r] = "cancelled"

\* Without a sink the service is what the client is promised: it implements
\* RunLifecycle, its liveness included as long as nobody cancels.
Lifecycle == INSTANCE RunLifecycle WITH state <- repo
ImplementsLifecycle == Lifecycle!FairSpec
ImplementsSafeLifecycle == Lifecycle!SafeSpec

\* Every submitted run is settled or its task was cancelled, and _tasks does
\* not keep what is done.
EverySubmissionEnds ==
    \A r \in Runs :
        (repo[r] = "queued") ~>
            (r \notin tasks /\ (repo[r] \in Settled \/ outcome[r] = "cancelled"))

=============================================================================
