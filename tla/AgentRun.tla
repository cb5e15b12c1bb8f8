------------------------------ MODULE AgentRun ------------------------------
(***************************************************************************)
(* One run of an agent: Orchestrator.run and Orchestrator._run_loop        *)
(* (orchestrator/orchestrator.py) driving the AutonomousAgent of           *)
(* agents/agent_factory.py under a TokenBudget.                            *)
(*                                                                         *)
(* The run is a coroutine.  It gives up control only where it awaits an    *)
(* operation, so a control state pc is the await it is suspended in, and   *)
(* one action takes it from one await to the next.  While it is suspended  *)
(* the timer of asyncio.wait_for may fire and the task may be cancelled;   *)
(* both make the NEXT resumption raise CancelledError at that await, even  *)
(* if the awaited operation has finished in the meantime.  wait_for turns  *)
(* the exception into TimeoutError only when nobody else cancelled.        *)
(*                                                                         *)
(* A definition Op_Variant, right before Op, is a mutated form of Op: a    *)
(* bug that could be made in that code, which a property must notice.  No  *)
(* specification uses it.                                                  *)
(*                                                                         *)
(* The size of every text the budget is charged for is abstracted to its   *)
(* token estimate, and a step's result to the iteration it came from.      *)
(***************************************************************************)
EXTENDS Naturals, Sequences, SequencesExt

CONSTANTS
    Tools,          \* the names of the tools the agent was built with
    Names,          \* what a language model may answer as its action
    Final,          \* the action name "final"
    None,           \* Python's None
    MaxIterations,  \* max_iterations
    TokenLimit,     \* token_budget
    MaxEstimate,    \* bound: the largest estimate of a single text
    HasMemory,      \* the agent was given a memory store
    HasHandler      \* the orchestrator was given an event handler

ASSUME BudgetAssumption ==
    /\ MaxIterations \in Nat \ {0}
    /\ TokenLimit \in Nat \ {0}
    /\ MaxEstimate \in Nat \ {0}

ASSUME WiringAssumption ==
    /\ Final \in Names
    /\ HasMemory \in BOOLEAN
    /\ HasHandler \in BOOLEAN

VARIABLES
    pc,           \* the await the run is suspended in, "ready" or "ended"
    status,       \* AgentRun.status
    iteration,    \* AgentRun.iteration
    tokens_used,  \* AgentRun.tokens_used
    result,       \* AgentRun.result: the iteration it came from, 0 for None
    error,        \* AgentRun.error, abstracted to its cause
    trace,        \* AgentRun.trace
    used,         \* TokenBudget.used
    action,       \* the local of _run_loop: what the model chose to do
    timer,        \* the timer of wait_for: "armed" or "fired"
    cancelled,    \* somebody called cancel() on the task
    note,         \* the memory store's side of agent.remember
    accepted      \* how many events the handler has accepted

record  == <<status, iteration, tokens_used, result, error, trace>>
outside == <<timer, cancelled, note, accepted>>
vars    == <<pc, record, used, action, outside>>

-----------------------------------------------------------------------------
(* Vocabulary.                                                             *)

\* max(1, (len(text) + 3) // 4) of the texts that occur.
Estimates == 1..MaxEstimate

\* What an operation the agent depends on may raise.  A TimeoutError of its
\* own (the gateway's, a tool's) is told apart from every other exception.
Raised == {"TimeoutError", "Exception"}

\* A reply of the model may also fail to parse or to validate.
BadReply == Raised \union {"AgentProtocolError"}

Exceptions == BadReply \union {"OrchestrationError"}

RunStatus == {"running", "completed", "failed", "cancelled", "timeout",
              "budget_exhausted"}

Causes == Exceptions \union
          {None, "deadline", "iterations", "before_iteration", "after_planning"}

Awaits == {"perceive", "plan", "execute", "reflect", "emit", "remember",
           "emit_error"}

\* An entry of the trace: a step ("continue" or "done", after what its
\* reflection says) or the error that ended the run.
Entry(a, o) == [iteration |-> iteration, action |-> a, outcome |-> o]

Entries == [iteration : 1..MaxIterations,
            action    : Names \union {None},
            outcome   : {"continue", "done"} \union Exceptions]

IsError(entry) == entry.outcome \in Exceptions

Suspended   == pc \in Awaits
Interrupted == timer = "fired" \/ cancelled

\* The await p is over and its outcome is delivered to the run.
Resumes(p) == pc = p /\ ~Interrupted

-----------------------------------------------------------------------------
(* The pieces that the actions share.                                      *)

Remaining(u) == IF u < TokenLimit THEN TokenLimit - u ELSE 0

CanContinue_OffByOne(u) == Remaining(u) >= 0
CanContinue_ReserveTwo(u) == Remaining(u) >= 2
CanContinue(u) == Remaining(u) >= 1

\* The loop is left, wait_for returns and run() closes the record.
Finish(s, cause) ==
    /\ pc' = "ended"
    /\ status' = s
    /\ error' = cause
    /\ tokens_used' = used'

\* The head of the for loop, for iteration i with u tokens spent.
BeginIteration(i, u) ==
    /\ used' = u
    /\ \/ /\ i > MaxIterations
          /\ Finish("budget_exhausted", "iterations")
          /\ UNCHANGED <<iteration, action>>
       \/ /\ i <= MaxIterations
          /\ ~CanContinue(u)
          /\ Finish("budget_exhausted", "before_iteration")
          /\ UNCHANGED <<iteration, action>>
       \/ /\ i <= MaxIterations
          /\ CanContinue(u)
          /\ iteration' = i
          /\ action' = None
          /\ pc' = "plan"
          /\ UNCHANGED <<status, error, tokens_used>>

\* except Exception: the error is appended and announced, the run fails.
Fail_Untraced(a, x) ==
    /\ trace' = trace
    /\ Finish("failed", x)
    /\ UNCHANGED <<iteration, result>>
Fail(a, x) ==
    /\ trace' = Append(trace, Entry(a, x))
    /\ \/ /\ HasHandler
          /\ pc' = "emit_error"
          /\ UNCHANGED <<status, error, tokens_used>>
       \/ /\ ~HasHandler
          /\ Finish("failed", x)
    /\ UNCHANGED <<iteration, result>>

\* After a step was announced: the task is done, or the loop goes on.
AfterEmit_KeepsGoing(done, u) ==
    /\ result' = IF done THEN iteration ELSE result
    /\ BeginIteration(iteration + 1, u)
    /\ UNCHANGED note
AfterEmit(done, u) ==
    \/ /\ done
       /\ used' = u
       /\ result' = iteration
       /\ UNCHANGED <<iteration, action>>
       /\ \/ /\ HasMemory
             /\ pc' = "remember"
             /\ note' = "requested"
             /\ UNCHANGED <<status, error, tokens_used>>
          \/ /\ ~HasMemory
             /\ Finish("completed", None)
             /\ UNCHANGED note
    \/ /\ ~done
       /\ BeginIteration(iteration + 1, u)
       /\ UNCHANGED <<result, note>>

-----------------------------------------------------------------------------
Init ==
    /\ pc = "ready"
    /\ status = "running"
    /\ iteration = 0
    /\ tokens_used = 0
    /\ result = 0
    /\ error = None
    /\ trace = <<>>
    /\ used = 0
    /\ action = None
    /\ timer = "armed"
    /\ cancelled = FALSE
    /\ note = "none"
    /\ accepted = 0

\* run() is entered and perceives the task; without a memory perceive does
\* not suspend, and the run goes on to its first iteration at once.
Start ==
    /\ pc = "ready"
    /\ \/ /\ HasMemory
          /\ pc' = "perceive"
          /\ UNCHANGED <<status, iteration, tokens_used, error, used, action>>
       \/ /\ ~HasMemory
          /\ \E e \in Estimates : BeginIteration(1, used + e)
    /\ UNCHANGED <<result, trace, outside>>

PerceiveReturns ==
    /\ Resumes("perceive")
    /\ \E e \in Estimates : BeginIteration(1, used + e)
    /\ UNCHANGED <<result, trace, outside>>

\* perceive is outside the loop's try: its exception reaches run(), where a
\* TimeoutError cannot be told from that of wait_for.
PerceiveFails ==
    /\ Resumes("perceive")
    /\ used' = used
    /\ \/ Finish("timeout", "deadline")
       \/ Finish("failed", "Exception")
    /\ UNCHANGED <<iteration, result, trace, action, outside>>

\* The model did not answer, or its answer is no action.
PlanFails ==
    /\ Resumes("plan")
    /\ used' = used
    /\ \E x \in BadReply : Fail(None, x)
    /\ UNCHANGED <<action, outside>>

PlanExhaustsBudget ==
    /\ Resumes("plan")
    /\ \E a \in Names, e \in Estimates :
          /\ ~CanContinue(used + e)
          /\ action' = a
          /\ used' = used + e
    /\ Finish("budget_exhausted", "after_planning")
    /\ UNCHANGED <<iteration, result, trace, outside>>

\* "final" is executed without suspending: its result is the rationale.
PlanFinal ==
    /\ Resumes("plan")
    /\ \E e, f \in Estimates :
          /\ CanContinue(used + e)
          /\ used' = used + e + f
    /\ action' = Final
    /\ pc' = "reflect"
    /\ UNCHANGED <<record, outside>>

PlanTool ==
    /\ Resumes("plan")
    /\ \E a \in (Names \intersect Tools) \ {Final}, e \in Estimates :
          /\ CanContinue(used + e)
          /\ action' = a
          /\ used' = used + e
    /\ pc' = "execute"
    /\ UNCHANGED <<record, outside>>

\* execute() knows no tool of that name.
PlanUnauthorized ==
    /\ Resumes("plan")
    /\ \E a \in Names \ (Tools \union {Final}), e \in Estimates :
          /\ CanContinue(used + e)
          /\ action' = a
          /\ used' = used + e
          /\ Fail(a, "AgentProtocolError")
    /\ UNCHANGED outside

ExecuteReturns ==
    /\ Resumes("execute")
    /\ \E e \in Estimates : used' = used + e
    /\ pc' = "reflect"
    /\ UNCHANGED <<record, action, outside>>

ExecuteFails ==
    /\ Resumes("execute")
    /\ used' = used
    /\ \E x \in Raised : Fail(action, x)
    /\ UNCHANGED <<action, outside>>

ReflectFails ==
    /\ Resumes("reflect")
    /\ used' = used
    /\ \E x \in BadReply : Fail(action, x)
    /\ UNCHANGED <<action, outside>>

\* The step is over: it is traced, then announced to the handler if any.
ReflectReturns ==
    /\ Resumes("reflect")
    /\ \E done \in BOOLEAN, e \in Estimates :
          /\ trace' = Append(trace, Entry(action, IF done THEN "done" ELSE "continue"))
          /\ \/ /\ HasHandler
                /\ used' = used + e
                /\ pc' = "emit"
                /\ UNCHANGED <<status, iteration, tokens_used, result, error, action, note>>
             \/ /\ ~HasHandler
                /\ AfterEmit(done, used + e)
    /\ UNCHANGED <<timer, cancelled, accepted>>

EmitReturns ==
    /\ Resumes("emit")
    /\ accepted' = accepted + 1
    /\ AfterEmit(Last(trace).outcome = "done", used)
    /\ UNCHANGED <<trace, timer, cancelled>>

\* _emit wraps what the handler raises; the loop's own except catches it.
EmitFails_Ignored ==
    /\ Resumes("emit")
    /\ AfterEmit(Last(trace).outcome = "done", used)
    /\ UNCHANGED <<trace, timer, cancelled, accepted>>
EmitFails ==
    /\ Resumes("emit")
    /\ used' = used
    /\ Fail(action, "OrchestrationError")
    /\ UNCHANGED <<action, outside>>

\* The store applies the write it was asked for.  It does so on its own
\* time: before the call returns or fails, or after the run has ended.
MemoryStored ==
    /\ note = "requested"
    /\ note' = "stored"
    /\ UNCHANGED <<pc, record, used, action, timer, cancelled, accepted>>

RememberReturns ==
    /\ Resumes("remember")
    /\ note' = "stored"
    /\ used' = used
    /\ Finish("completed", None)
    /\ UNCHANGED <<iteration, result, trace, action, timer, cancelled, accepted>>

RememberFails_Swallowed ==
    /\ Resumes("remember")
    /\ used' = used
    /\ Finish("completed", None)
    /\ UNCHANGED <<iteration, result, trace, action, outside>>
RememberFails ==
    /\ Resumes("remember")
    /\ used' = used
    /\ \E x \in Raised : Fail(action, x)
    /\ UNCHANGED <<action, outside>>

EmitErrorReturns ==
    /\ Resumes("emit_error")
    /\ accepted' = accepted + 1
    /\ used' = used
    /\ Finish("failed", Last(trace).outcome)
    /\ UNCHANGED <<iteration, result, trace, action, timer, cancelled, note>>

\* The handler fails again while it is told of the error: its exception
\* leaves the loop and run() reports it in place of the first.
EmitErrorFails ==
    /\ Resumes("emit_error")
    /\ used' = used
    /\ Finish("failed", "OrchestrationError")
    /\ UNCHANGED <<iteration, result, trace, action, outside>>

TimerFires ==
    /\ Suspended
    /\ timer = "armed"
    /\ timer' = "fired"
    /\ UNCHANGED <<pc, record, used, action, cancelled, note, accepted>>

Cancel ==
    /\ Suspended
    /\ ~cancelled
    /\ cancelled' = TRUE
    /\ UNCHANGED <<pc, record, used, action, timer, note, accepted>>

\* CancelledError is raised at the await.  No except clause of the loop
\* keeps it; run() closes the record, or marks it and lets it pass.
Interrupt_Shielded ==
    /\ Suspended
    /\ Interrupted
    /\ pc \notin {"execute", "remember"}
    /\ used' = used
    /\ Finish(IF cancelled THEN "cancelled" ELSE "timeout", "deadline")
    /\ UNCHANGED <<iteration, result, trace, action, outside>>
Interrupt_TimeoutFirst ==
    /\ Suspended
    /\ Interrupted
    /\ used' = used
    /\ Finish(IF timer = "fired" THEN "timeout" ELSE "cancelled", "deadline")
    /\ UNCHANGED <<iteration, result, trace, action, outside>>
Interrupt_KeepsResult ==
    /\ Suspended
    /\ Interrupted
    /\ used' = used
    /\ Finish(IF cancelled THEN "cancelled" ELSE
              IF result # 0 THEN "completed" ELSE "timeout", None)
    /\ UNCHANGED <<iteration, result, trace, action, outside>>
Interrupt ==
    /\ Suspended
    /\ Interrupted
    /\ \/ /\ cancelled
          /\ pc' = "ended"
          /\ status' = "cancelled"
          /\ UNCHANGED <<used, error, tokens_used>>
       \/ /\ ~cancelled
          /\ used' = used
          /\ Finish("timeout", "deadline")
    /\ UNCHANGED <<iteration, result, trace, action, outside>>

Next ==
    \/ Start
    \/ PerceiveReturns \/ PerceiveFails
    \/ PlanFails \/ PlanExhaustsBudget
    \/ PlanFinal \/ PlanTool \/ PlanUnauthorized
    \/ ExecuteReturns \/ ExecuteFails
    \/ ReflectReturns \/ ReflectFails
    \/ EmitReturns \/ EmitFails
    \/ MemoryStored \/ RememberReturns \/ RememberFails
    \/ EmitErrorReturns \/ EmitErrorFails
    \/ TimerFires \/ Cancel \/ Interrupt

\* The event loop runs what is ready and its timers fire.  Nothing is said
\* of the model, the tools, the memory and the handler: they may hang.
Fairness == WF_vars(Start) /\ WF_vars(TimerFires) /\ WF_vars(Interrupt)

Spec == Init /\ [][Next]_vars /\ Fairness

-----------------------------------------------------------------------------
(* Properties.                                                             *)

TypeOK ==
    /\ pc \in Awaits \union {"ready", "ended"}
    /\ status \in RunStatus
    /\ iteration \in 0..MaxIterations
    /\ tokens_used \in Nat
    /\ result \in 0..MaxIterations
    /\ error \in Causes
    /\ trace \in Seq(Entries)
    /\ used \in Nat
    /\ action \in Names \union {None}
    /\ timer \in {"armed", "fired"}
    /\ cancelled \in BOOLEAN
    /\ note \in {"none", "requested", "stored"}
    /\ accepted \in Nat

Ended == pc = "ended"

Steps == {k \in 1..Len(trace) : ~IsError(trace[k])}

\* The budget is soft: it is looked at before an iteration and after
\* planning, and a step that has begun is charged to its end.  It may be
\* overrun, but never by more than the result and the reflection of one step.
SpendBounded == used <= TokenLimit - 1 + 2 * MaxEstimate

\* A run is reported completed only if a reflection said "done" for its last
\* step: its result is that step's, nothing failed, the memory holds the
\* note and the handler accepted every event of the trace.
CompletedMeansDone ==
    Ended /\ status = "completed" =>
        /\ trace # <<>>
        /\ Last(trace).outcome = "done"
        /\ result = iteration
        /\ Len(trace) = iteration
        /\ error = None
        /\ HasMemory => note = "stored"
        /\ HasHandler => accepted = Len(trace)

\* A run reported as out of budget really is: it spent its tokens, or it went
\* through all its iterations, and in neither case had a step said "done".
ExhaustionIsReal ==
    Ended /\ status = "budget_exhausted" =>
        /\ result = 0
        /\ \A k \in 1..Len(trace) : trace[k].outcome = "continue"
        /\ used >= TokenLimit \/ Len(trace) = MaxIterations

\* The trace holds one step per iteration, in order, "done" at most once and
\* only for the last; an error is its last entry and belongs to the current
\* iteration, whether that iteration's step was traced before or not.
TraceShape ==
    /\ \A k \in 1..(Len(trace) - 1) : ~IsError(trace[k])
    /\ \A k \in Steps :
          /\ trace[k].iteration = k
          /\ trace[k].outcome = "done" => k = iteration
    /\ \A k \in 1..Len(trace) :
          IsError(trace[k]) =>
              /\ trace[k].iteration = iteration
              /\ k \in {iteration, iteration + 1}

\* A failed run names its cause: it failed while perceiving, before the first
\* iteration, or its last trace entry is the error of its last iteration.
\* run.error is that error, unless the handler failed while told of it.
FailureIsTraced ==
    Ended /\ status = "failed" =>
        \/ iteration = 0 /\ trace = <<>>
        \/ /\ trace # <<>>
           /\ IsError(Last(trace))
           /\ Last(trace).iteration = iteration
           /\ \/ error = Last(trace).outcome
              \/ HasHandler /\ error = "OrchestrationError"

\* A run that somebody cancelled before it ended is reported cancelled,
\* whatever its timer and its pending operation did, and no other run is.
CancellationWins == Ended => (status = "cancelled" <=> cancelled)

\* Nothing completes, fails or runs out of budget after the deadline; and
\* once the run is past perceiving, "timeout" means its own timer fired, not
\* that some operation raised a TimeoutError of its own.
DeadlineEnforced ==
    Ended =>
        /\ timer = "fired" => status \in {"timeout", "cancelled"}
        /\ status = "timeout" /\ iteration > 0 => timer = "fired"

\* The handler misses no event in the middle: it accepts the entries of the
\* trace in order, all but the last two at most (the event it failed on, or
\* was interrupted in, and the error that followed).
EventsFollowTrace ==
    HasHandler =>
        /\ accepted <= Len(trace)
        /\ Len(trace) - accepted <= 2
        /\ Len(trace) - accepted = 2 => IsError(Last(trace))

\* What is remembered as a result is a result: the store is asked to keep a
\* note only of a step that a reflection called done.
NoteIsOfDoneStep ==
    note # "none" =>
        /\ result = iteration
        /\ \E k \in Steps : trace[k].iteration = result /\ trace[k].outcome = "done"

\* What others learn of a run, its event handler and its memory, is what its
\* trace says, however the run ends.
ObserversFollowTrace == EventsFollowTrace /\ NoteIsOfDoneStep

\* Every run ends, though the operations it awaits may hang for ever.
RunEnds == <>Ended

=============================================================================
