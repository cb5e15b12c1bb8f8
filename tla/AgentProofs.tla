----------------------------- MODULE AgentProofs -----------------------------
(***************************************************************************)
(* Proofs about AgentRun, for every set of tools, every budget, and every  *)
(* wiring of memory and handler; and about AgentGraph, whose hops are such *)
(* runs, for every set of nodes, every graph and any number of hops.       *)
(*                                                                         *)
(* None of the properties is inductive.  Those of a run follow from one    *)
(* invariant, IInv, which says of every await of the loop what the run     *)
(* must have done to be suspended there.  A step of the run under way in a *)
(* graph is a step of AgentRun, so IInv is kept by it; what is added is    *)
(* the walk, and what a run reports when it ends.                          *)
(***************************************************************************)
EXTENDS AgentGraph, AgentRunner, TLAPS

\* The iteration that is under way, and the status it leaves alone.
PhaseInv ==
    /\ pc \in {"ready", "perceive"} => iteration = 0 /\ trace = <<>>
    /\ pc \in Awaits \ {"perceive"} => iteration >= 1
    /\ ~Ended => status = "running"
    /\ pc = "emit_error" => trace # <<>> /\ IsError(Last(trace))

\* What may have been spent at each await.  The two looks at the budget are
\* what keeps "plan" and "execute" below the limit.
BudgetInv ==
    /\ pc \in {"ready", "perceive"} => used = 0
    /\ pc \in {"plan", "execute"} => used < TokenLimit
    /\ pc = "reflect" => used <= TokenLimit - 1 + MaxEstimate
    /\ SpendBounded

\* Nobody interrupts a run that has not begun.
VerdictInv ==
    /\ pc = "ready" => timer = "armed" /\ ~cancelled
    /\ CancellationWins
    /\ DeadlineEnforced

IInv == TypeOK /\ PhaseInv /\ BudgetInv /\ VerdictInv

-----------------------------------------------------------------------------
\* A failure is recorded: the trace ends in an error afterwards.
LEMMA FailIsTraced ==
  ASSUME TypeOK, iteration >= 1, NEW a \in Names \union {None},
         NEW x \in Exceptions, Fail(a, x)
  PROVE  /\ trace' \in Seq(Entries)
         /\ Len(trace') = Len(trace) + 1
         /\ Last(trace') = Entry(a, x)
         /\ IsError(Last(trace'))
<1>1. Entry(a, x) \in Entries
  BY DEF TypeOK, Entry, Entries
<1>2. trace' = Append(trace, Entry(a, x)) /\ trace \in Seq(Entries)
  BY DEF Fail, TypeOK
<1>3. trace' \in Seq(Entries) /\ Len(trace') = Len(trace) + 1
      /\ trace'[Len(trace')] = Entry(a, x)
  BY <1>1, <1>2
<1>4. Last(trace') = Entry(a, x)
  BY <1>3 DEF Last
<1>5. IsError(Entry(a, x))
  BY DEF IsError, Entry
<1>6. QED
  BY <1>3, <1>4, <1>5

\* The run starts in a state that satisfies the invariant.
LEMMA InitEstablishes == Init => IInv
<1> SUFFICES ASSUME Init PROVE IInv
    OBVIOUS
<1> USE BudgetAssumption DEF Init, Ended, Awaits
<1>0. cancelled \in BOOLEAN
  OBVIOUS
<1>1. TypeOK
  BY <1>0 DEF TypeOK, RunStatus, Causes
<1>2. PhaseInv
  BY DEF PhaseInv
<1>3. BudgetInv
  BY DEF BudgetInv, SpendBounded
<1>4. VerdictInv
  BY DEF VerdictInv, CancellationWins, DeadlineEnforced
<1>5. QED
  BY <1>1, <1>2, <1>3, <1>4 DEF IInv

\* Every step preserves the invariant.
LEMMA StepPreserves == IInv /\ [Next]_vars => IInv'
<1> SUFFICES ASSUME IInv, [Next]_vars
             PROVE  IInv'
    OBVIOUS
<1> USE BudgetAssumption, WiringAssumption
    DEF IInv, TypeOK, PhaseInv, BudgetInv, VerdictInv, SpendBounded,
        CancellationWins, DeadlineEnforced, Ended, Awaits, RunStatus, Causes,
        Suspended, Interrupted, Resumes, outside, record, Estimates, Raised,
        BadReply, Exceptions
<1>1. CASE Start
  BY <1>1 DEF Start, BeginIteration, CanContinue, Remaining, Finish
<1>2. CASE PerceiveReturns
  BY <1>2 DEF PerceiveReturns, BeginIteration, CanContinue, Remaining, Finish
<1>3. CASE PerceiveFails
  BY <1>3 DEF PerceiveFails, Finish
<1>4. CASE PlanFails
  BY <1>4, FailIsTraced DEF PlanFails, Fail, Finish
<1>5. CASE PlanExhaustsBudget
  BY <1>5 DEF PlanExhaustsBudget, Finish
<1>6. CASE PlanFinal
  BY <1>6 DEF PlanFinal, CanContinue, Remaining
<1>7. CASE PlanTool
  BY <1>7 DEF PlanTool, CanContinue, Remaining
<1>8. CASE PlanUnauthorized
  BY <1>8, FailIsTraced DEF PlanUnauthorized, Fail, Finish, CanContinue, Remaining
<1>9. CASE ExecuteReturns
  BY <1>9 DEF ExecuteReturns
<1>10. CASE ExecuteFails
  BY <1>10, FailIsTraced DEF ExecuteFails, Fail, Finish
<1>11. CASE ReflectReturns
  BY <1>11 DEF ReflectReturns, AfterEmit, BeginIteration, CanContinue, Remaining, Finish, Entry, Entries
<1>12. CASE ReflectFails
  BY <1>12, FailIsTraced DEF ReflectFails, Fail, Finish
<1>13. CASE EmitReturns
  BY <1>13 DEF EmitReturns, AfterEmit, BeginIteration, CanContinue, Remaining, Finish
<1>14. CASE EmitFails
  BY <1>14, FailIsTraced DEF EmitFails, Fail, Finish
<1>15. CASE MemoryStored
  BY <1>15 DEF MemoryStored
<1>16. CASE RememberReturns
  BY <1>16 DEF RememberReturns, Finish
<1>17. CASE RememberFails
  BY <1>17, FailIsTraced DEF RememberFails, Fail, Finish
<1>18. CASE EmitErrorReturns
  BY <1>18 DEF EmitErrorReturns, Finish, IsError
<1>19. CASE EmitErrorFails
  BY <1>19 DEF EmitErrorFails, Finish
<1>20. CASE TimerFires
  BY <1>20 DEF TimerFires
<1>21. CASE Cancel
  BY <1>21 DEF Cancel
<1>22. CASE Interrupt
  BY <1>22 DEF Interrupt, Finish
<1>23. CASE UNCHANGED vars
  BY <1>23 DEF vars
<1>24. QED
  BY <1>1, <1>2, <1>3, <1>4, <1>5, <1>6, <1>7, <1>8, <1>9, <1>10, <1>11,
     <1>12, <1>13, <1>14, <1>15, <1>16, <1>17, <1>18, <1>19, <1>20, <1>21,
     <1>22, <1>23
  DEF Next

-----------------------------------------------------------------------------
\* The invariant holds of every reachable state.
LEMMA Invariance == Spec => []IInv
  BY InitEstablishes, StepPreserves, PTL DEF Spec

\* Every variable keeps the type that the code gives it: in particular the
\* iteration never exceeds max_iterations, and the trace is well formed.
THEOREM TypeCorrect == Spec => []TypeOK
<1>1. IInv => TypeOK
  BY DEF IInv
<1>2. QED
  BY <1>1, Invariance, PTL

\* TokenBudget is overrun by less than the texts of one step, whatever the
\* model, the tools and the memory answer.
THEOREM SpendIsBounded == Spec => []SpendBounded
<1>1. IInv => SpendBounded
  BY DEF IInv, BudgetInv
<1>2. QED
  BY <1>1, Invariance, PTL

\* A run that was cancelled before it ended is reported as cancelled, in
\* every race with its timer and with the operation it awaits.
THEOREM CancellationIsReported == Spec => []CancellationWins
<1>1. IInv => CancellationWins
  BY DEF IInv, VerdictInv
<1>2. QED
  BY <1>1, Invariance, PTL

\* Nothing is reported but "timeout" or "cancelled" once the deadline has
\* passed, and past the first iteration "timeout" is the run's own.
THEOREM DeadlineIsEnforced == Spec => []DeadlineEnforced
<1>1. IInv => DeadlineEnforced
  BY DEF IInv, VerdictInv
<1>2. QED
  BY <1>1, Invariance, PTL

-----------------------------------------------------------------------------
(* The run as a runner.                                                    *)

\* A cancellation comes from outside, and is the only thing that can come
\* from there; a run that has ended does nothing more.
LEMMA StepsOfARun ==
  ASSUME IInv, Next
  PROVE  /\ Cancel \/ cancelled' = cancelled
         /\ Ended => UNCHANGED <<pc, status, cancelled>>
<1> USE DEF Ended, Resumes, Suspended, Awaits, outside, record
<1>1. CASE TimerFires \/ Cancel \/ Interrupt \/ MemoryStored
  BY <1>1 DEF TimerFires, Cancel, Interrupt, MemoryStored
<1>2. CASE Start \/ PerceiveReturns \/ PerceiveFails
  BY <1>2 DEF Start, PerceiveReturns, PerceiveFails
<1>3. CASE PlanFails \/ PlanExhaustsBudget \/ PlanFinal \/ PlanTool \/ PlanUnauthorized
  BY <1>3 DEF PlanFails, PlanExhaustsBudget, PlanFinal, PlanTool, PlanUnauthorized
<1>4. CASE ExecuteReturns \/ ExecuteFails \/ ReflectReturns \/ ReflectFails
  BY <1>4 DEF ExecuteReturns, ExecuteFails, ReflectReturns, ReflectFails
<1>5. CASE EmitReturns \/ EmitFails \/ RememberReturns \/ RememberFails
  BY <1>5 DEF EmitReturns, EmitFails, RememberReturns, RememberFails
<1>6. CASE EmitErrorReturns \/ EmitErrorFails
  BY <1>6 DEF EmitErrorReturns, EmitErrorFails
<1>7. QED
  BY <1>1, <1>2, <1>3, <1>4, <1>5, <1>6 DEF Next

\* Every step of an agent run is one that RunService allows its runner, or
\* one it does not see: what the models of the two assume of each other holds.
THEOREM RunsAreRunners == Spec => ActsAsRunner
<1>1. IInv /\ IInv' /\ [Next]_vars => [Service!Next]_(Service!vars)
  <2> SUFFICES ASSUME IInv, IInv', [Next]_vars PROVE [Service!Next]_(Service!vars)
      OBVIOUS
  <2> USE DEF OfRun, Raises, Snapshot
  <2>1. /\ ~Ended => status = "running"
        /\ Ended' => (status' = "cancelled" <=> cancelled')
        /\ cancelled \in BOOLEAN /\ cancelled' \in BOOLEAN
    BY DEF IInv, TypeOK, PhaseInv, VerdictInv, CancellationWins, Ended
  <2>2. ASSUME UNCHANGED <<pc, status, cancelled>> PROVE UNCHANGED Service!vars
    BY <2>2 DEF Ended, Service!vars, Service!task, Service!sink
  <2>3. ASSUME ~Ended, ~Ended', cancelled' = cancelled PROVE UNCHANGED Service!vars
    BY <2>3 DEF Service!vars, Service!task, Service!sink
  <2>4. ASSUME Cancel PROVE Service!Cancel(1)
    <3>1. ~Ended /\ ~Ended' /\ ~cancelled /\ cancelled'
      BY <2>4 DEF Cancel, Suspended, Awaits, Ended
    <3>2. QED
      BY <3>1 DEF Service!Cancel, Service!Live, Service!sink
  <2>5. ASSUME ~Ended, Ended', ~cancelled, ~cancelled' PROVE Service!RunnerReturns(1)
    BY <2>1, <2>5
    DEF Service!RunnerReturns, Service!Resumes, Service!SaveAndEnd, Service!EndTask
  <2>6. ASSUME ~Ended, Ended', cancelled, cancelled' PROVE Service!Interrupt(1)
    BY <2>1, <2>6
    DEF Service!Interrupt, Service!Live, Service!SaveAndEnd, Service!EndTask
  <2>7. CASE Next
    <3>1. Cancel \/ cancelled' = cancelled
      BY <2>7, StepsOfARun
    <3>2. Ended => UNCHANGED <<pc, status, cancelled>>
      BY <2>7, StepsOfARun
    <3>3. QED
      BY <2>1, <2>2, <2>3, <2>4, <2>5, <2>6, <3>1, <3>2 DEF Service!Next
  <2>8. CASE UNCHANGED vars
    BY <2>2, <2>8 DEF vars, record, outside
  <2>9. QED
    BY <2>7, <2>8
<1>2. QED
  BY <1>1, Invariance, PTL DEF Spec, ActsAsRunner

-----------------------------------------------------------------------------
(* The trace.  A second invariant says, await by await, what the trace, the *)
(* result, the note and the handler have in common.                        *)

\* The first n entries are steps whose reflection asked for another one.
Continued(n) ==
    \A k \in 1..n : trace[k].iteration = k /\ trace[k].outcome = "continue"

\* The current iteration has left no entry yet.
BeforeStep == Len(trace) = iteration - 1 /\ Continued(iteration - 1)

\* The step of the current iteration is the last entry.
AfterStep ==
    /\ Len(trace) = iteration
    /\ Continued(iteration - 1)
    /\ trace[iteration].iteration = iteration
    /\ trace[iteration].outcome \in {"continue", "done"}

\* The current iteration has failed, with or without a step before.
AfterError ==
    /\ Len(trace) \in {iteration, iteration + 1}
    /\ Continued(iteration - 1)
    /\ Len(trace) = iteration + 1 =>
          /\ trace[iteration].iteration = iteration
          /\ trace[iteration].outcome \in {"continue", "done"}
    /\ IsError(trace[Len(trace)])
    /\ trace[Len(trace)].iteration = iteration

DoneStep ==
    /\ iteration >= 1
    /\ AfterStep
    /\ trace[iteration].outcome = "done"

HistoryInv ==
    /\ pc \in {"plan", "execute", "reflect"} => BeforeStep
    /\ pc = "emit" => AfterStep
    /\ pc = "remember" => DoneStep
    /\ pc = "emit_error" => AfterError
    /\ Ended =>
          \/ iteration = 0 /\ trace = <<>>
          \/ iteration >= 1 /\ (BeforeStep \/ AfterStep \/ AfterError)

\* A result is set, and a note asked for, by a step that is done.
ResultInv ==
    /\ pc \in {"ready", "perceive", "plan", "execute", "reflect", "emit"} =>
          result = 0 /\ note = "none"
    /\ pc = "remember" => HasMemory /\ result = iteration
    /\ note # "none" => result # 0
    /\ result # 0 =>
          /\ result = iteration
          /\ iteration <= Len(trace)
          /\ trace[iteration].iteration = iteration
          /\ trace[iteration].outcome = "done"

HandlerInv ==
    /\ pc \in {"emit", "emit_error"} => HasHandler
    /\ HasHandler =>
        /\ pc \in {"ready", "perceive", "plan", "execute", "reflect", "remember"} =>
              accepted = Len(trace)
        /\ pc = "emit" => accepted = Len(trace) - 1
        /\ pc = "emit_error" => accepted < Len(trace)
        /\ EventsFollowTrace

EndInv ==
    Ended =>
        /\ status = "completed" =>
              /\ DoneStep
              /\ result = iteration
              /\ error = None
              /\ HasMemory => note = "stored"
              /\ HasHandler => accepted = Len(trace)
        /\ status = "budget_exhausted" =>
              /\ result = 0
              /\ \/ used >= TokenLimit /\ iteration = 0 /\ trace = <<>>
                 \/ used >= TokenLimit /\ iteration >= 1 /\ BeforeStep
                 \/ /\ iteration >= 1
                    /\ AfterStep
                    /\ trace[iteration].outcome = "continue"
                    /\ used >= TokenLimit \/ iteration = MaxIterations
        /\ status = "failed" =>
              \/ iteration = 0 /\ trace = <<>>
              \/ /\ iteration >= 1
                 /\ AfterError
                 /\ \/ error = trace[Len(trace)].outcome
                    \/ HasHandler /\ error = "OrchestrationError"

Hist == HistoryInv /\ ResultInv /\ HandlerInv /\ EndInv

-----------------------------------------------------------------------------
\* Appending leaves the entries before it alone.
LEMMA AppendKeeps ==
  ASSUME TypeOK, iteration >= 1, NEW a \in Names \union {None},
         NEW o \in {"continue", "done"} \union Exceptions,
         trace' = Append(trace, Entry(a, o))
  PROVE  /\ Len(trace') = Len(trace) + 1
         /\ Len(trace) \in Nat
         /\ \A k \in 1..Len(trace) : trace'[k] = trace[k]
         /\ trace'[Len(trace) + 1].iteration = iteration
         /\ trace'[Len(trace) + 1].outcome = o
<1>1. Entry(a, o) \in Entries /\ trace \in Seq(Entries)
  BY DEF TypeOK, Entry, Entries
<1>2. trace'[Len(trace) + 1] = Entry(a, o)
  BY <1>1
<1>3. QED
  BY <1>1, <1>2 DEF Entry

\* The head of the loop ends the run or begins iteration i.
LEMMA IterationBegins ==
  ASSUME NEW i \in Nat, NEW u \in Nat, BeginIteration(i, u)
  PROVE  /\ used' = u
         /\ \/ /\ pc' = "ended"
               /\ status' = "budget_exhausted"
               /\ iteration' = iteration
               /\ u >= TokenLimit \/ i > MaxIterations
            \/ /\ pc' = "plan"
               /\ iteration' = i
               /\ i <= MaxIterations
  BY BudgetAssumption DEF BeginIteration, CanContinue, Remaining, Finish

\* With the step of the current iteration traced and announced, the run is
\* completed, remembered, out of budget, or before the next step.
LEMMA StepAnnounced ==
  ASSUME TypeOK, iteration >= 1, result = 0, note = "none",
         NEW done \in BOOLEAN, NEW u \in Nat, AfterEmit(done, u),
         Len(trace') = iteration,
         \A k \in 1..(iteration - 1) :
            trace'[k].iteration = k /\ trace'[k].outcome = "continue",
         trace'[iteration].iteration = iteration,
         trace'[iteration].outcome = IF done THEN "done" ELSE "continue",
         HasHandler => accepted' = iteration
  PROVE  Hist'
<1> USE BudgetAssumption DEF TypeOK
<1>1. CASE done /\ HasMemory
  <2>1. /\ pc' = "remember"
        /\ result' = iteration
        /\ iteration' = iteration
        /\ note' = "requested"
    BY <1>1 DEF AfterEmit
  <2>2. DoneStep'
    BY <1>1, <2>1 DEF DoneStep, AfterStep, Continued
  <2>3. QED
    BY <1>1, <2>1, <2>2
    DEF Hist, HistoryInv, ResultInv, HandlerInv, EndInv, Ended, EventsFollowTrace
<1>2. CASE done /\ ~HasMemory
  <2>1. /\ pc' = "ended"
        /\ status' = "completed"
        /\ error' = None
        /\ result' = iteration
        /\ iteration' = iteration
        /\ note' = "none"
    BY <1>2 DEF AfterEmit, Finish
  <2>2. DoneStep'
    BY <1>2, <2>1 DEF DoneStep, AfterStep, Continued
  <2>3. AfterStep'
    BY <2>2 DEF DoneStep
  <2>4. QED
    BY <1>2, <2>1, <2>2, <2>3
    DEF Hist, HistoryInv, ResultInv, HandlerInv, EndInv, Ended, EventsFollowTrace
<1>3. CASE ~done
  <2>1. /\ BeginIteration(iteration + 1, u)
        /\ result' = 0
        /\ note' = "none"
    BY <1>3 DEF AfterEmit
  <2>2. iteration + 1 \in Nat
    OBVIOUS
  <2>3. CASE pc' = "ended"
    <3>1. /\ status' = "budget_exhausted"
          /\ iteration' = iteration
          /\ used' >= TokenLimit \/ iteration = MaxIterations
      BY <2>1, <2>2, <2>3, IterationBegins
    <3>2. AfterStep' /\ trace'[iteration].outcome = "continue"
      BY <1>3, <3>1 DEF AfterStep, Continued
    <3>3. QED
      BY <2>1, <2>3, <3>1, <3>2
      DEF Hist, HistoryInv, ResultInv, HandlerInv, EndInv, Ended, EventsFollowTrace
  <2>4. CASE pc' = "plan"
    <3>1. iteration' = iteration + 1
      BY <2>1, <2>2, <2>4, IterationBegins
    <3>2. BeforeStep'
      BY <1>3, <3>1 DEF BeforeStep, Continued
    <3>3. QED
      BY <2>1, <2>4, <3>1, <3>2
      DEF Hist, HistoryInv, ResultInv, HandlerInv, EndInv, Ended, EventsFollowTrace
  <2>5. QED
    BY <2>1, <2>2, <2>3, <2>4, IterationBegins
<1>4. QED
  BY <1>1, <1>2, <1>3

\* Before the first iteration there is no history.
LEMMA NoHistory ==
  ASSUME trace' = <<>>,
         \/ pc' = "perceive" /\ iteration' = 0
         \/ pc' = "ended" /\ iteration' = 0
         \/ pc' = "plan" /\ iteration' = 1
  PROVE  HistoryInv'
<1>1. Len(trace') = 0
  OBVIOUS
<1>2. QED
  BY <1>1 DEF HistoryInv, BeforeStep, Continued, Ended

\* While nothing was traced nothing was heard.
LEMMA NothingHeard ==
  ASSUME Len(trace') = 0,
         HasHandler => accepted' = 0,
         pc' \in {"perceive", "ended", "plan"}
  PROVE  HandlerInv'
<1>1. HasHandler => EventsFollowTrace'
  BY DEF EventsFollowTrace
<1>2. QED
  BY <1>1 DEF HandlerInv

LEMMA InitHist == Init => Hist
  BY DEF Init, Hist, HistoryInv, ResultInv, HandlerInv, EndInv, Ended, EventsFollowTrace

LEMMA StepHist == IInv /\ Hist /\ IInv' /\ [Next]_vars => Hist'
<1> SUFFICES ASSUME IInv, Hist, IInv', [Next]_vars
             PROVE  Hist'
    OBVIOUS
<1> USE BudgetAssumption, WiringAssumption
    DEF IInv, TypeOK, PhaseInv, Hist, Ended, Awaits, Suspended, Resumes, outside,
        record, Estimates, HistoryInv, ResultInv, HandlerInv, EndInv, BeforeStep,
        AfterStep, AfterError, DoneStep, Continued, EventsFollowTrace
<1>1. CASE Start
  <2>1. trace' = <<>> /\ Len(trace') = 0 /\ result' = 0 /\ note' = "none"
        /\ (HasHandler => accepted' = 0)
    BY <1>1 DEF Start
  <2>2. \/ pc' = "perceive" /\ iteration' = 0
        \/ /\ pc' = "ended" /\ iteration' = 0
           /\ status' = "budget_exhausted" /\ used' >= TokenLimit
        \/ pc' = "plan" /\ iteration' = 1
    BY <1>1 DEF Start, BeginIteration, CanContinue, Remaining, Finish
  <2>3. HistoryInv'
    BY ONLY <2>1, <2>2, NoHistory
  <2>4. ResultInv'
    BY <2>1, <2>2
  <2>5. HandlerInv'
    BY ONLY <2>1, <2>2, NothingHeard
  <2>6. EndInv'
    BY <2>1, <2>2
  <2>7. QED
    BY <2>3, <2>4, <2>5, <2>6
<1>2. CASE PerceiveReturns
  <2>1. trace' = <<>> /\ Len(trace') = 0 /\ result' = 0 /\ note' = "none"
        /\ (HasHandler => accepted' = 0)
    BY <1>2 DEF PerceiveReturns
  <2>2. \/ /\ pc' = "ended" /\ iteration' = 0
           /\ status' = "budget_exhausted" /\ used' >= TokenLimit
        \/ pc' = "plan" /\ iteration' = 1
    BY <1>2 DEF PerceiveReturns, BeginIteration, CanContinue, Remaining, Finish
  <2>3. HistoryInv'
    BY ONLY <2>1, <2>2, NoHistory
  <2>4. ResultInv'
    BY <2>1, <2>2
  <2>5. HandlerInv'
    BY ONLY <2>1, <2>2, NothingHeard
  <2>6. EndInv'
    BY <2>1, <2>2
  <2>7. QED
    BY <2>3, <2>4, <2>5, <2>6
<1>3. CASE PerceiveFails
  BY <1>3 DEF PerceiveFails, Finish
<1>4. CASE PlanFails
  BY <1>4, AppendKeeps DEF PlanFails, Fail, Finish, IsError, Raised, BadReply, Exceptions, Last
<1>5. CASE PlanExhaustsBudget
  BY <1>5 DEF PlanExhaustsBudget, Finish, CanContinue, Remaining
<1>6. CASE PlanFinal
  BY <1>6 DEF PlanFinal
<1>7. CASE PlanTool
  BY <1>7 DEF PlanTool
<1>8. CASE PlanUnauthorized
  BY <1>8, AppendKeeps DEF PlanUnauthorized, Fail, Finish, IsError, Raised, BadReply, Exceptions, Last
<1>9. CASE ExecuteReturns
  BY <1>9 DEF ExecuteReturns
<1>10. CASE ExecuteFails
  BY <1>10, AppendKeeps DEF ExecuteFails, Fail, Finish, IsError, Raised, BadReply, Exceptions, Last
<1>11. CASE ReflectReturns
  <2>1. PICK done \in BOOLEAN, e \in Estimates :
           /\ trace' = Append(trace, Entry(action, IF done THEN "done" ELSE "continue"))
           /\ \/ /\ HasHandler
                 /\ used' = used + e
                 /\ pc' = "emit"
                 /\ UNCHANGED <<status, iteration, tokens_used, result, error, action, note>>
              \/ /\ ~HasHandler
                 /\ AfterEmit(done, used + e)
    BY <1>11 DEF ReflectReturns
  <2>2. /\ Len(trace') = iteration
        /\ \A k \in 1..(iteration - 1) :
              trace'[k].iteration = k /\ trace'[k].outcome = "continue"
        /\ trace'[iteration].iteration = iteration
        /\ trace'[iteration].outcome = IF done THEN "done" ELSE "continue"
    <3> DEFINE o == IF done THEN "done" ELSE "continue"
    <3>1. /\ TypeOK
          /\ action \in Names \union {None}
          /\ o \in {"continue", "done"} \union Exceptions
          /\ trace' = Append(trace, Entry(action, o))
      BY <2>1
    <3>2. Len(trace) = iteration - 1 /\ iteration >= 1 /\ iteration \in Nat
      BY <1>11 DEF ReflectReturns
    <3>3. /\ Len(trace') = Len(trace) + 1
          /\ \A k \in 1..Len(trace) : trace'[k] = trace[k]
          /\ trace'[Len(trace) + 1].iteration = iteration
          /\ trace'[Len(trace) + 1].outcome = o
      <4> HIDE DEF o
      <4>1. QED
        BY ONLY <3>1, <3>2, AppendKeeps
    <3>4. Continued(iteration - 1)
      BY <1>11 DEF ReflectReturns
    <3>5. QED
      BY <3>2, <3>3, <3>4
  <2>3. CASE HasHandler
    BY <1>11, <2>1, <2>2, <2>3 DEF ReflectReturns
  <2>4. CASE ~HasHandler
    <3>1. used + e \in Nat
      OBVIOUS
    <3>2. QED
      BY <1>11, <2>1, <2>2, <2>4, <3>1, StepAnnounced DEF ReflectReturns
  <2>5. QED
    BY <2>3, <2>4
<1>12. CASE ReflectFails
  BY <1>12, AppendKeeps DEF ReflectFails, Fail, Finish, IsError, Raised, BadReply, Exceptions, Last
<1>13. CASE EmitReturns
  <2> DEFINE done == trace[iteration].outcome = "done"
  <2>1. /\ trace' = trace
        /\ HasHandler => accepted' = iteration
        /\ AfterEmit(done, used)
    BY <1>13 DEF EmitReturns, Last
  <2>2. trace[iteration].outcome = IF done THEN "done" ELSE "continue"
    BY <1>13 DEF EmitReturns
  <2>3. /\ iteration >= 1 /\ iteration \in Nat
        /\ result = 0
        /\ note = "none"
        /\ Len(trace) = iteration
        /\ \A k \in 1..(iteration - 1) :
              trace[k].iteration = k /\ trace[k].outcome = "continue"
        /\ trace[iteration].iteration = iteration
    BY <1>13 DEF EmitReturns
  <2>4. done \in BOOLEAN /\ used \in Nat /\ TypeOK
    OBVIOUS
  <2> HIDE DEF done
  <2>5. QED
    BY ONLY <2>1, <2>2, <2>3, <2>4, StepAnnounced
<1>14. CASE EmitFails
  BY <1>14, AppendKeeps DEF EmitFails, Fail, Finish, IsError, Raised, BadReply, Exceptions, Last
<1>15. CASE MemoryStored
  BY <1>15 DEF MemoryStored
<1>16. CASE RememberReturns
  BY <1>16 DEF RememberReturns, Finish
<1>17. CASE RememberFails
  BY <1>17, AppendKeeps DEF RememberFails, Fail, Finish, IsError, Raised, BadReply, Exceptions, Last
<1>18. CASE EmitErrorReturns
  BY <1>18 DEF EmitErrorReturns, Finish, Last
<1>19. CASE EmitErrorFails
  BY <1>19 DEF EmitErrorFails, Finish, Last
<1>20. CASE TimerFires
  BY <1>20 DEF TimerFires
<1>21. CASE Cancel
  BY <1>21 DEF Cancel
<1>22. CASE Interrupt
  BY <1>22 DEF Interrupt, Finish
<1>23. CASE UNCHANGED vars
  BY <1>23 DEF vars
<1>24. QED
  BY <1>1, <1>2, <1>3, <1>4, <1>5, <1>6, <1>7, <1>8, <1>9, <1>10, <1>11, <1>12, <1>13, <1>14, <1>15, <1>16, <1>17, <1>18, <1>19, <1>20, <1>21, <1>22, <1>23 DEF Next

\* The history invariant holds of every reachable state.
LEMMA HistoryInvariance == Spec => [](IInv /\ Hist)
<1>1. Init => IInv /\ Hist
  BY InitEstablishes, InitHist
<1>2. IInv /\ Hist /\ [Next]_vars => IInv' /\ Hist'
  BY StepPreserves, StepHist
<1>3. QED
  BY <1>1, <1>2, PTL DEF Spec

\* "completed" is earned: the last reflection said done, the result is that
\* step's, the memory has the note and the handler has heard everything.
THEOREM CompletionIsEarned == Spec => []CompletedMeansDone
<1>1. IInv /\ Hist => CompletedMeansDone
  <2> SUFFICES ASSUME IInv, Hist, Ended, status = "completed"
               PROVE  /\ trace # <<>>
                      /\ Last(trace).outcome = "done"
                      /\ result = iteration
                      /\ Len(trace) = iteration
                      /\ error = None
                      /\ HasMemory => note = "stored"
                      /\ HasHandler => accepted = Len(trace)
      BY DEF CompletedMeansDone
  <2>1. DoneStep /\ result = iteration /\ error = None
    BY DEF Hist, EndInv
  <2>2. Len(trace) = iteration /\ iteration >= 1 /\ trace[iteration].outcome = "done"
    BY <2>1 DEF DoneStep, AfterStep
  <2>3. trace # <<>> /\ Last(trace) = trace[iteration]
    BY <2>2 DEF Last, IInv, TypeOK
  <2>4. QED
    BY <2>1, <2>2, <2>3 DEF Hist, EndInv
<1>2. QED
  BY <1>1, HistoryInvariance, PTL

\* The trace is one step per iteration in order, closed by at most one error.
THEOREM TraceIsShaped == Spec => []TraceShape
<1>1. IInv /\ Hist => TraceShape
  <2> SUFFICES ASSUME IInv, Hist PROVE TraceShape
      OBVIOUS
  <2> USE DEF IInv, TypeOK, TraceShape, Steps, IsError, Exceptions, BadReply, Raised
  <2>1. CASE trace = <<>>
    <3>1. Len(trace) = 0
      BY <2>1
    <3>2. QED
      BY <3>1
  <2>2. CASE BeforeStep
    BY <2>2 DEF BeforeStep, Continued
  <2>3. CASE AfterStep
    BY <2>3 DEF AfterStep, Continued
  <2>4. CASE AfterError /\ iteration >= 1
    BY <2>4 DEF AfterError, Continued
  <2>5. QED
    BY <2>1, <2>2, <2>3, <2>4
    DEF Hist, HistoryInv, PhaseInv, Ended, Awaits, DoneStep
<1>2. QED
  BY <1>1, HistoryInvariance, PTL

\* A failed run ends its trace with the error that it reports.
THEOREM FailuresAreTraced == Spec => []FailureIsTraced
<1>1. IInv /\ Hist => FailureIsTraced
  <2> SUFFICES ASSUME IInv, Hist, Ended, status = "failed",
                      ~(iteration = 0 /\ trace = <<>>)
               PROVE  /\ trace # <<>>
                      /\ IsError(Last(trace))
                      /\ Last(trace).iteration = iteration
                      /\ \/ error = Last(trace).outcome
                         \/ HasHandler /\ error = "OrchestrationError"
      BY DEF FailureIsTraced
  <2>1. /\ iteration >= 1
        /\ AfterError
        /\ \/ error = trace[Len(trace)].outcome
           \/ HasHandler /\ error = "OrchestrationError"
    BY DEF Hist, EndInv
  <2>2. Len(trace) >= 1
    BY <2>1 DEF AfterError, IInv, TypeOK
  <2>3. trace # <<>> /\ Last(trace) = trace[Len(trace)]
    BY <2>2 DEF Last
  <2>4. QED
    BY <2>1, <2>3 DEF AfterError
<1>2. QED
  BY <1>1, HistoryInvariance, PTL

\* "budget_exhausted" is never said of a run with something left to spend, or
\* with a step that was done.
THEOREM ExhaustionIsNeverFalse == Spec => []ExhaustionIsReal
<1>1. IInv /\ Hist => ExhaustionIsReal
  <2> SUFFICES ASSUME IInv, Hist, Ended, status = "budget_exhausted"
               PROVE  /\ result = 0
                      /\ \A k \in 1..Len(trace) : trace[k].outcome = "continue"
                      /\ used >= TokenLimit \/ Len(trace) = MaxIterations
      BY DEF ExhaustionIsReal
  <2> USE DEF IInv, TypeOK
  <2>1. CASE trace = <<>> /\ iteration = 0 /\ used >= TokenLimit
    <3>1. Len(trace) = 0
      BY <2>1
    <3>2. QED
      BY <2>1, <3>1 DEF Hist, EndInv
  <2>2. CASE BeforeStep /\ used >= TokenLimit
    BY <2>2 DEF Hist, EndInv, BeforeStep, Continued
  <2>3. CASE /\ AfterStep
             /\ trace[iteration].outcome = "continue"
             /\ used >= TokenLimit \/ iteration = MaxIterations
    BY <2>3 DEF Hist, EndInv, AfterStep, Continued
  <2>4. QED
    BY <2>1, <2>2, <2>3 DEF Hist, EndInv
<1>2. QED
  BY <1>1, HistoryInvariance, PTL

\* The handler follows the trace, and the memory is told only of results.
THEOREM ObserversFollow == Spec => []ObserversFollowTrace
<1>1. IInv /\ Hist => EventsFollowTrace
  BY DEF Hist, HandlerInv, EventsFollowTrace
<1>2. IInv /\ Hist => NoteIsOfDoneStep
  <2> SUFFICES ASSUME IInv, Hist, note # "none"
               PROVE  /\ result = iteration
                      /\ \E k \in Steps : trace[k].iteration = result /\ trace[k].outcome = "done"
      BY DEF NoteIsOfDoneStep
  <2>1. /\ result # 0
        /\ result = iteration
        /\ iteration <= Len(trace)
        /\ trace[iteration].iteration = iteration
        /\ trace[iteration].outcome = "done"
    BY DEF Hist, ResultInv
  <2>2. iteration \in Steps
    BY <2>1 DEF Steps, IsError, Exceptions, BadReply, Raised, IInv, TypeOK
  <2>3. QED
    BY <2>1, <2>2
<1>3. IInv /\ Hist => ObserversFollowTrace
  BY <1>1, <1>2 DEF ObserversFollowTrace
<1>4. QED
  BY <1>3, HistoryInvariance, PTL

-----------------------------------------------------------------------------
(* The graph of agents.                                                    *)

Spendable == 0..(TokenLimit - 1 + 2 * MaxEstimate)

\* What a hop may leave in the results.
Records == [node : NodeNames,
            status : RunStatus \ {"running", "cancelled"},
            tokens_used : Spendable]

\* The record of a run that ended is closed with what its budget has spent;
\* only that of a cancelled run is left as it was.
ReportInv ==
    Ended =>
        /\ status # "running"
        /\ status # "cancelled" => tokens_used = used

RunInv == IInv /\ ReportInv

\* From the run of node p, having completed, the walk goes to m.
Leads(p, m) ==
    /\ nodes[p] # <<>>
    /\ Range(nodes[p]) \subseteq DOMAIN nodes
    /\ m = Head(nodes[p])

Goes(i, m) == results[i].status = "completed" /\ Leads(results[i].node, m)

Positions == 1..Len(results)

GraphType ==
    /\ DOMAIN nodes \subseteq NodeNames
    /\ nodes \in [DOMAIN nodes -> NextLists]
    /\ results \in Seq(Records)
    /\ walk = "idle" => results = <<>> /\ visited = {}

\* Every node of the route is registered, and stays so.
RouteInv ==
    /\ Len(results) <= MaxHops
    /\ \A i \in Positions : results[i].node \in DOMAIN nodes
    /\ \A i, j \in Positions : results[i].node = results[j].node => i = j
    /\ \A i \in 1..(Len(results) - 1) : Goes(i, results[i + 1].node)

\* The loop is at a hop: visited holds the route and the current node.
HopInv ==
    walk = "hop" =>
        /\ Len(results) < MaxHops
        /\ current \in DOMAIN nodes
        /\ visited = {results[i].node : i \in Positions} \union {current}
        /\ \A i \in Positions : results[i].node # current
        /\ results # <<>> => Goes(Len(results), current)

OverInv ==
    /\ walk = "returned" =>
          /\ results # <<>>
          /\ \/ results[Len(results)].status # "completed"
             \/ nodes[results[Len(results)].node] = <<>>
    /\ walk = "cycle" =>
          results # <<>> /\ \E i \in Positions : Goes(Len(results), results[i].node)

WalkInv == GraphType /\ RouteInv /\ HopInv /\ OverInv

-----------------------------------------------------------------------------
\* A run that ends reports what it spent.
LEMMA StepReports == IInv /\ ReportInv /\ [Next]_vars => ReportInv'
<1> SUFFICES ASSUME IInv, ReportInv, [Next]_vars
             PROVE  ReportInv'
    OBVIOUS
<1> USE DEF ReportInv, Ended, Resumes, record, outside
<1>1. CASE Start
  BY <1>1 DEF Start, BeginIteration, Finish
<1>2. CASE PerceiveReturns
  BY <1>2 DEF PerceiveReturns, BeginIteration, Finish
<1>3. CASE PerceiveFails
  BY <1>3 DEF PerceiveFails, Finish
<1>4. CASE PlanFails
  BY <1>4 DEF PlanFails, Fail, Finish
<1>5. CASE PlanExhaustsBudget
  BY <1>5 DEF PlanExhaustsBudget, Finish
<1>6. CASE PlanFinal
  BY <1>6 DEF PlanFinal
<1>7. CASE PlanTool
  BY <1>7 DEF PlanTool
<1>8. CASE PlanUnauthorized
  BY <1>8 DEF PlanUnauthorized, Fail, Finish
<1>9. CASE ExecuteReturns
  BY <1>9 DEF ExecuteReturns
<1>10. CASE ExecuteFails
  BY <1>10 DEF ExecuteFails, Fail, Finish
<1>11. CASE ReflectReturns
  BY <1>11 DEF ReflectReturns, AfterEmit, BeginIteration, Finish
<1>12. CASE ReflectFails
  BY <1>12 DEF ReflectFails, Fail, Finish
<1>13. CASE EmitReturns
  BY <1>13 DEF EmitReturns, AfterEmit, BeginIteration, Finish
<1>14. CASE EmitFails
  BY <1>14 DEF EmitFails, Fail, Finish
<1>15. CASE MemoryStored
  BY <1>15 DEF MemoryStored
<1>16. CASE RememberReturns
  BY <1>16 DEF RememberReturns, Finish
<1>17. CASE RememberFails
  BY <1>17 DEF RememberFails, Fail, Finish
<1>18. CASE EmitErrorReturns
  BY <1>18 DEF EmitErrorReturns, Finish
<1>19. CASE EmitErrorFails
  BY <1>19 DEF EmitErrorFails, Finish
<1>20. CASE TimerFires
  BY <1>20 DEF TimerFires, Suspended, Awaits
<1>21. CASE Cancel
  BY <1>21 DEF Cancel, Suspended, Awaits
<1>22. CASE Interrupt
  BY <1>22 DEF Interrupt, Finish
<1>23. CASE UNCHANGED vars
  BY <1>23 DEF vars
<1>24. QED
  BY <1>1, <1>2, <1>3, <1>4, <1>5, <1>6, <1>7, <1>8, <1>9, <1>10, <1>11,
     <1>12, <1>13, <1>14, <1>15, <1>16, <1>17, <1>18, <1>19, <1>20, <1>21,
     <1>22, <1>23
  DEF Next

LEMMA InitReports == Init => RunInv
  BY InitEstablishes DEF RunInv, ReportInv, Init, Ended

\* A fresh run is an initial state of AgentRun.
LEMMA FreshRunIsInit == FreshRun => RunInv'
<1>1. Init' => RunInv'
  BY InitReports, PTL
<1>2. FreshRun => Init'
  BY DEF FreshRun, Init
<1>3. QED
  BY <1>1, <1>2

\* Nothing that run_graph does between two awaits disturbs the run's part.
LEMMA RunPreserved == RunInv /\ [GraphNext]_graphVars => RunInv'
<1> SUFFICES ASSUME RunInv, [GraphNext]_graphVars
             PROVE  RunInv'
    OBVIOUS
<1>1. ASSUME UNCHANGED vars PROVE RunInv'
  BY <1>1, StepPreserves, StepReports DEF RunInv
<1>2. ASSUME NEW n, NEW k, EnterNode(n, k) PROVE RunInv'
  BY <1>1, <1>2, FreshRunIsInit DEF EnterNode
<1>3. ASSUME NEW n \in NodeNames, StartGraph(n) PROVE RunInv'
  BY <1>1, <1>2, <1>3 DEF StartGraph
<1>4. CASE Hop
  BY <1>4, StepPreserves, StepReports DEF Hop, RunInv
<1>5. CASE HopEnds
  BY <1>1, <1>2, <1>5 DEF HopEnds
<1>6. QED
  BY <1>1, <1>3, <1>4, <1>5 DEF GraphNext, Register, HopCancelled, graphVars

-----------------------------------------------------------------------------
\* The record of a run that was not cancelled fits the results.
LEMMA OutcomeIsRecord ==
  ASSUME RunInv, pc = "ended", status # "cancelled", current \in NodeNames
  PROVE  Outcome \in Records
<1>1. tokens_used = used /\ used \in Nat /\ used <= TokenLimit - 1 + 2 * MaxEstimate
  BY DEF RunInv, ReportInv, Ended, IInv, TypeOK, BudgetInv, SpendBounded
<1>2. tokens_used \in Spendable
  BY <1>1, BudgetAssumption DEF Spendable
<1>3. status \in RunStatus \ {"running", "cancelled"}
  BY DEF RunInv, ReportInv, IInv, TypeOK, Ended
<1>4. QED
  BY <1>2, <1>3 DEF Outcome, Records

LEMMA InitWalk == GraphInit => RunInv /\ WalkInv
<1> SUFFICES ASSUME GraphInit PROVE RunInv /\ WalkInv
    OBVIOUS
<1>1. RunInv
  BY InitReports DEF GraphInit
<1>2. GraphType
  BY DEF GraphInit, GraphType
<1>3. RouteInv /\ HopInv /\ OverInv
  BY GraphAssumption DEF GraphInit, RouteInv, HopInv, OverInv, Positions
<1>4. QED
  BY <1>1, <1>2, <1>3 DEF WalkInv

\* A node registered meanwhile changes no edge that the route has used.
LEMMA RegisterKeeps ==
  ASSUME WalkInv, NEW n \in NodeNames, NEW next \in NextLists, Register(n, next)
  PROVE  WalkInv'
<1>1. /\ DOMAIN nodes' = DOMAIN nodes \union {n}
      /\ n \notin DOMAIN nodes
      /\ nodes' \in [DOMAIN nodes' -> NextLists]
      /\ \A m \in DOMAIN nodes : nodes'[m] = nodes[m]
      /\ results' = results /\ walk' = walk /\ current' = current /\ visited' = visited
  BY DEF Register, WalkInv, GraphType, walkVars
<1>2. ASSUME NEW p \in DOMAIN nodes, NEW m, Leads(p, m)
      PROVE  Leads(p, m)'
  BY <1>1, <1>2 DEF Leads
<1>3. ASSUME NEW i \in Positions, NEW m, Goes(i, m)
      PROVE  Goes(i, m)'
  BY <1>1, <1>2, <1>3 DEF Goes, WalkInv, RouteInv
<1>4. results # <<>> => Len(results) \in Positions
  BY DEF Positions, WalkInv, GraphType
<1>5. GraphType'
  BY <1>1 DEF GraphType, WalkInv
<1>6. RouteInv'
  <2>1. \A i \in 1..(Len(results) - 1) : Goes(i, results[i + 1].node)'
    BY <1>1, <1>3 DEF WalkInv, RouteInv, GraphType, Positions
  <2>2. QED
    BY <1>1, <2>1 DEF RouteInv, WalkInv, Positions
<1>7. HopInv'
  BY <1>1, <1>3, <1>4 DEF HopInv, WalkInv, Positions
<1>8. OverInv'
  <2>1. results # <<>> => results[Len(results)].node \in DOMAIN nodes
    BY <1>4 DEF WalkInv, RouteInv
  <2>2. QED
    BY <1>1, <1>3, <1>4, <2>1 DEF OverInv, WalkInv, Positions
<1>9. QED
  BY <1>5, <1>6, <1>7, <1>8 DEF WalkInv

\* The first node is entered.
LEMMA StartKeeps ==
  ASSUME WalkInv, NEW n \in NodeNames, StartGraph(n)
  PROVE  WalkInv'
<1>1. results = <<>> /\ results' = <<>> /\ visited = {} /\ nodes' = nodes
  BY DEF StartGraph, WalkInv, GraphType
<1>2. Positions' = {} /\ Len(results') = 0
  BY <1>1 DEF Positions
<1>3. \/ walk' \in {"unknown", "exceeded"}
      \/ walk' = "hop" /\ current' = n /\ visited' = {n} /\ n \in DOMAIN nodes
  BY <1>1 DEF StartGraph, EnterNode
<1>4. GraphType'
  BY <1>1, <1>3 DEF WalkInv, GraphType
<1>5. RouteInv'
  BY <1>1, <1>2, GraphAssumption DEF RouteInv
<1>6. HopInv' /\ OverInv'
  BY <1>1, <1>2, <1>3, GraphAssumption DEF HopInv, OverInv
<1>7. QED
  BY <1>4, <1>5, <1>6 DEF WalkInv

\* One record more: the route so far is unchanged, and it is the last.
LEMMA RouteGrows ==
  ASSUME RunInv, WalkInv, HopEnds
  PROVE  /\ current \in DOMAIN nodes
         /\ nodes' = nodes
         /\ results' \in Seq(Records)
         /\ Len(results) \in Nat
         /\ Len(results) < MaxHops
         /\ Len(results') = Len(results) + 1
         /\ \A i \in Positions : results'[i] = results[i]
         /\ results'[Len(results')] = Outcome
         /\ Outcome.node = current /\ Outcome.status = status
         /\ visited = {results'[i].node : i \in 1..Len(results')}
<1>1. walk = "hop" /\ pc = "ended" /\ status # "cancelled"
      /\ results' = Append(results, Outcome) /\ nodes' = nodes
  BY DEF HopEnds
<1>2. /\ current \in DOMAIN nodes
      /\ current \in NodeNames
      /\ Len(results) < MaxHops
      /\ visited = {results[i].node : i \in Positions} \union {current}
  BY <1>1 DEF WalkInv, HopInv, GraphType
<1>3. Outcome \in Records
  BY <1>1, <1>2, OutcomeIsRecord
<1>4. results \in Seq(Records)
  BY DEF WalkInv, GraphType
<1>5. /\ results' \in Seq(Records)
      /\ Len(results) \in Nat
      /\ Len(results') = Len(results) + 1
      /\ \A i \in 1..Len(results) : results'[i] = results[i]
      /\ results'[Len(results) + 1] = Outcome
  BY <1>1, <1>3, <1>4
<1>6. Outcome.node = current /\ Outcome.status = status
  BY DEF Outcome
<1>7. 1..Len(results') = 1..Len(results) \union {Len(results) + 1}
  BY <1>5
<1>8. visited = {results'[i].node : i \in 1..Len(results')}
  BY <1>2, <1>5, <1>6, <1>7 DEF Positions
<1>9. QED
  BY <1>1, <1>2, <1>5, <1>6, <1>8 DEF Positions

\* A hop has ended, and the walk is over or enters the next node.
LEMMA HopEndsKeeps ==
  ASSUME RunInv, WalkInv, HopEnds
  PROVE  WalkInv'
<1> DEFINE n == Len(results')
           r == results'
<1>1. /\ n \in Nat \ {0} /\ n <= MaxHops /\ n = Len(results) + 1
      /\ r # <<>>
      /\ r[n].node = current /\ r[n].status = status
      /\ current \in DOMAIN nodes /\ nodes' = nodes
      /\ \A i \in Positions : r[i] = results[i]
      /\ Positions' = Positions \union {n}
      /\ Positions = 1..(n - 1)
      /\ r \in Seq(Records)
      /\ visited = {r[i].node : i \in 1..n}
  BY RouteGrows, GraphAssumption DEF Positions
<1>2. walk = "hop" /\ HopInv
  BY DEF HopEnds, WalkInv
<1>3. \/ /\ walk' = "returned"
         /\ status # "completed" \/ nodes[current] = <<>>
      \/ walk' \in {"missing", "exceeded"}
      \/ /\ walk' = "cycle"
         /\ status = "completed" /\ nodes[current] # <<>>
         /\ Range(nodes[current]) \subseteq DOMAIN nodes
         /\ Head(nodes[current]) \in visited
      \/ /\ walk' = "hop"
         /\ status = "completed" /\ nodes[current] # <<>>
         /\ Range(nodes[current]) \subseteq DOMAIN nodes
         /\ current' = Head(nodes[current])
         /\ current' \notin visited
         /\ visited' = visited \union {current'}
         /\ n < MaxHops
  BY <1>1 DEF HopEnds, EnterNode
<1>4. GraphType'
  BY <1>1, <1>3 DEF WalkInv, GraphType
<1>5. RouteInv'
  <2>1. \A i \in Positions' : r[i].node \in DOMAIN nodes'
    BY <1>1 DEF WalkInv, RouteInv
  <2>2. \A i, j \in Positions' : r[i].node = r[j].node => i = j
    BY <1>1, <1>2 DEF WalkInv, RouteInv, HopInv
  <2>3. ASSUME NEW i \in 1..(n - 1)
        PROVE  Goes(i, results[i + 1].node)'
    <3>1. CASE i = n - 1
      <4>1. results # <<>> /\ i = Len(results) /\ i + 1 = n
        BY <1>1, <3>1 DEF WalkInv, GraphType
      <4>2. Goes(i, current)
        BY <1>2, <4>1 DEF HopInv
      <4>3. QED
        BY <1>1, <4>1, <4>2 DEF Goes, Leads
    <3>2. CASE i # n - 1
      <4>1. i \in 1..(Len(results) - 1) /\ i \in Positions /\ i + 1 \in Positions
        BY <1>1, <3>2 DEF Positions
      <4>2. Goes(i, results[i + 1].node)
        BY <4>1 DEF WalkInv, RouteInv
      <4>3. QED
        BY <1>1, <4>1, <4>2 DEF Goes, Leads
    <3>3. QED
      BY <3>1, <3>2
  <2>4. QED
    BY <1>1, <2>1, <2>2, <2>3 DEF RouteInv
<1>6. HopInv'
  <2> SUFFICES ASSUME walk' = "hop" PROVE HopInv'
      BY DEF HopInv
  <2>1. Head(nodes[current]) \in Range(nodes[current])
    BY <1>1, <1>3, GraphAssumption DEF Range, WalkInv, GraphType
  <2>2. current' \in DOMAIN nodes'
    BY <1>1, <1>3, <2>1
  <2>3. \A i \in Positions' : r[i].node # current'
    BY <1>1, <1>3 DEF Positions
  <2>4. visited' = {r[i].node : i \in Positions'} \union {current'}
    BY <1>1, <1>3 DEF Positions
  <2>5. Goes(Len(results), current)'
    BY <1>1, <1>3 DEF Goes, Leads
  <2>6. QED
    BY <1>1, <1>3, <2>2, <2>3, <2>4, <2>5 DEF HopInv
<1>7. OverInv'
  <2>1. CASE walk' = "cycle"
    <3>1. PICK i \in Positions' : Head(nodes[current]) = r[i].node
      BY <1>1, <1>3, <2>1 DEF Positions
    <3>2. Goes(Len(results), results[i].node)'
      BY <1>1, <1>3, <2>1, <3>1 DEF Goes, Leads
    <3>3. QED
      BY <1>1, <2>1, <3>2 DEF OverInv
  <2>2. CASE walk' # "cycle"
    BY <1>1, <1>3, <2>2 DEF OverInv
  <2>3. QED
    BY <2>1, <2>2
<1>8. QED
  BY <1>4, <1>5, <1>6, <1>7 DEF WalkInv

\* A step that leaves the walk alone.
LEMMA RestKeeps ==
  ASSUME WalkInv, UNCHANGED <<nodes, results, current, visited>>,
         walk' \in {walk, "cancelled"}
  PROVE  WalkInv'
<1>1. GraphType' /\ RouteInv'
  BY DEF WalkInv, GraphType, RouteInv, Positions, Goes, Leads
<1>2. HopInv' /\ OverInv'
  BY DEF WalkInv, HopInv, OverInv, Positions, Goes, Leads
<1>3. QED
  BY <1>1, <1>2 DEF WalkInv

LEMMA GraphInvariance == GraphSpec => [](RunInv /\ WalkInv)
<1>1. RunInv /\ WalkInv /\ [GraphNext]_graphVars => WalkInv'
  <2> SUFFICES ASSUME RunInv, WalkInv, [GraphNext]_graphVars PROVE WalkInv'
      OBVIOUS
  <2>1. CASE Hop \/ HopCancelled \/ UNCHANGED graphVars
    BY <2>1, RestKeeps DEF Hop, HopCancelled, graphVars, walkVars
  <2>2. QED
    BY <2>1, RegisterKeeps, StartKeeps, HopEndsKeeps DEF GraphNext
<1>2. QED
  BY <1>1, InitWalk, RunPreserved, PTL DEF GraphSpec

\* The results are a route of the graph without repetition, and how the walk
\* ended agrees with them, whatever is registered meanwhile.
THEOREM RouteIsKept == GraphSpec => []RouteIsFollowed
<1>1. WalkInv => RouteIsFollowed
  <2> SUFFICES ASSUME WalkInv PROVE RouteIsFollowed
      OBVIOUS
  <2>1. Len(results) \in Nat /\ (results # <<>> <=> Len(results) > 0)
    BY DEF WalkInv, GraphType
  <2>2. QED
    BY <2>1 DEF WalkInv, RouteInv, HopInv, OverInv, Goes, Leads, Positions, RouteIsFollowed
<1>2. QED
  BY <1>1, GraphInvariance, PTL

\* Every hop reports what one budget may spend, and none is left running or
\* reported cancelled.
THEOREM HopsStaySeparate == GraphSpec => []HopsAreSeparate
<1>1. WalkInv => HopsAreSeparate
  <2> SUFFICES ASSUME WalkInv, NEW i \in 1..Len(results)
               PROVE  /\ results[i].tokens_used <= TokenLimit - 1 + 2 * MaxEstimate
                      /\ results[i].status \in RunStatus \ {"running", "cancelled"}
      BY DEF HopsAreSeparate
  <2>1. results[i] \in Records
    BY DEF WalkInv, GraphType
  <2>2. results[i].tokens_used \in Spendable
    BY <2>1 DEF Records
  <2>3. results[i].tokens_used <= TokenLimit - 1 + 2 * MaxEstimate
    BY <2>2, BudgetAssumption DEF Spendable
  <2>4. QED
    BY <2>1, <2>3 DEF Records
<1>2. QED
  BY <1>1, GraphInvariance, PTL

=============================================================================
