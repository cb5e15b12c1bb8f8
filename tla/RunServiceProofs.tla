-------------------------- MODULE RunServiceProofs --------------------------
(***************************************************************************)
(* Proofs about RunService, for every set of runs, with and without a      *)
(* sink, whether or not it fails and whether or not tasks are cancelled;   *)
(* and, without a sink, that it implements RunLifecycle.                   *)
(***************************************************************************)
EXTENDS RunService, TLAPS

\* What a run's record, its task and its history say of each other while the
\* task of r is suspended at a place, or after it has ended.
RunInv(r) ==
    /\ at[r] = "none" <=> repo[r] = "absent"
    /\ Live(r) => r \in tasks /\ outcome[r] = "none"
    /\ at[r] = "none" => outcome[r] = "none"
    /\ at[r] \in Notifying => HasSink
    /\ at[r] \in Notifying /\ notified[r] =>
          heard[r] # <<>> /\ Last(heard[r]) = repo[r]
    /\ at[r] = "created" => repo[r] = "queued"
    /\ at[r] \in {"sink_running", "run"} => repo[r] = "running"
    /\ at[r] = "sink_final" => repo[r] = produced[r] /\ repo[r] \in {"completed", "failed"}
    /\ at[r] = "sink_failed" => repo[r] = "failed"
    /\ at[r] = "sink_cancelled" => repo[r] = "cancelled"
    /\ at[r] \in {"none", "created", "sink_running", "run", "sink_final"} => ~interrupted[r]
    /\ at[r] \in {"none", "created"} => heard[r] = <<>>
    /\ at[r] = "sink_running" =>
          heard[r] = IF notified[r] THEN <<"running">> ELSE <<>>
    /\ at[r] \in {"none", "created", "sink_running"} => produced[r] = "none"
    /\ at[r] = "ended" => outcome[r] # "none"
    /\ at[r] = "ended" /\ repo[r] \notin Settled =>
          /\ produced[r] = "none"
          /\ \/ repo[r] = "queued" /\ LostInQueue(r)
             \/ repo[r] = "running" /\ LostWhileAnnounced(r)
    /\ repo[r] = "completed" => produced[r] = "completed" /\ ~interrupted[r]
    /\ outcome[r] = "returned" =>
          /\ repo[r] \in Settled
          /\ HasSink => heard[r] # <<>> /\ Last(heard[r]) = repo[r]

IInv == TypeOK /\ \A r \in Runs : RunInv(r)

-----------------------------------------------------------------------------
\* What is appended is the last element.
LEMMA LastAppended ==
  ASSUME NEW S, NEW h \in Seq(S), NEW e \in S
  PROVE  /\ Append(h, e) \in Seq(S)
         /\ Append(h, e) # <<>>
         /\ Last(Append(h, e)) = e
         /\ h = <<>> => Append(h, e) = <<e>>
<1>1. /\ Append(h, e) \in Seq(S)
      /\ Len(Append(h, e)) = Len(h) + 1
      /\ Append(h, e)[Len(h) + 1] = e
  OBVIOUS
<1>2. Append(h, e) # <<>> /\ Last(Append(h, e)) = e
  BY <1>1 DEF Last
<1>3. h = <<>> => Append(h, e) = <<e>>
  OBVIOUS
<1>4. QED
  BY <1>1, <1>2, <1>3

\* No run is known to the repository, no task exists.
LEMMA InitEstablishes == Init => IInv
  BY DEF Init, IInv, TypeOK, RunInv, Live, Notifying, Places, RunState, Settled

\* A settling save touches its own run only, and either announces the state
\* or ends the task.
LEMMA SaveSettles ==
  ASSUME TypeOK, NEW r \in Runs, NEW s \in Settled, NEW place \in Notifying,
         NEW how \in {"returned", "raised", "cancelled"},
         SaveAndEnd(r, s, place, how)
  PROVE  /\ repo' \in [Runs -> RunState \union {"absent"}]
         /\ at' \in [Runs -> Places]
         /\ outcome' \in [Runs -> {"none", "returned", "raised", "cancelled"}]
         /\ notified' \in [Runs -> BOOLEAN]
         /\ repo'[r] = s
         /\ HasSink => at'[r] = place /\ ~notified'[r] /\ outcome'[r] = outcome[r]
         /\ ~HasSink => at'[r] = "ended" /\ outcome'[r] = how
         /\ \A q \in Runs \ {r} :
               /\ repo'[q] = repo[q] /\ at'[q] = at[q]
               /\ outcome'[q] = outcome[q] /\ notified'[q] = notified[q]
<1> USE ServiceAssumption DEF TypeOK, SaveAndEnd, EndTask
<1>1. repo' \in [Runs -> RunState \union {"absent"}]
  BY DEF RunState
<1>2. at' \in [Runs -> Places]
  BY DEF Places
<1>3. outcome' \in [Runs -> {"none", "returned", "raised", "cancelled"}]
  OBVIOUS
<1>4. notified' \in [Runs -> BOOLEAN]
  OBVIOUS
<1>5. repo'[r] = s
  OBVIOUS
<1>6. HasSink => at'[r] = place /\ ~notified'[r] /\ outcome'[r] = outcome[r]
  OBVIOUS
<1>7. ~HasSink => at'[r] = "ended" /\ outcome'[r] = how
  OBVIOUS
<1>8. \A q \in Runs \ {r} :
         /\ repo'[q] = repo[q] /\ at'[q] = at[q]
         /\ outcome'[q] = outcome[q] /\ notified'[q] = notified[q]
  OBVIOUS
<1>9. QED
  BY <1>1, <1>2, <1>3, <1>4, <1>5, <1>6, <1>7, <1>8

\* Every step preserves the invariant.
LEMMA StepPreserves == IInv /\ [Next]_vars => IInv'
<1> SUFFICES ASSUME IInv, [Next]_vars
             PROVE  IInv'
    OBVIOUS
<1> USE ServiceAssumption
    DEF IInv, TypeOK, RunInv, Live, Notifying, Places, RunState, Settled, Resumes,
        EndTask, CallRunner, LostInQueue, LostWhileAnnounced, task, sink
<1>1. ASSUME NEW r \in Runs, Submit(r) PROVE IInv'
  BY <1>1 DEF Submit
<1>2. ASSUME NEW r \in Runs, Begin(r) PROVE IInv'
  <2>1. at'[r] = IF HasSink THEN "sink_running" ELSE "run"
    BY <1>2 DEF Begin
  <2>2. TypeOK'
    <3> HIDE DEF RunInv
    <3>1. QED
      BY <1>2 DEF Begin
  <2>3. RunInv(r)'
    BY <1>2, <2>1 DEF Begin
  <2>4. \A q \in Runs \ {r} : RunInv(q)'
    BY <1>2 DEF Begin
  <2>5. QED
    BY <2>2, <2>3, <2>4
<1>3. ASSUME NEW r \in Runs, RunnerReturns(r) PROVE IInv'
  <2>1. PICK s \in {"completed", "failed"} :
           /\ produced' = [produced EXCEPT ![r] = s]
           /\ SaveAndEnd(r, s, "sink_final", "returned")
    BY <1>3 DEF RunnerReturns
  <2>2. TypeOK'
    BY <1>3, <2>1, SaveSettles DEF RunnerReturns
  <2>3. RunInv(r)'
    BY <1>3, <2>1, SaveSettles DEF RunnerReturns
  <2>4. \A q \in Runs \ {r} : RunInv(q)'
    BY <1>3, <2>1, SaveSettles DEF RunnerReturns
  <2>5. QED
    BY <2>2, <2>3, <2>4
<1>4. ASSUME NEW r \in Runs, RunnerRaises(r) PROVE IInv'
  <2>1. SaveAndEnd(r, "failed", "sink_failed", "returned")
    BY <1>4 DEF RunnerRaises
  <2>2. TypeOK'
    BY <1>4, <2>1, SaveSettles DEF RunnerRaises
  <2>3. RunInv(r)'
    BY <1>4, <2>1, SaveSettles DEF RunnerRaises
  <2>4. \A q \in Runs \ {r} : RunInv(q)'
    BY <1>4, <2>1, SaveSettles DEF RunnerRaises
  <2>5. QED
    BY <2>2, <2>3, <2>4
<1>5. ASSUME NEW r \in Runs, SinkHears(r) PROVE IInv'
  <2>1. repo[r] \in RunState /\ heard[r] \in Seq(RunState)
    BY <1>5 DEF SinkHears
  <2>2. /\ Append(heard[r], repo[r]) \in Seq(RunState)
        /\ Append(heard[r], repo[r]) # <<>>
        /\ Last(Append(heard[r], repo[r])) = repo[r]
        /\ heard[r] = <<>> => Append(heard[r], repo[r]) = <<repo[r]>>
    BY ONLY <2>1, LastAppended
  <2>3. TypeOK'
    BY <1>5, <2>2 DEF SinkHears
  <2>4. RunInv(r)'
    <3>1. /\ heard'[r] = Append(heard[r], repo[r])
          /\ notified'[r] = TRUE
          /\ UNCHANGED <<repo, tasks, at, pending, outcome, produced, interrupted>>
          /\ at[r] \in Notifying /\ ~notified[r]
      BY <1>5 DEF SinkHears
    <3>2. at[r] = "sink_running" => repo[r] = "running" /\ heard[r] = <<>>
      BY <3>1
    <3>3. heard'[r] # <<>> /\ Last(heard'[r]) = repo[r]
      BY <2>2, <3>1
    <3>4. at[r] = "sink_running" => heard'[r] = <<"running">>
      BY <2>2, <3>1, <3>2
    <3>5. RunInv(r)
      OBVIOUS
    <3> HIDE DEF IInv, TypeOK, LostInQueue, LostWhileAnnounced
    <3>6. QED
      BY <3>1, <3>3, <3>4, <3>5
  <2>5. \A q \in Runs \ {r} : RunInv(q)'
    BY <1>5 DEF SinkHears
  <2>6. QED
    BY <2>3, <2>4, <2>5
<1>6. ASSUME NEW r \in Runs, RunningNoted(r) PROVE IInv'
  BY <1>6 DEF RunningNoted
<1>7. ASSUME NEW r \in Runs, EndNoted(r) PROVE IInv'
  BY <1>7 DEF EndNoted
<1>8. ASSUME NEW r \in Runs, SinkFailsUncaught(r) PROVE IInv'
  BY <1>8 DEF SinkFailsUncaught
<1>9. ASSUME NEW r \in Runs, SinkFailsFinal(r) PROVE IInv'
  <2>1. SaveAndEnd(r, "failed", "sink_failed", "returned")
    BY <1>9 DEF SinkFailsFinal
  <2>2. TypeOK'
    BY <1>9, <2>1, SaveSettles DEF SinkFailsFinal
  <2>3. RunInv(r)'
    BY <1>9, <2>1, SaveSettles DEF SinkFailsFinal
  <2>4. \A q \in Runs \ {r} : RunInv(q)'
    BY <1>9, <2>1, SaveSettles DEF SinkFailsFinal
  <2>5. QED
    BY <2>2, <2>3, <2>4
<1>10. ASSUME NEW r \in Runs, Cancel(r) PROVE IInv'
  BY <1>10 DEF Cancel
<1>11. ASSUME NEW r \in Runs, Interrupt(r) PROVE IInv'
  <2>1. CASE at[r] \in {"run", "sink_final"}
    <3>1. SaveAndEnd(r, "cancelled", "sink_cancelled", "cancelled")
      BY <1>11, <2>1 DEF Interrupt
    <3>2. TypeOK'
      BY <1>11, <3>1, SaveSettles DEF Interrupt
    <3>3. RunInv(r)'
      BY <1>11, <3>1, SaveSettles DEF Interrupt
    <3>4. \A q \in Runs \ {r} : RunInv(q)'
      BY <1>11, <3>1, SaveSettles DEF Interrupt
    <3>5. QED
      BY <3>2, <3>3, <3>4
  <2>2. CASE at[r] \notin {"run", "sink_final"}
    <3>1. TypeOK'
      <4> HIDE DEF RunInv
      <4>1. QED
        BY <1>11, <2>2 DEF Interrupt
    <3>2. RunInv(r)'
      BY <1>11, <2>2 DEF Interrupt
    <3>3. \A q \in Runs \ {r} : RunInv(q)'
      BY <1>11, <2>2 DEF Interrupt
    <3>4. QED
      BY <3>1, <3>2, <3>3
  <2>3. QED
    BY <2>1, <2>2
<1>12. ASSUME NEW r \in Runs, DoneCallback(r) PROVE IInv'
  BY <1>12 DEF DoneCallback
<1>13. CASE UNCHANGED vars
  BY <1>13 DEF vars
<1>14. QED
  BY <1>1, <1>2, <1>3, <1>4, <1>5, <1>6, <1>7, <1>8, <1>9, <1>10, <1>11,
     <1>12, <1>13
  DEF Next

-----------------------------------------------------------------------------
\* The invariant holds of every reachable state.
LEMMA Invariance == Spec => []IInv
  BY InitEstablishes, StepPreserves, PTL DEF Spec

\* Every variable keeps its type: in particular the repository holds nothing
\* but the states of RunState, although the orchestrator knows more.
THEOREM TypeCorrect == Spec => []TypeOK
<1>1. IInv => TypeOK
  BY DEF IInv
<1>2. QED
  BY <1>1, Invariance, PTL

\* Cancellation is never converted into a normal completion: what is recorded
\* completed was completed by the runner, in a task nobody interrupted.
THEOREM CompletionIsEarned == Spec => []CompletedIsEarned
<1>1. IInv => CompletedIsEarned
  BY DEF IInv, RunInv, CompletedIsEarned
<1>2. QED
  BY <1>1, Invariance, PTL

\* A task that returns has settled its run and told the sink so.
THEOREM ReturningIsRecorded == Spec => [](ReturnedMeansRecorded /\ TaskHeld)
<1>1. IInv => ReturnedMeansRecorded /\ TaskHeld
  BY DEF IInv, RunInv, ReturnedMeansRecorded, TaskHeld
<1>2. QED
  BY <1>1, Invariance, PTL

\* What is handed to the runner is settled.  Only a cancellation before the
\* first step strands a run, or the loss of its task while the sink is told
\* RUNNING.
THEOREM StrandingIsExplained == Spec => []StrandedHasCause
<1>1. IInv => StrandedHasCause
  BY DEF IInv, RunInv, StrandedHasCause
<1>2. QED
  BY <1>1, Invariance, PTL

-----------------------------------------------------------------------------
(* What the sink has heard, and what becomes of a CancelledError.          *)

\* How many events the sink can have taken, by where the task is.
CountInv(r) ==
    /\ at[r] = "sink_running" => Len(heard[r]) = IF notified[r] THEN 1 ELSE 0
    /\ at[r] = "run" => Len(heard[r]) <= 1
    /\ at[r] = "run" /\ HasSink => Len(heard[r]) = 1
    /\ at[r] = "sink_final" => Len(heard[r]) = IF notified[r] THEN 2 ELSE 1
    /\ at[r] \in {"sink_failed", "sink_cancelled"} =>
          IF notified[r] THEN Len(heard[r]) \in {2, 3} ELSE Len(heard[r]) \in {1, 2}

\* What the k-th event of a run can be.
EventInv(r) ==
    \A k \in 1..Len(heard[r]) :
        /\ k <= 3
        /\ heard[r][k] = "running" <=> k = 1
        /\ heard[r][k] = "completed" => k = 2 /\ produced[r] = "completed"

SinkInv == \A r \in Runs : CountInv(r) /\ EventInv(r)

LEMMA InitHeard == Init => SinkInv
  BY DEF Init, SinkInv, CountInv, EventInv

\* The events stay as they are, and with them what is said of them.
LEMMA EventsKept ==
  ASSUME SinkInv, heard' = heard, NEW q \in Runs,
         produced'[q] = produced[q] \/ at[q] = "run" \/ produced[q] = "none"
  PROVE  EventInv(q)'
<1>1. CASE produced'[q] = produced[q]
  BY <1>1 DEF SinkInv, EventInv
<1>2. CASE at[q] = "run"
  <2>1. heard'[q] = heard[q] /\ EventInv(q) /\ CountInv(q)
    BY DEF SinkInv
  <2>2. \A k \in 1..Len(heard[q]) : k = 1
    BY <1>2, <2>1 DEF CountInv, EventInv
  <2>3. QED
    BY <2>1, <2>2 DEF EventInv
<1>3. CASE produced[q] = "none"
  BY <1>3 DEF SinkInv, EventInv
<1>4. QED
  BY <1>1, <1>2, <1>3

\* The sink takes an event.
LEMMA HearingIsCounted ==
  ASSUME IInv, SinkInv, NEW r \in Runs, SinkHears(r), NEW q \in Runs
  PROVE  CountInv(q)' /\ EventInv(q)'
<1>1. /\ repo[r] \in RunState /\ heard[r] \in Seq(RunState)
      /\ heard' = [heard EXCEPT ![r] = Append(heard[r], repo[r])]
      /\ notified' = [notified EXCEPT ![r] = TRUE]
      /\ at[r] \in Notifying /\ ~notified[r]
      /\ at' = at /\ produced' = produced
  BY DEF SinkHears, Notifying, IInv, TypeOK, RunInv, task
<1>2. CASE q # r
  <2>1. heard'[q] = heard[q] /\ notified'[q] = notified[q]
    BY <1>1, <1>2 DEF IInv, TypeOK
  <2>2. CountInv(q)'
    BY <1>1, <2>1 DEF SinkInv, CountInv
  <2>3. EventInv(q)'
    <3>1. EventInv(q)
      BY DEF SinkInv
    <3>2. produced'[q] = produced[q]
      BY <1>1
    <3>3. QED
      BY <2>1, <3>1, <3>2 DEF EventInv
  <2>4. QED
    BY <2>2, <2>3
<1>3. CASE q = r
  <2> DEFINE n == Len(heard[r])
  <2>1. /\ heard'[r] = Append(heard[r], repo[r])
        /\ notified'[r] = TRUE
    BY <1>1 DEF IInv, TypeOK
  <2>2. /\ n \in Nat /\ Len(heard'[r]) = n + 1 /\ heard'[r][n + 1] = repo[r]
        /\ \A k \in 1..n : heard'[r][k] = heard[r][k]
    BY <1>1, <2>1
  <2>3. /\ n \in {0, 1, 2}
        /\ repo[r] = "running" <=> n = 0
        /\ repo[r] = "completed" => n = 1 /\ produced[r] = "completed"
    <3>1. CountInv(r) /\ RunInv(r)
      BY DEF SinkInv, IInv
    <3>2. CASE at[r] = "sink_running"
      BY <1>1, <2>2, <3>1, <3>2 DEF CountInv, RunInv
    <3>3. CASE at[r] = "sink_final"
      BY <1>1, <2>2, <3>1, <3>3 DEF CountInv, RunInv
    <3>4. CASE at[r] \in {"sink_failed", "sink_cancelled"}
      BY <1>1, <2>2, <3>1, <3>4 DEF CountInv, RunInv
    <3>5. QED
      BY <1>1, <3>2, <3>3, <3>4 DEF Notifying
  <2>4. CountInv(r)'
    BY <1>1, <2>1, <2>2 DEF SinkInv, CountInv, Notifying
  <2>5. EventInv(r)'
    <3> SUFFICES ASSUME NEW k \in 1..(n + 1)
                 PROVE  /\ k <= 3
                        /\ heard'[r][k] = "running" <=> k = 1
                        /\ heard'[r][k] = "completed" => k = 2 /\ produced'[r] = "completed"
        BY <2>2 DEF EventInv
    <3>1. CASE k = n + 1
      BY <1>1, <2>2, <2>3, <3>1
    <3>2. CASE k \in 1..n
      BY <1>1, <2>2, <3>2 DEF SinkInv, EventInv
    <3>3. QED
      BY <2>2, <3>1, <3>2
  <2>6. QED
    BY <1>3, <2>4, <2>5
<1>4. QED
  BY <1>2, <1>3

\* Where a step that tells the sink nothing takes the task of a run.
Moves(q) ==
    \/ at'[q] = at[q] /\ notified'[q] = notified[q]
    \/ at'[q] \in {"created", "ended"}
    \/ /\ at[q] = "created" /\ heard[q] = <<>>
       /\ \/ at'[q] = "sink_running" /\ ~notified'[q]
          \/ at'[q] = "run" /\ ~HasSink
    \/ at[q] = "sink_running" /\ notified[q] /\ at'[q] = "run"
    \/ /\ at[q] = "run" /\ HasSink /\ ~notified'[q]
       /\ at'[q] \in {"sink_final", "sink_failed", "sink_cancelled"}
    \/ /\ at[q] = "sink_final" /\ ~notified'[q]
       /\ at'[q] \in {"sink_failed", "sink_cancelled"}

LEMMA StepMoves ==
  ASSUME IInv, [Next]_vars, NEW q \in Runs, ~(\E r \in Runs : SinkHears(r))
  PROVE  Moves(q)
<1> USE DEF IInv, TypeOK, RunInv, Resumes, EndTask, CallRunner, Moves, task, sink
<1>1. ASSUME NEW r \in Runs, Submit(r) \/ Begin(r) PROVE Moves(q)
  BY <1>1 DEF Submit, Begin
<1>2. ASSUME NEW r \in Runs, RunnerReturns(r) \/ RunnerRaises(r) PROVE Moves(q)
  BY <1>2 DEF RunnerReturns, RunnerRaises, SaveAndEnd
<1>3. ASSUME NEW r \in Runs, RunningNoted(r) \/ EndNoted(r) \/ SinkFailsUncaught(r)
      PROVE  Moves(q)
  BY <1>3 DEF RunningNoted, EndNoted, SinkFailsUncaught
<1>4. ASSUME NEW r \in Runs, SinkFailsFinal(r) \/ Interrupt(r) PROVE Moves(q)
  BY <1>4 DEF SinkFailsFinal, Interrupt, SaveAndEnd
<1>5. ASSUME NEW r \in Runs, Cancel(r) \/ DoneCallback(r) PROVE Moves(q)
  BY <1>5 DEF Cancel, DoneCallback
<1>6. CASE UNCHANGED vars
  BY <1>6 DEF vars
<1>7. QED
  BY <1>1, <1>2, <1>3, <1>4, <1>5, <1>6 DEF Next

LEMMA StepHeard == IInv /\ SinkInv /\ [Next]_vars => SinkInv'
<1> SUFFICES ASSUME IInv, SinkInv, [Next]_vars, NEW q \in Runs
             PROVE  CountInv(q)' /\ EventInv(q)'
    BY DEF SinkInv
<1>1. CASE \E r \in Runs : SinkHears(r)
  BY <1>1, HearingIsCounted
<1>2. CASE ~(\E r \in Runs : SinkHears(r))
  <2>1. heard' = heard
    BY <1>2 DEF Next, vars, sink, task, Submit, Begin, RunnerReturns, RunnerRaises,
       RunningNoted, EndNoted, SinkFailsUncaught, SinkFailsFinal, Cancel, Interrupt,
       DoneCallback
  <2>2. produced'[q] = produced[q] \/ at[q] = "run" \/ produced[q] = "none"
    BY <1>2 DEF Next, vars, sink, task, Submit, Begin, RunnerReturns, RunnerRaises,
       RunningNoted, EndNoted, SinkFailsUncaught, SinkFailsFinal, Cancel, Interrupt,
       DoneCallback, CallRunner, Resumes, IInv, TypeOK, RunInv
  <2>3. EventInv(q)'
    BY <2>1, <2>2, EventsKept
  <2>4. Moves(q)
    BY <1>2, StepMoves
  <2>5. CountInv(q)'
    <3>1. CountInv(q) /\ heard'[q] = heard[q]
      BY <2>1 DEF SinkInv
    <3>2. CASE at'[q] = at[q] /\ notified'[q] = notified[q]
      BY <3>1, <3>2 DEF CountInv
    <3>3. CASE at[q] = "created" /\ heard[q] = <<>>
      <4>1. Len(heard[q]) = 0
        BY <3>3
      <4>2. QED
        BY <2>4, <3>1, <3>2, <3>3, <4>1 DEF CountInv, Moves
    <3>4. CASE at[q] # "created" /\ at'[q] # at[q]
      <4>1. CASE at'[q] \in {"created", "ended"}
        BY <4>1 DEF CountInv
      <4>2. CASE at[q] = "sink_running" /\ notified[q] /\ at'[q] = "run"
        <5>1. Len(heard'[q]) = 1
          BY <3>1, <4>2 DEF CountInv
        <5>2. QED
          BY <4>2, <5>1 DEF CountInv
      <4>3. CASE /\ at[q] = "run" /\ HasSink /\ ~notified'[q]
                 /\ at'[q] \in {"sink_final", "sink_failed", "sink_cancelled"}
        BY <3>1, <4>3 DEF CountInv
      <4>4. CASE /\ at[q] = "sink_final" /\ ~notified'[q]
                 /\ at'[q] \in {"sink_failed", "sink_cancelled"}
        BY <3>1, <4>4 DEF CountInv
      <4>5. QED
        BY <2>4, <3>4, <4>1, <4>2, <4>3, <4>4 DEF Moves
    <3>5. QED
      BY <2>4, <3>1, <3>2, <3>3, <3>4 DEF CountInv, Moves
  <2>6. QED
    BY <2>3, <2>5
<1>3. QED
  BY <1>1, <1>2

\* The sink hears RUNNING first and then at most two verdicts, COMPLETED only
\* as the first of them and only of what the runner completed.
THEOREM SinkHearsTheRun == Spec => []SinkFollowsRun
<1>1. SinkInv => SinkFollowsRun
  BY DEF SinkInv, EventInv, SinkFollowsRun
<1>2. QED
  BY <1>1, InitHeard, StepHeard, Invariance, PTL DEF Spec

\* A CancelledError that was raised in a task is on its way out of it.
PropagationInv ==
    \A r \in Runs :
        /\ interrupted[r] => at[r] \in {"sink_cancelled", "ended"}
        /\ at[r] = "sink_cancelled" => HasSink
        /\ at[r] = "ended" /\ interrupted[r] => outcome[r] = "cancelled"

\* A cancelled task ends cancelled if no sink can fail while it is told so.
THEOREM CancellationLeavesTheTask ==
  ASSUME ~(HasSink /\ SinkFails)
  PROVE  Spec => []CancellationPropagates
<1>1. Init => PropagationInv
  BY DEF Init, PropagationInv
<1>2. IInv /\ PropagationInv /\ [Next]_vars => PropagationInv'
  <2> SUFFICES ASSUME IInv, PropagationInv, [Next]_vars, NEW q \in Runs
               PROVE  /\ interrupted'[q] => at'[q] \in {"sink_cancelled", "ended"}
                      /\ at'[q] = "sink_cancelled" => HasSink
                      /\ at'[q] = "ended" /\ interrupted'[q] => outcome'[q] = "cancelled"
      BY DEF PropagationInv
  <2> USE DEF IInv, TypeOK, PropagationInv, Resumes, EndTask, CallRunner, task, sink
  <2>1. ASSUME NEW r \in Runs, \/ Submit(r) \/ Begin(r) \/ SinkHears(r) \/ RunningNoted(r)
                                \/ EndNoted(r) \/ Cancel(r) \/ DoneCallback(r)
        PROVE  /\ interrupted'[q] => at'[q] \in {"sink_cancelled", "ended"}
               /\ at'[q] = "sink_cancelled" => HasSink
               /\ at'[q] = "ended" /\ interrupted'[q] => outcome'[q] = "cancelled"
    BY <2>1 DEF Submit, Begin, SinkHears, RunningNoted, EndNoted, Cancel, DoneCallback
  <2>2. ASSUME NEW r \in Runs, RunnerReturns(r) \/ RunnerRaises(r)
        PROVE  /\ interrupted'[q] => at'[q] \in {"sink_cancelled", "ended"}
               /\ at'[q] = "sink_cancelled" => HasSink
               /\ at'[q] = "ended" /\ interrupted'[q] => outcome'[q] = "cancelled"
    BY <2>2 DEF RunnerReturns, RunnerRaises, SaveAndEnd
  <2>3. ASSUME NEW r \in Runs, SinkFailsUncaught(r) \/ SinkFailsFinal(r)
        PROVE  FALSE
    BY <2>3 DEF SinkFailsUncaught, SinkFailsFinal, RunInv, Notifying
  <2>4. ASSUME NEW r \in Runs, Interrupt(r)
        PROVE  /\ interrupted'[q] => at'[q] \in {"sink_cancelled", "ended"}
               /\ at'[q] = "sink_cancelled" => HasSink
               /\ at'[q] = "ended" /\ interrupted'[q] => outcome'[q] = "cancelled"
    BY <2>4 DEF Interrupt, SaveAndEnd
  <2>5. QED
    BY <2>1, <2>2, <2>3, <2>4 DEF Next, vars
<1>3. PropagationInv => CancellationPropagates
  BY DEF PropagationInv, CancellationPropagates
<1>4. QED
  BY <1>1, <1>2, <1>3, Invariance, PTL DEF Spec

-----------------------------------------------------------------------------
(* What a step does to the record of a run.                                *)

\* The effect of a step on the record of one run, by the place its task is
\* suspended in.
Advance(r) ==
    \/ repo'[r] = repo[r]
    \/ repo[r] = "absent" /\ repo'[r] = "queued"
    \/ repo[r] = "queued" /\ repo'[r] = "running"
    \/ repo[r] = "running" /\ at[r] = "run" /\ repo'[r] \in Settled
    \/ repo[r] \in Settled /\ at[r] = "sink_final" /\ repo'[r] \in {"failed", "cancelled"}

\* A step changes the record of one run at most, and advances it.
LEMMA StepAdvances ==
  ASSUME IInv, Next
  PROVE  \E r \in Runs : /\ Advance(r)
                         /\ repo' = [repo EXCEPT ![r] = repo'[r]]
<1> USE DEF IInv, TypeOK, RunInv, Resumes, Advance, Settled, task, sink
<1>1. PICK r \in Runs :
        \/ Submit(r) \/ Begin(r) \/ RunnerReturns(r) \/ RunnerRaises(r)
        \/ SinkHears(r) \/ RunningNoted(r) \/ EndNoted(r)
        \/ SinkFailsUncaught(r) \/ SinkFailsFinal(r)
        \/ Cancel(r) \/ Interrupt(r) \/ DoneCallback(r)
  BY DEF Next
<1>2. CASE Submit(r)
  BY <1>2 DEF Submit
<1>3. CASE Begin(r)
  BY <1>3 DEF Begin
<1>4. CASE RunnerReturns(r)
  BY <1>4 DEF RunnerReturns, SaveAndEnd
<1>5. CASE RunnerRaises(r)
  BY <1>5 DEF RunnerRaises, SaveAndEnd
<1>6. CASE SinkFailsFinal(r)
  BY <1>6 DEF SinkFailsFinal, SaveAndEnd
<1>7. CASE Interrupt(r)
  <2>1. CASE at[r] \in {"run", "sink_final"}
    BY <1>7, <2>1 DEF Interrupt, SaveAndEnd
  <2>2. CASE at[r] \notin {"run", "sink_final"}
    BY <1>7, <2>2 DEF Interrupt
  <2>3. QED
    BY <2>1, <2>2
<1>8. CASE SinkHears(r) \/ RunningNoted(r) \/ EndNoted(r) \/ SinkFailsUncaught(r)
           \/ Cancel(r) \/ DoneCallback(r)
  <2>1. repo' = repo
    BY <1>8 DEF SinkHears, RunningNoted, EndNoted, SinkFailsUncaught, Cancel, DoneCallback
  <2>2. QED
    BY <2>1
<1>9. QED
  BY <1>1, <1>2, <1>3, <1>4, <1>5, <1>6, <1>7, <1>8

\* A settled record changes only while its snapshot is being announced.
THEOREM ReplacementIsAnnounced == Spec => ReplacedOnlyWhileAnnounced
<1>1. IInv /\ [Next]_vars =>
        [\A r \in Runs : repo[r] \in Settled /\ repo'[r] # repo[r] =>
            at[r] = "sink_final" /\ repo'[r] # "completed"]_repo
  <2> SUFFICES ASSUME IInv, Next, NEW q \in Runs, repo[q] \in Settled,
                      repo'[q] # repo[q]
               PROVE  at[q] = "sink_final" /\ repo'[q] # "completed"
      BY DEF vars
  <2>1. PICK r \in Runs : Advance(r) /\ repo' = [repo EXCEPT ![r] = repo'[r]]
    BY StepAdvances
  <2>2. q = r
    BY <2>1 DEF IInv, TypeOK
  <2>3. QED
    BY <2>1, <2>2 DEF Advance, Settled
<1>2. QED
  BY <1>1, Invariance, PTL DEF Spec, ReplacedOnlyWhileAnnounced

\* Without a sink the record of every run follows RunLifecycle, whatever the
\* runner does and whenever its task is cancelled.
THEOREM ServiceIsLifecycle ==
  ASSUME HasSink = FALSE
  PROVE  Spec => ImplementsSafeLifecycle
<1>1. Init => Lifecycle!LifecycleInit
  BY DEF Init, Lifecycle!LifecycleInit
<1>2. IInv /\ [Next]_vars => [Lifecycle!LifecycleNext]_repo
  <2> SUFFICES ASSUME IInv, Next, repo' # repo
               PROVE  Lifecycle!LifecycleNext
      BY DEF vars
  <2>1. PICK r \in Runs : Advance(r) /\ repo' = [repo EXCEPT ![r] = repo'[r]]
    BY StepAdvances
  <2>2. repo'[r] # repo[r]
    BY <2>1 DEF IInv, TypeOK
  <2>3. at[r] # "sink_final"
    BY DEF IInv, RunInv, Notifying
  <2>4. QED
    BY <2>1, <2>2, <2>3
    DEF Advance, Settled, Lifecycle!LifecycleNext, Lifecycle!Enqueue,
        Lifecycle!Run, Lifecycle!Settle, Lifecycle!Settled
<1>3. QED
  BY <1>1, <1>2, Invariance, PTL DEF Spec, ImplementsSafeLifecycle, Lifecycle!SafeSpec

\* What the lifecycle is for: without a sink, a client that has polled a
\* verdict will never poll another.
THEOREM VerdictsAreFinal ==
  ASSUME HasSink = FALSE
  PROVE  Spec => Lifecycle!SettledIsFinal
<1>1. IInv /\ [Next]_vars =>
        [\A r \in Runs : repo[r] \in Lifecycle!Settled => repo'[r] = repo[r]]_repo
  <2> SUFFICES ASSUME IInv, Next, NEW q \in Runs, repo[q] \in Settled
               PROVE  repo'[q] = repo[q]
      BY DEF vars, Settled, Lifecycle!Settled
  <2>1. PICK r \in Runs : Advance(r) /\ repo' = [repo EXCEPT ![r] = repo'[r]]
    BY StepAdvances
  <2>2. at[r] # "sink_final"
    BY DEF IInv, RunInv, Notifying
  <2>3. QED
    BY <2>1, <2>2 DEF IInv, TypeOK, Advance, Settled
<1>2. QED
  BY <1>1, Invariance, PTL DEF Spec, Lifecycle!SettledIsFinal

=============================================================================
