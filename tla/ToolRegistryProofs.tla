-------------------------- MODULE ToolRegistryProofs --------------------------
(***************************************************************************)
(* Proofs about ToolRegistry, for every set of agents and tool names, any  *)
(* permissions, any number of registrations and calls and any pool.        *)
(***************************************************************************)
EXTENDS ToolRegistry, TLAPS

JobRecords == [name : Names, tool : Nat, spec : Nat, state : JobStates]

RegistryType ==
    /\ tools \in [Names -> Nat]
    /\ last \in Nat
    /\ held \in [Agents -> SUBSET Names]
    /\ at \in [Agents -> {"unbuilt", "idle", "running"} \union Outcomes]
    /\ jobs \in [Agents -> Seq(JobRecords)]

\* The two dictionaries are one, and a handle is permitted.
AccessInv ==
    /\ specs = tools
    /\ \A a \in Agents : held[a] \subseteq Permitted[a]

\* A job is of a permitted tool, and of the one registered with its spec.
Sound(a, j) == j.name \in Permitted[a] /\ j.tool # 0 /\ j.spec = j.tool

\* What the jobs of an agent and the verdict of its latest call have to do
\* with one another.
AgentInv(a) ==
    /\ \A k \in DOMAIN jobs[a] :
          /\ Sound(a, jobs[a][k])
          /\ jobs[a][k].state = "queued" => at[a] = "running" /\ k = Len(jobs[a])
    /\ at[a] \in {"running", "ok", "failed"} => jobs[a] # <<>>
    /\ at[a] = "ok" => jobs[a][Len(jobs[a])].state = "done"
    /\ at[a] = "failed" => jobs[a][Len(jobs[a])].state = "erred"

IInv == RegistryType /\ AccessInv /\ \A a \in Agents : AgentInv(a)

-----------------------------------------------------------------------------
LEMMA InitEstablishes == Init => IInv
  BY DEF Init, IInv, RegistryType, AccessInv, AgentInv

\* Of the jobs of an agent only the state of one changes.
LEMMA SetStateChanges ==
  ASSUME RegistryType, NEW a \in Agents, NEW k \in DOMAIN jobs[a],
         NEW s \in JobStates, SetState(a, k, s)
  PROVE  /\ jobs' \in [Agents -> Seq(JobRecords)]
         /\ \A b \in Agents \ {a} : jobs'[b] = jobs[b]
         /\ Len(jobs'[a]) = Len(jobs[a])
         /\ DOMAIN jobs'[a] = DOMAIN jobs[a]
         /\ \A i \in DOMAIN jobs[a] : i # k => jobs'[a][i] = jobs[a][i]
         /\ jobs'[a][k] = [jobs[a][k] EXCEPT !.state = s]
<1> DEFINE row == [jobs[a] EXCEPT ![k].state = s]
<1>1. jobs[a] \in Seq(JobRecords) /\ jobs[a][k] \in JobRecords
  BY DEF RegistryType
<1>2. [jobs[a][k] EXCEPT !.state = s] \in JobRecords
  BY <1>1 DEF JobRecords
<1>3. /\ row \in Seq(JobRecords)
      /\ Len(row) = Len(jobs[a])
      /\ DOMAIN row = DOMAIN jobs[a]
      /\ \A i \in DOMAIN jobs[a] : i # k => row[i] = jobs[a][i]
      /\ row[k] = [jobs[a][k] EXCEPT !.state = s]
  BY <1>1, <1>2
<1>4. jobs' = [jobs EXCEPT ![a] = row]
  BY DEF SetState
<1> HIDE DEF row
<1>5. jobs'[a] = row /\ \A b \in Agents \ {a} : jobs'[b] = jobs[b]
  BY <1>4 DEF RegistryType
<1>6. jobs' \in [Agents -> Seq(JobRecords)]
  BY <1>3, <1>4 DEF RegistryType
<1>7. QED
  BY <1>3, <1>5, <1>6

\* A call adds one job, that of the tool now registered under its name.
LEMMA BeginAdds ==
  ASSUME RegistryType, AccessInv, NEW a \in Agents, NEW n \in Names,
         NEW s \in JobStates, Begin(a, n, s)
  PROVE  /\ jobs' \in [Agents -> Seq(JobRecords)]
         /\ \A b \in Agents \ {a} : jobs'[b] = jobs[b]
         /\ Len(jobs[a]) \in Nat
         /\ Len(jobs'[a]) = Len(jobs[a]) + 1
         /\ \A i \in DOMAIN jobs[a] : jobs'[a][i] = jobs[a][i]
         /\ DOMAIN jobs'[a] = DOMAIN jobs[a] \union {Len(jobs'[a])}
         /\ jobs'[a][Len(jobs'[a])] =
               [name |-> n, tool |-> tools[n], spec |-> tools[n], state |-> s]
<1> DEFINE j == [name |-> n, tool |-> tools[n], spec |-> tools[n], state |-> s]
<1>1. j \in JobRecords /\ jobs[a] \in Seq(JobRecords)
  BY DEF RegistryType, JobRecords
<1>2. jobs' = [jobs EXCEPT ![a] = Append(jobs[a], j)]
  BY DEF Begin, AccessInv
<1> HIDE DEF j
<1>3. jobs'[a] = Append(jobs[a], j) /\ \A b \in Agents \ {a} : jobs'[b] = jobs[b]
  BY <1>2 DEF RegistryType
<1>4. Append(jobs[a], j) \in Seq(JobRecords)
  BY <1>1
<1>5. jobs' \in [Agents -> Seq(JobRecords)]
  BY <1>2, <1>4 DEF RegistryType
<1>6. QED
  BY <1>1, <1>3, <1>5 DEF j

\* Giving up a call withdraws its job, or leaves it to its thread.
LEMMA GiveUpWithdraws ==
  ASSUME IInv, NEW a \in Agents, at[a] = "running", GiveUp(a)
  PROVE  /\ jobs' \in [Agents -> Seq(JobRecords)]
         /\ \A b \in Agents \ {a} : jobs'[b] = jobs[b]
         /\ DOMAIN jobs'[a] = DOMAIN jobs[a]
         /\ \A i \in DOMAIN jobs[a] :
               Sound(a, jobs'[a][i]) /\ jobs'[a][i].state # "queued"
<1>1. jobs[a] \in Seq(JobRecords) /\ jobs[a] # <<>> /\ AgentInv(a)
  BY DEF IInv, RegistryType, AgentInv
<1>2. Len(jobs[a]) \in DOMAIN jobs[a]
  BY <1>1
<1>3. \A i \in DOMAIN jobs[a] :
         /\ jobs[a][i] \in JobRecords
         /\ Sound(a, jobs[a][i])
         /\ i # Len(jobs[a]) => jobs[a][i].state # "queued"
  BY <1>1 DEF AgentInv
<1>5. CASE Current(a).state = "queued"
  <2> DEFINE k == Len(jobs[a])
             j == [jobs[a][k] EXCEPT !.state = "withdrawn"]
  <2>1. SetState(a, k, "withdrawn") /\ "withdrawn" \in JobStates
    BY <1>5 DEF GiveUp, JobStates
  <2>2. /\ jobs' \in [Agents -> Seq(JobRecords)]
        /\ \A b \in Agents \ {a} : jobs'[b] = jobs[b]
        /\ DOMAIN jobs'[a] = DOMAIN jobs[a]
        /\ \A i \in DOMAIN jobs[a] : i # k => jobs'[a][i] = jobs[a][i]
        /\ jobs'[a][k] = j
    BY <1>2, <2>1, SetStateChanges DEF IInv
  <2>3. Sound(a, j) /\ j.state # "queued"
    BY <1>2, <1>3 DEF Sound, JobRecords
  <2>4. QED
    BY <1>3, <2>2, <2>3
<1>6. CASE Current(a).state # "queued"
  BY <1>2, <1>3, <1>6 DEF GiveUp, Current, IInv, RegistryType
<1>7. QED
  BY <1>5, <1>6

\* A step of one agent is nothing to the others.
LEMMA OneAgent ==
  ASSUME IInv, NEW a \in Agents, RegistryType', AccessInv',
         \A b \in Agents \ {a} : at'[b] = at[b] /\ jobs'[b] = jobs[b],
         AgentInv(a)'
  PROVE  IInv'
  BY DEF IInv, AgentInv

LEMMA StepPreserves == IInv /\ [Next]_vars => IInv'
<1> SUFFICES ASSUME IInv, [Next]_vars PROVE IInv'
    OBVIOUS
<1> USE DEF RegistryType, AccessInv, Outcomes, End
<1>1. ASSUME NEW n \in Names, Register(n) PROVE IInv'
  BY <1>1 DEF Register, IInv, AgentInv
<1>2. ASSUME NEW n \in Names, Unregister(n) PROVE IInv'
  BY <1>2 DEF Unregister, IInv, AgentInv
<1>3. ASSUME NEW a \in Agents, BuildAgent(a) PROVE IInv'
  BY <1>3 DEF BuildAgent, Registered, IInv, AgentInv
<1>4. ASSUME NEW a \in Agents, NEW n \in Names, Refuse(a, n) PROVE IInv'
  BY <1>4 DEF Refuse, CanCall, IInv, AgentInv
<1>5. ASSUME NEW a \in Agents, NEW n \in Names, NEW s \in JobStates, Begin(a, n, s),
             CanCall(a), n \in held[a], n \in Registered,
             UNCHANGED <<tools, specs, last, held>>,
             \/ s = "queued" /\ at' = [at EXCEPT ![a] = "running"]
             \/ s = "done" /\ at' = [at EXCEPT ![a] = "ok"]
             \/ s = "erred" /\ at' = [at EXCEPT ![a] = "failed"]
      PROVE  IInv'
  <2> DEFINE j == [name |-> n, tool |-> tools[n], spec |-> tools[n], state |-> s]
  <2>1. /\ jobs' \in [Agents -> Seq(JobRecords)]
        /\ \A b \in Agents \ {a} : jobs'[b] = jobs[b]
        /\ Len(jobs[a]) \in Nat
        /\ Len(jobs'[a]) = Len(jobs[a]) + 1
        /\ \A i \in DOMAIN jobs[a] : jobs'[a][i] = jobs[a][i]
        /\ DOMAIN jobs'[a] = DOMAIN jobs[a] \union {Len(jobs'[a])}
        /\ jobs'[a][Len(jobs'[a])] = j
    BY <1>5, BeginAdds DEF IInv
  <2>2. Sound(a, j) /\ j.state = s
    BY <1>5 DEF IInv, Sound, Registered
  <2>3. RegistryType' /\ AccessInv'
    BY <1>5, <2>1 DEF IInv
  <2>4. \A i \in DOMAIN jobs[a] : Sound(a, jobs[a][i]) /\ jobs[a][i].state # "queued"
    BY <1>5 DEF IInv, AgentInv, CanCall
  <2>5. at'[a] = (IF s = "queued" THEN "running" ELSE IF s = "done" THEN "ok" ELSE "failed")
        /\ \A b \in Agents \ {a} : at'[b] = at[b]
    BY <1>5 DEF IInv
  <2> HIDE DEF j
  <2>6. jobs'[a] # <<>>
    BY <2>1
  <2>7. AgentInv(a)'
    BY <1>5, <2>1, <2>2, <2>4, <2>5, <2>6 DEF AgentInv
  <2>8. QED
    BY <2>1, <2>3, <2>5, <2>7, OneAgent
<1>6. ASSUME NEW a \in Agents, NEW n \in Names, Call(a, n) \/ CallAtOnce(a, n) PROVE IInv'
  <2>1. {"queued", "done", "erred"} \subseteq JobStates
    BY DEF JobStates
  <2>2. QED
    BY <1>5, <1>6, <2>1 DEF Call, CallAtOnce
<1>7. ASSUME NEW a \in Agents, Return(a) PROVE IInv'
  BY <1>7 DEF Return, Current, IInv, AgentInv
<1>8. ASSUME NEW a \in Agents, ToolFails(a) PROVE IInv'
  BY <1>8 DEF ToolFails, Current, IInv, AgentInv
<1>9. ASSUME NEW a \in Agents, ToolTimesOut(a) \/ Cancelled(a) PROVE IInv'
  <2>1. /\ jobs' \in [Agents -> Seq(JobRecords)]
        /\ \A b \in Agents \ {a} : jobs'[b] = jobs[b]
        /\ DOMAIN jobs'[a] = DOMAIN jobs[a]
        /\ \A i \in DOMAIN jobs[a] :
               Sound(a, jobs'[a][i]) /\ jobs'[a][i].state # "queued"
    BY <1>9, GiveUpWithdraws DEF ToolTimesOut, Cancelled
  <2>2. /\ at' \in [Agents -> {"unbuilt", "idle", "running"} \union Outcomes]
        /\ at'[a] \in {"timeout", "cancelled"}
        /\ \A b \in Agents \ {a} : at'[b] = at[b]
    BY <1>9 DEF ToolTimesOut, Cancelled, IInv
  <2>3. RegistryType' /\ AccessInv'
    BY <1>9, <2>1, <2>2 DEF ToolTimesOut, Cancelled, IInv
  <2>4. AgentInv(a)'
    BY <2>1, <2>2 DEF AgentInv
  <2>5. QED
    BY <2>1, <2>2, <2>3, <2>4, OneAgent
<1>10. ASSUME NEW a \in Agents, NEW k \in DOMAIN jobs[a], NEW s \in {"running", "done", "erred"},
              SetState(a, k, s), jobs[a][k].state \in {"queued", "running"},
              UNCHANGED <<tools, specs, last, held, at, calls>>
       PROVE  IInv'
  <2> DEFINE j == [jobs[a][k] EXCEPT !.state = s]
  <2>0. SetState(a, k, s) /\ s \in JobStates
    BY <1>10 DEF JobStates
  <2>1. /\ jobs' \in [Agents -> Seq(JobRecords)]
        /\ \A b \in Agents \ {a} : jobs'[b] = jobs[b]
        /\ Len(jobs'[a]) = Len(jobs[a])
        /\ DOMAIN jobs'[a] = DOMAIN jobs[a]
        /\ \A i \in DOMAIN jobs[a] : i # k => jobs'[a][i] = jobs[a][i]
        /\ jobs'[a][k] = j
    BY <2>0, SetStateChanges DEF IInv
  <2>2. jobs[a] \in Seq(JobRecords) /\ jobs[a][k] \in JobRecords /\ AgentInv(a)
    BY DEF IInv
  <2>3. Sound(a, j) /\ j.state = s
    BY <2>2 DEF Sound, JobRecords, AgentInv
  <2>4. RegistryType' /\ AccessInv'
    BY <1>10, <2>1 DEF IInv
  <2>5. at' = at
    BY <1>10
  <2>6. jobs'[a] # <<>> /\ Len(jobs[a]) \in DOMAIN jobs[a]
    BY <2>1, <2>2
  <2> HIDE DEF j
  <2>7. \A i \in DOMAIN jobs'[a] :
           /\ Sound(a, jobs'[a][i])
           /\ jobs'[a][i].state = "queued" => at[a] = "running" /\ i = Len(jobs[a])
    BY <2>1, <2>2, <2>3 DEF AgentInv
  <2>8. at[a] \in {"ok", "failed"} => k # Len(jobs[a])
    BY <1>10, <2>2 DEF AgentInv
  <2>9. AgentInv(a)'
    BY <2>1, <2>2, <2>5, <2>6, <2>7, <2>8 DEF AgentInv
  <2>10. QED
    BY <2>1, <2>4, <2>5, <2>9, OneAgent
<1>11. ASSUME NEW a \in Agents, NEW k \in DOMAIN jobs[a], Work(a, k) \/ Finish(a, k)
       PROVE  IInv'
  BY <1>10, <1>11 DEF Work, Finish
<1>12. CASE UNCHANGED vars
  BY <1>12 DEF vars, IInv, AgentInv
<1>13. QED
  BY <1>1, <1>2, <1>3, <1>4, <1>6, <1>7, <1>8, <1>9, <1>11, <1>12 DEF Next

LEMMA Invariance == Spec => []IInv
  BY InitEstablishes, StepPreserves, PTL DEF Spec

-----------------------------------------------------------------------------
\* A call starts one job at most, of a registration there has been.
CountInv ==
    /\ last \in 0..MaxRegistrations
    /\ tools \in [Names -> 0..last]
    /\ calls \in [Agents -> 0..MaxCalls]
    /\ \A a \in Agents :
          /\ Len(jobs[a]) <= calls[a]
          /\ \A k \in DOMAIN jobs[a] : jobs[a][k].tool <= last

LEMMA CountStep == IInv /\ CountInv /\ [Next]_vars => CountInv'
<1> SUFFICES ASSUME IInv, CountInv, [Next]_vars PROVE CountInv'
    OBVIOUS
<1> USE RegistryAssumption
<1>1. ASSUME NEW n \in Names, Register(n) PROVE CountInv'
  <2>1. /\ last' = last + 1 /\ last' \in 0..MaxRegistrations
        /\ tools' = [tools EXCEPT ![n] = last'] /\ UNCHANGED <<calls, jobs>>
    BY <1>1 DEF Register, CountInv
  <2>2. tools' \in [Names -> 0..last']
    BY <2>1 DEF CountInv
  <2>3. ASSUME NEW a \in Agents, NEW k \in DOMAIN jobs[a] PROVE jobs[a][k].tool <= last'
    <3>1. jobs[a][k] \in JobRecords /\ last \in Nat
      BY DEF IInv, RegistryType
    <3>2. jobs[a][k].tool \in Nat /\ jobs[a][k].tool <= last
      BY <3>1 DEF JobRecords, CountInv
    <3>3. QED
      BY <2>1, <3>1, <3>2
  <2>4. QED
    BY <2>1, <2>2, <2>3 DEF CountInv
<1>2. ASSUME NEW n \in Names, Unregister(n) PROVE CountInv'
  BY <1>2 DEF Unregister, CountInv
<1>3. ASSUME NEW a \in Agents, NEW n \in Names, Refuse(a, n) PROVE CountInv'
  <2>1. \A b \in Agents : Len(jobs[b]) \in Nat
    BY DEF IInv, RegistryType
  <2>2. QED
    BY <1>3, <2>1 DEF Refuse, CanCall, CountInv
<1>4. ASSUME NEW a \in Agents, NEW n \in Names, NEW s \in JobStates, Begin(a, n, s),
             CanCall(a), calls' = [calls EXCEPT ![a] = @ + 1], UNCHANGED <<tools, last>>
      PROVE  CountInv'
  <2> DEFINE j == [name |-> n, tool |-> tools[n], spec |-> tools[n], state |-> s]
  <2>0. j.tool = tools[n]
    OBVIOUS
  <2>1. /\ \A b \in Agents \ {a} : jobs'[b] = jobs[b]
        /\ Len(jobs[a]) \in Nat
        /\ Len(jobs'[a]) = Len(jobs[a]) + 1
        /\ \A i \in DOMAIN jobs[a] : jobs'[a][i] = jobs[a][i]
        /\ DOMAIN jobs'[a] = DOMAIN jobs[a] \union {Len(jobs'[a])}
        /\ jobs'[a][Len(jobs'[a])] = j
    BY <1>4, BeginAdds DEF IInv
  <2> HIDE DEF j
  <2>2. /\ calls' \in [Agents -> 0..MaxCalls]
        /\ calls'[a] = calls[a] + 1
        /\ \A b \in Agents \ {a} : calls'[b] = calls[b]
    BY <1>4 DEF CanCall, CountInv
  <2>3. Len(jobs'[a]) <= calls'[a] /\ tools[n] <= last
    BY <2>1, <2>2 DEF CountInv
  <2>4. \A k \in DOMAIN jobs'[a] : jobs'[a][k].tool <= last
    BY <2>0, <2>1, <2>3 DEF CountInv
  <2>5. QED
    BY <1>4, <2>1, <2>2, <2>3, <2>4 DEF CountInv
<1>5. ASSUME NEW a \in Agents, NEW n \in Names, Call(a, n) \/ CallAtOnce(a, n) PROVE CountInv'
  <2>1. {"queued", "done", "erred"} \subseteq JobStates
    BY DEF JobStates
  <2>2. QED
    BY <1>4, <1>5, <2>1 DEF Call, CallAtOnce
<1>6. ASSUME NEW a \in Agents, NEW k \in DOMAIN jobs[a], NEW s \in JobStates,
             SetState(a, k, s), UNCHANGED <<tools, last, calls>>
      PROVE  CountInv'
  <2>1. /\ \A b \in Agents \ {a} : jobs'[b] = jobs[b]
        /\ Len(jobs'[a]) = Len(jobs[a])
        /\ DOMAIN jobs'[a] = DOMAIN jobs[a]
        /\ \A i \in DOMAIN jobs[a] : i # k => jobs'[a][i] = jobs[a][i]
        /\ jobs'[a][k] = [jobs[a][k] EXCEPT !.state = s]
    BY <1>6, SetStateChanges DEF IInv
  <2>2. jobs[a][k] \in JobRecords
    BY DEF IInv, RegistryType
  <2>3. jobs'[a][k].tool = jobs[a][k].tool
    BY <2>1, <2>2 DEF JobRecords
  <2>4. \A b \in Agents : Len(jobs'[b]) = Len(jobs[b]) /\ DOMAIN jobs'[b] = DOMAIN jobs[b]
    BY <2>1
  <2>5. \A b \in Agents : \A i \in DOMAIN jobs[b] : jobs'[b][i].tool = jobs[b][i].tool
    BY <2>1, <2>3
  <2>6. QED
    BY <1>6, <2>4, <2>5 DEF CountInv
<1>7. ASSUME NEW a \in Agents, ToolTimesOut(a) \/ Cancelled(a) PROVE CountInv'
  <2>1. UNCHANGED <<tools, last, calls>> /\ GiveUp(a) /\ at[a] = "running"
    BY <1>7 DEF ToolTimesOut, Cancelled
  <2>2. Len(jobs[a]) \in DOMAIN jobs[a] /\ "withdrawn" \in JobStates
    BY <2>1 DEF IInv, RegistryType, AgentInv, JobStates
  <2>3. CASE UNCHANGED jobs
    BY <2>1, <2>3 DEF CountInv
  <2>4. CASE SetState(a, Len(jobs[a]), "withdrawn")
    BY <1>6, <2>1, <2>2, <2>4
  <2>5. QED
    BY <2>1, <2>3, <2>4 DEF GiveUp
<1>8. ASSUME NEW a \in Agents, NEW k \in DOMAIN jobs[a], Work(a, k) \/ Finish(a, k)
      PROVE  CountInv'
  <2>1. {"running", "done", "erred"} \subseteq JobStates
    BY DEF JobStates
  <2>2. QED
    BY <1>6, <1>8, <2>1 DEF Work, Finish
<1>9. ASSUME UNCHANGED <<tools, last, calls, jobs>> PROVE CountInv'
  BY <1>9 DEF CountInv
<1>10. QED
  BY <1>1, <1>2, <1>3, <1>5, <1>7, <1>8, <1>9
  DEF Next, BuildAgent, Return, ToolFails, vars

\* Every variable keeps its type: an agent has no more jobs than it made
\* calls, each of a registration there has been.
THEOREM TypeCorrect == Spec => []TypeOK
<1>1. Init => CountInv
  BY RegistryAssumption DEF Init, CountInv
<1>2. IInv /\ CountInv => TypeOK
  <2> SUFFICES ASSUME IInv, CountInv PROVE TypeOK
      OBVIOUS
  <2>1. ASSUME NEW a \in Agents, NEW k \in DOMAIN jobs[a]
        PROVE  jobs[a][k] \in [name : Names, tool : 0..last, spec : 0..last, state : JobStates]
    <3>1. jobs[a][k] \in JobRecords
      BY DEF IInv, RegistryType
    <3>2. jobs[a][k].tool <= last /\ jobs[a][k].spec = jobs[a][k].tool
      BY DEF IInv, AgentInv, Sound, CountInv
    <3>3. last \in Nat
      BY DEF IInv, RegistryType
    <3>4. QED
      BY <3>1, <3>2, <3>3 DEF JobRecords
  <2>2. QED
    BY <2>1 DEF IInv, RegistryType, AccessInv, CountInv, TypeOK
<1>3. QED
  BY <1>1, <1>2, CountStep, Invariance, PTL DEF Spec

\* Whatever was started was permitted, and ran under the spec its tool was
\* registered with, however names were given up and taken again.
THEOREM StartsAreRegistered == Spec => []StartedAsRegistered
<1>1. IInv => StartedAsRegistered
  BY DEF IInv, AgentInv, Sound, StartedAsRegistered
<1>2. QED
  BY <1>1, Invariance, PTL

\* A verdict is about the job of its own call, and no job waits for a worker
\* after its call was reported as over.
THEOREM VerdictsAreOfJobs == Spec => []VerdictIsOfJob
<1>1. IInv => VerdictIsOfJob
  BY DEF IInv, AgentInv, Current, VerdictIsOfJob
<1>2. QED
  BY <1>1, Invariance, PTL

=============================================================================
