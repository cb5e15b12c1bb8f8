---------------------------- MODULE ToolRegistry ----------------------------
(***************************************************************************)
(* ToolRegistry (tools/registry.py) and the handles RegistryTool that      *)
(* build_agent_tools (tools/runtime.py) gives to agents: tools come and go *)
(* while agents call them by name.                                         *)
(*                                                                         *)
(* A registration is a number: the tool and the spec registered together.  *)
(* The work of a tool is a job, in a thread for most tools                 *)
(* (asyncio.to_thread in code_execution, filesystem, database, http_tool   *)
(* and git); like every thread's it cannot be interrupted, and the pool is *)
(* shared.                                                                 *)
(*                                                                         *)
(* A definition Op_Variant, right before Op, is a mutated form of Op: a    *)
(* bug that could be made in that code, which a property must notice.      *)
(***************************************************************************)
EXTENDS Naturals, Sequences, FiniteSets

CONSTANTS
    Agents,
    Names,       \* names of tools
    Permitted,   \* ToolPermission.allowed_tools of each agent
    MaxRegistrations, MaxCalls,  \* bounds, of the whole run and per agent
    Workers      \* size of the thread pool

ASSUME RegistryAssumption ==
    /\ Permitted \in [Agents -> SUBSET Names]
    /\ MaxRegistrations \in Nat
    /\ MaxCalls \in Nat
    /\ Workers \in Nat \ {0}

VARIABLES
    tools,    \* _tools: the registration under each name, 0 if there is none
    specs,    \* _specs: likewise
    last,     \* the latest registration
    held,     \* the names of the handles each agent was built with
    at,       \* "unbuilt", "idle", "running", or how the latest call ended
    calls,    \* the number of calls each agent has made
    jobs      \* the jobs each agent's calls have started

vars == <<tools, specs, last, held, at, calls, jobs>>

-----------------------------------------------------------------------------
Outcomes == {"ok", "failed", "timeout", "refused", "cancelled"}

\* "withdrawn": given up before a worker took it.
JobStates == {"queued", "running", "done", "erred", "withdrawn"}

Registered == {n \in Names : tools[n] # 0}

Current(a) == jobs[a][Len(jobs[a])]

Busy == {q \in Agents \X (1..MaxCalls) :
            q[2] <= Len(jobs[q[1]]) /\ jobs[q[1]][q[2]].state = "running"}

SetState(a, k, s) == jobs' = [jobs EXCEPT ![a][k].state = s]

End(a, outcome) == at' = [at EXCEPT ![a] = outcome]

-----------------------------------------------------------------------------
Init ==
    /\ tools = [n \in Names |-> 0]
    /\ specs = [n \in Names |-> 0]
    /\ last = 0
    /\ held = [a \in Agents |-> {}]
    /\ at = [a \in Agents |-> "unbuilt"]
    /\ calls = [a \in Agents |-> 0]
    /\ jobs = [a \in Agents |-> <<>>]

\* A name in use is refused, and nothing changes.
Register_Replaces(n) ==
    /\ last < MaxRegistrations
    /\ last' = last + 1
    /\ tools' = [tools EXCEPT ![n] = last']
    /\ specs' = [specs EXCEPT ![n] = IF @ = 0 THEN last' ELSE @]
    /\ UNCHANGED <<held, at, calls, jobs>>
Register(n) ==
    /\ last < MaxRegistrations
    /\ n \notin Registered
    /\ last' = last + 1
    /\ tools' = [tools EXCEPT ![n] = last']
    /\ specs' = [specs EXCEPT ![n] = last']
    /\ UNCHANGED <<held, at, calls, jobs>>

Unregister(n) ==
    /\ n \in Registered
    /\ tools' = [tools EXCEPT ![n] = 0]
    /\ specs' = [specs EXCEPT ![n] = 0]
    /\ UNCHANGED <<last, held, at, calls, jobs>>

\* build_agent_tools: handles for what is permitted and registered by now.
BuildAgent(a) ==
    /\ at[a] = "unbuilt"
    /\ held' = [held EXCEPT ![a] = Registered \intersect Permitted[a]]
    /\ End(a, "idle")
    /\ UNCHANGED <<tools, specs, last, calls, jobs>>

CanCall(a) ==
    /\ at[a] \notin {"unbuilt", "running", "cancelled"}
    /\ calls[a] < MaxCalls

\* The agent has no such handle, the registry no such tool, or the arguments
\* do not fit the schema: the call is over before anything was started.
Refuse(a, n) ==
    /\ CanCall(a)
    /\ calls' = [calls EXCEPT ![a] = @ + 1]
    /\ End(a, "refused")
    /\ UNCHANGED <<tools, specs, last, held, jobs>>

Begin(a, n, s) ==
    jobs' = [jobs EXCEPT ![a] =
        Append(@, [name |-> n, tool |-> tools[n], spec |-> specs[n], state |-> s])]

\* The lookup, the validation and the tool up to its thread are one step:
\* nothing is suspended between them.
Call(a, n) ==
    /\ CanCall(a)
    /\ n \in held[a]
    /\ n \in Registered
    /\ calls' = [calls EXCEPT ![a] = @ + 1]
    /\ Begin(a, n, "queued")
    /\ End(a, "running")
    /\ UNCHANGED <<tools, specs, last, held>>

\* web_search needs no thread, and other tools may fail before they have one.
CallAtOnce(a, n) ==
    /\ CanCall(a)
    /\ n \in held[a]
    /\ n \in Registered
    /\ calls' = [calls EXCEPT ![a] = @ + 1]
    /\ \/ Begin(a, n, "done") /\ End(a, "ok")
       \/ Begin(a, n, "erred") /\ End(a, "failed")
    /\ UNCHANGED <<tools, specs, last, held>>

\* A free worker takes a job; the job takes its effect or fails.
Work(a, k) ==
    /\ jobs[a][k].state = "queued"
    /\ Cardinality(Busy) < Workers
    /\ SetState(a, k, "running")
    /\ UNCHANGED <<tools, specs, last, held, at, calls>>

Finish(a, k) ==
    /\ jobs[a][k].state = "running"
    /\ \E s \in {"done", "erred"} : SetState(a, k, s)
    /\ UNCHANGED <<tools, specs, last, held, at, calls>>

\* The registry is not read again: whether the name is still registered makes
\* no difference to a call in progress.
Return_AnyJob(a) ==
    /\ at[a] = "running"
    /\ \E k \in DOMAIN jobs[a] : jobs[a][k].state = "done"
    /\ End(a, "ok")
    /\ UNCHANGED <<tools, specs, last, held, calls, jobs>>
Return(a) ==
    /\ at[a] = "running"
    /\ Current(a).state = "done"
    /\ End(a, "ok")
    /\ UNCHANGED <<tools, specs, last, held, calls, jobs>>

\* An exception of the tool; a TimeoutError of its own is taken for the
\* registry's.
ToolFails(a) ==
    /\ at[a] = "running"
    /\ Current(a).state = "erred"
    /\ \E outcome \in {"failed", "timeout"} : End(a, outcome)
    /\ UNCHANGED <<tools, specs, last, held, calls, jobs>>

\* What both ways to give a call up do to its job: only one that still waits
\* for a worker is withdrawn.
GiveUp(a) ==
    \/ /\ Current(a).state = "queued"
       /\ SetState(a, Len(jobs[a]), "withdrawn")
    \/ /\ Current(a).state # "queued"
       /\ UNCHANGED jobs

ToolTimesOut_Joins(a) ==
    /\ at[a] = "running"
    /\ Current(a).state # "running"
    /\ GiveUp(a)
    /\ End(a, "timeout")
    /\ UNCHANGED <<tools, specs, last, held, calls>>
ToolTimesOut(a) ==
    /\ at[a] = "running"
    /\ GiveUp(a)
    /\ End(a, "timeout")
    /\ UNCHANGED <<tools, specs, last, held, calls>>

\* The agent's run is cancelled, or its own time is up: the agent is done.
Cancelled(a) ==
    /\ at[a] = "running"
    /\ GiveUp(a)
    /\ End(a, "cancelled")
    /\ UNCHANGED <<tools, specs, last, held, calls>>

Next ==
    \/ \E n \in Names : Register(n) \/ Unregister(n)
    \/ \E a \in Agents :
        \/ BuildAgent(a)
        \/ \E n \in Names : Refuse(a, n) \/ Call(a, n) \/ CallAtOnce(a, n)
        \/ Return(a) \/ ToolFails(a) \/ ToolTimesOut(a) \/ Cancelled(a)
        \/ \E k \in DOMAIN jobs[a] : Work(a, k) \/ Finish(a, k)

\* wait_for has a timer.  Nothing is said of the threads.
Fairness == \A a \in Agents : WF_vars(ToolTimesOut(a))

Spec == Init /\ [][Next]_vars /\ Fairness

-----------------------------------------------------------------------------
(* Properties.                                                             *)

\* The two dictionaries hold the same registrations.
TypeOK ==
    /\ tools \in [Names -> 0..last]
    /\ specs = tools
    /\ last \in 0..MaxRegistrations
    /\ held \in [Agents -> SUBSET Names]
    /\ at \in [Agents -> {"unbuilt", "idle", "running"} \union Outcomes]
    /\ calls \in [Agents -> 0..MaxCalls]
    /\ \A a \in Agents :
        /\ Len(jobs[a]) <= calls[a]
        /\ \A k \in DOMAIN jobs[a] :
            jobs[a][k] \in [name : Names, tool : 0..last, spec : 0..last, state : JobStates]

\* Whatever an agent started was permitted to it, and was checked and timed
\* under the spec the tool was registered with, however names were given up
\* and taken again since the agent was built.
StartedAsRegistered ==
    \A a \in Agents : \A k \in DOMAIN jobs[a] :
        LET j == jobs[a][k] IN
        /\ j.name \in Permitted[a]
        /\ j.tool # 0
        /\ j.spec = j.tool

\* The verdict of a call is about the job of that call, not about one an
\* earlier call gave up; and what waits for a worker is still wanted, so no
\* job begins after its call was reported as over.
VerdictIsOfJob ==
    \A a \in Agents :
        /\ at[a] = "ok" => jobs[a] # <<>> /\ Current(a).state = "done"
        /\ at[a] = "failed" => jobs[a] # <<>> /\ Current(a).state = "erred"
        /\ \A k \in DOMAIN jobs[a] :
            jobs[a][k].state = "queued" => at[a] = "running" /\ k = Len(jobs[a])

\* Every call ends, even if its tool never does and the pool is full.
CallsEnd == \A a \in Agents : (at[a] = "running") ~> (at[a] # "running")

=============================================================================
