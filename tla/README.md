# A verification model of PROJECT OMEGA

OMEGA is an asyncio runtime for LLM agents. This directory holds TLA+ models of
its core, the TLC configurations that check them on small instances, and proofs
that TLAPS checks for every value of the constants. Paths below are relative to
`src/src/omega/` unless they begin with `src/`.

## 1. Inventory

| Component | State | Operations | Interacts with | Model |
|---|---|---|---|---|
| Agent run: `orchestrator/orchestrator.py`, `agents/agent_factory.py` | `AgentRun`, `TokenBudget`, locals of `_run_loop` | `run`, `_run_loop`, `_emit`; `perceive`, `plan`, `execute`, `reflect`, `remember` | awaits model, tools, memory, event handler; timer of `wait_for`; cancelled from outside | `AgentRun` |
| Run service: `application/run_service.py`, `infrastructure/`, `domain/` | the repository, `_tasks`, one task per run | `submit`, `get`, `_execute`, `_save`, done callback | awaits the runner (an agent run) and an optional event sink; polled by the API | `RunService`, `RunLifecycle`, `AgentRunner` |
| LLM gateway: `llm_models/gateway.py`, `providers.py` | one attempt counter per call, the shared thread pool | `complete`, `select`, `HTTPJSONClient.post` | called by `plan` and `reflect` | `LLMGateway` |
| Tool registry: `tools/registry.py`, `tools/runtime.py` | `_tools`, `_specs`, handles in agents, the shared thread pool | `register`, `unregister`, `execute`, `build_agent_tools` | called by `execute` of an agent | `ToolRegistry` |
| State graph: `orchestrator/state_graph.py` | nodes, edges, `GraphState` | `add_node`, `add_edge`, `run` | awaits node handlers and a human approval | `StateGraph` |
| Short-term memory: `memory/multi_tier.py` | `_items` | `add`, `context` | called by `MultiTierMemory.remember` | `ShortTermMemory` |
| Agent graph: `Orchestrator.register`, `run_graph` | `_nodes`, `visited`, `results` | `register`, `run_graph` | awaits one agent run per hop | `AgentGraph` |
| Memory tiers: `MultiTierMemory`, `memory/store.py` | window, `_index`, `_short_term` | `remember`, `recall`, `recent`, `clear_short_term` | called by agents; awaits the store | `MemoryTiers` |
| Qdrant store: `memory/qdrant_store.py` | none; the collection is the server's | `ensure_collection`, `upsert`, `search` | awaits a server | `QdrantVectorStore` |
| RabbitMQ broker: `queue/broker.py` | `_connection` | `publish`, `close` | awaits a server | `RabbitMQBroker` |
| Docker sandbox: `tools/docker_sandbox.py` | a docker client, a temporary directory | `run_python` | the client, which asks a daemon for a container; the timer of `wait_for` | `DockerSandbox` |
| HTTP API: `api/app.py` | the composition of a service | two handlers | calls the run service | an instance of `RunService` |
| Token ledger, telemetry, Redis broker, tools of the operating system, Gemini, configuration | little or none | | | not modelled (section 7) |

What is hard in this code, and what makes each part correct:

* **Agent run.** One coroutine with six kinds of await, an outer timer and an
  outer cancellation. A cancellation, the deadline and the completion of the
  awaited operation may all come in one round of the event loop; an event
  handler may fail, and fail again on the news of its failure; the token budget
  is checked at two places only. Correct means: the verdict is earned
  (completed only when a reflection said done, exhausted only when something
  was exhausted), cancellation and deadline are never papered over, the trace
  and what others heard agree, and the run ends.
* **Run service.** A fire-and-forget task whose only memory is the repository.
  Cancellations come before its first step, in the runner, and in each of four
  sink calls, some inside the `try` and some not. Correct means: clients see
  queued, running, settled and nothing else; a settled record stays; every
  submission ends; cancellation propagates.
* **Gateway and tools.** The work is done in threads that cannot be
  interrupted. Timeouts abandon it, retries overlap it, and the pool is shared.
  Correct means: a verdict is about its own attempt, no work is queued for
  nobody, and every call ends although a thread may not.
* **State graph.** Walks share a budget, and a human decides in the middle.
  Correct means: an approval is for one visit of one node, and cycles end.
* **Short-term memory.** A loop that must shrink a window by summarising it.
* **Agent graph.** Nodes are registered while agents run, so the graph a walk
  sees at its next hop is not the one it saw at the last. Correct means: the
  results are a route of the graph, no agent runs twice, every hop has a budget
  and a deadline of its own, and the walk ends.
* **Memory tiers.** One text goes into a window, then into a store, which has
  two structures itself; an external store may fail between the two, or write
  after its caller has gone. Correct means: the tiers and the structures hold
  the same texts, and nothing better is missed by `recall`.
* **Adapters.** Check-then-create at a server (Qdrant), check-then-connect
  (RabbitMQ), and a timer against the exit of a docker client, its container
  and a cancellation (sandbox). Correct means: what can go wrong goes wrong in
  a first use, in a race, or where a call is given up, and nowhere else.

`PROJECT.json` lists all hazards with the lines where they bite.

## 2. Modules

| Module | What it is |
|---|---|
| `AgentRun` | one run: a control state per await, one action per way from one await to the next |
| `AgentGraph` | a walk over a graph of agents; extends `AgentRun`, and each hop is a whole run of it |
| `AgentRunner` | the runner of the service, `OMEGAAgentRunner.run`, over `AgentRun`: an agent run as `RunService` sees it |
| `RunLifecycle` | abstract: what a client that submits and polls is promised |
| `RunService` | the tasks of the service, its repository and its sink |
| `LLMGateway` | routes, calls, attempts, and the threads they leave behind |
| `ToolRegistry` | registrations, handles, calls, and the threads they leave behind |
| `StateGraph` | walks over a graph, under a shared budget and with approvals |
| `ShortTermMemory` | the compression loop over lengths of texts |
| `MemoryTiers` | `remember` and `recall` over the window and a store; extends `ShortTermMemory` |
| `QdrantVectorStore`, `RabbitMQBroker`, `DockerSandbox` | the three adapters, each at the grain of the requests it sends |
| `Ranking` | sorting by rank, for the sorts of the gateway and of the in-memory store |
| `AgentProofs`, `RunServiceProofs`, `LLMGatewayProofs`, `ToolRegistryProofs`, `StateGraphProofs`, `MemoryTiersProofs`, `AdapterProofs`, `RankingProofs` | inductive invariants and theorems, section 5 |
| `MC*` | constants for TLC; `MCAdapters` also puts the three adapters into one instance, and `MCMemoryTiers` lets a text that is too long for the window be added first only |

**How code becomes actions.** Coroutines run until they await something that
suspends, so an action is the whole stretch from one await to the next, with
every assignment in it. `ReflectReturns` of `AgentRun`, for instance, charges
the reflection, appends the trace entry, and either suspends in the event
handler or, without one, goes on to the result, to the next iteration or to the
end. Awaits that never suspend are no control states: the repository's lock and
the locks of the memories are never held across an await, so
`await self._repository.save(...)` is part of the action before it. A wait that
can raise has an action for returning and one for each kind of failure that the
callers tell apart. From the end of one hop to the head of the next `run_graph`
does not suspend either: `LoopBusy` of `AgentGraph` keeps every other
coroutine, and so `Register`, out of that stretch.

**Correspondence of state.** Variables bear the names of the fields they stand
for: in `AgentRun` `status`, `iteration`, `tokens_used`, `result`, `error`,
`trace` are the fields of the Python record, `used` is `TokenBudget.used`,
`action` the local, `pc` the await. In `RunService`, `repo` is the repository
(a state per run id), `tasks` is `_tasks`, `at` the await of each task. `tools`
and `specs` of `ToolRegistry`, `nodes`, `edges`, `steps` and `current` of
`StateGraph`, and `items` of `ShortTermMemory` are the fields of those classes;
`nodes` of `AgentGraph` is `_nodes`, its `current`, `visited` and `results` the
locals of `run_graph`; `index` and `recent` of `MemoryTiers` are the vector
index and `_short_term` of `InMemoryMemoryStore`; `connection` of
`RabbitMQBroker` is `_connection`. History variables, which no guard of the code
reads: `produced` (which also tells whether the runner was called),
`interrupted` and `heard` in `RunService`, `log` in
`StateGraph`, `accepted` in `AgentRun`, `texts` and `cleared` in
`MemoryTiers`, `found` in `QdrantVectorStore`, `races` in `RabbitMQBroker`.

**Data.** A text is its token estimate (`AgentRun`) or its length
(`ShortTermMemory`), a result the iteration it came from, an exception its kind
as far as an `except` clause tells it apart, arguments accepted or refused. A
vector is a score of its text against the one query (`MemoryTiers`), a record
or a connection the number of its making, a route of the gateway the fields
that `select` sorts and filters by. A stable sort (`sorted`, `list.sort`) is
`InOrder` of `Ranking`, by an order in which the given order decides between
equals; a sum of lengths is a recursive function. Both forms say what the code
computes, and the prover can reason about them.

**Cancellation and timeouts.** As in `asyncio` from Python 3.12 on, the version
the repository's `deployments/docker/Dockerfile` ships: `cancel()` and a timer
make the next resumption of the task raise, even when the awaited operation has
finished in the same round, and `wait_for` turns the exception into
`TimeoutError` only when nobody else cancelled. Python 3.11, which
`pyproject.toml` admits too, has a `wait_for` that prefers a result which is
already there; the models do not cover it.

**Environment.** Models, tools, memories, handlers and sinks may return, fail,
or never answer. A memory store may apply a write after the call that asked for
it was interrupted (`MemoryStored`, `Write`), a server may have done what it
was asked although the answer is lost (`Lose`), and a sink may take an event
although the call then fails (`SinkHears`). They do not swallow a
`CancelledError`.

The sandbox call has a hold on one process, the `docker run` client. The
container, which mounts the directory and runs the code, is the daemon's: it is
a variable of its own in `DockerSandbox`, and its actions are external. SIGKILL
ends the client and cannot be passed on; the daemon starts what it was asked
for, and lets it run, although the client is gone. Of docker it is assumed that
an attached client ends by itself only after its container, or without one.

**Mutants.** A definition `Op_Variant` just before `Op` is `Op` with a bug that
the code could plausibly have. No specification uses it. For each property of a
passing run one such variant, put in the place of `Op`, makes TLC refute it.

## 3. Runs

| Run | Instance | Distinct states | Shows |
|---|---|---|---|
| `agent_run` | 3 iterations, 11 tokens, texts of 1 or 2, memory and handler | 10658 | budget, verdict, trace and observers agree, the run ends, and it is the runner that `RunService` assumes |
| `agent_graph` | 3 nodes, 4 lists of targets, 3 hops; runs of 2 iterations and 4 tokens, neither memory nor handler | 200345 | routes, separate budgets, the walk ends |
| `run_service` | 3 runs, no sink, no cancellation | 729 | what `api/app.py` ships implements `RunLifecycle`, liveness included |
| `run_service_cancel` | 2 runs, cancellations | 225 | cancellation propagates; the lifecycle's safety; every submission ends |
| `run_service_sink` | 2 runs, a failing or hanging sink, cancellations | 25281 | what remains true of the record and of the events |
| `run_service_hidden` | the same | violation | a failing sink hides a cancellation (section 6) |
| `memory_tiers` | 4 items, 13500 characters, texts of 700, 800 and 4600, and a first one of 13600; 6 calls in memory, 3 to an external store; recent list of 2 | 57576 | window, tiers, `recall`; every round shrinks the window, and `add` returns |
| `short_term_default` | the defaults, texts of 2 and 23999 | violation | `add` loops for ever (section 6) |
| `llm_gateway` | 3 callers with different models, 4 routes of which 1 disabled, 2 retries (the default), 1 worker | 367360 | routes, verdicts, queue, cancellation, termination |
| `tool_registry` | 2 agents, 2 tools, 2 calls each, 2 registrations, 1 worker | 322503 | authorisation, verdicts, termination |
| `state_graph` | 2 walks, 2 nodes of which 1 sensitive, 4 steps, 2 edges per node | 54319 | budget, approvals, route, termination |
| `adapters` | 2 upserts and 1 search; 3 publishes and 2 closes; 1 sandbox call | 19701 | what is lost, left open or left running, and why |

Deadlock is not checked in the passing runs: each system may come to rest, when
every run, call or walk is over.

**Bounds and why they suffice.** `agent_run`: three iterations have a first, a
middle and a last; eleven tokens and texts of two let the budget run out before
every iteration, after every planning, or not at all, with the sharpest
overrun (the bound of `SpendBounded` is reached). `agent_graph`: with three
nodes there are leaves, chains, branches, a self-loop, a cycle of two, missing
targets and routes longer than the hops allow; hops are small runs, because
`agent_run` explores a single one. `run_service`: runs share nothing but
`_tasks`, so two interact as many do. `memory_tiers`: texts below and above the
cut-off of 4000, one that is not similar to the query, limits of which now one
and now the other is exceeded, and a window that is compressed again after it
was compressed. Rounds of the loop find one entry (a first text of 13600, too
long alone), three (of 4600 each, where the older half is one entry), four and
five. A text that is too long is added first only: behind another entry `add`
never returns (section 6). three calls to an external store write in every order, two more
than the recent list fill and spill it. `llm_gateway`: one worker for three
callers makes one caller's abandoned request block another, three attempts have
a first, a middle and a last, and the wanted models have one route, several or
none. `tool_registry`: two registrations make both tools available, or let a
name be taken up again; two calls put a call next to the abandoned job of the
one before. `state_graph`: two nodes with self-loops and a cycle of two, four
steps for two walks: one walk can visit both nodes twice and starve the other.
`adapters`: two writes race for the collection while a search looks on; three
publishes can lose two connections, and two closes come before, between and
after them; sandbox calls share nothing, so one is enough, with a container
that is asked for, starts and ends before, between and after the steps of the
call.

## 4. Properties

| Module | Properties |
|---|---|
| `AgentRun` | `SpendBounded`, `CompletedMeansDone`, `ExhaustionIsReal`, `TraceShape`, `FailureIsTraced`, `DeadlineEnforced`, `ObserversFollowTrace`, `RunEnds` |
| `AgentRunner` | `ActsAsRunner` |
| `AgentGraph` | `RouteIsFollowed`, `HopsAreSeparate`, `WalkEnds` |
| `RunService` | `ReturnedMeansRecorded`, `CompletedIsEarned`, `StrandedHasCause`, `SinkFollowsRun`, `ReplacedOnlyWhileAnnounced`, `CancellationPropagates`, `EverySubmissionEnds`; it implements `RunLifecycle` |
| `MemoryTiers`, `ShortTermMemory` | `WindowKept`, `StoresAgree`, `RecallIsBest`, `RoundsShrink`, `AddReturns` |
| `LLMGateway` | `VerdictIsOfLastAttempt`, `RouteIsBest`, `QueuedIsAwaited`, `CallsEnd` |
| `ToolRegistry` | `StartedAsRegistered`, `VerdictIsOfJob`, `CallsEnd` |
| `StateGraph` | `StepsAreShared`, `ApprovedEachVisit`, `FollowsFirstEdges`, `WalksEnd` |
| adapters | `OnlyFirstUsesConflict`, `OrphansWereRaced`, `LeftRunningHasCause` |

Each is stated in words where it is defined. The type invariants of `AgentRun`,
`RunService`, `LLMGateway`, `ToolRegistry`, `StateGraph` and the memories are
proved (`TypeCorrect`) rather than run; the adapters have theirs as the first
part of their inductive invariants.

Some are theorems only: `CancellationWins` of `AgentRun`, which `ActsAsRunner`
implies; `CancelStopsRetries` of `LLMGateway`; `TaskHeld` of `RunService`; and
`SettledIsFinal` of `RunLifecycle`, for the service without a sink.

`ActsAsRunner` joins the two largest models. `RunService` has a runner that
returns a completed or a failed snapshot, unless the task is cancelled, in which
case it raises the `CancelledError`; `AgentRunner` maps a run of `AgentRun` to
the variables of `RunService` for one run without a sink, by what
`infrastructure/runtime.py` does, and the property says that every step of the
agent run is then a step of `RunService` or none. With `RunEnds`, what
`RunService` assumes of its runner is what `AgentRun` does.

Some say less than one might expect, because the code does less:

* The token budget is soft: it may be overrun by the result and the reflection
  of one step (`SpendBounded` gives the exact bound).
* A memory that raises `TimeoutError` in `perceive` makes the run report a
  timeout that was not its own; `DeadlineEnforced` speaks of later iterations.
* A handler that fails on the news of an error replaces that error in
  `run.error`; the trace keeps the first (`FailureIsTraced`).
* With a sink, a settled record is not final: a failure or a cancellation
  during the final announcement replaces it (`ReplacedOnlyWhileAnnounced`
  bounds when and by what). Without a sink it is final.
* A task cancelled before its first step leaves its run queued, and a sink that
  fails, or is interrupted, while told RUNNING leaves it running. Nothing else
  does (`StrandedHasCause`): the runner of a stranded run was never called, and
  one that was called has its run settled, also if it is cancelled or raises. So
  a settled state for every submission is promised only without cancellation.
* A graph walk that raises (an unknown or missing node, a cycle, too many hops,
  a cancellation) loses the results of the hops behind it: nobody gets them.
* A text may be in the window and not in an external store, or in another order
  there, when the store fails or is slow; `StoresAgree` promises the order only
  of the in-memory store.
* Two first uses of a Qdrant store may fail one another, and connects that race
  leave connections that nobody closes: `OnlyFirstUsesConflict` and
  `OrphansWereRaced` say that nothing else does.
* A sandbox call that is cancelled, or whose pipe fails, leaves its docker
  client and its container running; one that times out leaves the container. The
  directory that the container mounts is deleted all the same.
  `LeftRunningHasCause` says that nothing else leaves anything.
* A round of the compression loop need not shrink the window: `RoundsShrink` says
  of the state, not of the steps, that the next round leaves fewer entries or is
  the last, so that a round which changes nothing violates it. It holds of
  `memory_tiers`, and under a condition on the limits in general (section 5).

**Fairness.** `AgentRun`: the event loop starts what is ready, timers fire, and
a raised exception is delivered; nothing is assumed of the model, the tools, the
memory or the handler, so `RunEnds` rests on the timer alone. `AgentGraph`: the
same of each hop, and that `run_graph` goes on when a hop has ended; nothing is
assumed of `Register`. `RunService`: the event loop runs ready tasks and
callbacks, and the runner ends, which is what `RunEnds` shows of it; the sink
gets none, having no timeout. `LLMGateway` and `ToolRegistry`: the timers of
`wait_for` and `sleep`; threads get none. `StateGraph`: node handlers return;
`stop()` need never say so and a human need never answer. `ShortTermMemory` and
`MemoryTiers`: plain code that has begun keeps running; an external store need
never answer. The adapters have safety properties only and no fairness.

## 5. Proofs

All theorems hold for every value of the constants that the assumptions named
in the modules admit (positive limits, Boolean switches, `Final \in Names`,
scores and priorities that are integers). Every invariant and every action
property of the passing runs is a theorem. Three state a condition:
`ImplementsSafeLifecycle` that there is no sink, `CancellationPropagates` that
the sink does not fail, `RoundsShrink` that the limits leave room; the two
violations of section 6 show what happens without the last two conditions.

**`AgentProofs`, a run.** None of the properties is inductive as it stands.

* `IInv` is `TypeOK` with `PhaseInv` (what the control state says of status and
  iteration), `BudgetInv` (how much may be spent at each await: one text more
  after each charge since the last check) and `VerdictInv`. From it follow
  `TypeCorrect`, `SpendIsBounded`, `CancellationIsReported` and
  `DeadlineIsEnforced`.
* `Hist` is what links the trace to the loop: `HistoryInv` (how many steps have
  been traced at each await and what the last entry is), `ResultInv`,
  `HandlerInv` (how far the handler is behind) and `EndInv` (what must have been
  true for each verdict). Given `IInv`, from it follow `CompletionIsEarned`,
  `TraceIsShaped`, `FailuresAreTraced`, `ExhaustionIsNeverFalse` and
  `ObserversFollow`. The lemmas `AppendKeeps`, `IterationBegins`,
  `StepAnnounced`, `NoHistory` and `NothingHeard` carry what several actions
  have in common.
* `RunsAreRunners` is the refinement of `AgentRunner`. A step that ends the run
  maps to `RunnerReturns` or to `Interrupt` of the service, and `IInv` after the
  step (`CancellationWins`) says to which; of the actions themselves only
  `StepsOfARun` is needed.

**`AgentProofs`, a walk.** The invariant of a single run is used again: a hop is a
step of `AgentRun`, and `FreshRun` re-establishes `Init` of it. `ReportInv` adds
that the tokens reported are tokens spent. `RouteInv` says that the results are
a route, `HopInv` that the current node is the one the last result leads to and
was not visited, `OverInv` what each end of a walk knows. Registering a node
keeps them, since it changes no node that is there. From them follow
`RouteIsKept` and `HopsStaySeparate`.

**`RunServiceProofs`.** One invariant per run, `RunInv`, ties the control state
of a task to its record, to what the runner produced and to what the sink has
heard. From it follow `TypeCorrect`, `CompletionIsEarned`,
`ReturningIsRecorded`, `StrandingIsExplained` (whoever is at or past the runner
has called it, and ends settled) and, with the same invariant for
an action property, `ReplacementIsAnnounced`. `SinkHearsTheRun` needs more:
`CountInv` says how many events the sink may have heard at each await of a task,
`EventInv` which. `CancellationLeavesTheTask` holds under the condition that
the sink does not fail; `run_service_hidden` shows that it is needed.
`ServiceIsLifecycle` shows, for any number of runs and with cancellations, that
without a sink every step of the service is a step of `RunLifecycle` or leaves
the repository alone: the invariant is needed to know that a record is queued
when `Begin` saves RUNNING and running when a verdict is saved. `VerdictsAreFinal`
is what a client gains from it.

**`LLMGatewayProofs`.** `AttemptInv` says how many attempts a call has made,
wherever it is; with it the properties themselves are inductive. The step that
matters is `GiveUpWithdraws`: whoever stops waiting, by timer or cancellation,
takes its request out of the queue, or leaves it to a thread that has begun.
`VerdictsAreCurrent`, `QueueIsAwaited`, `CancellationStops`. For
`BestRouteIsKept` the order of the routes is shown to be a strict total order,
so the first candidate is the best (`BestIsFirst`), and `SelectedInv` says that
a call that made an attempt is on it, whatever retry it is in.

**`ToolRegistryProofs`.** `AccessInv` says that the two dictionaries of the
registry agree and that agents hold what they are permitted, `AgentInv` ties
the last job of an agent to its call and lets the earlier ones be abandoned.
`StartsAreRegistered`, `VerdictsAreOfJobs`. `CountInv` adds that a call starts
one job at most, of a registration there has been, which `TypeCorrect` needs.

**`StateGraphProofs`.** The invariant is about the log of each walk: what ran
was approved right before, as asked right before that (`Approved`), it follows
the first edge of what ran before it (`Follows`), and a node at the gate was
asked for last and is the one the walk leads to (`MayRun`). Adding an edge at
the end of a list changes no first edge, except of a node without edges, where
a walk that passed it has ended. `VisitsAreApproved`, `FirstEdgesAreFollowed`.

`BudgetIsShared` is about all the logs at once. Summing over the walks is
avoided by counting one set: the charges are the pairs of a walk and an entry of
its log that ran a handler, and one more for a walk that waits at the gate,
whose visit is paid for and not yet run. `BudgetInv` says that there are no more
charges than steps. A new visit adds one charge and one step (`OneCharged`), an
approval turns the charge of the gate into one of the log (`ChargeMoved`), and
every other step adds none.

**`MemoryTiersProofs`.** `CallsInv` says which calls are behind the one that
holds the window, `InMemoryInv` that the index numbers the calls and the recent
list is its end; the lemma `TrimKeepsEnd` is about the trim of the recent list.
`TiersStayTogether`.

* `RecallFindsBest`: records are listed by `Before`, a strict total order
  (`ScoresOrder`), so the cut keeps the best (`CutIsBest`) and dropping what is
  not similar loses none of them.
* `WindowIsKept` rests on `WindowInv`: the entries from the second on are the
  last texts word for word, and an only entry is the first text or stands for
  one that is too long. A round keeps it because it takes away the older half
  and puts one entry in its place (`RoundHalves`). No condition on the limits is
  needed: it says what is true whenever `add` has returned.
* `LoopIsBounded`: if `max_items >= 3` and every text fits twice into
  `max_chars` beside a compressed entry of 4021 characters, then from every
  window the loop can be at, the next round leaves fewer entries or a window
  that fits, and no round is idle. `short_term_default` shows why a
  condition is needed. That `add` then returns follows from a measure that
  decreases, and is left to `AddReturns`.
* `CharsCount` gives the value of the sum of lengths for up to three entries and
  its type for all. What a recursive function computes is proved here without an
  induction theorem: were it wrong somewhere, it would be wrong at a least place
  (`Least`), and it is not (`SumsExist`, `SumsAreNumbers`).

**`RankingProofs`.** The rank of an element is the number of elements before it.
Ranks grow along the order (`RanksGrow`), so no two are the same and every
number below the size of the set is one (`RanksAreOneToOne`): `SortsInOrder`,
and for what a cut keeps `CutIsBest`.

**`AdapterProofs`.** `QdrantInv`; `SandboxInv`, which adds that a client which
exited leaves no container, and where the call may be with a client that is
gone; and for the broker a counting
argument, `BrokerInv`: orphans and connecting publishes together are no more
than the races, and one more while the broker has no open connection.
`ConflictsAreOfFirstUses`, `WhatIsLeftHasCause`, `OrphansComeFromRaces`.

**Only model-checked.** Everything under fairness, which the prover cannot
treat: `RunEnds`, `WalkEnds`, `EverySubmissionEnds`, the liveness of
`ImplementsLifecycle`, `AddReturns`, `CallsEnd` and `WalksEnd`; and the two
violations of section 6, which are behaviours and need no proof.

## 6. Findings

* `run_service_hidden`: `_execute` awaits the sink inside
  `except asyncio.CancelledError` before it raises again
  (`application/run_service.py:47`). If the sink fails there, the task ends with
  the sink's exception, not cancelled. `src/README.md:216` promises that "a
  cancelled run propagates cancellation rather than hiding it". The API ships
  no sink, so it needs a composition of one's own.
* `short_term_default`: with the default limits, `add("ok")` and then `add` of a
  text of 23999 characters never return (`memory/multi_tier.py:27`). A round
  replaces the older half by a summary of up to 4021 characters, marker
  included, which may be no shorter than what it replaces; with the newest text
  it exceeds the limit for ever, and as the loop never suspends, the event loop
  stands still. The class promises "deterministic compression when capacity is
  exceeded" (`memory/multi_tier.py:19`).
  It cannot happen where `max_items` is at least 3 and no text is longer than
  `(max_chars - 4021) / 2`, which is 9989 by default (`LoopIsBounded`). The first
  condition is needed too: with `max_items=2`, which the constructor admits
  (`memory/multi_tier.py:21`), a round replaces the oldest of three entries by a
  summary, which leaves three whatever the texts, and the third `add` spins.

`LeftRunningHasCause` holds, and says of the sandbox's timeout less than
`docs/TECHNICAL_AUDIT.md:62` ("execution timeout") suggests: what
`process.kill()` ends is the `docker run` client (`tools/docker_sandbox.py:27`),
and a container may run on after "sandbox execution timed out". This rests on
the model of docker, which is external (section 2), so it is not a finding.

## 7. Not modelled, and why

* **Token ledger** (`llm_models/token_management.py`): a counter with a hard
  limit and functions that never suspend; nothing under `src/src/` calls it. The
  budget that the runtime uses, `TokenBudget`, is part of `AgentRun`.
* **Telemetry** (`observability/telemetry.py`): a list of spans that no other
  component reads. A cancelled block never ends its span; this is listed as a
  hazard without a property.
* **Filesystem, database, HTTP and git tools**: stateless calls of the operating
  system, which `ToolRegistry` has as jobs that take effect or fail.
* **Redis broker**: hands both its calls to a client and keeps no state.
* **Gemini, configuration, interfaces**: construction and protocols.
* **`WorkingMemory`**: a dictionary with no operation that can fail.
* **HTTP API**: everything but its composition of the run service.

Within modelled components: the argument schemas and the arithmetic evaluator of
the tools; payloads and the shape of responses of the gateway; embeddings and
the distances of vectors; the channel that each publish opens and nobody closes
while the connection lives (`queue/broker.py:44`); the contents of `state.data`
in the state graph, and hence that an approval is given for data that may change
before it is used; a node handler that writes to `state.steps` or
`state.current` itself; a repository that suspends, since the one in
`infrastructure/` never does.

## 8. Plan

Done, in this order: `AgentRun` with its proofs, `RunLifecycle` and
`RunService` with the refinement, `ShortTermMemory`, `LLMGateway`,
`ToolRegistry`, `StateGraph`; then `AgentGraph` over `AgentRun`, `MemoryTiers`
over `ShortTermMemory`, the routes of the gateway, the three adapters, and the
proofs about all of these; then sorting, the shared budget, the window and its
loop as theorems, and `AgentRunner`, which joins runs to their service.

Next:

1. Abstract specifications of the gateway and of the tool registry (a call is
   made, then has one verdict), implemented by the two models and proved so.
2. A data version in `StateGraph`, for approvals of data that changes.
3. `TokenLedger`, as soon as something calls it.
