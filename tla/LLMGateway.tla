----------------------------- MODULE LLMGateway -----------------------------
(***************************************************************************)
(* LLMGateway.complete (llm_models/gateway.py): several callers ask for    *)
(* completions, each with retries, a timeout per attempt and a back-off,   *)
(* over the provider adapters of llm_models/providers.py.                  *)
(*                                                                         *)
(* The adapters do their HTTP request in a thread (HTTPJSONClient.post,    *)
(* asyncio.to_thread).  A thread cannot be interrupted: an attempt that    *)
(* times out or is cancelled gives up its request, but the request runs on *)
(* and keeps its worker of the pool, which all callers share.  Only a      *)
(* request that still waits for a worker is withdrawn.                     *)
(*                                                                         *)
(* A definition Op_Variant, right before Op, is a mutated form of Op: a    *)
(* bug that could be made in that code, which a property must notice.      *)
(***************************************************************************)
EXTENDS Integers, Sequences, Ranking, TLC

CONSTANTS
    Callers,     \* the calls of complete() under way, one each
    Routes,      \* the routes LLMRouter was built with, a sequence
    Wanted,      \* the model each caller asks for
    None,        \* Python's None: any model will do
    MaxRetries,  \* max_retries
    Workers      \* size of the thread pool

Models == {Routes[i].model : i \in DOMAIN Routes}

ASSUME GatewayAssumption ==
    /\ MaxRetries \in Nat
    /\ Workers \in Nat \ {0}
    /\ IsFiniteSet(Callers)
    /\ Routes \in Seq([model : Models, priority : Int, enabled : BOOLEAN])
    /\ Routes # <<>>

VARIABLES
    route,      \* the local of complete(): the index in Routes, 0 before
    at,         \* where each call is suspended, or how it ended
    attempt,    \* the attempt under way, counted from 1
    request,    \* what became of the request of each attempt
    cancelled   \* cancel() was called on the caller's task

vars == <<route, at, attempt, request, cancelled>>

-----------------------------------------------------------------------------
Attempts == 1..(MaxRetries + 1)

\* sorted() is stable: among routes of one priority the first given is first.
Preferred(i, j) ==
    \/ Routes[i].priority < Routes[j].priority
    \/ Routes[i].priority = Routes[j].priority /\ i < j

Preference == {p \in (DOMAIN Routes) \X (DOMAIN Routes) : Preferred(p[1], p[2])}

Serves(i, model) == Routes[i].enabled /\ model \in {None, Routes[i].model}

\* LLMRouter.select: the candidates in the order of the sorted routes.
Candidates(model) == InOrder({i \in DOMAIN Routes : Serves(i, model)}, Preference)

\* The route is selected once, for all attempts.
Select_LastRoute(c) == route' = [route EXCEPT ![c] =
    IF at[c] = "idle" THEN Candidates(Wanted[c])[Len(Candidates(Wanted[c]))] ELSE @]
Select(c) == route' = [route EXCEPT ![c] =
    IF at[c] = "idle" THEN Head(Candidates(Wanted[c])) ELSE @]

Over == {"returned", "failed", "cancelled"}

\* "queued": waits for a worker; "rejected": raised before a thread was asked
\* for (no API key); "withdrawn": given up before a worker took it.
RequestStates == {"none", "queued", "running", "answered", "erred",
                  "rejected", "withdrawn"}

Running == {q \in Callers \X Attempts : request[q[1]][q[2]] = "running"}

Current(c) == request[c][attempt[c]]

\* The await of c is over and its outcome is delivered to complete().
Resumes(c, p) == at[c] = p /\ ~cancelled[c]

SetRequest(c, k, s) == request' = [request EXCEPT ![c][k] = s]

\* Giving up the current attempt withdraws its request, if no worker has it.
GiveUp_LeavesQueued(c) == UNCHANGED request
GiveUp(c) ==
    \/ /\ Current(c) = "queued"
       /\ SetRequest(c, attempt[c], "withdrawn")
    \/ /\ Current(c) # "queued"
       /\ UNCHANGED request

\* except Exception: back off before the next attempt, if there is one.
Retry_AtOnce(c) ==
    at' = [at EXCEPT ![c] = IF attempt[c] < MaxRetries THEN "backoff" ELSE "failed"]
Retry(c) ==
    at' = [at EXCEPT ![c] = IF attempt[c] <= MaxRetries THEN "backoff" ELSE "failed"]

-----------------------------------------------------------------------------
Init ==
    /\ route = [c \in Callers |-> 0]
    /\ at = [c \in Callers |-> "idle"]
    /\ attempt = [c \in Callers |-> 0]
    /\ request = [c \in Callers |-> [k \in Attempts |-> "none"]]
    /\ cancelled = [c \in Callers |-> FALSE]

\* An attempt is begun: the adapter hands its request to the pool.
Begin(c) ==
    /\ \/ at[c] = "idle" /\ Candidates(Wanted[c]) # <<>>
       \/ Resumes(c, "backoff")
    /\ Select(c)
    /\ attempt' = [attempt EXCEPT ![c] = @ + 1]
    /\ SetRequest(c, attempt[c] + 1, "queued")
    /\ at' = [at EXCEPT ![c] = "waiting"]
    /\ UNCHANGED cancelled

\* The adapter refuses before it asks for a thread; nothing is suspended
\* between the two, so the attempt has failed at once.
BeginRejected(c) ==
    /\ \/ at[c] = "idle" /\ Candidates(Wanted[c]) # <<>>
       \/ Resumes(c, "backoff")
    /\ Select(c)
    /\ attempt' = [attempt EXCEPT ![c] = @ + 1]
    /\ SetRequest(c, attempt[c] + 1, "rejected")
    /\ at' = [at EXCEPT ![c] = IF attempt[c] < MaxRetries THEN "backoff" ELSE "failed"]
    /\ UNCHANGED cancelled

\* router.select raises before the first attempt: no route is enabled.
NoRoute(c) ==
    /\ at[c] = "idle"
    /\ Candidates(Wanted[c]) = <<>>
    /\ at' = [at EXCEPT ![c] = "failed"]
    /\ UNCHANGED <<route, attempt, request, cancelled>>

\* A free worker takes a request; a request is answered or fails.
Work(c, k) ==
    /\ request[c][k] = "queued"
    /\ Cardinality(Running) < Workers
    /\ SetRequest(c, k, "running")
    /\ UNCHANGED <<route, at, attempt, cancelled>>

Finish(c, k) ==
    /\ request[c][k] = "running"
    /\ \E s \in {"answered", "erred"} : SetRequest(c, k, s)
    /\ UNCHANGED <<route, at, attempt, cancelled>>

Return(c) ==
    /\ Resumes(c, "waiting")
    /\ Current(c) = "answered"
    /\ at' = [at EXCEPT ![c] = "returned"]
    /\ UNCHANGED <<route, attempt, request, cancelled>>

\* The request failed, or its answer is empty.
AttemptFails(c) ==
    /\ Resumes(c, "waiting")
    /\ Current(c) \in {"erred", "answered"}
    /\ Retry(c)
    /\ UNCHANGED <<route, attempt, request, cancelled>>

\* wait_for gives the attempt up, even one whose answer has just come.
AttemptTimesOut_Joins(c) ==
    /\ Resumes(c, "waiting")
    /\ Current(c) # "running"
    /\ GiveUp(c)
    /\ Retry(c)
    /\ UNCHANGED <<route, attempt, cancelled>>
AttemptTimesOut(c) ==
    /\ Resumes(c, "waiting")
    /\ GiveUp(c)
    /\ Retry(c)
    /\ UNCHANGED <<route, attempt, cancelled>>

Cancel(c) ==
    /\ at[c] \in {"waiting", "backoff"}
    /\ ~cancelled[c]
    /\ cancelled' = [cancelled EXCEPT ![c] = TRUE]
    /\ UNCHANGED <<route, at, attempt, request>>

Interrupt(c) ==
    /\ at[c] \in {"waiting", "backoff"}
    /\ cancelled[c]
    /\ GiveUp(c)
    /\ at' = [at EXCEPT ![c] = "cancelled"]
    /\ UNCHANGED <<route, attempt, cancelled>>

Next ==
    \E c \in Callers :
        \/ Begin(c) \/ BeginRejected(c) \/ NoRoute(c)
        \/ Return(c) \/ AttemptFails(c) \/ AttemptTimesOut(c)
        \/ Cancel(c) \/ Interrupt(c)
        \/ \E k \in Attempts : Work(c, k) \/ Finish(c, k)

\* A call in progress goes on: sleep() and wait_for have timers.  Nothing is
\* said of the threads: a server may never answer.
Fairness ==
    \A c \in Callers :
        /\ WF_vars(at[c] # "idle" /\ (Begin(c) \/ BeginRejected(c)))
        /\ WF_vars(AttemptTimesOut(c))
        /\ WF_vars(Interrupt(c))

Spec == Init /\ [][Next]_vars /\ Fairness

-----------------------------------------------------------------------------
(* Properties.                                                             *)

TypeOK ==
    /\ route \in [Callers -> DOMAIN Routes \union {0}]
    /\ at \in [Callers -> {"idle", "waiting", "backoff"} \union Over]
    /\ attempt \in [Callers -> 0..(MaxRetries + 1)]
    /\ request \in [Callers -> [Attempts -> RequestStates]]
    /\ cancelled \in [Callers -> BOOLEAN]

\* A call returns the answer to its latest request, never one to a request it
\* had given up; it fails only when no attempt is left, or before the first,
\* and sleeps only when another is to follow; and one that somebody cancelled
\* has no verdict but that, in any race with its timer, its answer and its
\* next attempt.
VerdictIsOfLastAttempt ==
    \A c \in Callers :
        /\ at[c] = "returned" => attempt[c] > 0 /\ Current(c) = "answered"
        /\ at[c] = "failed" => attempt[c] \in {0, MaxRetries + 1}
        /\ at[c] = "backoff" => attempt[c] \in 1..MaxRetries
        /\ at[c] \in Over /\ cancelled[c] => at[c] = "cancelled"

\* A call goes out on an enabled route that serves its model and is preferred
\* to every other such route, and it keeps that route through all retries;
\* it fails without an attempt only if there is none.
RouteIsBest ==
    \A c \in Callers :
        LET fit == {i \in DOMAIN Routes : Serves(i, Wanted[c])} IN
        /\ attempt[c] > 0 =>
              route[c] \in fit /\ \A i \in fit \ {route[c]} : Preferred(route[c], i)
        /\ at[c] # "idle" => (attempt[c] = 0 <=> fit = {})

\* What waits for a worker is still wanted: a call that went on or ended has
\* left no request in the queue that would be sent later.
QueuedIsAwaited ==
    \A c \in Callers, k \in Attempts :
        request[c][k] = "queued" => at[c] = "waiting" /\ attempt[c] = k

\* A call whose task was cancelled makes no further attempt, wherever it was.
CancelStopsRetries ==
    [][\A c \in Callers : cancelled[c] => attempt'[c] = attempt[c]]_vars

\* Every call ends, even if no server ever answers and the pool is full.
CallsEnd == \A c \in Callers : (at[c] = "waiting") ~> (at[c] \in Over)

=============================================================================
