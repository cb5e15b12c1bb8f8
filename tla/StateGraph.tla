----------------------------- MODULE StateGraph -----------------------------
(***************************************************************************)
(* StateGraph (orchestrator/state_graph.py): a workflow of handlers that   *)
(* walks a graph under a step budget and asks a human before a sensitive   *)
(* node.                                                                   *)
(*                                                                         *)
(* Several calls of run() may walk the same graph with the same GraphState *)
(* one after the other or at once; each is a walker.  Nodes and edges may  *)
(* be added at any time.  What handlers write to state.data is left out:   *)
(* the engine never reads it, apart from the caller's own stop().          *)
(*                                                                         *)
(* A definition Op_Variant, right before Op, is a mutated form of Op: a    *)
(* bug that could be made in that code, which a property must notice.      *)
(***************************************************************************)
EXTENDS Naturals, Sequences, FiniteSets

CONSTANTS
    Walkers,
    Names,        \* the names nodes can have
    Sensitive,    \* those whose GraphNode is sensitive
    MaxSteps,     \* max_steps
    MaxEdges      \* bound: the edges added out of one node

ASSUME GraphAssumption ==
    /\ Sensitive \subseteq Names
    /\ MaxSteps \in Nat \ {0}
    /\ MaxEdges \in Nat

VARIABLES
    approval, \* _approval: an approval handler was given
    nodes,    \* _nodes
    edges,    \* _edges
    steps,    \* state.steps
    current,  \* state.current, "none" for None
    at,       \* where each walker is suspended, or how its walk ended
    node,     \* the walker's own variable current
    log       \* history: the walker's questions, answers and handler calls

vars == <<approval, nodes, edges, steps, current, at, node, log>>

-----------------------------------------------------------------------------
Over == {"finished", "denied", "exceeded", "unknown", "raised"}

Event(what, n) == [what |-> what, node |-> n]

Note(w, e) == log' = [log EXCEPT ![w] = Append(@, e)]

\* The walker loses its own variables with the end of run().
Stop(w, how) ==
    /\ at' = [at EXCEPT ![w] = how]
    /\ node' = [node EXCEPT ![w] = "none"]

\* The walker is suspended in the approval handler, or in the node's.
Ask(w, n) ==
    /\ at' = [at EXCEPT ![w] = "gate"]
    /\ node' = [node EXCEPT ![w] = n]
    /\ Note(w, Event("asked", n))

RunHandler(w, n) ==
    /\ at' = [at EXCEPT ![w] = "handler"]
    /\ node' = [node EXCEPT ![w] = n]
    /\ Note(w, Event("ran", n))

AskOrRun_AskedOnce(w, n) ==
    IF n \in Sensitive /\ \A i \in DOMAIN log[w] : log[w][i].node # n
    THEN Ask(w, n)
    ELSE RunHandler(w, n)
AskOrRun(w, n) ==
    \/ /\ n \in Sensitive
       /\ ~approval
       /\ Stop(w, "denied")
       /\ UNCHANGED log
    \/ /\ n \in Sensitive
       /\ approval
       /\ Ask(w, n)
    \/ /\ n \notin Sensitive
       /\ RunHandler(w, n)

\* One pass of the loop, up to its first await: the budget is checked and
\* spent, and the question put, without a suspension.
Enter_Waits(w, n) ==
    /\ steps < MaxSteps
    /\ steps' = steps + 1
    /\ current' = n
    /\ AskOrRun(w, n)
Enter(w, n) ==
    \/ /\ steps >= MaxSteps
       /\ Stop(w, "exceeded")
       /\ UNCHANGED <<steps, current, log>>
    \/ /\ steps < MaxSteps
       /\ steps' = steps + 1
       /\ current' = n
       /\ AskOrRun(w, n)

-----------------------------------------------------------------------------
Init ==
    /\ approval \in BOOLEAN
    /\ nodes = {}
    /\ edges = [n \in Names |-> <<>>]
    /\ steps = 0
    /\ current = "none"
    /\ at = [w \in Walkers |-> "idle"]
    /\ node = [w \in Walkers |-> "none"]
    /\ log = [w \in Walkers |-> <<>>]

\* A name in use is refused, and nothing changes.
AddNode(n) ==
    /\ n \notin nodes
    /\ nodes' = nodes \union {n}
    /\ UNCHANGED <<approval, edges, steps, current, at, node, log>>

AddEdge_First(s, t) ==
    /\ {s, t} \subseteq nodes
    /\ Len(edges[s]) < MaxEdges
    /\ edges' = [edges EXCEPT ![s] = <<t>> \o @]
    /\ UNCHANGED <<approval, nodes, steps, current, at, node, log>>
AddEdge(s, t) ==
    /\ {s, t} \subseteq nodes
    /\ Len(edges[s]) < MaxEdges
    /\ edges' = [edges EXCEPT ![s] = Append(@, t)]
    /\ UNCHANGED <<approval, nodes, steps, current, at, node, log>>

Start_Resets(w, n) ==
    /\ at[w] = "idle"
    /\ n \in nodes
    /\ steps' = 1
    /\ current' = n
    /\ AskOrRun(w, n)
    /\ UNCHANGED <<approval, nodes, edges>>
Start(w, n) ==
    /\ at[w] = "idle"
    /\ \/ /\ n \in nodes
          /\ Enter(w, n)
       \/ /\ n \notin nodes
          /\ Stop(w, "unknown")
          /\ UNCHANGED <<steps, current, log>>
    /\ UNCHANGED <<approval, nodes, edges>>

\* The human agrees, and the handler is called in the same step.
Grant(w) ==
    /\ at[w] = "gate"
    /\ at' = [at EXCEPT ![w] = "handler"]
    /\ log' = [log EXCEPT ![w] = @ \o <<Event("granted", node[w]), Event("ran", node[w])>>]
    /\ UNCHANGED <<approval, nodes, edges, steps, current, node>>

\* The human says no.
Deny(w) ==
    /\ at[w] = "gate"
    /\ Stop(w, "denied")
    /\ UNCHANGED <<approval, nodes, edges, steps, current, log>>

\* The approval handler or the node's handler raises, or run() is cancelled
\* in one of them: there is nothing run() does about it.
Raise(w) ==
    /\ at[w] \in {"gate", "handler"}
    /\ Stop(w, "raised")
    /\ UNCHANGED <<approval, nodes, edges, steps, current, log>>

Finish(w) ==
    /\ at[w] = "handler"
    /\ Stop(w, "finished")
    /\ current' = "none"
    /\ UNCHANGED <<approval, nodes, edges, steps, log>>

\* The handler returns, and the caller's stop() ends the walk, or no edge
\* leads on.
StopSaysSo(w) == Finish(w)

NoEdgeLeft(w) ==
    /\ at[w] = "handler"
    /\ edges[node[w]] = <<>>
    /\ Finish(w)

\* The handler returns, and the walk goes on along the first edge.
Advance(w) ==
    /\ at[w] = "handler"
    /\ edges[node[w]] # <<>>
    /\ Enter(w, Head(edges[node[w]]))
    /\ UNCHANGED <<approval, nodes, edges>>

Next ==
    \/ \E n \in Names : AddNode(n)
    \/ \E s, t \in Names : AddEdge(s, t)
    \/ \E w \in Walkers :
        \/ \E n \in Names : Start(w, n)
        \/ Grant(w) \/ Deny(w) \/ Raise(w)
        \/ StopSaysSo(w) \/ NoEdgeLeft(w) \/ Advance(w)

\* Node handlers return sooner or later, but stop() may never say so and a
\* human may never answer.
Fairness == \A w \in Walkers : WF_vars(NoEdgeLeft(w) \/ Advance(w))

Spec == Init /\ [][Next]_vars /\ Fairness

-----------------------------------------------------------------------------
(* Properties.                                                             *)

TypeOK ==
    /\ approval \in BOOLEAN
    /\ nodes \subseteq Names
    /\ \A n \in Names : edges[n] # <<>> => n \in nodes
    /\ \A n \in Names : \A i \in DOMAIN edges[n] : edges[n][i] \in nodes
    /\ steps \in 0..MaxSteps
    /\ current \in nodes \union {"none"}
    /\ at \in [Walkers -> {"idle", "gate", "handler"} \union Over]
    /\ \A w \in Walkers :
        IF at[w] \in {"gate", "handler"} THEN node[w] \in nodes ELSE node[w] = "none"

Ran(w) == {i \in DOMAIN log[w] : log[w][i].what = "ran"}

\* The calls of handlers, of all the walks.
Visits == UNION {{w} \X Ran(w) : w \in Walkers}

\* However many walks share a GraphState, at once or one after the other, its
\* budget bounds the handlers that all of them run.
StepsAreShared == Cardinality(Visits) <= MaxSteps

\* Before every visit of a sensitive node the human was asked about that node
\* and agreed, in that walk and for that visit: no answer serves twice, and
\* none is carried to another node.
ApprovedEachVisit ==
    \A w \in Walkers : \A i \in Ran(w) :
        LET n == log[w][i].node IN
        n \in Sensitive =>
            /\ i > 2
            /\ log[w][i - 1] = Event("granted", n)
            /\ log[w][i - 2] = Event("asked", n)

\* A walk goes from a node to the one its first edge led to and still leads
\* to, whatever is added to the graph meanwhile.
FollowsFirstEdges ==
    \A w \in Walkers : \A i, j \in Ran(w) :
        (i < j /\ \A k \in Ran(w) : k <= i \/ j <= k)
            => /\ edges[log[w][i].node] # <<>>
               /\ Head(edges[log[w][i].node]) = log[w][j].node

\* A walk does not go on for ever, round a cycle or otherwise: it ends, or it
\* waits for a human.
WalksEnd ==
    \A w \in Walkers : (at[w] = "handler") ~> (at[w] \in Over \union {"gate"})

=============================================================================
