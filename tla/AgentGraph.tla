----------------------------- MODULE AgentGraph -----------------------------
(***************************************************************************)
(* A graph of agents: Orchestrator.register and Orchestrator.run_graph     *)
(* (orchestrator/orchestrator.py), each hop of which is a run of AgentRun. *)
(*                                                                         *)
(* run_graph goes from the end of one run to the head of the next without  *)
(* suspending.  The steps HopEnds and Start, which model that stretch, are *)
(* taken with the event loop busy: nobody registers a node between them.   *)
(*                                                                         *)
(* A call takes the first of next_nodes for ever on: the others only have  *)
(* to exist.  One walk is modelled; walks share nothing but the nodes.     *)
(***************************************************************************)
EXTENDS AgentRun, FiniteSets

CONSTANTS
    NodeNames,  \* names of nodes
    NextLists,  \* what may be given as next_nodes
    MaxHops     \* max_hops

ASSUME GraphAssumption ==
    /\ NextLists \subseteq Seq(NodeNames)
    /\ MaxHops \in Nat \ {0}

VARIABLES
    nodes,    \* Orchestrator._nodes, from name to next_nodes
    walk,     \* "idle", "hop", or how run_graph ended
    current,  \* the local of run_graph
    visited,  \* the local of run_graph
    results   \* the local of run_graph: one AgentRun record per hop

walkVars  == <<walk, current, visited, results>>
graphVars == <<vars, nodes, walkVars>>

\* run_graph returns its results, or raises: KeyError, one of its three
\* OrchestrationErrors, or the CancelledError that a hop let pass.
Outcomes == {"returned", "unknown", "missing", "cycle", "exceeded", "cancelled"}

\* No coroutine can run while run_graph is between two awaits.
LoopBusy == walk = "hop" /\ pc \in {"ready", "ended"}

\* The constructor takes any mapping, one with self-loops too.
GraphInit ==
    /\ Init
    /\ \E known \in SUBSET NodeNames : nodes \in [known -> NextLists]
    /\ walk = "idle"
    /\ current = None
    /\ visited = {}
    /\ results = <<>>

\* A name already registered, or a self-loop, raises ValueError instead.
Register(n, next) ==
    /\ ~LoopBusy
    /\ n \notin DOMAIN nodes
    /\ ~Contains(next, n)
    /\ nodes' = [m \in DOMAIN nodes \union {n} |-> IF m = n THEN next ELSE nodes[m]]
    /\ UNCHANGED <<vars, walkVars>>

\* self.run makes a new AgentRun and a new TokenBudget, and wait_for a new
\* timer.  A late write of an earlier run is not followed any further.
FreshRun_KeepsBudget ==
    /\ pc' = "ready" /\ status' = "running" /\ iteration' = 0 /\ tokens_used' = 0
    /\ result' = 0 /\ error' = None /\ trace' = <<>> /\ used' = used /\ action' = None
    /\ timer' = "armed" /\ cancelled' = FALSE /\ note' = "none" /\ accepted' = 0
FreshRun ==
    /\ pc' = "ready" /\ status' = "running" /\ iteration' = 0 /\ tokens_used' = 0
    /\ result' = 0 /\ error' = None /\ trace' = <<>> /\ used' = 0 /\ action' = None
    /\ timer' = "armed" /\ cancelled' = FALSE /\ note' = "none" /\ accepted' = 0

\* The head of the for loop, with n about to be run and k hops behind.
EnterNode_NoVisited(n, k) ==
    \/ /\ k >= MaxHops
       /\ walk' = "exceeded"
       /\ UNCHANGED <<vars, current, visited>>
    \/ /\ k < MaxHops
       /\ walk' = "hop"
       /\ current' = n
       /\ visited' = visited \union {n}
       /\ FreshRun
EnterNode(n, k) ==
    \/ /\ k >= MaxHops
       /\ walk' = "exceeded"
       /\ UNCHANGED <<vars, current, visited>>
    \/ /\ k < MaxHops
       /\ n \in visited
       /\ walk' = "cycle"
       /\ UNCHANGED <<vars, current, visited>>
    \/ /\ k < MaxHops
       /\ n \notin visited
       /\ walk' = "hop"
       /\ current' = n
       /\ visited' = visited \union {n}
       /\ FreshRun

\* run_graph is called, for a node that may not be registered.
StartGraph(n) ==
    /\ walk = "idle"
    /\ \/ /\ n \notin DOMAIN nodes
          /\ walk' = "unknown"
          /\ UNCHANGED <<vars, current, visited>>
       \/ /\ n \in DOMAIN nodes
          /\ EnterNode(n, 0)
    /\ UNCHANGED <<nodes, results>>

\* One step of the run under way, or a late write of its memory.
Hop ==
    /\ walk # "idle"
    /\ Next
    /\ UNCHANGED <<nodes, walkVars>>

\* The run raised CancelledError: the results so far go with the frame.
HopCancelled ==
    /\ walk = "hop"
    /\ pc = "ended"
    /\ status = "cancelled"
    /\ walk' = "cancelled"
    /\ UNCHANGED <<vars, nodes, current, visited, results>>

Outcome == [node |-> current, status |-> status, tokens_used |-> tokens_used]

\* The run returned its record: the walk is over, or goes to the next node.
HopEnds ==
    /\ walk = "hop"
    /\ pc = "ended"
    /\ status # "cancelled"
    /\ results' = Append(results, Outcome)
    /\ \/ /\ status # "completed" \/ nodes[current] = <<>>
          /\ walk' = "returned"
          /\ UNCHANGED <<vars, current, visited>>
       \/ /\ status = "completed"
          /\ ~(Range(nodes[current]) \subseteq DOMAIN nodes)
          /\ walk' = "missing"
          /\ UNCHANGED <<vars, current, visited>>
       \/ /\ status = "completed"
          /\ nodes[current] # <<>>
          /\ Range(nodes[current]) \subseteq DOMAIN nodes
          /\ EnterNode(Head(nodes[current]), Len(results) + 1)
    /\ UNCHANGED nodes

GraphNext ==
    \/ \E n \in NodeNames, next \in NextLists : Register(n, next)
    \/ \E n \in NodeNames : StartGraph(n)
    \/ Hop
    \/ HopEnds
    \/ HopCancelled

\* What AgentRun assumes of the event loop, and that run_graph goes on.
GraphFairness ==
    /\ WF_graphVars(Hop /\ Start)
    /\ WF_graphVars(Hop /\ TimerFires)
    /\ WF_graphVars(Hop /\ Interrupt)
    /\ WF_graphVars(HopEnds \/ HopCancelled)

GraphSpec == GraphInit /\ [][GraphNext]_graphVars /\ GraphFairness

-----------------------------------------------------------------------------
(* Properties.                                                             *)

\* The results are a route of the graph, no node of which is run twice: every
\* run but the last completed, all its next_nodes were there, and the first
\* of them was run next, also if nodes were registered meanwhile.  The walk
\* returned because the last run did not complete or was of a leaf, and it
\* met a cycle only where there is one.
RouteIsFollowed ==
    LET n == Len(results)
        Goes(i, m) == /\ results[i].status = "completed"
                      /\ nodes[results[i].node] # <<>>
                      /\ Range(nodes[results[i].node]) \subseteq DOMAIN nodes
                      /\ m = Head(nodes[results[i].node])
    IN  /\ n <= MaxHops
        /\ \A i, j \in 1..n : results[i].node = results[j].node => i = j
        /\ \A i \in 1..(n - 1) : Goes(i, results[i + 1].node)
        /\ walk = "hop" /\ n > 0 => Goes(n, current)
        /\ walk = "hop" => \A i \in 1..n : results[i].node # current
        /\ walk = "returned" =>
              n > 0 /\ (results[n].status # "completed" \/ nodes[results[n].node] = <<>>)
        /\ walk = "cycle" => \E i \in 1..n : Goes(n, results[i].node)

\* Every hop has a budget of its own: what it reports is what one run may
\* spend, and no run is reported cancelled, as that leaves no results.
HopsAreSeparate ==
    \A i \in 1..Len(results) :
        /\ results[i].tokens_used <= TokenLimit - 1 + 2 * MaxEstimate
        /\ results[i].status \in RunStatus \ {"running", "cancelled"}

\* A walk that began ends, whatever its agents do and nodes are registered.
WalkEnds == [](walk = "hop" => <>(walk \in Outcomes))

=============================================================================
