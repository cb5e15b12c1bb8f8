--------------------------- MODULE StateGraphProofs ---------------------------
(***************************************************************************)
(* Proofs about StateGraph, for any number of walkers, every set of nodes, *)
(* sensitive or not, every graph that grows under the walks, and every     *)
(* step budget.  The walks share nodes, edges and the budget, but a log is *)
(* a walker's own: the invariant is one about each log and where its       *)
(* walker is.                                                              *)
(***************************************************************************)
EXTENDS StateGraph, FiniteSetTheorems, TLAPS

Events == [what : {"asked", "granted", "ran"}, node : Names]

RanAt(s) == {i \in DOMAIN s : s[i].what = "ran"}

\* A walk goes from p to m.
Leads(p, m) == edges[p] # <<>> /\ Head(edges[p]) = m

Approved(s) ==
    \A i \in RanAt(s) :
        s[i].node \in Sensitive =>
            /\ i > 2
            /\ s[i - 1] = Event("granted", s[i].node)
            /\ s[i - 2] = Event("asked", s[i].node)

Follows(s) ==
    \A i, j \in RanAt(s) :
        (i < j /\ \A k \in RanAt(s) : k <= i \/ j <= k) => Leads(s[i].node, s[j].node)

\* Node n may be the next that is run after those of s.
MayRun(s, n) ==
    \A i \in RanAt(s) : (\A k \in RanAt(s) : k <= i) => Leads(s[i].node, n)

GraphType ==
    /\ edges \in [Names -> Seq(Names)]
    /\ at \in [Walkers -> {"idle", "gate", "handler"} \union Over]
    /\ node \in [Walkers -> Names \union {"none"}]
    /\ log \in [Walkers -> Seq(Events)]

WalkInv(w) ==
    /\ Approved(log[w]) /\ Follows(log[w])
    /\ at[w] = "idle" => log[w] = <<>>
    /\ at[w] = "gate" =>
          /\ node[w] \in Names
          /\ log[w] # <<>>
          /\ log[w][Len(log[w])] = Event("asked", node[w])
          /\ MayRun(log[w], node[w])
    /\ at[w] = "handler" =>
          /\ node[w] \in Names
          /\ log[w] # <<>>
          /\ log[w][Len(log[w])] = Event("ran", node[w])

IInv == GraphType /\ \A w \in Walkers : WalkInv(w)

-----------------------------------------------------------------------------
\* A question or an answer leaves the nodes that were run as they were.
LEMMA TalkAppended ==
  ASSUME NEW s \in Seq(Events), NEW n \in Names, NEW m,
         NEW what \in {"asked", "granted"},
         Approved(s), Follows(s), MayRun(s, m)
  PROVE  LET t == Append(s, Event(what, n))
         IN  /\ t \in Seq(Events)
             /\ Len(t) = Len(s) + 1
             /\ t[Len(t)] = Event(what, n)
             /\ \A i \in DOMAIN s : t[i] = s[i]
             /\ Approved(t) /\ Follows(t) /\ MayRun(t, m)
<1> DEFINE e == Event(what, n)
           t == Append(s, e)
<1>1. e \in Events /\ e.what # "ran"
  BY DEF Event, Events
<1> HIDE DEF e
<1>2. /\ t \in Seq(Events)
      /\ Len(s) \in Nat
      /\ Len(t) = Len(s) + 1
      /\ t[Len(t)] = e
      /\ DOMAIN s = 1..Len(s)
      /\ DOMAIN t = 1..(Len(s) + 1)
      /\ \A i \in DOMAIN s : t[i] = s[i]
  BY <1>1
<1> HIDE DEF t
<1>3. RanAt(t) = RanAt(s) /\ RanAt(s) \subseteq 1..Len(s)
  BY <1>1, <1>2 DEF RanAt
<1>4. Approved(t)
  BY <1>2, <1>3 DEF Approved
<1>5. Follows(t) /\ MayRun(t, m)
  BY <1>2, <1>3 DEF Follows, MayRun
<1>6. QED
  BY <1>2, <1>4, <1>5 DEF t, e

\* A node that may be run, and has its approval if it is sensitive, is run.
LEMMA RunAppended ==
  ASSUME NEW s \in Seq(Events), NEW n \in Names,
         Approved(s), Follows(s), MayRun(s, n),
         n \in Sensitive =>
            /\ Len(s) >= 2
            /\ s[Len(s)] = Event("granted", n)
            /\ s[Len(s) - 1] = Event("asked", n)
  PROVE  LET t == Append(s, Event("ran", n))
         IN  /\ t \in Seq(Events)
             /\ t # <<>>
             /\ t[Len(t)] = Event("ran", n)
             /\ Approved(t) /\ Follows(t)
<1> DEFINE e == Event("ran", n)
           t == Append(s, e)
<1>1. e \in Events /\ e.what = "ran" /\ e.node = n
  BY DEF Event, Events
<1> HIDE DEF e
<1>2. /\ t \in Seq(Events)
      /\ t # <<>>
      /\ Len(s) \in Nat
      /\ Len(t) = Len(s) + 1
      /\ t[Len(s) + 1] = e
      /\ DOMAIN s = 1..Len(s)
      /\ DOMAIN t = 1..(Len(s) + 1)
      /\ \A i \in DOMAIN s : t[i] = s[i]
  BY <1>1
<1> HIDE DEF t
<1>3. RanAt(t) = RanAt(s) \union {Len(s) + 1} /\ RanAt(s) \subseteq 1..Len(s)
  BY <1>1, <1>2 DEF RanAt
<1>4. Approved(t)
  <2> SUFFICES ASSUME NEW i \in RanAt(t), t[i].node \in Sensitive
               PROVE  /\ i > 2
                      /\ t[i - 1] = Event("granted", t[i].node)
                      /\ t[i - 2] = Event("asked", t[i].node)
      BY DEF Approved
  <2>1. CASE i \in RanAt(s)
    BY <1>2, <1>3, <2>1 DEF Approved
  <2>2. CASE i = Len(s) + 1
    BY <1>1, <1>2, <2>2
  <2>3. QED
    BY <1>3, <2>1, <2>2
<1>5. Follows(t)
  <2> SUFFICES ASSUME NEW i \in RanAt(t), NEW j \in RanAt(t), i < j,
                      \A k \in RanAt(t) : k <= i \/ j <= k
               PROVE  Leads(t[i].node, t[j].node)
      BY DEF Follows
  <2>1. i \in RanAt(s) /\ i \in DOMAIN s
    BY <1>2, <1>3
  <2>2. CASE j \in RanAt(s)
    BY <1>2, <1>3, <2>1, <2>2 DEF Follows
  <2>3. CASE j = Len(s) + 1
    <3>1. \A k \in RanAt(s) : k <= i
      BY <1>3, <2>3
    <3>2. Leads(s[i].node, n)
      BY <2>1, <3>1 DEF MayRun
    <3>3. QED
      BY <1>1, <1>2, <2>1, <2>3, <3>2
  <2>4. QED
    BY <1>3, <2>2, <2>3
<1>6. QED
  BY <1>2, <1>4, <1>5 DEF t, e

-----------------------------------------------------------------------------
\* A step of one walker is nothing to the logs of the others.
LEMMA OneWalker ==
  ASSUME IInv, NEW w \in Walkers, GraphType', edges' = edges,
         \A v \in Walkers \ {w} : at'[v] = at[v] /\ node'[v] = node[v] /\ log'[v] = log[v],
         WalkInv(w)'
  PROVE  IInv'
<1>1. ASSUME NEW v \in Walkers \ {w} PROVE WalkInv(v)'
  BY DEF IInv, WalkInv, Follows, MayRun, Leads
<1>2. QED
  BY <1>1 DEF IInv

\* A walk that is over keeps its log.
LEMMA StopKeeps ==
  ASSUME IInv, NEW w \in Walkers, NEW how \in Over, Stop(w, how),
         UNCHANGED <<log, edges>>
  PROVE  IInv'
<1>1. GraphType'
  BY DEF IInv, GraphType, Stop
<1>2. at'[w] \notin {"idle", "gate", "handler"}
  BY DEF IInv, GraphType, Stop, Over
<1>3. WalkInv(w)'
  BY <1>2 DEF IInv, WalkInv, Follows, Leads
<1>4. QED
  BY <1>1, <1>3, OneWalker DEF IInv, GraphType, Stop

\* The next node is asked about, or run.
LEMMA EnterKeeps ==
  ASSUME IInv, NEW w \in Walkers, NEW n \in Names, MayRun(log[w], n),
         Enter(w, n), edges' = edges
  PROVE  IInv'
<1> DEFINE s == log[w]
<1>1. s \in Seq(Events) /\ Approved(s) /\ Follows(s)
  BY DEF IInv, GraphType, WalkInv
<1>2. CASE UNCHANGED log /\ \E how \in Over : Stop(w, how)
  BY <1>2, StopKeeps
<1>3. CASE Ask(w, n)
  <2> DEFINE t == Append(s, Event("asked", n))
  <2>1. /\ t \in Seq(Events) /\ t # <<>>
        /\ t[Len(t)] = Event("asked", n)
        /\ Approved(t) /\ Follows(t) /\ MayRun(t, n)
    BY <1>1, TalkAppended
  <2>2. /\ log' = [log EXCEPT ![w] = t]
        /\ at' = [at EXCEPT ![w] = "gate"]
        /\ node' = [node EXCEPT ![w] = n]
    BY <1>3 DEF Ask, Note
  <2> HIDE DEF t
  <2>3. GraphType'
    BY <2>1, <2>2 DEF IInv, GraphType
  <2>4. /\ log'[w] = t /\ at'[w] = "gate" /\ node'[w] = n
        /\ \A v \in Walkers \ {w} : at'[v] = at[v] /\ node'[v] = node[v] /\ log'[v] = log[v]
    BY <2>2 DEF IInv, GraphType
  <2>5. WalkInv(w)'
    BY <2>1, <2>4 DEF WalkInv, Follows, MayRun, Leads
  <2>6. QED
    BY <2>3, <2>4, <2>5, OneWalker
<1>4. CASE RunHandler(w, n) /\ n \notin Sensitive
  <2> DEFINE t == Append(s, Event("ran", n))
  <2>1. /\ t \in Seq(Events) /\ t # <<>>
        /\ t[Len(t)] = Event("ran", n)
        /\ Approved(t) /\ Follows(t)
    BY <1>1, <1>4, RunAppended
  <2>2. /\ log' = [log EXCEPT ![w] = t]
        /\ at' = [at EXCEPT ![w] = "handler"]
        /\ node' = [node EXCEPT ![w] = n]
    BY <1>4 DEF RunHandler, Note
  <2> HIDE DEF t
  <2>3. GraphType'
    BY <2>1, <2>2 DEF IInv, GraphType
  <2>4. /\ log'[w] = t /\ at'[w] = "handler" /\ node'[w] = n
        /\ \A v \in Walkers \ {w} : at'[v] = at[v] /\ node'[v] = node[v] /\ log'[v] = log[v]
    BY <2>2 DEF IInv, GraphType
  <2>5. WalkInv(w)'
    BY <2>1, <2>4 DEF WalkInv, Follows, Leads
  <2>6. QED
    BY <2>3, <2>4, <2>5, OneWalker
<1>5. QED
  BY <1>2, <1>3, <1>4 DEF Enter, AskOrRun, Over

\* The human agrees: the answer and the call are logged together.
LEMMA GrantKeeps ==
  ASSUME IInv, NEW w \in Walkers, Grant(w)
  PROVE  IInv'
<1> DEFINE s == log[w]
           n == node[w]
           u == Append(s, Event("granted", n))
           t == Append(u, Event("ran", n))
<1>1. /\ s \in Seq(Events) /\ Approved(s) /\ Follows(s) /\ n \in Names
      /\ s # <<>> /\ s[Len(s)] = Event("asked", n) /\ MayRun(s, n)
  BY DEF IInv, GraphType, WalkInv, Grant
<1>2. /\ u \in Seq(Events) /\ Len(u) = Len(s) + 1
      /\ u[Len(u)] = Event("granted", n)
      /\ \A i \in DOMAIN s : u[i] = s[i]
      /\ Approved(u) /\ Follows(u) /\ MayRun(u, n)
  BY <1>1, TalkAppended
<1>3. Len(u) >= 2 /\ u[Len(u) - 1] = Event("asked", n)
  BY <1>1, <1>2
<1>4. /\ t \in Seq(Events) /\ t # <<>>
      /\ t[Len(t)] = Event("ran", n)
      /\ Approved(t) /\ Follows(t)
  <2> HIDE DEF u
  <2>1. QED
    BY <1>1, <1>2, <1>3, RunAppended
<1>5. s \o <<Event("granted", n), Event("ran", n)>> = t
  BY <1>1
<1>6. /\ log' = [log EXCEPT ![w] = t]
      /\ at' = [at EXCEPT ![w] = "handler"]
      /\ node' = node /\ edges' = edges
  BY <1>5 DEF Grant
<1> HIDE DEF t
<1>7. GraphType'
  BY <1>4, <1>6 DEF IInv, GraphType
<1>8. /\ log'[w] = t /\ at'[w] = "handler" /\ node'[w] = n
      /\ \A v \in Walkers \ {w} : at'[v] = at[v] /\ node'[v] = node[v] /\ log'[v] = log[v]
  BY <1>6 DEF IInv, GraphType
<1>9. WalkInv(w)'
  BY <1>1, <1>4, <1>6, <1>8 DEF WalkInv, Follows, Leads
<1>10. QED
  BY <1>6, <1>7, <1>8, <1>9, OneWalker

\* An edge added behind the others changes no step that was made.
LEMMA AddEdgeKeeps ==
  ASSUME IInv, NEW p \in Names, NEW q \in Names, AddEdge(p, q)
  PROVE  IInv'
<1>1. /\ edges' \in [Names -> Seq(Names)]
      /\ at' = at /\ node' = node /\ log' = log
  BY DEF AddEdge, IInv, GraphType
<1>2. ASSUME NEW x \in Names, NEW m, Leads(x, m)
      PROVE  edges'[x] # <<>> /\ Head(edges'[x]) = m
  <2>1. edges[x] \in Seq(Names) /\ edges[x] # <<>> /\ Head(edges[x]) = m
    BY <1>2 DEF IInv, GraphType, Leads
  <2>2. edges'[x] \in {edges[x], Append(edges[x], q)}
    BY DEF AddEdge, IInv, GraphType
  <2>3. Append(edges[x], q) # <<>> /\ Head(Append(edges[x], q)) = Head(edges[x])
    BY <2>1
  <2>4. QED
    BY <2>1, <2>2, <2>3
<1>3. ASSUME NEW w \in Walkers PROVE WalkInv(w)'
  <2>0. log[w] \in Seq(Events)
    BY DEF IInv, GraphType
  <2>1. \A i \in DOMAIN log[w] : log[w][i].node \in Names
    <3>1. ASSUME NEW i \in DOMAIN log[w] PROVE log[w][i] \in Events
      BY <2>0
    <3>2. QED
      BY <3>1 DEF Events
  <2>2. Follows(log[w])'
    <3>1. Follows(log[w])
      BY DEF IInv, WalkInv
    <3>2. ASSUME NEW i \in RanAt(log[w]), NEW j \in RanAt(log[w]), i < j,
                 \A k \in RanAt(log[w]) : k <= i \/ j <= k
          PROVE  edges'[log[w][i].node] # <<>>
                 /\ Head(edges'[log[w][i].node]) = log[w][j].node
      BY <1>2, <2>1, <3>1, <3>2 DEF Follows, RanAt
    <3>3. QED
      BY <1>1, <3>2 DEF Follows, Leads, RanAt
  <2>3. at[w] = "gate" => MayRun(log[w], node[w])'
    BY <1>1, <1>2, <2>1 DEF IInv, WalkInv, MayRun, RanAt, Leads
  <2>4. QED
    BY <1>1, <2>2, <2>3 DEF IInv, WalkInv
<1>4. QED
  BY <1>1, <1>3 DEF IInv, GraphType

-----------------------------------------------------------------------------
LEMMA InitEstablishes == Init => IInv
  BY DEF Init, IInv, GraphType, WalkInv, Approved, Follows, RanAt

LEMMA StepPreserves == IInv /\ [Next]_vars => IInv'
<1> SUFFICES ASSUME IInv, [Next]_vars PROVE IInv'
    OBVIOUS
<1>1. ASSUME UNCHANGED <<edges, at, node, log>> PROVE IInv'
  BY <1>1 DEF IInv, GraphType, WalkInv, Follows, MayRun, Leads
<1>2. ASSUME NEW n \in Names, AddNode(n) PROVE IInv'
  BY <1>1, <1>2 DEF AddNode
<1>3. ASSUME NEW w \in Walkers, NEW n \in Names, Start(w, n) PROVE IInv'
  <2>1. MayRun(log[w], n)
    BY <1>3 DEF Start, IInv, WalkInv, MayRun, RanAt
  <2>2. QED
    BY <1>3, <2>1, StopKeeps, EnterKeeps DEF Start, Over
<1>4. ASSUME NEW w \in Walkers, Deny(w) \/ Raise(w) \/ Finish(w) PROVE IInv'
  BY <1>4, StopKeeps DEF Deny, Raise, Finish, Over
<1>5. ASSUME NEW w \in Walkers, Advance(w) PROVE IInv'
  <2> DEFINE n == Head(edges[node[w]])
  <2>1. /\ node[w] \in Names /\ log[w] \in Seq(Events) /\ log[w] # <<>>
        /\ log[w][Len(log[w])] = Event("ran", node[w])
        /\ edges[node[w]] # <<>> /\ edges[node[w]] \in Seq(Names)
        /\ Enter(w, n) /\ edges' = edges
    BY <1>5 DEF Advance, IInv, GraphType, WalkInv
  <2>2. n \in Names
    BY <2>1
  <2>3. Len(log[w]) \in RanAt(log[w]) /\ RanAt(log[w]) \subseteq 1..Len(log[w])
    BY <2>1 DEF RanAt, Event
  <2>4. MayRun(log[w], n)
    BY <2>1, <2>3 DEF MayRun, Leads, Event
  <2>5. QED
    BY <2>1, <2>2, <2>4, EnterKeeps
<1>6. QED
  BY <1>1, <1>2, <1>3, <1>4, <1>5, AddEdgeKeeps, GrantKeeps
  DEF Next, StopSaysSo, NoEdgeLeft, vars

LEMMA Invariance == Spec => []IInv
  BY InitEstablishes, StepPreserves, PTL DEF Spec

-----------------------------------------------------------------------------
(* The budget is charged before the handler is called, and a visit that    *)
(* waits for an answer is already paid for: the charges of a walker are    *)
(* the calls in its log and, as number 0, the visit it is asking about.    *)

Charges(w) == Ran(w) \union {i \in {0} : at[w] = "gate"}

Charged == {c \in Walkers \X Nat : c[2] \in Charges(c[1])}

BudgetInv ==
    /\ steps \in 0..MaxSteps
    /\ IsFiniteSet(Charged)
    /\ Cardinality(Charged) <= steps

\* A step that charges nothing, whatever it adds to the counter.
LEMMA NothingCharged ==
  ASSUME BudgetInv, steps' \in steps..MaxSteps,
         \A w \in Walkers : Charges(w)' \subseteq Charges(w)
  PROVE  BudgetInv'
<1>1. Charged' \subseteq Charged
  BY DEF Charged
<1>2. IsFiniteSet(Charged') /\ Cardinality(Charged') <= Cardinality(Charged)
  BY <1>1, FS_Subset DEF BudgetInv
<1>3. Cardinality(Charged') \in Nat /\ Cardinality(Charged) \in Nat
  BY <1>2, FS_CardinalityType DEF BudgetInv
<1>4. QED
  BY <1>2, <1>3, GraphAssumption DEF BudgetInv

\* A step that pays for the visit it begins.
LEMMA OneCharged ==
  ASSUME BudgetInv, steps < MaxSteps, steps' = steps + 1,
         NEW w \in Walkers, NEW i \in Nat,
         Charges(w)' \subseteq Charges(w) \union {i},
         \A v \in Walkers \ {w} : Charges(v)' \subseteq Charges(v)
  PROVE  BudgetInv'
<1> DEFINE more == Charged \union {<<w, i>>}
<1>1. Charged' \subseteq more
  BY DEF Charged
<1>2. /\ IsFiniteSet(more)
      /\ Cardinality(more) \in {Cardinality(Charged), Cardinality(Charged) + 1}
  BY FS_AddElement DEF BudgetInv
<1> HIDE DEF more
<1>3. IsFiniteSet(Charged') /\ Cardinality(Charged') <= Cardinality(more)
  BY <1>1, <1>2, FS_Subset
<1>4. Cardinality(Charged') \in Nat /\ Cardinality(Charged) \in Nat
  BY <1>3, FS_CardinalityType DEF BudgetInv
<1>5. QED
  BY <1>2, <1>3, <1>4, GraphAssumption DEF BudgetInv

\* A step that calls the handler of a visit already paid for.
LEMMA ChargeMoved ==
  ASSUME BudgetInv, steps' = steps,
         NEW w \in Walkers, NEW i \in Nat, at[w] = "gate",
         Charges(w)' \subseteq (Charges(w) \ {0}) \union {i},
         \A v \in Walkers \ {w} : Charges(v)' \subseteq Charges(v)
  PROVE  BudgetInv'
<1> DEFINE less == Charged \ {<<w, 0>>}
           more == less \union {<<w, i>>}
<1>1. Charged' \subseteq more
  BY DEF Charged
<1>2. <<w, 0>> \in Charged
  BY DEF Charged, Charges
<1>3. IsFiniteSet(less) /\ Cardinality(less) = Cardinality(Charged) - 1
  BY <1>2, FS_RemoveElement DEF BudgetInv
<1> HIDE DEF less
<1>4. /\ IsFiniteSet(more)
      /\ Cardinality(more) \in {Cardinality(less), Cardinality(less) + 1}
  BY <1>3, FS_AddElement
<1> HIDE DEF more
<1>5. IsFiniteSet(Charged') /\ Cardinality(Charged') <= Cardinality(more)
  BY <1>1, <1>4, FS_Subset
<1>6. Cardinality(Charged') \in Nat /\ Cardinality(Charged) \in Nat
  BY <1>5, FS_CardinalityType DEF BudgetInv
<1>7. QED
  BY <1>3, <1>4, <1>5, <1>6, GraphAssumption DEF BudgetInv

\* A walk that is over has no more charges than it had.
LEMMA StopCharges ==
  ASSUME IInv, BudgetInv, NEW w \in Walkers, NEW how \in Over, Stop(w, how),
         UNCHANGED log, steps' \in steps..MaxSteps
  PROVE  BudgetInv'
<1>1. \A v \in Walkers : Charges(v)' \subseteq Charges(v)
  BY DEF Charges, Ran, Stop, IInv, GraphType, Over
<1>2. QED
  BY <1>1, NothingCharged

LEMMA EnterCharges ==
  ASSUME IInv, BudgetInv, NEW w \in Walkers, NEW n \in Names,
         at[w] # "gate", Enter(w, n)
  PROVE  BudgetInv'
<1> DEFINE s == log[w]
           e == Event("ran", n)
<1>1. s \in Seq(Events) /\ Len(s) \in Nat
  BY DEF IInv, GraphType
<1>2. steps \in steps..MaxSteps /\ (steps < MaxSteps => steps + 1 \in steps..MaxSteps)
  BY GraphAssumption DEF BudgetInv
<1>3. CASE UNCHANGED log /\ \E how \in Over : Stop(w, how)
  BY <1>2, <1>3, StopCharges DEF Enter
<1>4. CASE steps < MaxSteps /\ steps' = steps + 1 /\ Ask(w, n)
  <2>1. /\ log' = [log EXCEPT ![w] = Append(s, Event("asked", n))]
        /\ at' = [at EXCEPT ![w] = "gate"]
    BY <1>4 DEF Ask, Note
  <2>2. RanAt(Append(s, Event("asked", n))) \subseteq RanAt(s)
    BY <1>1 DEF RanAt, Event, Events
  <2>3. Charges(w)' \subseteq Charges(w) \union {0}
    BY <2>1, <2>2 DEF Charges, Ran, RanAt, IInv, GraphType
  <2>4. \A v \in Walkers \ {w} : Charges(v)' \subseteq Charges(v)
    BY <2>1 DEF Charges, Ran, IInv, GraphType
  <2>5. QED
    BY <1>4, <2>3, <2>4, OneCharged
<1>5. CASE steps < MaxSteps /\ steps' = steps + 1 /\ RunHandler(w, n)
  <2>1. /\ log' = [log EXCEPT ![w] = Append(s, e)]
        /\ at' = [at EXCEPT ![w] = "handler"]
    BY <1>5 DEF RunHandler, Note
  <2>2. RanAt(Append(s, e)) \subseteq RanAt(s) \union {Len(s) + 1}
    BY <1>1 DEF RanAt
  <2>3. Charges(w)' \subseteq Charges(w) \union {Len(s) + 1}
    BY <2>1, <2>2 DEF Charges, Ran, RanAt, IInv, GraphType
  <2>4. \A v \in Walkers \ {w} : Charges(v)' \subseteq Charges(v)
    BY <2>1 DEF Charges, Ran, IInv, GraphType
  <2>5. QED
    BY <1>1, <1>5, <2>3, <2>4, OneCharged
<1>6. QED
  BY <1>3, <1>4, <1>5 DEF Enter, AskOrRun, Over

LEMMA GrantCharges ==
  ASSUME IInv, BudgetInv, NEW w \in Walkers, Grant(w)
  PROVE  BudgetInv'
<1> DEFINE s == log[w]
           t == s \o <<Event("granted", node[w]), Event("ran", node[w])>>
<1>1. s \in Seq(Events) /\ Len(s) \in Nat
  BY DEF IInv, GraphType
<1>2. RanAt(t) \subseteq RanAt(s) \union {Len(s) + 2} /\ 0 \notin RanAt(t)
  BY <1>1 DEF RanAt, Event
<1>3. /\ at[w] = "gate" /\ steps' = steps
      /\ log' = [log EXCEPT ![w] = t]
      /\ at' = [at EXCEPT ![w] = "handler"]
  BY DEF Grant
<1> HIDE DEF t
<1>4. Charges(w)' \subseteq (Charges(w) \ {0}) \union {Len(s) + 2}
  BY <1>2, <1>3 DEF Charges, Ran, RanAt, IInv, GraphType
<1>5. \A v \in Walkers \ {w} : Charges(v)' \subseteq Charges(v)
  BY <1>3 DEF Charges, Ran, IInv, GraphType
<1>6. QED
  BY <1>1, <1>3, <1>4, <1>5, ChargeMoved

LEMMA BudgetInit == Init => BudgetInv
<1> SUFFICES ASSUME Init PROVE BudgetInv
    OBVIOUS
<1>1. Charged = {}
  BY DEF Init, Charged, Charges, Ran
<1>2. QED
  BY <1>1, FS_EmptySet, GraphAssumption DEF Init, BudgetInv

LEMMA BudgetStep == IInv /\ BudgetInv /\ [Next]_vars => BudgetInv'
<1> SUFFICES ASSUME IInv, BudgetInv, [Next]_vars PROVE BudgetInv'
    OBVIOUS
<1>0. steps \in steps..MaxSteps
  BY GraphAssumption DEF BudgetInv
<1>1. ASSUME UNCHANGED <<steps, at, log>> PROVE BudgetInv'
  BY <1>1 DEF BudgetInv, Charged, Charges, Ran
<1>2. ASSUME NEW w \in Walkers, NEW n \in Names, Start(w, n) PROVE BudgetInv'
  BY <1>0, <1>2, EnterCharges, StopCharges DEF Start, Over
<1>3. ASSUME NEW w \in Walkers, Deny(w) \/ Raise(w) \/ Finish(w) PROVE BudgetInv'
  BY <1>0, <1>3, StopCharges DEF Deny, Raise, Finish, Over
<1>4. ASSUME NEW w \in Walkers, Advance(w) PROVE BudgetInv'
  <2>1. node[w] \in Names /\ edges[node[w]] \in Seq(Names) /\ edges[node[w]] # <<>>
    BY <1>4 DEF Advance, IInv, GraphType, WalkInv
  <2>2. Head(edges[node[w]]) \in Names
    BY <2>1
  <2>3. QED
    BY <1>4, <2>2, EnterCharges DEF Advance
<1>5. QED
  BY <1>1, <1>2, <1>3, <1>4, GrantCharges
  DEF Next, AddNode, AddEdge, StopSaysSo, NoEdgeLeft, vars

LEMMA BudgetKept == Spec => []BudgetInv
<1>1. BudgetInv /\ IInv /\ [Next]_vars => BudgetInv'
  BY BudgetStep
<1>2. QED
  BY <1>1, BudgetInit, Invariance, PTL DEF Spec

\* Whatever the walks that share a GraphState, and however they interleave,
\* no more handlers run than the budget allows.
THEOREM BudgetIsShared == Spec => []StepsAreShared
<1>1. IInv /\ BudgetInv => StepsAreShared
  <2> SUFFICES ASSUME IInv, BudgetInv PROVE StepsAreShared
      OBVIOUS
  <2>1. Visits \subseteq Charged
    <3>1. ASSUME NEW w \in Walkers, NEW i \in Ran(w) PROVE i \in Nat
      BY DEF Ran, IInv, GraphType
    <3>2. QED
      BY <3>1 DEF Visits, Charged, Charges
  <2>2. IsFiniteSet(Visits) /\ Cardinality(Visits) <= Cardinality(Charged)
    BY <2>1, FS_Subset DEF BudgetInv
  <2>3. Cardinality(Visits) \in Nat /\ Cardinality(Charged) \in Nat
    BY <2>2, FS_CardinalityType DEF BudgetInv
  <2>4. QED
    BY <2>2, <2>3, GraphAssumption DEF BudgetInv, StepsAreShared
<1>2. QED
  BY <1>1, Invariance, BudgetKept, PTL

-----------------------------------------------------------------------------
\* Every variable keeps its type: edges join nodes that were added, the budget
\* is not overdrawn, and a walk is at a node while it has one.
THEOREM TypeCorrect == Spec => []TypeOK
<1> USE GraphAssumption DEF Over
<1>1. Init => TypeOK
  BY DEF Init, TypeOK
<1>2. ASSUME IInv, TypeOK, NEW w \in Walkers, NEW n \in nodes, Enter(w, n),
             UNCHANGED <<approval, nodes, edges>>
      PROVE  TypeOK'
  <2>1. n \in Names /\ steps \in 0..MaxSteps /\ current \in nodes \union {"none"}
    BY <1>2 DEF TypeOK
  <2>2. ASSUME NEW how \in Over, Stop(w, how), steps' \in 0..MaxSteps,
               current' \in nodes \union {"none"}
        PROVE  TypeOK'
    BY <1>2, <2>2 DEF Stop, IInv, GraphType, TypeOK
  <2>3. ASSUME NEW p \in {"gate", "handler"}, steps' \in 0..MaxSteps, current' = n,
               at' = [at EXCEPT ![w] = p], node' = [node EXCEPT ![w] = n]
        PROVE  TypeOK'
    BY <1>2, <2>1, <2>3 DEF IInv, GraphType, TypeOK
  <2>4. CASE steps >= MaxSteps
    <3>1. Stop(w, "exceeded") /\ UNCHANGED <<steps, current>>
      BY <1>2, <2>1, <2>4 DEF Enter
    <3>2. QED
      BY <2>1, <2>2, <3>1
  <2>5. CASE steps < MaxSteps
    <3>1. steps' \in 0..MaxSteps /\ current' = n /\ AskOrRun(w, n)
      BY <1>2, <2>1, <2>5 DEF Enter
    <3>2. QED
      BY <2>2, <2>3, <3>1 DEF AskOrRun, Ask, RunHandler
  <2>6. QED
    BY <2>1, <2>4, <2>5
<1>3. ASSUME IInv, TypeOK, NEW w \in Walkers, NEW how \in Over, Stop(w, how),
             UNCHANGED <<approval, nodes, edges, steps>>, current' \in {current, "none"}
      PROVE  TypeOK'
  BY <1>3 DEF Stop, IInv, GraphType, TypeOK
<1>4. IInv /\ TypeOK /\ [Next]_vars => TypeOK'
  <2> SUFFICES ASSUME IInv, TypeOK, [Next]_vars PROVE TypeOK'
      OBVIOUS
  <2>1. ASSUME NEW n \in Names, AddNode(n) PROVE TypeOK'
    BY <2>1 DEF AddNode, TypeOK
  <2>2. ASSUME NEW s \in Names, NEW t \in Names, AddEdge(s, t) PROVE TypeOK'
    BY <2>2 DEF AddEdge, IInv, GraphType, TypeOK
  <2>3. ASSUME NEW w \in Walkers, NEW n \in Names, Start(w, n) PROVE TypeOK'
    BY <1>2, <1>3, <2>3 DEF Start
  <2>4. ASSUME NEW w \in Walkers, Grant(w) PROVE TypeOK'
    BY <2>4 DEF Grant, IInv, GraphType, TypeOK
  <2>5. ASSUME NEW w \in Walkers, Deny(w) \/ Raise(w) \/ Finish(w) PROVE TypeOK'
    BY <1>3, <2>5 DEF Deny, Raise, Finish
  <2>6. ASSUME NEW w \in Walkers, Advance(w) PROVE TypeOK'
    <3>1. /\ node[w] \in Names /\ edges[node[w]] \in Seq(Names) /\ edges[node[w]] # <<>>
          /\ Enter(w, Head(edges[node[w]]))
      BY <2>6 DEF Advance, IInv, GraphType, WalkInv
    <3>2. Head(edges[node[w]]) \in nodes
      BY <3>1 DEF TypeOK
    <3>3. QED
      BY <1>2, <2>6, <3>1, <3>2 DEF Advance
  <2>7. CASE UNCHANGED vars
    BY <2>7 DEF vars, TypeOK
  <2>8. QED
    BY <2>1, <2>2, <2>3, <2>4, <2>5, <2>6, <2>7 DEF Next, StopSaysSo, NoEdgeLeft
<1>5. QED
  BY <1>1, <1>4, Invariance, PTL DEF Spec

\* Every visit of a sensitive node was asked for and granted, in that walk
\* and for that visit.
THEOREM VisitsAreApproved == Spec => []ApprovedEachVisit
<1>1. IInv => ApprovedEachVisit
  BY DEF IInv, WalkInv, Approved, RanAt, Ran, ApprovedEachVisit
<1>2. QED
  BY <1>1, Invariance, PTL

\* A walk goes from a node to the one its first edge led to and still leads
\* to, whatever is added meanwhile.
THEOREM FirstEdgesAreFollowed == Spec => []FollowsFirstEdges
<1>1. IInv => FollowsFirstEdges
  BY DEF IInv, WalkInv, Follows, Leads, RanAt, Ran, FollowsFirstEdges
<1>2. QED
  BY <1>1, Invariance, PTL

=============================================================================
