----------------------------- MODULE AdapterProofs -----------------------------
(***************************************************************************)
(* Proofs about the adapters: for any number of calls that race for the    *)
(* collection, any number of publishes and closes, and one sandbox call.   *)
(***************************************************************************)
EXTENDS QdrantVectorStore, RabbitMQBroker, DockerSandbox, FiniteSetTheorems, TLAPS

\* A call that saw the collection has nothing to create, and what exists is
\* never dropped.
QdrantInv ==
    /\ asks \in [QdrantCalls ->
          {"idle", "list", "create", "use", "returned", "conflict", "failed"}]
    /\ collection \in BOOLEAN
    /\ \A c \in QdrantCalls :
          /\ asks[c] = "use" => collection
          /\ asks[c] = "create" => c \notin found
          /\ asks[c] = "idle" => c \notin found
          /\ c \in found => collection
          /\ c \in points => asks[c] \in {"returned", "failed"}
    /\ OnlyFirstUsesConflict

\* A first use may lose its race, but a collection that was there fails no
\* call, and a write that returned is kept.
THEOREM ConflictsAreOfFirstUses == QdrantSpec => []OnlyFirstUsesConflict
<1> USE CallsAssumption DEF QdrantInv, OnlyFirstUsesConflict, QdrantCalls, Ask
<1>1. QdrantInit => QdrantInv
  BY DEF QdrantInit
<1>2. QdrantInv /\ [QdrantNext]_qdrantVars => QdrantInv'
  <2> SUFFICES ASSUME QdrantInv, [QdrantNext]_qdrantVars PROVE QdrantInv'
      OBVIOUS
  <2>1. ASSUME NEW c \in QdrantCalls, EnsureCollection(c) PROVE QdrantInv'
    BY <2>1 DEF EnsureCollection
  <2>2. ASSUME NEW c \in QdrantCalls, ListCollections(c) PROVE QdrantInv'
    BY <2>2 DEF ListCollections
  <2>3. ASSUME NEW c \in QdrantCalls, CreateCollection(c) PROVE QdrantInv'
    BY <2>3 DEF CreateCollection
  <2>4. ASSUME NEW c \in QdrantCalls, Use(c) PROVE QdrantInv'
    BY <2>4 DEF Use
  <2>5. ASSUME NEW c \in QdrantCalls, Lose(c) PROVE QdrantInv'
    <3>1. CASE UNCHANGED <<collection, points>>
      BY <2>5, <3>1 DEF Lose
    <3>2. CASE asks[c] = "create" /\ collection' = TRUE /\ UNCHANGED points
      BY <2>5, <3>2 DEF Lose
    <3>3. CASE /\ asks[c] = "use"
               /\ points' = points \union ({c} \intersect Upserts)
               /\ UNCHANGED collection
      BY <2>5, <3>3 DEF Lose
    <3>4. QED
      BY <2>5, <3>1, <3>2, <3>3 DEF Lose
  <2>6. CASE UNCHANGED qdrantVars
    BY <2>6 DEF qdrantVars
  <2>7. QED
    BY <2>1, <2>2, <2>3, <2>4, <2>5, <2>6 DEF QdrantNext
<1>3. QdrantInv => OnlyFirstUsesConflict
  OBVIOUS
<1>4. QED
  BY <1>1, <1>2, <1>3, PTL DEF QdrantSpec

-----------------------------------------------------------------------------
\* Where the sandbox call is, and what has become of its client and of the
\* container that the client asked for.
SandboxInv ==
    /\ sandbox \in {"idle", "spawn", "communicate", "wait"} \union SandboxOver
    /\ client \in {"none", "alive", "exited", "killed"}
    /\ container \in {"none", "asked", "alive", "ended"}
    /\ timeout \in {"armed", "fired"}
    /\ abandoned \in BOOLEAN
    /\ directory \in BOOLEAN
    /\ client = "none" => container = "none"
    /\ client = "exited" => ~Executing
    /\ sandbox = "idle" => client = "none"
    /\ sandbox \in {"idle", "spawn"} => timeout = "armed"
    /\ sandbox = "spawn" => client \in {"alive", "exited"}
    /\ directory <=> sandbox \in {"spawn", "communicate", "wait"}
    /\ sandbox = "communicate" => client \in {"alive", "exited"}
    /\ sandbox = "wait" => client \in {"exited", "killed"} /\ timeout = "fired"
    /\ sandbox = "raised" => client = "exited"
    /\ LeftRunningHasCause

\* In any order of timer, exit, start of the container and cancellation, what
\* a call leaves running it leaves by the deadline, by a cancellation or by
\* a failing pipe: never behind a result, and a client not by the deadline.
THEOREM WhatIsLeftHasCause == SandboxSpec => []LeftRunningHasCause
<1>1. SandboxInit => SandboxInv
  BY DEF SandboxInit, SandboxInv, LeftRunningHasCause, SandboxOver, Executing
<1>2. SandboxInv /\ [SandboxNext]_sandboxVars => SandboxInv'
  <2> SUFFICES ASSUME SandboxInv, [SandboxNext]_sandboxVars PROVE SandboxInv'
      OBVIOUS
  <2> USE DEF SandboxInv, LeftRunningHasCause, SandboxOver, Executing, Leave,
              KillClient, docker
  <2>1. CASE RunPython
    <3>1. CASE sandbox' = "spawn"
      BY <2>1, <3>1 DEF RunPython
    <3>2. CASE sandbox' = "unavailable"
      BY <2>1, <3>2 DEF RunPython
    <3>3. QED
      BY <2>1, <3>1, <3>2 DEF RunPython
  <2>2. CASE Spawned
    <3>1. CASE sandbox' = "communicate"
      BY <2>2, <3>1 DEF Spawned
    <3>2. CASE sandbox' = "unavailable"
      BY <2>2, <3>2 DEF Spawned
    <3>3. QED
      BY <2>2, <3>1, <3>2 DEF Spawned
  <2>3. CASE Communicated
    BY <2>3 DEF Communicated
  <2>4. CASE CommunicateFails
    BY <2>4 DEF CommunicateFails
  <2>5. CASE TimeoutFires
    BY <2>5 DEF TimeoutFires
  <2>6. CASE Kill
    <3>1. CASE sandbox' = "wait"
      BY <2>6, <3>1 DEF Kill
    <3>2. CASE sandbox' = "raised"
      BY <2>6, <3>2 DEF Kill
    <3>3. QED
      BY <2>6, <3>1, <3>2 DEF Kill
  <2>7. CASE Waited
    BY <2>7 DEF Waited
  <2>8. CASE Abandon
    BY <2>8 DEF Abandon
  <2>9. CASE CancelledLeaves
    BY <2>9 DEF CancelledLeaves
  <2>10. CASE ClientAsks
    BY <2>10 DEF ClientAsks
  <2>11. CASE ContainerStarts
    BY <2>11 DEF ContainerStarts
  <2>12. CASE ContainerEnds
    BY <2>12 DEF ContainerEnds
  <2>13. CASE ClientExits
    BY <2>13 DEF ClientExits
  <2>14. CASE UNCHANGED sandboxVars
    BY <2>14 DEF sandboxVars
  <2>15. QED
    BY <2>1, <2>2, <2>3, <2>4, <2>5, <2>6, <2>7, <2>8, <2>9, <2>10, <2>11, <2>12,
       <2>13, <2>14
    DEF SandboxNext
<1>3. SandboxInv => LeftRunningHasCause
  BY DEF SandboxInv
<1>4. QED
  BY <1>1, <1>2, <1>3, PTL DEF SandboxSpec

-----------------------------------------------------------------------------
Orphans == open \ {connection}

\* Every publish that is connecting may leave one orphan more, except the
\* one that finds the broker without an open connection.
Surplus == IF connection \notin open /\ Connecting # {} THEN 1 ELSE 0

BrokerInv ==
    /\ publish \in [Publishes -> {"idle", "connect", "send", "returned", "failed"}]
    /\ made \in Nat /\ connection \in Nat /\ races \in Nat
    /\ open \subseteq 1..made
    /\ IsFiniteSet(open)
    /\ Cardinality(Orphans) + Cardinality(Connecting) <= races + Surplus

LEMMA BrokerSets ==
  ASSUME BrokerInv
  PROVE  /\ IsFiniteSet(Orphans) /\ Cardinality(Orphans) \in Nat
         /\ IsFiniteSet(Connecting) /\ Cardinality(Connecting) \in Nat
         /\ Connecting # {} <=> Cardinality(Connecting) > 0
<1>1. IsFiniteSet(Connecting)
  BY BrokerAssumption, FS_Subset DEF Connecting
<1>2. IsFiniteSet(Orphans)
  BY FS_Subset DEF Orphans, BrokerInv
<1>3. QED
  BY <1>1, <1>2, FS_CardinalityType, FS_EmptySet DEF BrokerInv

\* A publish begins to connect, or is done with it.
LEMMA ConnectingChanges ==
  ASSUME BrokerInv, NEW p \in Publishes, NEW s, publish' = [publish EXCEPT ![p] = s]
  PROVE  Cardinality(Connecting') = Cardinality(Connecting)
            + (IF s = "connect" THEN 1 ELSE 0)
            - (IF publish[p] = "connect" THEN 1 ELSE 0)
<1>1. Connecting' = IF s = "connect" THEN Connecting \union {p} ELSE Connecting \ {p}
  BY DEF Connecting, BrokerInv
<1>2. p \in Connecting <=> publish[p] = "connect"
  BY DEF Connecting
<1>3. Cardinality(Connecting \union {p}) =
         IF p \in Connecting THEN Cardinality(Connecting) ELSE Cardinality(Connecting) + 1
  BY BrokerSets, FS_AddElement
<1>4. Cardinality(Connecting \ {p}) =
         IF p \in Connecting THEN Cardinality(Connecting) - 1 ELSE Cardinality(Connecting)
  BY BrokerSets, FS_RemoveElement
<1>5. QED
  BY <1>1, <1>2, <1>3, <1>4, BrokerSets

\* Only a race of connects leaves an open connection that nobody will close,
\* and each racer leaves at most one.
THEOREM OrphansComeFromRaces == BrokerSpec => []OrphansWereRaced
<1>1. BrokerInit => BrokerInv
  <2> SUFFICES ASSUME BrokerInit PROVE BrokerInv
      OBVIOUS
  <2>1. Orphans = {} /\ Connecting = {} /\ open = {}
    BY DEF BrokerInit, Orphans, Connecting
  <2>2. QED
    BY <2>1, FS_EmptySet DEF BrokerInit, BrokerInv, Surplus
<1>2. BrokerInv /\ [BrokerNext]_brokerVars => BrokerInv'
  <2> SUFFICES ASSUME BrokerInv, [BrokerNext]_brokerVars PROVE BrokerInv'
      OBVIOUS
  <2>1. ASSUME NEW p \in Publishes, Channel(p) PROVE BrokerInv'
    <3>1. CASE connection \in open
      BY <2>1, <3>1, ConnectingChanges, BrokerSets
      DEF Channel, BrokerInv, Surplus, Orphans
    <3>2. CASE connection \notin open
      <4>1. /\ Cardinality(Connecting') = Cardinality(Connecting) + 1
            /\ Orphans' = Orphans
            /\ races' = races + (IF Connecting = {} THEN 0 ELSE 1)
            /\ connection' = connection /\ open' = open
        BY <2>1, <3>2, ConnectingChanges, BrokerSets DEF Channel, Orphans
      <4>2. p \in Connecting'
        BY <2>1, <3>2 DEF Channel, Connecting, BrokerInv
      <4>3. QED
        BY <2>1, <3>2, <4>1, <4>2, BrokerSets DEF Channel, BrokerInv, Surplus
    <3>3. QED
      BY <3>1, <3>2
  <2>2. ASSUME NEW p \in Publishes, Connected(p) PROVE BrokerInv'
    <3>1. /\ Cardinality(Connecting') = Cardinality(Connecting) - 1
          /\ made' = made + 1 /\ connection' = made + 1
          /\ open' = open \union {made + 1}
          /\ made + 1 \notin open
          /\ races' = races
      <4>1. publish[p] = "connect" /\ publish' = [publish EXCEPT ![p] = "send"]
        BY <2>2 DEF Connected
      <4>2. Cardinality(Connecting') = Cardinality(Connecting) + 0 - 1
        BY <4>1, ConnectingChanges
      <4>3. QED
        BY <2>2, <4>2, BrokerSets DEF Connected, BrokerInv
    <3>2. Orphans' = open
      BY <3>1 DEF Orphans
    <3>3. Surplus' = 0
      BY <3>1 DEF Surplus
    <3>4. Cardinality(open) =
             Cardinality(Orphans) + (IF connection \in open THEN 1 ELSE 0)
      <4>1. IsFiniteSet(open) /\ Cardinality(open) \in Nat
        BY FS_CardinalityType DEF BrokerInv
      <4>2. Cardinality(Orphans) =
               IF connection \in open THEN Cardinality(open) - 1 ELSE Cardinality(open)
        BY <4>1, FS_RemoveElement DEF Orphans
      <4>3. QED
        BY <4>1, <4>2
    <3>5. IsFiniteSet(open')
      BY <3>1, FS_AddElement DEF BrokerInv
    <3>6. Cardinality(open) + Cardinality(Connecting') <= races
      <4>1. Cardinality(Orphans) + Cardinality(Connecting) <= races + Surplus
        BY DEF BrokerInv
      <4>2. QED
        BY <3>1, <3>4, <4>1, BrokerSets DEF Surplus, BrokerInv
    <3>7. QED
      BY <2>2, <3>1, <3>2, <3>3, <3>5, <3>6 DEF Connected, BrokerInv
  <2>3. ASSUME NEW p \in Publishes, Sent(p) \/ PublishFails(p) PROVE BrokerInv'
    <3>1. PICK s \in {"returned", "failed"} : publish' = [publish EXCEPT ![p] = s]
      BY <2>3 DEF Sent, PublishFails
    <3>2. Cardinality(Connecting') =
             Cardinality(Connecting) - (IF publish[p] = "connect" THEN 1 ELSE 0)
      <4>1. Cardinality(Connecting') =
               Cardinality(Connecting) + 0 - (IF publish[p] = "connect" THEN 1 ELSE 0)
        BY <3>1, ConnectingChanges
      <4>2. QED
        BY <4>1, BrokerSets
    <3>3. publish[p] # "connect" => Connecting' = Connecting
      BY <3>1 DEF Connecting, BrokerInv
    <3>4. /\ publish' \in [Publishes -> {"idle", "connect", "send", "returned", "failed"}]
          /\ UNCHANGED <<connection, open, made, races>> /\ Orphans' = Orphans
      BY <2>3, <3>1 DEF Sent, PublishFails, Orphans, BrokerInv
    <3>5. QED
      BY <3>2, <3>3, <3>4, BrokerSets DEF BrokerInv, Surplus
  <2>4. CASE Close
    <3>1. Orphans' = Orphans /\ Connecting' = Connecting /\ connection \notin open'
      BY <2>4 DEF Close, Orphans, Connecting
    <3>2. IsFiniteSet(open')
      BY <2>4, FS_RemoveElement DEF Close, BrokerInv
    <3>3. QED
      BY <2>4, <3>1, <3>2, BrokerSets DEF Close, BrokerInv, Surplus
  <2>5. CASE UNCHANGED brokerVars
    BY <2>5 DEF brokerVars, BrokerInv, Surplus, Orphans, Connecting
  <2>6. QED
    BY <2>1, <2>2, <2>3, <2>4, <2>5 DEF BrokerNext
<1>3. BrokerInv => OrphansWereRaced
  <2> SUFFICES ASSUME BrokerInv PROVE Cardinality(Orphans) <= races
      BY DEF OrphansWereRaced, Orphans
  <2>1. QED
    BY BrokerSets DEF BrokerInv, Surplus
<1>4. QED
  BY <1>1, <1>2, <1>3, PTL DEF BrokerSpec

=============================================================================
