----------------------------- MODULE MCAdapters -----------------------------
(* The adapters of servers and processes.  They share nothing, so a        *)
(* behaviour exercises one of them, and the others stay as they began.     *)
EXTENDS QdrantVectorStore, RabbitMQBroker, DockerSandbox

CONSTANTS u1, u2, q1, p1, p2, p3

MCUpserts == {u1, u2}
MCSearches == {q1}
MCPublishes == {p1, p2, p3}

VARIABLE subject

adapterVars == <<subject, qdrantVars, brokerVars, sandboxVars>>

Init ==
    /\ subject \in {"qdrant", "broker", "sandbox"}
    /\ QdrantInit
    /\ BrokerInit
    /\ SandboxInit

Next ==
    /\ UNCHANGED subject
    /\ \/ /\ subject = "qdrant"
          /\ QdrantNext
          /\ UNCHANGED <<brokerVars, sandboxVars>>
       \/ /\ subject = "broker"
          /\ BrokerNext
          /\ UNCHANGED <<qdrantVars, sandboxVars>>
       \/ /\ subject = "sandbox"
          /\ SandboxNext
          /\ UNCHANGED <<qdrantVars, brokerVars>>

Spec == Init /\ [][Next]_adapterVars

=============================================================================
