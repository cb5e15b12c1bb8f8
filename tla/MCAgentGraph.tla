---------------------------- MODULE MCAgentGraph ----------------------------
(* Two or three nodes: leaves, chains, branches, cycles, missing targets.  *)
EXTENDS AgentGraph

MCTools == {"granted"}
MCNames == {"granted", "final"}
MCNodeNames == {"a", "b", "c"}
MCNextLists == {<<>>, <<"a">>, <<"b">>, <<"b", "c">>}

=============================================================================
