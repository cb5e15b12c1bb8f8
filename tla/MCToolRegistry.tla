--------------------------- MODULE MCToolRegistry ---------------------------
(* An agent that may use one of two tools and an agent that may use both,  *)
(* over one worker thread.                                                 *)
EXTENDS ToolRegistry

CONSTANTS a1, a2, search, write

MCAgents == {a1, a2}
MCNames == {search, write}
MCPermitted == [a \in MCAgents |-> IF a = a1 THEN {search} ELSE MCNames]

=============================================================================
