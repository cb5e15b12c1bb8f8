----------------------------- MODULE MCAgentRun -----------------------------
(***************************************************************************)
(* Small instances of AgentRun: one granted tool, one tool the model asks  *)
(* for without having been granted it, and the action "final".             *)
(***************************************************************************)
EXTENDS AgentRunner

MCTools == {"granted"}
MCNames == {"granted", "forbidden", "final"}

=============================================================================
