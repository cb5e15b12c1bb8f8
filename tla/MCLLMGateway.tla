---------------------------- MODULE MCLLMGateway ----------------------------
(* Two callers that compete for one worker thread, one of which names the  *)
(* model it wants, and one that wants a model whose route is disabled.     *)
EXTENDS LLMGateway

CONSTANTS c1, c2, c3

MCCallers == {c1, c2, c3}
MCWanted == c1 :> None @@ c2 :> "small" @@ c3 :> "old"

Route(model, priority, enabled) ==
    [model |-> model, priority |-> priority, enabled |-> enabled]

\* The best of all is disabled, and two of one priority serve one model.
MCRoutes == << Route("small", 100, TRUE), Route("large", 50, TRUE),
               Route("small", 100, TRUE), Route("old", 1, FALSE) >>

=============================================================================
