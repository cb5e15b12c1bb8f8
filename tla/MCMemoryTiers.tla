--------------------------- MODULE MCMemoryTiers ---------------------------
(* Texts shorter and longer than the cut-off of 4000 characters, two of    *)
(* which fit beside a compressed entry and three of which do not fit into  *)
(* the window; one that is not similar to the query; and one that is too   *)
(* long even alone.  That one is only added first: behind another entry no *)
(* round makes it fit, and add() goes round for ever.                      *)
EXTENDS MemoryTiers

TooLong == 13600
MCTexts == {700, 800, 4600, TooLong}
MCMaxCalls == [s \in Stores |-> IF s = "in_memory" THEN 6 ELSE 3]
MCScore == [n \in MCTexts |-> CASE n = 700 -> 1 [] n = 800 -> 0 [] OTHER -> 2]

MCNext ==
    /\ TiersNext
    /\ \A k \in DOMAIN texts' : texts'[k] = TooLong => k = 1

MCSpec ==
    TiersInit /\ [][MCNext]_tierVars
              /\ WF_tierVars(CompressRound) /\ WF_tierVars(Added)

=============================================================================
