---------------------------- MODULE MCStateGraph ----------------------------
(* Two walkers over a sensitive and an ordinary node; cycles are possible. *)
EXTENDS StateGraph

CONSTANTS w1, w2, plain, guarded

MCWalkers == {w1, w2}
MCNames == {plain, guarded}
MCSensitive == {guarded}

=============================================================================
