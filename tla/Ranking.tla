------------------------------ MODULE Ranking ------------------------------
(***************************************************************************)
(* Sorting, as the library of the source's language does it: sorted() in   *)
(* llm_models/gateway.py, list.sort() in memory/store.py.  SortSeq and     *)
(* SelectSeq of the standard modules say the same, but nothing can be      *)
(* proved about them.                                                      *)
(***************************************************************************)
EXTENDS Naturals, FiniteSets

\* The elements of S, the smallest first: the k-th is the one that k - 1
\* others come before.  R is a strict total order of S, a set of pairs; that
\* the sort is stable is for R to say, where two have the same key.
InOrder(S, R) ==
    [k \in 1..Cardinality(S) |->
        CHOOSE x \in S : Cardinality({y \in S : <<y, x>> \in R}) = k - 1]

=============================================================================
