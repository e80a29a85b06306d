------------------------------- MODULE Common -------------------------------
(* What the modules that Console joins share. *)
EXTENDS Naturals, Sequences, FiniteSets

CONSTANT None       \* the value of a field that holds nothing

\* Array.filter: of the list l what stands at the positions in K, in their order.
\* (SelectSeq in a form that proofs can look into.)
AtPositions(l, K) ==
    LET Nth(j) == CHOOSE k \in K : Cardinality({m \in K : m <= k}) = j
    IN  [j \in 1 .. Cardinality(K) |-> l[Nth(j)]]
=============================================================================
