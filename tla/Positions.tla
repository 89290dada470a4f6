----------------------------- MODULE Positions -----------------------------
(***************************************************************************)
(* The part of a sequence that stands at some positions, in its order: for *)
(* a buffer that a step divides, keeping some of its items.                *)
(***************************************************************************)
EXTENDS Naturals, Sequences, FiniteSets

\* The items of q at the positions P, in their order.
Rows(q, P) ==
    LET At(k) == CHOOSE i \in P : Cardinality({j \in P : j <= i}) = k
    IN [k \in 1..Cardinality(P) |-> q[At(k)]]
=============================================================================
