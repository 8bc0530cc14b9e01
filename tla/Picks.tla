------------------------------- MODULE Picks --------------------------------
(***************************************************************************)
(* What a loop over a list keeps of it.                                    *)
(***************************************************************************)
EXTENDS Naturals, FiniteSets

\* The one sequence of the entries of q at the places I, in their order.
Picked(q, I) ==
    LET n == Cardinality(I)
    IN  {[i \in 1 .. n |-> q[f[i]]] :
            f \in {g \in [1 .. n -> I] :
                     /\ \A i, j \in 1 .. n : i < j => g[i] < g[j]
                     /\ \A k \in I : \E i \in 1 .. n : g[i] = k}}
=============================================================================
