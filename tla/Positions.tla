----------------------------- MODULE Positions -----------------------------
(***************************************************************************)
(* Positions in a sequence, chosen by a condition and taken in their order *)
(* -- what a filter over a list leaves.                                    *)
(***************************************************************************)
EXTENDS Naturals, FiniteSets

(* The members of S, a finite set of natural numbers: the n-th is the one  *)
(* up to which S has n of them.                                            *)
InOrder(S) ==
    [n \in 1 .. Cardinality(S) |-> CHOOSE i \in S : Cardinality({j \in S : j <= i}) = n]
=============================================================================
