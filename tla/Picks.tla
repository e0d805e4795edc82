-------------------------------- MODULE Picks --------------------------------
(* The subsequence of a sequence at given indices: the filter of a loop that  *)
(* keeps or erases elements, in a form that can be reasoned about.            *)
EXTENDS Naturals, Sequences, FiniteSets

\* The subsequence of s at the indices in I.
Pick(s, I) ==
    [k \in 1..Cardinality(I) |->
        s[CHOOSE i \in I : Cardinality({j \in I : j <= i}) = k]]

=============================================================================
