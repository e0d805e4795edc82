------------------------------ MODULE MCCatalogue ------------------------------
(* The catalogue with names that are interchangeable. *)
EXTENDS Catalogue, TLC

Symmetry ==
    Permutations(Exchange) \cup Permutations(Queue) \cup Permutations(Key)
=============================================================================
