--------------------------- MODULE MCMessageStore ---------------------------
(* MessageStore for TLC.  What Compact picks, which the proofs reason      *)
(* about without recursion, is checked to be the filter load() computes.   *)
EXTENDS MessageStore, TLC

\* The persistent messages are told apart by nothing.
Symmetry == Permutations(Persistent)

SmallRecord == [msg : Persistent \cup {Phantom}, valid : BOOLEAN]

ASSUME PickIsSelectSeq ==
    \A n \in 0..3 : \A d \in [1..n -> SmallRecord] :
        Pick(d, ValidAt(d)) = SelectSeq(d, LAMBDA r : r.valid)
=============================================================================
