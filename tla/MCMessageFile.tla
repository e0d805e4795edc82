---------------------------- MODULE MCMessageFile ----------------------------
(* MessageFile for TLC: messages and ids are interchangeable. *)
EXTENDS MessageFile, TLC

Symmetry == Permutations(Msg) \cup Permutations(Id)
=============================================================================
