----------------------------- MODULE MCApproval -----------------------------
(* Instances of Approval for TLC.  Calls are interchangeable, and so are   *)
(* the ids of grants and of mutations.                                     *)
EXTENDS Approval, TLC

Symmetry == Permutations(Calls) \cup Permutations(Remembered) \cup Permutations(Mutations)
=============================================================================
