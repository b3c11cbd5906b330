--------------------------- MODULE MCTransactions ---------------------------
(* Instances of Transactions for TLC.  Sessions are interchangeable.       *)
EXTENDS Transactions, TLC

SessionSymmetry == Permutations(Sessions)
=============================================================================
