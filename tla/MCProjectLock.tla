--------------------------- MODULE MCProjectLock ---------------------------
(* Instances of ProjectLock for TLC: the processes run on one machine, or  *)
(* on two machines that share the project folder.                          *)
EXTENDS ProjectLock, TLC

CONSTANTS p1, p2, p3, here, there

OneHost  == [p \in {p1, p2, p3} |-> here]
TwoHosts == (p1 :> here @@ p2 :> here @@ p3 :> there)

(* Directory identities are only compared; so are processes of one host.   *)
(* Nonces are drawn by CHOOSE and are not permuted.                        *)
InodeSymmetry == Permutations(Inodes)
FullSymmetry  == Permutations(Procs) \cup InodeSymmetry
=============================================================================
