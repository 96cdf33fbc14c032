--------------------------- MODULE MCDepositStatus ---------------------------
(***************************************************************************)
(* Instances of DepositStatus for TLC.                                     *)
(***************************************************************************)
EXTENDS DepositStatus

QueryAndUpdate == [r \in Requests |-> {"query", "update"}]

Symmetry == Permutations(Payload)
=============================================================================
