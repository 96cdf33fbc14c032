--------------------------- MODULE MCBridgeServer ---------------------------
(***************************************************************************)
(* Instances of BridgeServer for TLC in which every slot serves the same   *)
(* calls.                                                                  *)
(***************************************************************************)
EXTENDS BridgeRefinement

UpdateAndDelete == [r \in Requests |-> {"update", "delete"}]
QueryAndUpdate  == [r \in Requests |-> {"query", "update"}]
OnlyUpdate      == [r \in Requests |-> {"update"}]

\* Requests are interchangeable, and so are payloads.
Symmetry == Permutations(Requests) \cup Permutations(Payload)
=============================================================================
