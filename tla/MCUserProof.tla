----------------------------- MODULE MCUserProof -----------------------------
(***************************************************************************)
(* Instances of BridgeServer for TLC with GET /proof.  One slot imports    *)
(* deposits and updates the roots, the others make claim proofs.           *)
(***************************************************************************)
EXTENDS BridgeServer

CONSTANT Importer    \* the slot that serves GET /query and PUT /update

OneImporter  == [r \in Requests |-> IF r = Importer THEN {"query", "update"}
                                                    ELSE {"proof"}]

\* The other slots serve GET /query, too.
TwoImporters == [r \in Requests |-> IF r = Importer THEN {"query", "update"}
                                                    ELSE {"query", "proof"}]

\* Payloads are interchangeable, and so are the slots other than Importer.
Symmetry == Permutations(Payload) \cup Permutations(Requests \ {Importer})
=============================================================================
