--------------------------- MODULE BridgeRefinement ---------------------------
(***************************************************************************)
(* The server with the two contracts implements Bridge: a root stands for  *)
(* the number of leaves below it, and the leaves are those of the deposits.*)
(***************************************************************************)
EXTENDS BridgeServer

\* The number of leaves of a root whose leaves are its first positions
LeafCount(R) == CHOOSE m \in 0 .. Capacity : \A i \in Index : R[i] # Zero <=> i < m

LeafCounts(s) == [i \in DOMAIN s |-> LeafCount(s[i])]

Abstract == INSTANCE Bridge WITH
                Memory  <- RootHistorySize,
                covered <- nLeafs,
                commits <- LeafCounts(txs),
                known   <- LeafCounts(depositRoots),
                paid    <- sentProof

\* Whatever requests do to each other, to the database and to the files, and
\* wherever they fail, the chains see deposits covered in order, only committed
\* coverages relayed, and only deposits of a relayed coverage paid, once.
ImplementsBridge == Abstract!Spec
=============================================================================
