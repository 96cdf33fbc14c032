------------------------------ MODULE EthBridge ------------------------------
(***************************************************************************)
(* The contracts OraisanGate, CosmosBlockHeader and OraisanBridge on the   *)
(* Ethereum side, external components: the repository holds their compiled *)
(* artifacts and the scripts under src/solidity/scripts/sdk that call them.*)
(*                                                                         *)
(* A Cosmos block is named by its height, which stands for its data hash   *)
(* too: every height carries a different update transaction.               *)
(***************************************************************************)
EXTENDS MerkleTree, FiniteSets

CONSTANTS
    RootHistorySize,  \* deposit roots the bridge remembers, 10 in the contract
    MaxClaims         \* bound on the claims of a behaviour

ASSUME EthAssumption == /\ RootHistorySize \in Nat \ {0}
                        /\ MaxClaims \in Nat

VARIABLES
    headers,        \* heights whose block header was accepted
    currentHeader,  \* the header accepted last, 0 before the first
    depositRoots,   \* the last RootHistorySize deposit roots, oldest first
    sentProof       \* claims paid out: <<key, payload>>

ethVars == <<headers, currentHeader, depositRoots, sentProof>>

EthTypeOK ==
    /\ headers \in SUBSET (Nat \ {0})
    /\ currentHeader \in headers \cup {0}
    /\ depositRoots \in Seq(Tree)
    /\ Len(depositRoots) <= RootHistorySize
    /\ sentProof \in SUBSET (Index \X Payload)

EthInit ==
    /\ headers = {}
    /\ currentHeader = 0
    /\ depositRoots = <<>>
    /\ sentProof = {}

\* updateblockHeaderTestnet: any height not seen before, a lower one too
UpdateBlockHeader(h) ==
    /\ h \notin headers
    /\ headers' = headers \cup {h}
    /\ currentHeader' = h
    /\ UNCHANGED <<depositRoots, sentProof>>

\* updateRootDepositTree: the proof is about a transaction of block h, and h
\* has to be the block of the current data hash ("Data hash is invalid!")
UpdateRootDepositTree(h, R) ==
    /\ h = currentHeader
    /\ depositRoots' = IF Len(depositRoots) < RootHistorySize
                       THEN Append(depositRoots, R)
                       ELSE Append(Tail(depositRoots), R)
    /\ UNCHANGED <<headers, currentHeader, sentProof>>

\* claimTransaction: leaf k of a known root, paid once
ClaimTransaction(k, p) ==
    /\ Cardinality(sentProof) < MaxClaims
    /\ \E i \in DOMAIN depositRoots : depositRoots[i][k] = p
    /\ <<k, p>> \notin sentProof
    /\ sentProof' = sentProof \cup {<<k, p>>}
    /\ UNCHANGED <<headers, currentHeader, depositRoots>>
=============================================================================
