---------------------------- MODULE CosmosBridge ----------------------------
(***************************************************************************)
(* The Cosmos bridge contract, an external component: its Rust source is   *)
(* not part of the repository.  It is modelled from the messages the       *)
(* server and the scripts under src/rust send to it and from what they do  *)
(* with the answers.                                                       *)
(*                                                                         *)
(* A deposit gets the next key.  Deposits below nLeafs are leaves of the   *)
(* deposit tree, the others wait in the deposit queue.  update_deposit_tree*)
(* moves at most Batch of them into the tree, if the proof sent with it    *)
(* speaks of the contract's own state.                                     *)
(***************************************************************************)
EXTENDS MerkleTree

CONSTANTS
    MaxDeposits,      \* bound on the deposits of a behaviour
    AllowEmptyBatch   \* does the contract accept an update with an empty queue?

ASSUME DepositAssumption == /\ MaxDeposits \in Nat
                            /\ MaxDeposits + Batch <= Capacity
                            /\ AllowEmptyBatch \in BOOLEAN

VARIABLES
    deposits,     \* payloads in key order: deposits[k + 1] has key k
    nLeafs,       \* n_leafs of the query deposit_tree
    depositRoot,  \* root of the query deposit_tree
    txs,          \* roots set by the committed updates; the i-th is at height i
    mempool       \* updates that were sent and whose answer was never seen

cosmosVars == <<deposits, nLeafs, depositRoot, txs, mempool>>

Row == [key : Nat, payload : Payload]

CosmosTypeOK ==
    /\ deposits \in Seq(Payload)
    /\ Len(deposits) <= MaxDeposits
    /\ nLeafs \in 0 .. Len(deposits)
    /\ depositRoot \in Tree
    /\ txs \in Seq(Tree)
    /\ mempool \subseteq BatchStatement

CosmosInit ==
    /\ deposits = <<>>
    /\ nLeafs = 0
    /\ depositRoot = TreeOf(<<>>)
    /\ txs = <<>>
    /\ mempool = {}

\* nqueue_leafs of the query deposit_tree, and the query deposit_queue
nQueueLeafs == Len(deposits) - nLeafs
depositQueue == [j \in 1 .. nQueueLeafs |->
                    [key |-> nLeafs + j - 1, payload |-> deposits[nLeafs + j]]]

\* The leaves the contract expects in the next batch, padded with Zero.
NextBatch == [j \in 1 .. Batch |-> IF j <= nQueueLeafs THEN deposits[nLeafs + j]
                                                       ELSE Zero]

\* The contract rebuilds the public input from its own state and verifies.
Accepts(s) ==
    /\ AllowEmptyBatch \/ nQueueLeafs > 0
    /\ s.key = nLeafs
    /\ s.newValue = NextBatch
    /\ s.oldRoot = depositRoot
    /\ Provable(s)

Deposit(p) ==
    /\ Len(deposits) < MaxDeposits
    /\ deposits' = Append(deposits, p)
    /\ UNCHANGED <<nLeafs, depositRoot, txs, mempool>>

UpdateDepositTree(s) ==
    /\ Accepts(s)
    /\ nLeafs' = IF nQueueLeafs < Batch THEN Len(deposits) ELSE nLeafs + Batch
    /\ depositRoot' = s.newRoot
    /\ txs' = Append(txs, s.newRoot)
    /\ UNCHANGED deposits

\* A transaction nobody waits for any more is committed, or fails.
LateCommit(s) ==
    /\ s \in mempool
    /\ mempool' = mempool \ {s}
    /\ \/ UpdateDepositTree(s)
       \/ ~Accepts(s) /\ UNCHANGED <<deposits, nLeafs, depositRoot, txs>>
=============================================================================
