------------------------------ MODULE CommandLine ------------------------------
(***************************************************************************)
(* The bridge run by hand (README.md, Activity Flow): an operator types    *)
(* the scripts of rust/, circom/txs, go/ and solidity/scripts/sdk/examples *)
(* in any order, beside users who deposit and a server that works over the *)
(* same chains and the same files under resources/.                        *)
(*                                                                         *)
(* A script that only computes is one action: the inputs, witness and      *)
(* proof of one step of the README, which end in a new proof or, when one  *)
(* of them throws, leave the old one.  A script that talks to a chain has  *)
(* one action per answer and may end after any of them.  The operator has  *)
(* one shell: cmd is the script that runs.                                 *)
(*                                                                         *)
(* The checkout comes with files of an earlier deployment.  Its deposit    *)
(* files are Shipped; its heights and proofs are of another contract, 0    *)
(* and NoProof here, and nobody publishes them.                            *)
(***************************************************************************)
EXTENDS CosmosBridge, EthBridge, FiniteSets

CONSTANTS
    Shipped,           \* payloads of deposit0.json, deposit1.json, ... of the checkout
    MaxServerUpdates,  \* bound on the batches of the server
    NoProof

ASSUME CommandAssumption == /\ Shipped \in Seq(Payload)
                            /\ Len(Shipped) <= Capacity
                            /\ MaxServerUpdates \in Nat
                            /\ NoProof \notin BatchStatement

VARIABLES
    depositTree,  \* deposit_tree.json: n_leafs and nqueue_leafs
    depositInfo,  \* the files deposit<k>.json of depositInfo/, by k
    tx, block, commit,  \* heights of tx_data, block and block_header_commit
    proofs,       \* the last proof of each circuit
    cmd,          \* the script that runs and what it holds
    server,       \* what the server does, and the height of its transaction
    updates       \* batches of the server so far

fileVars == <<depositTree, depositInfo, tx, block, commit, proofs>>
vars == <<cosmosVars, ethVars, fileVars, cmd, server, updates>>

\* The public inputs of verifyClaimTransaction
ClaimStatement == [key : Index, payload : Payload, root : Tree]
NoClaim == [key |-> 0, payload |-> Zero, root |-> TreeOf(<<>>)]

\* A header proof and a root proof are named by the block they are about.
Proofs == [batch  : BatchStatement \cup {NoProof},
           header : Nat,
           root   : Nat,
           claim  : ClaimStatement \cup {NoClaim}]

None == [name |-> "none", n |-> 0]

\* Every file holds what its writers write.
TypeOK ==
    /\ CosmosTypeOK
    /\ EthTypeOK
    /\ depositTree \in [n : Nat, nq : Nat]
    /\ DOMAIN depositInfo \subseteq Index
    /\ \A k \in DOMAIN depositInfo : depositInfo[k] \in Row
    /\ {tx, block, commit} \subseteq 0 .. Len(txs)
    /\ proofs \in Proofs
    /\ {proofs.header, proofs.root} \subseteq 0 .. Len(txs)
    /\ cmd \in [name : {"none", "queue", "saveTx", "saveBlock"}, n : Nat]
    /\ cmd.name \in {"saveTx", "saveBlock"} => cmd.n \in DOMAIN txs
    /\ server \in [at : {"idle", "save", "header", "root"}, h : 0 .. Len(txs)]
    /\ updates \in 0 .. MaxServerUpdates

Init ==
    /\ CosmosInit
    /\ EthInit
    /\ depositTree = [n |-> 0, nq |-> Len(Shipped)]
    /\ depositInfo = [k \in 0 .. Len(Shipped) - 1 |->
                         [key |-> k, payload |-> Shipped[k + 1]]]
    /\ tx = 0 /\ block = 0 /\ commit = 0
    /\ proofs = [batch |-> NoProof, header |-> 0, root |-> 0, claim |-> NoClaim]
    /\ cmd = None
    /\ server = [at |-> "idle", h |-> 0]
    /\ updates = 0

Idle == cmd = None

-----------------------------------------------------------------------------
(* Steps 1 and 2: deposits and what the operator knows of them.            *)

\* A transfer of send-token.ts or of anybody else.  The script makes three, one
\* after the other, and may end after any of them.
SendToken(p) ==
    /\ Deposit(p)
    /\ UNCHANGED <<ethVars, fileVars, cmd, server, updates>>

\* QueryDepositTree() was answered and is saved.
QueryDepositTree ==
    /\ Idle
    /\ depositTree' = [n |-> nLeafs, nq |-> nQueueLeafs]
    /\ cmd' = [name |-> "queue", n |-> nLeafs]
    /\ UNCHANGED <<cosmosVars, ethVars, depositInfo, tx, block, commit, proofs,
                   server, updates>>

\* The files deposit<i + n_leafs>.json of a queue
Named(queue, n) == [k \in n .. n + Len(queue) - 1 |-> queue[k - n + 1]]

\* The folder after files were written over those there are
Saved(files, folder) ==
    [k \in DOMAIN files \cup DOMAIN folder |->
        IF k \in DOMAIN files THEN files[k] ELSE folder[k]]

\* Faulty: the files are named by their place in the queue.
QueryDepositQueue_FromZero ==
    /\ cmd.name = "queue"
    /\ depositInfo' = Saved(Named(depositQueue, 0), depositInfo)
    /\ cmd' = None
    /\ UNCHANGED <<cosmosVars, ethVars, depositTree, tx, block, commit, proofs,
                   server, updates>>

\* The queue is asked for later than the tree and named after the n_leafs of
\* before; no file is ever removed.
QueryDepositQueue ==
    /\ cmd.name = "queue"
    /\ depositInfo' = Saved(Named(depositQueue, cmd.n), depositInfo)
    /\ cmd' = None
    /\ UNCHANGED <<cosmosVars, ethVars, depositTree, tx, block, commit, proofs,
                   server, updates>>

-----------------------------------------------------------------------------
(* Steps 3 and 8: proofs from these files.                                 *)

\* The number of the i-th file
Number(i) == CHOOSE k \in DOMAIN depositInfo :
                Cardinality({j \in DOMAIN depositInfo : j < k}) = i - 1

\* readJSONFilesInFolder: the files in the order of their numbers
Data == [i \in 1 .. Cardinality(DOMAIN depositInfo) |-> depositInfo[Number(i)]]

\* Faulty: the batch is filled up behind the leaves of the tree, not the queue.
NewValue_PadsTree ==
    [i \in DOMAIN Data |-> Data[i].payload]
        \o [i \in 1 .. (IF depositTree.n < Batch THEN Batch - depositTree.n ELSE 0) |-> Zero]

\* newValue: a leaf per file, then hash([0]) for what the queue lacks of a batch
NewValue ==
    [i \in DOMAIN Data |-> Data[i].payload]
        \o [i \in 1 .. (IF depositTree.nq < Batch THEN Batch - depositTree.nq ELSE 0) |-> Zero]

\* No tree.update(i, newValue[i]) gets an undefined leaf.
Complete == depositTree.n + Batch <= Len(NewValue)

\* The input of verifyRootBatchTxsCosmos
BatchInput ==
    [key      |-> depositTree.n,
     newValue |-> [j \in 1 .. Batch |-> NewValue[depositTree.n + j]],
     oldRoot  |-> TreeOf(SubSeq(NewValue, 1, depositTree.n)),
     newRoot  |-> TreeOf(SubSeq(NewValue, 1, depositTree.n + Batch))]

\* The input is one the circuit takes, or one of the three programs fails.
ProveBatch ==
    /\ Idle
    /\ Complete
    /\ BatchInput \in BatchStatement
    /\ Provable(BatchInput)
    /\ proofs' = [proofs EXCEPT !.batch = BatchInput]
    /\ UNCHANGED <<cosmosVars, ethVars, depositTree, depositInfo, tx, block, commit,
                   cmd, server, updates>>

\* The input of verifyClaimTransaction: the first deposit, always
ClaimInput == [key     |-> Data[1].key,
               payload |-> Data[1].payload,
               root    |-> TreeOf(SubSeq(NewValue, 1, depositTree.n + Batch))]

ProveClaim ==
    /\ Idle
    /\ Complete
    /\ Data # <<>>
    /\ ClaimInput \in ClaimStatement
    /\ ClaimInput.root[ClaimInput.key] = ClaimInput.payload
    /\ SamePath(ClaimInput.root, 0, ClaimInput.root, ClaimInput.key)
    /\ proofs' = [proofs EXCEPT !.claim = ClaimInput]
    /\ UNCHANGED <<cosmosVars, ethVars, depositTree, depositInfo, tx, block, commit,
                   cmd, server, updates>>

-----------------------------------------------------------------------------
(* Step 4: the new root on Cosmos, and the block it is in.                 *)

\* updateDepositTree; a refused transaction throws and the script ends.
Execute ==
    /\ Idle
    /\ proofs.batch # NoProof
    /\ UpdateDepositTree(proofs.batch)
    /\ cmd' = [name |-> "saveTx", n |-> Len(txs) + 1]
    /\ UNCHANGED <<mempool, ethVars, fileVars, server, updates>>

\* QueryTxByHash was answered and is saved.
SaveTx ==
    /\ cmd.name = "saveTx"
    /\ tx' = cmd.n
    /\ cmd' = [name |-> "saveBlock", n |-> cmd.n]
    /\ UNCHANGED <<cosmosVars, ethVars, depositTree, depositInfo, block, commit, proofs,
                   server, updates>>

\* The block is saved, and the validators, which stay the same; unlike the
\* server the script does not ask for the commit.
SaveBlock ==
    /\ cmd.name = "saveBlock"
    /\ block' = cmd.n
    /\ cmd' = None
    /\ UNCHANGED <<cosmosVars, ethVars, depositTree, depositInfo, tx, commit, proofs,
                   server, updates>>

\* A call of the script fails: QueryTxByHash and its like log the error and
\* return undefined, which the next line trips over.  After Execute this is
\* also client.execute giving up on a transaction that is committed later.
Abort ==
    /\ ~Idle
    /\ cmd' = None
    /\ UNCHANGED <<cosmosVars, ethVars, fileVars, server, updates>>

-----------------------------------------------------------------------------
(* Steps 5, 6, 7 and 9: the header, the root and the claim on Ethereum.    *)

\* go/verifyBlock reads the header in block_header_commit.json.
ProveHeader ==
    /\ Idle
    /\ commit # 0
    /\ proofs' = [proofs EXCEPT !.header = commit]
    /\ UNCHANGED <<cosmosVars, ethVars, depositTree, depositInfo, tx, block, commit,
                   cmd, server, updates>>

UpdateBlockHeaderTestnet ==
    /\ Idle
    /\ proofs.header # 0
    /\ UpdateBlockHeader(proofs.header)
    /\ UNCHANGED <<cosmosVars, fileVars, cmd, server, updates>>

\* go/verifyTx panics unless the transaction is one of the block's.
ProveRoot ==
    /\ Idle
    /\ tx # 0
    /\ tx = block
    /\ proofs' = [proofs EXCEPT !.root = tx]
    /\ UNCHANGED <<cosmosVars, ethVars, depositTree, depositInfo, tx, block, commit,
                   cmd, server, updates>>

\* Faulty: the root is taken from the proof for Cosmos, committed or not.
UpdateRootDeposit_FromBatch ==
    /\ Idle
    /\ proofs.root # 0
    /\ proofs.batch # NoProof
    /\ UpdateRootDepositTree(proofs.root, proofs.batch.newRoot)
    /\ UNCHANGED <<cosmosVars, fileVars, cmd, server, updates>>

\* The proof is about the root in the transaction.
UpdateRootDeposit ==
    /\ Idle
    /\ proofs.root # 0
    /\ UpdateRootDepositTree(proofs.root, txs[proofs.root])
    /\ UNCHANGED <<cosmosVars, fileVars, cmd, server, updates>>

ClaimDeposit ==
    /\ Idle
    /\ proofs.claim # NoClaim
    /\ \E i \in DOMAIN depositRoots : depositRoots[i] = proofs.claim.root
    /\ ClaimTransaction(proofs.claim.key, proofs.claim.payload)
    /\ UNCHANGED <<cosmosVars, fileVars, cmd, server, updates>>

-----------------------------------------------------------------------------
(* PUT /update of the server over the same files.  BridgeServer has it in  *)
(* detail; here it is what the operator meets of it: it proves from its    *)
(* database, so that its batch is the one the contract expects, saves the  *)
(* three answers in one step, and may fail after any.                      *)

ServerBatch == [key      |-> nLeafs,
                newValue |-> NextBatch,
                oldRoot  |-> depositRoot,
                newRoot  |-> Written(depositRoot, nLeafs, NextBatch, Batch)]

ServerExecute ==
    /\ server.at = "idle"
    /\ updates < MaxServerUpdates
    /\ UpdateDepositTree(ServerBatch)
    /\ proofs' = [proofs EXCEPT !.batch = ServerBatch]
    /\ server' = [at |-> "save", h |-> Len(txs) + 1]
    /\ updates' = updates + 1
    /\ UNCHANGED <<mempool, ethVars, depositTree, depositInfo, tx, block, commit, cmd>>

\* Faulty: the commit is asked for one block further on.
ServerSave_NextCommit ==
    /\ server.at = "save"
    /\ tx' = server.h /\ block' = server.h /\ commit' = server.h + 1
    /\ server' = [at |-> "header", h |-> server.h]
    /\ UNCHANGED <<cosmosVars, ethVars, depositTree, depositInfo, proofs, cmd, updates>>

ServerSave ==
    /\ server.at = "save"
    /\ tx' = server.h /\ block' = server.h /\ commit' = server.h
    /\ server' = [at |-> "header", h |-> server.h]
    /\ UNCHANGED <<cosmosVars, ethVars, depositTree, depositInfo, proofs, cmd, updates>>

ServerHeader ==
    /\ server.at = "header"
    /\ UpdateBlockHeader(commit)
    /\ proofs' = [proofs EXCEPT !.header = commit]
    /\ server' = [at |-> "root", h |-> server.h]
    /\ UNCHANGED <<cosmosVars, depositTree, depositInfo, tx, block, commit, cmd, updates>>

\* The operator may have replaced tx_data.json and block.json meanwhile.
ServerRoot ==
    /\ server.at = "root"
    /\ tx = block
    /\ UpdateRootDepositTree(tx, txs[tx])
    /\ proofs' = [proofs EXCEPT !.root = tx]
    /\ server' = [at |-> "idle", h |-> 0]
    /\ UNCHANGED <<cosmosVars, depositTree, depositInfo, tx, block, commit, cmd, updates>>

ServerFails ==
    /\ server.at # "idle"
    /\ server' = [at |-> "idle", h |-> 0]
    /\ UNCHANGED <<cosmosVars, ethVars, fileVars, cmd, updates>>

-----------------------------------------------------------------------------
Users == \E p \in Payload : SendToken(p)

Operator ==
    \/ QueryDepositTree \/ QueryDepositQueue
    \/ ProveBatch \/ Execute \/ SaveTx \/ SaveBlock \/ Abort
    \/ ProveHeader \/ UpdateBlockHeaderTestnet
    \/ ProveRoot \/ UpdateRootDeposit
    \/ ProveClaim \/ ClaimDeposit

Server == ServerExecute \/ ServerSave \/ ServerHeader \/ ServerRoot \/ ServerFails

Next == Users \/ Operator \/ Server

Spec == Init /\ [][Next]_vars

-----------------------------------------------------------------------------
\* What is paid out on Ethereum was deposited on Cosmos under that key, though
\* the operator runs the steps in any order, from files of an earlier
\* deployment, of a batch that was refused or of the server (README.md step 9).
PaidWasDeposited ==
    \A c \in sentProof : c[1] < nLeafs /\ deposits[c[1] + 1] = c[2]

\* The file of a deposit is the row the contract has under its number.
Right(k) == /\ k < Len(deposits)
            /\ depositInfo[k] = [key |-> k, payload |-> deposits[k + 1]]

\* The files say what the contract says now, of every deposit and no other.
Current == /\ depositTree = [n |-> nLeafs, nq |-> nQueueLeafs]
           /\ DOMAIN depositInfo = 0 .. Len(deposits) - 1
           /\ \A k \in DOMAIN depositInfo : Right(k)

\* From files that are current step 3 makes a proof step 4 gets accepted, with
\* any number of batches done and any number of deposits waiting
\* (genDepositTreeProof.js, padding, order and slice of newValue).
CurrentFilesProve ==
    Current /\ (AllowEmptyBatch \/ nQueueLeafs > 0)
        => Complete /\ Accepts(BatchInput)

\* A file that is right stays right, as long as the tree does not grow between
\* the two queries of query-deposit-tree.ts; when it does, the rows are stored
\* under the numbers of others.
RightFilesStay ==
    [][cmd.name = "queue" => \/ cmd.n < nLeafs
                             \/ \A k \in DOMAIN depositInfo : Right(k) => Right(k)']_vars
=============================================================================
