-------------------------- MODULE CommandLine_proofs --------------------------
(***************************************************************************)
(* What is paid out was deposited, whatever the operator and the server do *)
(* to each other's files, and files that are current make a proof that is  *)
(* accepted: theorems about CommandLine for every value of its constants.  *)
(* For the first all that counts of the files is that every height in them *)
(* is one of the chain; the contracts do the rest.                         *)
(***************************************************************************)
EXTENDS CommandLine, SequenceTheorems, FiniteSetTheorems, TLAPS

-----------------------------------------------------------------------------
(* The invariant.                                                          *)

\* The contracts' variables and the proofs hold values of their kinds.
ContractTypeOK ==
    /\ deposits \in Seq(Payload)
    /\ Len(deposits) <= MaxDeposits
    /\ nLeafs \in 0 .. Len(deposits)
    /\ depositRoot \in Tree
    /\ txs \in Seq(Tree)
    /\ depositRoots \in Seq(Tree)
    /\ sentProof \in SUBSET (Index \X Payload)
    /\ proofs \in Proofs

\* A height in a file, in the shell or in the server is one of the chain, and
\* the server relays no root before it saved a transaction.
HeightsInv ==
    /\ {tx, block, commit, proofs.header, proofs.root} \subseteq 0 .. Len(txs)
    /\ cmd.name \in {"saveTx", "saveBlock"} => cmd.n \in 1 .. Len(txs)
    /\ server.at # "idle" => server.h \in 1 .. Len(txs)
    /\ server.at \in {"header", "root"} => tx # 0

\* The root of the deposit tree after m deposits
PrefixRoot(m) == [i \in Index |-> IF i < m THEN deposits[i + 1] ELSE Zero]

CosmosRootIsPrefix == depositRoot = PrefixRoot(nLeafs)

TxRootsInv == \A i \in DOMAIN txs : \E m \in 0 .. nLeafs : txs[i] = PrefixRoot(m)

EthRootsAreCosmosRoots ==
    \A i \in DOMAIN depositRoots : \E m \in 0 .. nLeafs : depositRoots[i] = PrefixRoot(m)

Inv == /\ ContractTypeOK
       /\ HeightsInv
       /\ CosmosRootIsPrefix
       /\ TxRootsInv
       /\ EthRootsAreCosmosRoots
       /\ PaidWasDeposited

-----------------------------------------------------------------------------
(* What a step does to each of the chains.                                 *)

chain == <<deposits, nLeafs, depositRoot, txs>>

\* A height that may be relayed: one of the files or of the server's memory.
RootStep == \E h \in {proofs.root, tx} : h # 0 /\ UpdateRootDepositTree(h, txs[h])

\* The Cosmos contract moves only by a deposit and by an accepted update.
LEMMA CosmosStep ==
    ASSUME [Next]_vars
    PROVE  \/ UNCHANGED chain
           \/ \E p \in Payload : Deposit(p)
           \/ \E s : UpdateDepositTree(s)
<1> USE DEF chain, cosmosVars
<1>1. CASE UNCHANGED vars
  BY <1>1 DEF vars
<1>2. CASE Users
  BY <1>2 DEF Users, SendToken
<1>3. CASE Operator
  BY <1>3 DEF Operator, QueryDepositTree, QueryDepositQueue, ProveBatch, Execute, SaveTx,
              SaveBlock, Abort, ProveHeader, UpdateBlockHeaderTestnet, ProveRoot,
              UpdateRootDeposit, ProveClaim, ClaimDeposit
<1>4. CASE Server
  BY <1>4 DEF Server, ServerExecute, ServerSave, ServerHeader, ServerRoot, ServerFails
<1>5. QED  BY <1>1, <1>2, <1>3, <1>4 DEF Next

\* The bridge on Ethereum moves only by a root and by a claim.
LEMMA EthStep ==
    ASSUME ContractTypeOK, HeightsInv, [Next]_vars
    PROVE  \/ UNCHANGED <<depositRoots, sentProof>>
           \/ RootStep
           \/ \E k \in Index, p \in Payload : ClaimTransaction(k, p)
<1> USE DEF ethVars
<1>1. CASE UNCHANGED vars
  BY <1>1 DEF vars
<1>2. CASE Users
  BY <1>2 DEF Users, SendToken
<1>3. CASE ClaimDeposit
  <2>1. proofs.claim \in ClaimStatement
    BY <1>3 DEF ClaimDeposit, ContractTypeOK, Proofs
  <2>2. proofs.claim.key \in Index /\ proofs.claim.payload \in Payload
    BY <2>1 DEF ClaimStatement
  <2>3. QED  BY <1>3, <2>2 DEF ClaimDeposit
<1>4. CASE Operator /\ ~ClaimDeposit
  BY <1>4 DEF Operator, QueryDepositTree, QueryDepositQueue, ProveBatch, Execute, SaveTx,
              SaveBlock, Abort, ProveHeader, UpdateBlockHeaderTestnet, UpdateBlockHeader,
              ProveRoot, UpdateRootDeposit, ProveClaim, RootStep
<1>5. CASE Server
  BY <1>5 DEF Server, ServerExecute, ServerSave, ServerHeader, UpdateBlockHeader,
              ServerRoot, ServerFails, RootStep, HeightsInv
<1>6. QED  BY <1>1, <1>2, <1>3, <1>4, <1>5 DEF Next

-----------------------------------------------------------------------------
(* Types and heights.                                                      *)

\* The batch the contract expects is one of leaves.
LEMMA BatchType ==
    ASSUME ContractTypeOK
    PROVE  /\ nQueueLeafs \in Nat
           /\ NextBatch \in [1 .. Batch -> Leaf]
<1> USE SizeAssumption DEF ContractTypeOK, nQueueLeafs, NextBatch, Leaf
<1>1. nQueueLeafs \in Nat /\ nLeafs \in Nat /\ nLeafs + nQueueLeafs = Len(deposits)
  OBVIOUS
<1>2. \A j \in 1 .. nQueueLeafs : nLeafs + j \in 1 .. Len(deposits) /\ nLeafs + j - 1 \in Nat
  OBVIOUS
<1>3. \A j \in 1 .. Batch : j <= nQueueLeafs => deposits[nLeafs + j] \in Payload
  BY <1>2
<1>5. QED  BY <1>1, <1>3

\* An accepted update writes the batch the contract expects.
LEMMA AcceptedRoot ==
    ASSUME ContractTypeOK, NEW s, Accepts(s)
    PROVE  /\ s.newRoot = Written(depositRoot, nLeafs, NextBatch, Batch)
           /\ s.newRoot \in Tree
           /\ nLeafs + Batch <= Capacity
<1>1. s.newRoot = Written(depositRoot, nLeafs, NextBatch, Batch) /\ nLeafs + Batch <= Capacity
  BY DEF Accepts, Provable
<1>2. ASSUME NEW i \in nLeafs .. (nLeafs + Batch - 1)
      PROVE  NextBatch[i - nLeafs + 1] \in Leaf
  <2>1. i - nLeafs + 1 \in 1 .. Batch
    BY SizeAssumption DEF ContractTypeOK
  <2>2. QED  BY <2>1, BatchType
<1>3. Written(depositRoot, nLeafs, NextBatch, Batch) \in Tree
  BY <1>2 DEF Written, Tree, ContractTypeOK
<1>4. QED  BY <1>1, <1>3

\* Every step keeps the types.
LEMMA TypeStep ==
    ASSUME ContractTypeOK, HeightsInv, [Next]_vars
    PROVE  ContractTypeOK'
<1> USE DEF ContractTypeOK
<1>1. /\ deposits' \in Seq(Payload) /\ Len(deposits') <= MaxDeposits
      /\ nLeafs' \in 0 .. Len(deposits') /\ depositRoot' \in Tree /\ txs' \in Seq(Tree)
  <2>1. CASE UNCHANGED chain
    BY <2>1 DEF chain
  <2>2. ASSUME NEW p \in Payload, Deposit(p)
        PROVE  /\ deposits' \in Seq(Payload) /\ Len(deposits') = Len(deposits) + 1
               /\ Len(deposits') <= MaxDeposits /\ UNCHANGED <<nLeafs, depositRoot, txs>>
    BY <2>2, DepositAssumption DEF Deposit
  <2>3. ASSUME NEW s, UpdateDepositTree(s)
        PROVE  /\ nLeafs' \in 0 .. Len(deposits) /\ depositRoot' \in Tree
               /\ txs' \in Seq(Tree) /\ UNCHANGED deposits
    <3>1. s.newRoot \in Tree
      BY <2>3, AcceptedRoot DEF UpdateDepositTree
    <3>2. nLeafs' \in 0 .. Len(deposits)
      BY <2>3, SizeAssumption DEF UpdateDepositTree, nQueueLeafs
    <3>3. QED  BY <2>3, <3>1, <3>2 DEF UpdateDepositTree
  <2>4. QED  BY <2>1, <2>2, <2>3, CosmosStep
<1>2. depositRoots' \in Seq(Tree) /\ sentProof' \in SUBSET (Index \X Payload)
  <2>1. CASE UNCHANGED <<depositRoots, sentProof>>
    BY <2>1
  <2>2. CASE RootStep
    <3>1. PICK h \in {proofs.root, tx} : h # 0 /\ UpdateRootDepositTree(h, txs[h])
      BY <2>2 DEF RootStep
    <3>2. h \in 1 .. Len(txs) /\ txs[h] \in Tree
      BY <3>1 DEF HeightsInv
    <3>3. QED  BY <3>1, <3>2, EthAssumption DEF UpdateRootDepositTree
  <2>3. CASE \E k \in Index, p \in Payload : ClaimTransaction(k, p)
    BY <2>3 DEF ClaimTransaction
  <2>4. QED  BY <2>1, <2>2, <2>3, EthStep
<1>3. proofs' \in Proofs
  <2> USE DEF Proofs
  <2>1. CASE ProveBatch \/ ProveClaim
    BY <2>1 DEF ProveBatch, ProveClaim
  <2>2. CASE ProveHeader \/ ProveRoot
    BY <2>2 DEF ProveHeader, ProveRoot, HeightsInv
  <2>3. CASE ServerExecute
    <3>1. ServerBatch \in BatchStatement
      <4>1. /\ Accepts(ServerBatch) /\ nLeafs \in Nat /\ NextBatch \in [1 .. Batch -> Leaf]
        BY <2>3, BatchType DEF ServerExecute, UpdateDepositTree
      <4>2. /\ nLeafs + Batch <= Capacity
            /\ Written(depositRoot, nLeafs, NextBatch, Batch) \in Tree
        <5>1. ServerBatch.newRoot = Written(depositRoot, nLeafs, NextBatch, Batch)
          BY DEF ServerBatch
        <5>2. QED  BY <4>1, <5>1, AcceptedRoot
      <4>3. nLeafs \in Index
        BY <4>1, <4>2, SizeAssumption DEF Index
      <4>4. QED  BY <4>1, <4>2, <4>3 DEF ServerBatch, BatchStatement
    <3>2. QED  BY <2>3, <3>1 DEF ServerExecute
  <2>4. CASE ServerHeader \/ ServerRoot
    <3>1. commit \in Nat /\ tx \in Nat
      BY DEF HeightsInv
    <3>2. \E h \in Nat : \/ proofs' = [proofs EXCEPT !.header = h]
                         \/ proofs' = [proofs EXCEPT !.root = h]
      BY <2>4, <3>1 DEF ServerHeader, ServerRoot
    <3>3. QED  BY <3>2
  <2>5. CASE UNCHANGED proofs
    BY <2>5
  <2>6. QED
    BY <2>1, <2>2, <2>3, <2>4, <2>5
       DEF Next, vars, fileVars, Users, SendToken, Operator, QueryDepositTree,
           QueryDepositQueue, Execute, SaveTx, SaveBlock, Abort, UpdateBlockHeaderTestnet,
           UpdateRootDeposit, ClaimDeposit, Server, ServerSave, ServerFails
<1>4. QED  BY <1>1, <1>2, <1>3

\* Every step keeps HeightsInv.
LEMMA HeightsStep ==
    ASSUME ContractTypeOK, HeightsInv, [Next]_vars
    PROVE  HeightsInv'
<1> USE DEF HeightsInv
<1>1. /\ txs \in Seq(Tree) /\ Len(txs) \in Nat /\ proofs \in Proofs
      /\ Len(txs') \in Nat /\ Len(txs) <= Len(txs')
  <2>1. txs \in Seq(Tree) /\ proofs \in Proofs
    BY DEF ContractTypeOK
  <2>2. \A s : UpdateDepositTree(s) => Len(txs') = Len(txs) + 1
    BY <2>1, AcceptedRoot DEF UpdateDepositTree
  <2>3. QED  BY <2>1, <2>2, CosmosStep DEF chain, Deposit
<1>2. CASE UNCHANGED vars
  BY <1>2 DEF vars, fileVars, cosmosVars
<1>3. CASE Users
  BY <1>1, <1>3 DEF Users, SendToken, Deposit, fileVars
<1>4. CASE Operator
  <2>1. CASE Execute
    <3>1. Len(txs') = Len(txs) + 1
      BY <1>1, <2>1, AcceptedRoot DEF Execute, UpdateDepositTree
    <3>2. QED  BY <1>1, <2>1, <3>1 DEF Execute, fileVars
  <2>2. CASE SaveTx
    BY <1>1, <2>2 DEF SaveTx, cosmosVars
  <2>7. CASE SaveBlock
    BY <1>1, <2>7 DEF SaveBlock, None, cosmosVars
  <2>3. CASE QueryDepositTree \/ QueryDepositQueue \/ Abort
    BY <1>1, <2>3 DEF QueryDepositTree, QueryDepositQueue, Abort, None, cosmosVars, fileVars
  <2>4. CASE ProveBatch \/ ProveClaim \/ ProveHeader \/ ProveRoot
    <3>1. /\ UNCHANGED <<txs, tx, block, commit, cmd, server>>
          /\ proofs'.header \in {proofs.header, commit}
          /\ proofs'.root \in {proofs.root, tx}
      BY <1>1, <2>4 DEF ProveBatch, ProveClaim, ProveHeader, ProveRoot, cosmosVars, Proofs
    <3>2. QED  BY <3>1
  <2>5. CASE UpdateBlockHeaderTestnet \/ UpdateRootDeposit \/ ClaimDeposit
    BY <1>1, <2>5 DEF UpdateBlockHeaderTestnet, UpdateRootDeposit, ClaimDeposit, cosmosVars, fileVars
  <2>6. QED  BY <1>4, <2>1, <2>2, <2>3, <2>4, <2>5, <2>7 DEF Operator
<1>5. CASE Server
  <2>1. CASE ServerExecute
    <3>1. Len(txs') = Len(txs) + 1
      BY <1>1, <2>1, AcceptedRoot DEF ServerExecute, UpdateDepositTree
    <3>2. QED  BY <1>1, <2>1, <3>1 DEF ServerExecute, Proofs
  <2>2. CASE ServerSave
    BY <1>1, <2>2 DEF ServerSave, cosmosVars
  <2>3. CASE ServerHeader
    BY <1>1, <2>3 DEF ServerHeader, cosmosVars, Proofs
  <2>4. CASE ServerRoot \/ ServerFails
    BY <1>1, <2>4 DEF ServerRoot, ServerFails, cosmosVars, fileVars, Proofs
  <2>5. QED  BY <1>5, <2>1, <2>2, <2>3, <2>4 DEF Server
<1>6. QED  BY <1>2, <1>3, <1>4, <1>5 DEF Next

-----------------------------------------------------------------------------
(* The chain only grows: what was true of a prefix stays true.             *)

\* A step only appends to the deposits and to the updates.
LEMMA ChainGrows ==
    ASSUME ContractTypeOK, [Next]_vars
    PROVE  /\ nLeafs \in Nat /\ nLeafs' \in Nat /\ nLeafs <= nLeafs'
           /\ Len(deposits) \in Nat /\ Len(deposits') \in Nat
           /\ Len(deposits) <= Len(deposits')
           /\ \A k \in 1 .. Len(deposits) : deposits'[k] = deposits[k]
           /\ Len(txs) \in Nat /\ Len(txs') \in Nat /\ Len(txs) <= Len(txs')
           /\ \A k \in 1 .. Len(txs) : txs'[k] = txs[k]
<1>1. deposits \in Seq(Payload) /\ nLeafs \in 0 .. Len(deposits) /\ txs \in Seq(Tree)
  BY DEF ContractTypeOK
<1>2. CASE UNCHANGED chain
  BY <1>1, <1>2 DEF chain
<1>3. ASSUME NEW p \in Payload, Deposit(p)
      PROVE  /\ UNCHANGED <<nLeafs, txs>> /\ Len(deposits') = Len(deposits) + 1
             /\ \A k \in 1 .. Len(deposits) : deposits'[k] = deposits[k]
  BY <1>1, <1>3 DEF Deposit
<1>4. ASSUME NEW s, UpdateDepositTree(s)
      PROVE  /\ UNCHANGED deposits /\ nLeafs' \in Nat /\ nLeafs <= nLeafs'
             /\ Len(txs') = Len(txs) + 1
             /\ \A k \in 1 .. Len(txs) : txs'[k] = txs[k]
  <2>1. s.newRoot \in Tree
    BY <1>4, AcceptedRoot DEF UpdateDepositTree
  <2>2. QED  BY <1>1, <1>4, <2>1, SizeAssumption DEF UpdateDepositTree
<1>5. QED  BY <1>1, <1>2, <1>3, <1>4, CosmosStep

\* The root over m deposits of the tree never changes.
LEMMA PrefixRootStays ==
    ASSUME ContractTypeOK, [Next]_vars, NEW m \in 0 .. nLeafs
    PROVE  PrefixRoot(m)' = PrefixRoot(m) /\ m \in 0 .. nLeafs'
<1>1. nLeafs <= Len(deposits)
  BY DEF ContractTypeOK
<1>2. ASSUME NEW i \in Index, i < m  PROVE deposits'[i + 1] = deposits[i + 1]
  <2>1. i + 1 \in 1 .. Len(deposits)
    BY <1>1, <1>2, ChainGrows DEF Index
  <2>2. QED  BY <2>1, ChainGrows
<1>3. m \in 0 .. nLeafs'
  BY ChainGrows
<1>4. QED  BY <1>2, <1>3 DEF PrefixRoot

\* An accepted proof takes the root of a prefix to the root of a longer one.
LEMMA CosmosRootStep ==
    ASSUME ContractTypeOK, CosmosRootIsPrefix, [Next]_vars
    PROVE  CosmosRootIsPrefix'
<1>1. /\ deposits \in Seq(Payload) /\ nLeafs \in 0 .. Len(deposits)
      /\ nLeafs \in Nat /\ Len(deposits) \in Nat
  BY DEF ContractTypeOK
<1>2. CASE UNCHANGED <<nLeafs, depositRoot>>
  <2>1. PrefixRoot(nLeafs)' = PrefixRoot(nLeafs)
    <3>1. \A i \in Index : i < nLeafs => deposits'[i + 1] = deposits[i + 1]
      BY <1>1, ChainGrows DEF Index
    <3>2. QED  BY <1>2, <3>1 DEF PrefixRoot
  <2>2. QED  BY <1>2, <2>1 DEF CosmosRootIsPrefix
<1>3. ASSUME NEW s, UpdateDepositTree(s)  PROVE CosmosRootIsPrefix'
  <2>1. /\ depositRoot' = Written(PrefixRoot(nLeafs), nLeafs, NextBatch, Batch)
        /\ UNCHANGED deposits
    BY <1>3, AcceptedRoot DEF UpdateDepositTree, CosmosRootIsPrefix
  <2>2. nLeafs' = IF nQueueLeafs < Batch THEN Len(deposits) ELSE nLeafs + Batch
    BY <1>3 DEF UpdateDepositTree
  <2>3. ASSUME NEW i \in Index
        PROVE  (IF i \in nLeafs .. (nLeafs + Batch - 1) THEN NextBatch[i - nLeafs + 1]
                ELSE IF i < nLeafs THEN deposits[i + 1] ELSE Zero)
               = IF i < nLeafs' THEN deposits[i + 1] ELSE Zero
    <3>1. i \in Nat /\ Batch \in Nat \ {0} /\ nQueueLeafs = Len(deposits) - nLeafs
      BY SizeAssumption DEF Index, nQueueLeafs
    <3>2. CASE i < nLeafs
      <4>1. i < nLeafs' /\ i \notin nLeafs .. (nLeafs + Batch - 1)
        BY <1>1, <2>2, <3>1, <3>2
      <4>2. QED  BY <3>2, <4>1
    <3>3. CASE i \in nLeafs .. (nLeafs + Batch - 1)
      <4>1. /\ i - nLeafs + 1 \in 1 .. Batch /\ nLeafs + (i - nLeafs + 1) = i + 1
            /\ i - nLeafs + 1 <= nQueueLeafs <=> i < Len(deposits)
            /\ i < nLeafs' <=> i < Len(deposits)
        BY <1>1, <2>2, <3>1, <3>3
      <4>2. NextBatch[i - nLeafs + 1] = IF i < Len(deposits) THEN deposits[i + 1] ELSE Zero
        BY <4>1 DEF NextBatch
      <4>3. QED  BY <3>3, <4>1, <4>2
    <3>4. CASE i >= nLeafs + Batch
      <4>1. ~(i < nLeafs') /\ ~(i < nLeafs) /\ i \notin nLeafs .. (nLeafs + Batch - 1)
        BY <1>1, <2>2, <3>1, <3>4
      <4>2. QED  BY <4>1
    <3>5. QED  BY <1>1, <3>1, <3>2, <3>3, <3>4
  <2>4. PrefixRoot(nLeafs)' = Written(PrefixRoot(nLeafs), nLeafs, NextBatch, Batch)
    <3>1. \A i \in Index : PrefixRoot(nLeafs)[i] = IF i < nLeafs THEN deposits[i + 1] ELSE Zero
      BY DEF PrefixRoot
    <3>2. QED  BY <2>1, <2>3, <3>1 DEF PrefixRoot, Written
  <2>5. QED  BY <2>1, <2>4 DEF CosmosRootIsPrefix
<1>4. QED  BY <1>2, <1>3, CosmosStep DEF chain, Deposit

\* Every step keeps TxRootsInv.
LEMMA TxRootsStep ==
    ASSUME ContractTypeOK, ContractTypeOK', CosmosRootIsPrefix', TxRootsInv, [Next]_vars
    PROVE  TxRootsInv'
<1>1. txs \in Seq(Tree) /\ DOMAIN txs = 1 .. Len(txs)
  BY DEF ContractTypeOK
<1>2. ASSUME NEW i \in DOMAIN txs  PROVE \E m \in 0 .. nLeafs' : txs'[i] = PrefixRoot(m)'
  <2>1. PICK m \in 0 .. nLeafs : txs[i] = PrefixRoot(m)
    BY DEF TxRootsInv
  <2>2. txs'[i] = txs[i]
    BY <1>1, ChainGrows
  <2>3. QED  BY <2>1, <2>2, PrefixRootStays
<1>3. CASE UNCHANGED txs
  BY <1>2, <1>3 DEF TxRootsInv
<1>4. ASSUME NEW s, UpdateDepositTree(s)  PROVE TxRootsInv'
  <2>1. s.newRoot \in Tree
    BY <1>4, AcceptedRoot DEF UpdateDepositTree
  <2>2. /\ DOMAIN txs' = 1 .. Len(txs) + 1
        /\ txs'[Len(txs) + 1] = depositRoot'
    BY <1>1, <1>4, <2>1 DEF UpdateDepositTree
  <2>3. nLeafs' \in 0 .. nLeafs'
    BY ChainGrows
  <2>4. txs'[Len(txs) + 1] = PrefixRoot(nLeafs)'
    BY <2>2 DEF CosmosRootIsPrefix
  <2>5. ASSUME NEW i \in DOMAIN txs'  PROVE i \in DOMAIN txs \/ i = Len(txs) + 1
    BY <1>1, <2>2, ChainGrows
  <2>6. QED  BY <1>2, <2>3, <2>4, <2>5 DEF TxRootsInv
<1>5. QED  BY <1>3, <1>4, CosmosStep DEF chain, Deposit

\* Every step keeps EthRootsAreCosmosRoots.
LEMMA EthRootsStep ==
    ASSUME ContractTypeOK, HeightsInv, TxRootsInv, EthRootsAreCosmosRoots, [Next]_vars
    PROVE  EthRootsAreCosmosRoots'
<1> DEFINE HadRoot(R) == \E m \in 0 .. nLeafs' : R = PrefixRoot(m)'
<1>1. depositRoots \in Seq(Tree) /\ Len(depositRoots) \in Nat
  BY DEF ContractTypeOK
<1>2. ASSUME NEW i \in DOMAIN depositRoots  PROVE HadRoot(depositRoots[i])
  <2>1. PICK m \in 0 .. nLeafs : depositRoots[i] = PrefixRoot(m)
    BY DEF EthRootsAreCosmosRoots
  <2>2. QED  BY <2>1, PrefixRootStays
<1>3. CASE UNCHANGED depositRoots
  BY <1>2, <1>3 DEF EthRootsAreCosmosRoots
<1>4. CASE RootStep
  <2>0. PICK h \in {proofs.root, tx} : h # 0 /\ UpdateRootDepositTree(h, txs[h])
    BY <1>4 DEF RootStep
  <2> DEFINE R == txs[h]
  <2>1. h \in 1 .. Len(txs)
    BY <2>0 DEF HeightsInv
  <2>2. R \in Tree /\ HadRoot(R)
    <3>1. h \in DOMAIN txs /\ R \in Tree
      BY <2>1 DEF ContractTypeOK
    <3>2. PICK m \in 0 .. nLeafs : R = PrefixRoot(m)
      BY <3>1 DEF TxRootsInv
    <3>3. QED  BY <3>1, <3>2, PrefixRootStays
  <2>3. \/ depositRoots' = Append(depositRoots, R)
        \/ depositRoots' = Append(Tail(depositRoots), R) /\ depositRoots # <<>>
    BY <1>1, <2>0, EthAssumption DEF UpdateRootDepositTree
  <2> HIDE DEF R, HadRoot
  <2>4. ASSUME NEW i \in DOMAIN depositRoots'
        PROVE  depositRoots'[i] = R \/ \E j \in DOMAIN depositRoots : depositRoots'[i] = depositRoots[j]
    <3>1. CASE depositRoots' = Append(depositRoots, R)
      BY <1>1, <2>2, <3>1
    <3>2. CASE depositRoots' = Append(Tail(depositRoots), R) /\ depositRoots # <<>>
      <4>1. /\ Tail(depositRoots) \in Seq(Tree) /\ Len(Tail(depositRoots)) = Len(depositRoots) - 1
            /\ \A j \in 1 .. Len(depositRoots) - 1 : Tail(depositRoots)[j] = depositRoots[j + 1]
        BY <1>1, <3>2
      <4>2. i \in 1 .. Len(depositRoots)
        BY <1>1, <2>2, <3>2, <4>1
      <4>3. CASE i = Len(depositRoots)
        BY <1>1, <2>2, <3>2, <4>1, <4>3
      <4>4. CASE i < Len(depositRoots)
        <5>1. i \in 1 .. Len(depositRoots) - 1 /\ i + 1 \in DOMAIN depositRoots
          BY <1>1, <4>2, <4>4
        <5>2. depositRoots'[i] = depositRoots[i + 1]
          BY <1>1, <2>2, <3>2, <4>1, <5>1
        <5>3. QED  BY <5>1, <5>2
      <4>5. QED  BY <1>1, <4>2, <4>3, <4>4
    <3>3. QED  BY <2>3, <3>1, <3>2
  <2>5. \A i \in DOMAIN depositRoots' : HadRoot(depositRoots'[i])
    BY <1>2, <2>2, <2>4
  <2>6. QED  BY <2>5 DEF EthRootsAreCosmosRoots, HadRoot
<1>5. QED
  BY <1>3, <1>4, EthStep DEF ClaimTransaction

\* Every step keeps PaidWasDeposited.
LEMMA ClaimsStep ==
    ASSUME ContractTypeOK, HeightsInv, EthRootsAreCosmosRoots, PaidWasDeposited, [Next]_vars
    PROVE  PaidWasDeposited'
<1>1. /\ sentProof \subseteq Index \X Payload /\ nLeafs <= Len(deposits)
      /\ Index \subseteq Nat
  BY DEF ContractTypeOK, Index
<1>2. ASSUME NEW k \in Index, NEW p \in Payload, k < nLeafs, deposits[k + 1] = p
      PROVE  k < nLeafs' /\ deposits'[k + 1] = p
  <2>1. k \in Nat /\ k + 1 \in 1 .. Len(deposits)
    BY <1>1, <1>2, ChainGrows
  <2>2. QED  BY <1>2, <2>1, ChainGrows
<1>3. ASSUME NEW c \in sentProof  PROVE c[1] < nLeafs' /\ deposits'[c[1] + 1] = c[2]
  <2>1. c[1] \in Index /\ c[2] \in Payload
    BY <1>1
  <2>2. c[1] < nLeafs /\ deposits[c[1] + 1] = c[2]
    BY DEF PaidWasDeposited
  <2>3. QED  BY <1>2, <2>1, <2>2
<1>4. ASSUME NEW k \in Index, NEW p \in Payload, ClaimTransaction(k, p)
      PROVE  PaidWasDeposited'
  <2>1. PICK i \in DOMAIN depositRoots : depositRoots[i][k] = p
    BY <1>4 DEF ClaimTransaction
  <2>2. PICK m \in 0 .. nLeafs : depositRoots[i] = PrefixRoot(m)
    BY DEF EthRootsAreCosmosRoots
  <2>3. k < m /\ deposits[k + 1] = p
    BY <2>1, <2>2, ZeroAssumption DEF PrefixRoot
  <2>4. k < nLeafs
    BY <1>1, <2>3, ChainGrows
  <2>5. k < nLeafs' /\ deposits'[k + 1] = p
    BY <1>2, <2>3, <2>4
  <2>6. sentProof' = sentProof \cup {<<k, p>>}
    BY <1>4 DEF ClaimTransaction
  <2>7. QED  BY <1>3, <2>5, <2>6 DEF PaidWasDeposited
<1>5. CASE UNCHANGED sentProof
  BY <1>3, <1>5 DEF PaidWasDeposited
<1>6. QED
  BY <1>4, <1>5, EthStep DEF RootStep, UpdateRootDepositTree

-----------------------------------------------------------------------------
(* The theorem.                                                            *)

\* An empty chain and the files of the checkout satisfy the invariant.
LEMMA InvInit == Init => Inv
<1> SUFFICES ASSUME Init  PROVE Inv
  OBVIOUS
<1> USE DEF Init, CosmosInit, EthInit
<1>1. TreeOf(<<>>) = PrefixRoot(0) /\ TreeOf(<<>>) \in Tree
  BY SizeAssumption DEF TreeOf, PrefixRoot, Tree, Leaf, Index
<1>2. ContractTypeOK
  BY <1>1, DepositAssumption DEF ContractTypeOK, Proofs
<1>3. HeightsInv
  BY DEF HeightsInv, None
<1>4. QED
  BY <1>1, <1>2, <1>3 DEF Inv, CosmosRootIsPrefix, TxRootsInv, EthRootsAreCosmosRoots,
                          PaidWasDeposited

\* Every step keeps the invariant.
LEMMA InvStep == Inv /\ [Next]_vars => Inv'
  BY TypeStep, HeightsStep, CosmosRootStep, TxRootsStep, EthRootsStep, ClaimsStep DEF Inv

\* Whatever is typed in whatever order, beside the server and from the files of
\* an earlier deployment, what Ethereum pays out under a key was deposited on
\* Cosmos under that key.
THEOREM PaidCorrect == Spec => []PaidWasDeposited
<1>1. Inv => PaidWasDeposited
  BY DEF Inv
<1>2. QED  BY <1>1, InvInit, InvStep, PTL DEF Spec

-----------------------------------------------------------------------------
(* The files of depositInfo/.                                              *)

\* The name of a file is a number, and the first query is never ahead.
QueueInv ==
    /\ DOMAIN depositInfo \subseteq Nat
    /\ cmd.name = "queue" => cmd.n \in 0 .. nLeafs

\* The queue that is saved, if the tree is still the one of the first query
LEMMA QueueRows ==
    ASSUME ContractTypeOK
    PROVE  /\ Len(depositQueue) = Len(deposits) - nLeafs
           /\ DOMAIN Named(depositQueue, nLeafs) = nLeafs .. Len(deposits) - 1
           /\ \A k \in nLeafs .. Len(deposits) - 1 :
                 Named(depositQueue, nLeafs)[k] = [key |-> k, payload |-> deposits[k + 1]]
<1>1. nLeafs \in Nat /\ Len(deposits) \in Nat /\ nLeafs <= Len(deposits)
  BY DEF ContractTypeOK
<1> DEFINE row(j) == [key |-> nLeafs + j - 1, payload |-> deposits[nLeafs + j]]
<1>2. depositQueue = [j \in 1 .. nQueueLeafs |-> row(j)]
  BY DEF depositQueue
<1>3. nQueueLeafs \in Nat /\ nQueueLeafs = Len(deposits) - nLeafs
  BY <1>1 DEF nQueueLeafs
<1> HIDE DEF row
<1>4. Len(depositQueue) = nQueueLeafs
  BY <1>2, <1>3
<1>5. ASSUME NEW k \in nLeafs .. Len(deposits) - 1
      PROVE  depositQueue[k - nLeafs + 1] = [key |-> k, payload |-> deposits[k + 1]]
  <2>1. k - nLeafs + 1 \in 1 .. nQueueLeafs
    BY <1>1, <1>3, <1>5
  <2>2. nLeafs + (k - nLeafs + 1) - 1 = k /\ nLeafs + (k - nLeafs + 1) = k + 1
    BY <1>1, <1>5
  <2>3. QED  BY <1>2, <2>1, <2>2 DEF row
<1>6. nLeafs + Len(depositQueue) - 1 = Len(deposits) - 1
  BY <1>1, <1>3, <1>4
<1>7. QED  BY <1>3, <1>4, <1>5, <1>6 DEF Named

\* Every step keeps QueueInv.
LEMMA QueueStep ==
    ASSUME ContractTypeOK, QueueInv, [Next]_vars
    PROVE  QueueInv'
<1>1. nLeafs \in Nat /\ nLeafs' \in Nat /\ nLeafs <= nLeafs'
  BY ChainGrows
<1>2. CASE QueryDepositTree
  BY <1>1, <1>2 DEF QueryDepositTree, QueueInv, cosmosVars
<1>3. CASE QueryDepositQueue
  <2>1. cmd.n \in Nat /\ DOMAIN depositInfo \subseteq Nat
    BY <1>1, <1>3 DEF QueryDepositQueue, QueueInv
  <2>2. Len(depositQueue) \in Nat
    BY QueueRows DEF ContractTypeOK
  <2>3. DOMAIN Named(depositQueue, cmd.n) \subseteq Nat
    BY <2>1, <2>2 DEF Named
  <2>4. DOMAIN depositInfo' \subseteq Nat
    BY <1>3, <2>1, <2>3 DEF QueryDepositQueue, Saved
  <2>5. QED  BY <1>3, <2>4 DEF QueryDepositQueue, QueueInv, None
<1>4. CASE ~QueryDepositTree /\ ~QueryDepositQueue
  <2>1. /\ UNCHANGED depositInfo
        /\ cmd' = cmd \/ cmd'.name # "queue"
    BY <1>4 DEF Next, vars, fileVars, Users, SendToken, Operator, ProveBatch, ProveClaim,
                Execute, SaveTx, SaveBlock, Abort, None, ProveHeader, ProveRoot,
                UpdateBlockHeaderTestnet, UpdateRootDeposit, ClaimDeposit, Server,
                ServerExecute, ServerSave, ServerHeader, ServerRoot, ServerFails
  <2>2. QED  BY <1>1, <2>1 DEF QueueInv
<1>5. QED  BY <1>2, <1>3, <1>4

\* Only the second query writes files.
LEMMA OnlyQueryWrites ==
    ASSUME [Next]_vars
    PROVE  UNCHANGED depositInfo \/ QueryDepositQueue
BY DEF Next, vars, fileVars, Users, SendToken, Operator, QueryDepositTree, ProveBatch,
       ProveClaim, Execute, SaveTx, SaveBlock, Abort, ProveHeader, ProveRoot,
       UpdateBlockHeaderTestnet, UpdateRootDeposit, ClaimDeposit, Server,
       ServerExecute, ServerSave, ServerHeader, ServerRoot, ServerFails

\* A file that is right stays right in a step from the first query on.
LEMMA RightStays ==
    ASSUME ContractTypeOK, QueueInv, [Next]_vars, cmd.name = "queue", ~(cmd.n < nLeafs),
           NEW k \in DOMAIN depositInfo, Right(k)
    PROVE  Right(k)'
<1>1. /\ nLeafs \in Nat /\ cmd.n = nLeafs /\ k \in Nat
      /\ Len(deposits) \in Nat /\ Len(deposits') \in Nat /\ Len(deposits) <= Len(deposits')
  BY ChainGrows DEF QueueInv
<1>2. /\ k < Len(deposits) /\ depositInfo[k] = [key |-> k, payload |-> deposits[k + 1]]
  BY DEF Right
<1>3. k < Len(deposits') /\ deposits'[k + 1] = deposits[k + 1]
  <2>1. k + 1 \in 1 .. Len(deposits)
    BY <1>1, <1>2
  <2>2. QED  BY <1>1, <1>2, <2>1, ChainGrows
<1>4. depositInfo'[k] = depositInfo[k]
  <2>1. CASE UNCHANGED depositInfo
    BY <2>1
  <2>2. CASE QueryDepositQueue
    <3> DEFINE new == Named(depositQueue, nLeafs)
    <3>1. depositInfo' = Saved(new, depositInfo)
      BY <1>1, <2>2 DEF QueryDepositQueue
    <3>2. k \in DOMAIN new => new[k] = depositInfo[k]
      BY <1>2, QueueRows
    <3> HIDE DEF new
    <3>3. depositInfo'[k] = IF k \in DOMAIN new THEN new[k] ELSE depositInfo[k]
      BY <3>1 DEF Saved
    <3>4. QED  BY <3>2, <3>3
  <2>3. QED  BY <2>1, <2>2, OnlyQueryWrites
<1>5. QED  BY <1>2, <1>3, <1>4 DEF Right

\* query-deposit-tree.ts spoils no file that was right, unless a batch is
\* committed between its two queries.
THEOREM FilesCorrect == Spec => RightFilesStay
<1>1. Init => QueueInv
  BY DEF Init, QueueInv, None
<1>2. Inv /\ QueueInv /\ [Next]_vars => QueueInv'
  BY QueueStep DEF Inv
<1>3. Inv /\ QueueInv /\ [Next]_vars
         => [cmd.name = "queue" => \/ cmd.n < nLeafs
                                  \/ \A k \in DOMAIN depositInfo : Right(k) => Right(k)']_vars
  BY RightStays DEF Inv
<1>4. QED  BY <1>1, <1>2, <1>3, InvInit, InvStep, PTL DEF Spec, RightFilesStay

-----------------------------------------------------------------------------
(* The type invariant: what ContractTypeOK and HeightsInv leave of it.     *)

RestTypeOK ==
    /\ mempool \subseteq BatchStatement
    /\ headers \in SUBSET (Nat \ {0})
    /\ currentHeader \in headers \cup {0}
    /\ Len(depositRoots) <= RootHistorySize
    /\ depositTree \in [n : Nat, nq : Nat]
    /\ DOMAIN depositInfo \subseteq Index
    /\ \A k \in DOMAIN depositInfo : depositInfo[k] \in Row
    /\ cmd \in [name : {"none", "queue", "saveTx", "saveBlock"}, n : Nat]
    /\ server \in [at : {"idle", "save", "header", "root"}, h : 0 .. Len(txs)]
    /\ updates \in 0 .. MaxServerUpdates
    /\ server.at \in {"header", "root"} => commit # 0

\* The queue's rows are rows, and their numbers places of the tree.
LEMMA QueueTypes ==
    ASSUME ContractTypeOK, NEW n \in 0 .. nLeafs
    PROVE  /\ DOMAIN Named(depositQueue, n) \subseteq Index
           /\ \A k \in DOMAIN Named(depositQueue, n) : Named(depositQueue, n)[k] \in Row
<1>1. /\ nLeafs \in Nat /\ Len(deposits) \in Nat /\ nLeafs <= Len(deposits)
      /\ Len(deposits) <= MaxDeposits /\ deposits \in Seq(Payload)
  BY DEF ContractTypeOK
<1>2. nQueueLeafs \in Nat /\ nQueueLeafs = Len(deposits) - nLeafs
  BY <1>1 DEF nQueueLeafs
<1> DEFINE row(j) == [key |-> nLeafs + j - 1, payload |-> deposits[nLeafs + j]]
<1>3. ASSUME NEW j \in 1 .. nQueueLeafs  PROVE row(j) \in Row
  <2>1. nLeafs + j \in 1 .. Len(deposits) /\ nLeafs + j - 1 \in Nat
    BY <1>1, <1>2
  <2>2. deposits[nLeafs + j] \in Payload
    BY <1>1, <2>1
  <2>3. QED  BY <2>1, <2>2 DEF Row
<1>4. depositQueue = [j \in 1 .. nQueueLeafs |-> row(j)]
  BY DEF depositQueue
<1> HIDE DEF row
<1>5. Len(depositQueue) = nQueueLeafs
  BY <1>2, <1>4
<1>6. ASSUME NEW k \in n .. n + Len(depositQueue) - 1
      PROVE  k \in Index /\ depositQueue[k - n + 1] \in Row
  <2>1. k - n + 1 \in 1 .. nQueueLeafs
    BY <1>1, <1>2, <1>5, <1>6
  <2>2. k \in Index
    BY <1>1, <1>2, <1>5, <1>6, SizeAssumption, DepositAssumption DEF Index
  <2>3. QED  BY <1>3, <1>4, <2>1, <2>2
<1>7. QED  BY <1>6 DEF Named

\* Every step keeps RestTypeOK.
LEMMA RestStep ==
    ASSUME ContractTypeOK, HeightsInv, QueueInv, RestTypeOK, [Next]_vars
    PROVE  RestTypeOK'
<1> USE DEF RestTypeOK
<1>1. Len(txs) \in Nat /\ Len(txs') \in Nat /\ Len(txs) <= Len(txs')
  BY ChainGrows
<1>2. UNCHANGED mempool
  BY DEF Next, vars, cosmosVars, Users, SendToken, Deposit, Operator, QueryDepositTree,
         QueryDepositQueue, ProveBatch, ProveClaim, Execute, SaveTx, SaveBlock, Abort,
         ProveHeader, ProveRoot, UpdateBlockHeaderTestnet, UpdateRootDeposit,
         ClaimDeposit, Server, ServerExecute, ServerSave, ServerHeader, ServerRoot,
         ServerFails
<1>3. server'.at \in {"header", "root"} => commit' # 0
  <2>1. CASE ServerSave
    BY <2>1, <1>1 DEF ServerSave, HeightsInv
  <2>2. CASE ~ServerSave
    <3>1. /\ commit' = commit
          /\ \/ server' = server
             \/ server'.at \in {"idle", "save"}
             \/ server.at = "header"
      BY <2>2 DEF Next, vars, fileVars, Users, SendToken, Operator, QueryDepositTree,
             QueryDepositQueue, ProveBatch, ProveClaim, Execute, SaveTx, SaveBlock, Abort,
             ProveHeader, ProveRoot, UpdateBlockHeaderTestnet, UpdateRootDeposit,
             ClaimDeposit, Server, ServerExecute, ServerHeader, ServerRoot, ServerFails
    <3>2. QED  BY <3>1
  <2>3. QED  BY <2>1, <2>2
<1>4. /\ headers' \in SUBSET (Nat \ {0})
      /\ currentHeader' \in headers' \cup {0}
      /\ Len(depositRoots') <= RootHistorySize
  <2>1. CASE UNCHANGED ethVars
    BY <2>1 DEF ethVars
  <2>2. CASE \E h \in {commit, proofs.header} : UpdateBlockHeader(h) /\ h # 0
    <3>1. PICK h \in {commit, proofs.header} : UpdateBlockHeader(h) /\ h # 0
      BY <2>2
    <3>2. h \in Nat \ {0}
      BY <1>1, <3>1 DEF HeightsInv
    <3>3. QED  BY <3>1, <3>2 DEF UpdateBlockHeader
  <2>3. CASE \E h, R : UpdateRootDepositTree(h, R)
    BY <2>3, EthAssumption DEF UpdateRootDepositTree, ContractTypeOK
  <2>4. CASE \E k, p : ClaimTransaction(k, p)
    BY <2>4 DEF ClaimTransaction
  <2>5. CASE Operator
    BY <2>1, <2>2, <2>3, <2>4, <2>5
       DEF ethVars, fileVars, Operator, QueryDepositTree,
           QueryDepositQueue, ProveBatch, ProveClaim, Execute, SaveTx, SaveBlock, Abort,
           ProveHeader, ProveRoot, UpdateBlockHeaderTestnet, UpdateRootDeposit,
           ClaimDeposit
  <2>6. CASE Server
    BY <2>1, <2>2, <2>3, <2>6
       DEF ethVars, Server, ServerExecute, ServerSave, ServerHeader, ServerRoot,
           ServerFails
  <2>7. CASE Users \/ UNCHANGED vars
    BY <2>1, <2>7 DEF Users, SendToken, vars, ethVars
  <2>8. QED
    BY <2>5, <2>6, <2>7 DEF Next
<1>5. depositTree' \in [n : Nat, nq : Nat]
  <2>1. nLeafs \in Nat /\ nQueueLeafs \in Nat
    BY BatchType DEF ContractTypeOK
  <2>2. depositTree' \in {depositTree, [n |-> nLeafs, nq |-> nQueueLeafs]}
    BY DEF Next, vars, fileVars, Users, SendToken, Operator, QueryDepositTree,
           QueryDepositQueue, ProveBatch, ProveClaim, Execute, SaveTx, SaveBlock, Abort,
           ProveHeader, ProveRoot, UpdateBlockHeaderTestnet, UpdateRootDeposit,
           ClaimDeposit, Server, ServerExecute, ServerSave, ServerHeader, ServerRoot,
           ServerFails
  <2>3. QED  BY <2>1, <2>2
<1>6. /\ DOMAIN depositInfo' \subseteq Index
      /\ \A k \in DOMAIN depositInfo' : depositInfo'[k] \in Row
  <2>1. CASE UNCHANGED depositInfo
    BY <2>1
  <2>2. CASE QueryDepositQueue
    <3> DEFINE new == Named(depositQueue, cmd.n)
    <3>1. depositInfo' = Saved(new, depositInfo) /\ cmd.n \in 0 .. nLeafs
      BY <2>2 DEF QueryDepositQueue, QueueInv
    <3>2. DOMAIN new \subseteq Index /\ \A k \in DOMAIN new : new[k] \in Row
      BY <3>1, QueueTypes
    <3> HIDE DEF new
    <3>3. QED  BY <3>1, <3>2 DEF Saved
  <2>3. QED  BY <2>1, <2>2, OnlyQueryWrites
<1>7. cmd' \in [name : {"none", "queue", "saveTx", "saveBlock"}, n : Nat]
  <2>1. \/ cmd' \in {cmd, None}
        \/ \E name \in {"queue", "saveTx", "saveBlock"}, n \in {nLeafs, Len(txs) + 1, cmd.n} :
              cmd' = [name |-> name, n |-> n]
    BY DEF Next, vars, fileVars, Users, SendToken, Operator, QueryDepositTree,
           QueryDepositQueue, ProveBatch, ProveClaim, Execute, SaveTx, SaveBlock, Abort,
           ProveHeader, ProveRoot, UpdateBlockHeaderTestnet, UpdateRootDeposit,
           ClaimDeposit, Server, ServerExecute, ServerSave, ServerHeader, ServerRoot,
           ServerFails
  <2>2. nLeafs \in Nat
    BY ChainGrows
  <2>3. QED  BY <1>1, <2>1, <2>2 DEF None
<1>8. /\ server' \in [at : {"idle", "save", "header", "root"}, h : 0 .. Len(txs')]
      /\ updates' \in 0 .. MaxServerUpdates
  <2>1. CASE ServerExecute
    <3>1. Len(txs') = Len(txs) + 1
      BY <2>1, <1>1, AcceptedRoot DEF ServerExecute, UpdateDepositTree, ContractTypeOK
    <3>2. QED  BY <2>1, <1>1, <3>1, CommandAssumption DEF ServerExecute
  <2>2. CASE ~ServerExecute
    <3>1. /\ updates' = updates
          /\ \/ server' = server
             \/ \E a \in {"idle", "header", "root"}, h \in {0, server.h} :
                   server' = [at |-> a, h |-> h]
      BY <2>2 DEF Next, vars, fileVars, Users, SendToken, Operator, QueryDepositTree,
             QueryDepositQueue, ProveBatch, ProveClaim, Execute, SaveTx, SaveBlock, Abort,
             ProveHeader, ProveRoot, UpdateBlockHeaderTestnet, UpdateRootDeposit,
             ClaimDeposit, Server, ServerSave, ServerHeader, ServerRoot, ServerFails
    <3>2. QED  BY <1>1, <3>1
  <2>3. QED  BY <2>1, <2>2
<1>9. QED  BY <1>2, <1>3, <1>4, <1>5, <1>6, <1>7, <1>8

\* Every file, the shell and both contracts hold what their writers write.
THEOREM TypeCorrect == Spec => []TypeOK
<1>1. Init => QueueInv /\ RestTypeOK
  <2> SUFFICES ASSUME Init  PROVE QueueInv /\ RestTypeOK
    OBVIOUS
  <2> USE DEF Init, CosmosInit, EthInit, None
  <2>1. QueueInv
    BY DEF QueueInv
  <2>2. /\ DOMAIN depositInfo \subseteq Index
        /\ \A k \in DOMAIN depositInfo : depositInfo[k] \in Row
    BY CommandAssumption, SizeAssumption DEF Index, Row
  <2>3. depositTree \in [n : Nat, nq : Nat]
    BY CommandAssumption
  <2>4. QED  BY <2>1, <2>2, <2>3, EthAssumption, CommandAssumption DEF RestTypeOK
<1>2. Inv /\ QueueInv /\ RestTypeOK /\ [Next]_vars => (QueueInv /\ RestTypeOK)'
  BY QueueStep, RestStep DEF Inv
<1>3. Inv /\ RestTypeOK => TypeOK
  <2> SUFFICES ASSUME ContractTypeOK, HeightsInv, RestTypeOK  PROVE TypeOK
    BY DEF Inv
  <2>1. CosmosTypeOK /\ EthTypeOK
    BY DEF ContractTypeOK, RestTypeOK, CosmosTypeOK, EthTypeOK
  <2>2. DOMAIN txs = 1 .. Len(txs)
    BY DEF ContractTypeOK
  <2>3. QED  BY <2>1, <2>2 DEF ContractTypeOK, HeightsInv, RestTypeOK, TypeOK
<1>4. QED  BY <1>1, <1>2, <1>3, InvInit, InvStep, PTL DEF Spec

-----------------------------------------------------------------------------
(* The batch made from files that are current.                             *)

\* There are as many numbers below k as k says.
LEMMA Below ==
    ASSUME NEW n \in Nat, NEW k \in 0 .. n - 1
    PROVE  Cardinality({j \in 0 .. n - 1 : j < k}) = k
<1>1. {j \in 0 .. n - 1 : j < k} = 0 .. k - 1
  OBVIOUS
<1>2. k - 1 \in Int /\ (0 > k - 1 <=> k = 0)
  OBVIOUS
<1>3. Cardinality(0 .. k - 1) = IF 0 > k - 1 THEN 0 ELSE k - 1 - 0 + 1
  BY <1>2, FS_Interval
<1>4. Cardinality(0 .. k - 1) = k
  BY <1>2, <1>3
<1>5. QED  BY <1>1, <1>4

\* The files in the order of their numbers are the deposits in order.
LEMMA CurrentData ==
    ASSUME ContractTypeOK, Current
    PROVE  /\ DOMAIN Data = 1 .. Len(deposits)
           /\ \A i \in 1 .. Len(deposits) : Data[i].payload = deposits[i]
<1>1. PICK n \in Nat : n = Len(deposits)
  BY DEF ContractTypeOK
<1>2. DOMAIN depositInfo = 0 .. n - 1
  BY <1>1 DEF Current
<1>3. Cardinality(0 .. n - 1) = n
  <2>1. n - 1 \in Int /\ (0 > n - 1 <=> n = 0)
    OBVIOUS
  <2>2. Cardinality(0 .. n - 1) = IF 0 > n - 1 THEN 0 ELSE n - 1 - 0 + 1
    BY <2>1, FS_Interval
  <2>3. QED  BY <2>1, <2>2
<1>4. DOMAIN Data = 1 .. n
  BY <1>2, <1>3 DEF Data
<1>5. ASSUME NEW i \in 1 .. n  PROVE Number(i) = i - 1
  <2>1. i - 1 \in 0 .. n - 1
    OBVIOUS
  <2>2. \A k \in 0 .. n - 1 : Cardinality({j \in 0 .. n - 1 : j < k}) = k
    BY Below
  <2>3. \A k \in 0 .. n - 1 : Cardinality({j \in 0 .. n - 1 : j < k}) = i - 1 <=> k = i - 1
    BY <2>2
  <2>4. Number(i) = CHOOSE k \in 0 .. n - 1 :
                       Cardinality({j \in 0 .. n - 1 : j < k}) = i - 1
    BY <1>2 DEF Number
  <2>5. QED  BY <2>1, <2>3, <2>4
<1>6. ASSUME NEW i \in 1 .. n  PROVE Data[i].payload = deposits[i]
  <2>1. i - 1 \in DOMAIN depositInfo /\ (i - 1) + 1 = i
    BY <1>2
  <2>2. depositInfo[i - 1] = [key |-> i - 1, payload |-> deposits[(i - 1) + 1]]
    BY <2>1 DEF Current, Right
  <2>3. Data[i] = depositInfo[i - 1]
    BY <1>2, <1>3, <1>5 DEF Data
  <2>4. QED  BY <2>1, <2>2, <2>3
<1>7. QED  BY <1>1, <1>4, <1>6

\* The leaves read from the files: the deposits, and as many times Zero as
\* their queue lacks of a batch
LEMMA CurrentValue ==
    ASSUME ContractTypeOK, Current
    PROVE  /\ NewValue \in Seq(Leaf)
           /\ nLeafs + Batch <= Len(NewValue)
           /\ \A i \in 1 .. Len(NewValue) :
                 NewValue[i] = IF i <= Len(deposits) THEN deposits[i] ELSE Zero
<1>1. PICK n \in Nat : n = Len(deposits)
  BY DEF ContractTypeOK
<1>2. nLeafs \in 0 .. n /\ depositTree.nq = n - nLeafs
  BY <1>1 DEF ContractTypeOK, Current, nQueueLeafs
<1>3. PICK m \in Nat : m = IF depositTree.nq < Batch THEN Batch - depositTree.nq ELSE 0
  BY <1>2, SizeAssumption
<1>4. PICK s : s = [i \in DOMAIN Data |-> Data[i].payload]
  OBVIOUS
<1>5. PICK z : z = [i \in 1 .. m |-> Zero]
  OBVIOUS
<1>6. s \in Seq(Leaf) /\ Len(s) = n /\ \A i \in 1 .. n : s[i] = deposits[i]
  <2>1. s = [i \in 1 .. n |-> deposits[i]]
    BY <1>1, <1>4, CurrentData
  <2>2. \A i \in 1 .. n : deposits[i] \in Leaf
    BY <1>1 DEF ContractTypeOK, Leaf
  <2>3. QED  BY <2>1, <2>2
<1>7. z \in Seq(Leaf) /\ Len(z) = m /\ \A i \in 1 .. m : z[i] = Zero
  <2>1. Zero \in Leaf
    BY DEF Leaf
  <2>2. QED  BY <1>5, <2>1
<1>8. NewValue = s \o z
  BY <1>3, <1>4, <1>5 DEF NewValue
<1>9. /\ NewValue \in Seq(Leaf) /\ Len(NewValue) = n + m
      /\ \A i \in 1 .. n + m : NewValue[i] = IF i <= n THEN s[i] ELSE z[i - n]
  BY <1>6, <1>7, <1>8, ConcatProperties
<1>10. nLeafs + Batch <= n + m
  BY <1>2, <1>3, SizeAssumption
<1>11. ASSUME NEW i \in 1 .. n + m
       PROVE  NewValue[i] = IF i <= n THEN deposits[i] ELSE Zero
  <2>1. CASE i <= n
    BY <1>6, <1>9, <2>1
  <2>2. CASE ~(i <= n)
    <3>1. i - n \in 1 .. m
      BY <2>2
    <3>2. QED  BY <1>7, <1>9, <2>2, <3>1
  <2>3. QED  BY <2>1, <2>2
<1>12. QED  BY <1>1, <1>9, <1>10, <1>11

\* A leaf of the tree of the first m of these leaves
LEMMA FirstLeaves ==
    ASSUME ContractTypeOK, Current, NEW m \in Nat, m <= Len(NewValue), NEW i \in Index
    PROVE  TreeOf(SubSeq(NewValue, 1, m))[i] =
              IF i < m /\ i < Len(deposits) THEN deposits[i + 1] ELSE Zero
<1>1. NewValue \in Seq(Leaf) /\ Len(deposits) \in Nat
  BY CurrentValue DEF ContractTypeOK
<1>2. /\ Len(SubSeq(NewValue, 1, m)) = m
      /\ \A j \in 1 .. m : SubSeq(NewValue, 1, m)[j] = NewValue[j]
  BY <1>1
<1>3. i \in Nat
  BY SizeAssumption DEF Index
<1>4. CASE i < m
  <2>1. i + 1 \in 1 .. m /\ i + 1 \in 1 .. Len(NewValue)
    BY <1>1, <1>3, <1>4
  <2>2. TreeOf(SubSeq(NewValue, 1, m))[i] = NewValue[i + 1]
    BY <1>2, <1>4, <2>1 DEF TreeOf
  <2>3. NewValue[i + 1] = IF i + 1 <= Len(deposits) THEN deposits[i + 1] ELSE Zero
    BY <2>1, CurrentValue
  <2>4. i + 1 <= Len(deposits) <=> i < Len(deposits)
    BY <1>1, <1>3
  <2>5. QED  BY <1>4, <2>2, <2>3, <2>4
<1>5. CASE ~(i < m)
  BY <1>2, <1>5 DEF TreeOf
<1>6. QED  BY <1>4, <1>5

\* The input made from files that are current is the batch the contract waits
\* for, and the circuit takes it.
LEMMA CurrentBatch ==
    ASSUME ContractTypeOK, CosmosRootIsPrefix, Current
    PROVE  /\ Complete
           /\ BatchInput.key = nLeafs
           /\ BatchInput.newValue = NextBatch
           /\ BatchInput.oldRoot = depositRoot
           /\ Provable(BatchInput)
<1>1. PICK n \in Nat : n = Len(deposits)
  BY DEF ContractTypeOK
<1>2. nLeafs \in 0 .. n /\ n <= MaxDeposits /\ depositTree.n = nLeafs
  BY <1>1 DEF ContractTypeOK, Current
<1>3. nLeafs \in Nat /\ Batch \in Nat /\ Capacity \in Nat /\ nLeafs + Batch <= Capacity
  BY <1>2, SizeAssumption, DepositAssumption
<1>4. /\ Len(NewValue) \in Nat /\ nLeafs + Batch <= Len(NewValue)
      /\ \A i \in 1 .. Len(NewValue) : NewValue[i] = IF i <= n THEN deposits[i] ELSE Zero
  BY <1>1, CurrentValue
<1>5. Complete
  BY <1>2, <1>4 DEF Complete
<1>6. PICK b : b = BatchInput
  OBVIOUS
<1>7. /\ b.key = nLeafs
      /\ b.newValue = [j \in 1 .. Batch |-> NewValue[nLeafs + j]]
      /\ b.oldRoot = TreeOf(SubSeq(NewValue, 1, nLeafs))
      /\ b.newRoot = TreeOf(SubSeq(NewValue, 1, nLeafs + Batch))
  BY <1>2, <1>6 DEF BatchInput
<1>8. b.newValue = NextBatch
  <2>1. ASSUME NEW j \in 1 .. Batch
        PROVE  NewValue[nLeafs + j] = IF j <= nQueueLeafs THEN deposits[nLeafs + j] ELSE Zero
    <3>1. nLeafs + j \in 1 .. Len(NewValue)
      BY <1>3, <1>4
    <3>2. nLeafs + j <= n <=> j <= nQueueLeafs
      BY <1>1, <1>2, <1>3 DEF nQueueLeafs
    <3>3. QED  BY <1>4, <3>1, <3>2
  <2>2. QED  BY <1>7, <2>1 DEF NextBatch
<1>9. ASSUME NEW i \in Index
      PROVE  /\ b.oldRoot[i] = IF i < nLeafs THEN deposits[i + 1] ELSE Zero
             /\ b.newRoot[i] = IF i < nLeafs + Batch /\ i < n THEN deposits[i + 1] ELSE Zero
  <2>1. nLeafs <= Len(NewValue) /\ nLeafs + Batch \in Nat /\ i \in Nat
    BY <1>3, <1>4, <1>9 DEF Index
  <2>2. i < nLeafs /\ i < n <=> i < nLeafs
    BY <1>2, <2>1
  <2>3. b.oldRoot[i] = IF i < nLeafs /\ i < n THEN deposits[i + 1] ELSE Zero
    BY <1>1, <1>3, <1>7, <2>1, FirstLeaves
  <2>4. b.newRoot[i] = IF i < nLeafs + Batch /\ i < n THEN deposits[i + 1] ELSE Zero
    BY <1>1, <1>4, <1>7, <2>1, FirstLeaves
  <2>5. QED  BY <2>2, <2>3, <2>4
<1>10. b.oldRoot = depositRoot
  <2>1. b.oldRoot = [i \in Index |-> b.oldRoot[i]]
    BY <1>7 DEF TreeOf
  <2>2. QED  BY <1>9, <2>1 DEF CosmosRootIsPrefix, PrefixRoot
<1>11. ASSUME NEW i \in nLeafs .. (nLeafs + Batch - 1)  PROVE b.oldRoot[i] = Zero
  <2>1. i \in Index /\ ~(i < nLeafs)
    BY <1>3 DEF Index
  <2>2. QED  BY <1>9, <2>1
<1>12. b.newRoot = Written(b.oldRoot, nLeafs, b.newValue, Batch)
  <2>1. ASSUME NEW i \in Index
        PROVE  b.newRoot[i] = IF i \in nLeafs .. (nLeafs + Batch - 1)
                              THEN b.newValue[i - nLeafs + 1] ELSE b.oldRoot[i]
    <3>1. i \in Nat
      BY <1>3 DEF Index
    <3>2. CASE i \in nLeafs .. (nLeafs + Batch - 1)
      <4>1. i - nLeafs + 1 \in 1 .. Batch /\ nLeafs + (i - nLeafs + 1) = i + 1
        BY <1>3, <3>1, <3>2
      <4>2. i + 1 \in 1 .. Len(NewValue) /\ (i + 1 <= n <=> i < n) /\ i < nLeafs + Batch
        BY <1>3, <1>4, <3>1, <3>2
      <4>3. b.newValue[i - nLeafs + 1] = NewValue[i + 1]
        BY <1>7, <4>1
      <4>4. NewValue[i + 1] = IF i < n THEN deposits[i + 1] ELSE Zero
        BY <1>4, <4>2
      <4>5. QED  BY <1>9, <3>2, <4>2, <4>3, <4>4
    <3>3. CASE i < nLeafs
      <4>1. i < nLeafs + Batch /\ i < n /\ i \notin nLeafs .. (nLeafs + Batch - 1)
        BY <1>2, <1>3, <3>1, <3>3
      <4>2. QED  BY <1>9, <3>3, <4>1
    <3>4. CASE ~(i < nLeafs) /\ i \notin nLeafs .. (nLeafs + Batch - 1)
      <4>1. ~(i < nLeafs + Batch)
        BY <1>3, <3>1, <3>4
      <4>2. QED  BY <1>9, <3>4, <4>1
    <3>5. QED  BY <3>2, <3>3, <3>4
  <2>2. b.newRoot = [i \in Index |-> b.newRoot[i]]
    BY <1>7 DEF TreeOf
  <2>3. QED  BY <2>1, <2>2 DEF Written
<1>13. Provable(b)
  BY <1>3, <1>7, <1>11, <1>12 DEF Provable
<1>14. QED  BY <1>5, <1>6, <1>7, <1>8, <1>10, <1>13

\* From files that are current step 3 makes a proof step 4 gets accepted, with
\* any number of batches done and any number of deposits waiting
\* (genDepositTreeProof.js: padding, order and slice of newValue).
THEOREM CurrentCorrect == Spec => []CurrentFilesProve
<1>1. Inv => CurrentFilesProve
  <2> SUFFICES ASSUME ContractTypeOK, CosmosRootIsPrefix, Current,
                      AllowEmptyBatch \/ nQueueLeafs > 0
               PROVE  Complete /\ Accepts(BatchInput)
    BY DEF Inv, CurrentFilesProve
  <2>1. QED  BY CurrentBatch DEF Accepts
<1>2. QED  BY <1>1, InvInit, InvStep, PTL DEF Spec
=============================================================================
