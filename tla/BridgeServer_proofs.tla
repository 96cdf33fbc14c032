------------------------- MODULE BridgeServer_proofs -------------------------
(***************************************************************************)
(* Theorems about BridgeServer, for every value of its constants.          *)
(***************************************************************************)
EXTENDS BridgeServer, SequenceTheorems, TLAPS

-----------------------------------------------------------------------------
(* Sequences.                                                              *)

\* Writing leaves over leaves gives leaves.
LEMMA UpdatedType ==
    ASSUME NEW leaves \in Seq(Leaf), NEW vals \in Seq(Leaf)
    PROVE  Updated(leaves, vals) \in Seq(Leaf)
<1> DEFINE n == IF Len(leaves) > Len(vals) THEN Len(leaves) ELSE Len(vals)
<1>1. n \in Nat /\ \A i \in 1 .. n : (IF i <= Len(vals) THEN vals[i] ELSE leaves[i]) \in Leaf
  OBVIOUS
<1>2. QED  BY <1>1 DEF Updated

\* A prefix of a sequence has its elements.
LEMMA PrefixType ==
    ASSUME NEW S, NEW s \in Seq(S), NEW n \in 0 .. Len(s)
    PROVE  SubSeq(s, 1, n) \in Seq(S)
  BY SubSeqProperties

\* Assigning one element, in bounds or not, gives a sequence.
LEMMA ExceptType ==
    ASSUME NEW S, NEW s \in Seq(S), NEW i, NEW e, i \in DOMAIN s => e \in S
    PROVE  [s EXCEPT ![i] = e] \in Seq(S)
<1>1. s \in [1 .. Len(s) -> S] /\ Len(s) \in Nat
  OBVIOUS
<1>2. [s EXCEPT ![i] = e] \in [1 .. Len(s) -> S]
  BY <1>1
<1>3. QED  BY <1>1, <1>2, SeqDef

\* InsertAt adds the new element and nothing else.
LEMMA InsertAtType ==
    ASSUME NEW S, NEW s \in Seq(S), NEW e \in S, NEW p \in 0 .. Len(s)
    PROVE  /\ InsertAt(s, p + 1, e) \in Seq(S)
           /\ \A i \in DOMAIN InsertAt(s, p + 1, e) :
                 \/ InsertAt(s, p + 1, e)[i] = e
                 \/ \E j \in DOMAIN s : InsertAt(s, p + 1, e)[i] = s[j]
<1> DEFINE a == SubSeq(s, 1, p)
           b == SubSeq(s, p + 1, Len(s))
<1>1. /\ a \in Seq(S) /\ Len(a) = p
      /\ \A i \in 1 .. p : a[i] = s[i]
  BY SubSeqProperties
<1>2. /\ b \in Seq(S) /\ Len(b) = Len(s) - p
      /\ \A i \in 1 .. Len(s) - p : b[i] = s[p + i]
  BY SubSeqProperties
<1> DEFINE t == (a \o <<e>>) \o b
<1>3. InsertAt(s, p + 1, e) = t
  <2>1. (p + 1) - 1 = p
    OBVIOUS
  <2>2. QED  BY <2>1, Zenon DEF InsertAt
<1> HIDE DEF a, b
<1>4. /\ a \o <<e>> \in Seq(S) /\ Len(a \o <<e>>) = p + 1
      /\ \A i \in 1 .. p + 1 : (a \o <<e>>)[i] = IF i <= p THEN a[i] ELSE e
  <2>1. <<e>> \in Seq(S) /\ Len(<<e>>) = 1 /\ <<e>>[1] = e
    OBVIOUS
  <2>2. QED  BY <1>1, <2>1, ConcatProperties
<1>5. /\ t \in Seq(S) /\ Len(t) = Len(s) + 1
      /\ \A i \in 1 .. Len(s) + 1 :
            t[i] = IF i <= p + 1 THEN (a \o <<e>>)[i] ELSE b[i - (p + 1)]
  <2>1. (p + 1) + (Len(s) - p) = Len(s) + 1
    OBVIOUS
  <2> DEFINE u == a \o <<e>>
  <2> HIDE DEF u
  <2>2. u \in Seq(S) /\ Len(u) = p + 1
    BY <1>4 DEF u
  <2>3. /\ u \o b \in Seq(S)
        /\ Len(u \o b) = Len(u) + Len(b)
        /\ \A i \in 1 .. Len(u) + Len(b) :
              (u \o b)[i] = IF i <= Len(u) THEN u[i] ELSE b[i - Len(u)]
    BY <1>2, <2>2, ConcatProperties
  <2>4. Len(u) + Len(b) = Len(s) + 1
    BY <1>2, <2>1, <2>2
  <2>5. QED  BY <2>2, <2>3, <2>4 DEF u
<1> HIDE DEF t
<1>6. ASSUME NEW i \in 1 .. Len(s) + 1
      PROVE  t[i] = e \/ \E j \in 1 .. Len(s) : t[i] = s[j]
  <2>1. CASE i <= p
    <3>1. t[i] = s[i] /\ i \in 1 .. Len(s)
      BY <1>1, <1>4, <1>5, <2>1
    <3>2. QED  BY <3>1
  <2>2. CASE i = p + 1
    BY <1>4, <1>5, <2>2
  <2>3. CASE i > p + 1
    <3>1. /\ i - (p + 1) \in 1 .. Len(s) - p
          /\ p + (i - (p + 1)) = i - 1 /\ i - 1 \in 1 .. Len(s)
      BY <2>3
    <3>2. t[i] = b[i - (p + 1)]
      BY <1>5, <2>3
    <3>3. QED  BY <1>2, <3>1, <3>2
  <2>4. QED  BY <2>1, <2>2, <2>3
<1>7. DOMAIN t = 1 .. Len(s) + 1 /\ DOMAIN s = 1 .. Len(s)
  BY <1>5
<1>8. QED  BY <1>3, <1>5, <1>6, <1>7

-----------------------------------------------------------------------------
(* What a step does to each of the chains.                                 *)

chain == <<deposits, nLeafs, depositRoot, txs>>

\* The Cosmos contract moves only by a deposit and by an accepted update.
LEMMA CosmosStep ==
    ASSUME [Next]_vars
    PROVE  \/ UNCHANGED chain
           \/ \E p \in Payload : Deposit(p)
           \/ \E s : UpdateDepositTree(s)
<1> USE DEF chain, cosmosVars
<1>1. CASE UNCHANGED vars
  BY <1>1 DEF vars
<1>2. ASSUME NEW r \in Requests,
             (\E k \in Kinds[r] : Receive(r, k)) \/ (\E i : ReceiveProof(r, i))
      PROVE  UNCHANGED chain
  BY <1>2 DEF Receive, ReceiveProof
<1>3. ASSUME NEW r \in Requests, Query(r)  PROVE UNCHANGED chain
  BY <1>3 DEF Query, QueryTree, FindTree, SaveTree, QueryQueue, FindRow, SaveRow
<1>4. ASSUME NEW r \in Requests, Prove(r)  PROVE UNCHANGED chain
  BY <1>4 DEF Prove, Initialize, FindRows, FindBatchTree, GenerateProof
<1>5. ASSUME NEW r \in Requests, Relay(r)
      PROVE  UNCHANGED chain \/ \E s : UpdateDepositTree(s)
  BY <1>5 DEF Relay, ReadProof, Execute, SaveTx, SaveBlock, SaveCommit,
              BridgeBlockHeader, GenerateProofEth, UpdateDepositRootOnEth
<1>6. ASSUME NEW r \in Requests, Delete(r) \/ UserProof(r)  PROVE UNCHANGED chain
  BY <1>6 DEF Delete, DeleteRows, DeleteTree,
              UserProof, InitProof, FindProofTree, FindProofRows, ProveClaim
<1>7. ASSUME NEW r \in Requests, ExecuteTimeout(r) \/ EthAnswerLost(r) \/ Fail(r)
      PROVE  UNCHANGED chain
  BY <1>7 DEF ExecuteTimeout, EthAnswerLost, Fail
<1>8. CASE Crash
  BY <1>8 DEF Crash
<1>9. CASE Environment
  BY <1>9 DEF Environment, LateCommit
<1>10. CASE Wait
  BY <1>10 DEF Wait, vars
<1>11. QED
  BY <1>1, <1>2, <1>3, <1>4, <1>5, <1>6, <1>7, <1>8, <1>9, <1>10 DEF Next, Step

\* The contracts on Ethereum move only by a header, a root and a claim.
HeaderStep(r) == pc[r] = "blockHeader" /\ UpdateBlockHeader(files.commit)
RootStep(r)   == pc[r] = "rootEth" /\ UpdateRootDepositTree(files.tx, txs[files.tx])

\* A step changes the contracts on Ethereum by one header, one root or one
\* claim, or not at all.
LEMMA EthStep ==
    ASSUME [Next]_vars
    PROVE  \/ UNCHANGED ethVars
           \/ \E r \in Requests : HeaderStep(r) \/ RootStep(r)
           \/ \E k \in Index, p \in Payload :
                 ClaimTransaction(k, p) /\ UNCHANGED <<cosmosVars, serverVars>>
<1>1. CASE UNCHANGED vars
  BY <1>1 DEF vars
<1>2. ASSUME NEW r \in Requests,
             (\E k \in Kinds[r] : Receive(r, k)) \/ (\E i : ReceiveProof(r, i))
      PROVE  UNCHANGED ethVars
  BY <1>2 DEF Receive, ReceiveProof
<1>3. ASSUME NEW r \in Requests, Query(r)  PROVE UNCHANGED ethVars
  BY <1>3 DEF Query, QueryTree, FindTree, SaveTree, QueryQueue, FindRow, SaveRow
<1>4. ASSUME NEW r \in Requests, Prove(r)  PROVE UNCHANGED ethVars
  BY <1>4 DEF Prove, Initialize, FindRows, FindBatchTree, GenerateProof
<1>5. ASSUME NEW r \in Requests, Relay(r)
      PROVE  UNCHANGED ethVars \/ HeaderStep(r) \/ RootStep(r)
  BY <1>5 DEF Relay, ReadProof, Execute, SaveTx, SaveBlock, SaveCommit, At,
              BridgeBlockHeader, GenerateProofEth, UpdateDepositRootOnEth,
              HeaderStep, RootStep
<1>6. ASSUME NEW r \in Requests, Delete(r) \/ UserProof(r)  PROVE UNCHANGED ethVars
  BY <1>6 DEF Delete, DeleteRows, DeleteTree,
              UserProof, InitProof, FindProofTree, FindProofRows, ProveClaim
<1>7. ASSUME NEW r \in Requests, ExecuteTimeout(r) \/ EthAnswerLost(r) \/ Fail(r)
      PROVE  UNCHANGED ethVars \/ HeaderStep(r) \/ RootStep(r)
  BY <1>7 DEF ExecuteTimeout, EthAnswerLost, Fail, At, HeaderStep, RootStep
<1>8. CASE Crash
  BY <1>8 DEF Crash
<1>9. CASE Environment
  BY <1>9 DEF Environment
<1>10. CASE Wait
  BY <1>10 DEF Wait, vars
<1>11. QED
  BY <1>1, <1>2, <1>3, <1>4, <1>5, <1>6, <1>7, <1>8, <1>9, <1>10 DEF Next, Step

-----------------------------------------------------------------------------
(* Types.                                                                  *)

\* The queue and the expected batch are what queries and proofs say they are.
LEMMA BatchType ==
    ASSUME CosmosTypeOK
    PROVE  /\ nQueueLeafs \in Nat
           /\ depositQueue \in Seq(Row)
           /\ NextBatch \in [1 .. Batch -> Leaf]
<1> USE SizeAssumption DEF CosmosTypeOK, nQueueLeafs, depositQueue, NextBatch, Row, Leaf
<1>1. nQueueLeafs \in Nat /\ nLeafs \in Nat /\ nLeafs + nQueueLeafs = Len(deposits)
  OBVIOUS
<1>2. \A j \in 1 .. nQueueLeafs : nLeafs + j \in 1 .. Len(deposits) /\ nLeafs + j - 1 \in Nat
  OBVIOUS
<1>3. depositQueue \in [1 .. nQueueLeafs -> Row]
  BY <1>2
<1>4. \A j \in 1 .. Batch : j <= nQueueLeafs => deposits[nLeafs + j] \in Payload
  BY <1>2
<1>5. QED  BY <1>1, <1>3, <1>4

\* An accepted update writes the batch the contract expects.
LEMMA AcceptedRoot ==
    ASSUME CosmosTypeOK, NEW s, Accepts(s)
    PROVE  /\ s.newRoot = Written(depositRoot, nLeafs, NextBatch, Batch)
           /\ s.newRoot \in Tree
           /\ nLeafs + Batch <= Capacity
<1>1. s.newRoot = Written(depositRoot, nLeafs, NextBatch, Batch) /\ nLeafs + Batch <= Capacity
  BY DEF Accepts, Provable
<1>2. ASSUME NEW i \in nLeafs .. (nLeafs + Batch - 1)
      PROVE  NextBatch[i - nLeafs + 1] \in Leaf
  <2>1. i - nLeafs + 1 \in 1 .. Batch
    BY SizeAssumption DEF CosmosTypeOK
  <2>2. QED  BY <2>1, BatchType
<1>3. Written(depositRoot, nLeafs, NextBatch, Batch) \in Tree
  BY <1>2 DEF Written, Tree, CosmosTypeOK
<1>4. QED  BY <1>1, <1>3

\* Every step keeps the types of the Cosmos contract.
LEMMA CosmosTypeStep ==
    ASSUME TypeOK, [Next]_vars
    PROVE  /\ deposits' \in Seq(Payload)
           /\ Len(deposits') <= MaxDeposits
           /\ nLeafs' \in 0 .. Len(deposits')
           /\ depositRoot' \in Tree
           /\ txs' \in Seq(Tree)
<1> USE DepositAssumption, SizeAssumption DEF TypeOK, CosmosTypeOK, chain
<1>1. CASE UNCHANGED chain
  BY <1>1
<1>2. ASSUME NEW p \in Payload, Deposit(p)
      PROVE  /\ deposits' \in Seq(Payload) /\ Len(deposits') = Len(deposits) + 1
             /\ Len(deposits) < MaxDeposits /\ UNCHANGED <<nLeafs, depositRoot, txs>>
  BY <1>2 DEF Deposit
<1>3. ASSUME NEW s, UpdateDepositTree(s)
      PROVE  /\ nLeafs' \in 0 .. Len(deposits)
             /\ depositRoot' \in Tree /\ txs' \in Seq(Tree) /\ UNCHANGED deposits
  <2>1. s.newRoot \in Tree
    BY <1>3, AcceptedRoot DEF UpdateDepositTree
  <2>2. nLeafs' \in 0 .. Len(deposits)
    BY <1>3 DEF UpdateDepositTree, nQueueLeafs
  <2>3. QED  BY <1>3, <2>1, <2>2 DEF UpdateDepositTree
<1>4. QED  BY <1>1, <1>2, <1>3, CosmosStep

\* Every step keeps the types of the Ethereum contracts.
LEMMA EthTypeStep ==
    ASSUME TypeOK, HeightsInv, [Next]_vars
    PROVE  EthTypeOK'
<1> USE EthAssumption DEF TypeOK, EthTypeOK, ethVars
<1>1. CASE UNCHANGED ethVars
  BY <1>1
<1>2. ASSUME NEW r \in Requests, HeaderStep(r)  PROVE EthTypeOK'
  <2>1. files.commit \in Nat
    BY DEF Files
  <2>2. files.commit = loc[r].height /\ loc[r].height \in 1 .. Len(txs)
    BY <1>2 DEF HeaderStep, HeightsInv
  <2>3. files.commit \in Nat \ {0}
    BY <2>1, <2>2 DEF CosmosTypeOK
  <2>4. QED  BY <1>2, <2>3 DEF HeaderStep, UpdateBlockHeader
<1>3. ASSUME NEW r \in Requests, RootStep(r)  PROVE EthTypeOK'
  <2>1. files.tx \in 1 .. Len(txs)
    BY <1>3 DEF RootStep, UpdateRootDepositTree, HeightsInv
  <2>2. txs[files.tx] \in Tree
    BY <2>1 DEF CosmosTypeOK
  <2>3. /\ depositRoots' \in Seq(Tree)
        /\ Len(depositRoots') <= RootHistorySize
    BY <1>3, <2>2 DEF RootStep, UpdateRootDepositTree
  <2>4. QED  BY <1>3, <2>3 DEF RootStep, UpdateRootDepositTree
<1>4. ASSUME NEW k \in Index, NEW p \in Payload, ClaimTransaction(k, p)  PROVE EthTypeOK'
  BY <1>4 DEF ClaimTransaction
<1>5. QED  BY <1>1, <1>2, <1>3, <1>4, EthStep

\* What TypeOK says of the server, and of the updates it left in the mempool.
ServerTypeOK ==
    /\ mempool \subseteq BatchStatement
    /\ rows \in Seq(Row)
    /\ treeDocs \in Seq(TreeDoc)
    /\ pc \in [Requests -> Labels]
    /\ loc \in [Requests -> Local]
    /\ trees \in Seq(Seq(Leaf))
    /\ busy \in Requests \cup {NoRequest}
    /\ files \in Files
    /\ calls \in 0 .. MaxCalls
    /\ given \in SUBSET ClaimProof
    /\ fails \in 0 .. MaxFails

\* A request starts with typed local variables.
LEMMA FreshType ==
    ASSUME NEW k \in {"none", "query", "update", "delete", "proof"}
    PROVE  Fresh(k) \in Local
  BY DEF Fresh, Local, TreeDoc, LoadedDoc, NullDoc

\* Goto keeps the types of the control state.
LEMMA GotoType ==
    ASSUME ServerTypeOK, NEW r \in Requests, NEW l \in Labels, NEW v \in Local,
           Goto(r, l, v)
    PROVE  pc' \in [Requests -> Labels] /\ loc' \in [Requests -> Local]
  BY DEF Goto, ServerTypeOK

\* Answer keeps the types of the control state.
LEMMA AnswerType ==
    ASSUME ServerTypeOK, NEW r \in Requests, Answer(r)
    PROVE  /\ pc' \in [Requests -> Labels] /\ loc' \in [Requests -> Local]
           /\ busy' \in Requests \cup {NoRequest}
<1>1. "idle" \in Labels
  BY DEF Labels
<1>2. QED  BY <1>1, FreshType, GotoType DEF Answer, ServerTypeOK

\* NextItem keeps the types of the control state.
LEMMA NextItemType ==
    ASSUME ServerTypeOK, NEW r \in Requests, NEW q \in Seq(Row), NextItem(r, q)
    PROVE  /\ pc' \in [Requests -> Labels] /\ loc' \in [Requests -> Local]
           /\ busy' \in Requests \cup {NoRequest}
<1>1. loc[r].kind \in {"none", "query", "update", "delete", "proof"}
  BY DEF ServerTypeOK, Local
<1>2. [Fresh(loc[r].kind) EXCEPT !.queue = q] \in Local
  <2>1. PICK f \in Local : f = Fresh(loc[r].kind)
    BY <1>1, FreshType
  <2>2. [f EXCEPT !.queue = q] \in Local
    BY <2>1 DEF Local
  <2>3. QED  BY <2>1, <2>2
<1>3. "findRow" \in Labels /\ "initialize" \in Labels
  BY DEF Labels
<1>4. CASE q # <<>>
  BY <1>2, <1>3, <1>4, GotoType DEF NextItem, ServerTypeOK
<1>5. CASE q = <<>> /\ loc[r].kind = "update"
  BY <1>3, <1>5, FreshType, GotoType DEF NextItem, ServerTypeOK
<1>6. CASE q = <<>> /\ loc[r].kind # "update"
  BY <1>6, AnswerType DEF NextItem
<1>7. QED  BY <1>4, <1>5, <1>6

\* newValue is a sequence of leaves.
LEMMA NewValueType ==
    ASSUME NEW data \in Seq(Row), NEW nq \in Nat
    PROVE  NewValue(data, nq) \in Seq(Leaf)
<1>1. [i \in 1 .. Len(data) |-> data[i].payload] \in Seq(Leaf)
  <2>1. \A i \in 1 .. Len(data) : data[i] \in Row
    OBVIOUS
  <2>2. \A i \in 1 .. Len(data) : data[i].payload \in Leaf
    BY <2>1 DEF Row, Leaf
  <2>3. QED  BY <2>2
<1>2. [i \in 1 .. (IF nq < Batch THEN Batch - nq ELSE 0) |-> Zero] \in Seq(Leaf)
  BY SizeAssumption DEF Leaf
<1>3. QED  BY <1>1, <1>2, ConcatProperties DEF NewValue

\* The leaves before the batch are leaves.
LEMMA OldLeavesType ==
    ASSUME NEW leaves \in Seq(Leaf), NEW value \in Seq(Leaf), NEW n \in 0 .. Len(value)
    PROVE  OldLeaves(leaves, value, n) \in Seq(Leaf)
<1>1. <<Zero>> \in Seq(Leaf)
  BY DEF Leaf
<1>2. QED  BY <1>1, PrefixType, UpdatedType DEF OldLeaves

\* queryDepositQueue keeps the types of the server.
LEMMA QueryType ==
    ASSUME TypeOK, ControlInv, NEW r \in Requests, Query(r)
    PROVE  ServerTypeOK'
<1> DEFINE x == loc[r]
<1>0. treeDocs \in Seq(TreeDoc)
  BY DEF TypeOK
<1>1. ServerTypeOK /\ x \in Local /\ CosmosTypeOK
  BY DEF TypeOK, ServerTypeOK, CosmosTypeOK
<1>2. /\ x.chain \in TreeDoc /\ x.doc \in LoadedDoc /\ x.queue \in Seq(Row)
      /\ x.kind \in {"none", "query", "update", "delete", "proof"}
  BY <1>1 DEF Local
<1>3. {"findTree", "saveTree", "queryQueue", "saveRow"} \subseteq Labels
  BY DEF Labels
<1> HIDE DEF x
<1>4. ASSUME QueryTree(r)  PROVE ServerTypeOK'
  <2>1. nLeafs \in Nat /\ nQueueLeafs \in Nat
    BY <1>1, BatchType DEF CosmosTypeOK
  <2>2. [x EXCEPT !.chain = [n |-> nLeafs, nq |-> nQueueLeafs]] \in Local
    BY <1>1, <2>1 DEF Local, TreeDoc
  <2>3. QED  BY <1>1, <1>3, <1>4, <2>2, GotoType
       DEF QueryTree, x, ServerTypeOK, cosmosVars
<1>5. ASSUME FindTree(r)  PROVE ServerTypeOK'
  <2>0. treeDocs # <<>> => treeDocs[1] \in TreeDoc
    BY <1>0
  <2>1. FirstTreeDoc \in LoadedDoc
    BY <2>0 DEF FirstTreeDoc, LoadedDoc, NullDoc, TreeDoc
  <2>2. [x EXCEPT !.doc = FirstTreeDoc] \in Local
    BY <1>1, <2>1 DEF Local
  <2>3. QED  BY <1>1, <1>3, <1>5, <2>2, GotoType
       DEF FindTree, x, ServerTypeOK, cosmosVars
<1>6. ASSUME SaveTree(r)  PROVE ServerTypeOK'
  <2>1. /\ Fresh(x.kind) \in Local
        /\ x.chain.n \in Nat /\ x.chain.nq \in Nat
    BY <1>2, FreshType DEF TreeDoc
  <2>2. CASE x.doc.ref = "null"
    <3>1. treeDocs' \in Seq(TreeDoc)
      <4>1. treeDocs' = Append(treeDocs, x.chain)
        BY <1>6, <2>2 DEF SaveTree, x
      <4>2. QED  BY <1>0, <1>2, <4>1
    <3>2. Goto(r, "queryQueue", Fresh(x.kind)) /\ UNCHANGED busy
      BY <1>6, <2>2 DEF SaveTree, x
    <3>3. QED  BY <1>1, <1>3, <1>6, <2>1, <3>1, <3>2, GotoType
         DEF SaveTree, ServerTypeOK, cosmosVars
  <2>3. CASE x.doc.ref = "held"
    <3> DEFINE d == [n  |-> Saved(x.doc.n, x.chain.n, treeDocs[1].n),
                     nq |-> Saved(x.doc.nq, x.chain.nq, treeDocs[1].nq)]
    <3>1. treeDocs' = [treeDocs EXCEPT ![1] = d]
      BY <1>6, <2>3 DEF SaveTree, x
    <3>2. ASSUME treeDocs # <<>>  PROVE d \in TreeDoc
      <4>1. treeDocs[1] \in TreeDoc
        BY <1>0, <3>2
      <4>2. QED  BY <2>1, <4>1 DEF TreeDoc, Saved
    <3> HIDE DEF d
    <3>3. treeDocs' \in Seq(TreeDoc)
      <4>1. 1 \in DOMAIN treeDocs => d \in TreeDoc
        BY <1>0, <3>2
      <4>2. QED  BY <1>0, <3>1, <4>1, ExceptType
    <3>4. Goto(r, "queryQueue", Fresh(x.kind)) /\ UNCHANGED busy
      BY <1>6, <2>3 DEF SaveTree, x
    <3>5. QED  BY <1>1, <1>3, <1>6, <2>1, <3>3, <3>4, GotoType
         DEF SaveTree, ServerTypeOK, cosmosVars
  <2>4. CASE x.doc.ref = "gone"
    BY <1>1, <1>6, <2>4, AnswerType DEF SaveTree, x, ServerTypeOK, cosmosVars
  <2>5. QED  BY <1>2, <2>2, <2>3, <2>4 DEF LoadedDoc
<1>7. ASSUME QueryQueue(r)  PROVE ServerTypeOK'
  BY <1>1, <1>7, BatchType, NextItemType
     DEF QueryQueue, ServerTypeOK, cosmosVars
<1>8. ASSUME FindRow(r)  PROVE ServerTypeOK'
  <2>1. \A f \in {"null", "held"} : [x EXCEPT !.found = f] \in Local
    BY <1>1 DEF Local
  <2>2. QED  BY <1>1, <1>3, <1>8, <2>1, GotoType
       DEF FindRow, x, ServerTypeOK, cosmosVars
<1>9. ASSUME SaveRow(r)  PROVE ServerTypeOK'
  <2>0. x.found \in {"null", "held", "gone"}
    BY <1>1 DEF Local
  <2>1. CASE x.found = "gone"
    BY <1>1, <1>9, <2>1, AnswerType DEF SaveRow, x, ServerTypeOK, cosmosVars
  <2>2. CASE x.found # "gone"
    <3>1. x.queue # <<>> /\ Head(x.queue) \in Row /\ Tail(x.queue) \in Seq(Row)
      <4>1. x.queue # <<>>
        BY <1>9 DEF SaveRow, At, ControlInv, x
      <4>2. QED  BY <1>2, <4>1
    <3>2. NextItem(r, Tail(x.queue))
      BY <1>9, <2>0, <2>2 DEF SaveRow, x
    <3>3. rows' \in Seq(Row)
      <4>1. UNCHANGED rows \/ Insert(Head(x.queue))
        BY <1>9, <2>0, <2>2 DEF SaveRow, x
      <4>2. rows \in Seq(Row)
        BY DEF TypeOK
      <4>3. QED  BY <3>1, <4>1, <4>2, InsertAtType DEF Insert
    <3>4. QED  BY <1>1, <1>9, <3>1, <3>2, <3>3, NextItemType DEF SaveRow, ServerTypeOK, cosmosVars
  <2>3. QED  BY <2>1, <2>2
<1>10. QED  BY <1>4, <1>5, <1>6, <1>7, <1>8, <1>9 DEF Query

\* generateProofUpdateRoot keeps the types of the server.
LEMMA ProveType ==
    ASSUME TypeOK, NEW r \in Requests, Prove(r)
    PROVE  ServerTypeOK'
<1> DEFINE x == loc[r]
<1>1. /\ ServerTypeOK /\ x \in Local /\ rows \in Seq(Row)
      /\ treeDocs \in Seq(TreeDoc) /\ trees \in Seq(Seq(Leaf))
  BY DEF TypeOK, ServerTypeOK, CosmosTypeOK
<1>2. {"findRows", "findBatchTree", "generateProof", "readProof"} \subseteq Labels
  BY DEF Labels
<1>3. /\ x.doc.n \in Nat /\ x.doc.nq \in Nat /\ x.tree \in Nat /\ x.data \in Seq(Row)
  BY <1>1 DEF Local, LoadedDoc
<1> HIDE DEF x
<1>4. ASSUME Initialize(r)  PROVE ServerTypeOK'
  <2>1. Len(trees) + 1 \in Nat /\ trees' \in Seq(Seq(Leaf))
    BY <1>1, <1>4 DEF Initialize
  <2>2. [x EXCEPT !.tree = Len(trees) + 1] \in Local
    BY <1>1, <2>1 DEF Local
  <2>3. QED  BY <1>1, <1>2, <1>4, <2>1, <2>2, GotoType
             DEF Initialize, x, ServerTypeOK, cosmosVars
<1>5. ASSUME FindRows(r)  PROVE ServerTypeOK'
  <2>1. [x EXCEPT !.data = rows] \in Local
    BY <1>1 DEF Local
  <2>2. QED  BY <1>1, <1>2, <1>5, <2>1, GotoType DEF FindRows, x, ServerTypeOK, cosmosVars
<1>6. ASSUME FindBatchTree(r)  PROVE ServerTypeOK'
  <2>1. treeDocs # <<>> => treeDocs[1] \in TreeDoc
    BY <1>1
  <2>2. FirstTreeDoc \in LoadedDoc
    BY <2>1 DEF FirstTreeDoc, LoadedDoc, NullDoc, TreeDoc
  <2>3. [x EXCEPT !.doc = FirstTreeDoc] \in Local
    BY <1>1, <2>2 DEF Local
  <2>4. CASE treeDocs # <<>>
    BY <1>1, <1>2, <1>6, <2>3, <2>4, GotoType DEF FindBatchTree, x, ServerTypeOK, cosmosVars
  <2>5. CASE treeDocs = <<>>
    BY <1>1, <1>6, <2>5, AnswerType DEF FindBatchTree, ServerTypeOK, cosmosVars
  <2>6. QED  BY <2>4, <2>5
<1>7. ASSUME GenerateProof(r)  PROVE ServerTypeOK'
  <2> DEFINE n      == x.doc.n
             value  == NewValue(x.data, x.doc.nq)
             t      == x.tree
             input  == BatchInput(trees[t], value, n)
             first  == IF n <= Len(value) THEN n ELSE Len(value)
             last   == IF n + Batch <= Len(value) THEN n + Batch ELSE Len(value)
             new    == Updated(OldLeaves(trees[t], value, first), SubSeq(value, 1, last))
  <2>1. value \in Seq(Leaf)
    BY <1>3, NewValueType
  <2>2. first \in 0 .. Len(value) /\ last \in 0 .. Len(value)
    BY <1>3, <2>1, SizeAssumption
  <2>3. ASSUME t \in DOMAIN trees  PROVE new \in Seq(Leaf)
    <3>1. trees[t] \in Seq(Leaf)
      BY <1>1, <2>3
    <3> HIDE DEF value, first, last, t
    <3>2. QED  BY <2>1, <2>2, <3>1, OldLeavesType, PrefixType, UpdatedType
  <2>4. trees' = [trees EXCEPT ![t] = new]
    BY <1>7 DEF GenerateProof, x
  <2> HIDE DEF new, t
  <2>5. trees' \in Seq(Seq(Leaf))
    BY <1>1, <2>3, <2>4, ExceptType
  <2>6. \/ /\ input \in BatchStatement
           /\ files' = [files EXCEPT !.proof = input]
           /\ Goto(r, "readProof", Fresh("update"))
           /\ UNCHANGED busy
        \/ Answer(r) /\ UNCHANGED files
    BY <1>7 DEF GenerateProof, x, t
  <2>7. UNCHANGED <<cosmosVars, rows, treeDocs, calls, given, fails>>
    BY <1>7 DEF GenerateProof
  <2> HIDE DEF input
  <2>8. CASE Answer(r) /\ UNCHANGED files
    BY <1>1, <2>5, <2>7, <2>8, AnswerType DEF ServerTypeOK, cosmosVars
  <2>9. CASE /\ input \in BatchStatement
             /\ files' = [files EXCEPT !.proof = input]
             /\ Goto(r, "readProof", Fresh("update"))
             /\ UNCHANGED busy
    <3>1. files' \in Files
      BY <1>1, <2>9 DEF ServerTypeOK, Files
    <3>2. QED  BY <1>1, <1>2, <2>5, <2>7, <2>9, <3>1, FreshType, GotoType
               DEF ServerTypeOK, cosmosVars
  <2>10. QED  BY <2>6, <2>8, <2>9
<1>8. QED  BY <1>4, <1>5, <1>6, <1>7 DEF Prove

\* The rest of PUT /update keeps the types of the server.
LEMMA RelayType ==
    ASSUME TypeOK, NEW r \in Requests, Relay(r)
    PROVE  ServerTypeOK'
<1> DEFINE x == loc[r]
<1>1. /\ ServerTypeOK /\ x \in Local /\ files \in Files /\ Len(txs) \in Nat
      /\ x.height \in Nat
  <2>1. ServerTypeOK /\ x \in Local /\ files \in Files /\ Len(txs) \in Nat
    BY DEF TypeOK, ServerTypeOK, CosmosTypeOK
  <2>2. QED  BY <2>1 DEF Local
<1>2. {"execute", "queryTx", "queryBlock", "queryCommit", "blockHeader",
       "proofEth", "rootEth"} \subseteq Labels
  BY DEF Labels
<1>3. [files EXCEPT !.tx = x.height] \in Files /\ [files EXCEPT !.block = x.height] \in Files
      /\ [files EXCEPT !.commit = x.height] \in Files
  BY <1>1 DEF Files
<1> HIDE DEF x
<1> USE DEF ServerTypeOK, cosmosVars
<1>4. ASSUME ReadProof(r)  PROVE ServerTypeOK'
  <2>1. [x EXCEPT !.msg = files.proof] \in Local
    BY <1>1 DEF Local, Files
  <2>2. QED  BY <1>1, <1>2, <1>4, <2>1, GotoType DEF ReadProof, x
<1>5. ASSUME Execute(r)  PROVE ServerTypeOK'
  <2>1. [Fresh("update") EXCEPT !.height = Len(txs) + 1] \in Local
    <3>1. Fresh("update") \in Local /\ Len(txs) + 1 \in Nat
      BY <1>1, FreshType
    <3>2. QED  BY <3>1 DEF Local
  <2>2. \/ Goto(r, "queryTx", [Fresh("update") EXCEPT !.height = Len(txs) + 1]) /\ UNCHANGED busy
        \/ Answer(r)
    BY <1>5 DEF Execute
  <2>3. QED  BY <1>1, <1>2, <1>5, <2>1, <2>2, AnswerType, GotoType DEF Execute
<1>6. ASSUME SaveTx(r)  PROVE ServerTypeOK'
  BY <1>1, <1>2, <1>3, <1>6, GotoType DEF SaveTx, x
<1>7. ASSUME SaveBlock(r)  PROVE ServerTypeOK'
  BY <1>1, <1>2, <1>3, <1>7, GotoType DEF SaveBlock, x
<1>8. ASSUME SaveCommit(r)  PROVE ServerTypeOK'
  BY <1>1, <1>2, <1>3, <1>8, GotoType DEF SaveCommit, x
<1>9. ASSUME BridgeBlockHeader(r)  PROVE ServerTypeOK'
  BY <1>1, <1>2, <1>9, GotoType DEF BridgeBlockHeader, x
<1>10. ASSUME GenerateProofEth(r)  PROVE ServerTypeOK'
  BY <1>1, <1>2, <1>10, AnswerType, GotoType DEF GenerateProofEth, x
<1>11. ASSUME UpdateDepositRootOnEth(r)  PROVE ServerTypeOK'
  BY <1>1, <1>11, AnswerType DEF UpdateDepositRootOnEth
<1>12. QED  BY <1>4, <1>5, <1>6, <1>7, <1>8, <1>9, <1>10, <1>11 DEF Relay

\* generateUserProof keeps the types of the server.
LEMMA UserProofType ==
    ASSUME TypeOK, NEW r \in Requests, UserProof(r)
    PROVE  ServerTypeOK'
<1> DEFINE x == loc[r]
<1>1. /\ ServerTypeOK /\ x \in Local /\ rows \in Seq(Row)
      /\ treeDocs \in Seq(TreeDoc) /\ trees \in Seq(Seq(Leaf)) /\ x.data \in Seq(Row)
  BY DEF TypeOK, ServerTypeOK, CosmosTypeOK, Local
<1>2. {"findProofTree", "findProofRows", "proveClaim"} \subseteq Labels
  BY DEF Labels
<1> HIDE DEF x
<1>3. ASSUME InitProof(r)  PROVE ServerTypeOK'
  <2>1. trees' \in Seq(Seq(Leaf))
    BY <1>1, <1>3 DEF InitProof
  <2>2. QED  BY <1>1, <1>2, <1>3, <2>1, GotoType DEF InitProof, x, ServerTypeOK, cosmosVars
<1>4. ASSUME FindProofTree(r)  PROVE ServerTypeOK'
  <2>1. treeDocs # <<>> => treeDocs[1] \in TreeDoc
    BY <1>1
  <2>2. FirstTreeDoc \in LoadedDoc
    BY <2>1 DEF FirstTreeDoc, LoadedDoc, NullDoc, TreeDoc
  <2>3. [x EXCEPT !.doc = FirstTreeDoc] \in Local
    BY <1>1, <2>2 DEF Local
  <2>4. \/ Goto(r, "findProofRows", [x EXCEPT !.doc = FirstTreeDoc]) /\ UNCHANGED busy
        \/ Answer(r)
    BY <1>4 DEF FindProofTree, x
  <2>5. QED  BY <1>1, <1>2, <1>4, <2>3, <2>4, AnswerType, GotoType
             DEF FindProofTree, ServerTypeOK, cosmosVars
<1>5. ASSUME FindProofRows(r)  PROVE ServerTypeOK'
  <2>1. ASSUME NEW m \in 0 .. Len(rows)
        PROVE  [x EXCEPT !.data = SubSeq(rows, 1, m), !.tree = Len(trees)] \in Local
    <3>1. SubSeq(rows, 1, m) \in Seq(Row) /\ Len(trees) \in Nat
      BY <1>1, PrefixType
    <3>2. QED  BY <1>1, <3>1 DEF Local
  <2>2. \/ \E m \in 0 .. Len(rows) :
              /\ Goto(r, "proveClaim", [x EXCEPT !.data = SubSeq(rows, 1, m),
                                                 !.tree = Len(trees)])
              /\ UNCHANGED busy
        \/ Answer(r)
    BY <1>5 DEF FindProofRows, x
  <2>3. UNCHANGED <<cosmosVars, rows, treeDocs, trees, files, calls, given, fails>>
    BY <1>5 DEF FindProofRows
  <2>4. QED  BY <1>1, <1>2, <2>1, <2>2, <2>3, AnswerType, GotoType
             DEF ServerTypeOK, cosmosVars
<1>6. ASSUME ProveClaim(r)  PROVE ServerTypeOK'
  <2> DEFINE vals == [i \in 1 .. Len(x.data) |-> x.data[i].payload]
             new  == Updated(trees[x.tree], vals)
  <2>1. vals \in Seq(Leaf)
    <3>1. \A i \in 1 .. Len(x.data) : x.data[i] \in Row
      BY <1>1
    <3>2. \A i \in 1 .. Len(x.data) : x.data[i].payload \in Leaf
      BY <3>1 DEF Row, Leaf
    <3>3. QED  BY <1>1, <3>2
  <2>2. ASSUME x.tree \in DOMAIN trees  PROVE new \in Seq(Leaf)
    <3>1. trees[x.tree] \in Seq(Leaf)
      BY <1>1, <2>2
    <3> HIDE DEF vals
    <3>2. QED  BY <2>1, <3>1, UpdatedType
  <2>3. ClaimTrees(r) = [trees EXCEPT ![x.tree] = new]
    BY DEF ClaimTrees, x
  <2> HIDE DEF new
  <2>4. trees' \in Seq(Seq(Leaf))
    <3>1. trees' = trees \/ trees' = [trees EXCEPT ![x.tree] = new]
      BY <1>6, <2>3 DEF ProveClaim
    <3>2. [trees EXCEPT ![x.tree] = new] \in Seq(Seq(Leaf))
      BY <1>1, <2>2, ExceptType
    <3>3. QED  BY <1>1, <3>1, <3>2
  <2>5. given' \in SUBSET ClaimProof
    BY <1>1, <1>6 DEF ProveClaim, ClaimProves, ServerTypeOK
  <2>6. QED  BY <1>1, <1>6, <2>4, <2>5, AnswerType DEF ProveClaim, ServerTypeOK, cosmosVars
<1>7. QED  BY <1>3, <1>4, <1>5, <1>6 DEF UserProof

\* Every step keeps the types of the server's state.
LEMMA ServerTypeStep ==
    ASSUME TypeOK, ControlInv, [Next]_vars
    PROVE  ServerTypeOK'
<1>1. ServerTypeOK
  BY DEF TypeOK, ServerTypeOK, CosmosTypeOK
<1>2. {"idle", "queryTree", "deleteRows", "deleteTree", "initProof"} \subseteq Labels
  BY DEF Labels
<1>3. CASE UNCHANGED vars
  BY <1>1, <1>3 DEF vars, serverVars, cosmosVars, ServerTypeOK
<1> USE DEF ServerTypeOK, cosmosVars
<1>4. ASSUME NEW r \in Requests, NEW k \in Kinds[r], Receive(r, k)  PROVE ServerTypeOK'
  <2>1. Fresh(k) \in Local
    BY FreshType, ServerAssumption
  <2>2. calls' \in 0 .. MaxCalls
    BY <1>1, <1>4, ServerAssumption DEF Receive, CountCall
  <2>3. pc' \in [Requests -> Labels] /\ loc' \in [Requests -> Local]
    BY <1>1, <1>2, <1>4, <2>1 DEF Receive, Goto
  <2>4. QED  BY <1>1, <1>4, <2>2, <2>3 DEF Receive
<1>5. ASSUME NEW r \in Requests, NEW i \in 0 .. MaxDeposits, ReceiveProof(r, i)
       PROVE  ServerTypeOK'
  <2>1. [Fresh("proof") EXCEPT !.key = i] \in Local
    <3>1. Fresh("proof") \in Local /\ i \in Nat
      BY FreshType
    <3>2. QED  BY <3>1 DEF Local
  <2>2. calls' \in 0 .. MaxCalls
    BY <1>1, <1>5, ServerAssumption DEF ReceiveProof, CountCall
  <2>3. QED  BY <1>1, <1>2, <1>5, <2>1, <2>2, GotoType DEF ReceiveProof
<1>6. ASSUME CountFail  PROVE fails' \in 0 .. MaxFails
  BY <1>1, <1>6, ServerAssumption DEF CountFail
<1>7. ASSUME NEW r \in Requests, Delete(r)  PROVE ServerTypeOK'
  <2>1. \A q \in Requests :
           /\ loc[q] \in Local
           /\ [loc[q] EXCEPT !.found = "gone"] \in Local
           /\ [loc[q] EXCEPT !.doc.ref = "gone"] \in Local
    <3>1. TAKE q \in Requests
    <3>2. PICK l \in Local : l = loc[q]
      BY <1>1
    <3>3. [l EXCEPT !.found = "gone"] \in Local
      BY <3>2 DEF Local
    <3>4. [l.doc EXCEPT !.ref = "gone"] \in LoadedDoc
      BY <3>2 DEF Local, LoadedDoc
    <3>5. [l EXCEPT !.doc.ref = "gone"] \in Local
      BY <3>2, <3>4 DEF Local
    <3>6. QED  BY <3>2, <3>3, <3>5
  <2>2. Fresh("none") \in Local
    BY FreshType
  <2>3. CASE DeleteRows(r)
    <3>1. pc' \in [Requests -> Labels] /\ rows' \in Seq(Row)
      BY <1>1, <1>2, <2>3 DEF DeleteRows
    <3>2. loc' \in [Requests -> Local]
      BY <2>1, <2>3 DEF DeleteRows
    <3>3. QED  BY <1>1, <2>3, <3>1, <3>2 DEF DeleteRows
  <2>4. CASE DeleteTree(r)
    <3>1. pc' \in [Requests -> Labels] /\ treeDocs' \in Seq(TreeDoc)
      BY <1>1, <1>2, <2>4 DEF DeleteTree
    <3>2. loc' \in [Requests -> Local]
      BY <2>1, <2>2, <2>4 DEF DeleteTree
    <3>3. QED  BY <1>1, <2>4, <3>1, <3>2 DEF DeleteTree
  <2>5. QED  BY <1>7, <2>3, <2>4 DEF Delete
<1>8. ASSUME NEW r \in Requests, ExecuteTimeout(r)  PROVE ServerTypeOK'
  <2>1. loc[r].msg \in BatchStatement
    BY <1>8 DEF ExecuteTimeout, At, ControlInv
  <2>2. QED  BY <1>1, <1>6, <1>8, <2>1, AnswerType DEF ExecuteTimeout
<1>9. ASSUME NEW r \in Requests, EthAnswerLost(r) \/ Fail(r)  PROVE ServerTypeOK'
  BY <1>1, <1>6, <1>9, AnswerType DEF EthAnswerLost, Fail
<1>10. ASSUME Crash  PROVE ServerTypeOK'
  <2>1. Fresh("none") \in Local
    BY FreshType
  <2>2. QED  BY <1>1, <1>2, <1>6, <1>10, <2>1 DEF Crash
<1>11. CASE Environment
  <2>1. UNCHANGED serverVars /\ mempool' \subseteq mempool
    BY <1>11 DEF Environment, Deposit, LateCommit
  <2>2. QED  BY <1>1, <2>1 DEF serverVars
<1>12. CASE Wait
  BY <1>1, <1>12 DEF Wait, vars, serverVars
<1>13. ASSUME NEW r \in Requests, Step(r)  PROVE ServerTypeOK'
  BY <1>7, <1>13, QueryType, ProveType, RelayType, UserProofType DEF Step
<1>14. QED
  BY <1>3, <1>4, <1>5, <1>8, <1>9, <1>10, <1>11, <1>12, <1>13 DEF Next

\* Every step keeps TypeOK.
LEMMA TypeStep ==
    ASSUME TypeOK, HeightsInv, ControlInv, [Next]_vars
    PROVE  TypeOK'
  BY CosmosTypeStep, EthTypeStep, ServerTypeStep DEF TypeOK, CosmosTypeOK, ServerTypeOK

-----------------------------------------------------------------------------
(* One request moves at a time.                                            *)

StepOf(r) == \/ \E k \in Kinds[r] : Receive(r, k)
             \/ \E i \in 0 .. MaxDeposits : ReceiveProof(r, i)
             \/ Step(r)
             \/ ExecuteTimeout(r) \/ EthAnswerLost(r) \/ Fail(r)

\* What a handler keeps that DELETE /db by another request does not touch
Kept(v) == <<v.queue, v.chain, v.data, v.msg, v.height>>

\* Goto(r, l, v) moves r and nobody else.
LEMMA GotoValues ==
    ASSUME ServerTypeOK, NEW r \in Requests, NEW l, NEW v, Goto(r, l, v)
    PROVE  /\ pc'[r] = l /\ loc'[r] = v
           /\ \A q \in Requests \ {r} : pc'[q] = pc[q] /\ loc'[q] = loc[q]
  BY DEF Goto, ServerTypeOK

\* Answer(r) ends r and nobody else.
LEMMA AnswerValues ==
    ASSUME ServerTypeOK, NEW r \in Requests, Answer(r)
    PROVE  /\ pc'[r] = "idle" /\ loc'[r] = Fresh("none")
           /\ \A q \in Requests \ {r} : pc'[q] = pc[q] /\ loc'[q] = loc[q]
  BY GotoValues DEF Answer

\* NextItem(r, p) takes r to the next item or out of the loop.
LEMMA NextItemValues ==
    ASSUME ServerTypeOK, NEW r \in Requests, NEW p, NextItem(r, p)
    PROVE  /\ \/ pc'[r] = "findRow" /\ p # <<>>
              \/ pc'[r] = "initialize"
              \/ pc'[r] = "idle"
           /\ loc'[r].queue \in {p, <<>>}
           /\ pc'[r] = "findRow" => loc'[r].queue = p
           /\ loc'[r].chain = [n |-> 0, nq |-> 0] /\ loc'[r].data = <<>>
           /\ \A q \in Requests \ {r} : pc'[q] = pc[q] /\ loc'[q] = loc[q]
<1>1. \A k : /\ Fresh(k).queue = <<>> /\ Fresh(k).data = <<>>
             /\ Fresh(k).chain = [n |-> 0, nq |-> 0]
  BY DEF Fresh
<1>2. CASE p # <<>>
  <2>1. Goto(r, "findRow", [Fresh(loc[r].kind) EXCEPT !.queue = p])
    BY <1>2 DEF NextItem
  <2>2. /\ pc'[r] = "findRow" /\ loc'[r] = [Fresh(loc[r].kind) EXCEPT !.queue = p]
        /\ \A q \in Requests \ {r} : pc'[q] = pc[q] /\ loc'[q] = loc[q]
    BY <2>1, GotoValues
  <2>3. /\ loc'[r].queue = p /\ loc'[r].data = <<>>
        /\ loc'[r].chain = [n |-> 0, nq |-> 0]
    BY <2>2 DEF Fresh
  <2>4. QED  BY <1>2, <2>2, <2>3
<1>3. CASE p = <<>>
  <2>1. Goto(r, "initialize", Fresh("update")) \/ Answer(r)
    BY <1>3 DEF NextItem
  <2>2. QED  BY <1>1, <1>3, <2>1, GotoValues, AnswerValues
<1>4. QED  BY <1>2, <1>3

\* A step of r needs the event loop and leaves the others where they are.
LEMMA OthersWait ==
    ASSUME ServerTypeOK, NEW r \in Requests, StepOf(r)
    PROVE  /\ busy \in {NoRequest, r}
           /\ \A q \in Requests \ {r} :
                 pc'[q] = pc[q] /\ Kept(loc'[q]) = Kept(loc[q])
           /\ ~Delete(r) => \A q \in Requests \ {r} : loc'[q] = loc[q]
<1>1. busy \in {NoRequest, r}
  BY DEF StepOf, Receive, ReceiveProof, Step, Query, QueryTree, FindTree, SaveTree, QueryQueue,
         FindRow, SaveRow, Prove, Initialize, FindRows, FindBatchTree, GenerateProof,
         Relay, ReadProof, Execute, SaveTx, SaveBlock, SaveCommit, BridgeBlockHeader,
         GenerateProofEth, UpdateDepositRootOnEth, Delete, DeleteRows, DeleteTree,
         UserProof, InitProof, FindProofTree, FindProofRows, ProveClaim,
         ExecuteTimeout, EthAnswerLost, Fail, At
<1> DEFINE Frame == \A q \in Requests \ {r} : pc'[q] = pc[q] /\ loc'[q] = loc[q]
<1>2. ASSUME (\E k \in Kinds[r] : Receive(r, k)) \/ (\E i : ReceiveProof(r, i))
      PROVE  Frame
  BY <1>2, GotoValues DEF Receive, ReceiveProof
<1>3. ASSUME Query(r)  PROVE Frame
  <2>1. CASE QueryTree(r) \/ FindTree(r) \/ FindRow(r)
    BY <2>1, GotoValues DEF QueryTree, FindTree, FindRow
  <2>2. CASE SaveTree(r)
    BY <2>2, GotoValues, AnswerValues DEF SaveTree
  <2>3. CASE QueryQueue(r) \/ SaveRow(r)
    BY <2>3, NextItemValues, AnswerValues DEF QueryQueue, SaveRow
  <2>4. QED  BY <1>3, <2>1, <2>2, <2>3 DEF Query
<1>4. ASSUME Prove(r)  PROVE Frame
  BY <1>4, GotoValues, AnswerValues
     DEF Prove, Initialize, FindRows, FindBatchTree, GenerateProof
<1>5. ASSUME Relay(r)  PROVE Frame
  BY <1>5, GotoValues, AnswerValues
     DEF Relay, ReadProof, Execute, SaveTx, SaveBlock, SaveCommit, BridgeBlockHeader,
         GenerateProofEth, UpdateDepositRootOnEth
<1>6. ASSUME Delete(r)
      PROVE  \A q \in Requests \ {r} : pc'[q] = pc[q] /\ Kept(loc'[q]) = Kept(loc[q])
  <2>1. \A q \in Requests : /\ Kept([loc[q] EXCEPT !.found = "gone"]) = Kept(loc[q])
                            /\ Kept([loc[q] EXCEPT !.doc.ref = "gone"]) = Kept(loc[q])
    BY DEF ServerTypeOK, Local, Kept
  <2>2. ASSUME NEW q \in Requests \ {r}
        PROVE  pc'[q] = pc[q] /\ loc'[q] \in {loc[q], [loc[q] EXCEPT !.found = "gone"],
                                               [loc[q] EXCEPT !.doc.ref = "gone"]}
    BY <1>6 DEF Delete, DeleteRows, DeleteTree, ServerTypeOK
  <2>3. QED  BY <2>1, <2>2
<1>7. ASSUME UserProof(r) \/ ExecuteTimeout(r) \/ EthAnswerLost(r) \/ Fail(r)  PROVE Frame
  BY <1>7, GotoValues, AnswerValues
     DEF UserProof, InitProof, FindProofTree, FindProofRows, ProveClaim,
         ExecuteTimeout, EthAnswerLost, Fail
<1>8. Frame => \A q \in Requests \ {r} :
                  pc'[q] = pc[q] /\ loc'[q] = loc[q] /\ Kept(loc'[q]) = Kept(loc[q])
  OBVIOUS
<1> HIDE DEF Frame
<1>9. QED
  BY <1>1, <1>2, <1>3, <1>4, <1>5, <1>6, <1>7, <1>8 DEF StepOf, Step

\* Every other step leaves the requests alone, or ends them all.
LEMMA NextCases ==
    ASSUME [Next]_vars
    PROVE  \/ \E r \in Requests : StepOf(r)
           \/ Crash
           \/ Environment /\ UNCHANGED serverVars
           \/ UNCHANGED vars
  BY DEF Next, StepOf, Environment, Wait

\* A crash ends every request.
LEMMA IdleCrash ==
    ASSUME Crash
    PROVE  \A r \in Requests : pc'[r] = "idle" /\ loc'[r] = Fresh("none")
  BY DEF Crash

\* Every step keeps ControlInv.
LEMMA ControlStep ==
    ASSUME TypeOK, ControlInv, [Next]_vars
    PROVE  ControlInv'
<1>1. ServerTypeOK
  BY DEF TypeOK, ServerTypeOK, CosmosTypeOK
<1> DEFINE Ready(q) ==
      /\ pc[q] \in {"findRow", "saveRow"} => loc[q].queue # <<>>
      /\ pc[q] = "readProof" => files.proof \in BatchStatement
      /\ pc[q] = "execute" => loc[q].msg \in BatchStatement
<1>2. ASSUME NEW r \in Requests, StepOf(r)  PROVE ControlInv'
  <2>1. files'.proof = files.proof \/ files'.proof \in BatchStatement
    <3>1. ASSUME GenerateProof(r)  PROVE files'.proof = files.proof \/ files'.proof \in BatchStatement
      BY <1>1, <3>1 DEF GenerateProof, ServerTypeOK, Files
    <3>2. ASSUME ~GenerateProof(r)  PROVE files'.proof = files.proof
      BY <1>1, <1>2, <3>2
         DEF StepOf, Receive, ReceiveProof, Step, Query, QueryTree, FindTree, SaveTree, QueryQueue,
             FindRow, SaveRow, Prove, Initialize, FindRows, FindBatchTree,
             Relay, ReadProof, Execute, SaveTx, SaveBlock, SaveCommit, BridgeBlockHeader,
             GenerateProofEth, UpdateDepositRootOnEth, Delete, DeleteRows, DeleteTree,
             UserProof, InitProof, FindProofTree, FindProofRows, ProveClaim,
             ExecuteTimeout, EthAnswerLost, Fail, ServerTypeOK, Files
    <3>3. QED  BY <3>1, <3>2
  <2>2. ASSUME NEW q \in Requests \ {r}  PROVE Ready(q)'
    BY <1>1, <1>2, <2>1, OthersWait DEF ControlInv, Kept
  <2>3. Ready(r)'
    <3>1. CASE (\E k \in Kinds[r] : Receive(r, k)) \/ (\E i : ReceiveProof(r, i))
      <4>1. pc'[r] \in {"queryTree", "deleteRows", "initProof"}
        BY <1>1, <3>1, GotoValues DEF Receive, ReceiveProof
      <4>2. QED  BY <4>1
    <3>2. CASE QueryTree(r) \/ FindTree(r)
      BY <1>1, <3>2, GotoValues DEF QueryTree, FindTree
    <3>3. CASE SaveTree(r)
      BY <1>1, <3>3, GotoValues, AnswerValues DEF SaveTree
    <3>4. CASE QueryQueue(r) \/ SaveRow(r)
      <4>1. Answer(r) \/ \E p : NextItem(r, p)
        BY <3>4 DEF QueryQueue, SaveRow
      <4>2. CASE Answer(r)
        BY <1>1, <4>2, AnswerValues
      <4>3. ASSUME NEW p, NextItem(r, p)  PROVE Ready(r)'
        BY <1>1, <4>3, NextItemValues
      <4>4. QED  BY <4>1, <4>2, <4>3
    <3>5. CASE FindRow(r)
      <4>1. \A w : [loc[r] EXCEPT !.found = w].queue = loc[r].queue
        BY <1>1 DEF ServerTypeOK, Local
      <4>2. loc[r].queue # <<>>
        BY <3>5 DEF FindRow, At, ControlInv
      <4>3. PICK w : Goto(r, "saveRow", [loc[r] EXCEPT !.found = w])
        BY <3>5 DEF FindRow
      <4>4. pc'[r] = "saveRow" /\ loc'[r] = [loc[r] EXCEPT !.found = w]
        BY <1>1, <4>3, GotoValues
      <4>5. QED  BY <4>1, <4>2, <4>4
    <3>6. CASE Initialize(r) \/ FindRows(r) \/ FindBatchTree(r)
      BY <1>1, <3>6, GotoValues, AnswerValues DEF Initialize, FindRows, FindBatchTree
    <3>7. CASE GenerateProof(r)
      <4>1. Answer(r) \/ /\ files'.proof \in BatchStatement
                         /\ Goto(r, "readProof", Fresh("update"))
        BY <1>1, <3>7 DEF GenerateProof, ServerTypeOK, Files
      <4>2. QED  BY <1>1, <4>1, GotoValues, AnswerValues
    <3>8. CASE ReadProof(r)
      <4>1. [loc[r] EXCEPT !.msg = files.proof].msg = files.proof
        BY <1>1 DEF ServerTypeOK, Local
      <4>2. files.proof \in BatchStatement
        BY <3>8 DEF ReadProof, At, ControlInv
      <4>3. pc'[r] = "execute" /\ loc'[r] = [loc[r] EXCEPT !.msg = files.proof]
        BY <1>1, <3>8, GotoValues DEF ReadProof
      <4>4. QED  BY <4>1, <4>2, <4>3
    <3>9. CASE \/ Execute(r) \/ SaveTx(r) \/ SaveBlock(r) \/ SaveCommit(r)
               \/ BridgeBlockHeader(r) \/ GenerateProofEth(r) \/ UpdateDepositRootOnEth(r)
      BY <1>1, <3>9, GotoValues, AnswerValues
         DEF Execute, SaveTx, SaveBlock, SaveCommit, BridgeBlockHeader,
             GenerateProofEth, UpdateDepositRootOnEth
    <3>10. CASE Delete(r)
      BY <1>1, <3>10 DEF Delete, DeleteRows, DeleteTree, ServerTypeOK
    <3>11. CASE UserProof(r) \/ ExecuteTimeout(r) \/ EthAnswerLost(r) \/ Fail(r)
      <4>1. \/ Answer(r)
            \/ \E l \in {"findProofTree", "findProofRows", "proveClaim"} : \E v : Goto(r, l, v)
        BY <3>11 DEF UserProof, InitProof, FindProofTree, FindProofRows, ProveClaim,
                     ExecuteTimeout, EthAnswerLost, Fail
      <4>2. pc'[r] \in {"idle", "findProofTree", "findProofRows", "proveClaim"}
        BY <1>1, <4>1, GotoValues, AnswerValues
      <4>3. QED  BY <4>2
    <3>12. QED
      BY <1>2, <3>1, <3>2, <3>3, <3>4, <3>5, <3>6, <3>7, <3>8, <3>9, <3>10, <3>11
         DEF StepOf, Step, Query, Prove, Relay
  <2>4. QED  BY <2>2, <2>3 DEF ControlInv
<1>3. CASE Crash
  BY <1>3, IdleCrash DEF ControlInv
<1>4. CASE UNCHANGED serverVars
  BY <1>4 DEF serverVars, ControlInv
<1>5. QED  BY <1>2, <1>3, <1>4, NextCases DEF vars

\* Every step keeps HeightsInv.
LEMMA HeightsStep ==
    ASSUME TypeOK, HeightsInv, [Next]_vars
    PROVE  HeightsInv'
<1>1. ServerTypeOK /\ Len(txs) \in Nat
  BY DEF TypeOK, ServerTypeOK, CosmosTypeOK
<1>2. Len(txs') \in Nat /\ Len(txs) <= Len(txs')
  <2>1. ASSUME NEW s, UpdateDepositTree(s)
        PROVE  Len(txs') = Len(txs) + 1
    BY <2>1 DEF UpdateDepositTree, TypeOK, CosmosTypeOK
  <2>2. QED  BY <1>1, <2>1, CosmosStep DEF chain, Deposit
<1> DEFINE Heights == \A h \in {files.tx, files.block, files.commit} : h <= Len(txs)
           Relayed == {"queryTx", "queryBlock", "queryCommit", "blockHeader", "proofEth", "rootEth"}
           Own(q)  == /\ pc[q] \in Relayed => loc[q].height \in 1 .. Len(txs)
                      /\ pc[q] \in {"blockHeader", "proofEth", "rootEth"} =>
                            busy = q /\ files.commit = loc[q].height
                      /\ pc[q] \in {"proofEth", "rootEth"} => currentHeader = loc[q].height
<1>3. (headers \subseteq 1 .. Len(txs))'
  <2>1. headers \subseteq 1 .. Len(txs) /\ headers \subseteq 1 .. Len(txs')
    BY <1>1, <1>2 DEF HeightsInv
  <2>2. ASSUME NEW r \in Requests, HeaderStep(r)  PROVE headers' \subseteq 1 .. Len(txs')
    <3>1. files.commit \in 1 .. Len(txs)
      BY <2>2 DEF HeaderStep, HeightsInv
    <3>2. files.commit \in 1 .. Len(txs')
      BY <1>1, <1>2, <3>1
    <3>3. headers' = headers \cup {files.commit}
      BY <2>2 DEF HeaderStep, UpdateBlockHeader
    <3>4. QED  BY <2>1, <3>2, <3>3
  <2>3. QED
    BY <2>1, <2>2, EthStep DEF ethVars, RootStep, UpdateRootDepositTree, ClaimTransaction
<1>4. ASSUME NEW r \in Requests, StepOf(r)  PROVE HeightsInv'
  <2>1. Heights'
    <3>1. CASE SaveTx(r) \/ SaveBlock(r) \/ SaveCommit(r)
      <4>1. loc[r].height <= Len(txs)
        BY <3>1, <1>1 DEF SaveTx, SaveBlock, SaveCommit, At, HeightsInv
      <4>2. UNCHANGED txs
        BY <3>1 DEF SaveTx, SaveBlock, SaveCommit, cosmosVars
      <4>3. QED  BY <1>1, <3>1, <4>1, <4>2
                 DEF SaveTx, SaveBlock, SaveCommit, ServerTypeOK, Files, HeightsInv
    <3>2. CASE ~(SaveTx(r) \/ SaveBlock(r) \/ SaveCommit(r))
      <4>1. /\ files'.tx = files.tx /\ files'.block = files.block
            /\ files'.commit = files.commit
        BY <1>1, <1>4, <3>2
           DEF StepOf, Receive, ReceiveProof, Step, Query, QueryTree, FindTree, SaveTree, QueryQueue,
               FindRow, SaveRow, Prove, Initialize, FindRows, FindBatchTree, GenerateProof,
               Relay, ReadProof, Execute, BridgeBlockHeader,
               GenerateProofEth, UpdateDepositRootOnEth, Delete, DeleteRows, DeleteTree,
               UserProof, InitProof, FindProofTree, FindProofRows, ProveClaim,
               ExecuteTimeout, EthAnswerLost, Fail, ServerTypeOK, Files
      <4>2. files.tx \in Nat /\ files.block \in Nat /\ files.commit \in Nat
        BY <1>1 DEF ServerTypeOK, Files
      <4>3. QED  BY <1>1, <1>2, <4>1, <4>2 DEF HeightsInv
    <3>3. QED  BY <3>1, <3>2
  <2>2. busy \in {NoRequest, r}
    BY <1>1, <1>4, OthersWait
  <2>3. ASSUME NEW q \in Requests \ {r}  PROVE Own(q)'
    <3>1. pc'[q] = pc[q] /\ loc'[q].height = loc[q].height
      BY <1>1, <1>4, OthersWait DEF Kept
    <3>2. pc[q] \notin {"blockHeader", "proofEth", "rootEth"}
      BY <2>2, ServerAssumption DEF HeightsInv
    <3>3. QED  BY <1>1, <1>2, <3>1, <3>2 DEF HeightsInv
  <2>4. Own(r)'
    <3>1. CASE (\E k \in Kinds[r] : Receive(r, k)) \/ (\E i : ReceiveProof(r, i))
      <4>1. pc'[r] \in {"queryTree", "deleteRows", "initProof"}
        BY <1>1, <3>1, GotoValues DEF Receive, ReceiveProof
      <4>2. QED  BY <4>1
    <3>2. CASE Query(r)
      <4>1. pc'[r] \in {"findTree", "saveTree", "queryQueue", "findRow", "saveRow",
                        "initialize", "idle"}
        <5>1. CASE QueryTree(r) \/ FindTree(r) \/ FindRow(r)
          BY <1>1, <5>1, GotoValues DEF QueryTree, FindTree, FindRow
        <5>2. CASE SaveTree(r)
          BY <1>1, <5>2, GotoValues, AnswerValues DEF SaveTree
        <5>3. CASE QueryQueue(r) \/ SaveRow(r)
          BY <1>1, <5>3, NextItemValues, AnswerValues DEF QueryQueue, SaveRow
        <5>4. QED  BY <3>2, <5>1, <5>2, <5>3 DEF Query
      <4>2. QED  BY <4>1
    <3>3. CASE Prove(r) \/ ReadProof(r)
      BY <1>1, <3>3, GotoValues, AnswerValues
         DEF Prove, Initialize, FindRows, FindBatchTree, GenerateProof, ReadProof
    <3>4. CASE Execute(r)
      <4>1. [Fresh("update") EXCEPT !.height = Len(txs) + 1].height = Len(txs) + 1
        BY DEF Fresh
      <4>2. Answer(r) \/ /\ Len(txs') = Len(txs) + 1
                         /\ Goto(r, "queryTx", [Fresh("update") EXCEPT !.height = Len(txs) + 1])
        BY <3>4 DEF Execute, UpdateDepositTree, TypeOK, CosmosTypeOK
      <4>3. CASE Answer(r)
        BY <1>1, <4>3, AnswerValues
      <4>4. CASE Goto(r, "queryTx", [Fresh("update") EXCEPT !.height = Len(txs) + 1])
        <5>1. pc'[r] = "queryTx" /\ loc'[r].height = Len(txs) + 1
          <6>1. /\ pc'[r] = "queryTx"
                /\ loc'[r] = [Fresh("update") EXCEPT !.height = Len(txs) + 1]
            BY <1>1, <4>4, GotoValues
          <6>2. QED  BY <4>1, <6>1
        <5>2. Len(txs') = Len(txs) + 1 \/ pc'[r] = "idle"
          BY <1>1, <4>2, AnswerValues
        <5>3. QED  BY <1>1, <5>1, <5>2
      <4>5. QED  BY <4>2, <4>3, <4>4
    <3>5. CASE SaveTx(r) \/ SaveBlock(r)
      BY <1>1, <3>5, GotoValues DEF SaveTx, SaveBlock, At, HeightsInv, cosmosVars
    <3>6. CASE SaveCommit(r)
      <4>1. busy' = r /\ files'.commit = loc[r].height
        BY <1>1, <3>6 DEF SaveCommit, ServerTypeOK, Files
      <4>2. QED
        BY <1>1, <3>6, <4>1, GotoValues DEF SaveCommit, At, HeightsInv, cosmosVars
    <3>7. CASE BridgeBlockHeader(r)
      BY <1>1, <3>7, GotoValues
         DEF BridgeBlockHeader, UpdateBlockHeader, At, HeightsInv, cosmosVars
    <3>8. CASE GenerateProofEth(r)
      BY <1>1, <3>8, GotoValues, AnswerValues
         DEF GenerateProofEth, At, HeightsInv, cosmosVars, ethVars
    <3>9. CASE UpdateDepositRootOnEth(r)
      BY <1>1, <3>9, AnswerValues DEF UpdateDepositRootOnEth
    <3>10. CASE Delete(r)
      BY <1>1, <3>10 DEF Delete, DeleteRows, DeleteTree, ServerTypeOK
    <3>11. CASE UserProof(r) \/ ExecuteTimeout(r) \/ EthAnswerLost(r) \/ Fail(r)
      <4>1. \/ Answer(r)
            \/ \E l \in {"findProofTree", "findProofRows", "proveClaim"} : \E v : Goto(r, l, v)
        BY <3>11 DEF UserProof, InitProof, FindProofTree, FindProofRows, ProveClaim,
                     ExecuteTimeout, EthAnswerLost, Fail
      <4>2. pc'[r] \in {"idle", "findProofTree", "findProofRows", "proveClaim"}
        BY <1>1, <4>1, GotoValues, AnswerValues
      <4>3. QED  BY <4>2
    <3>12. QED
      BY <1>4, <3>1, <3>2, <3>3, <3>4, <3>5, <3>6, <3>7, <3>8, <3>9, <3>10, <3>11
         DEF StepOf, Step, Relay
  <2>5. QED  BY <1>3, <2>1, <2>3, <2>4 DEF HeightsInv
<1>5. CASE files' = files /\ \A r \in Requests : pc'[r] = "idle"
  <2>1. files.tx \in Nat /\ files.block \in Nat /\ files.commit \in Nat
    BY <1>1 DEF ServerTypeOK, Files
  <2>2. QED  BY <1>1, <1>2, <1>3, <1>5, <2>1 DEF HeightsInv
<1>6. CASE UNCHANGED serverVars /\ UNCHANGED currentHeader
  <2>1. files.tx \in Nat /\ files.block \in Nat /\ files.commit \in Nat
    BY <1>1 DEF ServerTypeOK, Files
  <2>2. Heights'
    BY <1>1, <1>2, <1>6, <2>1 DEF HeightsInv, serverVars
  <2>3. \A q \in Requests : Own(q)'
    BY <1>1, <1>2, <1>6 DEF HeightsInv, serverVars
  <2>4. QED  BY <1>3, <2>2, <2>3 DEF HeightsInv
<1>7. ASSUME Crash  PROVE files' = files /\ \A r \in Requests : pc'[r] = "idle"
  BY <1>7, IdleCrash DEF Crash
<1>8. ASSUME Environment  PROVE UNCHANGED currentHeader
  BY <1>8 DEF Environment, ethVars, ClaimTransaction
<1>9. ASSUME UNCHANGED vars  PROVE UNCHANGED serverVars /\ UNCHANGED currentHeader
  BY <1>9 DEF vars, ethVars
<1>10. QED  BY <1>4, <1>5, <1>6, <1>7, <1>8, <1>9, NextCases

-----------------------------------------------------------------------------
(* The type invariant, with what makes it inductive.                       *)

TypeInv == TypeOK /\ HeightsInv /\ ControlInv

\* TypeInv holds initially.
LEMMA TypeInit == Init => TypeInv
<1> SUFFICES ASSUME Init  PROVE TypeInv
  OBVIOUS
<1> USE DEF Init, CosmosInit, EthInit
<1>1. CosmosTypeOK
  <2>1. TreeOf(<<>>) \in Tree
    BY SizeAssumption DEF TreeOf, Tree, Leaf, Index
  <2>2. QED  BY <2>1, DepositAssumption DEF CosmosTypeOK
<1>2. EthTypeOK
  BY EthAssumption DEF EthTypeOK
<1>3. ServerTypeOK
  <2>1. "idle" \in Labels /\ Fresh("none") \in Local
    BY FreshType DEF Labels
  <2>2. QED  BY <2>1, ServerAssumption DEF ServerTypeOK, Files
<1>4. TypeOK
  BY <1>1, <1>2, <1>3 DEF TypeOK, ServerTypeOK
<1>5. HeightsInv /\ ControlInv
  BY DEF HeightsInv, ControlInv
<1>6. QED  BY <1>4, <1>5 DEF TypeInv

\* TypeInv is inductive.
LEMMA TypeInvStep == TypeInv /\ [Next]_vars => TypeInv'
  BY TypeStep, HeightsStep, ControlStep DEF TypeInv

\* TypeInv is an invariant.
LEMMA TypeInvariant == Spec => []TypeInv
  BY TypeInit, TypeInvStep, PTL DEF Spec

\* Every variable always holds a value of its type: no interleaving, crash or
\* failure sends an undefined proof or relays a height the chain does not have.
THEOREM TypeCorrect == Spec => []TypeOK
<1>1. TypeInv => TypeOK
  BY DEF TypeInv
<1>2. QED  BY <1>1, TypeInvariant, PTL

\* While a request relays a block, the commit in the files and the header on
\* Ethereum are its own (UpdateDepositRoots.js, no await after line 210).
THEOREM HeightsCorrect == Spec => []HeightsInv
<1>1. TypeInv => HeightsInv
  BY DEF TypeInv
<1>2. QED  BY <1>1, TypeInvariant, PTL

-----------------------------------------------------------------------------
(* The chain only grows: what was true of a prefix stays true.             *)

\* A step only appends to the deposits and to the updates.
LEMMA ChainGrows ==
    ASSUME TypeOK, [Next]_vars
    PROVE  /\ nLeafs \in Nat /\ nLeafs' \in Nat /\ nLeafs <= nLeafs'
           /\ Len(deposits) \in Nat /\ Len(deposits') \in Nat
           /\ Len(deposits) <= Len(deposits')
           /\ \A k \in 1 .. Len(deposits) : deposits'[k] = deposits[k]
           /\ Len(txs) \in Nat /\ Len(txs') \in Nat /\ Len(txs) <= Len(txs')
           /\ \A k \in 1 .. Len(txs) : txs'[k] = txs[k]
<1>1. deposits \in Seq(Payload) /\ nLeafs \in 0 .. Len(deposits) /\ txs \in Seq(Tree)
  BY DEF TypeOK, CosmosTypeOK
<1>2. CASE UNCHANGED chain
  BY <1>1, <1>2 DEF chain
<1>3. ASSUME NEW p \in Payload, Deposit(p)
      PROVE  /\ UNCHANGED <<nLeafs, txs>> /\ Len(deposits') = Len(deposits) + 1
             /\ \A k \in 1 .. Len(deposits) : deposits'[k] = deposits[k]
  BY <1>1, <1>3 DEF Deposit
<1>4. ASSUME NEW s, UpdateDepositTree(s)
      PROVE  /\ UNCHANGED deposits /\ nLeafs' \in Nat /\ nLeafs <= nLeafs'
             /\ Len(txs') = Len(txs) + 1
             /\ \A k \in 1 .. Len(txs) : txs'[k] = txs[k]
  <2>1. s.newRoot \in Tree
    BY <1>4, AcceptedRoot DEF UpdateDepositTree, TypeOK
  <2>2. QED  BY <1>1, <1>4, <2>1, SizeAssumption DEF UpdateDepositTree
<1>5. QED  BY <1>1, <1>2, <1>3, <1>4, CosmosStep

\* The root over m deposits of the tree never changes.
LEMMA PrefixRootStays ==
    ASSUME TypeOK, [Next]_vars, NEW m \in 0 .. nLeafs
    PROVE  PrefixRoot(m)' = PrefixRoot(m) /\ m \in 0 .. nLeafs'
<1>1. nLeafs <= Len(deposits)
  BY DEF TypeOK, CosmosTypeOK
<1>2. ASSUME NEW i \in Index, i < m  PROVE deposits'[i + 1] = deposits[i + 1]
  <2>1. i + 1 \in 1 .. Len(deposits)
    BY <1>1, <1>2, ChainGrows DEF Index
  <2>2. QED  BY <2>1, ChainGrows
<1>3. m \in 0 .. nLeafs'
  BY ChainGrows
<1>4. QED  BY <1>2, <1>3 DEF PrefixRoot

\* An accepted proof takes the root of a prefix to the root of a longer one.
LEMMA CosmosRootStep ==
    ASSUME TypeOK, CosmosRootIsPrefix, [Next]_vars
    PROVE  CosmosRootIsPrefix'
<1>1. /\ deposits \in Seq(Payload) /\ nLeafs \in 0 .. Len(deposits)
      /\ nLeafs \in Nat /\ Len(deposits) \in Nat
  BY DEF TypeOK, CosmosTypeOK
<1>2. CASE UNCHANGED <<nLeafs, depositRoot>>
  <2>1. PrefixRoot(nLeafs)' = PrefixRoot(nLeafs)
    <3>1. \A i \in Index : i < nLeafs => deposits'[i + 1] = deposits[i + 1]
      BY <1>1, ChainGrows DEF Index
    <3>2. QED  BY <1>2, <3>1 DEF PrefixRoot
  <2>2. QED  BY <1>2, <2>1 DEF CosmosRootIsPrefix
<1>3. ASSUME NEW s, UpdateDepositTree(s)  PROVE CosmosRootIsPrefix'
  <2>1. /\ depositRoot' = Written(PrefixRoot(nLeafs), nLeafs, NextBatch, Batch)
        /\ UNCHANGED deposits
    BY <1>3, AcceptedRoot DEF UpdateDepositTree, TypeOK, CosmosRootIsPrefix
  <2>2. nLeafs' = IF nQueueLeafs < Batch THEN Len(deposits) ELSE nLeafs + Batch
    BY <1>3 DEF UpdateDepositTree
  <2>3. ASSUME NEW i \in Index
        PROVE  (IF i \in nLeafs .. (nLeafs + Batch - 1) THEN NextBatch[i - nLeafs + 1]
                ELSE IF i < nLeafs THEN deposits[i + 1] ELSE Zero)
               = IF i < nLeafs' THEN deposits[i + 1] ELSE Zero
    <3>1. i \in Nat /\ Batch \in Nat \ {0} /\ nQueueLeafs = Len(deposits) - nLeafs
      BY SizeAssumption DEF Index, nQueueLeafs
    <3>2. CASE i < nLeafs
      <4>1. i < nLeafs' /\ i \notin nLeafs .. (nLeafs + Batch - 1)
        BY <1>1, <2>2, <3>1, <3>2
      <4>2. QED  BY <3>2, <4>1
    <3>3. CASE i \in nLeafs .. (nLeafs + Batch - 1)
      <4>1. /\ i - nLeafs + 1 \in 1 .. Batch /\ nLeafs + (i - nLeafs + 1) = i + 1
            /\ i - nLeafs + 1 <= nQueueLeafs <=> i < Len(deposits)
            /\ i < nLeafs' <=> i < Len(deposits)
        BY <1>1, <2>2, <3>1, <3>3
      <4>2. NextBatch[i - nLeafs + 1] = IF i < Len(deposits) THEN deposits[i + 1] ELSE Zero
        BY <4>1 DEF NextBatch
      <4>3. QED  BY <3>3, <4>1, <4>2
    <3>4. CASE i >= nLeafs + Batch
      <4>1. ~(i < nLeafs') /\ ~(i < nLeafs) /\ i \notin nLeafs .. (nLeafs + Batch - 1)
        BY <1>1, <2>2, <3>1, <3>4
      <4>2. QED  BY <4>1
    <3>5. QED  BY <1>1, <3>1, <3>2, <3>3, <3>4
  <2>4. PrefixRoot(nLeafs)' = Written(PrefixRoot(nLeafs), nLeafs, NextBatch, Batch)
    <3>1. \A i \in Index : PrefixRoot(nLeafs)[i] = IF i < nLeafs THEN deposits[i + 1] ELSE Zero
      BY DEF PrefixRoot
    <3>2. QED  BY <2>1, <2>3, <3>1 DEF PrefixRoot, Written
  <2>5. QED  BY <2>1, <2>4 DEF CosmosRootIsPrefix
<1>4. QED  BY <1>2, <1>3, CosmosStep DEF chain, Deposit

\* Every step keeps TxRootsInv.
LEMMA TxRootsStep ==
    ASSUME TypeOK, TypeOK', CosmosRootIsPrefix', TxRootsInv, [Next]_vars
    PROVE  TxRootsInv'
<1>1. txs \in Seq(Tree) /\ DOMAIN txs = 1 .. Len(txs)
  BY DEF TypeOK, CosmosTypeOK
<1>2. ASSUME NEW i \in DOMAIN txs  PROVE \E m \in 0 .. nLeafs' : txs'[i] = PrefixRoot(m)'
  <2>1. PICK m \in 0 .. nLeafs : txs[i] = PrefixRoot(m)
    BY DEF TxRootsInv
  <2>2. txs'[i] = txs[i]
    BY <1>1, ChainGrows
  <2>3. QED  BY <2>1, <2>2, PrefixRootStays
<1>3. CASE UNCHANGED txs
  BY <1>2, <1>3 DEF TxRootsInv
<1>4. ASSUME NEW s, UpdateDepositTree(s)  PROVE TxRootsInv'
  <2>1. s.newRoot \in Tree
    BY <1>4, AcceptedRoot DEF UpdateDepositTree, TypeOK
  <2>2. /\ DOMAIN txs' = 1 .. Len(txs) + 1
        /\ txs'[Len(txs) + 1] = depositRoot'
    BY <1>1, <1>4, <2>1 DEF UpdateDepositTree
  <2>3. nLeafs' \in 0 .. nLeafs'
    BY ChainGrows
  <2>4. txs'[Len(txs) + 1] = PrefixRoot(nLeafs)'
    BY <2>2 DEF CosmosRootIsPrefix
  <2>5. ASSUME NEW i \in DOMAIN txs'  PROVE i \in DOMAIN txs \/ i = Len(txs) + 1
    BY <1>1, <2>2, ChainGrows
  <2>6. QED  BY <1>2, <2>3, <2>4, <2>5 DEF TxRootsInv
<1>5. QED  BY <1>3, <1>4, CosmosStep DEF chain, Deposit

\* Every step keeps EthRootsAreCosmosRoots.
LEMMA EthRootsStep ==
    ASSUME TypeOK, HeightsInv, TxRootsInv, EthRootsAreCosmosRoots, [Next]_vars
    PROVE  EthRootsAreCosmosRoots'
<1> DEFINE HadRoot(R) == \E m \in 0 .. nLeafs' : R = PrefixRoot(m)'
<1>1. depositRoots \in Seq(Tree) /\ Len(depositRoots) \in Nat
  BY DEF TypeOK, EthTypeOK
<1>2. ASSUME NEW i \in DOMAIN depositRoots  PROVE HadRoot(depositRoots[i])
  <2>1. PICK m \in 0 .. nLeafs : depositRoots[i] = PrefixRoot(m)
    BY DEF EthRootsAreCosmosRoots
  <2>2. QED  BY <2>1, PrefixRootStays
<1>3. CASE UNCHANGED depositRoots
  BY <1>2, <1>3 DEF EthRootsAreCosmosRoots
<1>4. ASSUME NEW r \in Requests, RootStep(r)  PROVE EthRootsAreCosmosRoots'
  <2> DEFINE R == txs[files.tx]
  <2>1. files.tx \in 1 .. Len(txs)
    BY <1>4 DEF RootStep, UpdateRootDepositTree, HeightsInv
  <2>2. R \in Tree /\ HadRoot(R)
    <3>1. files.tx \in DOMAIN txs /\ R \in Tree
      BY <2>1 DEF TypeOK, CosmosTypeOK
    <3>2. PICK m \in 0 .. nLeafs : R = PrefixRoot(m)
      BY <3>1 DEF TxRootsInv
    <3>3. QED  BY <3>1, <3>2, PrefixRootStays
  <2>3. \/ depositRoots' = Append(depositRoots, R)
        \/ depositRoots' = Append(Tail(depositRoots), R) /\ depositRoots # <<>>
    BY <1>1, <1>4, EthAssumption DEF RootStep, UpdateRootDepositTree
  <2> HIDE DEF R, HadRoot
  <2>4. ASSUME NEW i \in DOMAIN depositRoots'
        PROVE  depositRoots'[i] = R \/ \E j \in DOMAIN depositRoots : depositRoots'[i] = depositRoots[j]
    <3>1. CASE depositRoots' = Append(depositRoots, R)
      BY <1>1, <2>2, <3>1
    <3>2. CASE depositRoots' = Append(Tail(depositRoots), R) /\ depositRoots # <<>>
      <4>1. /\ Tail(depositRoots) \in Seq(Tree) /\ Len(Tail(depositRoots)) = Len(depositRoots) - 1
            /\ \A j \in 1 .. Len(depositRoots) - 1 : Tail(depositRoots)[j] = depositRoots[j + 1]
        BY <1>1, <3>2
      <4>2. i \in 1 .. Len(depositRoots)
        BY <1>1, <2>2, <3>2, <4>1
      <4>3. CASE i = Len(depositRoots)
        BY <1>1, <2>2, <3>2, <4>1, <4>3
      <4>4. CASE i < Len(depositRoots)
        <5>1. i \in 1 .. Len(depositRoots) - 1 /\ i + 1 \in DOMAIN depositRoots
          BY <1>1, <4>2, <4>4
        <5>2. depositRoots'[i] = depositRoots[i + 1]
          BY <1>1, <2>2, <3>2, <4>1, <5>1
        <5>3. QED  BY <5>1, <5>2
      <4>5. QED  BY <1>1, <4>2, <4>3, <4>4
    <3>3. QED  BY <2>3, <3>1, <3>2
  <2>5. \A i \in DOMAIN depositRoots' : HadRoot(depositRoots'[i])
    BY <1>2, <2>2, <2>4
  <2>6. QED  BY <2>5 DEF EthRootsAreCosmosRoots, HadRoot
<1>5. QED
  BY <1>3, <1>4, EthStep DEF ethVars, HeaderStep, UpdateBlockHeader, ClaimTransaction

\* Every step keeps ClaimsBacked.
LEMMA ClaimsStep ==
    ASSUME TypeOK, EthRootsAreCosmosRoots, ClaimsBacked, [Next]_vars
    PROVE  ClaimsBacked'
<1>1. /\ sentProof \subseteq Index \X Payload /\ nLeafs <= Len(deposits)
      /\ Index \subseteq Nat
  BY DEF TypeOK, EthTypeOK, CosmosTypeOK, Index
<1>2. ASSUME NEW k \in Index, NEW p \in Payload, k < nLeafs, deposits[k + 1] = p
      PROVE  k < nLeafs' /\ deposits'[k + 1] = p
  <2>1. k \in Nat /\ k + 1 \in 1 .. Len(deposits)
    BY <1>1, <1>2, ChainGrows
  <2>2. QED  BY <1>2, <2>1, ChainGrows
<1>3. ASSUME NEW c \in sentProof  PROVE c[1] < nLeafs' /\ deposits'[c[1] + 1] = c[2]
  <2>1. c[1] \in Index /\ c[2] \in Payload
    BY <1>1
  <2>2. c[1] < nLeafs /\ deposits[c[1] + 1] = c[2]
    BY DEF ClaimsBacked
  <2>3. QED  BY <1>2, <2>1, <2>2
<1>4. ASSUME NEW k \in Index, NEW p \in Payload, ClaimTransaction(k, p)
      PROVE  ClaimsBacked'
  <2>1. PICK i \in DOMAIN depositRoots : depositRoots[i][k] = p
    BY <1>4 DEF ClaimTransaction
  <2>2. PICK m \in 0 .. nLeafs : depositRoots[i] = PrefixRoot(m)
    BY DEF EthRootsAreCosmosRoots
  <2>3. k < m /\ deposits[k + 1] = p
    BY <2>1, <2>2, ZeroAssumption DEF PrefixRoot
  <2>4. k < nLeafs
    BY <1>1, <2>3, ChainGrows
  <2>5. k < nLeafs' /\ deposits'[k + 1] = p
    BY <1>2, <2>3, <2>4
  <2>6. sentProof' = sentProof \cup {<<k, p>>}
    BY <1>4 DEF ClaimTransaction
  <2>7. QED  BY <1>3, <2>5, <2>6 DEF ClaimsBacked
<1>5. CASE UNCHANGED sentProof
  BY <1>3, <1>5 DEF ClaimsBacked
<1>6. QED
  BY <1>4, <1>5, EthStep
     DEF ethVars, HeaderStep, UpdateBlockHeader, RootStep, UpdateRootDepositTree

-----------------------------------------------------------------------------
(* The database.                                                           *)

\* The row is one of the deposits d.
DepositOf(d, row) == row.key < Len(d) /\ row.payload = d[row.key + 1]

\* A row that is a deposit of the chain stays one.
LEMMA DepositStays ==
    ASSUME TypeOK, [Next]_vars, NEW row \in Row, DepositOf(deposits, row)
    PROVE  DepositOf(deposits', row)
<1>1. row.key \in Nat
  BY DEF Row
<1>2. row.key + 1 \in 1 .. Len(deposits)
  BY <1>1, ChainGrows DEF DepositOf
<1>3. QED  BY <1>1, <1>2, ChainGrows DEF DepositOf

\* What a handler has read of the chain changes only by reading it again.
LEMMA AnswerSources ==
    ASSUME TypeOK, ControlInv, NEW r \in Requests, StepOf(r)
    PROVE  /\ \/ loc'[r].chain.n = 0
              \/ loc'[r].chain = loc[r].chain
              \/ loc'[r].chain.n = nLeafs
           /\ \/ loc'[r].queue \in {<<>>, loc[r].queue, depositQueue}
              \/ loc[r].queue # <<>> /\ loc'[r].queue = Tail(loc[r].queue)
           /\ \/ loc'[r].data \in {<<>>, loc[r].data, rows}
              \/ \E m \in 0 .. Len(rows) : loc'[r].data = SubSeq(rows, 1, m)
<1>1. ServerTypeOK /\ loc[r] \in Local
  BY DEF TypeOK, ServerTypeOK, CosmosTypeOK
<1> DEFINE Clean == loc'[r].queue = <<>> /\ loc'[r].data = <<>> /\ loc'[r].chain.n = 0
           Same  == /\ loc'[r].queue = loc[r].queue /\ loc'[r].data = loc[r].data
                    /\ loc'[r].chain = loc[r].chain
<1>2. ASSUME NEW l, NEW k, Goto(r, l, Fresh(k))  PROVE Clean
  <2>1. loc'[r] = Fresh(k)
    BY <1>1, <1>2, GotoValues
  <2>2. QED  BY <2>1 DEF Fresh
<1>3. ASSUME Answer(r)  PROVE Clean
  BY <1>2, <1>3 DEF Answer
<1>4. ASSUME NEW l, Goto(r, l, loc[r])  PROVE Same
  BY <1>1, <1>4, GotoValues
<1>5. ASSUME QueryTree(r)  
      PROVE  /\ loc'[r].queue = loc[r].queue /\ loc'[r].data = loc[r].data
             /\ loc'[r].chain.n = nLeafs
  <2>1. loc'[r] = [loc[r] EXCEPT !.chain = [n |-> nLeafs, nq |-> nQueueLeafs]]
    BY <1>1, <1>5, GotoValues DEF QueryTree
  <2>2. QED  BY <1>1, <2>1 DEF Local
<1>6. CASE QueryQueue(r) \/ SaveRow(r)
  <2>1. \/ Answer(r)
        \/ NextItem(r, depositQueue)
        \/ NextItem(r, Tail(loc[r].queue)) /\ loc[r].queue # <<>>
    <3>1. CASE QueryQueue(r)
      BY <3>1 DEF QueryQueue
    <3>2. CASE SaveRow(r)
      <4>1. loc[r].queue # <<>>
        BY <3>2 DEF SaveRow, At, ControlInv
      <4>2. Answer(r) \/ NextItem(r, Tail(loc[r].queue))
        BY <3>2 DEF SaveRow
      <4>3. QED  BY <4>1, <4>2
    <3>3. QED  BY <1>6, <3>1, <3>2
  <2>2. ASSUME NEW p, NextItem(r, p)
        PROVE  loc'[r].queue \in {p, <<>>} /\ loc'[r].data = <<>> /\ loc'[r].chain.n = 0
    BY <1>1, <2>2, NextItemValues
  <2>3. QED  BY <1>3, <2>1, <2>2
<1>7. CASE \E k \in Kinds[r] : Receive(r, k)
  BY <1>2, <1>7 DEF Receive
<1>8. CASE FindTree(r)
  <2>1. loc'[r] = [loc[r] EXCEPT !.doc = FirstTreeDoc]
    BY <1>1, <1>8, GotoValues DEF FindTree
  <2>2. QED  BY <1>1, <2>1 DEF Local
<1>9. CASE FindBatchTree(r)
  <2>1. CASE treeDocs # <<>>
    <3>1. loc'[r] = [loc[r] EXCEPT !.doc = FirstTreeDoc]
      BY <1>1, <1>9, <2>1, GotoValues DEF FindBatchTree
    <3>2. QED  BY <1>1, <3>1 DEF Local
  <2>2. CASE treeDocs = <<>>
    BY <1>3, <1>9, <2>2 DEF FindBatchTree
  <2>3. QED  BY <2>1, <2>2
<1>10. CASE FindRow(r)
  <2>1. PICK w : Goto(r, "saveRow", [loc[r] EXCEPT !.found = w])
    BY <1>10 DEF FindRow
  <2>2. loc'[r] = [loc[r] EXCEPT !.found = w]
    BY <1>1, <2>1, GotoValues
  <2>3. QED  BY <1>1, <2>2 DEF Local
<1>11. CASE Initialize(r)
  <2>1. loc'[r] = [loc[r] EXCEPT !.tree = Len(trees) + 1]
    BY <1>1, <1>11, GotoValues DEF Initialize
  <2>2. QED  BY <1>1, <2>1 DEF Local
<1>12. CASE FindRows(r)
  <2>1. loc'[r] = [loc[r] EXCEPT !.data = rows]
    BY <1>1, <1>12, GotoValues DEF FindRows
  <2>2. QED  BY <1>1, <2>1 DEF Local
<1>13. CASE ReadProof(r)
  <2>1. loc'[r] = [loc[r] EXCEPT !.msg = files.proof]
    BY <1>1, <1>13, GotoValues DEF ReadProof
  <2>2. QED  BY <1>1, <2>1 DEF Local
<1>14. CASE Execute(r)
  <2>1. ASSUME Goto(r, "queryTx", [Fresh("update") EXCEPT !.height = Len(txs) + 1])
        PROVE  Clean
    <3>1. loc'[r] = [Fresh("update") EXCEPT !.height = Len(txs) + 1]
      BY <1>1, <2>1, GotoValues
    <3>2. QED  BY <3>1 DEF Fresh
  <2>2. QED  BY <1>3, <1>14, <2>1 DEF Execute
<1>15. CASE SaveTree(r) \/ GenerateProof(r)
  <2>1. Answer(r) \/ \E l, k : Goto(r, l, Fresh(k))
    BY <1>15 DEF SaveTree, GenerateProof
  <2>2. QED  BY <1>2, <1>3, <2>1
<1>16. CASE SaveTx(r) \/ SaveBlock(r) \/ SaveCommit(r) \/ BridgeBlockHeader(r)
            \/ GenerateProofEth(r)
  <2>1. Answer(r) \/ \E l : Goto(r, l, loc[r])
    BY <1>16 DEF SaveTx, SaveBlock, SaveCommit, BridgeBlockHeader, GenerateProofEth
  <2>2. QED  BY <1>3, <1>4, <2>1
<1>17. CASE UpdateDepositRootOnEth(r) \/ ExecuteTimeout(r) \/ EthAnswerLost(r) \/ Fail(r)
  BY <1>3, <1>17 DEF UpdateDepositRootOnEth, ExecuteTimeout, EthAnswerLost, Fail
<1>18. CASE Delete(r)
  <2>1. \/ loc'[r] = loc[r]
        \/ loc'[r] = Fresh("none")
        \/ loc'[r] = [loc[r] EXCEPT !.found = "gone"]
    BY <1>1, <1>18 DEF Delete, DeleteRows, DeleteTree, ServerTypeOK
  <2>2. CASE loc'[r] = loc[r]
    BY <2>2
  <2>3. CASE loc'[r] = Fresh("none")
    BY <2>3 DEF Fresh
  <2>4. CASE loc'[r] = [loc[r] EXCEPT !.found = "gone"]
    BY <1>1, <2>4 DEF Local
  <2>5. QED  BY <2>1, <2>2, <2>3, <2>4
<1>19. CASE \E i : ReceiveProof(r, i)
  <2>1. PICK i : Goto(r, "initProof", [Fresh("proof") EXCEPT !.key = i])
    BY <1>19 DEF ReceiveProof
  <2>2. loc'[r] = [Fresh("proof") EXCEPT !.key = i]
    BY <1>1, <2>1, GotoValues
  <2>3. QED  BY <2>2 DEF Fresh
<1>20. CASE InitProof(r) \/ ProveClaim(r)
  BY <1>3, <1>4, <1>20 DEF InitProof, ProveClaim
<1>21. CASE FindProofTree(r)
  <2>1. \/ Answer(r)
        \/ Goto(r, "findProofRows", [loc[r] EXCEPT !.doc = FirstTreeDoc])
    BY <1>21 DEF FindProofTree
  <2>2. ASSUME Goto(r, "findProofRows", [loc[r] EXCEPT !.doc = FirstTreeDoc])  PROVE Same
    <3>1. loc'[r] = [loc[r] EXCEPT !.doc = FirstTreeDoc]
      BY <1>1, <2>2, GotoValues
    <3>2. QED  BY <1>1, <3>1 DEF Local
  <2>3. QED  BY <1>3, <2>1, <2>2
<1>22. CASE FindProofRows(r)
  <2>1. \/ Answer(r)
        \/ \E m \in 0 .. Len(rows) :
              Goto(r, "proveClaim", [loc[r] EXCEPT !.data = SubSeq(rows, 1, m),
                                                   !.tree = Len(trees)])
    BY <1>22 DEF FindProofRows
  <2>2. ASSUME NEW m \in 0 .. Len(rows),
               Goto(r, "proveClaim", [loc[r] EXCEPT !.data = SubSeq(rows, 1, m),
                                                    !.tree = Len(trees)])
        PROVE  /\ loc'[r].queue = loc[r].queue /\ loc'[r].chain = loc[r].chain
               /\ loc'[r].data = SubSeq(rows, 1, m)
    <3>1. loc'[r] = [loc[r] EXCEPT !.data = SubSeq(rows, 1, m), !.tree = Len(trees)]
      BY <1>1, <2>2, GotoValues
    <3>2. QED  BY <1>1, <3>1 DEF Local
  <2>3. QED  BY <1>3, <2>1, <2>2
<1>23. QED
  BY <1>5, <1>6, <1>7, <1>8, <1>9, <1>10, <1>11, <1>12, <1>13, <1>14, <1>15, <1>16,
     <1>17, <1>18, <1>19, <1>20, <1>21, <1>22
     DEF StepOf, Step, Query, Prove, Relay, UserProof

\* Every step keeps AnswersInv.
LEMMA AnswersStep ==
    ASSUME TypeOK, ControlInv, AnswersInv, RowsMatchChain, [Next]_vars
    PROVE  AnswersInv'
<1> DEFINE Now(s)   == \A i \in DOMAIN s : DepositOf(deposits, s[i])
           Later(s) == \A i \in DOMAIN s : DepositOf(deposits', s[i])
           True(v)  == v.chain.n <= nLeafs' /\ Later(v.queue) /\ Later(v.data)
<1>1. ServerTypeOK /\ CosmosTypeOK /\ rows \in Seq(Row)
  BY DEF TypeOK, ServerTypeOK, CosmosTypeOK
<1>2. \A q \in Requests : /\ loc[q].queue \in Seq(Row) /\ loc[q].data \in Seq(Row)
                          /\ loc[q].chain.n \in Nat
  BY <1>1 DEF ServerTypeOK, Local, TreeDoc
<1>3. ASSUME NEW s \in Seq(Row), Now(s)  PROVE Later(s)
  <2>1. \A i \in DOMAIN s : s[i] \in Row
    OBVIOUS
  <2>2. QED  BY <1>3, <2>1, DepositStays
<1>4. Later(rows)
  BY <1>1, <1>3 DEF RowsMatchChain, DepositOf
<1>5. \A q \in Requests : True(loc[q])
  <2>1. ASSUME NEW q \in Requests
        PROVE  loc[q].chain.n <= nLeafs /\ Now(loc[q].queue) /\ Now(loc[q].data)
    BY DEF AnswersInv, DepositOf
  <2>2. ASSUME NEW q \in Requests  PROVE Later(loc[q].queue) /\ Later(loc[q].data)
    BY <1>2, <1>3, <2>1
  <2>3. ASSUME NEW q \in Requests  PROVE loc[q].chain.n <= nLeafs'
    BY <1>2, <2>1, ChainGrows
  <2>4. QED  BY <2>2, <2>3
<1>6. Later(<<>>)
  OBVIOUS
<1>7. Later(depositQueue)
  <2>1. deposits \in Seq(Payload) /\ nLeafs \in 0 .. Len(deposits)
    BY DEF TypeOK, CosmosTypeOK
  <2>2. ASSUME NEW j \in DOMAIN depositQueue  PROVE DepositOf(deposits, depositQueue[j])
    <3>1. /\ j \in 1 .. nQueueLeafs
          /\ depositQueue[j] = [key |-> nLeafs + j - 1, payload |-> deposits[nLeafs + j]]
      BY DEF depositQueue
    <3>2. nLeafs + j - 1 < Len(deposits) /\ (nLeafs + j - 1) + 1 = nLeafs + j
      BY <2>1, <3>1 DEF nQueueLeafs
    <3>3. QED  BY <3>1, <3>2 DEF DepositOf
  <2>3. depositQueue \in Seq(Row)
    BY <1>1, BatchType
  <2>4. QED  BY <1>3, <2>2, <2>3
<1>8. ASSUME NEW q \in Requests, loc[q].queue # <<>>  PROVE Later(Tail(loc[q].queue))
  <2>1. ASSUME NEW i \in DOMAIN Tail(loc[q].queue)
        PROVE  i + 1 \in DOMAIN loc[q].queue /\ Tail(loc[q].queue)[i] = loc[q].queue[i + 1]
    BY <1>2, <1>8
  <2>2. QED  BY <1>5, <2>1
<1>9. ASSUME NEW m \in 0 .. Len(rows)  PROVE Later(SubSeq(rows, 1, m))
  <2>1. ASSUME NEW i \in DOMAIN SubSeq(rows, 1, m)
        PROVE  i \in DOMAIN rows /\ SubSeq(rows, 1, m)[i] = rows[i]
    BY <1>1, SubSeqProperties
  <2>2. QED  BY <1>4, <2>1
<1> HIDE DEF Later
<1>10. ASSUME NEW r \in Requests, StepOf(r)  PROVE AnswersInv'
  <2>1. ASSUME NEW q \in Requests \ {r}  PROVE True(loc'[q])
    <3>1. /\ loc'[q].chain = loc[q].chain /\ loc'[q].queue = loc[q].queue
          /\ loc'[q].data = loc[q].data
      BY <1>1, <1>10, OthersWait DEF Kept
    <3>2. QED  BY <1>5, <3>1
  <2>2. loc'[r].chain.n <= nLeafs'
    BY <1>5, <1>10, AnswerSources, ChainGrows
  <2>3. Later(loc'[r].queue)
    BY <1>5, <1>6, <1>7, <1>8, <1>10, AnswerSources
  <2>4. Later(loc'[r].data)
    BY <1>4, <1>5, <1>6, <1>9, <1>10, AnswerSources
  <2>5. \A q \in Requests : True(loc'[q])
    BY <2>1, <2>2, <2>3, <2>4
  <2>6. QED  BY <2>5 DEF AnswersInv, DepositOf, Later
<1>11. CASE Crash
  <2>1. \A q \in Requests : /\ loc'[q].queue = <<>> /\ loc'[q].data = <<>>
                            /\ loc'[q].chain.n = 0
    BY <1>11, IdleCrash DEF Fresh
  <2>2. QED  BY <2>1, ChainGrows DEF AnswersInv
<1>12. CASE UNCHANGED serverVars
  BY <1>5, <1>12 DEF serverVars, AnswersInv, DepositOf, Later
<1>13. QED  BY <1>10, <1>11, <1>12, NextCases DEF vars

\* A row at a position of the rows a handler holds is claimed as it is.
LEMMA ClaimOfRow ==
    ASSUME TypeOK, AnswersInv, NEW r \in Requests, ClaimProves(r)
    PROVE  LET input == ClaimInput(r)
           IN  input.key < Len(deposits) /\ deposits[input.key + 1] = input.payload
<1>1. loc[r].data \in Seq(Row) /\ loc[r].key \in Nat
  BY DEF TypeOK, Local
<1>2. loc[r].key + 1 \in DOMAIN loc[r].data
  BY <1>1 DEF ClaimProves
<1>3. DepositOf(deposits, loc[r].data[loc[r].key + 1])
  BY <1>2 DEF AnswersInv, DepositOf
<1>4. QED  BY <1>3 DEF ClaimInput, DepositOf

\* Every step keeps GivenBacked.
LEMMA GivenStep ==
    ASSUME TypeOK, AnswersInv, GivenBacked, [Next]_vars
    PROVE  GivenBacked'
<1> DEFINE RowOf(g) == [key |-> g.key, payload |-> g.payload]
<1>1. ASSUME NEW g \in ClaimProof, g.key < Len(deposits), deposits[g.key + 1] = g.payload
      PROVE  g.key < Len(deposits') /\ deposits'[g.key + 1] = g.payload
  <2>1. RowOf(g) \in Row /\ DepositOf(deposits, RowOf(g))
    BY <1>1 DEF ClaimProof, Row, Index, DepositOf
  <2>2. QED  BY <2>1, DepositStays DEF DepositOf
<1>2. ASSUME NEW g \in given  PROVE g.key < Len(deposits') /\ deposits'[g.key + 1] = g.payload
  BY <1>1 DEF TypeOK, GivenBacked
<1>3. CASE UNCHANGED given
  BY <1>2, <1>3 DEF GivenBacked
<1>4. ASSUME NEW r \in Requests, ProveClaim(r)  PROVE GivenBacked'
  <2>1. given' = given \/ (ClaimProves(r) /\ given' = given \cup {ClaimInput(r)})
    BY <1>4 DEF ProveClaim
  <2>2. ASSUME ClaimProves(r)
        PROVE  /\ ClaimInput(r).key < Len(deposits')
               /\ deposits'[ClaimInput(r).key + 1] = ClaimInput(r).payload
    <3>1. ClaimInput(r) \in ClaimProof
      BY <2>2 DEF ClaimProves
    <3>2. QED  BY <1>1, <2>2, <3>1, ClaimOfRow
  <2>3. QED  BY <1>2, <2>1, <2>2 DEF GivenBacked
<1>5. ASSUME NEW r \in Requests, StepOf(r), ~ProveClaim(r)  PROVE UNCHANGED given
  BY <1>5
     DEF StepOf, Receive, ReceiveProof, Step, Query, QueryTree, FindTree, SaveTree,
         QueryQueue, FindRow, SaveRow, Prove, Initialize, FindRows, FindBatchTree,
         GenerateProof, Relay, ReadProof, Execute, SaveTx, SaveBlock, SaveCommit,
         BridgeBlockHeader, GenerateProofEth, UpdateDepositRootOnEth,
         Delete, DeleteRows, DeleteTree,
         UserProof, InitProof, FindProofTree, FindProofRows,
         ExecuteTimeout, EthAnswerLost, Fail
<1>6. ASSUME Crash \/ UNCHANGED serverVars  PROVE UNCHANGED given
  BY <1>6 DEF Crash, serverVars
<1>7. QED  BY <1>3, <1>4, <1>5, <1>6, NextCases DEF vars

\* Every step keeps RowsMatchChain.
LEMMA RowsStep ==
    ASSUME TypeOK, ControlInv, AnswersInv, RowsMatchChain, [Next]_vars
    PROVE  RowsMatchChain'
<1>1. ServerTypeOK /\ rows \in Seq(Row)
  BY DEF TypeOK, ServerTypeOK, CosmosTypeOK
<1>2. ASSUME NEW i \in DOMAIN rows  PROVE DepositOf(deposits', rows[i])
  <2>1. rows[i] \in Row
    BY <1>1
  <2>2. DepositOf(deposits, rows[i])
    BY DEF RowsMatchChain, DepositOf
  <2>3. QED  BY <2>1, <2>2, DepositStays
<1>3. CASE UNCHANGED rows
  BY <1>2, <1>3 DEF RowsMatchChain, DepositOf
<1>4. ASSUME NEW r \in Requests, SaveRow(r)  PROVE RowsMatchChain'
  <2> DEFINE row == Head(loc[r].queue)
  <2>1. row \in Row /\ DepositOf(deposits, row)
    <3>1. loc[r].queue \in Seq(Row) /\ loc[r].queue # <<>>
      BY <1>1, <1>4 DEF ServerTypeOK, Local, SaveRow, At, ControlInv
    <3>2. 1 \in DOMAIN loc[r].queue /\ row = loc[r].queue[1] /\ row \in Row
      BY <3>1
    <3>3. QED  BY <3>2 DEF AnswersInv, DepositOf
  <2>2. DepositOf(deposits', row)
    BY <2>1, DepositStays
  <2>3. Insert(row) \/ UNCHANGED rows
    BY <1>4 DEF SaveRow
  <2> HIDE DEF row
  <2>4. CASE Insert(row)
    <3>1. PICK p \in 0 .. Len(rows) : rows' = InsertAt(rows, p + 1, row)
      BY <2>4 DEF Insert
    <3>2. \A i \in DOMAIN rows' : rows'[i] = row \/ \E j \in DOMAIN rows : rows'[i] = rows[j]
      BY <1>1, <2>1, <3>1, InsertAtType
    <3>3. \A i \in DOMAIN rows' : DepositOf(deposits', rows'[i])
      BY <1>2, <2>2, <3>2
    <3>4. QED  BY <3>3 DEF RowsMatchChain, DepositOf
  <2>5. QED  BY <1>3, <2>3, <2>4
<1>5. ASSUME NEW r \in Requests, StepOf(r), ~SaveRow(r)
      PROVE  UNCHANGED rows \/ rows' = <<>>
  BY <1>5
     DEF StepOf, Receive, ReceiveProof, Step, Query, QueryTree, FindTree, SaveTree, QueryQueue,
         FindRow, Prove, Initialize, FindRows, FindBatchTree, GenerateProof,
         Relay, ReadProof, Execute, SaveTx, SaveBlock, SaveCommit, BridgeBlockHeader,
         GenerateProofEth, UpdateDepositRootOnEth, Delete, DeleteRows, DeleteTree,
         UserProof, InitProof, FindProofTree, FindProofRows, ProveClaim,
         ExecuteTimeout, EthAnswerLost, Fail
<1>6. CASE rows' = <<>>
  BY <1>6 DEF RowsMatchChain
<1>7. ASSUME Crash \/ UNCHANGED serverVars  PROVE UNCHANGED rows
  BY <1>7 DEF Crash, serverVars
<1>8. QED  BY <1>3, <1>4, <1>5, <1>6, <1>7, NextCases DEF vars

\* Every step keeps TreeDocNeverAhead.
LEMMA TreeDocStep ==
    ASSUME TypeOK, AnswersInv, TreeDocNeverAhead, [Next]_vars
    PROVE  TreeDocNeverAhead'
<1>1. treeDocs \in Seq(TreeDoc) /\ ServerTypeOK
  BY DEF TypeOK, ServerTypeOK, CosmosTypeOK
<1>2. ASSUME NEW i \in DOMAIN treeDocs  PROVE treeDocs[i].n <= nLeafs'
  <2>1. treeDocs[i] \in TreeDoc
    BY <1>1
  <2>2. treeDocs[i].n \in Nat
    BY <2>1 DEF TreeDoc
  <2>3. QED  BY <2>2, ChainGrows DEF TreeDocNeverAhead
<1>3. CASE UNCHANGED treeDocs
  BY <1>2, <1>3 DEF TreeDocNeverAhead
<1>4. ASSUME NEW r \in Requests, SaveTree(r)  PROVE TreeDocNeverAhead'
  <2> DEFINE new == loc[r].chain
             doc == loc[r].doc
  <2>1. new \in TreeDoc /\ new.n \in Nat /\ new.n <= nLeafs'
    <3>1. new \in TreeDoc /\ new.n \in Nat
      BY <1>1 DEF ServerTypeOK, Local, TreeDoc
    <3>2. QED  BY <3>1, ChainGrows DEF AnswersInv
  <2> HIDE DEF new
  <2>2. CASE doc.ref = "null"
    <3>1. treeDocs' = Append(treeDocs, new)
      BY <1>4, <2>2 DEF SaveTree, new
    <3>2. /\ DOMAIN treeDocs = 1 .. Len(treeDocs) /\ Len(treeDocs) \in Nat
          /\ DOMAIN treeDocs' = 1 .. Len(treeDocs) + 1
          /\ treeDocs'[Len(treeDocs) + 1] = new
          /\ \A i \in 1 .. Len(treeDocs) : treeDocs'[i] = treeDocs[i]
      BY <1>1, <2>1, <3>1, AppendProperties
    <3>3. QED  BY <1>2, <2>1, <3>2 DEF TreeDocNeverAhead
  <2>3. CASE doc.ref = "held"
    <3> DEFINE d == [n  |-> Saved(doc.n, new.n, treeDocs[1].n),
                     nq |-> Saved(doc.nq, new.nq, treeDocs[1].nq)]
    <3>1. treeDocs' = [treeDocs EXCEPT ![1] = d]
      BY <1>4, <2>3 DEF SaveTree, new
    <3>2. d.n \in {new.n, treeDocs[1].n}
      BY DEF Saved
    <3> HIDE DEF d
    <3>3. ASSUME NEW i \in DOMAIN treeDocs'  PROVE treeDocs'[i].n <= nLeafs'
      <4>1. i \in DOMAIN treeDocs
        BY <3>1
      <4>2. treeDocs'[i] = IF i = 1 THEN d ELSE treeDocs[i]
        BY <3>1, <4>1
      <4>3. QED  BY <1>2, <2>1, <3>2, <4>1, <4>2
    <3>4. QED  BY <3>3 DEF TreeDocNeverAhead
  <2>4. CASE doc.ref = "gone"
    BY <1>3, <1>4, <2>4 DEF SaveTree
  <2>5. doc.ref \in {"null", "held", "gone"}
    BY <1>1 DEF ServerTypeOK, Local, LoadedDoc
  <2>6. QED  BY <2>2, <2>3, <2>4, <2>5
<1>5. ASSUME NEW r \in Requests, StepOf(r), ~SaveTree(r)
      PROVE  UNCHANGED treeDocs \/ treeDocs' = <<>>
  BY <1>5
     DEF StepOf, Receive, ReceiveProof, Step, Query, QueryTree, FindTree, QueryQueue, FindRow, SaveRow,
         Prove, Initialize, FindRows, FindBatchTree, GenerateProof,
         Relay, ReadProof, Execute, SaveTx, SaveBlock, SaveCommit, BridgeBlockHeader,
         GenerateProofEth, UpdateDepositRootOnEth, Delete, DeleteRows, DeleteTree,
         UserProof, InitProof, FindProofTree, FindProofRows, ProveClaim,
         ExecuteTimeout, EthAnswerLost, Fail
<1>6. CASE treeDocs' = <<>>
  BY <1>6 DEF TreeDocNeverAhead
<1>7. ASSUME Crash \/ UNCHANGED serverVars  PROVE UNCHANGED treeDocs
  BY <1>7 DEF Crash, serverVars
<1>8. QED  BY <1>3, <1>4, <1>5, <1>6, <1>7, NextCases DEF vars

-----------------------------------------------------------------------------
(* The safety of the bridge.                                               *)

\* The inductive invariant of the bridge
BridgeInv == /\ TypeInv
             /\ CosmosRootIsPrefix
             /\ TxRootsInv
             /\ EthRootsAreCosmosRoots
             /\ ClaimsBacked
             /\ AnswersInv
             /\ RowsMatchChain
             /\ TreeDocNeverAhead
             /\ GivenBacked

\* BridgeInv holds initially.
LEMMA BridgeInit == Init => BridgeInv
<1> SUFFICES ASSUME Init  PROVE BridgeInv
  OBVIOUS
<1>1. CosmosRootIsPrefix
  BY SizeAssumption DEF Init, CosmosInit, CosmosRootIsPrefix, PrefixRoot, TreeOf, Index
<1>2. TxRootsInv /\ EthRootsAreCosmosRoots /\ ClaimsBacked
  BY DEF Init, CosmosInit, EthInit, TxRootsInv, EthRootsAreCosmosRoots, ClaimsBacked
<1>3. AnswersInv /\ RowsMatchChain /\ TreeDocNeverAhead /\ GivenBacked
  BY DEF Init, CosmosInit, Fresh, AnswersInv, RowsMatchChain, TreeDocNeverAhead, GivenBacked
<1>4. QED  BY <1>1, <1>2, <1>3, TypeInit DEF BridgeInv

\* BridgeInv is inductive.
LEMMA BridgeStep == BridgeInv /\ [Next]_vars => BridgeInv'
<1> SUFFICES ASSUME BridgeInv, [Next]_vars  PROVE BridgeInv'
  OBVIOUS
<1>1. TypeInv'
  BY TypeInvStep DEF BridgeInv
<1>2. CosmosRootIsPrefix'
  BY CosmosRootStep DEF BridgeInv, TypeInv
<1>3. TxRootsInv'
  BY <1>1, <1>2, TxRootsStep DEF BridgeInv, TypeInv
<1>4. EthRootsAreCosmosRoots'
  BY EthRootsStep DEF BridgeInv, TypeInv
<1>5. ClaimsBacked'
  BY ClaimsStep DEF BridgeInv, TypeInv
<1>6. AnswersInv' /\ RowsMatchChain' /\ TreeDocNeverAhead' /\ GivenBacked'
  BY AnswersStep, RowsStep, TreeDocStep, GivenStep DEF BridgeInv, TypeInv
<1>7. QED  BY <1>1, <1>2, <1>3, <1>4, <1>5, <1>6 DEF BridgeInv

\* BridgeInv is an invariant.
LEMMA BridgeSafe == Spec => []BridgeInv
  BY BridgeInit, BridgeStep, PTL DEF Spec

\* Ethereum never learns a root the Cosmos tree has not had, although the
\* files it is proved from are shared by all requests.
THEOREM EthRootsCorrect == Spec => []EthRootsAreCosmosRoots
<1>1. BridgeInv => EthRootsAreCosmosRoots
  BY DEF BridgeInv
<1>2. QED  BY <1>1, BridgeSafe, PTL

\* Whatever is paid out on Ethereum was deposited on Cosmos under that key.
THEOREM ClaimsCorrect == Spec => []ClaimsBacked
<1>1. BridgeInv => ClaimsBacked
  BY DEF BridgeInv
<1>2. QED  BY <1>1, BridgeSafe, PTL

\* A stored deposit is always the deposit the chain has under its key.
THEOREM RowsCorrect == Spec => []RowsMatchChain
<1>1. BridgeInv => RowsMatchChain
  BY DEF BridgeInv
<1>2. QED  BY <1>1, BridgeSafe, PTL

\* The stored n_leafs is never ahead of the tree on Cosmos.
THEOREM TreeDocCorrect == Spec => []TreeDocNeverAhead
<1>1. BridgeInv => TreeDocNeverAhead
  BY DEF BridgeInv
<1>2. QED  BY <1>1, BridgeSafe, PTL

\* Every claim proof handed out is about a deposit and its key, although the
\* rows it is taken from may be doubled and the tree another request's.
THEOREM GivenCorrect == Spec => []GivenBacked
<1>1. BridgeInv => GivenBacked
  BY DEF BridgeInv
<1>2. QED  BY <1>1, BridgeSafe, PTL

\* A request relays the root of its own transaction: the block it just put on
\* Ethereum is its own, and the contract takes no proof about another.
THEOREM RelayCorrect == Spec => RelaysItsOwnRoot
<1> DEFINE Own == \A r \in Requests :
                     pc[r] = "rootEth" /\ depositRoots' # depositRoots
                        => Last(depositRoots') = txs[loc[r].height]
<1>1. ASSUME TypeInv, [Next]_vars  PROVE Own
  <2> SUFFICES ASSUME NEW r \in Requests, pc[r] = "rootEth", depositRoots' # depositRoots
               PROVE  Last(depositRoots') = txs[loc[r].height]
    OBVIOUS
  <2>1. depositRoots \in Seq(Tree) /\ Len(depositRoots) \in Nat
    BY <1>1 DEF TypeInv, TypeOK, EthTypeOK
  <2>2. PICK q \in Requests : RootStep(q)
    BY <1>1, EthStep DEF ethVars, HeaderStep, UpdateBlockHeader, ClaimTransaction
  <2>3. q = r /\ files.tx = loc[r].height /\ files.tx \in 1 .. Len(txs)
    BY <1>1, <2>2 DEF TypeInv, HeightsInv, RootStep, UpdateRootDepositTree
  <2>4. txs[files.tx] \in Tree
    BY <1>1, <2>3 DEF TypeInv, TypeOK, CosmosTypeOK
  <2>5. \E u \in Seq(Tree) : depositRoots' = Append(u, txs[files.tx])
    <3>1. CASE Len(depositRoots) < RootHistorySize
      BY <2>1, <2>2, <3>1 DEF RootStep, UpdateRootDepositTree
    <3>2. CASE ~(Len(depositRoots) < RootHistorySize)
      <4>1. Tail(depositRoots) \in Seq(Tree)
        BY <2>1, <3>2, EthAssumption
      <4>2. QED  BY <2>2, <3>2, <4>1 DEF RootStep, UpdateRootDepositTree
    <3>3. QED  BY <3>1, <3>2
  <2>6. \A u \in Seq(Tree) : Last(Append(u, txs[files.tx])) = txs[files.tx]
    BY <2>4 DEF Last
  <2>7. QED  BY <2>3, <2>5, <2>6
<1>2. TypeInv /\ [Next]_vars => [Own]_vars
  BY <1>1
<1>3. QED  BY <1>2, TypeInvariant, PTL DEF Spec, RelaysItsOwnRoot
=============================================================================
