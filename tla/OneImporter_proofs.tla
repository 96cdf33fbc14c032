-------------------------- MODULE OneImporter_proofs --------------------------
(***************************************************************************)
(* Theorems about BridgeServer for the deployments in which one request at *)
(* a time imports deposits and nobody calls DELETE /db, for every value of *)
(* the constants.  Any number of requests GET /proof may run beside it.    *)
(***************************************************************************)
EXTENDS BridgeServer_proofs

\* GET /query and PUT /update import the deposit queue.
Imports(r) == Kinds[r] \cap {"query", "update"} # {}

SingleImporter ==
    /\ \A r \in Requests : "delete" \notin Kinds[r]
    /\ \A q, r \in Requests : Imports(q) /\ Imports(r) => q = r

-----------------------------------------------------------------------------
(* The invariant.                                                          *)

\* Consecutive s: the keys of the rows of s count up from the first one.
Consecutive(s) == \A i \in DOMAIN s : s[i].key = s[1].key + i - 1

\* The batch of s writes no leaf beyond the first n rows.
Covered(s, n) == \A j \in 1 .. Batch : s.newValue[j] # Zero => s.key + j <= n

ProofLabels == {"idle", "initProof", "findProofTree", "findProofRows", "proveClaim"}

\* A slot that does not import is never inside the import.
LabelsInv ==
    \A r \in Requests : /\ pc[r] \notin {"deleteRows", "deleteTree"}
                        /\ ~Imports(r) => pc[r] \in ProofLabels

\* The item a handler is at is the next row, or one that is there already.
QueueInv ==
    \A r \in Requests :
        /\ Consecutive(loc[r].queue)
        /\ loc[r].queue # <<>> => loc[r].queue[1].key <= Len(rows)
        /\ pc[r] = "saveRow" /\ loc[r].found = "null" => loc[r].queue[1].key = Len(rows)
        /\ pc[r] = "saveRow" /\ loc[r].found = "held" => loc[r].queue[1].key < Len(rows)

\* The rows a handler holds are the first ones.
DataInv ==
    \A r \in Requests : /\ Len(loc[r].data) <= Len(rows)
                        /\ \A i \in DOMAIN loc[r].data : loc[r].data[i].key = i - 1

\* No proof, on its way or on disk, moves a deposit into the tree that is not
\* stored yet; so no deposit leaves the queue before it is stored.
ProofsInv ==
    /\ \A s \in mempool : Covered(s, Len(rows))
    /\ files.proof # NoProof => Covered(files.proof, Len(rows))
    /\ \A r \in Requests : loc[r].msg # NoProof => Covered(loc[r].msg, Len(rows))

\* The stored n_leafs is not ahead of the answer that will replace it.
TreeOrderInv ==
    \A r \in Requests :
        pc[r] \in {"findTree", "saveTree"} /\ treeDocs # <<>>
            => treeDocs[1].n <= loc[r].chain.n

ExactInv == /\ BridgeInv
            /\ RowsExact
            /\ nLeafs <= Len(rows)
            /\ LabelsInv
            /\ QueueInv
            /\ DataInv
            /\ ProofsInv
            /\ TreeOrderInv
            /\ GivenForAskedKey

-----------------------------------------------------------------------------
(* What a step does to one request.                                        *)

\* NextItem keeps nothing but the rest of the queue.
LEMMA NextItemFresh ==
    ASSUME ServerTypeOK, NEW r \in Requests, NEW p, NextItem(r, p)
    PROVE  loc'[r].msg = NoProof
<1>1. CASE p # <<>>
  <2>1. loc'[r] = [Fresh(loc[r].kind) EXCEPT !.queue = p]
    BY <1>1, GotoValues DEF NextItem
  <2>2. QED  BY <2>1 DEF Fresh
<1>2. CASE p = <<>>
  <2>1. Goto(r, "initialize", Fresh("update")) \/ Answer(r)
    BY <1>2 DEF NextItem
  <2>2. QED  BY <2>1, GotoValues, AnswerValues DEF Fresh
<1>3. QED  BY <1>1, <1>2

\* Only SaveRow takes an item from the queue and only ReadProof reads a proof.
LEMMA StepSources ==
    ASSUME SingleImporter, TypeOK, NEW r \in Requests, StepOf(r), ~SaveRow(r), ~Delete(r)
    PROVE  /\ loc'[r].queue \in {<<>>, loc[r].queue, depositQueue}
           /\ loc'[r].msg \in {NoProof, loc[r].msg, files.proof}
           /\ pc'[r] \notin {"deleteRows", "deleteTree"}
           /\ pc'[r] = "saveRow" => FindRow(r)
           /\ pc'[r] \in {"findTree", "saveTree"} => QueryTree(r) \/ FindTree(r)
<1>1. ServerTypeOK /\ loc[r] \in Local
  BY DEF TypeOK, ServerTypeOK, CosmosTypeOK
<1> DEFINE Clean == loc'[r].queue = <<>> /\ loc'[r].msg = NoProof
           Same  == loc'[r].queue = loc[r].queue /\ loc'[r].msg = loc[r].msg
           Away  == pc'[r] \notin {"findTree", "saveTree", "saveRow",
                                   "deleteRows", "deleteTree"}
<1>2. ASSUME NEW l, NEW k, Goto(r, l, Fresh(k))  PROVE Clean /\ pc'[r] = l
  <2>1. loc'[r] = Fresh(k) /\ pc'[r] = l
    BY <1>1, <1>2, GotoValues
  <2>2. QED  BY <2>1 DEF Fresh
<1>3. ASSUME Answer(r)  PROVE Clean /\ Away
  BY <1>2, <1>3 DEF Answer
<1>4. ASSUME NEW l, NEW v, Goto(r, l, v), v.queue = loc[r].queue, v.msg = loc[r].msg
      PROVE  Same /\ pc'[r] = l
  BY <1>1, <1>4, GotoValues
<1>5. CASE QueryTree(r) \/ FindTree(r)
  <2>1. \E l \in {"findTree", "saveTree"} : \E a :
           \/ Goto(r, l, [loc[r] EXCEPT !.chain = a])
           \/ Goto(r, l, [loc[r] EXCEPT !.doc = a])
    BY <1>5 DEF QueryTree, FindTree
  <2>2. \A a : /\ [loc[r] EXCEPT !.chain = a].queue = loc[r].queue
               /\ [loc[r] EXCEPT !.chain = a].msg = loc[r].msg
               /\ [loc[r] EXCEPT !.doc = a].queue = loc[r].queue
               /\ [loc[r] EXCEPT !.doc = a].msg = loc[r].msg
    BY <1>1 DEF Local
  <2>3. Same /\ pc'[r] \in {"findTree", "saveTree"}
    BY <1>4, <2>1, <2>2
  <2>4. QED  BY <1>5, <2>3
<1>6. CASE QueryQueue(r)
  <2>1. NextItem(r, depositQueue)
    BY <1>6 DEF QueryQueue
  <2>2. loc'[r].queue \in {depositQueue, <<>>} /\ Away
    BY <1>1, <2>1, NextItemValues
  <2>3. QED  BY <1>1, <2>1, <2>2, NextItemFresh
<1>7. CASE FindRow(r)
  <2>1. PICK w : Goto(r, "saveRow", [loc[r] EXCEPT !.found = w])
    BY <1>7 DEF FindRow
  <2>2. /\ [loc[r] EXCEPT !.found = w].queue = loc[r].queue
        /\ [loc[r] EXCEPT !.found = w].msg = loc[r].msg
    BY <1>1 DEF Local
  <2>3. Same /\ pc'[r] = "saveRow"
    BY <1>4, <2>1, <2>2
  <2>4. QED  BY <1>7, <2>3
<1>8. CASE \E k \in Kinds[r] : Receive(r, k)
  <2>1. \E k : Goto(r, "queryTree", Fresh(k))
    BY <1>8 DEF Receive, SingleImporter
  <2>2. QED  BY <1>2, <2>1
<1>9. CASE \E i : ReceiveProof(r, i)
  <2>1. PICK i : Goto(r, "initProof", [Fresh("proof") EXCEPT !.key = i])
    BY <1>9 DEF ReceiveProof
  <2>2. loc'[r] = [Fresh("proof") EXCEPT !.key = i] /\ pc'[r] = "initProof"
    BY <1>1, <2>1, GotoValues
  <2>3. QED  BY <2>2 DEF Fresh
<1>10. CASE SaveTree(r) \/ GenerateProof(r)
  <2>1. Answer(r) \/ \E l \in {"queryQueue", "readProof"} : \E k : Goto(r, l, Fresh(k))
    BY <1>10 DEF SaveTree, GenerateProof
  <2>2. QED  BY <1>2, <1>3, <2>1
<1>11. CASE Initialize(r) \/ FindRows(r) \/ FindBatchTree(r) \/ FindProofTree(r)
  <2>1. \/ Answer(r)
        \/ \E l \in {"findRows", "findBatchTree", "generateProof", "findProofRows"} : \E a :
              \/ Goto(r, l, [loc[r] EXCEPT !.tree = a])
              \/ Goto(r, l, [loc[r] EXCEPT !.data = a])
              \/ Goto(r, l, [loc[r] EXCEPT !.doc = a])
    BY <1>11 DEF Initialize, FindRows, FindBatchTree, FindProofTree
  <2>2. \A a : /\ [loc[r] EXCEPT !.tree = a].queue = loc[r].queue
               /\ [loc[r] EXCEPT !.tree = a].msg = loc[r].msg
               /\ [loc[r] EXCEPT !.data = a].queue = loc[r].queue
               /\ [loc[r] EXCEPT !.data = a].msg = loc[r].msg
               /\ [loc[r] EXCEPT !.doc = a].queue = loc[r].queue
               /\ [loc[r] EXCEPT !.doc = a].msg = loc[r].msg
    BY <1>1 DEF Local
  <2>3. QED  BY <1>3, <1>4, <2>1, <2>2
<1>12. CASE FindProofRows(r)
  <2>1. \/ Answer(r)
        \/ \E m : Goto(r, "proveClaim", [loc[r] EXCEPT !.data = SubSeq(rows, 1, m),
                                                       !.tree = Len(trees)])
    BY <1>12 DEF FindProofRows
  <2>2. ASSUME NEW m, Goto(r, "proveClaim", [loc[r] EXCEPT !.data = SubSeq(rows, 1, m),
                                                           !.tree = Len(trees)])
        PROVE  Same /\ Away
    <3>1. /\ loc'[r] = [loc[r] EXCEPT !.data = SubSeq(rows, 1, m), !.tree = Len(trees)]
          /\ pc'[r] = "proveClaim"
      BY <1>1, <2>2, GotoValues
    <3>2. QED  BY <1>1, <3>1 DEF Local
  <2>3. QED  BY <1>3, <2>1, <2>2
<1>13. CASE ReadProof(r)
  <2>1. loc'[r] = [loc[r] EXCEPT !.msg = files.proof] /\ pc'[r] = "execute"
    BY <1>1, <1>13, GotoValues DEF ReadProof
  <2>2. QED  BY <1>1, <2>1 DEF Local
<1>14. CASE Execute(r)
  <2>1. ASSUME Goto(r, "queryTx", [Fresh("update") EXCEPT !.height = Len(txs) + 1])
        PROVE  Clean /\ Away
    <3>1. /\ loc'[r] = [Fresh("update") EXCEPT !.height = Len(txs) + 1]
          /\ pc'[r] = "queryTx"
      BY <1>1, <2>1, GotoValues
    <3>2. QED  BY <3>1 DEF Fresh
  <2>2. QED  BY <1>3, <1>14, <2>1 DEF Execute
<1>15. CASE SaveTx(r) \/ SaveBlock(r) \/ SaveCommit(r) \/ BridgeBlockHeader(r)
            \/ GenerateProofEth(r) \/ InitProof(r) \/ ProveClaim(r)
  <2>1. Answer(r) \/ \E l \in {"queryBlock", "queryCommit", "blockHeader", "proofEth",
                               "rootEth", "findProofTree"} : Goto(r, l, loc[r])
    BY <1>15
       DEF SaveTx, SaveBlock, SaveCommit, BridgeBlockHeader, GenerateProofEth, InitProof,
           ProveClaim
  <2>2. QED  BY <1>3, <1>4, <2>1
<1>16. CASE UpdateDepositRootOnEth(r) \/ ExecuteTimeout(r) \/ EthAnswerLost(r) \/ Fail(r)
  BY <1>3, <1>16 DEF UpdateDepositRootOnEth, ExecuteTimeout, EthAnswerLost, Fail
<1>17. QED
  BY <1>5, <1>6, <1>7, <1>8, <1>9, <1>10, <1>11, <1>12, <1>13, <1>14, <1>15, <1>16
     DEF StepOf, Step, Query, Prove, Relay, UserProof

\* Without DELETE /db nothing but SaveRow writes rows.
LEMMA RowsWriter ==
    ASSUME NEW r \in Requests, StepOf(r), ~SaveRow(r), ~Delete(r)
    PROVE  UNCHANGED rows
  BY DEF StepOf, Receive, ReceiveProof, Step, Query, QueryTree, FindTree, SaveTree, QueryQueue,
         FindRow, Prove, Initialize, FindRows, FindBatchTree, GenerateProof,
         Relay, ReadProof, Execute, SaveTx, SaveBlock, SaveCommit, BridgeBlockHeader,
         GenerateProofEth, UpdateDepositRootOnEth,
         UserProof, InitProof, FindProofTree, FindProofRows, ProveClaim,
         ExecuteTimeout, EthAnswerLost, Fail

\* Nobody is in DELETE /db.
LEMMA NoDelete ==
    ASSUME LabelsInv, NEW r \in Requests
    PROVE  ~Delete(r)
  BY DEF LabelsInv, Delete, DeleteRows, DeleteTree, At

\* A slot that does not import moves inside GET /proof.
LEMMA OnlyProofs ==
    ASSUME LabelsInv, SingleImporter, NEW r \in Requests, StepOf(r), ~Imports(r)
    PROVE  (\E i : ReceiveProof(r, i)) \/ UserProof(r) \/ Fail(r)
<1>1. pc[r] \in ProofLabels
  BY DEF LabelsInv
<1>2. ASSUME NEW k \in Kinds[r], Receive(r, k)  PROVE FALSE
  BY <1>2, ServerAssumption DEF Receive, Imports, SingleImporter
<1>3. ~Query(r)
  BY <1>1 DEF ProofLabels, Query, QueryTree, FindTree, SaveTree, QueryQueue, FindRow, SaveRow, At
<1>4. ~Prove(r)
  BY <1>1 DEF ProofLabels, Prove, Initialize, FindRows, FindBatchTree, GenerateProof, At
<1>5. ~Relay(r)
  BY <1>1 DEF ProofLabels, Relay, ReadProof, Execute, SaveTx, SaveBlock, SaveCommit,
              BridgeBlockHeader, GenerateProofEth, UpdateDepositRootOnEth, At
<1>6. ~ExecuteTimeout(r) /\ ~EthAnswerLost(r)
  BY <1>1 DEF ProofLabels, ExecuteTimeout, EthAnswerLost, At
<1>7. QED  BY <1>2, <1>3, <1>4, <1>5, <1>6, NoDelete DEF StepOf, Step

\* Every step keeps LabelsInv.
LEMMA LabelsStep ==
    ASSUME SingleImporter, TypeOK, LabelsInv, [Next]_vars
    PROVE  LabelsInv'
<1>1. ServerTypeOK
  BY DEF TypeOK, ServerTypeOK, CosmosTypeOK
<1>2. ASSUME NEW r \in Requests, StepOf(r)  PROVE LabelsInv'
  <2>1. \A q \in Requests \ {r} : pc'[q] = pc[q]
    BY <1>1, <1>2, OthersWait
  <2>2. pc'[r] \notin {"deleteRows", "deleteTree"}
    <3>1. CASE SaveRow(r)
      <4>1. Answer(r) \/ \E p : NextItem(r, p)
        BY <3>1 DEF SaveRow
      <4>2. QED  BY <1>1, <4>1, NextItemValues, AnswerValues
    <3>2. CASE ~SaveRow(r)
      BY <1>2, <3>2, NoDelete, StepSources
    <3>3. QED  BY <3>1, <3>2
  <2>3. ASSUME ~Imports(r)  PROVE pc'[r] \in ProofLabels
    <3>1. Answer(r) \/ \E l \in ProofLabels : \E v : Goto(r, l, v)
      BY <1>2, <2>3, OnlyProofs
         DEF ReceiveProof, UserProof, InitProof, FindProofTree, FindProofRows, ProveClaim, Fail,
             ProofLabels
    <3>2. QED  BY <1>1, <3>1, GotoValues, AnswerValues DEF ProofLabels
  <2>4. QED  BY <2>1, <2>2, <2>3 DEF LabelsInv, Imports
<1>3. CASE Crash
  BY <1>3, IdleCrash DEF LabelsInv, ProofLabels, Imports
<1>4. CASE UNCHANGED serverVars
  BY <1>4 DEF serverVars, LabelsInv, ProofLabels, Imports
<1>5. QED  BY <1>2, <1>3, <1>4, NextCases DEF vars

-----------------------------------------------------------------------------
(* The rows.                                                               *)

\* The next row is inserted at the end.
LEMMA InsertLast ==
    ASSUME rows \in Seq(Row), RowsExact, NEW row \in Row, row.key = Len(rows), Insert(row)
    PROVE  /\ Len(rows') = Len(rows) + 1
           /\ rows'[Len(rows) + 1] = row
           /\ \A i \in 1 .. Len(rows) : rows'[i] = rows[i]
<1>1. PICK p \in 0 .. Len(rows) :
         /\ \A i \in p + 1 .. Len(rows) : rows[i].key > row.key
         /\ rows' = InsertAt(rows, p + 1, row)
  BY DEF Insert
<1>2. p = Len(rows)
  <2> SUFFICES ASSUME p # Len(rows)  PROVE FALSE
    OBVIOUS
  <2>1. p + 1 \in p + 1 .. Len(rows) /\ p + 1 \in DOMAIN rows
    OBVIOUS
  <2>2. rows[p + 1].key = p
    BY <2>1 DEF RowsExact
  <2>3. QED  BY <1>1, <2>1, <2>2
<1> DEFINE a == SubSeq(rows, 1, Len(rows))
           b == SubSeq(rows, Len(rows) + 1, Len(rows))
<1>3. a \in Seq(Row) /\ Len(a) = Len(rows) /\ \A i \in 1 .. Len(rows) : a[i] = rows[i]
  BY SubSeqProperties
<1>4. b = <<>>
  <2>1. b \in Seq(Row) /\ Len(b) = 0
    BY SubSeqProperties
  <2>2. QED  BY <2>1
<1>5. rows' = (a \o <<row>>) \o b
  <2>1. (Len(rows) + 1) - 1 = Len(rows)
    OBVIOUS
  <2>2. QED  BY <1>1, <1>2, <2>1, Zenon DEF InsertAt
<1> HIDE DEF a, b
<1> DEFINE u == a \o <<row>>
<1>6. /\ Len(u) = Len(rows) + 1 /\ u[Len(rows) + 1] = row
      /\ \A i \in 1 .. Len(rows) : u[i] = rows[i]
  BY <1>3
<1>7. u \o <<>> = u
  BY <1>3
<1>8. QED  BY <1>4, <1>5, <1>6, <1>7

\* A handler at saveRow stores the next row or finds it stored.
LEMMA SaveRowMove ==
    ASSUME SingleImporter, ExactInv, NEW r \in Requests, SaveRow(r)
    PROVE  /\ Imports(r)
           /\ RowsExact' /\ Len(rows') \in Nat /\ Len(rows) <= Len(rows')
           /\ \/ Answer(r)
              \/ /\ NextItem(r, Tail(loc[r].queue))
                 /\ loc[r].queue[1].key < Len(rows')
<1>1. ServerTypeOK /\ rows \in Seq(Row) /\ loc[r] \in Local
  BY DEF ExactInv, BridgeInv, TypeInv, TypeOK, ServerTypeOK, CosmosTypeOK
<1>2. pc[r] = "saveRow" /\ RowsExact /\ QueueInv
  BY DEF SaveRow, At, ExactInv
<1>3. Imports(r)
  BY <1>2 DEF ExactInv, LabelsInv, ProofLabels
<1>4. /\ loc[r].queue \in Seq(Row) /\ loc[r].queue # <<>>
      /\ Head(loc[r].queue) = loc[r].queue[1] /\ loc[r].queue[1] \in Row
  <2>1. loc[r].queue \in Seq(Row) /\ loc[r].queue # <<>>
    BY <1>1, <1>2 DEF Local, ExactInv, BridgeInv, TypeInv, ControlInv
  <2>2. QED  BY <2>1
<1>5. CASE loc[r].found = "null"
  <2>1. /\ Insert(loc[r].queue[1]) /\ NextItem(r, Tail(loc[r].queue))
        /\ loc[r].queue[1].key = Len(rows)
    BY <1>2, <1>4, <1>5 DEF SaveRow, QueueInv
  <2>2. /\ Len(rows') = Len(rows) + 1
        /\ rows'[Len(rows) + 1] = loc[r].queue[1]
        /\ \A i \in 1 .. Len(rows) : rows'[i] = rows[i]
    BY <1>1, <1>2, <1>4, <2>1, InsertLast
  <2>3. rows' \in Seq(Row)
    <3>1. TypeInv'
      BY <1>5, TypeInvStep DEF Next, Step, Query, ExactInv, BridgeInv
    <3>2. QED  BY <3>1 DEF TypeInv, TypeOK
  <2>4. RowsExact'
    <3> SUFFICES ASSUME NEW i \in DOMAIN rows'  PROVE rows'[i].key = i - 1
      BY DEF RowsExact
    <3>1. i \in 1 .. Len(rows) + 1
      BY <2>2, <2>3
    <3>2. CASE i = Len(rows) + 1
      BY <1>1, <2>1, <2>2, <3>2
    <3>3. CASE i # Len(rows) + 1
      <4>1. i \in DOMAIN rows
        BY <1>1, <3>1, <3>3
      <4>2. rows'[i] = rows[i] /\ rows[i].key = i - 1
        BY <1>2, <2>2, <3>1, <3>3, <4>1 DEF RowsExact
      <4>3. QED  BY <4>2
    <3>4. QED  BY <3>2, <3>3
  <2>5. QED  BY <1>1, <1>3, <2>1, <2>2, <2>4
<1>6. CASE loc[r].found = "held"
  <2>1. UNCHANGED rows /\ NextItem(r, Tail(loc[r].queue))
    BY <1>6 DEF SaveRow
  <2>2. loc[r].queue[1].key < Len(rows)
    BY <1>2, <1>6 DEF QueueInv
  <2>3. QED  BY <1>1, <1>2, <1>3, <2>1, <2>2 DEF RowsExact
<1>7. CASE loc[r].found = "gone"
  BY <1>1, <1>2, <1>3, <1>7 DEF SaveRow, RowsExact
<1>8. QED  BY <1>1, <1>5, <1>6, <1>7 DEF Local

\* The rows only grow.
LEMMA RowsGrow ==
    ASSUME SingleImporter, ExactInv, [Next]_vars
    PROVE  /\ RowsExact'
           /\ Len(rows) \in Nat /\ Len(rows') \in Nat /\ Len(rows) <= Len(rows')
<1>1. rows \in Seq(Row) /\ RowsExact
  BY DEF ExactInv, BridgeInv, TypeInv, TypeOK
<1>2. CASE UNCHANGED rows
  BY <1>1, <1>2 DEF RowsExact
<1>3. ASSUME NEW r \in Requests, SaveRow(r)
      PROVE  RowsExact' /\ Len(rows') \in Nat /\ Len(rows) <= Len(rows')
  BY <1>3, SaveRowMove
<1>4. ASSUME NEW r \in Requests, StepOf(r), ~SaveRow(r)  PROVE UNCHANGED rows
  BY <1>4, NoDelete, RowsWriter DEF ExactInv
<1>5. ASSUME Crash \/ UNCHANGED serverVars  PROVE UNCHANGED rows
  BY <1>5 DEF Crash, serverVars
<1>6. QED  BY <1>1, <1>2, <1>3, <1>4, <1>5, NextCases DEF vars

\* No other request is inside the loop while one stores a row.
LEMMA Alone ==
    ASSUME SingleImporter, LabelsInv, NEW r \in Requests, Imports(r),
           NEW q \in Requests \ {r}
    PROVE  pc[q] \in ProofLabels
  BY DEF SingleImporter, LabelsInv

\* Every step keeps QueueInv.
LEMMA QueueStep ==
    ASSUME SingleImporter, ExactInv, [Next]_vars
    PROVE  QueueInv'
<1> DEFINE Good(v, n)   == /\ Consecutive(v.queue)
                           /\ v.queue # <<>> => v.queue[1].key <= n
           Found(v, n)  == /\ v.found = "null" => v.queue[1].key = n
                           /\ v.found = "held" => v.queue[1].key < n
<1>1. /\ ServerTypeOK /\ TypeOK /\ QueueInv /\ RowsExact /\ ControlInv /\ LabelsInv
      /\ rows \in Seq(Row) /\ nLeafs <= Len(rows) /\ nLeafs \in Nat
  BY DEF ExactInv, BridgeInv, TypeInv, TypeOK, ServerTypeOK, CosmosTypeOK
<1>2. \A q \in Requests : loc[q] \in Local /\ loc[q].queue \in Seq(Row)
  BY <1>1 DEF ServerTypeOK, Local
<1>3. Len(rows) \in Nat /\ Len(rows') \in Nat /\ Len(rows) <= Len(rows')
  BY RowsGrow
<1>4. \A q \in Requests : Good(loc[q], Len(rows))
                          /\ (pc[q] = "saveRow" => Found(loc[q], Len(rows)))
  BY <1>1 DEF QueueInv
<1>5. ASSUME NEW q \in Requests  PROVE Good(loc[q], Len(rows'))
  <2>1. ASSUME loc[q].queue # <<>>  PROVE loc[q].queue[1].key \in Nat
    <3>1. loc[q].queue[1] \in Row
      BY <1>2, <2>1
    <3>2. QED  BY <3>1 DEF Row
  <2>2. QED  BY <1>3, <1>4, <2>1
<1> SUFFICES ASSUME NEW q \in Requests
             PROVE  Good(loc'[q], Len(rows')) /\ (pc'[q] = "saveRow" => Found(loc'[q], Len(rows')))
  BY DEF QueueInv
<1>6. ASSUME NEW r \in Requests, SaveRow(r), q # r
      PROVE  Good(loc'[q], Len(rows')) /\ (pc'[q] = "saveRow" => Found(loc'[q], Len(rows')))
  <2>1. StepOf(r) /\ ~Delete(r)
    BY <1>1, <1>6, NoDelete DEF StepOf, Step, Query
  <2>2. loc'[q] = loc[q] /\ pc'[q] = pc[q]
    BY <1>1, <1>6, <2>1, OthersWait
  <2>3. pc[q] \in ProofLabels
    BY <1>1, <1>6, SaveRowMove, Alone
  <2>4. QED  BY <1>5, <2>2, <2>3 DEF ProofLabels
<1>7. ASSUME SaveRow(q)
      PROVE  Good(loc'[q], Len(rows')) /\ (pc'[q] = "saveRow" => Found(loc'[q], Len(rows')))
  <2> DEFINE s == loc[q].queue
  <2>1. s \in Seq(Row) /\ s # <<>> /\ Consecutive(s)
    BY <1>1, <1>2, <1>4, <1>7 DEF SaveRow, At, ControlInv
  <2>2. CASE Answer(q)
    <3>1. loc'[q] = Fresh("none") /\ pc'[q] = "idle"
      BY <1>1, <2>2, AnswerValues
    <3>2. QED  BY <3>1 DEF Fresh, Consecutive
  <2>3. CASE NextItem(q, Tail(s)) /\ s[1].key < Len(rows')
    <3>1. loc'[q].queue \in {Tail(s), <<>>} /\ pc'[q] # "saveRow"
      BY <1>1, <2>3, NextItemValues
    <3> DEFINE t == Tail(s)
               first == s[1].key
    <3>2. first \in Nat
      <4>1. 1 \in DOMAIN s
        BY <2>1
      <4>2. s[1] \in Row
        BY <2>1, <4>1
      <4>3. QED  BY <4>2 DEF Row
    <3>3. ASSUME NEW i \in DOMAIN t  PROVE i \in Nat /\ t[i].key = first + i
      <4>1. i \in Nat /\ i + 1 \in DOMAIN s /\ t[i] = s[i + 1]
        BY <2>1
      <4>2. s[i + 1].key = first + (i + 1) - 1
        BY <2>1, <4>1 DEF Consecutive
      <4>3. QED  BY <3>2, <4>1, <4>2
    <3>4. t # <<>> => 1 \in DOMAIN t
      BY <2>1
    <3>5. DOMAIN t # {} => t # <<>>
      BY <2>1
    <3>6. first < Len(rows')
      BY <2>3
    <3> HIDE DEF t, first
    <3>7. t # <<>> => t[1].key = first + 1 /\ t[1].key <= Len(rows')
      BY <1>3, <3>2, <3>3, <3>4, <3>6
    <3>8. Consecutive(t)
      <4>1. ASSUME NEW i \in DOMAIN t  PROVE t[i].key = t[1].key + i - 1
        BY <3>2, <3>3, <3>5, <3>7
      <4>2. QED  BY <4>1 DEF Consecutive
    <3>9. loc'[q].queue \in {t, <<>>}
      BY <3>1 DEF t
    <3>10. Good(loc'[q], Len(rows'))
      BY <3>7, <3>8, <3>9 DEF Consecutive
    <3>11. QED  BY <3>1, <3>10
  <2>4. QED  BY <1>7, <2>2, <2>3, SaveRowMove
<1>8. ASSUME NEW r \in Requests, StepOf(r), ~SaveRow(r)
      PROVE  Good(loc'[q], Len(rows')) /\ (pc'[q] = "saveRow" => Found(loc'[q], Len(rows')))
  <2>1. ~Delete(r) /\ rows' = rows
    BY <1>1, <1>8, NoDelete, RowsWriter
  <2>2. CASE q # r
    <3>1. loc'[q] = loc[q] /\ pc'[q] = pc[q]
      BY <1>1, <1>8, <2>1, <2>2, OthersWait
    <3>2. QED  BY <1>4, <2>1, <3>1
  <2>3. CASE q = r
    <3>1. /\ loc'[q].queue \in {<<>>, loc[q].queue, depositQueue}
          /\ pc'[q] = "saveRow" => FindRow(q)
      BY <1>1, <1>8, <2>1, <2>3, StepSources
    <3>2. Consecutive(depositQueue) /\ (depositQueue # <<>> => depositQueue[1].key <= Len(rows))
      <4>1. \A j \in DOMAIN depositQueue :
               j \in 1 .. nQueueLeafs /\ depositQueue[j].key = nLeafs + j - 1
        BY DEF depositQueue
      <4>2. depositQueue \in Seq(Row) /\ nQueueLeafs \in Nat
        BY <1>1, BatchType DEF TypeOK
      <4>3. depositQueue # <<>> => 1 \in DOMAIN depositQueue
        BY <4>2
      <4>4. depositQueue # <<>> => depositQueue[1].key = nLeafs
        BY <1>1, <4>1, <4>3
      <4>5. Consecutive(depositQueue)
        <5>1. ASSUME NEW j \in DOMAIN depositQueue
              PROVE  depositQueue[j].key = depositQueue[1].key + j - 1
          BY <4>1, <4>2, <4>4, <5>1
        <5>2. QED  BY <5>1 DEF Consecutive
      <4>6. QED  BY <1>1, <4>4, <4>5
    <3>3. Good(loc'[q], Len(rows'))
      BY <1>4, <2>1, <3>1, <3>2 DEF Consecutive
    <3>4. ASSUME FindRow(q)  PROVE Found(loc'[q], Len(rows'))
      <4> DEFINE key == Head(loc[q].queue).key
                 hit == \E i \in DOMAIN rows : rows[i].key = key
      <4>1. loc'[q] = [loc[q] EXCEPT !.found = IF hit THEN "held" ELSE "null"]
        BY <1>1, <3>4, GotoValues DEF FindRow
      <4>2. /\ loc'[q].queue = loc[q].queue
            /\ loc'[q].found = IF hit THEN "held" ELSE "null"
        BY <1>2, <4>1 DEF Local
      <4>3. loc[q].queue # <<>>
        BY <1>1, <3>4 DEF FindRow, At, ControlInv
      <4>4. key = loc[q].queue[1].key /\ loc[q].queue[1] \in Row
        BY <1>2, <4>3
      <4>5. key \in Nat /\ key <= Len(rows)
        BY <1>4, <4>3, <4>4 DEF Row
      <4>6. hit => key < Len(rows)
        BY <1>1, <4>5 DEF RowsExact
      <4>7. ~hit => key = Len(rows)
        <5>1. ASSUME key < Len(rows)  PROVE hit
          <6>1. key + 1 \in DOMAIN rows /\ rows[key + 1].key = (key + 1) - 1
            BY <1>1, <4>5, <5>1 DEF RowsExact
          <6>2. QED  BY <4>5, <6>1
        <5>2. QED  BY <1>1, <4>5, <5>1
      <4> HIDE DEF key, hit
      <4>8. QED  BY <2>1, <4>2, <4>4, <4>6, <4>7
    <3>5. QED  BY <3>1, <3>3, <3>4
  <2>4. QED  BY <2>2, <2>3
<1>9. ASSUME Crash
      PROVE  Good(loc'[q], Len(rows')) /\ (pc'[q] = "saveRow" => Found(loc'[q], Len(rows')))
  <2>1. loc'[q] = Fresh("none") /\ pc'[q] = "idle"
    BY <1>9, IdleCrash
  <2>2. QED  BY <2>1 DEF Fresh, Consecutive
<1>10. CASE UNCHANGED serverVars
  BY <1>4, <1>10 DEF serverVars
<1>11. QED  BY <1>6, <1>7, <1>8, <1>9, <1>10, NextCases DEF vars

\* Every step keeps DataInv.
LEMMA DataStep ==
    ASSUME SingleImporter, ExactInv, [Next]_vars
    PROVE  DataInv'
<1> DEFINE Firsts(d, n) == Len(d) <= n /\ \A i \in DOMAIN d : d[i].key = i - 1
<1>1. /\ ServerTypeOK /\ TypeOK /\ ControlInv /\ RowsExact /\ DataInv /\ rows \in Seq(Row)
  BY DEF ExactInv, BridgeInv, TypeInv, TypeOK, ServerTypeOK, CosmosTypeOK
<1>2. Len(rows) \in Nat /\ Len(rows') \in Nat /\ Len(rows) <= Len(rows')
  BY RowsGrow
<1>3. ASSUME NEW q \in Requests  PROVE Firsts(loc[q].data, Len(rows'))
  <2>1. loc[q].data \in Seq(Row)
    BY <1>1 DEF ServerTypeOK, Local
  <2>2. QED  BY <1>1, <1>2, <2>1 DEF DataInv
<1>4. Firsts(<<>>, Len(rows')) /\ Firsts(rows, Len(rows'))
  BY <1>1, <1>2 DEF RowsExact
<1>5. ASSUME NEW m \in 0 .. Len(rows)  PROVE Firsts(SubSeq(rows, 1, m), Len(rows'))
  <2>1. Len(SubSeq(rows, 1, m)) = m /\ DOMAIN SubSeq(rows, 1, m) = 1 .. m
        /\ \A i \in 1 .. m : SubSeq(rows, 1, m)[i] = rows[i] /\ i \in DOMAIN rows
    BY <1>1, SubSeqProperties
  <2>2. QED  BY <1>1, <1>2, <2>1 DEF RowsExact
<1> SUFFICES ASSUME NEW q \in Requests  PROVE Firsts(loc'[q].data, Len(rows'))
  BY DEF DataInv
<1>6. ASSUME NEW r \in Requests, StepOf(r)  PROVE Firsts(loc'[q].data, Len(rows'))
  <2>1. CASE q = r
    BY <1>1, <1>3, <1>4, <1>5, <1>6, <2>1, AnswerSources
  <2>2. CASE q # r
    <3>1. loc'[q].data = loc[q].data
      BY <1>1, <1>6, <2>2, OthersWait DEF Kept
    <3>2. QED  BY <1>3, <3>1
  <2>3. QED  BY <2>1, <2>2
<1>7. ASSUME Crash  PROVE Firsts(loc'[q].data, Len(rows'))
  BY <1>4, <1>7, IdleCrash DEF Fresh
<1>8. CASE UNCHANGED serverVars
  BY <1>3, <1>8 DEF serverVars
<1>9. QED  BY <1>6, <1>7, <1>8, NextCases DEF vars

-----------------------------------------------------------------------------
(* The proofs on their way.                                                *)

\* What newValue holds beyond the rows is padding.
LEMMA PaddingIsZero ==
    ASSUME NEW data \in Seq(Row), NEW nq \in Nat,
           NEW i \in 1 .. Len(NewValue(data, nq)), i > Len(data)
    PROVE  NewValue(data, nq)[i] = Zero
<1> DEFINE a == [k \in 1 .. Len(data) |-> data[k].payload]
           m == IF nq < Batch THEN Batch - nq ELSE 0
           b == [k \in 1 .. m |-> Zero]
<1>1. m \in Nat
  BY SizeAssumption
<1>2. a \in Seq(Leaf) /\ Len(a) = Len(data)
  <2>1. \A k \in 1 .. Len(data) : data[k].payload \in Leaf
    <3>1. \A k \in 1 .. Len(data) : data[k] \in Row
      OBVIOUS
    <3>2. QED  BY <3>1 DEF Row, Leaf
  <2>2. QED  BY <2>1
<1>3. b \in Seq(Leaf) /\ Len(b) = m /\ \A k \in 1 .. m : b[k] = Zero
  BY <1>1 DEF Leaf
<1> HIDE DEF a, b, m
<1>4. NewValue(data, nq) = a \o b
  BY DEF NewValue, a, b, m
<1>5. i - Len(data) \in 1 .. m /\ (a \o b)[i] = b[i - Len(data)]
  BY <1>1, <1>2, <1>3, <1>4, ConcatProperties
<1>6. QED  BY <1>3, <1>4, <1>5

\* A fresh proof covers rows its request has read.
LEMMA FreshCovered ==
    ASSUME TypeOK, DataInv, NEW r \in Requests, GenerateProof(r)
    PROVE  files'.proof = files.proof \/ Covered(files'.proof, Len(rows))
<1> DEFINE data  == loc[r].data
           n     == loc[r].doc.n
           value == NewValue(data, loc[r].doc.nq)
           input == BatchInput(trees[loc[r].tree], value, n)
<1>1. /\ data \in Seq(Row) /\ n \in Nat /\ loc[r].doc.nq \in Nat
      /\ files \in Files /\ rows \in Seq(Row) /\ Len(data) <= Len(rows)
  BY DEF TypeOK, Local, LoadedDoc, DataInv
<1>2. value \in Seq(Leaf)
  BY <1>1, NewValueType
<1>3. CASE UNCHANGED files
  BY <1>3
<1>4. CASE n + Batch <= Len(value) /\ files' = [files EXCEPT !.proof = input]
  <2>1. files'.proof = input
    BY <1>1, <1>4 DEF Files
  <2>2. input.key = n /\ input.newValue = [j \in 1 .. Batch |-> value[n + j]]
    BY DEF BatchInput
  <2>3. ASSUME NEW j \in 1 .. Batch, value[n + j] # Zero  PROVE n + j <= Len(rows)
    <3>1. n + j \in 1 .. Len(value)
      BY <1>1, <1>2, <1>4, SizeAssumption
    <3>2. n + j <= Len(data)
      BY <1>1, <2>3, <3>1, PaddingIsZero
    <3>3. QED  BY <1>1, <3>2, SizeAssumption
  <2> HIDE DEF input, value
  <2>4. Covered(input, Len(rows))
    BY <2>2, <2>3 DEF Covered
  <2>5. QED  BY <2>1, <2>4
<1>5. QED  BY <1>3, <1>4 DEF GenerateProof

\* What is covered stays so while the rows grow.
LEMMA CoveredStays ==
    ASSUME NEW s \in BatchStatement, NEW n \in Nat, NEW m \in Nat, n <= m, Covered(s, n)
    PROVE  Covered(s, m)
<1>1. s.key \in Nat
  BY SizeAssumption DEF BatchStatement, Index
<1>2. QED  BY <1>1, SizeAssumption DEF Covered

\* Every step keeps ProofsInv.
LEMMA ProofsStep ==
    ASSUME SingleImporter, ExactInv, [Next]_vars
    PROVE  ProofsInv'
<1>1. /\ ServerTypeOK /\ TypeOK /\ ControlInv /\ LabelsInv /\ DataInv /\ ProofsInv
      /\ ServerTypeOK'
  <2>1. TypeInv'
    BY TypeInvStep DEF ExactInv, BridgeInv
  <2>2. QED  BY <2>1 DEF ExactInv, BridgeInv, TypeInv, TypeOK, ServerTypeOK, CosmosTypeOK
<1> DEFINE Good(s) == s # NoProof => Covered(s, Len(rows'))
           n == Len(rows')
<1>2. Len(rows) \in Nat /\ n \in Nat /\ Len(rows) <= n
  BY RowsGrow
<1>3. ASSUME NEW s \in BatchStatement \cup {NoProof}, s # NoProof => Covered(s, Len(rows))
      PROVE  Good(s)
  BY <1>2, <1>3, CoveredStays
<1>4. /\ \A s \in mempool : s # NoProof /\ Good(s)
      /\ Good(files.proof)
      /\ \A r \in Requests : Good(loc[r].msg)
  <2>1. /\ \A s \in mempool : s \in BatchStatement /\ s # NoProof
        /\ files.proof \in BatchStatement \cup {NoProof}
        /\ \A r \in Requests : loc[r].msg \in BatchStatement \cup {NoProof}
    BY <1>1, ServerAssumption DEF ServerTypeOK, Files, Local
  <2>2. QED  BY <1>1, <1>3, <2>1 DEF ProofsInv
<1>5. Good(NoProof)
  OBVIOUS
<1> HIDE DEF Good
<1>6. SUFFICES /\ \A s \in mempool' : Good(s)
               /\ Good(files'.proof)
               /\ \A r \in Requests : Good(loc'[r].msg)
  <2>1. \A s \in mempool' : s # NoProof
    BY <1>1, ServerAssumption DEF ServerTypeOK
  <2>2. QED  BY <2>1 DEF ProofsInv, Good
<1>7. ASSUME NEW r \in Requests, StepOf(r)
      PROVE  /\ \A s \in mempool' : Good(s)
             /\ Good(files'.proof)
             /\ \A q \in Requests : Good(loc'[q].msg)
  <2>1. mempool' \subseteq mempool \cup {loc[r].msg}
    <3>1. ASSUME ~ExecuteTimeout(r)  PROVE mempool' = mempool
      BY <1>7, <3>1
         DEF StepOf, Receive, ReceiveProof, Step, Query, QueryTree, FindTree, SaveTree,
             QueryQueue, FindRow, SaveRow, Prove, Initialize, FindRows, FindBatchTree,
             GenerateProof, Relay, ReadProof, Execute, SaveTx, SaveBlock, SaveCommit,
             BridgeBlockHeader, GenerateProofEth, UpdateDepositRootOnEth,
             Delete, DeleteRows, DeleteTree,
             UserProof, InitProof, FindProofTree, FindProofRows, ProveClaim,
             EthAnswerLost, Fail, cosmosVars
    <3>2. QED  BY <3>1 DEF ExecuteTimeout
  <2>2. files'.proof = files.proof \/ Covered(files'.proof, Len(rows))
    <3>1. ASSUME ~GenerateProof(r)  PROVE files'.proof = files.proof
      BY <1>1, <1>7, <3>1
         DEF StepOf, Receive, ReceiveProof, Step, Query, QueryTree, FindTree, SaveTree,
             QueryQueue, FindRow, SaveRow, Prove, Initialize, FindRows, FindBatchTree,
             Relay, ReadProof, Execute, SaveTx, SaveBlock, SaveCommit, BridgeBlockHeader,
             GenerateProofEth, UpdateDepositRootOnEth, Delete, DeleteRows, DeleteTree,
             UserProof, InitProof, FindProofTree, FindProofRows, ProveClaim,
             ExecuteTimeout, EthAnswerLost, Fail, ServerTypeOK, Files
    <3>2. QED  BY <1>1, <3>1, FreshCovered
  <2>3. Good(files'.proof)
    <3>1. files'.proof \in BatchStatement \cup {NoProof}
      BY <1>1 DEF ServerTypeOK, Files
    <3>2. QED  BY <1>3, <1>4, <2>2, <3>1
  <2>4. ASSUME NEW q \in Requests  PROVE Good(loc'[q].msg)
    <3>1. CASE q # r
      BY <1>1, <1>4, <1>7, <3>1, OthersWait DEF Kept
    <3>2. CASE q = r /\ SaveRow(r)
      <4>1. loc'[r].msg = NoProof
        BY <1>1, <3>2, NextItemFresh, AnswerValues DEF SaveRow, Fresh
      <4>2. QED  BY <1>5, <3>2, <4>1
    <3>3. CASE q = r /\ ~SaveRow(r)
      <4>1. loc'[r].msg \in {NoProof, loc[r].msg, files.proof}
        BY <1>1, <1>7, <3>3, NoDelete, StepSources
      <4>2. QED  BY <1>4, <1>5, <3>3, <4>1
    <3>4. QED  BY <3>1, <3>2, <3>3
  <2>5. QED  BY <1>4, <2>1, <2>3, <2>4
<1>8. CASE Crash
  <2>1. UNCHANGED <<mempool, files>> /\ \A q \in Requests : loc'[q].msg = NoProof
    BY <1>8, IdleCrash DEF Crash, Fresh, cosmosVars
  <2>2. QED  BY <1>4, <1>5, <2>1
<1>9. CASE Environment /\ UNCHANGED serverVars
  <2>1. mempool' \subseteq mempool
    BY <1>9 DEF Environment, Deposit, LateCommit, cosmosVars
  <2>2. UNCHANGED <<files, loc>>
    BY <1>9 DEF serverVars
  <2>3. QED  BY <1>4, <2>1, <2>2
<1>10. CASE UNCHANGED vars
  BY <1>4, <1>10 DEF vars, serverVars, cosmosVars
<1>11. QED  BY <1>7, <1>8, <1>9, <1>10, NextCases

\* The tree on Cosmos grows by a proof a handler sends or one sent before.
LEMMA UpdateSource ==
    ASSUME [Next]_vars
    PROVE  \/ UNCHANGED nLeafs
           \/ \E r \in Requests : pc[r] = "execute" /\ UpdateDepositTree(loc[r].msg)
           \/ \E s \in mempool : UpdateDepositTree(s)
<1>1. ASSUME NEW r \in Requests, StepOf(r), ~Execute(r)  PROVE UNCHANGED nLeafs
  BY <1>1
     DEF StepOf, Receive, ReceiveProof, Step, Query, QueryTree, FindTree, SaveTree,
         QueryQueue, FindRow, SaveRow, Prove, Initialize, FindRows, FindBatchTree,
         GenerateProof, Relay, ReadProof, SaveTx, SaveBlock, SaveCommit,
         BridgeBlockHeader, GenerateProofEth, UpdateDepositRootOnEth,
         Delete, DeleteRows, DeleteTree,
         UserProof, InitProof, FindProofTree, FindProofRows, ProveClaim,
         ExecuteTimeout, EthAnswerLost, Fail, cosmosVars
<1>2. ASSUME NEW r \in Requests, Execute(r)
      PROVE  UNCHANGED nLeafs \/ (pc[r] = "execute" /\ UpdateDepositTree(loc[r].msg))
  BY <1>2 DEF Execute, At
<1>3. CASE Crash \/ UNCHANGED vars
  BY <1>3 DEF Crash, vars, cosmosVars
<1>4. CASE Environment
  BY <1>4 DEF Environment, Deposit, LateCommit, cosmosVars
<1>5. QED  BY <1>1, <1>2, <1>3, <1>4, NextCases

\* An accepted batch takes only stored deposits out of the queue.
LEMMA AcceptedIsStored ==
    ASSUME CosmosTypeOK, NEW s, UpdateDepositTree(s),
           NEW n \in Nat, nLeafs <= n, Covered(s, n)
    PROVE  nLeafs' <= n
<1>1. /\ nLeafs \in Nat /\ nQueueLeafs \in Nat /\ nLeafs + nQueueLeafs = Len(deposits)
      /\ deposits \in Seq(Payload) /\ Batch \in Nat \ {0}
  BY SizeAssumption DEF CosmosTypeOK, nQueueLeafs
<1>2. s.key = nLeafs /\ s.newValue = NextBatch
  BY DEF UpdateDepositTree, Accepts
<1>3. ASSUME NEW j \in 1 .. Batch, j <= nQueueLeafs  PROVE nLeafs + j <= n
  <2>1. deposits[nLeafs + j] \in Payload
    <3>1. nLeafs + j \in 1 .. Len(deposits)
      BY <1>1, <1>3
    <3>2. QED  BY <1>1, <3>1
  <2>2. s.newValue[j] # Zero
    BY <1>2, <1>3, <2>1, ZeroAssumption DEF NextBatch
  <2>3. QED  BY <1>2, <2>2 DEF Covered
<1>4. nLeafs' = IF nQueueLeafs < Batch THEN Len(deposits) ELSE nLeafs + Batch
  BY DEF UpdateDepositTree
<1>5. CASE nQueueLeafs < Batch
  <2>1. nQueueLeafs = 0 \/ nQueueLeafs \in 1 .. Batch
    BY <1>1, <1>5
  <2>2. QED  BY <1>1, <1>3, <1>4, <1>5, <2>1
<1>6. CASE ~(nQueueLeafs < Batch)
  BY <1>1, <1>3, <1>4, <1>6
<1>7. QED  BY <1>5, <1>6

\* No deposit leaves the queue on Cosmos before it is stored.
LEMMA StoredStep ==
    ASSUME SingleImporter, ExactInv, [Next]_vars
    PROVE  nLeafs' <= Len(rows')
<1>1. /\ CosmosTypeOK /\ ControlInv /\ ProofsInv /\ nLeafs <= Len(rows) /\ nLeafs \in Nat
  BY DEF ExactInv, BridgeInv, TypeInv, TypeOK, CosmosTypeOK
<1>2. Len(rows) \in Nat /\ Len(rows') \in Nat /\ Len(rows) <= Len(rows')
  BY RowsGrow
<1>3. CASE UNCHANGED nLeafs
  BY <1>1, <1>2, <1>3
<1>4. ASSUME NEW s, UpdateDepositTree(s), Covered(s, Len(rows))  PROVE nLeafs' <= Len(rows')
  <2>1. nLeafs' <= Len(rows)
    BY <1>1, <1>2, <1>4, AcceptedIsStored
  <2>2. nLeafs' \in Nat
    BY ChainGrows DEF ExactInv, BridgeInv, TypeInv
  <2>3. QED  BY <1>2, <2>1, <2>2
<1>5. ASSUME NEW r \in Requests, pc[r] = "execute"  PROVE Covered(loc[r].msg, Len(rows))
  BY <1>1, <1>5, ServerAssumption DEF ControlInv, ProofsInv
<1>6. \A s \in mempool : Covered(s, Len(rows))
  BY <1>1 DEF ProofsInv
<1>7. QED  BY <1>3, <1>4, <1>5, <1>6, UpdateSource

-----------------------------------------------------------------------------
(* The proofs handed out and the stored tree.                              *)

\* Every step keeps GivenForAskedKey.
LEMMA AskedStep ==
    ASSUME TypeOK, DataInv, GivenForAskedKey, [Next]_vars
    PROVE  GivenForAskedKey'
<1>1. CASE UNCHANGED given
  BY <1>1 DEF GivenForAskedKey
<1>2. ASSUME NEW r \in Requests, ProveClaim(r)  PROVE GivenForAskedKey'
  <2>1. given' = given \/ (ClaimProves(r) /\ given' = given \cup {ClaimInput(r)})
    BY <1>2 DEF ProveClaim
  <2>2. ASSUME ClaimProves(r)  PROVE ClaimInput(r).key = ClaimInput(r).asked
    <3>1. loc[r].data \in Seq(Row) /\ loc[r].key \in Nat
      BY DEF TypeOK, Local
    <3>2. loc[r].key + 1 \in DOMAIN loc[r].data
      BY <2>2, <3>1 DEF ClaimProves
    <3>3. loc[r].data[loc[r].key + 1].key = loc[r].key
      BY <3>1, <3>2 DEF DataInv
    <3>4. QED  BY <3>3 DEF ClaimInput
  <2>3. QED  BY <2>1, <2>2 DEF GivenForAskedKey
<1>3. ASSUME NEW r \in Requests, StepOf(r), ~ProveClaim(r)  PROVE UNCHANGED given
  BY <1>3
     DEF StepOf, Receive, ReceiveProof, Step, Query, QueryTree, FindTree, SaveTree,
         QueryQueue, FindRow, SaveRow, Prove, Initialize, FindRows, FindBatchTree,
         GenerateProof, Relay, ReadProof, Execute, SaveTx, SaveBlock, SaveCommit,
         BridgeBlockHeader, GenerateProofEth, UpdateDepositRootOnEth,
         Delete, DeleteRows, DeleteTree,
         UserProof, InitProof, FindProofTree, FindProofRows,
         ExecuteTimeout, EthAnswerLost, Fail
<1>4. ASSUME Crash \/ UNCHANGED serverVars  PROVE UNCHANGED given
  BY <1>4 DEF Crash, serverVars
<1>5. QED  BY <1>1, <1>2, <1>3, <1>4, NextCases DEF vars

\* Without DELETE /db nothing but SaveTree writes the stored tree.
LEMMA TreeWriter ==
    ASSUME NEW r \in Requests, StepOf(r), ~SaveTree(r), ~Delete(r)
    PROVE  UNCHANGED treeDocs
  BY DEF StepOf, Receive, ReceiveProof, Step, Query, QueryTree, FindTree, QueryQueue,
         FindRow, SaveRow, Prove, Initialize, FindRows, FindBatchTree, GenerateProof,
         Relay, ReadProof, Execute, SaveTx, SaveBlock, SaveCommit, BridgeBlockHeader,
         GenerateProofEth, UpdateDepositRootOnEth,
         UserProof, InitProof, FindProofTree, FindProofRows, ProveClaim,
         ExecuteTimeout, EthAnswerLost, Fail

\* The stored tree does not go back to fewer leaves.
TreeGrows == treeDocs # <<>> => treeDocs' # <<>> /\ treeDocs'[1].n >= treeDocs[1].n

\* Every step lets the stored tree grow.
LEMMA TreeGrowsStep ==
    ASSUME ExactInv, [Next]_vars
    PROVE  TreeGrows
<1>1. /\ treeDocs \in Seq(TreeDoc) /\ ServerTypeOK /\ LabelsInv /\ TreeOrderInv
  BY DEF ExactInv, BridgeInv, TypeInv, TypeOK, ServerTypeOK, CosmosTypeOK
<1> SUFFICES ASSUME treeDocs # <<>>
             PROVE  treeDocs' # <<>> /\ treeDocs'[1].n >= treeDocs[1].n
  BY DEF TreeGrows
<1>2. 1 \in DOMAIN treeDocs /\ treeDocs[1] \in TreeDoc /\ treeDocs[1].n \in Nat
  <2>1. 1 \in DOMAIN treeDocs /\ treeDocs[1] \in TreeDoc
    BY <1>1
  <2>2. QED  BY <2>1 DEF TreeDoc
<1>3. CASE UNCHANGED treeDocs
  BY <1>2, <1>3
<1>4. ASSUME NEW r \in Requests, SaveTree(r)
      PROVE  treeDocs' # <<>> /\ treeDocs'[1].n >= treeDocs[1].n
  <2> DEFINE new == loc[r].chain
             doc == loc[r].doc
  <2>1. new \in TreeDoc /\ new.n \in Nat /\ treeDocs[1].n <= new.n
    <3>1. new \in TreeDoc /\ new.n \in Nat
      BY <1>1 DEF ServerTypeOK, Local, TreeDoc
    <3>2. QED  BY <1>1, <1>4, <3>1 DEF SaveTree, At, TreeOrderInv
  <2> HIDE DEF new
  <2>2. CASE doc.ref = "null"
    <3>1. treeDocs' = Append(treeDocs, new)
      BY <1>4, <2>2 DEF SaveTree, new
    <3>2. treeDocs' # <<>> /\ treeDocs'[1] = treeDocs[1]
      BY <1>1, <1>2, <2>1, <3>1, AppendProperties
    <3>3. QED  BY <1>2, <3>2
  <2>3. CASE doc.ref = "held"
    <3> DEFINE d == [n  |-> Saved(doc.n, new.n, treeDocs[1].n),
                     nq |-> Saved(doc.nq, new.nq, treeDocs[1].nq)]
    <3>1. treeDocs' = [treeDocs EXCEPT ![1] = d]
      BY <1>4, <2>3 DEF SaveTree, new
    <3>2. d.n \in {new.n, treeDocs[1].n}
      BY DEF Saved
    <3> HIDE DEF d
    <3>3. treeDocs'[1] = d /\ 1 \in DOMAIN treeDocs'
      BY <1>2, <3>1
    <3>4. treeDocs' # <<>>
      BY <3>3
    <3>5. QED  BY <1>2, <2>1, <3>2, <3>3, <3>4
  <2>4. CASE doc.ref = "gone"
    BY <1>3, <1>4, <2>4 DEF SaveTree
  <2>5. doc.ref \in {"null", "held", "gone"}
    BY <1>1 DEF ServerTypeOK, Local, LoadedDoc
  <2>6. QED  BY <2>2, <2>3, <2>4, <2>5
<1>5. ASSUME NEW r \in Requests, StepOf(r), ~SaveTree(r)  PROVE UNCHANGED treeDocs
  BY <1>1, <1>5, NoDelete, TreeWriter
<1>6. ASSUME Crash \/ UNCHANGED serverVars  PROVE UNCHANGED treeDocs
  BY <1>6 DEF Crash, serverVars
<1>7. QED  BY <1>3, <1>4, <1>5, <1>6, NextCases DEF vars

\* Every step keeps TreeOrderInv.
LEMMA TreeOrderStep ==
    ASSUME SingleImporter, ExactInv, [Next]_vars
    PROVE  TreeOrderInv'
<1>1. /\ ServerTypeOK /\ TypeOK /\ LabelsInv /\ TreeOrderInv /\ TreeDocNeverAhead
      /\ treeDocs \in Seq(TreeDoc)
  BY DEF ExactInv, BridgeInv, TypeInv, TypeOK, ServerTypeOK, CosmosTypeOK
<1> SUFFICES ASSUME NEW q \in Requests, pc'[q] \in {"findTree", "saveTree"}, treeDocs' # <<>>
             PROVE  treeDocs'[1].n <= loc'[q].chain.n
  BY DEF TreeOrderInv
<1>2. ASSUME NEW r \in Requests, StepOf(r), q # r  PROVE treeDocs'[1].n <= loc'[q].chain.n
  <2>1. pc'[q] = pc[q] /\ loc'[q] = loc[q]
    BY <1>1, <1>2, NoDelete, OthersWait
  <2>2. UNCHANGED treeDocs
    <3>1. ASSUME SaveTree(r)  PROVE FALSE
      <4>1. Imports(r)
        BY <1>1, <3>1 DEF SaveTree, At, LabelsInv, ProofLabels
      <4>2. QED  BY <1>1, <1>2, <2>1, <4>1, Alone DEF ProofLabels
    <3>2. QED  BY <1>1, <1>2, <3>1, NoDelete, TreeWriter
  <2>3. QED  BY <1>1, <2>1, <2>2 DEF TreeOrderInv
<1>3. ASSUME StepOf(q)  PROVE treeDocs'[1].n <= loc'[q].chain.n
  <2>1. ~SaveRow(q)
    <3>1. ASSUME SaveRow(q)  PROVE pc'[q] \in {"findRow", "initialize", "idle"}
      <4>1. Answer(q) \/ \E p : NextItem(q, p)
        BY <3>1 DEF SaveRow
      <4>2. QED  BY <1>1, <4>1, NextItemValues, AnswerValues
    <3>2. QED  BY <3>1
  <2>2. QueryTree(q) \/ FindTree(q)
    BY <1>1, <1>3, <2>1, NoDelete, StepSources
  <2>3. UNCHANGED treeDocs
    BY <2>2 DEF QueryTree, FindTree
  <2>4. treeDocs[1].n <= nLeafs
    <3>1. 1 \in DOMAIN treeDocs
      BY <1>1, <2>3
    <3>2. QED  BY <1>1, <3>1 DEF TreeDocNeverAhead
  <2>5. loc[q] \in Local
    BY <1>1 DEF ServerTypeOK
  <2>6. CASE QueryTree(q)
    <3>1. loc'[q] = [loc[q] EXCEPT !.chain = [n |-> nLeafs, nq |-> nQueueLeafs]]
      BY <1>1, <2>6, GotoValues DEF QueryTree
    <3>2. loc'[q].chain.n = nLeafs
      BY <2>5, <3>1 DEF Local
    <3>3. QED  BY <2>3, <2>4, <3>2
  <2>7. CASE FindTree(q)
    <3>1. loc'[q] = [loc[q] EXCEPT !.doc = FirstTreeDoc]
      BY <1>1, <2>7, GotoValues DEF FindTree
    <3>2. loc'[q].chain = loc[q].chain /\ pc[q] = "findTree"
      BY <2>5, <2>7, <3>1 DEF Local, FindTree, At
    <3>3. QED  BY <1>1, <2>3, <3>2 DEF TreeOrderInv
  <2>8. QED  BY <2>2, <2>6, <2>7
<1>4. ASSUME Crash  PROVE FALSE
  BY <1>4, IdleCrash
<1>5. CASE UNCHANGED serverVars
  BY <1>1, <1>5 DEF serverVars, TreeOrderInv
<1>6. QED  BY <1>2, <1>3, <1>4, <1>5, NextCases DEF vars

-----------------------------------------------------------------------------
(* The theorems.                                                           *)

\* ExactInv holds initially.
LEMMA ExactInit == Init => ExactInv
<1> SUFFICES ASSUME Init  PROVE ExactInv
  OBVIOUS
<1>1. RowsExact /\ nLeafs <= Len(rows) /\ GivenForAskedKey
  BY DEF Init, CosmosInit, RowsExact, GivenForAskedKey
<1>2. LabelsInv /\ TreeOrderInv
  BY DEF Init, LabelsInv, ProofLabels, TreeOrderInv
<1>3. QueueInv /\ DataInv /\ ProofsInv
  BY DEF Init, CosmosInit, Fresh, QueueInv, Consecutive, DataInv, ProofsInv
<1>4. QED  BY <1>1, <1>2, <1>3, BridgeInit DEF ExactInv

\* ExactInv is inductive.
LEMMA ExactStep ==
    ASSUME SingleImporter, ExactInv, [Next]_vars
    PROVE  ExactInv'
<1>1. BridgeInv' /\ RowsExact' /\ nLeafs' <= Len(rows')
  BY BridgeStep, RowsGrow, StoredStep DEF ExactInv
<1>2. LabelsInv' /\ QueueInv' /\ DataInv' /\ ProofsInv' /\ TreeOrderInv'
  BY LabelsStep, QueueStep, DataStep, ProofsStep, TreeOrderStep
     DEF ExactInv, BridgeInv, TypeInv
<1>3. GivenForAskedKey'
  BY AskedStep DEF ExactInv, BridgeInv, TypeInv
<1>4. QED  BY <1>1, <1>2, <1>3 DEF ExactInv

\* ExactInv is an invariant while one slot imports.
LEMMA ExactSafe ==
    ASSUME SingleImporter
    PROVE  Spec => []ExactInv
<1>1. ExactInv /\ [Next]_vars => ExactInv'
  BY ExactStep
<1>2. QED  BY <1>1, ExactInit, PTL DEF Spec

\* While one request at a time imports deposits and nobody deletes them, the
\* stored rows are the keys 0, 1, 2, ... without gap or double, through failed
\* calls, crashes between two saves and late transactions.
THEOREM RowsExactCorrect ==
    ASSUME SingleImporter
    PROVE  Spec => []RowsExact
<1>1. ExactInv => RowsExact
  BY DEF ExactInv
<1>2. QED  BY <1>1, ExactSafe, PTL

\* GET /proof/:key then answers with a proof for that key.
THEOREM AskedKeyCorrect ==
    ASSUME SingleImporter
    PROVE  Spec => []GivenForAskedKey
<1>1. ExactInv => GivenForAskedKey
  BY DEF ExactInv
<1>2. QED  BY <1>1, ExactSafe, PTL

\* A deposit that is shown as claimable is never shown as queued again.
THEOREM TreeGrowsCorrect ==
    ASSUME SingleImporter
    PROVE  Spec => TreeDocMonotone
<1>1. ExactInv /\ [Next]_vars => [TreeGrows]_vars
  BY TreeGrowsStep
<1>2. QED  BY <1>1, ExactSafe, PTL DEF Spec, TreeDocMonotone, TreeGrows

-----------------------------------------------------------------------------
(***************************************************************************)
(* The trees in memory and the proofs made from them: several requests     *)
(* share a tree of fmt.js, and it still holds a prefix of the deposits and *)
(* nothing else.                                                           *)
(***************************************************************************)

\* The leaves t are the first m of the deposits d, and empty beyond.
Prefixed(d, t, m) ==
    /\ m \in 0 .. Len(t)
    /\ m <= Len(d)
    /\ \A i \in 1 .. Len(t) : t[i] = IF i <= m THEN d[i] ELSE Zero

Payloads(data) == [i \in 1 .. Len(data) |-> data[i].payload]

\* s adds to the first n of the deposits d what follows of the first l.
Current(d, s, n, l) ==
    /\ s.key = n
    /\ s.oldRoot = [i \in Index |-> IF i < n THEN d[i + 1] ELSE Zero]
    /\ s.newValue = [j \in 1 .. Batch |-> IF n + j <= l THEN d[n + j] ELSE Zero]
    /\ Provable(s)

-----------------------------------------------------------------------------
(* The invariant.                                                          *)

\* The stored n_leafs
TreeLeafs == IF treeDocs = <<>> THEN 0 ELSE treeDocs[1].n

\* Every tree made by initialize() holds a prefix of the stored deposits.
TreesPrefixed ==
    \A k \in DOMAIN trees : \E m \in 0 .. Len(rows) : Prefixed(deposits, trees[k], m)

\* PUT /update has read all rows and the stored tree, which do not change until
\* its proof is sent; whoever writes into its tree meanwhile writes no leaf
\* beyond the stored n_leafs.
OwnTree(r) ==
    /\ pc[r] \in {"findRows", "findBatchTree", "generateProof"} =>
          /\ loc[r].tree \in DOMAIN trees
          /\ \E m \in 0 .. TreeLeafs : Prefixed(deposits, trees[loc[r].tree], m)
    /\ pc[r] \in {"findBatchTree", "generateProof"} => Len(loc[r].data) = Len(rows)
    /\ pc[r] = "generateProof" => loc[r].doc.n = TreeLeafs
    /\ pc[r] \in {"generateProof", "readProof", "execute"} => treeDocs # <<>>
    /\ pc[r] = "readProof" => Current(deposits, files.proof, TreeLeafs, Len(rows))
    /\ pc[r] = "execute" => Current(deposits, loc[r].msg, TreeLeafs, Len(rows))

OwnTreeInv == \A r \in Requests : OwnTree(r)

\* GET /proof has a tree, and rows of keys below the stored n_leafs only.
UserTreeInv ==
    \A r \in Requests :
        /\ pc[r] \in {"findProofTree", "findProofRows"} => trees # <<>>
        /\ pc[r] = "findProofRows" => loc[r].doc.n <= TreeLeafs
        /\ pc[r] = "proveClaim" => /\ loc[r].tree \in DOMAIN trees
                                   /\ Len(loc[r].data) <= TreeLeafs

TreesInv == /\ ExactInv
            /\ TreesPrefixed
            /\ OwnTreeInv
            /\ UserTreeInv
            /\ GivenUnderPrefix

-----------------------------------------------------------------------------
(* Writing prefixes over prefixes.                                         *)

\* Writing a prefix over a prefix gives the longer one, unless empty leaves of
\* the one written fall on deposits of the other.
LEMMA UpdatedPrefixed ==
    ASSUME NEW d, Len(d) \in Nat,
           NEW t \in Seq(Leaf), NEW v \in Seq(Leaf), NEW m, NEW n,
           Prefixed(d, t, m), Prefixed(d, v, n), n = Len(v) \/ m <= n
    PROVE  Prefixed(d, Updated(t, v), IF m > n THEN m ELSE n)
<1> DEFINE l == IF Len(t) > Len(v) THEN Len(t) ELSE Len(v)
           u == Updated(t, v)
           k == IF m > n THEN m ELSE n
<1>1. m \in Nat /\ n \in Nat /\ m <= Len(t) /\ n <= Len(v) /\ m <= Len(d) /\ n <= Len(d)
  BY DEF Prefixed
<1>2. l \in Nat /\ k \in 0 .. l /\ k <= Len(d)
  BY <1>1
<1>3. u = [i \in 1 .. l |-> IF i <= Len(v) THEN v[i] ELSE t[i]]
  BY DEF Updated
<1>4. u \in Seq(Leaf)
  BY UpdatedType
<1>5. Len(u) = l
  BY <1>2, <1>3, <1>4
<1>6. ASSUME NEW i \in 1 .. l  PROVE u[i] = IF i <= k THEN d[i] ELSE Zero
  <2>1. CASE i <= Len(v)
    <3>1. u[i] = v[i] /\ v[i] = IF i <= n THEN d[i] ELSE Zero
      BY <1>3, <2>1 DEF Prefixed
    <3>2. QED  BY <1>1, <2>1, <3>1
  <2>2. CASE i > Len(v)
    <3>1. i \in 1 .. Len(t) /\ u[i] = t[i]
      BY <1>3, <2>2
    <3>2. t[i] = IF i <= m THEN d[i] ELSE Zero
      BY <3>1 DEF Prefixed
    <3>3. QED  BY <1>1, <2>2, <3>1, <3>2
  <2>3. QED  BY <2>1, <2>2
<1> HIDE DEF u, k, l
<1>7. QED  BY <1>2, <1>5, <1>6 DEF Prefixed, u, k

\* A prefix of a prefix is one.
LEMMA SubPrefixed ==
    ASSUME NEW d, Len(d) \in Nat,
           NEW v \in Seq(Leaf), NEW n, Prefixed(d, v, n), NEW k \in 0 .. Len(v)
    PROVE  /\ SubSeq(v, 1, k) \in Seq(Leaf) /\ Len(SubSeq(v, 1, k)) = k
           /\ Prefixed(d, SubSeq(v, 1, k), IF n > k THEN k ELSE n)
<1>1. /\ SubSeq(v, 1, k) \in Seq(Leaf) /\ Len(SubSeq(v, 1, k)) = k
      /\ \A i \in 1 .. k : SubSeq(v, 1, k)[i] = v[i]
  BY SubSeqProperties
<1> DEFINE w == SubSeq(v, 1, k)
           p == IF n > k THEN k ELSE n
<1>2. n \in 0 .. Len(v) /\ n <= Len(d)
  BY DEF Prefixed
<1>3. p \in 0 .. k /\ p <= Len(d)
  BY <1>2
<1>4. ASSUME NEW i \in 1 .. k  PROVE w[i] = IF i <= p THEN d[i] ELSE Zero
  <2>1. w[i] = v[i] /\ i \in 1 .. Len(v)
    BY <1>1
  <2>2. v[i] = IF i <= n THEN d[i] ELSE Zero
    BY <2>1 DEF Prefixed
  <2>3. QED  BY <1>2, <2>1, <2>2
<1>5. w \in Seq(Leaf) /\ Len(w) = k
  BY <1>1
<1> HIDE DEF w, p
<1>6. Prefixed(d, w, p)
  BY <1>3, <1>4, <1>5 DEF Prefixed
<1>7. QED  BY <1>5, <1>6 DEF w, p

\* The tree over a prefix is the root of a prefix.
LEMMA PrefixedRoot ==
    ASSUME NEW t \in Seq(Leaf), NEW m, Prefixed(deposits, t, m)
    PROVE  TreeOf(t) = PrefixRoot(m)
<1>1. ASSUME NEW i \in Index
      PROVE  (IF i < Len(t) THEN t[i + 1] ELSE Zero) = (IF i < m THEN deposits[i + 1] ELSE Zero)
  <2>1. i \in Nat /\ m \in 0 .. Len(t)
    BY SizeAssumption DEF Index, Prefixed
  <2>2. CASE i < Len(t)
    <3>1. i + 1 \in 1 .. Len(t)
      BY <2>1, <2>2
    <3>2. QED  BY <2>1, <2>2, <3>1 DEF Prefixed
  <2>3. QED  BY <2>1, <2>2
<1>2. QED  BY <1>1 DEF TreeOf, PrefixRoot

\* The leaves before the batch, where the tree held no more than them.
LEMMA OldPrefixed ==
    ASSUME NEW d, Len(d) \in Nat,
           NEW t \in Seq(Leaf), NEW v \in Seq(Leaf), NEW m, NEW n,
           Prefixed(d, t, m), Prefixed(d, v, n), m <= n,
           NEW k \in 1 .. Len(v)
    PROVE  \E j \in 0 .. n : /\ Prefixed(d, OldLeaves(t, v, k), j)
                             /\ m <= k /\ k <= n => j = k
<1> DEFINE w == SubSeq(v, 1, k)
           p == IF n > k THEN k ELSE n
<1>1. m \in Nat /\ n \in Nat /\ n <= Len(v)
  BY DEF Prefixed
<1>2. w \in Seq(Leaf) /\ Len(w) = k /\ Prefixed(d, w, p)
  BY SubPrefixed
<1>3. p = Len(w) \/ m <= p
  BY <1>1, <1>2
<1>4. OldLeaves(t, v, k) = Updated(t, w)
  BY DEF OldLeaves
<1>5. Prefixed(d, Updated(t, w), IF m > p THEN m ELSE p)
  <2> HIDE DEF w, p
  <2>1. QED  BY <1>2, <1>3, UpdatedPrefixed
<1>6. QED  BY <1>1, <1>4, <1>5

\* Writing the empty leaf first makes no difference to a later write.
LEMMA ZeroFirst ==
    ASSUME NEW t \in Seq(Leaf), NEW v \in Seq(Leaf), Len(v) # 0
    PROVE  Updated(Updated(t, <<Zero>>), v) = Updated(t, v)
<1> DEFINE z == <<Zero>>
           u == Updated(t, z)
           l == IF Len(t) > 1 THEN Len(t) ELSE 1
<1>1. z \in Seq(Leaf) /\ Len(z) = 1
  BY DEF Leaf
<1>2. u = [i \in 1 .. l |-> IF i <= 1 THEN z[i] ELSE t[i]]
  BY <1>1 DEF Updated
<1>3. u \in Seq(Leaf)
  BY <1>1, UpdatedType
<1>4. Len(u) = l /\ l \in Nat
  BY <1>2, <1>3
<1>5. Len(v) \in Nat /\ Len(v) >= 1
  OBVIOUS
<1> DEFINE n == IF Len(t) > Len(v) THEN Len(t) ELSE Len(v)
<1>6. (IF Len(u) > Len(v) THEN Len(u) ELSE Len(v)) = n
  BY <1>4, <1>5
<1>7. ASSUME NEW i \in 1 .. n
      PROVE  (IF i <= Len(v) THEN v[i] ELSE u[i]) = (IF i <= Len(v) THEN v[i] ELSE t[i])
  <2>1. i > Len(v) => i \in 1 .. l /\ i > 1
    BY <1>5
  <2>2. QED  BY <1>2, <2>1
<1>8. Updated(u, v) = [i \in 1 .. n |-> IF i <= Len(v) THEN v[i] ELSE u[i]]
  BY <1>6 DEF Updated
<1>9. Updated(t, v) = [i \in 1 .. n |-> IF i <= Len(v) THEN v[i] ELSE t[i]]
  BY DEF Updated
<1> HIDE DEF u, n
<1>10. Updated(u, v) = Updated(t, v)
  BY <1>7, <1>8, <1>9
<1>11. QED  BY <1>10 DEF u

\* What the prover's request leaves in its tree is a prefix, too.
LEMMA GeneratedPrefixed ==
    ASSUME NEW d, Len(d) \in Nat,
           NEW t \in Seq(Leaf), NEW v \in Seq(Leaf), NEW m, NEW n,
           Prefixed(d, t, m), Prefixed(d, v, n), m <= n,
           NEW a \in 0 .. Len(v), NEW k \in 0 .. Len(v), k = 0 => Len(v) = 0
    PROVE  \E j \in 0 .. n : Prefixed(d, Updated(OldLeaves(t, v, a), SubSeq(v, 1, k)), j)
<1> DEFINE w == SubSeq(v, 1, k)
           p == IF n > k THEN k ELSE n
           old == OldLeaves(t, v, a)
<1>1. m \in Nat /\ n \in Nat /\ n <= Len(v) /\ p \in 0 .. n
  BY DEF Prefixed
<1>2. w \in Seq(Leaf) /\ Len(w) = k /\ Prefixed(d, w, p)
  BY SubPrefixed
<1>3. ASSUME NEW s \in Seq(Leaf), NEW j \in 0 .. n, Prefixed(d, s, j)
      PROVE  \E i \in 0 .. n : Prefixed(d, Updated(s, w), i)
  <2>1. p = Len(w) \/ j <= p
    BY <1>1, <1>2, <1>3
  <2>2. Prefixed(d, Updated(s, w), IF j > p THEN j ELSE p)
    <3> HIDE DEF w, p
    <3>1. QED  BY <1>2, <1>3, <2>1, UpdatedPrefixed
  <2>3. (IF j > p THEN j ELSE p) \in 0 .. n
    BY <1>1, <1>3
  <2>4. QED  BY <2>2, <2>3
<1> HIDE DEF w, p
<1>4. CASE a = 0 /\ k = 0
  <2> DEFINE z == <<Zero>>
  <2>1. z \in Seq(Leaf) /\ Len(z) = 1 /\ z[1] = Zero
    BY DEF Leaf
  <2>2. m = 0 /\ n = 0
    BY <1>1, <1>4
  <2>3. Prefixed(d, z, 0)
    BY <2>1 DEF Prefixed
  <2>4. old = Updated(t, z)
    BY <1>4 DEF OldLeaves
  <2> HIDE DEF z
  <2>5. Prefixed(d, Updated(t, z), 0)
    BY <2>1, <2>2, <2>3, UpdatedPrefixed
  <2>6. Updated(t, z) \in Seq(Leaf)
    BY <2>1, UpdatedType
  <2>7. QED  BY <1>1, <1>3, <2>4, <2>5, <2>6 DEF w
<1>5. CASE a = 0 /\ k # 0
  <2>1. old = Updated(t, <<Zero>>)
    BY <1>5 DEF OldLeaves
  <2>2. Updated(old, w) = Updated(t, w)
    BY <1>2, <1>5, <2>1, ZeroFirst
  <2>3. QED  BY <1>1, <1>3, <2>2 DEF w
<1>6. CASE a # 0
  <2>1. \E j \in 0 .. n : Prefixed(d, old, j)
    BY <1>6, OldPrefixed
  <2>2. old \in Seq(Leaf)
    BY OldLeavesType
  <2>3. QED  BY <1>3, <2>1, <2>2 DEF w
<1>7. QED  BY <1>4, <1>5, <1>6

-----------------------------------------------------------------------------
(* Rows, documents and the chain.                                          *)

\* The types the proofs below use.
LEMMA ExactTypes ==
    ASSUME ExactInv
    PROVE  /\ TypeOK /\ ServerTypeOK /\ ControlInv /\ LabelsInv /\ DataInv
           /\ rows \in Seq(Row) /\ treeDocs \in Seq(TreeDoc) /\ trees \in Seq(Seq(Leaf))
           /\ deposits \in Seq(Payload) /\ nLeafs \in 0 .. Len(deposits)
           /\ files \in Files
           /\ \A r \in Requests : loc[r] \in Local
  BY DEF ExactInv, BridgeInv, TypeInv, TypeOK, ServerTypeOK, CosmosTypeOK

\* n_leafs as stored, n_leafs as it is, the rows and the deposits, in order
Ordered == /\ TreeLeafs \in Nat /\ Len(rows) \in Nat /\ Len(deposits) \in Nat
           /\ TreeLeafs <= nLeafs /\ nLeafs \in Nat
           /\ nLeafs <= Len(rows) /\ Len(rows) <= Len(deposits)
           /\ TreeLeafs <= Len(rows)

\* ExactInv keeps them in order.
LEMMA StoredOrder == ExactInv => Ordered
<1> SUFFICES ASSUME ExactInv  PROVE Ordered
  OBVIOUS
<1>1. /\ RowsExact /\ RowsMatchChain /\ TreeDocNeverAhead /\ nLeafs <= Len(rows)
  BY DEF ExactInv, BridgeInv
<1>2. Len(rows) \in Nat /\ Len(deposits) \in Nat /\ nLeafs \in Nat
  BY ExactTypes
<1>3. Len(rows) <= Len(deposits)
  <2>1. CASE Len(rows) = 0
    BY <1>2, <2>1
  <2>2. CASE Len(rows) # 0
    <3>1. Len(rows) \in DOMAIN rows
      BY <1>2, <2>2, ExactTypes
    <3>2. rows[Len(rows)].key = Len(rows) - 1 /\ rows[Len(rows)].key < Len(deposits)
      BY <1>1, <3>1 DEF RowsExact, RowsMatchChain
    <3>3. QED  BY <1>2, <3>2
  <2>3. QED  BY <2>1, <2>2
<1>4. TreeLeafs \in Nat /\ TreeLeafs <= nLeafs
  <2>1. CASE treeDocs = <<>>
    BY <1>2, <2>1 DEF TreeLeafs
  <2>2. CASE treeDocs # <<>>
    <3>1. 1 \in DOMAIN treeDocs /\ treeDocs[1] \in TreeDoc
      BY <2>2, ExactTypes
    <3>2. QED  BY <1>1, <2>2, <3>1 DEF TreeLeafs, TreeDoc, TreeDocNeverAhead
  <2>3. QED  BY <2>1, <2>2
<1>5. QED  BY <1>1, <1>2, <1>3, <1>4 DEF Ordered

\* So they are in the next state.
LEMMA OrderedNext == ExactInv' => Ordered'
  BY StoredOrder, PTL

\* What was a prefix of the deposits stays one.
LEMMA PrefixedStays ==
    ASSUME TypeOK, [Next]_vars, NEW t \in Seq(Leaf), NEW m, Prefixed(deposits, t, m)
    PROVE  Prefixed(deposits', t, m)
<1>1. m \in Nat /\ m <= Len(deposits)
  BY DEF Prefixed
<1>2. \A i \in 1 .. Len(t) : i <= m => deposits'[i] = deposits[i]
  BY <1>1, ChainGrows
<1>3. QED  BY <1>1, <1>2, ChainGrows DEF Prefixed

\* A proof that was made for the stored tree and rows stays good for them.
LEMMA CurrentStays ==
    ASSUME TypeOK, [Next]_vars, NEW s, NEW n \in Nat, NEW l \in Nat,
           n <= l, l <= Len(deposits), Current(deposits, s, n, l)
    PROVE  Current(deposits', s, n, l)
<1>1. \A i \in Index : i < n => deposits'[i + 1] = deposits[i + 1]
  <2>1. \A i \in Index : i < n => i + 1 \in 1 .. Len(deposits)
    BY ChainGrows DEF Index
  <2>2. QED  BY <2>1, ChainGrows
<1>2. \A j \in 1 .. Batch : n + j <= l => deposits'[n + j] = deposits[n + j]
  <2>1. \A j \in 1 .. Batch : n + j <= l => n + j \in 1 .. Len(deposits)
    BY ChainGrows, SizeAssumption
  <2>2. QED  BY <2>1, ChainGrows
<1>3. QED  BY <1>1, <1>2 DEF Current

\* The rows a handler holds are a prefix of the deposits.
LEMMA DataPrefixed ==
    ASSUME ExactInv, NEW r \in Requests
    PROVE  /\ loc[r].data \in Seq(Row) /\ Len(loc[r].data) \in Nat
           /\ Len(loc[r].data) <= Len(rows)
           /\ Payloads(loc[r].data) \in Seq(Leaf)
           /\ Len(Payloads(loc[r].data)) = Len(loc[r].data)
           /\ Prefixed(deposits, Payloads(loc[r].data), Len(loc[r].data))
<1> DEFINE data == loc[r].data
           p == Payloads(data)
<1>1. data \in Seq(Row) /\ Len(data) \in Nat /\ Len(data) <= Len(rows)
  BY ExactTypes DEF Local, DataInv
<1>2. \A i \in 1 .. Len(data) : data[i].payload = deposits[i] /\ data[i].payload \in Leaf
  <2>1. ASSUME NEW i \in 1 .. Len(data)
        PROVE  data[i].payload = deposits[i] /\ data[i].payload \in Leaf
    <3>1. i \in DOMAIN data /\ data[i] \in Row /\ i \in Nat
      BY <1>1
    <3>2. data[i].key = i - 1 /\ data[i].payload = deposits[data[i].key + 1]
      BY <3>1, ExactTypes DEF DataInv, ExactInv, BridgeInv, AnswersInv
    <3>3. data[i].key + 1 = i
      BY <3>1, <3>2
    <3>4. QED  BY <3>1, <3>2, <3>3 DEF Row, Leaf
  <2>2. QED  BY <2>1
<1>3. p \in Seq(Leaf) /\ Len(p) = Len(data)
  BY <1>1, <1>2 DEF Payloads
<1>4. \A i \in 1 .. Len(p) : p[i] = IF i <= Len(data) THEN deposits[i] ELSE Zero
  BY <1>2, <1>3 DEF Payloads
<1>5. Len(data) <= Len(deposits)
  BY <1>1, StoredOrder DEF Ordered
<1> HIDE DEF p
<1>6. Prefixed(deposits, p, Len(data))
  BY <1>1, <1>3, <1>4, <1>5 DEF Prefixed
<1>7. QED  BY <1>1, <1>3, <1>6 DEF p

\* newValue is the rows and padding.
LEMMA ValuePrefixed ==
    ASSUME ExactInv, NEW r \in Requests, NEW nq \in Nat
    PROVE  /\ NewValue(loc[r].data, nq) \in Seq(Leaf)
           /\ Prefixed(deposits, NewValue(loc[r].data, nq), Len(loc[r].data))
<1> DEFINE data == loc[r].data
           a == Payloads(data)
           m == IF nq < Batch THEN Batch - nq ELSE 0
           b == [k \in 1 .. m |-> Zero]
           v == NewValue(data, nq)
<1>1. /\ data \in Seq(Row) /\ Len(data) \in Nat
      /\ a \in Seq(Leaf) /\ Len(a) = Len(data) /\ Prefixed(deposits, a, Len(data))
  BY DataPrefixed
<1>2. v \in Seq(Leaf)
  BY <1>1, NewValueType
<1>3. b \in Seq(Leaf) /\ Len(b) = m /\ m \in Nat
  BY SizeAssumption DEF Leaf
<1>4. v = a \o b
  BY DEF NewValue, Payloads
<1> HIDE DEF a, b, m
<1>5. Len(v) = Len(data) + m /\ \A i \in 1 .. Len(data) : v[i] = a[i]
  <2> HIDE DEF v
  <2>1. /\ Len(v) = Len(a) + Len(b)
        /\ \A i \in 1 .. Len(a) + Len(b) : v[i] = IF i <= Len(a) THEN a[i] ELSE b[i - Len(a)]
    BY <1>1, <1>3, <1>4, ConcatProperties
  <2>2. \A i \in 1 .. Len(data) : i \in 1 .. Len(a) + Len(b) /\ i <= Len(a)
    BY <1>1, <1>3
  <2>3. QED  BY <1>1, <1>3, <2>1, <2>2
<1>6. ASSUME NEW i \in 1 .. Len(v)  PROVE v[i] = IF i <= Len(data) THEN deposits[i] ELSE Zero
  <2>1. CASE i <= Len(data)
    <3>1. i \in 1 .. Len(data)
      BY <1>1, <2>1
    <3>2. QED  BY <1>1, <1>5, <2>1, <3>1 DEF Prefixed
  <2>2. CASE i > Len(data)
    BY <1>1, <2>2, PaddingIsZero
  <2>3. QED  BY <1>1, <2>1, <2>2
<1> HIDE DEF v
<1>7. Len(data) \in 0 .. Len(v) /\ Len(data) <= Len(deposits)
  BY <1>1, <1>3, <1>5 DEF Prefixed
<1>8. Prefixed(deposits, v, Len(data))
  BY <1>6, <1>7 DEF Prefixed
<1>9. QED  BY <1>2, <1>8 DEF v

-----------------------------------------------------------------------------
(* The trees.                                                              *)

\* Only initialize(), the prover and GET /proof touch the trees.
LEMMA TreesMove ==
    ASSUME NEW r \in Requests, StepOf(r)
    PROVE  \/ UNCHANGED trees
           \/ Initialize(r) /\ trees' = Append(trees, <<>>)
           \/ InitProof(r) /\ trees' = Append(trees, <<>>)
           \/ GenerateProof(r)
           \/ ProveClaim(r) /\ trees' = ClaimTrees(r)
  BY DEF StepOf, Receive, ReceiveProof, Step, Query, QueryTree, FindTree, SaveTree, QueryQueue,
         FindRow, SaveRow, Prove, Initialize, FindRows, FindBatchTree,
         Relay, ReadProof, Execute, SaveTx, SaveBlock, SaveCommit, BridgeBlockHeader,
         GenerateProofEth, UpdateDepositRootOnEth, Delete, DeleteRows, DeleteTree,
         UserProof, InitProof, FindProofTree, FindProofRows, ProveClaim,
         ExecuteTimeout, EthAnswerLost, Fail

\* The prover writes the rows it has read into its own tree.
LEMMA GeneratedTree ==
    ASSUME TreesInv, NEW r \in Requests, GenerateProof(r)
    PROVE  LET t == loc[r].tree
           IN  /\ DOMAIN trees' = DOMAIN trees
               /\ \A k \in DOMAIN trees : k # t => trees'[k] = trees[k]
               /\ \E j \in 0 .. Len(rows) : Prefixed(deposits, trees'[t], j)
<1> DEFINE t      == loc[r].tree
           n      == loc[r].doc.n
           value  == NewValue(loc[r].data, loc[r].doc.nq)
           a      == IF n <= Len(value) THEN n ELSE Len(value)
           enough == n + Batch <= Len(value)
           k      == IF enough THEN n + Batch ELSE Len(value)
           new    == Updated(OldLeaves(trees[t], value, a), SubSeq(value, 1, k))
<1>1. ExactInv /\ OwnTreeInv /\ pc[r] = "generateProof"
  BY DEF TreesInv, GenerateProof, At
<1>2. /\ trees \in Seq(Seq(Leaf)) /\ n \in Nat /\ loc[r].doc.nq \in Nat
      /\ Len(deposits) \in Nat
  BY <1>1, ExactTypes DEF Local, LoadedDoc
<1>3. t \in DOMAIN trees /\ trees[t] \in Seq(Leaf)
  BY <1>1, <1>2 DEF OwnTreeInv, OwnTree
<1>4. PICK m \in 0 .. TreeLeafs : Prefixed(deposits, trees[t], m)
  BY <1>1 DEF OwnTreeInv, OwnTree
<1>5. Len(loc[r].data) = Len(rows) /\ Len(rows) \in Nat /\ m <= Len(rows) /\ m \in Nat
  BY <1>1, StoredOrder DEF OwnTreeInv, OwnTree, Ordered
<1>6. trees' = [trees EXCEPT ![t] = new]
  BY DEF GenerateProof
<1>7. value \in Seq(Leaf) /\ Prefixed(deposits, value, Len(rows))
  BY <1>1, <1>2, <1>5, ValuePrefixed
<1> HIDE DEF value
<1>8. a \in 0 .. Len(value) /\ k \in 0 .. Len(value) /\ (k = 0 => Len(value) = 0)
  BY <1>2, <1>7, SizeAssumption
<1> HIDE DEF a, k
<1>9. \E j \in 0 .. Len(rows) : Prefixed(deposits, new, j)
  BY <1>2, <1>3, <1>4, <1>5, <1>7, <1>8, GeneratedPrefixed
<1> HIDE DEF new
<1>10. /\ DOMAIN trees' = DOMAIN trees /\ trees'[t] = new
       /\ \A i \in DOMAIN trees : i # t => trees'[i] = trees[i]
  BY <1>3, <1>6
<1>11. QED  BY <1>9, <1>10

\* GET /proof writes its rows into the tree it found.
LEMMA ClaimedTree ==
    ASSUME TreesInv, NEW r \in Requests, pc[r] = "proveClaim"
    PROVE  LET t == loc[r].tree
               n == Len(loc[r].data)
           IN  /\ t \in DOMAIN trees /\ DOMAIN ClaimTrees(r) = DOMAIN trees
               /\ ClaimTrees(r)[t] \in Seq(Leaf)
               /\ \A k \in DOMAIN trees : k # t => ClaimTrees(r)[k] = trees[k]
               /\ \A m \in Nat : Prefixed(deposits, trees[t], m) =>
                     Prefixed(deposits, ClaimTrees(r)[t], IF m > n THEN m ELSE n)
<1> DEFINE t == loc[r].tree
           n == Len(loc[r].data)
           v == Payloads(loc[r].data)
           new == Updated(trees[t], v)
<1>1. ExactInv /\ t \in DOMAIN trees
  BY DEF TreesInv, UserTreeInv
<1>2. trees \in Seq(Seq(Leaf)) /\ trees[t] \in Seq(Leaf) /\ Len(deposits) \in Nat
  BY <1>1, ExactTypes
<1>3. v \in Seq(Leaf) /\ Len(v) = n /\ n \in Nat /\ Prefixed(deposits, v, n)
  BY <1>1, DataPrefixed
<1>4. ClaimTrees(r) = [trees EXCEPT ![t] = new]
  BY DEF ClaimTrees, Payloads
<1> HIDE DEF v
<1>5. new \in Seq(Leaf)
  BY <1>2, <1>3, UpdatedType
<1>6. \A m \in Nat : Prefixed(deposits, trees[t], m)
                    => Prefixed(deposits, new, IF m > n THEN m ELSE n)
  BY <1>2, <1>3, UpdatedPrefixed
<1> HIDE DEF new
<1>7. /\ DOMAIN ClaimTrees(r) = DOMAIN trees /\ ClaimTrees(r)[t] = new
      /\ \A k \in DOMAIN trees : k # t => ClaimTrees(r)[k] = trees[k]
  BY <1>1, <1>4
<1>8. QED  BY <1>1, <1>5, <1>6, <1>7

\* Every step keeps TreesPrefixed.
LEMMA TreesPrefixedStep ==
    ASSUME SingleImporter, TreesInv, [Next]_vars
    PROVE  TreesPrefixed'
<1>1. /\ ExactInv /\ ExactInv' /\ TreesPrefixed
  BY ExactStep DEF TreesInv
<1>2. /\ TypeOK /\ trees \in Seq(Seq(Leaf)) /\ trees' \in Seq(Seq(Leaf))
      /\ Len(rows) \in Nat /\ Len(rows') \in Nat /\ Len(rows) <= Len(rows')
      /\ Len(deposits') \in Nat
  BY <1>1, ExactTypes, RowsGrow, ChainGrows DEF ExactInv, BridgeInv, TypeInv, TypeOK
<1> DEFINE Now(t)   == \E m \in 0 .. Len(rows) : Prefixed(deposits, t, m)
           Later(t) == \E m \in 0 .. Len(rows') : Prefixed(deposits', t, m)
<1>3. ASSUME NEW t \in Seq(Leaf), Now(t)  PROVE Later(t)
  <2>1. PICK m \in 0 .. Len(rows) : Prefixed(deposits, t, m)
    BY <1>3
  <2>2. Prefixed(deposits', t, m) /\ m \in 0 .. Len(rows')
    BY <1>2, <2>1, PrefixedStays
  <2>3. QED  BY <2>2
<1>4. \A k \in DOMAIN trees : Now(trees[k])
  BY <1>1 DEF TreesPrefixed
<1>5. Later(<<>>)
  <2>1. Prefixed(deposits', <<>>, 0)
    BY <1>2 DEF Prefixed
  <2>2. QED  BY <1>2, <2>1
<1> SUFFICES \A k \in DOMAIN trees' : Later(trees'[k])
  BY DEF TreesPrefixed
<1>6. \A k \in DOMAIN trees : trees[k] \in Seq(Leaf)
  BY <1>2
<1>7. \A k \in DOMAIN trees : Later(trees[k])
  BY <1>3, <1>4, <1>6
<1> HIDE DEF Now, Later
<1>8. CASE UNCHANGED trees
  BY <1>7, <1>8
<1>9. CASE trees' = Append(trees, <<>>)
  <2>1. \A k \in DOMAIN trees' : trees'[k] = <<>> \/ (k \in DOMAIN trees /\ trees'[k] = trees[k])
    BY <1>2, <1>9
  <2>2. QED  BY <1>5, <1>7, <2>1
<1>10. ASSUME NEW r \in Requests, GenerateProof(r)
       PROVE  \A k \in DOMAIN trees' : Later(trees'[k])
  <2> DEFINE t == loc[r].tree
  <2>1. /\ DOMAIN trees' = DOMAIN trees
        /\ \A k \in DOMAIN trees : k # t => trees'[k] = trees[k]
        /\ Now(trees'[t])
    BY <1>2, <1>10, GeneratedTree DEF Now
  <2>2. \A k \in DOMAIN trees' : trees'[k] \in Seq(Leaf)
    BY <1>2
  <2>3. QED  BY <1>3, <1>7, <2>1, <2>2
<1>11. ASSUME NEW r \in Requests, ProveClaim(r), trees' = ClaimTrees(r)
       PROVE  \A k \in DOMAIN trees' : Later(trees'[k])
  <2> DEFINE t == loc[r].tree
             n == Len(loc[r].data)
  <2>1. pc[r] = "proveClaim"
    BY <1>11 DEF ProveClaim, At
  <2>2. /\ t \in DOMAIN trees /\ DOMAIN trees' = DOMAIN trees /\ trees'[t] \in Seq(Leaf)
        /\ \A k \in DOMAIN trees : k # t => trees'[k] = trees[k]
        /\ \A m \in Nat : Prefixed(deposits, trees[t], m) =>
              Prefixed(deposits, trees'[t], IF m > n THEN m ELSE n)
    BY <1>11, <2>1, ClaimedTree
  <2>3. PICK m \in 0 .. Len(rows) : Prefixed(deposits, trees[t], m)
    BY <1>4, <2>2 DEF Now
  <2>4. n \in Nat /\ n <= Len(rows)
    BY <1>1, DataPrefixed
  <2>5. (IF m > n THEN m ELSE n) \in 0 .. Len(rows)
    BY <1>2, <2>3, <2>4
  <2>6. Now(trees'[t])
    BY <1>2, <2>2, <2>3, <2>5 DEF Now
  <2>7. QED  BY <1>3, <1>7, <2>2, <2>6
<1>12. CASE Crash
  BY <1>12 DEF Crash
<1>13. CASE UNCHANGED serverVars
  BY <1>7, <1>13 DEF serverVars
<1>14. QED
  BY <1>8, <1>9, <1>10, <1>11, <1>12, <1>13, NextCases, TreesMove DEF vars

\* No tree goes away but by a crash.
LEMMA TreesStay ==
    ASSUME TreesInv, [Next]_vars, NEW r \in Requests, StepOf(r)
    PROVE  DOMAIN trees \subseteq DOMAIN trees' /\ (trees # <<>> => trees' # <<>>)
<1>1. trees \in Seq(Seq(Leaf)) /\ trees' \in Seq(Seq(Leaf))
  BY TypeInvStep DEF TreesInv, ExactInv, BridgeInv, TypeInv, TypeOK
<1>2. CASE UNCHANGED trees
  BY <1>2
<1>3. CASE trees' = Append(trees, <<>>)
  BY <1>1, <1>3
<1>4. CASE DOMAIN trees' = DOMAIN trees
  <2>1. trees # <<>> => 1 \in DOMAIN trees
    BY <1>1
  <2>2. trees' = <<>> => DOMAIN trees' = {}
    BY <1>1
  <2>3. QED  BY <1>4, <2>1, <2>2
<1>5. GenerateProof(r) => DOMAIN trees' = DOMAIN trees
  BY GeneratedTree
<1>6. ProveClaim(r) /\ trees' = ClaimTrees(r) => DOMAIN trees' = DOMAIN trees
  BY ClaimedTree DEF ProveClaim, At
<1>7. QED  BY <1>2, <1>3, <1>4, <1>5, <1>6, TreesMove

-----------------------------------------------------------------------------
(* The requests.                                                           *)

\* Each label is reached by one action.
LEMMA ReachedBy ==
    ASSUME TypeOK, LabelsInv, NEW r \in Requests, StepOf(r)
    PROVE  /\ pc'[r] = "findRows"      => Initialize(r)
           /\ pc'[r] = "findBatchTree" => FindRows(r)
           /\ pc'[r] = "generateProof" => FindBatchTree(r)
           /\ pc'[r] = "readProof"     => GenerateProof(r)
           /\ pc'[r] = "execute"       => ReadProof(r)
           /\ pc'[r] = "findProofTree" => InitProof(r)
           /\ pc'[r] = "findProofRows" => FindProofTree(r)
           /\ pc'[r] = "proveClaim"    => FindProofRows(r)
<1>1. ServerTypeOK
  BY DEF TypeOK, ServerTypeOK, CosmosTypeOK
<1> DEFINE Away == pc'[r] \notin {"findRows", "findBatchTree", "generateProof", "readProof",
                                  "execute", "findProofTree", "findProofRows", "proveClaim"}
           To(l) == Answer(r) \/ \E v : Goto(r, l, v)
<1>2. ASSUME Answer(r)  PROVE pc'[r] = "idle"
  BY <1>1, <1>2, AnswerValues
<1>3. ASSUME NEW l, To(l)  PROVE pc'[r] \in {"idle", l}
  BY <1>1, <1>2, <1>3, GotoValues
<1> HIDE DEF To
<1>4. CASE Initialize(r)
  BY <1>3, <1>4 DEF Initialize, To
<1>5. CASE FindRows(r)
  BY <1>3, <1>5 DEF FindRows, To
<1>6. CASE FindBatchTree(r)
  <2>1. To("generateProof")
    BY <1>6 DEF FindBatchTree, To
  <2>2. QED  BY <1>3, <1>6, <2>1
<1>7. CASE GenerateProof(r)
  <2>1. To("readProof")
    BY <1>7 DEF GenerateProof, To
  <2>2. QED  BY <1>3, <1>7, <2>1
<1>8. CASE ReadProof(r)
  BY <1>3, <1>8 DEF ReadProof, To
<1>9. CASE InitProof(r)
  BY <1>3, <1>9 DEF InitProof, To
<1>10. CASE FindProofTree(r)
  <2>1. To("findProofRows")
    BY <1>10 DEF FindProofTree, To
  <2>2. QED  BY <1>3, <1>10, <2>1
<1>11. CASE FindProofRows(r)
  <2>1. To("proveClaim")
    BY <1>11 DEF FindProofRows, To
  <2>2. QED  BY <1>3, <1>11, <2>1
<1>12. CASE Query(r)
  <2>1. ASSUME NEW p, NextItem(r, p)  PROVE Away
    <3>1. pc'[r] \in {"findRow", "initialize", "idle"}
      BY <1>1, <2>1, NextItemValues
    <3>2. QED  BY <3>1
  <2>2. \/ \E l \in {"findTree", "saveTree", "queryQueue", "saveRow"} : To(l)
        \/ \E p : NextItem(r, p)
    BY <1>12 DEF Query, QueryTree, FindTree, SaveTree, QueryQueue, FindRow, SaveRow, To
  <2>3. (\E l \in {"findTree", "saveTree", "queryQueue", "saveRow"} : To(l))
           => pc'[r] \in {"idle", "findTree", "saveTree", "queryQueue", "saveRow"}
    BY <1>3
  <2>4. Away
    BY <2>1, <2>2, <2>3
  <2>5. QED  BY <2>4
<1>13. CASE Relay(r) /\ ~ReadProof(r)
  <2>1. \E l \in {"queryTx", "queryBlock", "queryCommit", "blockHeader", "proofEth", "rootEth"} :
           To(l)
    BY <1>13 DEF Relay, Execute, SaveTx, SaveBlock, SaveCommit, BridgeBlockHeader,
                 GenerateProofEth, UpdateDepositRootOnEth, To
  <2>2. pc'[r] \in {"idle", "queryTx", "queryBlock", "queryCommit", "blockHeader",
                    "proofEth", "rootEth"}
    BY <1>3, <2>1
  <2>3. QED  BY <2>2
<1>14. CASE \/ \E k \in Kinds[r] : Receive(r, k)
            \/ \E i : ReceiveProof(r, i)
            \/ ProveClaim(r)
            \/ ExecuteTimeout(r) \/ EthAnswerLost(r) \/ Fail(r)
  <2>1. \E l \in {"deleteRows", "queryTree", "initProof"} : To(l)
    BY <1>14 DEF Receive, ReceiveProof, ProveClaim, ExecuteTimeout, EthAnswerLost, Fail, To
  <2>2. pc'[r] \in {"idle", "deleteRows", "queryTree", "initProof"}
    BY <1>3, <2>1
  <2>3. QED  BY <2>2
<1>15. QED
  BY <1>4, <1>5, <1>6, <1>7, <1>8, <1>9, <1>10, <1>11, <1>12, <1>13, <1>14, NoDelete
     DEF StepOf, Step, Prove, UserProof

\* The stored n_leafs only grows.
LEMMA LeafsGrow ==
    ASSUME SingleImporter, ExactInv, [Next]_vars
    PROVE  /\ TreeLeafs \in Nat /\ TreeLeafs' \in Nat /\ TreeLeafs <= TreeLeafs'
           /\ TreeLeafs' <= Len(rows') /\ Len(rows') <= Len(deposits')
<1>1. Ordered /\ Ordered'
  BY ExactStep, StoredOrder, OrderedNext
<1>2. /\ TreeLeafs \in Nat /\ TreeLeafs' \in Nat
      /\ TreeLeafs' <= Len(rows') /\ Len(rows') <= Len(deposits')
  BY <1>1 DEF Ordered
<1>3. TreeLeafs <= TreeLeafs'
  BY <1>2, TreeGrowsStep DEF TreeGrows, TreeLeafs
<1>4. QED  BY <1>2, <1>3

\* GET /proof leaves the database, the files and the chain alone.
LEMMA QuietStep ==
    ASSUME NEW r \in Requests, (\E i : ReceiveProof(r, i)) \/ UserProof(r) \/ Fail(r)
    PROVE  UNCHANGED <<rows, treeDocs, files, deposits, nLeafs>>
  BY DEF ReceiveProof, UserProof, InitProof, FindProofTree, FindProofRows, ProveClaim, Fail,
         cosmosVars

\* Every step keeps UserTreeInv.
LEMMA UserTreeStep ==
    ASSUME SingleImporter, TreesInv, [Next]_vars
    PROVE  UserTreeInv'
<1>1. /\ ExactInv /\ UserTreeInv /\ TypeOK /\ ServerTypeOK /\ LabelsInv /\ RowsExact
      /\ rows \in Seq(Row) /\ trees \in Seq(Seq(Leaf)) /\ treeDocs \in Seq(TreeDoc)
      /\ \A r \in Requests : loc[r] \in Local
  BY ExactTypes DEF TreesInv, ExactInv
<1>2. TreeLeafs \in Nat /\ TreeLeafs' \in Nat /\ TreeLeafs <= TreeLeafs'
  BY <1>1, LeafsGrow
<1> SUFFICES ASSUME NEW q \in Requests
             PROVE  /\ pc'[q] \in {"findProofTree", "findProofRows"} => trees' # <<>>
                    /\ pc'[q] = "findProofRows" => loc'[q].doc.n <= TreeLeafs'
                    /\ pc'[q] = "proveClaim" => /\ loc'[q].tree \in DOMAIN trees'
                                                /\ Len(loc'[q].data) <= TreeLeafs'
  BY DEF UserTreeInv
<1> DEFINE Good == /\ pc'[q] \in {"findProofTree", "findProofRows"} => trees' # <<>>
                   /\ pc'[q] = "findProofRows" => loc'[q].doc.n <= TreeLeafs'
                   /\ pc'[q] = "proveClaim" => /\ loc'[q].tree \in DOMAIN trees'
                                               /\ Len(loc'[q].data) <= TreeLeafs'
<1>3. loc[q] \in Local /\ loc[q].doc.n \in Nat /\ Len(loc[q].data) \in Nat
  BY <1>1 DEF Local, LoadedDoc
<1>4. ASSUME pc'[q] = pc[q], loc'[q] = loc[q],
             DOMAIN trees \subseteq DOMAIN trees', trees # <<>> => trees' # <<>>
      PROVE  Good
  BY <1>1, <1>2, <1>3, <1>4 DEF UserTreeInv
<1>5. ASSUME NEW r \in Requests, StepOf(r), r # q  PROVE Good
  <2>1. pc'[q] = pc[q] /\ loc'[q] = loc[q]
    BY <1>1, <1>5, NoDelete, OthersWait
  <2>2. DOMAIN trees \subseteq DOMAIN trees' /\ (trees # <<>> => trees' # <<>>)
    BY <1>5, TreesStay
  <2>3. QED  BY <1>4, <2>1, <2>2
<1>6. ASSUME StepOf(q)  PROVE Good
  <2>1. pc'[q] = "findProofTree" => trees' # <<>>
    <3>1. InitProof(q) => trees' # <<>>
      BY <1>1 DEF InitProof
    <3>2. QED  BY <1>1, <1>6, <3>1, ReachedBy
  <2>2. ASSUME pc'[q] = "findProofRows"
        PROVE  trees' # <<>> /\ loc'[q].doc.n <= TreeLeafs'
    <3>1. FindProofTree(q)
      BY <1>1, <1>6, <2>2, ReachedBy
    <3>2. ~Answer(q)
      BY <1>1, <2>2, AnswerValues
    <3>3. /\ treeDocs # <<>> /\ UNCHANGED <<trees, treeDocs>> /\ pc[q] = "findProofTree"
          /\ Goto(q, "findProofRows", [loc[q] EXCEPT !.doc = FirstTreeDoc])
      BY <3>1, <3>2 DEF FindProofTree, At
    <3>4. loc'[q] = [loc[q] EXCEPT !.doc = FirstTreeDoc]
      BY <1>1, <3>3, GotoValues
    <3>5. loc'[q].doc = FirstTreeDoc
      BY <1>3, <3>4 DEF Local
    <3>6. FirstTreeDoc.n = TreeLeafs
      BY <3>3 DEF FirstTreeDoc, TreeLeafs
    <3>7. QED  BY <1>1, <1>2, <3>3, <3>5, <3>6 DEF UserTreeInv
  <2>3. ASSUME pc'[q] = "proveClaim"
        PROVE  loc'[q].tree \in DOMAIN trees' /\ Len(loc'[q].data) <= TreeLeafs'
    <3>1. FindProofRows(q)
      BY <1>1, <1>6, <2>3, ReachedBy
    <3>2. ~Answer(q)
      BY <1>1, <2>3, AnswerValues
    <3>3. PICK m \in 0 .. Len(rows) :
             /\ \A i \in 1 .. m : rows[i].key < loc[q].doc.n
             /\ Goto(q, "proveClaim", [loc[q] EXCEPT !.data = SubSeq(rows, 1, m),
                                                     !.tree = Len(trees)])
      BY <3>1, <3>2 DEF FindProofRows
    <3>4. UNCHANGED trees /\ pc[q] = "findProofRows"
      BY <3>1 DEF FindProofRows, At
    <3>5. loc'[q] = [loc[q] EXCEPT !.data = SubSeq(rows, 1, m), !.tree = Len(trees)]
      BY <1>1, <3>3, GotoValues
    <3>6. loc'[q].data = SubSeq(rows, 1, m) /\ loc'[q].tree = Len(trees)
      BY <1>3, <3>5 DEF Local
    <3>7. Len(SubSeq(rows, 1, m)) = m
      BY <1>1, SubSeqProperties
    <3>8. m <= loc[q].doc.n
      <4>1. CASE m = 0
        BY <1>3, <4>1
      <4>2. CASE m # 0
        <5>1. m \in 1 .. m /\ m \in DOMAIN rows
          BY <1>1, <4>2
        <5>2. rows[m].key = m - 1 /\ rows[m].key < loc[q].doc.n
          BY <1>1, <3>3, <5>1 DEF RowsExact
        <5>3. QED  BY <1>3, <5>1, <5>2
      <4>3. QED  BY <4>1, <4>2
    <3>9. loc[q].doc.n <= TreeLeafs /\ trees # <<>>
      BY <1>1, <3>4 DEF UserTreeInv
    <3>10. Len(trees) \in DOMAIN trees
      BY <1>1, <3>9
    <3>11. m <= TreeLeafs'
      BY <1>2, <1>3, <3>8, <3>9
    <3>12. QED  BY <3>4, <3>6, <3>7, <3>10, <3>11
  <2>4. QED  BY <2>1, <2>2, <2>3
<1>7. CASE Crash
  BY <1>7, IdleCrash
<1>8. CASE UNCHANGED serverVars
  BY <1>4, <1>8 DEF serverVars
<1>9. QED  BY <1>5, <1>6, <1>7, <1>8, NextCases DEF vars

\* The prover's proof is about the stored tree and rows.
LEMMA GeneratedCurrent ==
    ASSUME TreesInv, NEW r \in Requests, GenerateProof(r), pc'[r] = "readProof"
    PROVE  Current(deposits, files'.proof, TreeLeafs, Len(rows))
<1> DEFINE t     == loc[r].tree
           n     == loc[r].doc.n
           l     == Len(rows)
           value == NewValue(loc[r].data, loc[r].doc.nq)
           old   == OldLeaves(trees[t], value, n)
           input == BatchInput(trees[t], value, n)
<1>1. ExactInv /\ OwnTreeInv /\ pc[r] = "generateProof" /\ ServerTypeOK /\ files \in Files
  BY ExactTypes DEF TreesInv, GenerateProof, At
<1>2. /\ trees \in Seq(Seq(Leaf)) /\ n \in Nat /\ loc[r].doc.nq \in Nat
      /\ Len(deposits) \in Nat
  BY <1>1, ExactTypes DEF Local, LoadedDoc
<1>3. t \in DOMAIN trees /\ trees[t] \in Seq(Leaf) /\ n = TreeLeafs /\ Len(loc[r].data) = l
  BY <1>1, <1>2 DEF OwnTreeInv, OwnTree
<1>4. PICK m \in 0 .. n : Prefixed(deposits, trees[t], m)
  BY <1>1, <1>3 DEF OwnTreeInv, OwnTree
<1>5. l \in Nat /\ n <= l /\ l <= Len(deposits)
  BY <1>1, <1>3, StoredOrder DEF Ordered
<1>6. value \in Seq(Leaf) /\ Prefixed(deposits, value, l)
  BY <1>1, <1>2, <1>3, ValuePrefixed
<1>7. n + Batch <= Len(value) /\ Provable(input) /\ files' = [files EXCEPT !.proof = input]
  <2>1. ~Answer(r)
    BY <1>1, AnswerValues
  <2>2. QED  BY <2>1 DEF GenerateProof
<1>8. files'.proof = input
  BY <1>1, <1>7 DEF Files
<1> HIDE DEF value
<1>9. TreeOf(old) = PrefixRoot(n)
  <2>1. CASE n = 0
    <3> DEFINE z == <<Zero>>
    <3>1. z \in Seq(Leaf) /\ Len(z) = 1 /\ z[1] = Zero
      BY DEF Leaf
    <3>2. Prefixed(deposits, z, 0)
      BY <1>2, <3>1 DEF Prefixed
    <3>3. old = Updated(trees[t], z)
      BY <2>1 DEF OldLeaves
    <3> HIDE DEF z
    <3>4. Prefixed(deposits, Updated(trees[t], z), 0)
      <4>1. Prefixed(deposits, trees[t], 0)
        BY <1>4, <2>1
      <4> HIDE DEF t
      <4>2. ASSUME NEW a, NEW b, a = 0, b = 0
            PROVE  Prefixed(deposits, Updated(trees[t], z), IF a > b THEN a ELSE b)
        <5>1. /\ Prefixed(deposits, trees[t], a) /\ Prefixed(deposits, z, b)
              /\ b = Len(z) \/ a <= b
          BY <3>1, <3>2, <4>1, <4>2
        <5>2. QED  BY <1>2, <1>3, <3>1, <5>1, UpdatedPrefixed
      <4>3. (IF 0 > 0 THEN 0 ELSE 0) = 0
        OBVIOUS
      <4>4. QED  BY <4>2, <4>3
    <3>5. Updated(trees[t], z) \in Seq(Leaf)
      BY <1>3, <3>1, UpdatedType
    <3>6. QED  BY <2>1, <3>3, <3>4, <3>5, PrefixedRoot
  <2>2. CASE n # 0
    <3>1. n \in 1 .. Len(value)
      BY <1>2, <1>6, <1>7, <2>2, SizeAssumption
    <3>2. m <= l /\ m <= n
      BY <1>2, <1>4, <1>5
    <3>3. Prefixed(deposits, old, n)
      <4>1. PICK j \in 0 .. l : Prefixed(deposits, old, j) /\ (m <= n /\ n <= l => j = n)
        BY <1>2, <1>3, <1>4, <1>5, <1>6, <3>1, <3>2, OldPrefixed
      <4>2. j = n
        BY <1>5, <3>2, <4>1
      <4>3. QED  BY <4>1, <4>2
    <3>4. old \in Seq(Leaf)
      BY <1>3, <1>6, <3>1, OldLeavesType
    <3>5. QED  BY <3>3, <3>4, PrefixedRoot
  <2>3. QED  BY <2>1, <2>2
<1>10. \A j \in 1 .. Batch : value[n + j] = IF n + j <= l THEN deposits[n + j] ELSE Zero
  <2> SUFFICES ASSUME NEW j \in 1 .. Batch
               PROVE  value[n + j] = IF n + j <= l THEN deposits[n + j] ELSE Zero
    OBVIOUS
  <2>1. Len(value) \in Nat /\ Batch \in Nat /\ j \in Nat /\ 1 <= j /\ j <= Batch
    BY <1>6, SizeAssumption
  <2> HIDE DEF n, l
  <2>2. n + j \in 1 .. Len(value)
    BY <1>2, <1>7, <2>1
  <2>3. QED  BY <1>6, <2>2 DEF Prefixed
<1>11. /\ input.key = n /\ input.oldRoot = TreeOf(old)
       /\ input.newValue = [j \in 1 .. Batch |-> value[n + j]]
  BY DEF BatchInput
<1> HIDE DEF input, old
<1>12. Current(deposits, input, n, l)
  BY <1>7, <1>9, <1>10, <1>11 DEF Current, PrefixRoot
<1>13. QED  BY <1>3, <1>8, <1>12

OwnLabels == {"findRows", "findBatchTree", "generateProof", "readProof", "execute"}

\* A handler that waits keeps what it has, while rows, tree document and files
\* stay and its tree stays a short prefix.
LEMMA OwnTreeWaits ==
    ASSUME SingleImporter, TreesInv, [Next]_vars, NEW q \in Requests,
           pc'[q] = pc[q], loc'[q] = loc[q], UNCHANGED <<rows, treeDocs, files>>,
           pc[q] \in {"findRows", "findBatchTree", "generateProof"} =>
              /\ loc[q].tree \in DOMAIN trees'
              /\ \E m \in 0 .. TreeLeafs : Prefixed(deposits, trees'[loc[q].tree], m)
    PROVE  OwnTree(q)'
<1>1. /\ ExactInv /\ OwnTree(q) /\ TypeOK /\ Ordered
      /\ trees' \in Seq(Seq(Leaf))
  <2>1. ExactInv /\ ExactInv'
    BY ExactStep DEF TreesInv
  <2>2. TypeOK'
    BY <2>1 DEF ExactInv, BridgeInv, TypeInv
  <2>3. QED  BY <2>1, <2>2, ExactTypes, StoredOrder DEF TreesInv, OwnTreeInv, TypeOK
<1>2. TreeLeafs' = TreeLeafs
  BY DEF TreeLeafs
<1>3. ASSUME pc[q] \in {"findRows", "findBatchTree", "generateProof"}
      PROVE  \E m \in 0 .. TreeLeafs' : Prefixed(deposits', trees'[loc[q].tree], m)
  <2>1. PICK m \in 0 .. TreeLeafs : Prefixed(deposits, trees'[loc[q].tree], m)
    BY <1>3
  <2>2. trees'[loc[q].tree] \in Seq(Leaf)
    BY <1>1, <1>3
  <2>3. Prefixed(deposits', trees'[loc[q].tree], m)
    BY <1>1, <2>1, <2>2, PrefixedStays
  <2>4. QED  BY <1>2, <2>1, <2>3
<1>4. \A s : Current(deposits, s, TreeLeafs, Len(rows))
               => Current(deposits', s, TreeLeafs, Len(rows))
  BY <1>1, CurrentStays DEF Ordered
<1>5. QED  BY <1>1, <1>2, <1>3, <1>4 DEF OwnTree

\* Beside a handler of PUT /update only GET /proof runs.
LEMMA OwnTreeOthers ==
    ASSUME SingleImporter, TreesInv, [Next]_vars,
           NEW q \in Requests, NEW r \in Requests \ {q}, StepOf(r)
    PROVE  OwnTree(q)'
<1>1. /\ ExactInv /\ OwnTree(q) /\ UserTreeInv /\ ServerTypeOK /\ LabelsInv
      /\ trees \in Seq(Seq(Leaf)) /\ loc[q] \in Local
  BY ExactTypes DEF TreesInv, OwnTreeInv
<1>2. pc'[q] = pc[q] /\ loc'[q] = loc[q]
  BY <1>1, NoDelete, OthersWait
<1>3. CASE pc[q] \notin OwnLabels
  BY <1>2, <1>3 DEF OwnTree, OwnLabels
<1>4. CASE pc[q] \in OwnLabels
  <2>1. Imports(q)
    BY <1>1, <1>4 DEF LabelsInv, OwnLabels, ProofLabels
  <2>2. ~Imports(r)
    BY <2>1 DEF SingleImporter
  <2>3. UNCHANGED <<rows, treeDocs, files>>
    BY <1>1, <2>2, OnlyProofs, QuietStep
  <2>4. ASSUME pc[q] \in {"findRows", "findBatchTree", "generateProof"}
        PROVE  /\ loc[q].tree \in DOMAIN trees'
               /\ \E m \in 0 .. TreeLeafs : Prefixed(deposits, trees'[loc[q].tree], m)
    <3> DEFINE t == loc[q].tree
    <3>1. t \in DOMAIN trees
      BY <1>1, <2>4 DEF OwnTree
    <3>2. PICK m \in 0 .. TreeLeafs : Prefixed(deposits, trees[t], m)
      BY <1>1, <2>4 DEF OwnTree
    <3>3. CASE UNCHANGED trees
      BY <3>1, <3>2, <3>3
    <3>4. CASE trees' = Append(trees, <<>>)
      <4>1. t \in DOMAIN trees' /\ trees'[t] = trees[t]
        BY <1>1, <3>1, <3>4
      <4>2. QED  BY <3>2, <4>1
    <3>5. CASE GenerateProof(r)
      BY <1>1, <2>2, <3>5 DEF LabelsInv, ProofLabels, GenerateProof, At
    <3>6. CASE ProveClaim(r) /\ trees' = ClaimTrees(r)
      <4>1. pc[r] = "proveClaim"
        BY <3>6 DEF ProveClaim, At
      <4> DEFINE c == loc[r].tree
                 n == Len(loc[r].data)
      <4>2. /\ DOMAIN trees' = DOMAIN trees
            /\ \A k \in DOMAIN trees : k # c => trees'[k] = trees[k]
            /\ \A a \in Nat : Prefixed(deposits, trees[c], a)
                            => Prefixed(deposits, trees'[c], IF a > n THEN a ELSE n)
        BY <3>6, <4>1, ClaimedTree
      <4>3. n \in Nat /\ n <= TreeLeafs
        BY <1>1, <4>1, DataPrefixed DEF UserTreeInv
      <4>4. m \in Nat /\ m <= TreeLeafs /\ TreeLeafs \in Nat
        BY <1>1, StoredOrder DEF Ordered
      <4> HIDE DEF n
      <4>5. (IF m > n THEN m ELSE n) \in 0 .. TreeLeafs
        BY <4>3, <4>4
      <4>6. CASE t = c
        BY <3>1, <3>2, <4>2, <4>4, <4>5, <4>6
      <4>7. CASE t # c
        BY <3>1, <3>2, <4>2, <4>7
      <4>8. QED  BY <4>6, <4>7
    <3>7. QED  BY <3>3, <3>4, <3>5, <3>6, TreesMove
  <2>5. QED  BY <1>2, <2>3, <2>4, OwnTreeWaits
<1>5. QED  BY <1>3, <1>4

\* PUT /update itself goes from label to label.
LEMMA OwnTreeMoves ==
    ASSUME SingleImporter, TreesInv, [Next]_vars, NEW q \in Requests, StepOf(q)
    PROVE  OwnTree(q)'
<1>1. /\ ExactInv /\ OwnTree(q) /\ TypeOK /\ ServerTypeOK /\ LabelsInv /\ Ordered
      /\ trees \in Seq(Seq(Leaf)) /\ trees' \in Seq(Seq(Leaf)) /\ loc[q] \in Local
      /\ files \in Files
  <2>1. ExactInv /\ ExactInv'
    BY ExactStep DEF TreesInv
  <2>2. TypeOK'
    BY <2>1 DEF ExactInv, BridgeInv, TypeInv
  <2>3. QED  BY <2>1, <2>2, ExactTypes, StoredOrder DEF TreesInv, OwnTreeInv, TypeOK
<1>2. UNCHANGED treeDocs => TreeLeafs' = TreeLeafs
  BY DEF TreeLeafs
<1>3. CASE pc'[q] \notin OwnLabels
  BY <1>3 DEF OwnTree, OwnLabels
<1>4. CASE pc'[q] = "findRows"
  <2>1. /\ pc[q] = "initialize" /\ trees' = Append(trees, <<>>)
        /\ Goto(q, "findRows", [loc[q] EXCEPT !.tree = Len(trees) + 1])
    BY <1>1, <1>4, ReachedBy DEF Initialize, At
  <2>2. loc'[q] = [loc[q] EXCEPT !.tree = Len(trees) + 1]
    BY <1>1, <2>1, GotoValues
  <2>3. loc'[q].tree = Len(trees) + 1
    BY <1>1, <2>2 DEF Local
  <2>4. loc'[q].tree \in DOMAIN trees' /\ trees'[loc'[q].tree] = <<>>
    BY <1>1, <2>1, <2>3
  <2>5. 0 \in 0 .. TreeLeafs' /\ Prefixed(deposits', <<>>, 0)
    <3>1. TreeLeafs' \in Nat
      BY LeafsGrow DEF TreesInv
    <3>2. QED  BY <1>1, <3>1, ChainGrows DEF Prefixed
  <2>6. QED  BY <1>4, <2>4, <2>5 DEF OwnTree
<1>5. CASE pc'[q] = "findBatchTree"
  <2>1. /\ pc[q] = "findRows" /\ UNCHANGED <<cosmosVars, rows, treeDocs, trees>>
        /\ Goto(q, "findBatchTree", [loc[q] EXCEPT !.data = rows])
    BY <1>1, <1>5, ReachedBy DEF FindRows, At
  <2>2. loc'[q] = [loc[q] EXCEPT !.data = rows]
    BY <1>1, <2>1, GotoValues
  <2>3. loc'[q].tree = loc[q].tree /\ loc'[q].data = rows
    BY <1>1, <2>2 DEF Local
  <2>4. UNCHANGED deposits
    BY <2>1 DEF cosmosVars
  <2>5. QED  BY <1>1, <1>2, <1>5, <2>1, <2>3, <2>4 DEF OwnTree
<1>6. CASE pc'[q] = "generateProof"
  <2>1. ~Answer(q)
    BY <1>1, <1>6, AnswerValues
  <2>2. /\ pc[q] = "findBatchTree" /\ UNCHANGED <<cosmosVars, rows, treeDocs, trees>>
        /\ treeDocs # <<>>
        /\ Goto(q, "generateProof", [loc[q] EXCEPT !.doc = FirstTreeDoc])
    BY <1>1, <1>6, <2>1, ReachedBy DEF FindBatchTree, At
  <2>3. loc'[q] = [loc[q] EXCEPT !.doc = FirstTreeDoc]
    BY <1>1, <2>2, GotoValues
  <2>4. /\ loc'[q].tree = loc[q].tree /\ loc'[q].data = loc[q].data
        /\ loc'[q].doc = FirstTreeDoc
    BY <1>1, <2>3 DEF Local
  <2>5. FirstTreeDoc.n = TreeLeafs
    BY <2>2 DEF FirstTreeDoc, TreeLeafs
  <2>6. UNCHANGED deposits
    BY <2>2 DEF cosmosVars
  <2>7. QED  BY <1>1, <1>2, <1>6, <2>2, <2>4, <2>5, <2>6 DEF OwnTree
<1>7. CASE pc'[q] = "readProof"
  <2>1. GenerateProof(q)
    BY <1>1, <1>7, ReachedBy
  <2>2. pc[q] = "generateProof" /\ UNCHANGED <<deposits, rows, treeDocs>>
    BY <2>1 DEF GenerateProof, At, cosmosVars
  <2>3. Current(deposits, files'.proof, TreeLeafs, Len(rows))
    BY <1>7, <2>1, GeneratedCurrent
  <2>4. QED  BY <1>1, <1>2, <1>7, <2>2, <2>3 DEF OwnTree
<1>8. CASE pc'[q] = "execute"
  <2>1. /\ pc[q] = "readProof" /\ UNCHANGED <<cosmosVars, rows, treeDocs>>
        /\ Goto(q, "execute", [loc[q] EXCEPT !.msg = files.proof])
    BY <1>1, <1>8, ReachedBy DEF ReadProof, At
  <2>2. loc'[q] = [loc[q] EXCEPT !.msg = files.proof]
    BY <1>1, <2>1, GotoValues
  <2>3. loc'[q].msg = files.proof
    BY <1>1, <2>2 DEF Local
  <2>4. UNCHANGED deposits
    BY <2>1 DEF cosmosVars
  <2>5. QED  BY <1>1, <1>2, <1>8, <2>1, <2>3, <2>4 DEF OwnTree
<1>9. QED  BY <1>3, <1>4, <1>5, <1>6, <1>7, <1>8 DEF OwnLabels

\* Every step keeps OwnTreeInv.
LEMMA OwnTreeStep ==
    ASSUME SingleImporter, TreesInv, [Next]_vars
    PROVE  OwnTreeInv'
<1> SUFFICES ASSUME NEW q \in Requests  PROVE OwnTree(q)'
  BY DEF OwnTreeInv
<1>1. OwnTree(q)
  BY DEF TreesInv, OwnTreeInv
<1>2. ASSUME NEW r \in Requests, StepOf(r)  PROVE OwnTree(q)'
  BY <1>2, OwnTreeOthers, OwnTreeMoves
<1>3. CASE Crash
  BY <1>3, IdleCrash DEF OwnTree
<1>4. CASE UNCHANGED serverVars
  <2>1. UNCHANGED <<pc, loc, rows, treeDocs, files, trees>>
    BY <1>4 DEF serverVars
  <2>2. QED  BY <1>1, <2>1, OwnTreeWaits DEF OwnTree
<1>5. QED  BY <1>2, <1>3, <1>4, NextCases DEF vars

-----------------------------------------------------------------------------
(* The claim proofs handed out.                                            *)

\* Only ProveClaim hands out a proof.
LEMMA GivenBy ==
    ASSUME TypeOK, [Next]_vars
    PROVE  \/ given' = given
           \/ \E r \in Requests : /\ pc[r] = "proveClaim"
                                 /\ given' = given \cup {ClaimInput(r)}
<1>1. ASSUME NEW r \in Requests, StepOf(r), ~ProveClaim(r)  PROVE given' = given
  BY <1>1
     DEF StepOf, Receive, ReceiveProof, Step, Query, QueryTree, FindTree, SaveTree, QueryQueue,
         FindRow, SaveRow, Prove, Initialize, FindRows, FindBatchTree, GenerateProof,
         Relay, ReadProof, Execute, SaveTx, SaveBlock, SaveCommit, BridgeBlockHeader,
         GenerateProofEth, UpdateDepositRootOnEth, Delete, DeleteRows, DeleteTree,
         UserProof, InitProof, FindProofTree, FindProofRows, ExecuteTimeout, EthAnswerLost, Fail
<1>2. ASSUME NEW r \in Requests, ProveClaim(r)
      PROVE  /\ pc[r] = "proveClaim"
             /\ given' \in {given, given \cup {ClaimInput(r)}}
  BY <1>2 DEF ProveClaim, At
<1>3. Crash => given' = given
  BY DEF Crash
<1>4. UNCHANGED serverVars => given' = given
  BY DEF serverVars
<1>5. QED  BY <1>1, <1>2, <1>3, <1>4, NextCases DEF vars

\* Every step keeps GivenUnderPrefix.
LEMMA UnderPrefixStep ==
    ASSUME SingleImporter, TreesInv, [Next]_vars
    PROVE  GivenUnderPrefix'
<1>1. /\ ExactInv /\ TypeOK /\ TreesPrefixed /\ GivenUnderPrefix /\ Ordered
      /\ trees \in Seq(Seq(Leaf))
  BY ExactTypes, StoredOrder DEF TreesInv
<1>2. Len(deposits') \in Nat /\ Len(deposits) <= Len(deposits')
  BY <1>1, ChainGrows
<1>3. ASSUME NEW m \in 0 .. Len(deposits)
      PROVE  m \in 0 .. Len(deposits') /\ PrefixRoot(m)' = PrefixRoot(m)
  <2>1. \A i \in Index : i < m => deposits'[i + 1] = deposits[i + 1]
    <3>1. \A i \in Index : i < m => i + 1 \in 1 .. Len(deposits)
      BY <1>1 DEF Index, Ordered
    <3>2. QED  BY <1>1, <3>1, ChainGrows
  <2>2. QED  BY <1>1, <1>2, <2>1 DEF PrefixRoot, Ordered
<1>4. ASSUME NEW g \in given
      PROVE  \E m \in 0 .. Len(deposits') : g.root = PrefixRoot(m)'
  <2>1. PICK m \in 0 .. Len(deposits) : g.root = PrefixRoot(m)
    BY <1>1 DEF GivenUnderPrefix
  <2>2. QED  BY <1>3, <2>1
<1>5. ASSUME NEW r \in Requests, pc[r] = "proveClaim"
      PROVE  \E m \in 0 .. Len(deposits') : ClaimInput(r).root = PrefixRoot(m)'
  <2> DEFINE t == loc[r].tree
             n == Len(loc[r].data)
             new == ClaimTrees(r)[t]
  <2>1. /\ t \in DOMAIN trees /\ new \in Seq(Leaf)
        /\ \A m \in Nat : Prefixed(deposits, trees[t], m)
                        => Prefixed(deposits, new, IF m > n THEN m ELSE n)
    BY <1>5, ClaimedTree
  <2>2. PICK m \in 0 .. Len(rows) : Prefixed(deposits, trees[t], m)
    BY <1>1, <2>1 DEF TreesPrefixed
  <2>3. n \in Nat /\ n <= Len(rows)
    BY <1>1, DataPrefixed
  <2> DEFINE k == IF m > n THEN m ELSE n
  <2>4. m \in Nat /\ k \in 0 .. Len(deposits)
    BY <1>1, <2>3 DEF Ordered
  <2>5. Prefixed(deposits, new, k)
    BY <2>1, <2>2, <2>4
  <2>6. ClaimInput(r).root = TreeOf(new)
    BY DEF ClaimInput
  <2> HIDE DEF new, k
  <2>7. TreeOf(new) = PrefixRoot(k)
    BY <2>1, <2>5, PrefixedRoot
  <2>8. QED  BY <1>3, <2>4, <2>6, <2>7
<1>6. ASSUME NEW g \in given'
      PROVE  \E m \in 0 .. Len(deposits') : g.root = PrefixRoot(m)'
  <2>1. g \in given \/ \E r \in Requests : pc[r] = "proveClaim" /\ g = ClaimInput(r)
    BY <1>1, <1>6, GivenBy
  <2>2. QED  BY <1>4, <1>5, <2>1
<1>7. QED  BY <1>6 DEF GivenUnderPrefix

-----------------------------------------------------------------------------
(* The theorems.                                                           *)

\* The initial states satisfy the invariant.
LEMMA TreesInit == Init => TreesInv
<1> SUFFICES ASSUME Init  PROVE TreesInv
  OBVIOUS
<1>1. ExactInv
  BY ExactInit
<1>2. trees = <<>> /\ given = {} /\ \A r \in Requests : pc[r] = "idle"
  BY DEF Init
<1>3. TreesPrefixed /\ OwnTreeInv /\ UserTreeInv /\ GivenUnderPrefix
  BY <1>2 DEF TreesPrefixed, OwnTreeInv, OwnTree, UserTreeInv, GivenUnderPrefix
<1>4. QED  BY <1>1, <1>3 DEF TreesInv

\* Every step keeps it.
LEMMA TreesStep ==
    ASSUME SingleImporter
    PROVE  TreesInv /\ [Next]_vars => TreesInv'
<1> SUFFICES ASSUME TreesInv, [Next]_vars  PROVE TreesInv'
  OBVIOUS
<1>1. ExactInv'
  BY ExactStep DEF TreesInv
<1>2. TreesPrefixed' /\ OwnTreeInv' /\ UserTreeInv' /\ GivenUnderPrefix'
  BY TreesPrefixedStep, OwnTreeStep, UserTreeStep, UnderPrefixStep
<1>3. QED  BY <1>1, <1>2 DEF TreesInv

\* TreesInv is an invariant while one slot imports.
LEMMA TreesSafe ==
    ASSUME SingleImporter
    PROVE  Spec => []TreesInv
<1>1. TreesInv /\ [Next]_vars => TreesInv'
  BY TreesStep
<1>2. QED  BY <1>1, TreesInit, PTL DEF Spec

\* A proof about the stored tree and rows is the one the contract waits for,
\* once they are those of the chain.
LEMMA CurrentAccepted == TreesInv => FreshProofAccepted
<1> SUFFICES ASSUME TreesInv, NEW r \in Requests, pc[r] = "execute",
                    treeDocs[1].n = nLeafs, Len(rows) = Len(deposits),
                    AllowEmptyBatch \/ nQueueLeafs > 0
             PROVE  Accepts(loc[r].msg)
  BY DEF FreshProofAccepted
<1> DEFINE s == loc[r].msg
<1>1. ExactInv /\ OwnTree(r) /\ Ordered
  BY StoredOrder DEF TreesInv, OwnTreeInv
<1>2. TreeLeafs = nLeafs
  BY <1>1 DEF OwnTree, TreeLeafs
<1>3. Current(deposits, s, nLeafs, Len(deposits))
  BY <1>1, <1>2 DEF OwnTree
<1>4. s.oldRoot = depositRoot
  BY <1>1, <1>3 DEF Current, ExactInv, BridgeInv, CosmosRootIsPrefix, PrefixRoot
<1>5. s.newValue = NextBatch
  <2>1. \A j \in 1 .. Batch : (nLeafs + j <= Len(deposits)) <=> (j <= nQueueLeafs)
    BY <1>1, SizeAssumption DEF Ordered, nQueueLeafs
  <2>2. QED  BY <1>3, <2>1 DEF Current, NextBatch
<1>6. QED  BY <1>3, <1>4, <1>5 DEF Current, Accepts

\* A claim proof handed out is under the root of a prefix of the deposits, while
\* one slot imports: other requests write into the tree it is taken from, but
\* never a deposit out of its place.
THEOREM UnderPrefixCorrect ==
    ASSUME SingleImporter
    PROVE  Spec => []GivenUnderPrefix
<1>1. TreesInv => GivenUnderPrefix
  BY DEF TreesInv
<1>2. QED  BY <1>1, TreesSafe, PTL

\* The proof PUT /update sends is the one the contract waits for, unless the
\* chain moved since the request queried it, whatever GET /proof did to the tree
\* the proof was made from.
THEOREM FreshProofCorrect ==
    ASSUME SingleImporter
    PROVE  Spec => []FreshProofAccepted
<1>1. QED  BY CurrentAccepted, TreesSafe, PTL
=============================================================================
