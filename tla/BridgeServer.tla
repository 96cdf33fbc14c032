----------------------------- MODULE BridgeServer -----------------------------
(***************************************************************************)
(* The relay server: the handlers of GET /query, PUT /update,              *)
(* GET /proof/:key and DELETE /db (src/src/controller/Controller.js) over  *)
(* MongoDB, the two bridge contracts and the files under resources/.       *)
(*                                                                         *)
(* Node runs one stretch of code at a time, from one await to the next, so *)
(* an action is one such stretch together with the answer it was waiting   *)
(* for.  Requests are served concurrently: any number of handlers can be   *)
(* between two awaits.  execSync and the file calls do not yield; busy     *)
(* names the request that holds the event loop for more than one action.   *)
(*                                                                         *)
(* A failed call anywhere answers 500 and leaves what was done so far.  A  *)
(* crash of the process forgets the requests and the trees in memory and   *)
(* keeps the database, the files and the chains.                           *)
(***************************************************************************)
EXTENDS CosmosBridge, EthBridge, SequencesExt

CONSTANTS
    Requests,    \* slots for requests that are served at the same time
    Kinds,       \* which handlers clients call in each slot
    MaxCalls,    \* bound on the calls of PUT /update and GET /proof
    MaxFails,    \* bound on failed calls, lost answers and crashes
    NoProof, NoRequest

ASSUME ServerAssumption == /\ Kinds \in [Requests -> SUBSET {"query", "update", "delete", "proof"}]
                           /\ MaxCalls \in Nat
                           /\ MaxFails \in Nat
                           /\ NoProof \notin BatchStatement
                           /\ NoRequest \notin Requests

VARIABLES
    rows,      \* the collection DepositInfor, sorted by key
    treeDocs,  \* the collection DepositTree in insertion order
    pc,        \* where each request is
    loc,       \* the local variables of each request
    trees,     \* every tree made by initialize(); fmt.js keeps the last one
    busy,      \* the request that blocks the event loop
    files,     \* proof and public.json, tx_data, block, block_header_commit
    calls,     \* calls of PUT /update and GET /proof so far
    given,     \* the claim proofs handed out to users
    fails      \* failures so far

serverVars == <<rows, treeDocs, pc, loc, trees, busy, files, calls, given, fails>>
vars == <<cosmosVars, ethVars, serverVars>>

-----------------------------------------------------------------------------
TreeDoc == [n : Nat, nq : Nat]    \* n_leafs and nqueue_leafs

\* What findOne() gave for the tree document: nothing, a document with the
\* values it had, or one that was removed since.
LoadedDoc == [ref : {"null", "held", "gone"}, n : Nat, nq : Nat]
NullDoc   == [ref |-> "null", n |-> 0, nq |-> 0]

Local == [kind   : {"none", "query", "update", "delete", "proof"},
          chain  : TreeDoc,                  \* resDepositTree
          doc    : LoadedDoc,                \* depositTree
          queue  : Seq(Row),                 \* what is left of resDepositQueue
          found  : {"null", "held", "gone"}, \* depositInfor of its first item
          tree   : Nat,                      \* the tree getTree() gave
          data   : Seq(Row),                 \* DepositInfor.find().sort(key)
          msg    : BatchStatement \cup {NoProof},
          height : Nat,                      \* height of its own transaction
          key    : Nat]                      \* the key GET /proof was asked for

Fresh(k) == [kind |-> k, chain |-> [n |-> 0, nq |-> 0], doc |-> NullDoc,
             queue |-> <<>>, found |-> "null", tree |-> 0, data |-> <<>>,
             msg |-> NoProof, height |-> 0, key |-> 0]

Labels == {"idle",
           "queryTree", "findTree", "saveTree", "queryQueue", "findRow", "saveRow",
           "initialize", "findRows", "findBatchTree", "generateProof",
           "readProof", "execute", "queryTx", "queryBlock", "queryCommit",
           "blockHeader", "proofEth", "rootEth",
           "deleteRows", "deleteTree",
           "initProof", "findProofTree", "findProofRows", "proveClaim"}

Files == [proof : BatchStatement \cup {NoProof},
          tx : Nat, block : Nat, commit : Nat]

\* A proof of the circuit verifyClaimTransaction: the public inputs, and the
\* key it was asked for.
ClaimProof == [asked : Nat, key : Index, payload : Payload, root : Tree]

\* Every variable holds a value of the kind the code gives it.
TypeOK ==
    /\ CosmosTypeOK
    /\ EthTypeOK
    /\ rows \in Seq(Row)
    /\ treeDocs \in Seq(TreeDoc)
    /\ pc \in [Requests -> Labels]
    /\ loc \in [Requests -> Local]
    /\ trees \in Seq(Seq(Leaf))
    /\ busy \in Requests \cup {NoRequest}
    /\ files \in Files
    /\ calls \in 0 .. MaxCalls
    /\ given \in SUBSET ClaimProof
    /\ fails \in 0 .. MaxFails

Init ==
    /\ CosmosInit
    /\ EthInit
    /\ rows = <<>>
    /\ treeDocs = <<>>
    /\ pc = [r \in Requests |-> "idle"]
    /\ loc = [r \in Requests |-> Fresh("none")]
    /\ trees = <<>>
    /\ busy = NoRequest
    /\ files = [proof |-> NoProof, tx |-> 0, block |-> 0, commit |-> 0]
    /\ calls = 0
    /\ given = {}
    /\ fails = 0

-----------------------------------------------------------------------------
(* The control of a request.                                               *)

\* r runs its next stretch of code, the one that starts at label l.
At(r, l) == pc[r] = l /\ busy \in {NoRequest, r}

\* r waits at label l with the local variables v.
Goto(r, l, v) == pc' = [pc EXCEPT ![r] = l] /\ loc' = [loc EXCEPT ![r] = v]

\* The handler answers, with 200 at its end or with 500 from its catch.
Answer(r) == /\ Goto(r, "idle", Fresh("none"))
             /\ busy' = IF busy = r THEN NoRequest ELSE busy

CountCall == calls < MaxCalls /\ calls' = calls + 1

CountFail == fails < MaxFails /\ fails' = fails + 1

Receive(r, k) ==
    /\ At(r, "idle")
    /\ k \in Kinds[r] \ {"proof"}
    /\ IF k = "update" THEN CountCall ELSE UNCHANGED calls
    /\ Goto(r, IF k = "delete" THEN "deleteRows" ELSE "queryTree", Fresh(k))
    /\ UNCHANGED <<cosmosVars, ethVars, rows, treeDocs, trees, busy, files, given, fails>>

-----------------------------------------------------------------------------
(* queryDepositQueue, the whole of GET /query and the first step of        *)
(* PUT /update.                                                            *)

\* Faulty: every deposit made so far is counted as a leaf of the tree.
QueryTree_CountsQueue(r) ==
    /\ At(r, "queryTree")
    /\ Goto(r, "findTree", [loc[r] EXCEPT !.chain = [n  |-> nLeafs + nQueueLeafs,
                                                     nq |-> nQueueLeafs]])
    /\ UNCHANGED <<cosmosVars, ethVars, rows, treeDocs, trees, busy, files, calls, given, fails>>

\* Faulty: n_leafs and nqueue_leafs are mixed up.
QueryTree_Swapped(r) ==
    /\ At(r, "queryTree")
    /\ Goto(r, "findTree", [loc[r] EXCEPT !.chain = [n  |-> nQueueLeafs,
                                                     nq |-> nLeafs]])
    /\ UNCHANGED <<cosmosVars, ethVars, rows, treeDocs, trees, busy, files, calls, given, fails>>

QueryTree(r) ==
    /\ At(r, "queryTree")
    /\ Goto(r, "findTree", [loc[r] EXCEPT !.chain = [n  |-> nLeafs,
                                                     nq |-> nQueueLeafs]])
    /\ UNCHANGED <<cosmosVars, ethVars, rows, treeDocs, trees, busy, files, calls, given, fails>>

\* DepositTree.findOne(): the first document of the collection
FirstTreeDoc == IF treeDocs = <<>> THEN NullDoc
                ELSE [ref |-> "held", n |-> treeDocs[1].n, nq |-> treeDocs[1].nq]

FindTree(r) ==
    /\ At(r, "findTree")
    /\ Goto(r, "saveTree", [loc[r] EXCEPT !.doc = FirstTreeDoc])
    /\ UNCHANGED <<cosmosVars, ethVars, rows, treeDocs, trees, busy, files, calls, given, fails>>

\* save() of a loaded document writes the fields that were given a value
\* other than the one they were loaded with.
Saved(loaded, value, current) == IF value = loaded THEN current ELSE value

SaveTree(r) ==
    /\ At(r, "saveTree")
    /\ LET doc == loc[r].doc
           new == loc[r].chain
       IN  \/ /\ doc.ref = "null"
              /\ treeDocs' = Append(treeDocs, new)
              /\ Goto(r, "queryQueue", Fresh(loc[r].kind))
              /\ UNCHANGED busy
           \/ /\ doc.ref = "held"
              /\ treeDocs' = [treeDocs EXCEPT ![1] =
                                 [n  |-> Saved(doc.n, new.n, treeDocs[1].n),
                                  nq |-> Saved(doc.nq, new.nq, treeDocs[1].nq)]]
              /\ Goto(r, "queryQueue", Fresh(loc[r].kind))
              /\ UNCHANGED busy
           \/ /\ doc.ref = "gone"    \* DocumentNotFoundError
              /\ Answer(r)
              /\ UNCHANGED treeDocs
    /\ UNCHANGED <<cosmosVars, ethVars, rows, trees, files, calls, given, fails>>

\* The head of the loop over resDepositQueue, with q left to do.
NextItem(r, q) ==
    IF q # <<>>
    THEN /\ Goto(r, "findRow", [Fresh(loc[r].kind) EXCEPT !.queue = q])
         /\ UNCHANGED busy
    ELSE IF loc[r].kind = "update"
    THEN Goto(r, "initialize", Fresh("update")) /\ UNCHANGED busy
    ELSE Answer(r)

QueryQueue(r) ==
    /\ At(r, "queryQueue")
    /\ NextItem(r, depositQueue)
    /\ UNCHANGED <<cosmosVars, ethVars, rows, treeDocs, trees, files, calls, given, fails>>

\* Faulty: the lookup misses the row that is there.
FindRow_Misses(r) ==
    /\ At(r, "findRow")
    /\ Goto(r, "saveRow", [loc[r] EXCEPT !.found = "null"])
    /\ UNCHANGED <<cosmosVars, ethVars, rows, treeDocs, trees, busy, files, calls, given, fails>>

\* DepositInfor.findOne({key: key})
FindRow(r) ==
    /\ At(r, "findRow")
    /\ LET key == Head(loc[r].queue).key
           hit == \E i \in DOMAIN rows : rows[i].key = key
       IN  Goto(r, "saveRow", [loc[r] EXCEPT !.found = IF hit THEN "held" ELSE "null"])
    /\ UNCHANGED <<cosmosVars, ethVars, rows, treeDocs, trees, busy, files, calls, given, fails>>

\* Faulty: keys are taken to count from one.
Insert_OneBased(row) ==
    \E p \in 0 .. Len(rows) :
        /\ \A i \in 1 .. p : rows[i].key <= row.key - 1
        /\ \A i \in p + 1 .. Len(rows) : rows[i].key > row.key - 1
        /\ rows' = InsertAt(rows, p + 1, [row EXCEPT !.key = @ - 1])

\* Faulty: the number of rows is taken for the key of the next one.
Insert_CountAsKey(row) ==
    rows' = Append(rows, [key |-> Len(rows), payload |-> row.payload])

\* The collection with one more row, at its place in the order of keys.
Insert(row) ==
    \E p \in 0 .. Len(rows) :
        /\ \A i \in 1 .. p : rows[i].key <= row.key
        /\ \A i \in p + 1 .. Len(rows) : rows[i].key > row.key
        /\ rows' = InsertAt(rows, p + 1, row)

\* A row that was found gets its is_deposit, a field outside the model; a
\* row that was not is inserted, whoever else inserted it meanwhile.
SaveRow(r) ==
    /\ At(r, "saveRow")
    /\ \/ /\ loc[r].found = "null"
          /\ Insert(Head(loc[r].queue))
          /\ NextItem(r, Tail(loc[r].queue))
       \/ /\ loc[r].found = "held"
          /\ NextItem(r, Tail(loc[r].queue))
          /\ UNCHANGED rows
       \/ /\ loc[r].found = "gone"    \* DocumentNotFoundError
          /\ Answer(r)
          /\ UNCHANGED rows
    /\ UNCHANGED <<cosmosVars, ethVars, treeDocs, trees, files, calls, given, fails>>

-----------------------------------------------------------------------------
(* generateProofUpdateRoot.                                                *)

\* initialize() replaces the module's tree, getTree() returns it.
Initialize(r) ==
    /\ At(r, "initialize")
    /\ trees' = Append(trees, <<>>)
    /\ Goto(r, "findRows", [loc[r] EXCEPT !.tree = Len(trees) + 1])
    /\ UNCHANGED <<cosmosVars, ethVars, rows, treeDocs, busy, files, calls, given, fails>>

FindRows(r) ==
    /\ At(r, "findRows")
    /\ Goto(r, "findBatchTree", [loc[r] EXCEPT !.data = rows])
    /\ UNCHANGED <<cosmosVars, ethVars, rows, treeDocs, trees, busy, files, calls, given, fails>>

FindBatchTree(r) ==
    /\ At(r, "findBatchTree")
    /\ \/ /\ treeDocs # <<>>
          /\ Goto(r, "generateProof", [loc[r] EXCEPT !.doc = FirstTreeDoc])
          /\ UNCHANGED busy
       \/ treeDocs = <<>> /\ Answer(r)    \* throw("Invalid tree!")
    /\ UNCHANGED <<cosmosVars, ethVars, rows, treeDocs, trees, files, calls, given, fails>>

\* Faulty: the rows are sorted by descending key.
NewValue_Descending(data, nq) ==
    [i \in 1 .. Len(data) |-> data[Len(data) + 1 - i].payload]
        \o [i \in 1 .. (IF nq < Batch THEN Batch - nq ELSE 0) |-> Zero]

\* Faulty: a short batch is not filled up.
NewValue_Unpadded(data, nq) == [i \in 1 .. Len(data) |-> data[i].payload]

\* newValue: the leaf of every row, then hash([0]) up to a full batch
NewValue(data, nq) ==
    [i \in 1 .. Len(data) |-> data[i].payload]
        \o [i \in 1 .. (IF nq < Batch THEN Batch - nq ELSE 0) |-> Zero]

\* tree.update(i, vals[i]) for every i of vals, on a tree with these leaves
Updated(leaves, vals) ==
    [i \in 1 .. (IF Len(leaves) > Len(vals) THEN Len(leaves) ELSE Len(vals)) |->
        IF i <= Len(vals) THEN vals[i] ELSE leaves[i]]

\* The leaves before the batch: newValue[0 .. n_leafs - 1], one Zero if none
OldLeaves(leaves, value, n) ==
    Updated(leaves, IF n = 0 THEN <<Zero>> ELSE SubSeq(value, 1, n))

\* The input of the circuit: keys n .. n + Batch - 1 and the roots around them
BatchInput(leaves, value, n) ==
    LET old == OldLeaves(leaves, value, n)
    IN  [key      |-> n,
         newValue |-> [j \in 1 .. Batch |-> value[n + j]],
         oldRoot  |-> TreeOf(old),
         newRoot  |-> TreeOf(Updated(old, SubSeq(value, 1, n + Batch)))]

\* getSiblings(n) ... getSiblings(n + Batch - 1), each taken from the tree the
\* module holds when its leaf was just written: r's own tree, or the one of a
\* request that called initialize() later.
BatchSiblings(own, s) ==
    [j \in 1 .. Batch |->
        IF own THEN Siblings(Written(s.oldRoot, s.key, s.newValue, j), s.key + j - 1)
               ELSE Siblings(TreeOf(trees[Len(trees)]), s.key + j - 1)]

\* tree.path(i) throws beyond the leaves written so far.
HasPaths(own, n) == own \/ n + Batch <= Len(trees[Len(trees)])

\* From the last await to the end of execSync(prover) nothing yields.
GenerateProof(r) ==
    /\ At(r, "generateProof")
    /\ LET n      == loc[r].doc.n
           value  == NewValue(loc[r].data, loc[r].doc.nq)
           t      == loc[r].tree
           own    == t = Len(trees)
           input  == BatchInput(trees[t], value, n)
           enough == n + Batch <= Len(value)    \* no newValue[i] is undefined
           proves == /\ enough
                     /\ HasPaths(own, n)
                     /\ WitnessFits(input, BatchSiblings(own, input))
                     /\ input \in BatchStatement
                     /\ Provable(input)
       IN  /\ trees' = [trees EXCEPT ![t] =
                          Updated(OldLeaves(@, value, IF n <= Len(value) THEN n ELSE Len(value)),
                                  SubSeq(value, 1, IF enough THEN n + Batch ELSE Len(value)))]
           /\ \/ /\ proves
                 /\ files' = [files EXCEPT !.proof = input]
                 /\ Goto(r, "readProof", Fresh("update"))
                 /\ UNCHANGED busy
              \/ /\ ~proves
                 /\ Answer(r)
                 /\ UNCHANGED files
    /\ UNCHANGED <<cosmosVars, ethVars, rows, treeDocs, calls, given, fails>>

-----------------------------------------------------------------------------
(* updateDepositRootToCosmosBridge.                                        *)

\* getInputUpdateDepositTree reads the files after three awaits: they hold
\* the proof that was generated last, by whichever request.
ReadProof(r) ==
    /\ At(r, "readProof")
    /\ Goto(r, "execute", [loc[r] EXCEPT !.msg = files.proof])
    /\ UNCHANGED <<cosmosVars, ethVars, rows, treeDocs, trees, busy, files, calls, given, fails>>

\* client.execute: committed at a height of its own, or refused.
Execute(r) ==
    /\ At(r, "execute")
    /\ \/ /\ UpdateDepositTree(loc[r].msg)
          /\ Goto(r, "queryTx", [Fresh("update") EXCEPT !.height = Len(txs) + 1])
          /\ UNCHANGED busy
       \/ /\ ~Accepts(loc[r].msg)
          /\ Answer(r)
          /\ UNCHANGED <<deposits, nLeafs, depositRoot, txs>>
    /\ UNCHANGED <<mempool, ethVars, rows, treeDocs, trees, files, calls, given, fails>>

\* client.execute gives up on a transaction that may be committed later.
ExecuteTimeout(r) ==
    /\ At(r, "execute")
    /\ CountFail
    /\ mempool' = mempool \cup {loc[r].msg}
    /\ Answer(r)
    /\ UNCHANGED <<deposits, nLeafs, depositRoot, txs, ethVars, rows, treeDocs,
                   trees, files, calls, given>>

\* The answer of QueryTxByHash is saved as tx_data.json.
SaveTx(r) ==
    /\ At(r, "queryTx")
    /\ files' = [files EXCEPT !.tx = loc[r].height]
    /\ Goto(r, "queryBlock", loc[r])
    /\ UNCHANGED <<cosmosVars, ethVars, rows, treeDocs, trees, busy, calls, given, fails>>

SaveBlock(r) ==
    /\ At(r, "queryBlock")
    /\ files' = [files EXCEPT !.block = loc[r].height]
    /\ Goto(r, "queryCommit", loc[r])
    /\ UNCHANGED <<cosmosVars, ethVars, rows, treeDocs, trees, busy, calls, given, fails>>

\* The validators and the commit are saved; no await yields from here on.  The
\* validator set is taken to be the same at every height, so that it does not
\* matter whose validators.json is on disk.
SaveCommit(r) ==
    /\ At(r, "queryCommit")
    /\ files' = [files EXCEPT !.commit = loc[r].height]
    /\ busy' = r
    /\ Goto(r, "blockHeader", loc[r])
    /\ UNCHANGED <<cosmosVars, ethVars, rows, treeDocs, trees, calls, given, fails>>

-----------------------------------------------------------------------------
(* bridgeBlockHeader, generateProofEth, updateDepositRootOnEth.            *)

\* Faulty: the header is the one in block.json, not the one with the commit.
BridgeBlockHeader_FromBlock(r) ==
    /\ At(r, "blockHeader")
    /\ UpdateBlockHeader(files.block)
    /\ Goto(r, "proofEth", loc[r])
    /\ UNCHANGED <<cosmosVars, rows, treeDocs, trees, busy, files, calls, given, fails>>

\* The commit saved last is r's own, at a height no other request relays, so
\* the contract never refuses it; a refusal would show as a deadlock.
BridgeBlockHeader(r) ==
    /\ At(r, "blockHeader")
    /\ UpdateBlockHeader(files.commit)
    /\ Goto(r, "proofEth", loc[r])
    /\ UNCHANGED <<cosmosVars, rows, treeDocs, trees, busy, files, calls, given, fails>>

\* go/verifyTx looks tx_data up among the transactions of block.json and
\* panics when it is not there.
GenerateProofEth(r) ==
    /\ At(r, "proofEth")
    /\ \/ /\ files.tx = files.block
          /\ Goto(r, "rootEth", loc[r])
          /\ UNCHANGED busy
       \/ files.tx # files.block /\ Answer(r)
    /\ UNCHANGED <<cosmosVars, ethVars, rows, treeDocs, trees, files, calls, given, fails>>

\* Faulty: the root relayed is the one in resources/proof, not the committed one.
UpdateDepositRootOnEth_FromProof(r) ==
    /\ At(r, "rootEth")
    /\ \/ UpdateRootDepositTree(files.tx, files.proof.newRoot)
       \/ files.tx # currentHeader /\ UNCHANGED ethVars
    /\ Answer(r)
    /\ UNCHANGED <<cosmosVars, rows, treeDocs, trees, files, calls, given, fails>>

\* The proof just made is about the root in the transaction of tx_data.json.
UpdateDepositRootOnEth(r) ==
    /\ At(r, "rootEth")
    /\ \/ UpdateRootDepositTree(files.tx, txs[files.tx])
       \/ files.tx # currentHeader /\ UNCHANGED ethVars
    /\ Answer(r)
    /\ UNCHANGED <<cosmosVars, rows, treeDocs, trees, files, calls, given, fails>>

\* A transaction on Ethereum is mined and res.wait() fails nevertheless.
EthAnswerLost(r) ==
    /\ CountFail
    /\ \/ At(r, "blockHeader") /\ UpdateBlockHeader(files.commit)
       \/ At(r, "rootEth") /\ UpdateRootDepositTree(files.tx, txs[files.tx])
    /\ Answer(r)
    /\ UNCHANGED <<cosmosVars, rows, treeDocs, trees, files, calls, given>>

-----------------------------------------------------------------------------
(* generateUserProof.                                                      *)

\* GET /proof/:key, with the key of a deposit or of none
ReceiveProof(r, i) ==
    /\ At(r, "idle")
    /\ "proof" \in Kinds[r]
    /\ CountCall
    /\ Goto(r, "initProof", [Fresh("proof") EXCEPT !.key = i])
    /\ UNCHANGED <<cosmosVars, ethVars, rows, treeDocs, trees, busy, files, given, fails>>

InitProof(r) ==
    /\ At(r, "initProof")
    /\ trees' = Append(trees, <<>>)
    /\ Goto(r, "findProofTree", loc[r])
    /\ UNCHANGED <<cosmosVars, ethVars, rows, treeDocs, busy, files, calls, given, fails>>

\* No tree is an error, a key that is not in it yet gets an empty answer.
FindProofTree(r) ==
    /\ At(r, "findProofTree")
    /\ \/ /\ treeDocs # <<>>
          /\ treeDocs[1].n > loc[r].key
          /\ Goto(r, "findProofRows", [loc[r] EXCEPT !.doc = FirstTreeDoc])
          /\ UNCHANGED busy
       \/ /\ treeDocs # <<>> => treeDocs[1].n <= loc[r].key
          /\ Answer(r)
    /\ UNCHANGED <<cosmosVars, ethVars, rows, treeDocs, trees, files, calls, given, fails>>

\* The rows with a key below n_leafs, and the tree the module holds now
FindProofRows(r) ==
    /\ At(r, "findProofRows")
    /\ \E m \in 0 .. Len(rows) :
          /\ \A i \in 1 .. m : rows[i].key < loc[r].doc.n
          /\ \A i \in m + 1 .. Len(rows) : rows[i].key >= loc[r].doc.n
          /\ \/ /\ m >= loc[r].key
                /\ Goto(r, "proveClaim", [loc[r] EXCEPT !.data = SubSeq(rows, 1, m),
                                                        !.tree = Len(trees)])
                /\ UNCHANGED busy
             \/ m < loc[r].key /\ Answer(r)    \* throw("Invalid key")
    /\ UNCHANGED <<cosmosVars, ethVars, rows, treeDocs, trees, files, calls, given, fails>>

\* Faulty: the leaves are inserted after those the tree has.
ClaimTrees_Inserted(r) ==
    [trees EXCEPT ![loc[r].tree] =
        @ \o [i \in 1 .. Len(loc[r].data) |-> loc[r].data[i].payload]]

\* The trees after the leaves of all rows were written to the tree of r
ClaimTrees(r) ==
    [trees EXCEPT ![loc[r].tree] =
        Updated(@, [i \in 1 .. Len(loc[r].data) |-> loc[r].data[i].payload])]

\* Faulty: the position in the rows is taken for the key of the row.
ClaimInput_PositionAsKey(r) ==
    [asked   |-> loc[r].key,
     key     |-> loc[r].key,
     payload |-> loc[r].data[loc[r].key + 1].payload,
     root    |-> TreeOf(ClaimTrees(r)[loc[r].tree])]

\* The row at the position of the key, and the root of the tree of r
ClaimInput(r) ==
    [asked   |-> loc[r].key,
     key     |-> loc[r].data[loc[r].key + 1].key,
     payload |-> loc[r].data[loc[r].key + 1].payload,
     root    |-> TreeOf(ClaimTrees(r)[loc[r].tree])]

\* There is such a row and a path to its position in the tree the module holds,
\* and the path leads from the row's leaf and key to the root.
ClaimProves(r) ==
    LET input == ClaimInput(r)
        last  == Last(ClaimTrees(r))
    IN  /\ loc[r].key < Len(loc[r].data)
        /\ loc[r].key < Len(last)
        /\ input \in ClaimProof
        /\ input.root[input.key] = input.payload
        /\ SamePath(TreeOf(last), loc[r].key, input.root, input.key)

\* From the last findOne to the answer nothing yields.
ProveClaim(r) ==
    /\ At(r, "proveClaim")
    /\ \/ treeDocs = <<>> /\ UNCHANGED <<trees, given>>    \* throw("Invalid tree!")
       \/ /\ treeDocs # <<>>
          /\ trees' = ClaimTrees(r)
          /\ given' = IF ClaimProves(r) THEN given \cup {ClaimInput(r)} ELSE given
    /\ Answer(r)
    /\ UNCHANGED <<cosmosVars, ethVars, rows, treeDocs, files, calls, fails>>

-----------------------------------------------------------------------------
(* deleteDb.                                                               *)

\* A row some handler has loaded and not saved yet is gone for it.
DeleteRows(r) ==
    /\ At(r, "deleteRows")
    /\ rows' = <<>>
    /\ pc' = [pc EXCEPT ![r] = "deleteTree"]
    /\ loc' = [q \in Requests |->
                 IF loc[q].found = "held" THEN [loc[q] EXCEPT !.found = "gone"] ELSE loc[q]]
    /\ UNCHANGED <<cosmosVars, ethVars, treeDocs, trees, busy, files, calls, given, fails>>

DeleteTree(r) ==
    /\ At(r, "deleteTree")
    /\ treeDocs' = <<>>
    /\ pc' = [pc EXCEPT ![r] = "idle"]
    /\ loc' = [q \in Requests |->
                 IF q = r THEN Fresh("none")
                 ELSE IF pc[q] = "saveTree" /\ loc[q].doc.ref = "held"
                 THEN [loc[q] EXCEPT !.doc.ref = "gone"]
                 ELSE loc[q]]
    /\ UNCHANGED <<cosmosVars, ethVars, rows, trees, busy, files, calls, given, fails>>

-----------------------------------------------------------------------------
(* Failures, the environment and the specification.                        *)

\* A call of r fails without effect: database, node, file or child process.
Fail(r) ==
    /\ pc[r] # "idle"
    /\ busy \in {NoRequest, r}
    /\ CountFail
    /\ Answer(r)
    /\ UNCHANGED <<cosmosVars, ethVars, rows, treeDocs, trees, files, calls, given>>

\* The process dies and is started again.
Crash ==
    /\ CountFail
    /\ \E r \in Requests : pc[r] # "idle"
    /\ pc' = [r \in Requests |-> "idle"]
    /\ loc' = [r \in Requests |-> Fresh("none")]
    /\ trees' = <<>>
    /\ busy' = NoRequest
    /\ UNCHANGED <<cosmosVars, ethVars, rows, treeDocs, files, calls, given>>

Environment ==
    \/ \E p \in Payload : Deposit(p) /\ UNCHANGED <<ethVars, serverVars>>
    \/ \E s \in mempool : LateCommit(s) /\ UNCHANGED <<ethVars, serverVars>>
    \/ \E k \in Index, p \in Payload :
          ClaimTransaction(k, p) /\ UNCHANGED <<cosmosVars, serverVars>>

Query(r) == QueryTree(r) \/ FindTree(r) \/ SaveTree(r) \/ QueryQueue(r)
            \/ FindRow(r) \/ SaveRow(r)

Prove(r) == Initialize(r) \/ FindRows(r) \/ FindBatchTree(r) \/ GenerateProof(r)

Relay(r) == ReadProof(r) \/ Execute(r) \/ SaveTx(r) \/ SaveBlock(r) \/ SaveCommit(r)
            \/ BridgeBlockHeader(r) \/ GenerateProofEth(r) \/ UpdateDepositRootOnEth(r)

Delete(r) == DeleteRows(r) \/ DeleteTree(r)

UserProof(r) == InitProof(r) \/ FindProofTree(r) \/ FindProofRows(r) \/ ProveClaim(r)

Step(r) == Query(r) \/ Prove(r) \/ Relay(r) \/ Delete(r) \/ UserProof(r)

\* The server waits for clients; with the bounds used up it does so for ever.
Wait == (\A r \in Requests : pc[r] = "idle") /\ UNCHANGED vars

Next ==
    \/ \E r \in Requests : \/ \E k \in Kinds[r] : Receive(r, k)
                           \/ \E i \in 0 .. MaxDeposits : ReceiveProof(r, i)
                           \/ Step(r)
                           \/ ExecuteTimeout(r) \/ EthAnswerLost(r) \/ Fail(r)
    \/ Crash
    \/ Environment
    \/ Wait

Spec == Init /\ [][Next]_vars

-----------------------------------------------------------------------------
(* The bridge with an operator who repeats PUT /update while it is needed. *)

\* Deposit k is a leaf of the root relayed last.
Bridged(k) ==
    /\ k < Len(deposits)
    /\ depositRoots # <<>>
    /\ Last(depositRoots)[k] = deposits[k + 1]

Unbridged == \E k \in 0 .. MaxDeposits - 1 : k < Len(deposits) /\ ~Bridged(k)

\* PUT /update comes only from the operator; server.js never starts its cron
\* job, so that the call comes again and again is an assumption.
Operate(r) == Unbridged /\ Receive(r, "update")

OperatorNext ==
    \/ \E r \in Requests : \/ Operate(r)
                           \/ Step(r)
                           \/ ExecuteTimeout(r) \/ EthAnswerLost(r) \/ Fail(r)
    \/ Crash
    \/ Environment
    \/ Wait

\* Node resumes every handler whose call was answered, and every call is
\* answered, with a result or an error.
Fairness == \A r \in Requests : WF_vars(Step(r)) /\ WF_vars(Operate(r))

FairSpec == Init /\ [][OperatorNext]_vars /\ Fairness

-----------------------------------------------------------------------------
(* Safety that no interleaving, failure, crash or DELETE /db may break.    *)

\* The root of the deposit tree after m deposits
PrefixRoot(m) == [i \in Index |-> IF i < m THEN deposits[i + 1] ELSE Zero]

\* Every root relayed to Ethereum is a root the Cosmos tree has had, whatever
\* files of whichever requests it was proved from (UpdateDepositRoots.js).
EthRootsAreCosmosRoots ==
    \A i \in DOMAIN depositRoots : \E m \in 0 .. nLeafs : depositRoots[i] = PrefixRoot(m)

\* What is paid out on Ethereum was deposited on Cosmos under that key, and
\* never another amount or receiver for the same key (README step 9).
ClaimsBacked ==
    \A c \in sentProof : c[1] < nLeafs /\ deposits[c[1] + 1] = c[2]

\* A stored deposit is the deposit the chain has under its key, however the
\* two saves of QueryDepositQueue.js interleave with other handlers.
RowsMatchChain ==
    \A i \in DOMAIN rows : /\ rows[i].key < Len(deposits)
                           /\ rows[i].payload = deposits[rows[i].key + 1]

\* The stored n_leafs, from which /infor says CAN_CLAIM, is never ahead of the
\* tree on Cosmos, also when a stale document is written back.
TreeDocNeverAhead ==
    \A i \in DOMAIN treeDocs : treeDocs[i].n <= nLeafs

\* A deposit root that PUT /update puts on Ethereum is the root of the
\* transaction this very request sent to Cosmos, though tx_data.json and
\* block.json are shared with every other request between two awaits.
RelaysItsOwnRoot ==
    [][\A r \in Requests :
          pc[r] = "rootEth" /\ depositRoots' # depositRoots
             => Last(depositRoots') = txs[loc[r].height]]_vars

\* A claim proof GET /proof handed out proves a deposit of Cosmos under that
\* deposit's key, whatever rows are doubled and whichever requests replace or
\* fill the tree of fmt.js meanwhile (GenerateUserProof.js).
GivenBacked ==
    \A g \in given : g.key < Len(deposits) /\ deposits[g.key + 1] = g.payload

-----------------------------------------------------------------------------
(* What keeps these invariant from step to step.                           *)

\* A request between its transaction and its answer has a height of its own,
\* the files hold heights of the chain, and while the event loop is blocked
\* the commit, and then the header on Ethereum, are those of this request.
HeightsInv ==
    /\ \A h \in {files.tx, files.block, files.commit} : h <= Len(txs)
    /\ headers \subseteq 1 .. Len(txs)
    /\ \A r \in Requests :
        /\ pc[r] \in {"queryTx", "queryBlock", "queryCommit",
                     "blockHeader", "proofEth", "rootEth"} => loc[r].height \in 1 .. Len(txs)
        /\ pc[r] \in {"blockHeader", "proofEth", "rootEth"} =>
              busy = r /\ files.commit = loc[r].height
        /\ pc[r] \in {"proofEth", "rootEth"} => currentHeader = loc[r].height

\* A handler in the loop has an item left, and it finds a proof where its own
\* prover left one.
ControlInv ==
    \A r \in Requests :
        /\ pc[r] \in {"findRow", "saveRow"} => loc[r].queue # <<>>
        /\ pc[r] = "readProof" => files.proof \in BatchStatement
        /\ pc[r] = "execute" => loc[r].msg \in BatchStatement

\* The contract takes no root but that of the next batch: the root on Cosmos is
\* that of the first n_leafs deposits.  It follows from what is assumed of the
\* contract, whatever proofs the server sends.
CosmosRootIsPrefix == depositRoot = PrefixRoot(nLeafs)

\* Every committed update set a root the tree had then.
TxRootsInv == \A i \in DOMAIN txs : \E m \in 0 .. nLeafs : txs[i] = PrefixRoot(m)

\* What a handler holds of the queue, the tree and the rows is true of the chain.
AnswersInv ==
    \A r \in Requests :
        /\ loc[r].chain.n <= nLeafs
        /\ \A i \in DOMAIN loc[r].queue :
              /\ loc[r].queue[i].key < Len(deposits)
              /\ loc[r].queue[i].payload = deposits[loc[r].queue[i].key + 1]
        /\ \A i \in DOMAIN loc[r].data :
              /\ loc[r].data[i].key < Len(deposits)
              /\ loc[r].data[i].payload = deposits[loc[r].data[i].key + 1]

-----------------------------------------------------------------------------
(* What holds in addition while one request at a time imports deposits and *)
(* nobody calls DELETE /db.                                                *)

\* The stored deposits are the keys 0, 1, 2, ... without gap or double, so a
\* row's position in find().sort(key) is its key, which the proofs rely on.
RowsExact == \A i \in DOMAIN rows : rows[i].key = i - 1

\* The proof about to be sent is one the contract accepts, unless a deposit or
\* a late transaction changed the chain since it was queried.
FreshProofAccepted ==
    \A r \in Requests :
        /\ pc[r] = "execute"
        /\ treeDocs[1].n = nLeafs
        /\ Len(rows) = Len(deposits)
        /\ AllowEmptyBatch \/ nQueueLeafs > 0
        => Accepts(loc[r].msg)

\* GET /proof/:key answers with a proof for that key, "Server bases on key of
\* each DepositTree tx to gen proof" (README.md step 8).
GivenForAskedKey == \A g \in given : g.key = g.asked

\* A proof handed out is under the root of a prefix of the deposits, so that it
\* can be redeemed once Ethereum knows that root.
GivenUnderPrefix ==
    \A g \in given : \E m \in 0 .. Len(deposits) : g.root = PrefixRoot(m)

\* The stored tree never goes back to fewer leaves: a deposit shown as
\* claimable is never shown as queued again.
TreeDocMonotone ==
    [][treeDocs # <<>> => treeDocs' # <<>> /\ treeDocs'[1].n >= treeDocs[1].n]_vars

\* Every deposit is covered by a root on Ethereum in the end, through rejected
\* batches, failed calls and crashes, when the operator keeps calling and one
\* request runs at a time (FairSpec).
EventuallyBridged ==
    \A k \in 0 .. MaxDeposits - 1 : k < Len(deposits) ~> Bridged(k)

-----------------------------------------------------------------------------
(* What the documentation says and the code does not do.                   *)

\* "When new root is updated, server update status of txs were bridged"
\* (README.md step 8): when no request runs, the stored n_leafs, from which the
\* status is computed, covers the root relayed last.
StatusFollowsRoot ==
    (\A r \in Requests : pc[r] = "idle") /\ depositRoots # <<>>
        => /\ treeDocs # <<>>
           /\ \A i \in treeDocs[1].n .. Capacity - 1 : Last(depositRoots)[i] = Zero
=============================================================================
