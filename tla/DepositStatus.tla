---------------------------- MODULE DepositStatus ----------------------------
(***************************************************************************)
(* GET /infor beside the relay server: what a user is told about their     *)
(* deposits (queryDepositInforByUserAddress, src/src/controller/           *)
(* Controller.js).  The handler reads the rows, then the tree document,    *)
(* then asks the bridge on Ethereum about one covered row after the other, *)
(* so that one answer is put together from several moments.                *)
(***************************************************************************)
EXTENDS BridgeServer

VARIABLES
    infor,   \* the request in progress: the call it waits for, the payloads it
             \* asks about, the rows it has read and the places of those it still
             \* has to answer for, the answer so far
    shown,   \* the statuses in the answers so far, with what they are about
    seen     \* the status each key had in the last answer about it

statusVars == <<infor, shown, seen>>

Rank == [NEVER_SHOWN |-> 0, IN_QUEUE |-> 1, CAN_CLAIM |-> 2, CLAIMED |-> 3]

NoInfor == [at |-> "idle", who |-> {}, data |-> <<>>, todo |-> {}, ans |-> {}]

StatusInit ==
    /\ Init
    /\ infor = NoInfor
    /\ shown = {}
    /\ seen = [k \in Index |-> "NEVER_SHOWN"]

-----------------------------------------------------------------------------
\* The next stretch of the handler, when nothing blocks the event loop
InforAt(l) == infor.at = l /\ busy = NoRequest /\ UNCHANGED vars

\* The handler answers 200 with the statuses in ans.
Tell(ans) ==
    /\ infor' = NoInfor
    /\ shown' = shown \cup ans
    /\ seen' = [k \in Index |-> IF \E a \in ans : a.key = k
                                THEN (CHOOSE a \in ans : a.key = k).status
                                ELSE seen[k]]

\* The deposits of a sender, a receiver or both: who stands for the payloads
\* those have.
ReceiveInfor(who) ==
    /\ InforAt("idle")
    /\ infor' = [NoInfor EXCEPT !.at = "findRows", !.who = who]
    /\ UNCHANGED <<shown, seen>>

\* DepositInfor.find(...)
FindInfor ==
    /\ InforAt("findRows")
    /\ infor' = [infor EXCEPT !.at = "findTree", !.data = rows,
                              !.todo = {i \in DOMAIN rows : rows[i].payload \in infor.who}]
    /\ UNCHANGED <<shown, seen>>

\* What is said of a row
Status(row, status) == [key |-> row.key, payload |-> row.payload, status |-> status]

\* The places of the rows whose key is not below n_leafs of the stored tree
Queued == {i \in infor.todo : infor.data[i].key >= treeDocs[1].n}

\* DepositTree.findOne().  Rows in the queue need no further call; rows
\* without a tree document are an error, no rows an empty answer.
FindInforTree ==
    /\ InforAt("findTree")
    /\ \/ /\ infor.todo = {}
          /\ Tell({})
       \/ /\ infor.todo # {} /\ treeDocs = <<>>
          /\ infor' = NoInfor
          /\ UNCHANGED <<shown, seen>>
       \/ /\ infor.todo # {} /\ treeDocs # <<>>
          /\ LET ans == {Status(infor.data[i], "IN_QUEUE") : i \in Queued}
             IN  IF infor.todo = Queued
                 THEN Tell(ans)
                 ELSE /\ infor' = [infor EXCEPT !.at = "isSent", !.todo = @ \ Queued,
                                                !.ans = ans]
                      /\ UNCHANGED <<shown, seen>>

\* Faulty: the key is not part of what the contract is asked about.
IsSentProof_IgnoresKey(row) == \E c \in sentProof : c[2] = row.payload

\* isSentProof: has Ethereum paid this payload under this key?
IsSentProof(row) == <<row.key, row.payload>> \in sentProof

\* The next covered row; the last one completes the answer.
AskSent ==
    /\ InforAt("isSent")
    /\ \E i \in infor.todo :
          /\ \A j \in infor.todo : i <= j
          /\ LET row == infor.data[i]
                 ans == infor.ans \cup
                          {Status(row, IF IsSentProof(row) THEN "CLAIMED" ELSE "CAN_CLAIM")}
             IN  IF infor.todo = {i}
                 THEN Tell(ans)
                 ELSE /\ infor' = [infor EXCEPT !.todo = @ \ {i}, !.ans = ans]
                      /\ UNCHANGED <<shown, seen>>

\* A call of the handler fails: 500, and nothing was told.
InforFails ==
    /\ infor.at # "idle"
    /\ InforAt(infor.at)
    /\ infor' = NoInfor
    /\ UNCHANGED <<shown, seen>>

Infor == \/ \E who \in SUBSET Payload : ReceiveInfor(who)
         \/ FindInfor \/ FindInforTree \/ AskSent \/ InforFails

\* A crash of the process ends the request, too.
Server == \/ Next /\ ~Crash /\ UNCHANGED statusVars
          \/ Crash /\ infor' = NoInfor /\ UNCHANGED <<shown, seen>>

StatusNext == Server \/ Infor

StatusSpec == StatusInit /\ [][StatusNext]_<<vars, statusVars>>

-----------------------------------------------------------------------------
\* What a user was told is so: CLAIMED was paid on Ethereum under that key,
\* and CAN_CLAIM is a leaf of the tree on Cosmos; both are about a deposit of
\* the chain, although rows, tree document and contract were read at different
\* moments (Controller.js 65-118).
ToldIsTrue ==
    \A s \in shown :
        /\ s.key < Len(deposits) /\ deposits[s.key + 1] = s.payload
        /\ s.status = "CLAIMED" => <<s.key, s.payload>> \in sentProof
        /\ s.status = "CAN_CLAIM" => s.key < nLeafs

\* A user who asks again never sees a deposit fall back: not from CLAIMED to
\* CAN_CLAIM, and not to IN_QUEUE, while one request at a time imports.
StatusNeverGoesBack ==
    [][\A k \in Index : Rank[seen'[k]] >= Rank[seen[k]]]_<<vars, statusVars>>
=============================================================================
