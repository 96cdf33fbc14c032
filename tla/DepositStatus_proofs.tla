------------------------ MODULE DepositStatus_proofs ------------------------
(***************************************************************************)
(* What GET /infor tells is true, for every value of the constants: any    *)
(* number of deposits, requests beside it and failures.                    *)
(***************************************************************************)
EXTENDS DepositStatus, OneImporter_proofs

Statement == [key : Nat, payload : Payload, status : {"IN_QUEUE", "CAN_CLAIM", "CLAIMED"}]

\* What ToldIsTrue says of one status
IsTrue(s) ==
    /\ s.key < Len(deposits) /\ deposits[s.key + 1] = s.payload
    /\ s.status = "CLAIMED" => <<s.key, s.payload>> \in sentProof
    /\ s.status = "CAN_CLAIM" => s.key < nLeafs

\* What the request holds was true when it was read and is so ever after: the
\* rows are deposits of the chain, those it asks Ethereum about are covered, and
\* the answer put together so far is true.
InforInv ==
    /\ infor \in [at : {"idle", "findRows", "findTree", "isSent"}, who : SUBSET Payload,
                  data : Seq(Row), todo : SUBSET Nat, ans : SUBSET Statement]
    /\ infor.todo \subseteq DOMAIN infor.data
    /\ \A i \in DOMAIN infor.data : DepositOf(deposits, infor.data[i])
    /\ infor.at = "isSent" => \A i \in infor.todo : infor.data[i].key < nLeafs
    /\ \A s \in infor.ans : IsTrue(s)

ShownInv == \A s \in shown : s \in Statement /\ IsTrue(s)

StatusInv == BridgeInv /\ InforInv /\ ShownInv

-----------------------------------------------------------------------------
(* Steps of the server and of the chains.                                  *)

\* A claim that was paid stays paid.
LEMMA SentStays ==
    ASSUME [Next]_vars
    PROVE  sentProof \subseteq sentProof'
  BY EthStep DEF ethVars, HeaderStep, RootStep, UpdateBlockHeader, UpdateRootDepositTree,
                 ClaimTransaction

\* What was told once is true for ever.
LEMMA TrueStays ==
    ASSUME TypeOK, [Next]_vars, NEW s \in Statement, IsTrue(s)
    PROVE  IsTrue(s)'
<1>1. s.key \in Nat /\ s.key < Len(deposits)
  BY DEF Statement, IsTrue
<1>2. s.key + 1 \in 1 .. Len(deposits) /\ s.key < Len(deposits')
  BY <1>1, ChainGrows
<1>3. deposits'[s.key + 1] = s.payload
  BY <1>2, ChainGrows DEF IsTrue
<1>4. s.key < nLeafs => s.key < nLeafs'
  BY <1>1, ChainGrows
<1>5. QED  BY <1>2, <1>3, <1>4, SentStays DEF IsTrue

\* What the request holds stays true while the server goes on.
LEMMA HeldStays ==
    ASSUME TypeOK, InforInv, [Next]_vars, UNCHANGED infor
    PROVE  InforInv'
<1>1. \A i \in DOMAIN infor.data : infor.data[i] \in Row
  BY DEF InforInv
<1>2. \A i \in DOMAIN infor.data : DepositOf(deposits', infor.data[i])
  BY <1>1, DepositStays DEF InforInv
<1>3. infor.at = "isSent" => \A i \in infor.todo : infor.data[i].key < nLeafs'
  <2> SUFFICES ASSUME infor.at = "isSent", NEW i \in infor.todo
               PROVE  infor.data[i].key < nLeafs'
    OBVIOUS
  <2>1. infor.data[i].key \in Nat /\ infor.data[i].key < nLeafs
    BY <1>1 DEF InforInv, Row
  <2>2. QED  BY <2>1, ChainGrows
<1>4. \A s \in infor.ans : IsTrue(s)'
  BY TrueStays DEF InforInv
<1>5. QED  BY <1>2, <1>3, <1>4 DEF InforInv, IsTrue

\* So does what was shown.
LEMMA ShownStays ==
    ASSUME TypeOK, ShownInv, [Next]_vars, UNCHANGED shown
    PROVE  ShownInv'
<1>1. \A s \in shown : s \in Statement /\ IsTrue(s)'
  BY TrueStays DEF ShownInv
<1>2. QED  BY <1>1 DEF ShownInv, IsTrue

\* An idle request holds nothing.
LEMMA NoInforInv ==
    ASSUME infor' = NoInfor
    PROVE  InforInv'
<1>1. /\ NoInfor \in [at : {"idle", "findRows", "findTree", "isSent"}, who : SUBSET Payload,
                      data : Seq(Row), todo : SUBSET Nat, ans : SUBSET Statement]
      /\ NoInfor.todo = {} /\ NoInfor.data = <<>> /\ NoInfor.ans = {}
      /\ NoInfor.at = "idle"
  BY DEF NoInfor
<1>2. DOMAIN <<>> = {}
  OBVIOUS
<1>3. QED  BY <1>1, <1>2 DEF InforInv

-----------------------------------------------------------------------------
(* Steps of the request.                                                   *)

\* A true answer leaves nothing untrue shown.
LEMMA TellStep ==
    ASSUME ShownInv, NEW ans \in SUBSET Statement, \A s \in ans : IsTrue(s), Tell(ans),
           UNCHANGED <<deposits, nLeafs, sentProof>>
    PROVE  InforInv' /\ ShownInv'
<1>1. InforInv'
  BY NoInforInv DEF Tell
<1>2. shown' = shown \cup ans
  BY DEF Tell
<1>3. \A s \in shown' : s \in Statement /\ IsTrue(s)
  BY <1>2 DEF ShownInv
<1>4. ShownInv'
  BY <1>3 DEF ShownInv, IsTrue
<1>5. QED  BY <1>1, <1>4

\* What may be told of a row
LEMMA ToldOfRow ==
    ASSUME NEW row \in Row, DepositOf(deposits, row),
           NEW status \in {"IN_QUEUE", "CAN_CLAIM", "CLAIMED"},
           status = "CLAIMED" => <<row.key, row.payload>> \in sentProof,
           status = "CAN_CLAIM" => row.key < nLeafs
    PROVE  Status(row, status) \in Statement /\ IsTrue(Status(row, status))
<1> DEFINE s == Status(row, status)
<1>1. s.key = row.key /\ s.payload = row.payload /\ s.status = status
  BY DEF Status
<1>2. s \in Statement
  BY DEF Status, Statement, Row
<1> HIDE DEF s
<1>3. IsTrue(s)
  BY <1>1 DEF IsTrue, DepositOf
<1>4. QED  BY <1>2, <1>3 DEF s

\* Every stretch of the handler keeps what it holds and what it shows true.
LEMMA InforStep ==
    ASSUME StatusInv, Infor
    PROVE  InforInv' /\ ShownInv'
<1> USE DEF StatusInv
<1>1. UNCHANGED vars
  BY DEF Infor, InforAt, ReceiveInfor, FindInfor, FindInforTree, AskSent, InforFails
<1>2. UNCHANGED <<deposits, nLeafs, sentProof, rows, treeDocs>>
  BY <1>1 DEF vars, cosmosVars, ethVars, serverVars
<1>3. UNCHANGED shown => ShownInv'
  BY <1>2 DEF ShownInv, IsTrue
<1>4. /\ rows \in Seq(Row) /\ treeDocs \in Seq(TreeDoc) /\ nLeafs \in Nat
      /\ \A i \in DOMAIN infor.data : infor.data[i] \in Row
  BY DEF BridgeInv, TypeInv, TypeOK, CosmosTypeOK, InforInv
<1>5. ASSUME NEW who \in SUBSET Payload, ReceiveInfor(who)
      PROVE  InforInv' /\ ShownInv'
  <2>1. infor' = [at |-> "findRows", who |-> who, data |-> <<>>, todo |-> {}, ans |-> {}]
    BY <1>5 DEF ReceiveInfor, NoInfor
  <2>2. InforInv'
    BY <2>1 DEF InforInv
  <2>3. QED  BY <1>3, <1>5, <2>2 DEF ReceiveInfor
<1>6. CASE FindInfor
  <2> DEFINE todo == {i \in DOMAIN rows : rows[i].payload \in infor.who}
  <2>1. infor' = [infor EXCEPT !.at = "findTree", !.data = rows, !.todo = todo]
    BY <1>6 DEF FindInfor
  <2>2. todo \in SUBSET Nat /\ todo \subseteq DOMAIN rows
    BY <1>4
  <2> HIDE DEF todo
  <2>3. infor' \in [at : {"idle", "findRows", "findTree", "isSent"}, who : SUBSET Payload,
                    data : Seq(Row), todo : SUBSET Nat, ans : SUBSET Statement]
    BY <1>4, <2>1, <2>2 DEF InforInv
  <2>4. /\ infor'.at = "findTree" /\ infor'.data = rows /\ infor'.todo = todo
        /\ infor'.ans = infor.ans
    BY <2>1 DEF InforInv
  <2>5. \A i \in DOMAIN rows : DepositOf(deposits, rows[i])
    BY DEF BridgeInv, RowsMatchChain, DepositOf
  <2>6. InforInv'
    BY <1>2, <2>2, <2>3, <2>4, <2>5 DEF InforInv, IsTrue
  <2>7. QED  BY <1>3, <1>6, <2>6 DEF FindInfor
<1>7. CASE FindInforTree
  <2> DEFINE ans == {Status(infor.data[i], "IN_QUEUE") : i \in Queued}
  <2>1. ans \in SUBSET Statement /\ \A s \in ans : IsTrue(s)
    <3> SUFFICES ASSUME NEW i \in Queued
                 PROVE  /\ Status(infor.data[i], "IN_QUEUE") \in Statement
                        /\ IsTrue(Status(infor.data[i], "IN_QUEUE"))
      OBVIOUS
    <3>1. i \in DOMAIN infor.data
      BY DEF Queued, InforInv
    <3>2. infor.data[i] \in Row /\ DepositOf(deposits, infor.data[i])
      BY <1>4, <3>1 DEF InforInv
    <3>3. QED  BY <3>2, ToldOfRow DEF DepositOf
  <2>2. CASE Tell({})
    BY <1>2, <2>2, TellStep
  <2>3. CASE infor' = NoInfor /\ UNCHANGED shown
    BY <1>3, <2>3, NoInforInv
  <2>4. CASE treeDocs # <<>> /\ Tell(ans)
    <3> HIDE DEF ans
    <3> QED  BY <1>2, <2>1, <2>4, TellStep
  <2>5. CASE /\ treeDocs # <<>> /\ UNCHANGED shown
             /\ infor' = [infor EXCEPT !.at = "isSent", !.todo = @ \ Queued, !.ans = ans]
    <3> HIDE DEF ans
    <3>1. /\ infor'.at = "isSent" /\ infor'.data = infor.data
          /\ infor'.todo = infor.todo \ Queued /\ infor'.ans = ans
          /\ infor' \in [at : {"idle", "findRows", "findTree", "isSent"},
                         who : SUBSET Payload, data : Seq(Row), todo : SUBSET Nat,
                         ans : SUBSET Statement]
      BY <2>1, <2>5 DEF InforInv
    <3>2. treeDocs[1].n \in Nat /\ treeDocs[1].n <= nLeafs
      <4>1. 1 \in DOMAIN treeDocs /\ treeDocs[1] \in TreeDoc
        BY <1>4, <2>5
      <4>2. QED  BY <4>1 DEF TreeDoc, BridgeInv, TreeDocNeverAhead
    <3>3. ASSUME NEW i \in infor.todo \ Queued  PROVE infor.data[i].key < nLeafs
      <4>1. i \in DOMAIN infor.data /\ ~(infor.data[i].key >= treeDocs[1].n)
        BY <3>3 DEF Queued, InforInv
      <4>2. infor.data[i].key \in Nat
        BY <1>4, <4>1 DEF Row
      <4>3. QED  BY <1>4, <3>2, <4>1, <4>2
    <3>4. InforInv'
      BY <1>2, <2>1, <3>1, <3>3 DEF InforInv, IsTrue
    <3>5. QED  BY <1>3, <2>5, <3>4
  <2>6. QED  BY <1>7, <2>2, <2>3, <2>4, <2>5 DEF FindInforTree
<1>8. CASE AskSent
  <2>1. infor.at = "isSent"
    BY <1>8 DEF AskSent, InforAt
  <2> DEFINE row(i) == infor.data[i]
             ans(i) == infor.ans \cup
                         {Status(row(i), IF IsSentProof(row(i)) THEN "CLAIMED" ELSE "CAN_CLAIM")}
  <2>2. PICK i \in infor.todo :
          \/ Tell(ans(i))
          \/ infor' = [infor EXCEPT !.todo = @ \ {i}, !.ans = ans(i)] /\ UNCHANGED shown
    BY <1>8 DEF AskSent
  <2>3. row(i) \in Row /\ DepositOf(deposits, row(i)) /\ row(i).key < nLeafs
    BY <1>4, <2>1 DEF InforInv
  <2>4. ans(i) \in SUBSET Statement /\ \A s \in ans(i) : IsTrue(s)
    <3> HIDE DEF row
    <3> DEFINE s == Status(row(i), IF IsSentProof(row(i)) THEN "CLAIMED" ELSE "CAN_CLAIM")
    <3>1. s \in Statement /\ IsTrue(s)
      <4>1. CASE IsSentProof(row(i))
        BY <2>3, <4>1, ToldOfRow DEF DepositOf, IsSentProof
      <4>2. CASE ~IsSentProof(row(i))
        BY <2>3, <4>2, ToldOfRow DEF DepositOf
      <4>3. QED  BY <4>1, <4>2
    <3> HIDE DEF s
    <3>2. infor.ans \subseteq Statement /\ \A t \in infor.ans : IsTrue(t)
      BY DEF InforInv
    <3>3. ans(i) = infor.ans \cup {s}
      BY DEF s
    <3>4. QED  BY <3>1, <3>2, <3>3
  <2> HIDE DEF row, ans
  <2>5. CASE Tell(ans(i))
    BY <1>2, <2>4, <2>5, TellStep
  <2>6. CASE infor' = [infor EXCEPT !.todo = @ \ {i}, !.ans = ans(i)] /\ UNCHANGED shown
    <3>1. /\ infor'.data = infor.data /\ infor'.todo = infor.todo \ {i}
          /\ infor'.ans = ans(i)
          /\ infor' \in [at : {"idle", "findRows", "findTree", "isSent"},
                         who : SUBSET Payload, data : Seq(Row), todo : SUBSET Nat,
                         ans : SUBSET Statement]
      BY <2>4, <2>6 DEF InforInv
    <3>2. InforInv'
      BY <1>2, <2>1, <2>4, <3>1 DEF InforInv, IsTrue
    <3>3. QED  BY <1>3, <2>6, <3>2
  <2>7. QED  BY <2>2, <2>5, <2>6
<1>9. CASE InforFails
  BY <1>3, <1>9, NoInforInv DEF InforFails
<1>10. QED  BY <1>5, <1>6, <1>7, <1>8, <1>9 DEF Infor

-----------------------------------------------------------------------------
\* StatusInv is inductive.
LEMMA StatusStep == StatusInv /\ [StatusNext]_<<vars, statusVars>> => StatusInv'
<1> SUFFICES ASSUME StatusInv, [StatusNext]_<<vars, statusVars>>  PROVE StatusInv'
  OBVIOUS
<1>1. [Next]_vars
  BY DEF StatusNext, Server, Infor, Next, InforAt, ReceiveInfor, FindInfor, FindInforTree,
         AskSent, InforFails
<1>2. BridgeInv' /\ TypeOK
  BY <1>1, BridgeStep DEF StatusInv, BridgeInv, TypeInv
<1>3. CASE Infor
  BY <1>2, <1>3, InforStep DEF StatusInv
<1>4. CASE Server
  <2>1. ShownInv'
    BY <1>1, <1>2, <1>4, ShownStays DEF StatusInv, Server, statusVars
  <2>2. InforInv'
    BY <1>1, <1>2, <1>4, HeldStays, NoInforInv DEF StatusInv, Server, statusVars
  <2>3. QED  BY <1>2, <2>1, <2>2 DEF StatusInv
<1>5. CASE UNCHANGED <<vars, statusVars>>
  BY <1>1, <1>2, <1>5, ShownStays, HeldStays DEF StatusInv, statusVars
<1>6. QED  BY <1>3, <1>4, <1>5 DEF StatusNext

\* StatusInv holds initially.
LEMMA StatusInitial == StatusInit => StatusInv
<1> SUFFICES ASSUME StatusInit  PROVE StatusInv
  OBVIOUS
<1>1. BridgeInv
  BY BridgeInit DEF StatusInit
<1>2. InforInv
  <2>1. DOMAIN <<>> = {}
    OBVIOUS
  <2>2. QED  BY <2>1 DEF StatusInit, NoInfor, InforInv
<1>3. ShownInv
  BY DEF StatusInit, ShownInv
<1>4. QED  BY <1>1, <1>2, <1>3 DEF StatusInv

\* Whatever a user is told is so, although one answer is put together from rows,
\* tree document and contract as they were at different moments, for any number
\* of requests that import, update, delete and fail meanwhile.
THEOREM ToldCorrect == StatusSpec => []ToldIsTrue
<1>1. StatusInv => ToldIsTrue
  BY DEF StatusInv, ShownInv, ToldIsTrue, IsTrue
<1>2. QED  BY <1>1, StatusInitial, StatusStep, PTL DEF StatusSpec

-----------------------------------------------------------------------------
(* No status goes back, while one slot imports and nobody deletes.         *)

Covers(status) == status \in {"CAN_CLAIM", "CLAIMED"}

\* What was last said of a key is still so by the stored n_leafs and by Ethereum.
SeenInv ==
    /\ seen \in [Index -> DOMAIN Rank]
    /\ \A k \in Index :
          /\ Covers(seen[k]) => k < TreeLeafs
          /\ seen[k] = "CLAIMED" => /\ k < Len(deposits)
                                    /\ <<k, deposits[k + 1]>> \in sentProof

\* A status about to be told: not below what was told, covered by n_leafs if it
\* says so.
StepsUp(s) ==
    /\ Covers(s.status) => s.key < TreeLeafs
    /\ s.key \in Index => Rank[s.status] >= Rank[seen[s.key]]

AnswerInv ==
    /\ infor.at = "isSent" => \A i \in infor.todo : infor.data[i].key < TreeLeafs
    /\ \A s \in infor.ans : StepsUp(s)

NeverBackInv == StatusInv /\ ExactInv /\ SeenInv /\ AnswerInv

NeverBack == \A k \in Index : Rank[seen'[k]] >= Rank[seen[k]]

\* The statuses in their order
LEMMA RankValues ==
    /\ DOMAIN Rank = {"NEVER_SHOWN", "IN_QUEUE", "CAN_CLAIM", "CLAIMED"}
    /\ Rank["NEVER_SHOWN"] = 0 /\ Rank["IN_QUEUE"] = 1
    /\ Rank["CAN_CLAIM"] = 2 /\ Rank["CLAIMED"] = 3
  BY DEF Rank

\* A status that stays is not below itself.
LEMMA SameRank ==
    ASSUME SeenInv, UNCHANGED seen
    PROVE  NeverBack
<1>1. \A k \in Index : seen[k] \in DOMAIN Rank
  BY DEF SeenInv
<1>2. \A x \in DOMAIN Rank : Rank[x] >= Rank[x]
  BY RankValues
<1>3. QED  BY <1>1, <1>2 DEF NeverBack

\* What was last said stays so while the server goes on.
LEMMA SeenStays ==
    ASSUME SingleImporter, NeverBackInv, [Next]_vars, UNCHANGED seen
    PROVE  SeenInv'
<1>1. /\ TreeLeafs \in Nat /\ TreeLeafs' \in Nat /\ TreeLeafs <= TreeLeafs' /\ TypeOK
  BY LeafsGrow, ExactTypes DEF NeverBackInv
<1>2. ASSUME NEW k \in Index
      PROVE  /\ Covers(seen[k]) => k < TreeLeafs'
             /\ seen[k] = "CLAIMED" => /\ k < Len(deposits')
                                       /\ <<k, deposits'[k + 1]>> \in sentProof'
  <2>1. k \in Nat
    BY SizeAssumption DEF Index
  <2>2. Covers(seen[k]) => k < TreeLeafs'
    <3>1. Covers(seen[k]) => k < TreeLeafs
      BY DEF NeverBackInv, SeenInv
    <3>2. QED  BY <1>1, <2>1, <3>1
  <2>3. ASSUME seen[k] = "CLAIMED"
        PROVE  k < Len(deposits') /\ <<k, deposits'[k + 1]>> \in sentProof'
    <3>1. k < Len(deposits) /\ <<k, deposits[k + 1]>> \in sentProof
      BY <2>3 DEF NeverBackInv, SeenInv
    <3>2. k + 1 \in 1 .. Len(deposits) /\ k < Len(deposits')
      BY <1>1, <2>1, <3>1, ChainGrows
    <3>3. deposits'[k + 1] = deposits[k + 1]
      BY <1>1, <3>2, ChainGrows
    <3>4. QED  BY <3>1, <3>2, <3>3, SentStays
  <2>4. QED  BY <2>2, <2>3
<1>3. seen' = seen /\ seen \in [Index -> DOMAIN Rank]
  BY DEF NeverBackInv, SeenInv
<1>4. \A k \in Index : Covers(seen[k])' => Covers(seen[k])
  BY <1>3 DEF Covers
<1>5. QED  BY <1>2, <1>3, <1>4 DEF SeenInv

\* So does the answer put together so far.
LEMMA AnswerStays ==
    ASSUME SingleImporter, NeverBackInv, [Next]_vars, UNCHANGED <<seen, infor>>
    PROVE  AnswerInv'
<1>1. TreeLeafs \in Nat /\ TreeLeafs' \in Nat /\ TreeLeafs <= TreeLeafs'
  BY LeafsGrow DEF NeverBackInv
<1>2. /\ infor.ans \subseteq Statement /\ infor.todo \subseteq DOMAIN infor.data
      /\ \A i \in DOMAIN infor.data : infor.data[i] \in Row
  BY DEF NeverBackInv, StatusInv, InforInv
<1>3. ASSUME infor.at = "isSent", NEW i \in infor.todo  PROVE infor.data[i].key < TreeLeafs'
  <2>1. infor.data[i].key \in Nat /\ infor.data[i].key < TreeLeafs
    BY <1>2, <1>3 DEF NeverBackInv, AnswerInv, Row
  <2>2. QED  BY <1>1, <2>1
<1>4. ASSUME NEW s \in infor.ans
      PROVE  /\ Covers(s.status) => s.key < TreeLeafs'
             /\ s.key \in Index => Rank[s.status] >= Rank[seen[s.key]]
  <2>1. s.key \in Nat /\ StepsUp(s)
    BY <1>2 DEF NeverBackInv, AnswerInv, Statement
  <2>2. QED  BY <1>1, <2>1 DEF StepsUp
<1>5. QED  BY <1>3, <1>4 DEF AnswerInv, StepsUp, Covers

\* An idle request has no answer.
LEMMA NoAnswerInv ==
    ASSUME infor' = NoInfor
    PROVE  AnswerInv'
<1>1. infor'.at = "idle" /\ infor'.ans = {}
  BY DEF NoInfor
<1>2. QED  BY <1>1 DEF AnswerInv

\* An answer that steps up is told.
LEMMA TellUp ==
    ASSUME SeenInv, UNCHANGED vars, NEW ans \in SUBSET Statement,
           \A s \in ans : IsTrue(s) /\ StepsUp(s), Tell(ans)
    PROVE  SeenInv' /\ AnswerInv' /\ NeverBack
<1>1. UNCHANGED <<TreeLeafs, deposits, sentProof>>
  BY DEF vars, cosmosVars, ethVars, serverVars, TreeLeafs
<1>2. AnswerInv'
  BY NoAnswerInv DEF Tell
<1>3. ASSUME NEW k \in Index
      PROVE  /\ seen'[k] \in DOMAIN Rank
             /\ Covers(seen'[k]) => k < TreeLeafs
             /\ seen'[k] = "CLAIMED" => /\ k < Len(deposits)
                                        /\ <<k, deposits[k + 1]>> \in sentProof
             /\ Rank[seen'[k]] >= Rank[seen[k]]
  <2>1. CASE \E s \in ans : s.key = k
    <3>1. PICK s \in ans : s.key = k /\ seen'[k] = s.status
      <4>1. (CHOOSE s \in ans : s.key = k) \in ans /\ (CHOOSE s \in ans : s.key = k).key = k
        BY <2>1
      <4>2. seen'[k] = (CHOOSE s \in ans : s.key = k).status
        BY <2>1 DEF Tell
      <4>3. QED  BY <4>1, <4>2
    <3>2. s \in Statement /\ IsTrue(s) /\ StepsUp(s)
      BY <3>1
    <3>3. s.status \in DOMAIN Rank
      BY <3>2, RankValues DEF Statement
    <3>4. QED  BY <3>1, <3>2, <3>3 DEF IsTrue, StepsUp
  <2>2. CASE ~ \E s \in ans : s.key = k
    <3>1. seen'[k] = seen[k]
      BY <2>2 DEF Tell
    <3>2. seen[k] \in DOMAIN Rank
      BY DEF SeenInv
    <3>3. Rank[seen[k]] >= Rank[seen[k]]
      BY <3>2, RankValues
    <3>4. QED  BY <3>1, <3>2, <3>3 DEF SeenInv
  <2>3. QED  BY <2>1, <2>2
<1>4. seen' \in [Index -> DOMAIN Rank]
  <2>1. seen' = [k \in Index |-> seen'[k]]
    BY DEF Tell
  <2>2. QED  BY <1>3, <2>1
<1>5. SeenInv'
  BY <1>1, <1>3, <1>4 DEF SeenInv, Covers
<1>6. QED  BY <1>2, <1>3, <1>5 DEF NeverBack

\* Every stretch of the handler steps up.
LEMMA InforUp ==
    ASSUME NeverBackInv, Infor
    PROVE  SeenInv' /\ AnswerInv' /\ NeverBack
<1>1. UNCHANGED vars
  BY DEF Infor, InforAt, ReceiveInfor, FindInfor, FindInforTree, AskSent, InforFails
<1>2. UNCHANGED <<TreeLeafs, deposits, sentProof, rows, treeDocs>>
  BY <1>1 DEF vars, cosmosVars, ethVars, serverVars, TreeLeafs
<1>3. StatusInv /\ SeenInv /\ AnswerInv /\ InforInv /\ TreeLeafs \in Nat
  BY StoredOrder DEF NeverBackInv, StatusInv, Ordered
<1>4. \A i \in DOMAIN infor.data : infor.data[i] \in Row
  BY <1>3 DEF InforInv
<1>5. UNCHANGED seen => SeenInv' /\ NeverBack
  <2>1. UNCHANGED seen => SeenInv'
    BY <1>2, <1>3 DEF SeenInv, Covers
  <2>2. QED  BY <1>3, <2>1, SameRank
<1>6. CASE \E who \in SUBSET Payload : ReceiveInfor(who)
  <2>1. infor'.at = "findRows" /\ infor'.ans = {} /\ UNCHANGED seen
    BY <1>6 DEF ReceiveInfor, NoInfor
  <2>2. AnswerInv'
    BY <2>1 DEF AnswerInv
  <2>3. QED  BY <1>5, <2>1, <2>2
<1>7. CASE FindInfor
  <2>1. infor'.at = "findTree" /\ infor'.ans = infor.ans /\ UNCHANGED seen
    BY <1>3, <1>7 DEF FindInfor, InforInv
  <2>2. AnswerInv'
    BY <1>2, <1>3, <2>1 DEF AnswerInv, StepsUp, Covers
  <2>3. QED  BY <1>5, <2>1, <2>2
<1>8. CASE FindInforTree
  <2> DEFINE ans == {Status(infor.data[i], "IN_QUEUE") : i \in Queued}
  <2>1. CASE treeDocs # <<>>
    <3>1. treeDocs[1].n = TreeLeafs
      BY <2>1 DEF TreeLeafs
    <3>2. ans \in SUBSET Statement /\ \A s \in ans : IsTrue(s) /\ StepsUp(s)
      <4> SUFFICES ASSUME NEW i \in Queued
                   PROVE  LET s == Status(infor.data[i], "IN_QUEUE")
                          IN  s \in Statement /\ IsTrue(s) /\ StepsUp(s)
        OBVIOUS
      <4> DEFINE s == Status(infor.data[i], "IN_QUEUE")
      <4>1. i \in DOMAIN infor.data /\ infor.data[i].key >= TreeLeafs
        BY <1>3, <3>1 DEF Queued, InforInv
      <4>2. infor.data[i] \in Row /\ DepositOf(deposits, infor.data[i])
        BY <1>3, <1>4, <4>1 DEF InforInv
      <4>3. s \in Statement /\ IsTrue(s)
        BY <4>2, ToldOfRow DEF DepositOf
      <4>4. s.key = infor.data[i].key /\ s.status = "IN_QUEUE" /\ s.key \in Nat
        BY <4>2 DEF Status, Row
      <4>5. ASSUME s.key \in Index  PROVE Rank["IN_QUEUE"] >= Rank[seen[s.key]]
        <5>1. ~(s.key < TreeLeafs)
          BY <1>3, <4>1, <4>4
        <5> HIDE DEF s
        <5>2. seen[s.key] \in DOMAIN Rank /\ (Covers(seen[s.key]) => s.key < TreeLeafs)
          BY <1>3, <4>5 DEF SeenInv
        <5>3. seen[s.key] \in {"NEVER_SHOWN", "IN_QUEUE"}
          BY <5>1, <5>2, RankValues DEF Covers
        <5>4. QED  BY <5>3, RankValues
      <4> HIDE DEF s
      <4>6. StepsUp(s)
        BY <4>4, <4>5 DEF StepsUp, Covers
      <4>7. QED  BY <4>3, <4>6 DEF s
    <3>3. CASE Tell(ans)
      <4> HIDE DEF ans
      <4> QED  BY <1>1, <1>3, <3>2, <3>3, TellUp
    <3>4. CASE /\ infor' = [infor EXCEPT !.at = "isSent", !.todo = @ \ Queued, !.ans = ans]
               /\ UNCHANGED seen
      <4> HIDE DEF ans
      <4>1. /\ infor'.data = infor.data /\ infor'.todo = infor.todo \ Queued
            /\ infor'.ans = ans
        BY <1>3, <3>4 DEF InforInv
      <4>2. ASSUME NEW i \in infor.todo \ Queued  PROVE infor.data[i].key < TreeLeafs
        <5>1. i \in DOMAIN infor.data /\ ~(infor.data[i].key >= TreeLeafs)
          BY <1>3, <3>1, <4>2 DEF Queued, InforInv
        <5>2. infor.data[i].key \in Nat
          BY <1>4, <5>1 DEF Row
        <5>3. QED  BY <1>3, <5>1, <5>2
      <4>3. AnswerInv'
        BY <1>2, <3>2, <3>4, <4>1, <4>2 DEF AnswerInv, StepsUp, Covers
      <4>4. QED  BY <1>5, <3>4, <4>3
    <3>5. CASE Tell({})
      BY <1>1, <1>3, <3>5, TellUp
    <3>6. QED  BY <1>8, <2>1, <3>3, <3>4, <3>5 DEF FindInforTree
  <2>2. CASE treeDocs = <<>>
    <3>1. CASE Tell({})
      BY <1>1, <1>3, <3>1, TellUp
    <3>2. CASE infor' = NoInfor /\ UNCHANGED seen
      BY <1>5, <3>2, NoAnswerInv
    <3>3. QED  BY <1>8, <2>2, <3>1, <3>2 DEF FindInforTree
  <2>3. QED  BY <2>1, <2>2
<1>9. CASE AskSent
  <2>1. infor.at = "isSent"
    BY <1>9 DEF AskSent, InforAt
  <2> DEFINE row(i) == infor.data[i]
             said(i) == IF IsSentProof(row(i)) THEN "CLAIMED" ELSE "CAN_CLAIM"
             ans(i) == infor.ans \cup {Status(row(i), said(i))}
  <2>2. PICK i \in infor.todo :
          \/ Tell(ans(i))
          \/ infor' = [infor EXCEPT !.todo = @ \ {i}, !.ans = ans(i)] /\ UNCHANGED seen
    BY <1>9 DEF AskSent
  <2> DEFINE s == Status(row(i), said(i))
  <2>3. row(i) \in Row /\ DepositOf(deposits, row(i)) /\ row(i).key < TreeLeafs
        /\ row(i).key < nLeafs
    BY <1>3, <1>4, <2>1 DEF InforInv, AnswerInv
  <2>4. s.key = row(i).key /\ s.status = said(i) /\ s.key \in Nat
    BY <2>3 DEF Status, Row
  <2>5. s \in Statement /\ IsTrue(s)
    <3>1. CASE IsSentProof(row(i))
      BY <2>3, <3>1, ToldOfRow DEF DepositOf, IsSentProof
    <3>2. CASE ~IsSentProof(row(i))
      BY <2>3, <3>2, ToldOfRow DEF DepositOf
    <3>3. QED  BY <3>1, <3>2
  <2>6. ASSUME s.key \in Index  PROVE Rank[said(i)] >= Rank[seen[s.key]]
    <3>1. seen[s.key] \in DOMAIN Rank
      BY <1>3, <2>6 DEF SeenInv
    <3>2. ASSUME seen[s.key] = "CLAIMED"  PROVE said(i) = "CLAIMED"
      <4>1. <<s.key, deposits[s.key + 1]>> \in sentProof
        BY <1>3, <2>6, <3>2 DEF SeenInv
      <4>2. IsSentProof(row(i))
        BY <2>3, <2>4, <4>1 DEF IsSentProof, DepositOf
      <4>3. QED  BY <4>2
    <3>3. said(i) \in {"CAN_CLAIM", "CLAIMED"}
      OBVIOUS
    <3>4. seen[s.key] \in {"NEVER_SHOWN", "IN_QUEUE", "CAN_CLAIM", "CLAIMED"}
      BY <3>1, RankValues
    <3> HIDE DEF said, s
    <3>5. QED  BY <3>2, <3>3, <3>4, RankValues
  <2>7. StepsUp(s)
    BY <2>3, <2>4, <2>6 DEF StepsUp
  <2>8. ans(i) \in SUBSET Statement /\ \A t \in ans(i) : IsTrue(t) /\ StepsUp(t)
    <3>1. infor.ans \subseteq Statement /\ \A t \in infor.ans : IsTrue(t) /\ StepsUp(t)
      BY <1>3 DEF InforInv, AnswerInv
    <3>2. ans(i) = infor.ans \cup {s}
      OBVIOUS
    <3> HIDE DEF s, ans
    <3>3. QED  BY <2>5, <2>7, <3>1, <3>2
  <2> HIDE DEF row, said, ans, s
  <2>9. CASE Tell(ans(i))
    BY <1>1, <1>3, <2>8, <2>9, TellUp
  <2>10. CASE infor' = [infor EXCEPT !.todo = @ \ {i}, !.ans = ans(i)] /\ UNCHANGED seen
    <3>1. /\ infor'.data = infor.data /\ infor'.todo = infor.todo \ {i}
          /\ infor'.ans = ans(i)
      BY <1>3, <2>10 DEF InforInv
    <3>2. AnswerInv'
      BY <1>2, <1>3, <2>1, <2>8, <2>10, <3>1 DEF AnswerInv, StepsUp, Covers
    <3>3. QED  BY <1>5, <2>10, <3>2
  <2>11. QED  BY <2>2, <2>9, <2>10
<1>10. CASE InforFails
  BY <1>5, <1>10, NoAnswerInv DEF InforFails
<1>11. QED  BY <1>6, <1>7, <1>8, <1>9, <1>10 DEF Infor

\* NeverBackInv is inductive, and no step takes a status back.
LEMMA NeverBackStep ==
    ASSUME SingleImporter
    PROVE  NeverBackInv /\ [StatusNext]_<<vars, statusVars>> => NeverBackInv' /\ NeverBack
<1> SUFFICES ASSUME NeverBackInv, [StatusNext]_<<vars, statusVars>>
             PROVE  NeverBackInv' /\ NeverBack
  OBVIOUS
<1>1. [Next]_vars
  BY DEF StatusNext, Server, Infor, Next, InforAt, ReceiveInfor, FindInfor, FindInforTree,
         AskSent, InforFails
<1>2. StatusInv' /\ ExactInv'
  BY <1>1, StatusStep, ExactStep DEF NeverBackInv
<1>3. CASE Infor
  BY <1>2, <1>3, InforUp DEF NeverBackInv
<1>4. CASE UNCHANGED seen /\ (UNCHANGED infor \/ infor' = NoInfor)
  <2>1. SeenInv' /\ NeverBack
    BY <1>1, <1>4, SeenStays, SameRank DEF NeverBackInv
  <2>2. AnswerInv'
    BY <1>1, <1>4, AnswerStays, NoAnswerInv
  <2>3. QED  BY <1>2, <2>1, <2>2 DEF NeverBackInv
<1>5. QED  BY <1>3, <1>4 DEF StatusNext, Server, statusVars

\* While one request at a time imports and nobody deletes the database, no user
\* ever sees a deposit fall back, not from CLAIMED to CAN_CLAIM and not to
\* IN_QUEUE, through failed calls, crashes and late transactions.
THEOREM NeverBackCorrect ==
    ASSUME SingleImporter
    PROVE  StatusSpec => StatusNeverGoesBack
<1>1. StatusInit => NeverBackInv
  <2> SUFFICES ASSUME StatusInit  PROVE NeverBackInv
    OBVIOUS
  <2>1. ExactInv
    BY ExactInit DEF StatusInit
  <2>2. SeenInv
    BY RankValues DEF StatusInit, SeenInv, Covers
  <2>3. AnswerInv
    BY DEF StatusInit, NoInfor, AnswerInv
  <2>4. StatusInv
    BY StatusInitial
  <2>5. QED  BY <2>1, <2>2, <2>3, <2>4 DEF NeverBackInv
<1>2. NeverBackInv /\ [StatusNext]_<<vars, statusVars>> => NeverBackInv'
  BY NeverBackStep
<1>3. NeverBackInv /\ [StatusNext]_<<vars, statusVars>> => [NeverBack]_<<vars, statusVars>>
  BY NeverBackStep
<1>4. QED  BY <1>1, <1>2, <1>3, PTL DEF StatusSpec, StatusNeverGoesBack, NeverBack
=============================================================================
