---------------------- MODULE BridgeRefinement_proofs ----------------------
(***************************************************************************)
(* The server implements the abstract bridge, for every value of the       *)
(* constants.  The mapping needs the invariant BridgeInv: a root is the    *)
(* number of its leaves only because it is the root of a prefix of the     *)
(* deposits.                                                               *)
(***************************************************************************)
EXTENDS BridgeRefinement, BridgeServer_proofs

-----------------------------------------------------------------------------
(* The mapping.                                                            *)

\* The root of the first m deposits counts as m leaves: no deposit is Zero.
LEMMA LeafCountOfPrefix ==
    ASSUME NEW d \in Seq(Payload), Len(d) <= Capacity, NEW m \in 0 .. Len(d)
    PROVE  LeafCount([i \in Index |-> IF i < m THEN d[i + 1] ELSE Zero]) = m
<1> DEFINE R == [i \in Index |-> IF i < m THEN d[i + 1] ELSE Zero]
           Counts(n) == \A i \in Index : R[i] # Zero <=> i < n
<1>1. m \in 0 .. Capacity /\ Capacity \in Nat
  BY SizeAssumption
<1>2. Counts(m)
  <2> SUFFICES ASSUME NEW i \in Index  PROVE R[i] # Zero <=> i < m
    OBVIOUS
  <2>1. i < m => i + 1 \in 1 .. Len(d) /\ d[i + 1] \in Payload
    BY <1>1 DEF Index
  <2>2. QED  BY <2>1, ZeroAssumption
<1>3. ASSUME NEW n \in 0 .. Capacity, Counts(n)  PROVE n = m
  <2>1. ~(n < m)
    <3>1. n < m => n \in Index
      BY <1>1 DEF Index
    <3>2. QED  BY <1>1, <1>2, <1>3, <3>1
  <2>2. ~(m < n)
    <3>1. m < n => m \in Index
      BY <1>1 DEF Index
    <3>2. QED  BY <1>1, <1>2, <1>3, <3>1
  <2>3. QED  BY <1>1, <2>1, <2>2
<1>4. LeafCount(R) = CHOOSE n \in 0 .. Capacity : Counts(n)
  BY DEF LeafCount
<1> HIDE DEF R, Counts
<1>5. QED  BY <1>1, <1>2, <1>3, <1>4 DEF R

\* The counts of a sequence of roots have its length.
LEMMA CountsLength ==
    ASSUME NEW s \in Seq(Tree)
    PROVE  /\ Len(LeafCounts(s)) = Len(s)
           /\ DOMAIN LeafCounts(s) = DOMAIN s
           /\ \A i \in 1 .. Len(s) : LeafCounts(s)[i] = LeafCount(s[i])
<1>1. DOMAIN s = 1 .. Len(s) /\ Len(s) \in Nat
  OBVIOUS
<1>2. QED  BY <1>1 DEF LeafCounts

\* The counts of a sequence of roots are a sequence.
LEMMA CountsType ==
    ASSUME NEW s \in Seq(Tree)
    PROVE  LeafCounts(s) \in Seq({LeafCount(R) : R \in Tree})
<1>1. DOMAIN s = 1 .. Len(s) /\ Len(s) \in Nat /\ \A i \in 1 .. Len(s) : s[i] \in Tree
  OBVIOUS
<1>2. QED  BY <1>1 DEF LeafCounts

\* A root that is added to a sequence adds its count.
LEMMA CountsAppend ==
    ASSUME NEW s \in Seq(Tree), NEW R \in Tree
    PROVE  LeafCounts(Append(s, R)) = Append(LeafCounts(s), LeafCount(R))
<1> DEFINE C == {LeafCount(T) : T \in Tree}
           a == LeafCounts(Append(s, R))
           b == Append(LeafCounts(s), LeafCount(R))
<1>1. /\ LeafCounts(s) \in Seq(C) /\ Len(LeafCounts(s)) = Len(s) /\ LeafCount(R) \in C
      /\ \A i \in 1 .. Len(s) : LeafCounts(s)[i] = LeafCount(s[i])
  BY CountsLength, CountsType
<1>2. Append(s, R) \in Seq(Tree) /\ Len(Append(s, R)) = Len(s) + 1
  OBVIOUS
<1>3. /\ a \in Seq(C) /\ Len(a) = Len(s) + 1
      /\ \A i \in 1 .. Len(s) + 1 : a[i] = LeafCount(Append(s, R)[i])
  <2> DEFINE t == Append(s, R)
  <2>1. t \in Seq(Tree) /\ Len(t) = Len(s) + 1
    BY <1>2
  <2> HIDE DEF t
  <2>2. QED  BY <2>1, CountsLength, CountsType DEF t
<1>4. /\ b \in Seq(C) /\ Len(b) = Len(s) + 1
      /\ \A i \in 1 .. Len(s) : b[i] = LeafCounts(s)[i]
      /\ b[Len(s) + 1] = LeafCount(R)
  <2> DEFINE l == LeafCounts(s)
             c == LeafCount(R)
  <2>1. l \in Seq(C) /\ Len(l) = Len(s) /\ c \in C
    BY <1>1
  <2> HIDE DEF l, c, C
  <2>2. QED  BY <2>1 DEF l, c
<1> HIDE DEF a, b, C
<1>5. ASSUME NEW i \in 1 .. Len(s) + 1  PROVE a[i] = b[i]
  <2>1. CASE i \in 1 .. Len(s)
    <3>1. Append(s, R)[i] = s[i]
      BY <2>1
    <3>2. QED  BY <1>1, <1>3, <1>4, <2>1, <3>1
  <2>2. CASE i = Len(s) + 1
    <3>1. b[i] = LeafCount(R) /\ Append(s, R)[i] = R
      BY <1>4, <2>2
    <3>2. QED  BY <1>3, <3>1
  <2>3. Len(s) \in Nat
    OBVIOUS
  <2>4. QED  BY <2>1, <2>2, <2>3
<1>6. a = b
  BY <1>3, <1>4, <1>5, SeqEqual
<1>7. QED  BY <1>6 DEF a, b

\* A root that is dropped drops its count.
LEMMA CountsTail ==
    ASSUME NEW s \in Seq(Tree), s # <<>>
    PROVE  LeafCounts(Tail(s)) = Tail(LeafCounts(s))
<1> DEFINE C == {LeafCount(T) : T \in Tree}
           a == LeafCounts(Tail(s))
           b == Tail(LeafCounts(s))
<1>1. /\ LeafCounts(s) \in Seq(C) /\ Len(LeafCounts(s)) = Len(s)
      /\ \A i \in 1 .. Len(s) : LeafCounts(s)[i] = LeafCount(s[i])
  BY CountsLength, CountsType
<1>2. /\ Tail(s) \in Seq(Tree) /\ Len(Tail(s)) = Len(s) - 1 /\ Len(s) \in Nat \ {0}
      /\ \A i \in 1 .. Len(s) - 1 : Tail(s)[i] = s[i + 1]
  OBVIOUS
<1>3. /\ a \in Seq(C) /\ Len(a) = Len(s) - 1
      /\ \A i \in 1 .. Len(s) - 1 : a[i] = LeafCount(Tail(s)[i])
  <2> DEFINE t == Tail(s)
  <2>1. t \in Seq(Tree) /\ Len(t) = Len(s) - 1
    BY <1>2
  <2> HIDE DEF t
  <2>2. QED  BY <2>1, CountsLength, CountsType DEF t
<1>4. /\ b \in Seq(C) /\ Len(b) = Len(s) - 1
      /\ \A i \in 1 .. Len(s) - 1 : b[i] = LeafCounts(s)[i + 1]
  <2> DEFINE l == LeafCounts(s)
  <2>1. l \in Seq(C) /\ Len(l) = Len(s) /\ l # <<>>
    BY <1>1, <1>2
  <2> HIDE DEF l, C
  <2>2. QED  BY <2>1, <1>2 DEF l
<1> HIDE DEF a, b, C
<1>5. ASSUME NEW i \in 1 .. Len(s) - 1  PROVE a[i] = b[i]
  <2>1. i + 1 \in 1 .. Len(s)
    BY <1>2
  <2>2. b[i] = LeafCount(s[i + 1]) /\ Tail(s)[i] = s[i + 1]
    BY <1>1, <1>2, <1>4, <2>1
  <2>3. QED  BY <1>3, <2>2
<1>6. a = b
  BY <1>3, <1>4, <1>5, SeqEqual
<1>7. QED  BY <1>6 DEF a, b

-----------------------------------------------------------------------------
(* The steps.                                                              *)

\* No step moves both chains.
LEMMA OneChain ==
    ASSUME [Next]_vars
    PROVE  UNCHANGED chain \/ UNCHANGED ethVars
<1> USE DEF chain, cosmosVars
<1>1. CASE UNCHANGED vars
  BY <1>1 DEF vars
<1>2. ASSUME NEW r \in Requests,
             (\E k \in Kinds[r] : Receive(r, k)) \/ (\E i : ReceiveProof(r, i))
      PROVE  UNCHANGED chain
  BY <1>2 DEF Receive, ReceiveProof
<1>3. ASSUME NEW r \in Requests, Query(r)  PROVE UNCHANGED chain
  BY <1>3 DEF Query, QueryTree, FindTree, SaveTree, QueryQueue, FindRow, SaveRow
<1>4. ASSUME NEW r \in Requests, Prove(r)  PROVE UNCHANGED chain
  BY <1>4 DEF Prove, Initialize, FindRows, FindBatchTree, GenerateProof
<1>5. ASSUME NEW r \in Requests, Relay(r)
      PROVE  UNCHANGED chain \/ UNCHANGED ethVars
  BY <1>5 DEF Relay, ReadProof, Execute, SaveTx, SaveBlock, SaveCommit,
              BridgeBlockHeader, GenerateProofEth, UpdateDepositRootOnEth
<1>6. ASSUME NEW r \in Requests, Delete(r) \/ UserProof(r)  PROVE UNCHANGED chain
  BY <1>6 DEF Delete, DeleteRows, DeleteTree,
              UserProof, InitProof, FindProofTree, FindProofRows, ProveClaim
<1>7. ASSUME NEW r \in Requests, ExecuteTimeout(r) \/ EthAnswerLost(r) \/ Fail(r)
      PROVE  UNCHANGED chain
  BY <1>7 DEF ExecuteTimeout, EthAnswerLost, Fail
<1>8. CASE Crash
  BY <1>8 DEF Crash
<1>9. CASE Environment
  BY <1>9 DEF Environment
<1>10. CASE Wait
  BY <1>10 DEF Wait, vars
<1>11. QED
  BY <1>1, <1>2, <1>3, <1>4, <1>5, <1>6, <1>7, <1>8, <1>9, <1>10 DEF Next, Step

\* The contract's update covers the next batch and commits to the new count.
LEMMA CoverStep ==
    ASSUME BridgeInv, [Next]_vars, NEW s, UpdateDepositTree(s), UNCHANGED ethVars
    PROVE  Abstract!Cover
<1>1. /\ deposits \in Seq(Payload) /\ nLeafs \in 0 .. Len(deposits) /\ txs \in Seq(Tree)
      /\ s.newRoot \in Tree /\ Len(deposits) \in Nat
  BY AcceptedRoot DEF BridgeInv, TypeInv, TypeOK, CosmosTypeOK, UpdateDepositTree
<1>2. /\ deposits' = deposits /\ txs' = Append(txs, s.newRoot) /\ depositRoot' = s.newRoot
      /\ nLeafs' = IF Len(deposits) - nLeafs < Batch THEN Len(deposits) ELSE nLeafs + Batch
  BY DEF UpdateDepositTree, nQueueLeafs
<1>3. BridgeInv'
  BY BridgeStep
<1>4. /\ deposits' \in Seq(Payload) /\ Len(deposits') <= Capacity
      /\ nLeafs' \in 0 .. Len(deposits')
  BY <1>1, <1>2, <1>3, DepositAssumption, SizeAssumption DEF BridgeInv, TypeInv, TypeOK, CosmosTypeOK
<1>5. s.newRoot = [i \in Index |-> IF i < nLeafs' THEN deposits'[i + 1] ELSE Zero]
  BY <1>2, <1>3 DEF BridgeInv, CosmosRootIsPrefix, PrefixRoot
<1>6. LeafCount(s.newRoot) = nLeafs'
  BY <1>4, <1>5, LeafCountOfPrefix
<1>7. LeafCounts(txs)' = Append(LeafCounts(txs), nLeafs')
  BY <1>1, <1>2, <1>6, CountsAppend
<1>8. UNCHANGED <<LeafCounts(depositRoots), sentProof>>
  BY DEF ethVars
<1>9. QED  BY <1>2, <1>7, <1>8 DEF Abstract!Cover

\* A root that reaches Ethereum is one that was committed.
LEMMA MakeKnownStep ==
    ASSUME BridgeInv, NEW r \in Requests, RootStep(r), UNCHANGED chain
    PROVE  Abstract!MakeKnown
<1> DEFINE R == txs[files.tx]
           D == depositRoots
<1>1. txs \in Seq(Tree) /\ D \in Seq(Tree) /\ Len(D) \in Nat
  BY DEF BridgeInv, TypeInv, TypeOK, CosmosTypeOK, EthTypeOK
<1>2. files.tx \in DOMAIN txs
  BY <1>1 DEF BridgeInv, TypeInv, HeightsInv, RootStep, UpdateRootDepositTree
<1>3. R \in Tree /\ files.tx \in DOMAIN LeafCounts(txs) /\ LeafCounts(txs)[files.tx] = LeafCount(R)
  BY <1>1, <1>2, CountsLength
<1>4. Len(LeafCounts(D)) = Len(D)
  BY <1>1, CountsLength
<1>5. CASE Len(D) < RootHistorySize
  <2>1. D' = Append(D, R)
    BY <1>5 DEF RootStep, UpdateRootDepositTree
  <2>2. LeafCounts(D)' = Append(LeafCounts(D), LeafCount(R))
    BY <1>1, <1>3, <2>1, CountsAppend
  <2>3. QED
    BY <1>3, <1>4, <1>5, <2>2
       DEF Abstract!MakeKnown, chain, RootStep, UpdateRootDepositTree
<1>6. CASE ~(Len(D) < RootHistorySize)
  <2>1. D' = Append(Tail(D), R) /\ D # <<>>
    BY <1>1, <1>6, EthAssumption DEF RootStep, UpdateRootDepositTree
  <2>2. Tail(D) \in Seq(Tree)
    BY <1>1, <2>1
  <2>3. LeafCounts(D)' = Append(Tail(LeafCounts(D)), LeafCount(R))
    BY <1>1, <1>3, <2>1, <2>2, CountsAppend, CountsTail
  <2>4. QED
    BY <1>3, <1>4, <1>6, <2>3
       DEF Abstract!MakeKnown, chain, RootStep, UpdateRootDepositTree
<1>7. QED  BY <1>5, <1>6

\* A claim pays a deposit below the count of a root Ethereum knows.
LEMMA PayStep ==
    ASSUME BridgeInv, NEW k \in Index, NEW p \in Payload,
           ClaimTransaction(k, p), UNCHANGED chain
    PROVE  Abstract!Pay
<1>1. PICK i \in DOMAIN depositRoots : depositRoots[i][k] = p
  BY DEF ClaimTransaction
<1>2. PICK m \in 0 .. nLeafs : depositRoots[i] = PrefixRoot(m)
  BY DEF BridgeInv, EthRootsAreCosmosRoots
<1>3. /\ deposits \in Seq(Payload) /\ Len(deposits) <= Capacity /\ m \in 0 .. Len(deposits)
      /\ depositRoots \in Seq(Tree)
  BY DepositAssumption, SizeAssumption DEF BridgeInv, TypeInv, TypeOK, CosmosTypeOK, EthTypeOK
<1>4. i \in DOMAIN LeafCounts(depositRoots) /\ LeafCounts(depositRoots)[i] = m
  <2>1. LeafCount(depositRoots[i]) = m
    BY <1>2, <1>3, LeafCountOfPrefix DEF PrefixRoot
  <2>2. QED  BY <1>3, <2>1, CountsLength
<1>5. k < m /\ deposits[k + 1] = p
  BY <1>1, <1>2, ZeroAssumption DEF PrefixRoot
<1>6. k \in 0 .. LeafCounts(depositRoots)[i] - 1
  BY <1>3, <1>4, <1>5 DEF Index
<1>7. /\ <<k, p>> \notin sentProof /\ sentProof' = sentProof \cup {<<k, p>>}
      /\ UNCHANGED <<deposits, nLeafs, LeafCounts(txs), LeafCounts(depositRoots)>>
  BY DEF ClaimTransaction, chain
<1>8. QED  BY <1>4, <1>5, <1>6, <1>7 DEF Abstract!Pay

\* Every step of the server is a step of the abstract bridge or leaves it alone.
LEMMA StepImplements ==
    ASSUME BridgeInv, [Next]_vars
    PROVE  [Abstract!Next]_(Abstract!bridgeVars)
<1> DEFINE Stutter == UNCHANGED <<deposits, nLeafs, LeafCounts(txs),
                                  LeafCounts(depositRoots), sentProof>>
<1>1. Stutter => UNCHANGED Abstract!bridgeVars
  BY DEF Abstract!bridgeVars
<1>2. CASE UNCHANGED chain
  <2>1. CASE UNCHANGED ethVars
    BY <1>1, <1>2, <2>1 DEF chain, ethVars
  <2>2. ASSUME NEW r \in Requests, HeaderStep(r)  PROVE Stutter
    BY <1>2, <2>2 DEF HeaderStep, UpdateBlockHeader, chain
  <2>3. ASSUME NEW r \in Requests, RootStep(r)  PROVE Abstract!Next
    BY <1>2, <2>3, MakeKnownStep DEF Abstract!Next
  <2>4. ASSUME NEW k \in Index, NEW p \in Payload, ClaimTransaction(k, p)
        PROVE  Abstract!Next
    BY <1>2, <2>4, PayStep DEF Abstract!Next
  <2>5. QED  BY <1>1, <2>1, <2>2, <2>3, <2>4, EthStep
<1>3. CASE UNCHANGED ethVars
  <2>1. CASE UNCHANGED chain
    BY <1>1, <1>3, <2>1 DEF chain, ethVars
  <2>2. ASSUME NEW p \in Payload, Deposit(p)  PROVE Abstract!Next
    BY <1>3, <2>2 DEF Deposit, ethVars, Abstract!Next, Abstract!Deposit
  <2>3. ASSUME NEW s, UpdateDepositTree(s)  PROVE Abstract!Next
    BY <1>3, <2>3, CoverStep DEF Abstract!Next
  <2>4. QED  BY <2>1, <2>2, <2>3, CosmosStep
<1>4. QED  BY <1>2, <1>3, OneChain

\* The bridge starts as the abstract bridge does.
LEMMA InitImplements == Init => Abstract!Init
  BY DEF Init, CosmosInit, EthInit, LeafCounts, Abstract!Init

\* What the chains see of any number of concurrent requests, failures and
\* crashes is the abstract bridge: deposits covered batch by batch in order,
\* only committed coverages relayed, and each deposit paid at most once.
THEOREM ServerImplementsBridge == Spec => ImplementsBridge
<1>1. BridgeInv /\ [Next]_vars => [Abstract!Next]_(Abstract!bridgeVars)
  BY StepImplements
<1>2. QED  BY <1>1, InitImplements, BridgeSafe, PTL DEF Spec, ImplementsBridge, Abstract!Spec
=============================================================================
