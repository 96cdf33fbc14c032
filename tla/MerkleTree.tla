----------------------------- MODULE MerkleTree -----------------------------
(***************************************************************************)
(* The Poseidon Merkle tree of deposits, as src/circom/txs/fmt.js builds   *)
(* it with the fixed-merkle-tree package and as the circuits check it.     *)
(*                                                                         *)
(* Poseidon is taken to be free of collisions, so that a root stands for   *)
(* the tree below it: a root IS the function from a leaf's index to the    *)
(* leaf, and the siblings of leaf i are that function without its value    *)
(* at i.  An empty position holds Zero, the hash of <<0>> (fmt.js, option  *)
(* zeroElement), and writing Zero explicitly is writing nothing.           *)
(***************************************************************************)
EXTENDS Integers, Sequences

CONSTANTS
    Payload,   \* what a leaf hashes: bridge, receiver, amount and token
    Zero,      \* hash([0]), the empty leaf
    Capacity,  \* 2^32 leaves in the code
    Batch      \* nmax_leafs_update: leaves written by one proof, 5 in the code

ASSUME ZeroAssumption == Zero \notin Payload
ASSUME SizeAssumption == /\ Capacity \in Nat
                         /\ Batch \in Nat \ {0}
                         /\ Batch <= Capacity

Leaf  == Payload \cup {Zero}
Index == 0 .. Capacity - 1
Tree  == [Index -> Leaf]

\* The tree after its first Len(s) leaves were written in order.
TreeOf(s) == [i \in Index |-> IF i < Len(s) THEN s[i + 1] ELSE Zero]

\* getSiblings(i): everything the tree holds but leaf i.
Siblings(T, i) == [T EXCEPT ![i] = Zero]

\* The b-th of T's subtrees of height h; outside of T there is Zero.
Subtree(T, h, b) ==
    [j \in 0 .. 2^h - 1 |-> IF b * 2^h + j \in Index THEN T[b * 2^h + j] ELSE Zero]

\* The subtree of height h next to the one leaf i is in
Sibling(T, h, i) ==
    LET b == i \div 2^h IN Subtree(T, h, IF b % 2 = 0 THEN b + 1 ELSE b - 1)

\* The siblings of leaf i of T are those of leaf k of U, level by level: what
\* was taken as a path for i in T then is one for k in U.
SamePath(T, i, U, k) ==
    \A h \in 0 .. Capacity : Sibling(T, h, i) = Sibling(U, h, k)

\* T with the first m of the values v written from position k on.
Written(T, k, v, m) ==
    [i \in Index |-> IF i \in k .. (k + m - 1) THEN v[i - k + 1] ELSE T[i]]

-----------------------------------------------------------------------------
(***************************************************************************)
(* The circuit verifyRootBatchTxsCosmos.  A statement is the public input  *)
(* of a proof; its witness is one sibling path per leaf of the batch.      *)
(***************************************************************************)
BatchStatement == [key      : Index,
                   newValue : [1 .. Batch -> Leaf],
                   oldRoot  : Tree,
                   newRoot  : Tree]

\* What a valid proof establishes: the batch goes into free positions and
\* newRoot is oldRoot with the batch written.
Provable(s) ==
    /\ s.key + Batch <= Capacity
    /\ \A i \in s.key .. (s.key + Batch - 1) : s.oldRoot[i] = Zero
    /\ s.newRoot = Written(s.oldRoot, s.key, s.newValue, Batch)

\* The prover succeeds when the paths given for the leaves are, one after
\* the other, the paths of the tree the earlier leaves were written to.
WitnessFits(s, sib) ==
    \A j \in 1 .. Batch :
        sib[j] = Siblings(Written(s.oldRoot, s.key, s.newValue, j - 1),
                          s.key + j - 1)
=============================================================================
