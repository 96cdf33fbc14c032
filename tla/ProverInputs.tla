----------------------------- MODULE ProverInputs -----------------------------
(***************************************************************************)
(* The numbers of one proof on their way from the chain to the contract:   *)
(* hex strings, curve points and transactions become input.json            *)
(* (genBlockHeaderInput.js, go/verifyTx/deposit_tree.go), signals of a     *)
(* circuit and a witness file (witness_calculator.js), public numbers      *)
(* (public.json of the prover) and arguments of a call (getProof.js).  A   *)
(* number changes its numeral at each of them.                             *)
(*                                                                         *)
(* A hex string is a sequence of digits under Base (16 in the code), most  *)
(* significant first.  Two digits are a byte and eight a 32 bit word, as   *)
(* in the code.  Numbers are never negative here; the copies of            *)
(* witness_calculator.js differ in negative ones only.                     *)
(***************************************************************************)
EXTENDS Integers, Sequences, SequencesExt

CONSTANTS
    Base,         \* digits are 0 .. Base - 1
    HashDigits,   \* digits of an address and of a shortened hash, 40 in the code
    Hashes,       \* the shortened hashes and addresses that occur
    Heights,      \* the heights and keys that occur
    Numbers,      \* the amounts, roots and siblings that occur
    Paths,        \* the sequences of siblings that occur
    Depth,        \* siblings of a deposit, 32 in the circuit
    Signatures, Absent,  \* the signatures of validators that occur; none
    Times,        \* the block times that occur, in nanoseconds
    MaxSafe,      \* a JavaScript number holds no more digits, 2^53 in the code
    ChunkBase,    \* base of the chunks of a coordinate, 2^85 in the code
    Points,       \* the points that occur, each a sequence of coordinates
    Prime,        \* the circuits' prime
    N32,          \* words in a field element
    BodySize, AuthSize,  \* bytes of txBody and txAuthInfos in the circuit: 922, 109
    SigSize,             \* bytes of a transaction's one signature, encoded: 66
    Bodies, Auths,       \* lengths of body and auth info that occur
    MaxTxs,       \* bound on the transactions of a block
    Holds(_,_,_)  \* what a circuit asserts of its public and private numbers

Digits(base, n) == \* no leading zero; none at all for 0
    LET d[m \in Nat] == IF m = 0 THEN <<>> ELSE Append(d[m \div base], m % base)
    IN  d[n]

Value(base, digits) ==
    LET v[i \in 0 .. Len(digits)] == IF i = 0 THEN 0 ELSE v[i - 1] * base + digits[i]
    IN  v[Len(digits)]

Byte  == Base * Base
Radix == (Byte * Byte) * (Byte * Byte)

\* A hash has at most HashDigits digits.  Hashes, amounts, roots and siblings
\* are field elements, the prime has at most N32 words, and an ed25519
\* coordinate, below 2^255 - 19, at most three chunks.  No witness file reaches
\* 2^32 bytes.
ASSUME NumeralAssumption ==
    /\ {Base, HashDigits, ChunkBase, Prime, N32, MaxSafe, BodySize, AuthSize, SigSize,
        MaxTxs, Depth} \subseteq Nat \ {0, 1}
    /\ HashDigits % 2 = 0
    /\ Hashes \subseteq 0 .. Prime - 1
    /\ \A h \in Hashes : Len(Digits(Base, h)) <= HashDigits
    /\ Signatures \subseteq Hashes /\ Absent \notin Signatures
    /\ Heights \subseteq 0 .. MaxSafe - 1 /\ Times \subseteq 0 .. Prime \div 2
    /\ Numbers \subseteq 0 .. Prime - 1 /\ Paths \subseteq [1 .. Depth -> Numbers]
    /\ Bodies \subseteq Nat \ {0, 1, 2} /\ Auths \subseteq Nat
    /\ MaxSafe <= Prime /\ MaxTxs <= Prime
    /\ Byte <= Prime /\ ChunkBase <= Prime /\ Len(Digits(Radix, Prime)) <= N32
    /\ Points \subseteq Seq(0 .. ChunkBase * ChunkBase * ChunkBase - 1)
    /\ \A a \in Points : 4 * N32 * (7 + 3 * Len(a)) < Radix
    /\ 4 * N32 * 7 < Radix

VARIABLES
    kind,     \* which proof this is
    source,   \* input_python.json; the transaction and its block; a deposit
    input,    \* input.json: the keys in order, an array of arrays for each
    wtns,     \* the words of the witness file
    public,   \* public.json
    call,     \* the arguments getProof.js makes
    outcome   \* what became of the call

vars == <<kind, source, input, wtns, public, call, outcome>>

\* The arguments the three calls take, in the order of public.json: those
\* convertHexStringToAddress pads, those it does not, and plain numbers.
Fields == [header |-> <<"address", "hash", "hash", "hash", "number">>,
           root   |-> <<"address", "address", "number", "hash">>,
           claim  |-> <<"address", "address", "number", "address", "number", "number">>]

\* A hash as the chain and the python script spell it: at full length
Hex(n) == LET d == Digits(Base, n)
          IN  [i \in 1 .. HashDigits - Len(d) |-> 0] \o d

\* A header and the first signature of its commit, which Tendermint verified
\* unless the validator was absent
Headers == [pubKeys : Hashes, parrentSiblings : Hashes, dataHash : Hashes,
            blockHash : Hashes, height : Heights, blockTime : Times, A : Points,
            signature : Signatures \cup {Absent}]

\* A transaction, of whose body and other parts only the lengths matter besides
\* the numbers in it, and its place in the block of block.json, -1 for none
Transactions ==
    {t \in [sender : Hashes, bridge : Hashes, root : Numbers, dataHash : Hashes,
            body : Bodies, auth : Auths,
            txs : 1 .. MaxTxs, key : -1 .. MaxTxs - 1] : t.key < t.txs}

\* A deposit with the siblings and the root of a tree
Deposits == [bridge : Hashes, receiver : Hashes, amount : Numbers, token : Hashes,
             key : Heights, siblings : Paths, root : Numbers]

Sources == [header |-> Headers, root |-> Transactions, claim |-> Deposits]

Init ==
    /\ kind \in DOMAIN Fields
    /\ source \in Sources[kind]
    /\ input = <<>> /\ wtns = <<>> /\ public = <<>> /\ call = <<>>
    /\ outcome = "none"

-----------------------------------------------------------------------------
(* go/verifyBlock/main.go and genBlockHeaderInput.js                       *)

HexStringToArray(str) ==
    [i \in 1 .. (Len(str) + 1) \div 2 |->
        Value(Base, SubSeq(str, 2 * i - 1, IF 2 * i <= Len(str) THEN 2 * i ELSE Len(str)))]

\* chunkBigInt: least significant chunk first, [0] for 0
ChunkBigInt(n) == IF n = 0 THEN <<0>> ELSE Reverse(Digits(ChunkBase, n))

Pad(x, n) == x \o [i \in 1 .. n - Len(x) |-> 0]

\* A number of a JSON file as JavaScript reads it: the nearest one with as many
\* binary digits as it holds, an even one of two.
Double(n) ==
    LET ulp[m \in Nat] == IF m < MaxSafe THEN 1 ELSE 2 * ulp[m \div 2]
        u == ulp[n]
        q == n \div u
        r == n % u
    IN  u * (IF 2 * r > u \/ (2 * r = u /\ q % 2 = 1) THEN q + 1 ELSE q)

\* Faulty: coordinates are read as numbers, not as strings.
Coordinate_Number(n) == Double(n)

\* BigInt of a string of input_python.json
Coordinate(n) == n

\* Key and value of input.json; a number alone is an array of one here.
Key(name, value) == [name |-> name, value |-> value]

\* partsTotal, sigTimeSeconds, sigTimeNanos and votingPowers go the way of
\* height, partsHash and S that of R8, PointR that of PointA.
HeaderInput ==
    <<Key("height", <<<<Double(source.height)>>>>),
      Key("dataHash", <<HexStringToArray(Hex(source.dataHash))>>),
      Key("parrentSiblings", <<HexStringToArray(Hex(source.parrentSiblings))>>),
      Key("blockHash", <<HexStringToArray(Hex(source.blockHash))>>),
      Key("blockTime", <<<<Double(source.blockTime)>>>>),
      Key("pubKeys", <<HexStringToArray(Hex(source.pubKeys))>>),
      Key("R8", <<HexStringToArray(Hex(source.signature))>>),
      Key("PointA", [i \in DOMAIN source.A |->
                        Pad(ChunkBigInt(Coordinate(source.A[i])), 3)])>>

\* The first signature is sliced, and an absent one is empty.
VerifyBlockPanics ==
    /\ kind = "header" /\ input = <<>> /\ outcome = "none"
    /\ source.signature = Absent
    /\ outcome' = "panicked"
    /\ UNCHANGED <<kind, source, input, wtns, public, call>>

GenBlockHeaderInput ==
    /\ kind = "header" /\ input = <<>> /\ outcome = "none"
    /\ source.signature # Absent
    /\ input' = HeaderInput
    /\ UNCHANGED <<kind, source, wtns, public, call, outcome>>

-----------------------------------------------------------------------------
(* go/verifyTx/deposit_tree.go and genInputUpdateDepositRootToEthBridge.js *)

\* The aunts of leaf key in the library's tree over n leaves, whose left half
\* is the largest power of two below n.
Aunts(n, key) ==
    LET split[m \in Nat] == IF m <= 2 THEN 1 ELSE 2 * split[(m + 1) \div 2]
        count[m \in Nat] ==
            [i \in Nat |-> IF m <= 1 THEN 0
                           ELSE 1 + IF i < split[m] THEN count[split[m]][i]
                                    ELSE count[m - split[m]][i - split[m]]]
    IN  count[n][key]

\* Faulty: pads to one sibling less.
Siblings_OneLess(aunts) ==
    [i \in 1 .. IF aunts < 1 THEN 1 ELSE aunts |-> IF i <= 1 - aunts THEN 0 ELSE 1]

\* At least two siblings, the zeros in front; 1 stands for the hash of an aunt.
Siblings(aunts) ==
    [i \in 1 .. IF aunts < 2 THEN 2 ELSE aunts |-> IF i <= 2 - aunts THEN 0 ELSE 1]

\* The numbers the circuit reads are at fixed places of the body, each one value
\* here; a body that is too short is filled up and one that is too long is not
\* cut.
TxBody == Pad(<<source.sender, source.bridge, source.root>>
                 \o [i \in 1 .. source.body - 3 |-> 1], BodySize)

RootInput ==
    <<Key("txBody", <<TxBody>>),
      Key("txAuthInfos", <<Pad([i \in 1 .. source.auth |-> 1], AuthSize)>>),
      Key("signatures", <<[i \in 1 .. SigSize |-> 1]>>),
      Key("key", <<<<source.key>>>>),
      Key("dataHash", <<HexStringToArray(Hex(source.dataHash))>>),
      Key("siblings", <<Siblings(Aunts(source.txs, source.key))>>)>>

\* The proof of a transaction that the block does not have is that at -1.
GetDepositTreeInput ==
    /\ kind = "root" /\ input = <<>> /\ outcome = "none"
    /\ \/ /\ source.key # -1
          /\ input' = RootInput
          /\ UNCHANGED outcome
       \/ /\ source.key = -1
          /\ outcome' = "panicked"
          /\ UNCHANGED input
    /\ UNCHANGED <<kind, source, wtns, public, call>>

\* genClaimDepositTransaction.js writes the numbers of the deposit and of the
\* tree as they are.
ClaimInput ==
    <<Key("eth_bridge_address", <<<<source.bridge>>>>),
      Key("eth_receiver", <<<<source.receiver>>>>),
      Key("amount", <<<<source.amount>>>>),
      Key("eth_token_address", <<<<source.token>>>>),
      Key("key", <<<<source.key>>>>),
      Key("siblings", <<source.siblings>>),
      Key("root", <<<<source.root>>>>)>>

GenClaimInput ==
    /\ kind = "claim" /\ input = <<>> /\ outcome = "none"
    /\ input' = ClaimInput
    /\ UNCHANGED <<kind, source, wtns, public, call, outcome>>

-----------------------------------------------------------------------------
(* witness_calculator.js and generate_witness.js                           *)

\* The input signals of the circuits and their sizes
Signals ==
    LET bytes == HashDigits \div 2
    IN  CASE kind = "header" ->
               [height |-> 1, dataHash |-> bytes, parrentSiblings |-> bytes,
                blockHash |-> bytes, blockTime |-> 1, pubKeys |-> bytes, R8 |-> bytes,
                PointA |-> 3 * Len(source.A)]
          [] kind = "root" ->
               [txBody |-> BodySize, txAuthInfos |-> AuthSize, signatures |-> SigSize,
                key |-> 1, dataHash |-> bytes, siblings |-> 2]
          [] kind = "claim" ->
               [eth_bridge_address |-> 1, eth_receiver |-> 1, amount |-> 1,
                eth_token_address |-> 1, key |-> 1, siblings |-> Depth, root |-> 1]

ToArray32(n, size) == LET d == Digits(Radix, n)
                      IN  [i \in 1 .. size - Len(d) |-> 0] \o d

\* What the module reads and writes in its shared memory: word 0 is the last.
SharedRWMemory(n) == Reverse(ToArray32(n % Prime, N32))

\* Every key is a signal, with as many values, and no signal is left out.
Settable ==
    /\ \A i \in DOMAIN input :
          /\ input[i].name \in DOMAIN Signals
          /\ Len(FlattenSeq(input[i].value)) = Signals[input[i].name]
    /\ \A s \in DOMAIN Signals : \E i \in DOMAIN input : input[i].name = s

\* What the circuit has of signal s, after setInputSignal of each value
Signal(s) == LET i == CHOOSE j \in DOMAIN input : input[j].name = s
                 values == FlattenSeq(input[i].value)
             IN  [j \in DOMAIN values |->
                     Value(Radix, Reverse(SharedRWMemory(values[j])))]

\* The shortened hash a circuit makes of bytes: a number for each byte string,
\* here without collisions, which the contract gets as twenty bytes
Digest(bytes) == Value(Byte, bytes)

\* The public numbers of the circuits, in the order of Fields
Outputs ==
    CASE kind = "header" ->
           <<Digest(Signal("pubKeys")), Digest(Signal("parrentSiblings")),
             Digest(Signal("dataHash")), Digest(Signal("blockHash"))>> \o Signal("height")
      [] kind = "root" ->
           SubSeq(Signal("txBody"), 1, 3) \o <<Digest(Signal("dataHash"))>>
      [] kind = "claim" ->
           Signal("eth_bridge_address") \o Signal("eth_receiver") \o Signal("amount")
              \o Signal("eth_token_address") \o Signal("key") \o Signal("root")

\* A point, of three chunks for each coordinate
PointOf(chunks) ==
    [i \in 1 .. Len(chunks) \div 3 |->
        Value(ChunkBase, Reverse(SubSeq(chunks, 3 * (i - 1) + 1, 3 * (i - 1) + 3)))]

\* The private numbers a circuit asserts something of, with the public ones:
\* that the signature is one of the header's, that the transaction is at its
\* place under the data hash, that the siblings lead from the deposit to the
\* root.
Hidden ==
    CASE kind = "header" ->
           <<Signal("blockTime")[1], PointOf(Signal("PointA")), Digest(Signal("R8"))>>
      [] kind = "root"  -> Signal("key")
      [] kind = "claim" -> Signal("siblings")

\* The witness: one, the public numbers, then what the proof keeps private
Witness == <<1>> \o Outputs \o
           (IF kind = "header" THEN Signal("blockTime") \o Signal("PointA") ELSE <<>>)

\* A length in 64 bits, cut from its hex string: slice(0, 8) and slice(8, 16).
\* It is right below 2^32, where the second is empty, parses to NaN and is
\* stored as 0.
LengthWords(n) == LET d == Digits(Base, n)
                  IN  <<Value(Base, SubSeq(d, 1, IF Len(d) < 8 THEN Len(d) ELSE 8)),
                        Value(Base, SubSeq(d, 9, Len(d)))>>

Wtns == 1 \* the word "wtns"

N8 == N32 * 4

\* Faulty: the second section's length is that of the words, not of the bytes.
CalculateWTNSBin_LengthInWords(w) ==
    <<Wtns, 2, 2, 1>> \o LengthWords(8 + N8)
        \o <<N8>> \o Reverse(ToArray32(Prime, N32)) \o <<Len(w), 2>>
        \o LengthWords(N32 * Len(w))
        \o FlattenSeq([i \in DOMAIN w |-> SharedRWMemory(w[i])])

\* Magic, version and number of sections; the first section: n8, prime and size;
\* the second: the values
CalculateWTNSBin(w) ==
    <<Wtns, 2, 2, 1>> \o LengthWords(8 + N8)
        \o <<N8>> \o Reverse(ToArray32(Prime, N32)) \o <<Len(w), 2>>
        \o LengthWords(N8 * Len(w))
        \o FlattenSeq([i \in DOMAIN w |-> SharedRWMemory(w[i])])

\* A key that is no signal, too few or too many values, signals left out and an
\* assertion of the circuit that fails when the last signal is set are errors;
\* nothing is written.
GenerateWitness ==
    /\ input # <<>> /\ wtns = <<>> /\ outcome = "none"
    /\ \/ /\ Settable /\ Holds(kind, Outputs, Hidden)
          /\ wtns' = CalculateWTNSBin(Witness)
          /\ UNCHANGED outcome
       \/ /\ ~(Settable /\ Holds(kind, Outputs, Hidden))
          /\ outcome' = "threw"
          /\ UNCHANGED wtns
    /\ UNCHANGED <<kind, source, input, public, call>>

-----------------------------------------------------------------------------
(* The prover, which reads the file by the format: sections of an id, a    *)
(* length in bytes and a body.                                             *)

Words(f, at, n) == SubSeq(f, at, at + n - 1)
LittleEndian(f, at, n) == Value(Radix, Reverse(Words(f, at, n)))
BodyLength(f, section) == LittleEndian(f, section + 1, 2) \div 4
Second(f) == 4 + 3 + BodyLength(f, 4)

PrimeIn(f) == LittleEndian(f, 8, f[7] \div 4)

WitnessIn(f) ==
    LET n == f[7] \div 4
    IN  [i \in 1 .. BodyLength(f, Second(f)) \div n |->
            LittleEndian(f, Second(f) + 3 + (i - 1) * n, n)]

Prove ==
    /\ wtns # <<>> /\ public = <<>>
    /\ public' = SubSeq(WitnessIn(wtns), 2, 1 + Len(Fields[kind]))
    /\ UNCHANGED <<kind, source, input, wtns, call, outcome>>

-----------------------------------------------------------------------------
(* getProof.js and the call                                                *)

BigNumberToHexString(n) == IF n = 0 THEN <<0>> ELSE Digits(Base, n)

\* Faulty: the zeros are put behind.
ConvertHexStringToAddress_Behind(hex) ==
    hex \o [i \in 1 .. HashDigits - Len(hex) |-> 0]

ConvertHexStringToAddress(hex) ==
    [i \in 1 .. HashDigits - Len(hex) |-> 0] \o hex

Argument(field, n) ==
    CASE field = "address" -> ConvertHexStringToAddress(BigNumberToHexString(n))
      [] field = "hash"    -> BigNumberToHexString(n)
      [] field = "number"  -> <<n>>

GetProof == [i \in DOMAIN Fields[kind] |-> Argument(Fields[kind][i], public[i])]

\* The library refuses an address that is not HashDigits long.
Encodable(args) == \A i \in DOMAIN args :
                      Fields[kind][i] = "number" \/ Len(args[i]) = HashDigits

Call ==
    /\ public # <<>> /\ outcome = "none"
    /\ call' = GetProof
    /\ outcome' = IF Encodable(GetProof) THEN "sent" ELSE "refused"
    /\ UNCHANGED <<kind, source, input, wtns, public>>

\* The chain has ended.
Done == outcome # "none" /\ UNCHANGED vars

Next == \/ VerifyBlockPanics \/ GenBlockHeaderInput
        \/ GetDepositTreeInput \/ GenClaimInput
        \/ GenerateWitness \/ Prove \/ Call \/ Done

Spec == Init /\ [][Next]_vars

-----------------------------------------------------------------------------
\* The numbers the call is about, as the chain has them
Meant ==
    CASE kind = "header" -> <<source.pubKeys, source.parrentSiblings, source.dataHash,
                              source.blockHash, source.height>>
      [] kind = "root"   -> <<source.sender, source.bridge, source.root, source.dataHash>>
      [] kind = "claim"  -> <<source.bridge, source.receiver, source.amount,
                              source.token, source.key, source.root>>

\* The private numbers, as the chain, the block and the tree have them, but for
\* the block time, which is rounded
MeantHidden ==
    CASE kind = "header" -> <<Double(source.blockTime), source.A, source.signature>>
      [] kind = "root"   -> <<source.key>>
      [] kind = "claim"  -> source.siblings

\* The prover finds in the witness file the prime and, at their places, the
\* coordinates of every point, three chunks each that weigh up to it, and the
\* block time but for one part in MaxSafe, which is some 180 ns: a count of
\* nanoseconds is more than a JavaScript number holds (JSON, chunkBigInt, pad,
\* flatArray, toArray32 and calculateWTNSBin together).
PointsArrive ==
    wtns # <<>> /\ kind = "header" =>
        LET w == WitnessIn(wtns)
            first == 2 + Len(Fields[kind])
            at(i) == first + 1 + 3 * (i - 1)
        IN  /\ PrimeIn(wtns) = Prime
            /\ Len(w) = first + 3 * Len(source.A)
            /\ \A i \in DOMAIN source.A :
                  Value(ChunkBase, Reverse(SubSeq(w, at(i), at(i) + 2))) = source.A[i]
            /\ (w[first] - source.blockTime) * MaxSafe \in
                  -source.blockTime .. source.blockTime

\* The file has no other words than those of its two sections, and what the
\* prover finds in them is what the circuit computed.
FileReadsBack ==
    wtns # <<>> => /\ WitnessIn(wtns) = Witness
                   /\ Len(wtns) = Second(wtns) + 2 + BodyLength(wtns, Second(wtns))

\* A call that goes out says of every field what the chain says of it, through
\* all changes of numerals from the hex string to the argument.
SentIsMeant ==
    outcome = "sent" =>
        \A i \in DOMAIN call :
            (IF Fields[kind][i] = "number" THEN call[i][1] ELSE Value(Base, call[i]))
                = Meant[i]

\* Nothing but this is in the way of a proof.  A script panics only over a
\* validator that has not signed and a transaction that is not in the block.
\* The witness calculator throws only when what the circuit asserts is wrong of
\* the numbers the chain, the block and the tree themselves have, never because
\* a conversion has changed one (but for the rounded block time), or when the
\* transaction is longer than the circuit's, or in a block of more than four.
\* A call is refused when a hash that getProof.js does not pad (validatorHash,
\* dataHash and blockHash) begins with the digit 0, one hash in sixteen.
FailsForKnownReason ==
    /\ outcome = "panicked" =>
          \/ kind = "header" /\ source.signature = Absent
          \/ kind = "root" /\ source.key = -1
    /\ outcome = "threw" =>
          \/ ~Holds(kind, Meant, MeantHidden)
          \/ /\ kind = "root"
             /\ \/ source.body > BodySize
                \/ source.auth > AuthSize
                \/ source.txs > 4
    /\ outcome = "refused" =>
          \E i \in DOMAIN call : Fields[kind][i] = "hash" /\ Hex(Meant[i])[1] = 0
=============================================================================
