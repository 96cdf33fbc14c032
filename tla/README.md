# ZK-Bridge-Server in TLA+

ZK-Bridge-Server relays deposits from a bridge contract on a Cosmos chain to a
bridge contract on Ethereum.  A Node server watches the deposit queue of the
Cosmos contract, proves in zero knowledge that a batch of deposits was written
into a Merkle tree, sends the proof to Cosmos, proves to Ethereum that Cosmos
committed the new root, and makes the proofs with which a user withdraws.

Paths below are relative to the repository; the server's own code is under `src/`.

## 1. Inventory

| component | code | state | operations |
| --- | --- | --- | --- |
| deposit queue import | `src/services/QueryDepositQueue.js` | MongoDB collections `DepositTree` (one document meant) and `DepositInfor` (one row per deposit) | `queryDepositQueue` |
| batch proof | `src/services/GenerateProofUpdateRoot.js`, `circom/txs/fmt.js` | the module variable `tree` of fmt.js; `proof.json` and `public.json` under `resources/updateRootDepositToCosmosBridge` | `initialize`, `getTree`, `getSiblings`, `generateProofUpdateRoot` |
| root relay | `src/services/UpdateDepositRoots.js` | `tx_data.json`, `block.json`, `validators.json`, `block_header_commit.json`, `TX_HASH` in `.env` | `updateDepositRootToCosmosBridge`, `bridgeBlockHeader`, `generateProofEth`, `updateDepositRootOnEth` |
| handlers | `src/controller/Controller.js`, `src/router/QueryRouter.js` | none of their own | GET /query, PUT /update, DELETE /db, GET /proof/:key, GET /infor |
| deposit status | `src/controller/Controller.js` 65-118 | none; one answer is put together from two reads of the database and a call of Ethereum per row | GET /infor/:address |
| claim proof | `src/services/GenerateUserProof.js` | the same `tree`; files of the claim circuit | `generateUserProof` |
| token pairs | `src/controller/TokenController.js`, `src/services/SupportTokenPair.js` | collection `TokenPair`, pairs on both chains | add, list, remove |
| block header input | `go/verifyBlock`, `python/ed25519.py`, `circom/validator/genBlockHeaderInput.js`, `circom/utils.js` | files | pure computation |
| transaction proof input | `go/verifyTx`, `circom/txs/genInputUpdateDepositRootToEthBridge.js` | files | pure computation |
| witness and call | `circom/circuit/*/*_js/witness_calculator.js` and `generate_witness.js`, `solidity/scripts/utils/getProof.js` and `helper.js` | `witness.wtns`, `public.json` | pure computation |
| contracts on Ethereum | compiled artifacts, `solidity/scripts/sdk` | headers, current data hash, ring of deposit roots, spent claims, token pairs | called by child processes |
| contract on Cosmos | no source; messages in `src/services`, `rust/*.ts` | deposits, `n_leafs`, tree root | `deposit`, `update_deposit_tree`, queries |
| deployment | `writeToEnvFile` in UpdateDepositRoots.js and `rust/update-deposit-root.ts`, `solidity/scripts/sdk/examples/setLibAddressManager.js`; `solidity/deploy-upgrades/*.js` and `rust/deploy-cosmos-bridge.ts`, which end before they do anything | `.env`, the address manager on Ethereum | one process per script |
| command line scripts | `rust/*.ts`, `circom/txs/gen*.js`, `circom/helper.js`, `go/`, `solidity/scripts/sdk/examples` | `deposit_tree.json`, `depositInfo/deposit<k>.json`, and the files of the server | the steps of the README's activity flow, by hand |
| cron | `server.js` | none | created with `scheduled: false`, `job.start()` is commented out: it never runs |

**Interaction.** PUT /update calls, one after the other, the import, the batch
proof, the Cosmos update and the three Ethereum steps.  The steps hand their
results on through the database and through fixed file names, not through
return values, and nothing excludes a second request meanwhile.  Express starts
a handler per request; handlers interleave at every `await`.  `execSync` and the
file calls do not yield: from the last save in
`updateDepositRootToCosmosBridge` (line 210) to the answer no other handler runs.

**What is hard.** Two requests between two awaits of each other (rows inserted
twice, tree documents written back stale, proof and transaction files
overwritten, the tree in fmt.js replaced); deposits that arrive between the
query and the proof; a failure, a lost answer or a crash anywhere in a pipeline
that keeps no record of its progress; a transaction committed after its sender
gave up; DELETE /db under running handlers.  By hand the same steps are typed in
any order, from files that may be of an earlier step, batch or deployment, while
the server works over the same files.  Several processes rewrite `.env`.  And
every number changes its numeral five times between the chain and a call.

**What makes each component correct.**

* import: a row is the deposit the chain has under its key; with one request at
  a time rows are exactly the keys 0, 1, 2, ...; the stored `n_leafs` is never
  ahead of the chain and, with one request at a time, never goes back.
* batch proof: a proof made from current data is accepted, whatever the tree,
  the queue and the padding look like.  (One made from anything else is refused
  by the contract, which is an assumption about it.)
* relay: a root on Ethereum is one Cosmos has had; a request relays its own.
* the whole: what Ethereum pays was deposited, once per claim, and every deposit
  gets to Ethereum when the operator keeps calling.
* claim proof: it is about a deposit and that deposit's key, whatever other
  requests do to rows and tree; with one importing handler it answers for the
  key that was asked, under a root Ethereum may learn.
* status: what a user is told is so, and a later answer never shows less.
* token pairs: a POST of which no call fails adds the pair; in the code none does.
* command line: what Ethereum pays was deposited, whatever is typed; files that
  are current give a proof that is accepted; files that are right stay right.
* deployment: no address ends under another contract's name, no setting is lost
  while nobody looks at a half-written file, and a process that had `.env` to
  itself leaves the newest values in it, agreeing with the address manager.
* inputs: the number a contract is told is the number the chain has, and no
  conversion keeps a proof from being made, apart from limits that are listed.

## 2. Modules

| module | models | lines it stands for |
| --- | --- | --- |
| `MerkleTree` | the deposit tree and the statement of the batch circuit | fmt.js, GenerateProofUpdateRoot.js 32-56 |
| `CosmosBridge` | the Cosmos contract (external) and its queries | from the messages the server sends |
| `EthBridge` | block headers, deposit roots and claims on Ethereum (external) | from `solidity/scripts/sdk` and the compiled contracts |
| `BridgeServer` | the server: handlers, database, files, failures; composes the three above | QueryDepositQueue.js, GenerateProofUpdateRoot.js, UpdateDepositRoots.js, GenerateUserProof.js, Controller.js |
| `DepositStatus` | GET /infor beside the whole server; extends `BridgeServer` | Controller.js 65-118 |
| `TokenPairs` | the pairs in the registry, on Cosmos and in the database | TokenController.js, SupportTokenPair.js, the examples that register and delete |
| `CommandLine` | the bridge run by hand beside users and the server; composes the two contracts | `rust/*.ts`, `circom/txs/gen*.js`, `circom/helper.js`, `go/`, `solidity/scripts/sdk/examples` |
| `EnvFile` | `.env` as a sequence of lines, `process.env`, `writeToEnvFile` | UpdateDepositRoots.js 15-44 |
| `Deployment` | everything that reads and writes `.env` as processes | UpdateDepositRoots.js, setLibAddressManager.js, rdOwner.js, libAddressManager.js |
| `ProverInputs` | the numbers of a proof from the chain to the call, and what can stop them | go/verifyBlock/main.go, genBlockHeaderInput.js, utils.js, deposit_tree.go, witness_calculator.js, getProof.js |
| `Bridge` | the abstract specification: what the bridge promises, without server, database, files or proofs | - |
| `BridgeRefinement` | the mapping under which `BridgeServer` implements `Bridge` | - |
| `MCBridgeServer` | which calls the TLC instances serve, and their symmetry | - |
| `MCUserProof` | the same for the instances with GET /proof | - |
| `MCDepositStatus`, `MCTokenPairs`, `MCCommandLine`, `MCDeployment`, `MCProverInputs` | the TLC instances of these modules | - |
| `BridgeServer_proofs` | the theorems about `BridgeServer` | - |
| `OneImporter_proofs` | the theorems that need one importing slot: rows and tree document; trees in memory and the proofs made from them | - |
| `BridgeRefinement_proofs` | the theorem that it implements `Bridge` | - |
| `DepositStatus_proofs`, `Deployment_proofs`, `CommandLine_proofs`, `ProverInputs_proofs` | the theorems about these modules | - |

`CosmosBridge` and `EthBridge` extend `MerkleTree`; `BridgeServer` and `CommandLine`
extend both; `Deployment` extends `EnvFile`; `TokenPairs` and `ProverInputs` stand alone;
`BridgeRefinement` extends `BridgeServer` and instantiates `Bridge`.
An operator whose name ends in `_...` and whose comment begins with *Faulty* is
a variant of the definition after it with a plausible bug, kept to see each
property fail.

### How state and actions correspond to the code

* `rows` is DepositInfor sorted by key (the only order in which it is read);
  `treeDocs` is DepositTree in insertion order, because `findOne()` gives the
  first document and concurrent first imports can make two.
* `pc[r]` is the await request `r` is at, `loc[r]` its local variables.  An
  action is the code from one await to the next, with the answer it waited for.
* `loc[r].doc` and `loc[r].found` carry whether the document held was deleted
  since (`gone`): mongoose then throws DocumentNotFoundError in `save()`.
* `Saved` is what `save()` does with a loaded document: only fields that were
  given another value than the loaded one are written.  Two handlers can thus
  leave `n_leafs` of one query with `nqueue_leafs` of another.
* `trees` holds every tree `initialize()` made; the last one is the variable of
  fmt.js.  A handler keeps the handle of its own tree and asks `getSiblings` of
  the last one, as the code does (`BatchSiblings`).
* a root is the tree below it (Poseidon has no collisions), so that "the proof
  is about this root" is equality of trees.
* `files.tx`, `files.block`, `files.commit` are the heights whose data are on
  disk, `files.proof` the statement of the batch proof on disk.  Contents are
  abstracted to the height, since transaction, block and commit of a height are
  determined by it.
* `busy` is the request in the part without awaits.
* `Kinds` says which handlers are called in each slot, so that an instance can
  give one slot to imports and another to claim proofs.
* GET /proof runs `InitProof`, `FindProofTree`, `FindProofRows`, `ProveClaim`.  It
  takes the tree with `getTree()` after two reads (`FindProofRows`): the tree of
  whichever request initialized last, with whatever leaves that request wrote.
  The leaves of all rows are then written over it (`ClaimTrees`), the row at
  *position* `key` is taken (`ClaimInput`), and the siblings come from the
  module's tree.  The prover succeeds when they lead from the row's leaf at the
  row's key to the root (`ClaimProves`); `SamePath` compares the siblings level
  by level, because position and key may differ.  `given` is the set of proofs
  handed out.  From the last `findOne` to the answer there is nothing that waits
  for other handlers' changes, so that it is one action.
* `Fail` is a call that throws, `ExecuteTimeout` and `LateCommit` an update whose
  sender gave up, `EthAnswerLost` a mined transaction whose receipt is lost,
  `Crash` the end of the process: database, files and chains survive.

**DepositStatus.**

* `infor` is the one GET /infor in progress: the rows there were, the places of
  those still to be answered for (`todo`), the answer so far.  Each row below `n_leafs` costs a
  call of Ethereum (`AskSent`), in the order of the loop; meanwhile the server
  goes on and the rows and `n_leafs` in hand grow old.
* `who` stands for the payloads of the address asked for; that addresses may be
  spelled with capitals is left out.
* `shown` and `seen` record the answers and exist for the properties only.

**TokenPairs.**

* `docs` is the collection, `registry` the pairs on Ethereum, `supported` those on
  Cosmos; `removing` holds the `remove()` calls no handler waits for, each with the
  query it came from.
* `SupportTokenPair` is what the code does: it throws, so that POST leaves a
  registered pair that nobody supports.  No request ever adds a document: those
  there are were stored by something else.
* DELETE takes what `Selected` gives when that is at most one document: one that
  shares a single value with the query is enough, since the conditions are an `$or`.
* `Or` has Mongo's meaning of a condition on an undefined value: it matches a
  document without the field, which a pair may be as to its symbol.

**CommandLine.**

* `depositInfo` is the folder, by the number in the file name; a query writes
  over the files it has rows for and removes none (`Saved`).  `tx`, `block` and
  `commit` are the heights whose data are on disk, as in `BridgeServer`.
* A script that waits for the network is an action per answer: `cmd` is the
  script in progress and what it remembers.  `Abort` ends it anywhere.  A script
  that only computes is one action; it is disabled where the code throws.
* `NewValue` and `BatchInput` are the positions `genDepositTreeProof.js` takes:
  files in the order of their numbers, cut out by position, whatever the
  numbers are.
* `server` is PUT /update as far as it touches the same files, at its awaits.

**EnvFile and Deployment.**

* What runs: the server and `rust/update-deposit-root.ts` write `TX_HASH`
  (`Send`), `examples/setLibAddressManager.js` registers eleven addresses with the
  address manager (`SetAddress`), and an operator's editor puts addresses of
  contracts deployed by other means into `.env` (`DeployElsewhere`; external).
* What does not run: every deploy script of `solidity/deploy-upgrades` requires
  `../utils/helper` and `../sdk/libAddressManager` (deploy.js:2-3), which would be
  in `solidity/utils` and `solidity/sdk`; there is only `solidity/scripts/utils` and
  `solidity/scripts/sdk`, so that the script ends with MODULE_NOT_FOUND while it is
  loaded.  `rust/deploy-cosmos-bridge.ts` calls `ReadFile` (line 78), which nobody
  defines.  `DeployScript` is all of them: started, and ended without a trace.
* A process reads `.env` into `process.env` when it starts and never again
  (`ProcessEnv`), a request has the `process.env` of the server; `writeToEnvFile`
  reads, truncates and writes the file in three steps (`ReadFile`, `TruncateFile`,
  `WriteFile`), between which other processes run and after each of which this one
  may be stopped (`WriteFails`, `Exit`, `ServerExit`).  Two requests of one server
  do not interleave there, since the calls of the file system do not yield.
* Without `PRIVATE_KEY` neither the server nor a script that registers gets past
  `rdOwner.js`; without `COSMOS_BRIDGE` nothing is sent.
* An address or hash is the number of the contract or transaction; `made` says under
  which name, `registry` what each address manager has.
* `quiet` records whether anybody read `.env`, or was stopped, between a truncation
  and its write, `alone` whether a process had `.env` to itself.

**ProverInputs.**

* A number is a sequence of digits under `Base`; a hex string has the most
  significant digit first, chunks and 32-bit words the least significant.
* `source` is what the chain has, then one action per program: `input` (input.json),
  `wtns` (the file, word by word), `public` (public.json), `call` (the arguments).
* `Double` is what JavaScript does with a number of more digits than it holds.
  Heights and keys are below 2^53; amounts, roots and siblings are any field
  elements and stay strings.
* A program that panics or throws ends the chain (`outcome`): `VerifyBlockPanics` is
  the slice of an absent signature, `GetDepositTreeInput` the proof at place -1 of a
  transaction the block does not have, `GenerateWitness` a wrong name or size, or an
  assertion of the circuit, which `witness_calculator.js` throws on.
* What the circuits assert is not in the repository: the constant `Holds` is any
  predicate of the public and private numbers a circuit has (`Outputs`, `Hidden`).
* The prover, which reads the witness file, is not in the repository: `WitnessIn`
  follows the format of the file.

### Assumptions about what is not in the repository

* The Cosmos contract rebuilds the public inputs of a batch proof from its own
  state: the message carries the root and the proof only
  (UpdateDepositRoots.js 93-98).  It takes at most a batch from the queue.
  Whether it accepts a batch of padding only is not known; the constant
  `AllowEmptyBatch` gives both.
* A height carries one update of the bridge.  Two in one block would need the
  second proof made before the first was visible, which succeeds for batches of
  padding only.
* The validator set does not change between heights, so that `validators.json`,
  which is shared like the other files, is left out.
* The Ethereum contracts take a header of any height they do not have, an older
  one too; a deposit root only with a proof about the current header; a claim
  only against one of the last roots, once.

## 3. Runs

| run | instance | checks |
| --- | --- | --- |
| `server_concurrent` (`MCServerConcurrent.cfg`) | 2 concurrent requests out of PUT /update and DELETE /db, 3 deposits of 2 payloads, batches of 2, 2 calls of PUT /update, 1 failure, 2 claims, empty batches accepted | `TypeOK`, `EthRootsAreCosmosRoots`, `ClaimsBacked`, `RowsMatchChain`, `TreeDocNeverAhead`, `RelaysItsOwnRoot`, `ImplementsBridge` |
| `server_single` (`MCServerSingle.cfg`) | 1 request at a time out of GET /query and PUT /update, 3 deposits, batches of 2, 3 calls of PUT /update, 2 failures, empty batches refused | `RowsExact`, `FreshProofAccepted`, `TreeDocMonotone` |
| `server_live` (`MCServerLive.cfg`) | 1 request at a time, the operator repeats PUT /update while it is needed, 2 deposits, batches of 1, 2 failures | `EventuallyBridged` |
| `server_proofs` (`MCProofTwoImporters.cfg`) | 2 slots, one for GET /query and PUT /update, one for GET /query and GET /proof; 2 deposits, batches of 2 | `GivenBacked` |
| `server_proofs_one_importer` (`MCProofOneImporter.cfg`) | 3 slots, one for GET /query and PUT /update, two for GET /proof; 2 deposits, batches of 1, 4 calls | `GivenForAskedKey`, `GivenUnderPrefix` |
| `status` (`MCStatus.cfg`) | 1 importing request at a time and one GET /infor beside it, 2 deposits of 2 payloads, batches of 1, 2 calls, 1 failure, 2 claims | `ToldIsTrue`, `StatusNeverGoesBack` |
| `command_line` (`MCCommandLine.cfg`) | an operator, users and one PUT /update; 3 deposits of 2 payloads, batches of 2, capacity 5, one deposit file of an earlier deployment, ring of 2 roots, 2 claims, empty batches refused | `TypeOK`, `PaidWasDeposited`, `CurrentFilesProve`, `RightFilesStay` |
| `deployment` (`MCDeployment.cfg`) | an operator who edits and registers addresses, another who relays by hand or exchanges the address manager, and two PUT /update; 14 names in `.env`, 4 starts, 4 new contracts or transactions, 1 failure | `OneLinePerKey`, `EntriesAreGenuine`, `KeepsSettings`, `FinishedAgrees` |
| `prover_inputs` (`MCProverInputs.cfg`) | digits under 3, hashes of four of them with up to four leading zeros, coordinates at the bounds of one, two and three chunks, block times beyond `MaxSafe`, amounts, roots and siblings up to the prime, an absent signature, blocks of up to 6 transactions and a transaction that is in none, body and auth info one byte short, exact and one too long, circuits that assert something of every number | `PointsArrive`, `FileReadsBack`, `SentIsMeant`, `FailsForKnownReason` |
| `proof_for_key` (`MCProofTwoImportersKey.cfg`), a violation | as `server_proofs` | `GivenForAskedKey` |
| `status_after_root` (`MCServerStatus.cfg`), a violation | 1 request at a time, 1 update, no failure | `StatusFollowsRoot` |
| `token_pairs` (`MCTokenPairs.cfg`), a violation | 2 tokens on each chain, one symbol or none, 2 handlers, 1 document, 1 removal nobody waits for, 1 failure | `PairIsAdded` |

**Why these bounds.** Three deposits with batches of 2 give a full batch, a
padded batch, a queue longer than a batch and a deposit arriving in the middle
of a pipeline; two payloads make an exchange of leaves visible.  Two requests
are what it takes for every race listed (one overtakes the other between two of
its awaits); two updates let both commit on Cosmos and relay in either order.
One failure in the concurrent run is a crash, a timeout with a late commit or a
lost answer at any point; the single run allows two, so that the recovery may
fail again.  The ring of roots holds 2, so that three updates evict one.
In the live run nine calls are more than the two deposits and two failures can
use up, so that the bound on calls never stops the operator; batches are of 1 so
that a backlog takes several calls.

In the runs with GET /proof two slots make claim proofs beside the one that
updates the roots, so that the tree a proof takes can be another proof's or the
batch prover's, and be replaced once more before the siblings are taken; four
calls let two roots be relayed and two proofs be made.  The second importer of
`server_proofs` is what doubles rows.

In `status` one row is covered while the other waits, so that an answer mixes
both and a second answer follows a claim in between; batches are of 1 because the
size of a batch plays no part in it.  In `command_line` the shipped file
makes the first batch stale, three deposits leave one for a padded second batch,
and the server's update changes tree and files between any two of the operator's
steps.  In `deployment` three processes can overlap beside the server, or one fail
and the next take over, with one start left for the server itself; a second
address manager is one more than registered addresses can agree with.  In
`prover_inputs` every numeral is shorter than in the code, by the same rules, so
that all hashes and lengths around each bound are met; the digit count is what the
rules do not depend on.

**Deadlock** is checked in the runs of the server, of the status and of the prover
inputs: `Wait` is the idle server, `Done` the end of the chain of programs.  A
`BridgeBlockHeader` the contract refused would show as a deadlock.  It is not
checked in `command_line`, `token_pairs` and `deployment`, where the bounds on deposits,
updates, starts and failures end the behaviours.

**Fairness** (`server_live`): weak fairness of each request's next stretch of code,
since Node resumes a handler whose call was answered and every call ends with a
result or an error; and weak fairness of the operator's call while a deposit is
missing on Ethereum.  The second is an assumption about the operator: the cron
job that would do it is never started.  No fairness is given to late commits,
claims, deposits or failures.  The run takes `AllowEmptyBatch = TRUE`: when the
answer of a query is lost after the update was committed on Cosmos, the only
way to get that root to Ethereum is a further update, and without new deposits
that is a batch of padding.  If the contract refuses those, Ethereum stays
behind until the next deposit.

**What the concurrent run does not promise.** With two requests at a time rows
may be doubled.  The chain is safe from it (`EthRootsAreCosmosRoots`, `ClaimsBacked`), but later
batch proofs are refused until the database is repaired; and DELETE /db after
the first batch loses rows the queue no longer has, with the same effect.
`RowsExact`, `FreshProofAccepted` and `EventuallyBridged` therefore belong to
the runs with one request at a time and without DELETE /db; their theorems
assume `SingleImporter` (section 4).

**What the violations show.**

* `proof_for_key`: two handlers import one deposit twice, so that the rows have
  the keys 0, 0; GET /proof/1 then proves the row at position 1, which is the
  deposit with key 0 again, under a root with that deposit in two places.  The
  README bases the proof on the key (README.md:99); the code takes the position
  (GenerateUserProof.js:34).  `GivenBacked` still holds: what is proved was
  deposited.
* `status_after_root`: one undisturbed PUT /update puts the new root on Ethereum
  and answers; the stored `n_leafs` is the one read at its start.  README.md:99
  has the server update the status when the root is updated.  The status
  follows with the next GET /query or PUT /update.
* `token_pairs`: POST /token-pair registers the pair on Ethereum, and then
  `supportTokenPair` uses `client` two lines before it declares it
  (SupportTokenPair.js:41): the handler answers 500, Cosmos is never told and nothing
  is stored, although no call has failed.  The repeated call reverts on Ethereum.
  The API documents it as *Add token pair* (src/swagger/swagger.json:147).

**What reading the code showed.** No document of the repository promises the
contrary of these, so that they are no findings; they are in the models as they
are in the code.

* DELETE /token-pair with only a symbol selects every pair: the test for a
  missing symbol is inverted (TokenController.js:65).
* GET /infor says CAN_CLAIM from the moment the database knows the batch, before
  Ethereum has the root (Controller.js:95).
* `update-deposit-root.ts` saves transaction, block and validators, never
  `block_header_commit.json`: step 5 by hand proves the header the server saved last.
* `deposit0.json` to `deposit2.json` of an earlier deployment are in the repository
  and part of every batch until they are overwritten, since files are taken by
  position and never removed.  `PaidWasDeposited` holds because Cosmos refuses such
  a batch.  Files that do not parse are skipped without a word, which moves the
  positions of all later ones; the files of deposits that someone else put into
  the tree are never written, so that step 3 throws.
* `query-deposit-tree.ts` asks for tree and queue apart and names the files by the
  first answer: with an update in between, deposits get the numbers of others.
  `RightFilesStay` says that this is the only way.
* `genClaimDepositTransaction.js` proves the first deposit only, under the root that
  includes the next batch: the proof is good once that batch was relayed.
* validatorHash, dataHash and blockHash are passed to the contract without the
  zeros they may begin with, and refused then, one time in sixteen each
  (getProof.js:28).
* `blockTime` is a JSON number of nanoseconds and beyond 2^53: for the
  `input_python.json` in the repository the circuit is given a time 55 ns off.
* Siblings are filled up to two and never cut, the body to 922 bytes, the auth
  info to 109: the root of a transaction that is longer, or deep in a block of more
  than four, cannot be proved.
* The Go programs panic over a commit whose first validator is absent
  (verifyBlock/main.go:281) and over a transaction the block does not have
  (verifyTx/deposit_tree.go:73).  `FailsForKnownReason` says that besides these
  limits only the circuit's own verdict on the true numbers stops a proof.
* The length of the witness section is cut from its hex string in a way that is
  right below 2^32 only.  The other three copies of `witness_calculator.js` lack
  `normalize`, which matters for negative inputs, and there are none.

## 4. Theorems

`BridgeServer_proofs` proves, for every value of the constants (any number of
concurrent requests, deposits, failures, any batch size, capacity and length of
the ring of roots) under the assumptions named in the modules:

* `TypeCorrect`: `Spec => []TypeOK`
* `HeightsCorrect`: `Spec => []HeightsInv`
* `EthRootsCorrect`: `Spec => []EthRootsAreCosmosRoots`
* `ClaimsCorrect`: `Spec => []ClaimsBacked`
* `RowsCorrect`: `Spec => []RowsMatchChain`
* `TreeDocCorrect`: `Spec => []TreeDocNeverAhead`
* `GivenCorrect`: `Spec => []GivenBacked`
* `RelayCorrect`: `Spec => RelaysItsOwnRoot`
* `ServerImplementsBridge` (`BridgeRefinement_proofs`): `Spec => ImplementsBridge`

**The argument.** `TypeOK` alone is not inductive: the root pushed to Ethereum is
the one at height `files.tx`, and a timed out message goes to the mempool, so
that both have to be known to be defined.  `HeightsInv` (a request between its
transaction and its answer has a height of the chain; from the last save on,
commit and header are its own, because it holds the event loop) and `ControlInv`
(a proof is on disk where one is read, an item is left where one is saved) close
it; `TypeInv` is the conjunction.  `CosmosRootIsPrefix`, a lemma about
the assumed contract and no promise of the server, is kept by an accepted
update because an accepted statement writes exactly the expected batch
(`AcceptedRoot`) and because prefixes of the deposits never change
(`PrefixRootStays`); `TxRootsInv` carries that to all committed roots,
`HeightsInv` to the ring on Ethereum, and `ZeroAssumption` to the claims: the
leaf of a claim is not an empty one, so its index is below the prefix.
`AnswersInv` says that whatever a handler has read of the chain is still true of
the chain later, which gives `RowsMatchChain` and `TreeDocNeverAhead` however
long the handler was overtaken.  `GivenBacked` follows from the same invariant: the row a claim proof is made from
is among those the handler holds (`ClaimOfRow`), and the proof says nothing but
that row, so that neither doubled rows nor another request's tree can make it
prove something else.  `OthersWait` and `AnswerSources` isolate the
two facts about the control of a request that these proofs need.

**One importing slot.** `SingleImporter` says of the constant `Kinds` that no slot
serves DELETE /db and at most one serves GET /query or PUT /update; any number
may serve GET /proof.  It is how the instances `server_single`,
`server_proofs_one_importer` and `status` are set up, and the run `proof_for_key`
shows `GivenForAskedKey` broken with two importers.  Under it:

* `RowsExactCorrect`: `Spec => []RowsExact`, `AskedKeyCorrect`:
  `Spec => []GivenForAskedKey`, `TreeGrowsCorrect`: `Spec => TreeDocMonotone`
  (`OneImporter_proofs`).  That rows have no gap is a matter of the chain, not of the
  loop that stores them: the next query starts at the contract's `n_leafs`, so that
  a deposit which left the queue before it was stored would never be stored.
  `ExactInv` therefore follows the batch proofs: every one there is, in memory, on
  disk or in a transaction nobody waits for any more, moves only stored deposits
  (`ProofsInv`, `Covered`), so that `n_leafs` never passes the number of rows
  (`AcceptedIsStored`); with that the items of a queue count up from at most the
  number of rows (`QueueInv`), and the item inserted is the next row or is found.
* `UnderPrefixCorrect`: `Spec => []GivenUnderPrefix`, `FreshProofCorrect`:
  `Spec => []FreshProofAccepted` (`OneImporter_proofs`).  The tree of fmt.js is
  shared: PUT /update may find its tree filled by GET /proof and the other way
  round.  `TreesInv` says that every tree holds a prefix of the deposits and then
  empty leaves (`Prefixed`), and that the tree of a PUT /update under way holds no
  leaf beyond the stored `n_leafs` (`OwnTreeInv`), since GET /proof writes only rows
  below it (`UserTreeInv`).  Writing a prefix over a prefix gives the longer one
  unless padding falls on deposits (`UpdatedPrefixed`), and the second conjunct
  excludes that.  So `oldRoot` is the root of exactly the first `n_leafs` deposits
  (`GeneratedCurrent`), which is what the contract compares.
* `NeverBackCorrect`: `StatusSpec => StatusNeverGoesBack` (`DepositStatus_proofs`).
  The stored `n_leafs` and the claims only grow; what was last said of a key is still
  so (`SeenInv`), and the answer being put together is not below it (`AnswerInv`).

**The refinement.** `Bridge` has five variables: the deposits, how many are
covered, the coverages committed, the last ones made known, and what was paid.
Roots do not occur in it; the mapping reads a root as the number of its leaves
(`LeafCount`), which is right only for roots of prefixes of the deposits, and
that is what `BridgeInv` says of every root there is (`LeafCountOfPrefix`).
`OneChain` splits a step into one on Cosmos or one on Ethereum; the Cosmos
contract's update is `Cover` (`CoverStep`), the root that reaches Ethereum is
`MakeKnown` of a committed coverage (`MakeKnownStep`), a claim is `Pay`
(`PayStep`), and all else stutters: requests, database, files, headers, failures,
crashes, DELETE /db.

**The other modules.** Each theorem is for every value of the constants under the
assumptions its module names.

* `ToldCorrect`: `StatusSpec => []ToldIsTrue` (`DepositStatus_proofs`).  A step of
  the server is one of `BridgeServer` and a step of GET /infor changes nothing of it,
  so that `BridgeInv` holds throughout.  `InforInv` says that what the request holds
  of rows, `n_leafs` and claims was true when it was read; deposits, `n_leafs` and
  claims only grow, so that it is true for ever after (`TrueStays`).
* `OneLineCorrect`: `Spec => []OneLinePerKey`, and `GenuineCorrect`:
  `Spec => []EntriesAreGenuine` (`Deployment_proofs`).  The addresses are followed
  through every process and the server: what it read when it started, what it holds,
  the lines it is about to write are all of contracts or transactions made under
  their names, each at most once per key, and what was made stays (`MadeStays`).
* `SettingsKept`: `Spec => []KeepsSettings`.  Not inductive by itself: a process
  writes back the lines it read before it emptied the file.  `QuietInv` adds that
  as long as nobody read or was stopped in the gap, the lines every process holds
  have all names, so that writes may overlap and still lose none.
* `FinishedCorrect`: `Spec => FinishedAgrees`, under `ScriptAssumption`: no process
  writes and registers the same name (`setLibAddressManager.js` only registers, the
  others only write).  `AloneInv` says of a process that was alone since its start
  that nobody else runs and that its lines (`Lines`: the file, or what it holds while
  the file is empty) have the newest value of every name it wrote and agree with the
  registry about every name it registered (`Agreed`), the one in hand excepted
  (`InHand`), and that names it will register still have the values it was started
  with (`SettingsStand`): a line changed on the way would be registered with its old
  address.  That .env has one line for a name when the process starts is
  `OneLinePerKey`.
* `PaidCorrect`: `Spec => []PaidWasDeposited` (`CommandLine_proofs`).  Whatever the
  files say, the Cosmos contract accepts only the batch that comes next, so that
  its roots are prefix roots; a height in a file, in the shell or in the server is
  one of the chain (`HeightsInv`), so that a root that reaches Ethereum is one of
  them; and a claim is of a leaf that is not empty (`ZeroAssumption`).
* `FilesCorrect`: `Spec => RightFilesStay`.  While the tree did not grow since the
  first query, the rows of the second are those of the deposits whose names they
  get (`QueueRows`).
* `CurrentCorrect`: `Spec => []CurrentFilesProve`.  When the files are current,
  `Number(i)` is `i - 1`, since there are as many numbers below `k` as `k` says
  (`Below`), so that the leaves read are the deposits in order and then what the
  queue lacks of a batch (`CurrentValue`); the two trees made from them are the
  contract's root and the one after its next batch (`CurrentBatch`).
* `TypeCorrect`: `Spec => []TypeOK` of `CommandLine`, from the same invariant.

**Numerals.** `ProverInputs_proofs` is about numbers in digits, and digits are
recursive.  Its first part makes up for what the prover lacks: a set of naturals
has a least element because `<` is well-founded, so that what is in a set whenever
all below it is in the set is all of `Nat` (`Induction`; a set, since an operator
cannot be a parameter), and a recursion that goes down has a solution
(`Recursion`, made of its finite approximations).  With `Recursion` each recursive
definition of the module is shown to define what it says: `DigitsRec`, `ValueRec`,
`FlattenRec`, `DoubleRec`, `SplitRec`, `CountRec`.  Then the changes of numeral,
each by induction over the digits: digits are worth their number (`ValueDigits`),
pairs of them make bytes (`Bytes`), chunks and words in reversed order are worth it
too (`ChunksAre`, `Memory`), a file has its words where the reader looks (`File`,
`ReadBack`), and a double is off by at most one part in `MaxSafe` (`Doubles`).  The
inductive invariant `Inv` says that every file is what its program makes of the
file before it.  From it, for every base, prime, number of words and chunk size
that `NumeralAssumption` allows:

* `FileCorrect`: `Spec => []FileReadsBack`.  The two sections are where their lengths
  say (`Layout`), and a word cut off its hex string is right because a witness file
  is below `Radix` bytes.
* `SentCorrect`: `Spec => []SentIsMeant`.  What the circuit gets of a signal is the
  value in `input.json` when that is below the prime (`SignalIs`); so the public
  signals are what is meant (`OutputsAreMeant`, `PublicIsMeant`), and the argument
  made of one is worth it, padded or not (`SpeltOut`).
* `PointsCorrect`: `Spec => []PointsArrive`, for any number of coordinates: three
  chunks of each lie behind one another (`FlattenUniform`).
* `FailuresCorrect`: `Spec => []FailsForKnownReason`, for every predicate `Holds`.
  Every header, every claim and every transaction that fits gives each signal as many
  values as it has (`HeaderSettable`, `ClaimSettable`, `RootSettable`; a leaf of a
  block of at most four has at most two aunts, `FewAunts`), and the numbers the
  circuit asserts something of are the ones the chain, the block and the tree have
  (`OutputsAreMeant`, `HiddenIsMeant`: a signature and a point are put together from
  their bytes and chunks again), so that an assertion that fails is wrong of those;
  an address is padded to its length, and a hash that is not padded is short only
  when its first digit is 0.

`NumeralAssumption` says that hashes, amounts, roots and siblings are any field
elements, a hash of at most `HashDigits` digits, that the prime fits in `N32` words
and a coordinate in three chunks, that heights and keys are below `MaxSafe`, where
JavaScript numbers are exact, and that no witness file has `Radix` bytes.  The code's
numbers are such: digits under 16, forty of them in what the contracts get of a hash,
chunks under 2^85, `MaxSafe` 2^53, the BN254 prime in eight words, where a Poseidon
root takes up to 254 bits.  Amounts and roots are written to `input.json` as strings
and never pass through a JavaScript number.

**Only model-checked:** liveness, which is beyond the prover, and the three runs that
show a property violated.  Every other property of a run is stated by a theorem.

## 5. Not modelled

* `server.js`: it starts Express and creates a cron job it does not start.
* `avl-tree.js` and `process-string.js` in `solidity/scripts/sdk`, `circom/txs/testhash.js`, the functions of
  `circom/utils.js` on curves, `hardhat.config.js`, `getAddress.js`: nothing that runs
  calls them, or they keep no state.  `solidity/deploy-upgrades/upgrade-*.js` replaces
  code behind an address and leaves every address where it is.  What the deploy
  scripts would do if they could be loaded is not modelled; neither is
  `registerCosmosBridge.js`, which tells one contract of another and reads `.env` only.
* The sizes in `go/verifyTx/encode_tx.go`: generated protobuf code.  A byte that
  differed would make the transaction one the block does not have, at which
  `ProveRoot` throws.
* `go/verifyBlock/header_tree.go` calls the tree of a library; the arithmetic of
  signatures and curves (`python/ed25519.py`) is out of TLC's reach.
* The constraints of the circuits and the Solidity and Rust sources of the
  contracts are not in the repository: what they accept is modelled from what is
  sent to them.  Ownership and pausing of the contracts are left out.
* The two files of the claim circuit, which GET /proof writes and reads back
  between two awaits; `validators.json`, which only feeds the signature check of
  the header; logging.
* DELETE /db after the first batch loses rows the queue no longer has.  The runs
  with DELETE /db check safety only: the code does not promise to recover.

## 6. Plan

Done: the server with both contracts and its refinement of `Bridge`, the status,
the token pairs, the command line, the deployment and `.env`, the inputs of the
provers.  What could follow:

* A fair `Bridge` that `FairSpec` implements (model-checked).
* The Merkle tree layer by layer as fixed-merkle-tree builds it, checked against
  `MerkleTree`'s abstraction (paths, siblings, updates).
* The concurrent instance with three requests, and GET /query beside PUT /update,
  for a machine with more time than a few minutes.
