------------------------------ MODULE TokenPairs ------------------------------
(***************************************************************************)
(* The token pairs of the bridge in three places: the registry of          *)
(* OraisanBridge on Ethereum, the pairs CosmosBridge supports, and the     *)
(* collection TokenPair of the server.  POST and DELETE /token-pair        *)
(* (src/src/controller/TokenController.js) and the scripts that change the *)
(* registry by hand run at the same time; an action is the code from one   *)
(* await to the next.                                                      *)
(***************************************************************************)
EXTENDS FiniteSets, Naturals

CONSTANTS CosmosTokens, EthTokens, Symbols, None,
          Requests,     \* slots for requests served at the same time
          DocIds,       \* _id of the documents
          MaxFails,     \* bound on failed calls
          MaxRemovals   \* a DELETE comes while fewer removals are under way

VARIABLES
    docs,        \* the collection TokenPair
    registry,    \* cosmosToEthTokenAddress of OraisanBridge
    supported,   \* the pairs CosmosBridge supports
    req,         \* the request in each slot
    removing,    \* remove() calls nobody waits for, with the query they follow
    fails        \* failed calls so far

vars == <<docs, registry, supported, req, removing, fails>>

-----------------------------------------------------------------------------
Pair == [cosmosTokenAddress : CosmosTokens, ethTokenAddress : EthTokens,
         symbol : Symbols \cup {None}]

\* Query parameters: each may be missing.
Query == [cosmosTokenAddress : CosmosTokens \cup {None},
          ethTokenAddress : EthTokens \cup {None}, symbol : Symbols \cup {None}]

Doc == [id : DocIds, pair : Pair]

Idle == [at |-> "idle"]

OnChains(p) == <<p.cosmosTokenAddress, p.ethTokenAddress>>

\* The collection outlives the server: it holds pairs that Cosmos supports,
\* some without a symbol, which is not required.
Init ==
    /\ docs \in {D \in SUBSET Doc : \A d, e \in D : d.id = e.id => d = e}
    /\ supported = {OnChains(d.pair) : d \in docs}
    /\ registry \in [CosmosTokens -> EthTokens \cup {None}]
    /\ req = [r \in Requests |-> Idle]
    /\ removing = {}
    /\ fails = 0

-----------------------------------------------------------------------------
Goto(r, s) == req' = [req EXCEPT ![r] = s]

\* A call fails: 500 from the catch of the handler.
Fail(r) ==
    /\ req[r] # Idle
    /\ fails < MaxFails
    /\ fails' = fails + 1
    /\ Goto(r, Idle)
    /\ UNCHANGED <<docs, registry, supported, removing>>

ReceivePost(r, p) ==
    /\ req[r] = Idle
    /\ Goto(r, [at |-> "register", pair |-> p])
    /\ UNCHANGED <<docs, registry, supported, removing, fails>>

\* registerTokenPair on Ethereum reverts for a token that was registered;
\* otherwise it is mined, and the pair is read back.
Registered(p) == registry' = [registry EXCEPT ![p.cosmosTokenAddress] = p.ethTokenAddress]

RegisterTokenPair(r) ==
    /\ req[r].at = "register"
    /\ \/ /\ registry[req[r].pair.cosmosTokenAddress] = None
          /\ Registered(req[r].pair)
          /\ Goto(r, [at |-> "support", pair |-> req[r].pair])
       \/ /\ registry[req[r].pair.cosmosTokenAddress] # None
          /\ Goto(r, Idle)
          /\ UNCHANGED registry
    /\ UNCHANGED <<docs, supported, removing, fails>>

\* supportTokenPair throws: its first statement uses client, which it
\* declares two lines below.  Nothing after it is ever reached, neither the
\* message to Cosmos nor the save of the document.
SupportTokenPair(r) ==
    /\ req[r].at = "support"
    /\ Goto(r, Idle)
    /\ UNCHANGED <<docs, registry, supported, removing, fails>>

\* $or of the three conditions; a parameter that is missing is sent as null
\* and matches a document without that field.
Or(d, q) == \/ d.pair.cosmosTokenAddress = q.cosmosTokenAddress
            \/ d.pair.ethTokenAddress = q.ethTokenAddress
            \/ d.pair.symbol = q.symbol

\* What GET /token-pair answers
Listed(q) ==
    IF q.cosmosTokenAddress # None \/ q.ethTokenAddress # None \/ q.symbol # None
    THEN {d \in docs : Or(d, q)} ELSE docs

\* What DELETE /token-pair selects: the conditions are left out when symbol is
\* the only parameter.
Selected(q) ==
    IF q.cosmosTokenAddress # None \/ q.ethTokenAddress # None \/ q.symbol = None
    THEN {d \in docs : Or(d, q)} ELSE docs

ReceiveDelete(r, q) ==
    /\ req[r] = Idle
    /\ Cardinality(removing) < MaxRemovals
    /\ Goto(r, [at |-> "find", query |-> q])
    /\ UNCHANGED <<docs, registry, supported, removing, fails>>

\* More than one document is an error.  The remove() of a single one is
\* started and not awaited: the answer is sent before it is done.
RemoveTokenPair(r) ==
    /\ req[r].at = "find"
    /\ LET list == Selected(req[r].query)
       IN  removing' = IF Cardinality(list) > 1 THEN removing
                       ELSE removing \cup (list \X {req[r].query})
    /\ Goto(r, Idle)
    /\ UNCHANGED <<docs, registry, supported, fails>>

-----------------------------------------------------------------------------
\* The database removes a document by its _id, if it is still there.
Removed(d, q) ==
    /\ <<d, q>> \in removing
    /\ removing' = removing \ {<<d, q>>}
    /\ docs' = docs \ {d}
    /\ UNCHANGED <<registry, supported, req, fails>>

\* A remove() that fails is an unhandled rejection, which ends the process
\* with every request in it; other removals may still arrive.
RemoveFails(d, q) ==
    /\ <<d, q>> \in removing
    /\ fails < MaxFails
    /\ fails' = fails + 1
    /\ removing' = removing \ {<<d, q>>}
    /\ req' = [r \in Requests |-> Idle]
    /\ UNCHANGED <<docs, registry, supported>>

\* examples/registerTokenPair.js
RegisterByHand(p) ==
    /\ registry[p.cosmosTokenAddress] = None
    /\ Registered(p)
    /\ UNCHANGED <<docs, supported, req, removing, fails>>

\* examples/deleteTokenPair.js, the only way off the registry
DeleteByHand(c) ==
    /\ registry[c] # None
    /\ registry' = [registry EXCEPT ![c] = None]
    /\ UNCHANGED <<docs, supported, req, removing, fails>>

Serve(r) == RegisterTokenPair(r) \/ SupportTokenPair(r) \/ RemoveTokenPair(r)

Next ==
    \/ \E r \in Requests : \/ \E p \in Pair : ReceivePost(r, p)
                           \/ \E q \in Query : ReceiveDelete(r, q)
                           \/ Serve(r) \/ Fail(r)
    \/ \E d \in Doc, q \in Query : Removed(d, q) \/ RemoveFails(d, q)
    \/ \E p \in Pair : RegisterByHand(p)
    \/ \E c \in CosmosTokens : DeleteByHand(c)

Spec == Init /\ [][Next]_vars

-----------------------------------------------------------------------------
\* A POST that registered its pair on Ethereum and of which no call failed has
\* added the pair: it ends with a document for it (addToken, supportTokenPair).
PairIsAdded ==
    [][\A r \in Requests :
          req[r].at = "support" /\ req'[r] = Idle /\ fails' = fails
          => \E d \in docs' : d.pair = req[r].pair
      ]_vars
=============================================================================
