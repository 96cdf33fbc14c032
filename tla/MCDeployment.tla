---------------------------- MODULE MCDeployment ----------------------------
(***************************************************************************)
(* Instances of Deployment for TLC.                                        *)
(***************************************************************************)
EXTENDS Deployment, TLC

\* The lines of .env_example that name a key or a contract
Checkout == <<"PRIVATE_KEY", "ETH_TOKEN", "ORAISAN_BRIDGE", "ORAISAN_GATE", "COSMOS_BLOCK_HEADER",
    "COSMOS_VALIDATORS", "COSMOS_BRIDGE", "VERIFIER_BLOCK_HEADER", "VERIFIER_CLAIM_TRANSACTION",
    "VERIFIER_ROOT_DEPOSIT", "VERIFIER_VALIDATOR_SIGNATURE", "VERIFIER_VALIDATORS_LEFT",
    "VERIFIER_VALIDATORS_RIGHT", "Lib_AddressManager">>

Keys == {Checkout[i] : i \in DOMAIN Checkout} \cup {"TX_HASH"}

Values0 == 0 .. MaxMade

CONSTANTS operator, other, put1, put2

\* One operator writes addresses and registers them, another relays roots by
\* hand and exchanges contracts, while the server serves two requests.
AllScripts ==
    (operator :> {Edit(<<"ORAISAN_GATE", "ETH_TOKEN">>), SetLibAddressManager})
    @@ (other :> {UpdateDepositRoot, Edit(<<"Lib_AddressManager">>)})
    @@ (put1 :> {UpdateDepositRoot}) @@ (put2 :> {UpdateDepositRoot})
=============================================================================
