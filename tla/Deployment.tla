------------------------------ MODULE Deployment ------------------------------
(***************************************************************************)
(* .env and those who read and write it while the bridge is set up and     *)
(* served.  The deploy scripts of solidity/deploy-upgrades are written to  *)
(* fill it but end when they are loaded, and rust/deploy-cosmos-bridge.ts  *)
(* ends before its upload, so that an operator puts addresses there with   *)
(* an editor.  The server and rust/update-deposit-root.ts write TX_HASH to *)
(* it; examples/setLibAddressManager.js registers its addresses with the   *)
(* address manager.  All of them run at the same time, know .env from when *)
(* their process started, and may be stopped anywhere.                     *)
(***************************************************************************)
EXTENDS EnvFile, FiniteSets

CONSTANTS Procs,      \* scripts, editors and requests running at the same time
          Requests,   \* those of them that are requests PUT /update of the server
          Scripts,    \* what each of them may be about
          Settings,   \* the names in .env at first, PRIVATE_KEY first
          MaxStarts,  \* bound on processes that are started
          MaxMade,    \* bound on contracts and transactions
          MaxFails    \* bound on processes that fail or are stopped

\* "send": make a transaction and write its hash; "edit": write the address of
\* a contract that was deployed elsewhere; "set": register an address
Command == [op : {"send", "edit", "set"}, key : Key \ {"PRIVATE_KEY"}]
Script  == Seq(Command) \ {<<>>}

ASSUME DeployAssumption ==
    /\ Value = 0 .. MaxMade
    /\ MaxMade \in Nat /\ MaxFails \in Nat /\ MaxStarts \in Nat
    /\ {"PRIVATE_KEY", "Lib_AddressManager", "COSMOS_BRIDGE"} \subseteq Key
    /\ Requests \subseteq Procs
    /\ \A p \in Procs : Scripts[p] \subseteq Script

\* Requests send; nobody writes and registers the same name in one process.
ASSUME ScriptAssumption ==
    /\ \A p \in Requests : \A s \in Scripts[p] : \A i \in DOMAIN s : s[i].op = "send"
    /\ \A p \in Procs : \A s \in Scripts[p] :
          \A i, j \in DOMAIN s : s[i].key = s[j].key => s[i].op = s[j].op

\* .env has one line per name.
ASSUME SettingsAssumption ==
    /\ Settings \in Seq(Key) /\ Len(Settings) \in 1 .. MaxMade + 1
    /\ Settings[1] = "PRIVATE_KEY"
    /\ \A i, j \in DOMAIN Settings : Settings[i] = Settings[j] => i = j

VARIABLES
    file,       \* .env
    made,       \* the name of every contract and transaction there is
    registry,   \* what each address manager has under each name
    server,     \* the server: whether it runs, with which process.env
    proc,       \* the processes
    quiet,      \* nobody read or stopped between a truncation and its write
    fails,      \* processes that failed or were stopped
    starts      \* processes that were started

vars == <<file, made, registry, server, proc, quiet, fails, starts>>

-----------------------------------------------------------------------------
(* What processes are about.                                               *)

Commands(o, names) == [i \in DOMAIN names |-> [op |-> o, key |-> names[i]]]

SetLibAddressManager == Commands("set", <<"ORAISAN_GATE", "ORAISAN_BRIDGE",
    "COSMOS_BLOCK_HEADER", "COSMOS_VALIDATORS", "VERIFIER_BLOCK_HEADER",
    "VERIFIER_VALIDATOR_SIGNATURE", "VERIFIER_VALIDATORS_LEFT", "VERIFIER_VALIDATORS_RIGHT",
    "VERIFIER_ROOT_DEPOSIT", "VERIFIER_CLAIM_TRANSACTION", "ETH_TOKEN">>)

UpdateDepositRoot == Commands("send", <<"TX_HASH">>)

Edit(names) == Commands("edit", names)

-----------------------------------------------------------------------------
Env == [Key -> Value \cup {Unset}]

Stopped == [at |-> "stopped"]

Active == [at    : {"next", "read", "truncate", "write"},
           env   : Env,                            \* process.env
           todo  : Script,
           all   : Script,
           addr  : Value,                          \* what it is about to write
           data  : Seq(Line),                      \* the lines it has read
           alone : BOOLEAN]    \* nothing else ran meanwhile, all was written

Proc == {Stopped} \cup Active

TypeOK ==
    /\ file \in Seq(Line)
    /\ made \in Seq(Key)
    /\ registry \in [Value -> Env]
    /\ server \in [up : BOOLEAN, env : Env]
    /\ proc \in [Procs -> Proc]
    /\ quiet \in BOOLEAN
    /\ fails \in 0 .. MaxFails
    /\ starts \in 0 .. MaxStarts

Running == {p \in Procs : proc[p] # Stopped}

Writing == {p \in Running : proc[p].at \in {"truncate", "write"}}

\* The file a checkout comes with: contract i has line i + 1.
Init ==
    /\ file = [i \in DOMAIN Settings |-> [key |-> Settings[i], value |-> i - 1]]
    /\ made = Tail(Settings)
    /\ registry = [m \in Value |-> [k \in Key |-> Unset]]
    /\ server = [up |-> FALSE, env |-> [k \in Key |-> Unset]]
    /\ proc = [p \in Procs |-> Stopped]
    /\ quiet = TRUE
    /\ fails = 0
    /\ starts = 0

CountStart == starts < MaxStarts /\ starts' = starts + 1
CountFail  == fails < MaxFails /\ fails' = fails + 1

\* The server does not start without a key to sign with (rdOwner.js).
StartServer ==
    /\ ~server.up
    /\ CountStart
    /\ HasKey(file, "PRIVATE_KEY")
    /\ server' = [up |-> TRUE, env |-> ProcessEnv(file)]
    /\ UNCHANGED <<file, made, registry, proc, quiet, fails>>

\* A request has the process.env of the server, everything else reads .env.
\* A script that registers ends at once without a key to sign with.
Start(p, s) ==
    /\ proc[p] = Stopped
    /\ CountStart
    /\ p \in Requests => server.up
    /\ (\E i \in DOMAIN s : s[i].op = "set") => HasKey(file, "PRIVATE_KEY")
    /\ proc' = [q \in Procs |->
                  IF q = p THEN [at |-> "next",
                                 env |-> IF p \in Requests THEN server.env ELSE ProcessEnv(file),
                                 todo |-> s, all |-> s, addr |-> 0, data |-> <<>>,
                                 alone |-> Running = {}]
                  ELSE IF q \in Running THEN [proc[q] EXCEPT !.alone = FALSE] ELSE proc[q]]
    /\ UNCHANGED <<file, made, registry, server, quiet, fails>>

\* A deploy script of deploy-upgrades requires modules that are not where it looks
\* for them; deploy-cosmos-bridge.ts calls a function that is not defined.
\* Both end before they have deployed or written anything.
DeployScript ==
    /\ CountStart
    /\ UNCHANGED <<file, made, registry, server, proc, quiet, fails>>

\* The process goes on as n.
Go(p, n) == proc' = [proc EXCEPT ![p] = n]

\* The first thing to do is done; the process ends after the last.
After(p, alone) ==
    Go(p, IF Len(proc[p].todo) = 1 THEN Stopped
          ELSE [proc[p] EXCEPT !.at = "next", !.todo = Tail(@), !.addr = 0, !.data = <<>>,
                               !.alone = alone])

Done(p) == After(p, proc[p].alone)

Key1(p) == Head(proc[p].todo).key

Makes(p) ==
    /\ Len(made) < MaxMade
    /\ made' = Append(made, Key1(p))
    /\ Go(p, [proc[p] EXCEPT !.at = "read", !.addr = Len(made) + 1])
    /\ UNCHANGED <<file, registry, server, quiet, fails, starts>>

\* updateDepositTree() for the bridge in process.env; "" is no address.
Send(p) ==
    /\ proc[p].at = "next" /\ Head(proc[p].todo).op = "send"
    /\ proc[p].env["COSMOS_BRIDGE"] # Unset
    /\ Makes(p)

\* A contract is deployed by other means.
DeployElsewhere(p) ==
    /\ proc[p].at = "next" /\ Head(proc[p].todo).op = "edit"
    /\ Makes(p)

\* setLib_AddressManager(k, a), with the manager of process.env
Registers(p, k, a) ==
    /\ proc[p].env["Lib_AddressManager"] # Unset
    /\ registry' = [registry EXCEPT ![proc[p].env["Lib_AddressManager"]][k] = a]
    /\ UNCHANGED <<file, made, server, quiet, fails, starts>>

\* Faulty: the names are registered one further in the list.
SetAddress_Shifted(p) ==
    /\ proc[p].at = "next" /\ Head(proc[p].todo).op = "set"
    /\ Len(proc[p].todo) > 1 /\ proc[p].env[proc[p].todo[2].key] # Unset
    /\ Registers(p, Key1(p), proc[p].env[proc[p].todo[2].key])
    /\ Done(p)

\* One name of examples/setLibAddressManager.js
SetAddress(p) ==
    /\ proc[p].at = "next" /\ Head(proc[p].todo).op = "set"
    /\ proc[p].env[Key1(p)] # Unset
    /\ Registers(p, Key1(p), proc[p].env[Key1(p)])
    /\ Done(p)

-----------------------------------------------------------------------------
(* writeToEnvFile: three calls of the file system.  Other processes run in *)
(* between, other requests of the same server do not.                      *)

ReadFile(p) ==
    /\ proc[p].at = "read"
    /\ p \in Requests => Writing \cap Requests = {}
    /\ Go(p, [proc[p] EXCEPT !.at = "truncate", !.data = file])
    /\ quiet' = (quiet /\ \A q \in Running : proc[q].at # "write")
    /\ UNCHANGED <<file, made, registry, server, fails, starts>>

TruncateFile(p) ==
    /\ proc[p].at = "truncate"
    /\ file' = <<>>
    /\ Go(p, [proc[p] EXCEPT !.at = "write"])
    /\ UNCHANGED <<made, registry, server, quiet, fails, starts>>

\* Faulty: the line is written with the value of process.env.
WriteFile_OldValue(p) ==
    /\ proc[p].at = "write"
    /\ LET old == proc[p].env[Key1(p)]
       IN  file' = Updated(proc[p].data, Key1(p), IF old = Unset THEN proc[p].addr ELSE old)
    /\ Done(p)
    /\ UNCHANGED <<made, registry, server, quiet, fails, starts>>

WriteFile(p) ==
    /\ proc[p].at = "write"
    /\ file' = Updated(proc[p].data, Key1(p), proc[p].addr)
    /\ Done(p)
    /\ UNCHANGED <<made, registry, server, quiet, fails, starts>>

\* An error of these calls is logged and the script goes on.
WriteFails(p) ==
    /\ proc[p].at \in {"read", "truncate", "write"}
    /\ CountFail
    /\ quiet' = (quiet /\ proc[p].at # "write")
    /\ After(p, FALSE)
    /\ UNCHANGED <<file, made, registry, server, starts>>

\* A call fails, its answer is lost, a setting is undefined, or the process is
\* stopped; a request is never stopped alone while it writes.
Exit(p) ==
    /\ p \in Running
    /\ p \in Requests => p \notin Writing
    /\ CountFail
    /\ quiet' = (quiet /\ proc[p].at # "write")
    /\ Go(p, Stopped)
    /\ UNCHANGED <<file, made, registry, server, starts>>

\* The server is stopped, with every request in it.
ServerExit ==
    /\ server.up
    /\ CountFail
    /\ server' = [server EXCEPT !.up = FALSE]
    /\ quiet' = (quiet /\ \A p \in Requests \cap Running : proc[p].at # "write")
    /\ proc' = [p \in Procs |-> IF p \in Requests THEN Stopped ELSE proc[p]]
    /\ UNCHANGED <<file, made, registry, starts>>

Step(p) == \/ Send(p) \/ DeployElsewhere(p) \/ SetAddress(p)
           \/ ReadFile(p) \/ TruncateFile(p) \/ WriteFile(p)

Next == \/ \E p \in Procs : \/ \E s \in Scripts[p] : Start(p, s)
                            \/ Step(p) \/ WriteFails(p) \/ Exit(p)
        \/ StartServer \/ ServerExit \/ DeployScript

Spec == Init /\ [][Next]_vars
-----------------------------------------------------------------------------
\* However many processes write .env, and wherever they are stopped, no
\* setting ever has two lines (dotenv would take the last one and
\* writeToEnvFile change both).
OneLinePerKey == OneLinePer(file)

\* No address ends up under another contract's name, in .env or with an
\* address manager, although addresses are written back from what was read
\* earlier and registered from what .env had when the process started.
EntriesAreGenuine ==
    /\ \A i \in DOMAIN file :
          file[i].key # "PRIVATE_KEY" =>
              file[i].value \in DOMAIN made /\ made[file[i].value] = file[i].key
    /\ \A m \in Value, k \in Key :
          registry[m][k] # Unset =>
              /\ registry[m][k] \in DOMAIN made /\ made[registry[m][k]] = k
              /\ m \in DOMAIN made /\ made[m] = "Lib_AddressManager"

\* Writes of .env may overlap: as long as nobody reads it between the
\* truncation and the write of another, and nobody is stopped there, no name
\* it came with is ever lost, except between those two.
KeepsSettings ==
    quiet /\ (\A p \in Running : proc[p].at # "write") =>
        \A i \in DOMAIN Settings : HasKey(file, Settings[i])

\* a is the last contract or transaction of the name k among all.
Newest(all, a, k) == /\ a \in DOMAIN all /\ all[a] = k
                     /\ \A b \in DOMAIN all : b > a => all[b] # k

\* A process that ends without an error and had .env to itself leaves in it
\* the newest address or hash of every name it wrote, and .env and the address
\* manager it was started with in agreement about every name it registered,
\* whatever others left behind when they failed.
FinishedAgrees ==
    [][\A p \in Procs :
          /\ proc[p] # Stopped /\ proc'[p] = Stopped
          /\ fails' = fails
          /\ proc[p].alone
          => \A i \in DOMAIN proc[p].all :
                LET k == proc[p].all[i].key
                    m == proc[p].env["Lib_AddressManager"]
                IN  /\ HasKey(file', k)
                    /\ \A v \in Values(file', k) :
                          IF proc[p].all[i].op = "set" THEN v = registry'[m][k]
                          ELSE Newest(made', v, k)
      ]_vars
=============================================================================
