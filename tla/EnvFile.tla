------------------------------- MODULE EnvFile -------------------------------
(***************************************************************************)
(* The file .env: the settings the server and the scripts start with and   *)
(* write back to (writeToEnvFile in solidity/scripts/utils/helper.js,      *)
(* rust/*.ts and src/src/services/UpdateDepositRoots.js).                  *)
(*                                                                         *)
(* The file is a sequence of lines.  Blank lines around them are trimmed   *)
(* by every writer and a missing file is written like an empty one, so     *)
(* that neither is represented.                                            *)
(***************************************************************************)
EXTENDS Naturals, Sequences

CONSTANTS Key,     \* the names a line can set
          Value,   \* what they are set to
          Unset    \* undefined in process.env

ASSUME EnvAssumption == Unset \notin Value

Line == [key : Key, value : Value]

\* The values a file gives for a key
Values(file, k) == {file[i].value : i \in {j \in DOMAIN file : file[j].key = k}}

HasKey(file, k) == \E i \in DOMAIN file : file[i].key = k

\* No key has two lines.
OneLinePer(file) == \A i, j \in DOMAIN file : file[i].key = file[j].key => i = j

\* process.env after dotenv.config(): read once, when a process starts
ProcessEnv(file) ==
    [k \in Key |-> IF HasKey(file, k) THEN CHOOSE v \in Values(file, k) : TRUE ELSE Unset]

\* Faulty: the line is appended although the key has one.
Updated_Appends(file, k, v) == Append(file, [key |-> k, value |-> v])

\* Faulty: the new line takes the place of the first one when the key is new.
Updated_Replaces(file, k, v) ==
    IF HasKey(file, k) \/ file = <<>>
    THEN [i \in DOMAIN file |-> IF file[i].key = k THEN [key |-> k, value |-> v] ELSE file[i]]
    ELSE [file EXCEPT ![1] = [key |-> k, value |-> v]]

\* The lines writeToEnvFile writes for those it has read
Updated(file, k, v) ==
    IF HasKey(file, k)
    THEN [i \in DOMAIN file |-> IF file[i].key = k THEN [key |-> k, value |-> v] ELSE file[i]]
    ELSE Append(file, [key |-> k, value |-> v])
=============================================================================
