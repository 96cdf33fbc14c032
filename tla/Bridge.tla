------------------------------- MODULE Bridge -------------------------------
(***************************************************************************)
(* What the bridge promises, without server, database, files or proofs:    *)
(* deposits are covered batch by batch in the order they were made, a      *)
(* coverage that was committed may become known on the other side, and     *)
(* what is paid there is a deposit of a known coverage, each at most once. *)
(***************************************************************************)
EXTENDS Integers, Sequences

CONSTANTS
    Payload,  \* what can be deposited
    Batch,    \* deposits covered at once
    Memory    \* coverages the other side remembers

VARIABLES
    deposits,  \* in the order they were made
    covered,   \* how many of them are covered
    commits,   \* the coverages committed so far
    known,     \* the last Memory coverages made known, oldest first
    paid       \* <<position, payload>> of the deposits paid out

bridgeVars == <<deposits, covered, commits, known, paid>>

Init ==
    /\ deposits = <<>>
    /\ covered = 0
    /\ commits = <<>>
    /\ known = <<>>
    /\ paid = {}

Deposit ==
    /\ \E p \in Payload : deposits' = Append(deposits, p)
    /\ UNCHANGED <<covered, commits, known, paid>>

\* At most a batch is covered; a commit may also cover nothing new.
Cover ==
    /\ covered' = IF Len(deposits) - covered < Batch THEN Len(deposits) ELSE covered + Batch
    /\ commits' = Append(commits, covered')
    /\ UNCHANGED <<deposits, known, paid>>

MakeKnown ==
    /\ \E i \in DOMAIN commits :
          known' = IF Len(known) < Memory THEN Append(known, commits[i])
                                          ELSE Append(Tail(known), commits[i])
    /\ UNCHANGED <<deposits, covered, commits, paid>>

Pay ==
    /\ \E i \in DOMAIN known : \E k \in 0 .. known[i] - 1 :
          /\ <<k, deposits[k + 1]>> \notin paid
          /\ paid' = paid \cup {<<k, deposits[k + 1]>>}
    /\ UNCHANGED <<deposits, covered, commits, known>>

Next == Deposit \/ Cover \/ MakeKnown \/ Pay

Spec == Init /\ [][Next]_bridgeVars
=============================================================================
