---------------------------- MODULE MCProverInputs ----------------------------
(***************************************************************************)
(* A small instance of ProverInputs: ternary digits, hashes of four of     *)
(* them with none, one or more leading zeros, amounts and roots of one and *)
(* two words up to the prime, coordinates at the bounds of one, two and    *)
(* three chunks, block times beyond the numbers JavaScript holds, an       *)
(* absent validator, a transaction the block does not have, and            *)
(* transactions of one byte too few, of the circuit's length and of one    *)
(* byte too many.                                                          *)
(***************************************************************************)
EXTENDS ProverInputs

FewHashes == {0, 26, 27, 80}
FewHeights == {7, 50}
FewNumbers == {50, 6561, 1000002}
FewPaths == {<<50, 1000002>>, <<6561, 50>>}
FewTimes == {700, 70003, 499999}
FewPoints == {<<0, 124>>, <<4, 5>>, <<24, 25>>, <<121, 100>>}

\* Circuits that assert something of each number they are given: signatures are
\* good under some keys, transactions are at some places under a data hash, and
\* the root of a tree is one of the siblings.
FewHold(circuit, pub, priv) ==
    CASE circuit = "header" -> pub[1] # 80 /\ (pub[4] = 0 => priv[2][1] > 0) /\ priv[3] = 27
      [] circuit = "root"   -> pub[4] # 26 \/ priv[1] > 1
      [] circuit = "claim"  -> pub[6] = priv[1] \/ pub[6] = priv[2]
=============================================================================
