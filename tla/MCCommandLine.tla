---------------------------- MODULE MCCommandLine ----------------------------
(***************************************************************************)
(* Instances of CommandLine for TLC.                                       *)
(***************************************************************************)
EXTENDS CommandLine

CONSTANT p1    \* a payload

\* The checkout has the file of one deposit, of an earlier contract.
OneShipped == <<p1>>
=============================================================================
