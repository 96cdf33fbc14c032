----------------------------- MODULE MCTokenPairs -----------------------------
(***************************************************************************)
(* The instance of TokenPairs for TLC: two of each token, two requests.    *)
(***************************************************************************)
EXTENDS TokenPairs
=============================================================================
