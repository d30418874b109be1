---------------------------- MODULE MCShareRelay ----------------------------
(***************************************************************************)
(* Model-checking instance of ShareRelay: requests are only compared.      *)
(***************************************************************************)
EXTENDS ShareRelay, TLC

RequestSymmetry == Permutations(Requests)
=============================================================================
