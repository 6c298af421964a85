---------------------------- MODULE MCNonceCache ----------------------------
(***************************************************************************)
(* An instance of NonceCache for TLC.                                      *)
(***************************************************************************)
EXTENDS NonceCache, TLC

MCSymmetry == Permutations(Keys) \cup Permutations(Callers)
=============================================================================
