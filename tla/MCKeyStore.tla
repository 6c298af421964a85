----------------------------- MODULE MCKeyStore -----------------------------
(***************************************************************************)
(* Instances of KeyStore for TLC.                                          *)
(***************************************************************************)
EXTENDS KeyStore, TLC

CONSTANTS g1, g2, d, l, s, w1, w2

MCGenerators == {g1, g2}
MCDeleters == {d}
MCLoaders == {l}
MCViewers == {s}
MCPasswords == {w1, w2}
MCNone == {}
MCOnePassword == {w1}
MCSymmetry == Permutations({w1, w2})
=============================================================================
