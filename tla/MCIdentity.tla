----------------------------- MODULE MCIdentity -----------------------------
(***************************************************************************)
(* An instance of IdentityExchange for TLC.                                *)
(***************************************************************************)
EXTENDS IdentityExchange
=============================================================================
