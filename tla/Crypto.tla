------------------------------- MODULE Crypto -------------------------------
(***************************************************************************)
(* The primitives of pkg/crypto as symbolic terms.  A key pair is a name;  *)
(* its public half is that name.  Two terms are equal exactly when the     *)
(* byte strings they stand for are (collisions and guesses are excluded).  *)
(***************************************************************************)

\* Ciphertext of MLKEMEncapsulate for the public key pk with the randomness
\* drawn by the named party.
Ciphertext(pk, by) == [to |-> pk, by |-> by]

\* The secret MLKEMDecapsulate computes with the key pair kp.  It is the one
\* the encapsulation of ct produced exactly when kp = ct.to: with any other
\* key ML-KEM succeeds too, and returns an unrelated secret.
Decapsulate(kp, ct) == [key |-> kp, ct |-> ct]

\* The secret MLKEMEncapsulate returns beside Ciphertext(pk, by).
EncapsulatedSecret(pk, by) == Decapsulate(pk, Ciphertext(pk, by))

\* HKDF over the two secrets, first ss_B2A then ss_A2B.
HKDF(ssB2A, ssA2B) == <<ssB2A, ssA2B>>

\* AESGCMEncrypt: nonce || ciphertext || tag.
Sealed(key, plain) == [kind |-> "sealed", key |-> key, plain |-> plain]

\* AESGCMDecrypt succeeds only on a whole ciphertext made with the same key.
Opens(key, body) == body.kind = "sealed" /\ body.key = key
=============================================================================
