---------------------------- MODULE KEMHandshake ----------------------------
(***************************************************************************)
(* The KEMHandshake object of pkg/protocol/handshake.go: its fields as a   *)
(* record, its methods as operators on that record.  The mutex makes each  *)
(* method atomic.  isInitiator is stored by the code and never read; it is *)
(* left out, and so is StateFailed, which nothing ever assigns.            *)
(***************************************************************************)
EXTENDS Crypto, Sequences

CONSTANT None          \* nil: no key pair, no peer key, no secret, no message

HandshakeState == {"INIT", "WAIT_AGREE", "WAIT_FINISH", "ESTABLISHED"}

NewKEMHandshake ==
  [state |-> "INIT", keypair |-> None, peer |-> None,
   ssB2A |-> None, ssA2B |-> None]

-----------------------------------------------------------------------------
\* The three serialized messages; `kind' is the flag byte inside the message.

RequestMsg(pk) == [kind |-> "request", pk |-> pk]

AgreeMsg(pk, ct) == [kind |-> "agree", pk |-> pk, ct |-> ct]

FinishMsg(ct) == [kind |-> "finish", ct |-> ct]

-----------------------------------------------------------------------------
\* What a method demands before it changes the object: a message that
\* deserializes and, except for HandleRequest, the right state.

TakesRequest(h, msg) == msg.kind = "request"
TakesAgree(h, msg)   == h.state = "WAIT_AGREE" /\ msg.kind = "agree"
TakesFinish(h, msg)  == h.state = "WAIT_FINISH" /\ msg.kind = "finish"

-----------------------------------------------------------------------------
\* Methods that change the object.  kp names the key pair the method
\* generates and the randomness of its encapsulation.

Initiated(h, kp) == [h EXCEPT !.keypair = kp, !.state = "WAIT_AGREE"]

\* Mutant: the responder believes the exchange done when it has answered.
RequestHandledEarly(h, kp, req) ==
  [h EXCEPT !.keypair = kp,
            !.peer    = req.pk,
            !.ssB2A   = EncapsulatedSecret(req.pk, kp),
            !.state   = "ESTABLISHED"]

\* It always starts a fresh exchange, whatever went before.
RequestHandled(h, kp, req) ==
  [h EXCEPT !.keypair = kp,
            !.peer    = req.pk,
            !.ssB2A   = EncapsulatedSecret(req.pk, kp),
            !.state   = "WAIT_FINISH"]

\* Mutant: the two secrets stored under each other's name.
AgreeHandledSwapped(h, agr) ==
  [h EXCEPT !.ssA2B = Decapsulate(h.keypair, agr.ct),
            !.peer  = agr.pk,
            !.ssB2A = EncapsulatedSecret(agr.pk, h.keypair),
            !.state = "ESTABLISHED"]

AgreeHandled(h, agr) ==
  [h EXCEPT !.ssB2A = Decapsulate(h.keypair, agr.ct),
            !.peer  = agr.pk,
            !.ssA2B = EncapsulatedSecret(agr.pk, h.keypair),
            !.state = "ESTABLISHED"]

\* HandleFinish drops the key pair once the secret is out.
FinishHandled(h, fin) ==
  [h EXCEPT !.ssA2B   = Decapsulate(h.keypair, fin.ct),
            !.state   = "ESTABLISHED",
            !.keypair = None]

-----------------------------------------------------------------------------
\* Methods that only read it.

CanDerive(h) ==
  /\ h.state = "ESTABLISHED"
  /\ h.ssB2A # None
  /\ h.ssA2B # None

DerivedKey(h) == HKDF(h.ssB2A, h.ssA2B)

\* MyKEMPublicKey() || PeerPubkey(), where a nil key is an empty string.
ChannelBinding(h) ==
  (IF h.keypair = None THEN <<>> ELSE <<h.keypair>>) \o <<h.peer>>
=============================================================================
