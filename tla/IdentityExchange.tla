--------------------------- MODULE IdentityExchange ---------------------------
(***************************************************************************)
(* The identity phase: the second half of performHandshake and             *)
(* performHandshakeResponder of main.go over the IdentityExchange object   *)
(* of verifier.go.  A session starts with its session key derived.  The    *)
(* program never gets further against itself (module Session), so the peer *)
(* is one of another make: it holds the session key and an identity of its *)
(* own, frames what it sends, and sends what it likes.                     *)
(***************************************************************************)
EXTENDS Crypto, Integers, Sequences

CONSTANTS
  Sessions,     \* handshakes of one program; each names its session key
  Identities,   \* long-term key pairs; the peer may have the program's own
  MaxMessages,  \* bound: how many whole messages a peer sends in a session
  None          \* nil, or a key that is not the session's

ASSUME IdentityAssumption ==
  MaxMessages \in Nat /\ None \notin Identities \cup Sessions

VARIABLES
  role,      \* which of the two functions runs each session
  target,    \* the identity whose hash the user gave
  peer,      \* the identity of the peer
  pc,        \* the flag a driver waits for, or how it returned
  exchange,  \* the IdentityExchange of each session
  inbox,     \* messages on their way to the program
  sends,     \* how many whole messages the peer sent
  gone,      \* sessions whose connection broke or whose peer closed
  said,      \* history: the flags of what the program sent
  signed     \* history: what the peer signed

vars == <<role, target, peer, pc, exchange, inbox, sends, gone, said, signed>>
given == <<role, target, peer>>

\* What is sealed and signed.
PublicKey(i) == [kind |-> "key", of |-> i]
Nonce(from) == [kind |-> "nonce", from |-> from]
Signature(by, text) == [kind |-> "signature", by |-> by, text |-> text]

\* A text to sign: a nonce, a channel binding and a session ID, the session key.
\* The binding of the program's end is "own", any other is "other".
Text(nonce, binding, s) == <<nonce, binding, s>>

Returned == {"verified", "failed"}
Flags == {"challenge", "identity", "response"}

\* NewIdentityExchange, and for a dialer SendIdentity.
Init ==
  /\ role \in [Sessions -> {"dialer", "acceptor"}]
  /\ target \in [Sessions -> Identities] /\ peer \in [Sessions -> Identities]
  /\ pc = [s \in Sessions |-> IF role[s] = "dialer" THEN "challenge" ELSE "identity"]
  /\ exchange = [s \in Sessions |-> [peerKey |-> None, isVerified |-> FALSE]]
  /\ inbox = [s \in Sessions |-> <<>>] /\ sends = [s \in Sessions |-> 0]
  /\ gone = {}
  /\ said = [s \in Sessions |-> IF role[s] = "dialer" THEN {"identity"} ELSE {}]
  /\ signed = [s \in Sessions |-> {}]

-----------------------------------------------------------------------------
\* The peer.

\* A packet that completes no message: one of several, or one more than enough.
Part == [flag |-> "part", body |-> None]

\* What a nonce may be in the texts a peer signs: the one it decrypts, or what
\* it received.
Challenge(s) == Sealed(s, Nonce(s))
SignedAs(s) == {Nonce(s), Challenge(s)}

PeerSends(s, flag, body) ==
  /\ sends[s] < MaxMessages /\ s \notin gone
  /\ sends' = [sends EXCEPT ![s] = @ + 1]
  /\ inbox' = [inbox EXCEPT ![s] = Append(@, [flag |-> flag, body |-> body])]
  /\ UNCHANGED <<given, pc, exchange, gone, said>>

\* A key, its own or not, a nonce, or something the session key does not open.
Tellable(s) ==
  {Sealed(s, PublicKey(i)) : i \in Identities} \cup {Sealed(k, Nonce(None)) : k \in {s, None}}

PeerTells(s) ==
  /\ \E flag \in Flags, body \in Tellable(s) : PeerSends(s, flag, body)
  /\ UNCHANGED signed

\* A signature with its own key under a challenge it received.
PeerSigns(s) ==
  /\ "challenge" \in said[s]
  /\ \E nonce \in SignedAs(s), binding \in {"own", "other"} :
       LET text == Text(nonce, binding, s) IN
         /\ PeerSends(s, "response", Sealed(s, Signature(peer[s], text)))
         /\ signed' = [signed EXCEPT ![s] = @ \cup {text}]

\* Part of a message, without end; of those that no Recv has returned yet, one stands
\* for all.
PeerSendsPart(s) ==
  /\ s \notin gone
  /\ \A i \in DOMAIN inbox[s] : inbox[s][i] # Part
  /\ inbox' = [inbox EXCEPT ![s] = Append(@, Part)]
  /\ UNCHANGED <<given, pc, exchange, sends, gone, said, signed>>

PeerGoes(s) ==
  /\ s \notin gone
  /\ gone' = gone \cup {s}
  /\ UNCHANGED <<given, pc, exchange, inbox, sends, said, signed>>

-----------------------------------------------------------------------------
\* The driver: what follows when the message it waits for was taken, per role.
After(s) ==
  CASE pc[s] = "challenge" -> IF role[s] = "dialer" THEN "identity" ELSE "verified"
    [] pc[s] = "identity"  -> "response"
    [] pc[s] = "response"  -> IF role[s] = "dialer" THEN "verified" ELSE "challenge"

Got(s) == Head(inbox[s])

Take(s, flag) ==
  /\ pc[s] = flag /\ inbox[s] # <<>> /\ Got(s).flag = flag
  /\ inbox' = [inbox EXCEPT ![s] = Tail(@)]
  /\ UNCHANGED <<given, sends, gone, signed>>

Fail(s) == pc' = [pc EXCEPT ![s] = "failed"] /\ UNCHANGED said

\* Go on after a Send, which may fail when the peer is gone.
SendAndGoOn(s, flag) ==
  \/ pc' = [pc EXCEPT ![s] = After(s)] /\ said' = [said EXCEPT ![s] = @ \cup {flag}]
  \/ s \in gone /\ Fail(s)

\* HandleChallenge: sign whatever opens.
HandleChallenge(s) ==
  /\ Take(s, "challenge")
  /\ IF Opens(s, Got(s).body) THEN SendAndGoOn(s, "response") ELSE Fail(s)
  /\ UNCHANGED exchange

\* Mutant: the ID hash is not compared.
IsAnyKey(s, body) == Opens(s, body) /\ body.plain.kind = "key"

\* HandlePeerIdentity accepts the key whose hash the user gave.
IsTarget(s, body) == Opens(s, body) /\ body.plain = PublicKey(target[s])

HandlePeerIdentity(s) ==
  /\ Take(s, "identity")
  /\ IF IsTarget(s, Got(s).body)
     THEN /\ exchange' = [exchange EXCEPT ![s].peerKey = Got(s).body.plain.of]
          /\ SendAndGoOn(s, "challenge")
     ELSE Fail(s) /\ UNCHANGED exchange

\* The nonce that the drivers pass to VerifyResponse: what HandlePeerIdentity
\* returned, which is the challenge as it was sent.
Expected(s) == Challenge(s)

\* MLDSAVerify of the text that VerifyResponse reconstructs.
IsValid(s, body) == body.plain = Signature(exchange[s].peerKey, Text(Expected(s), "own", s))

\* Mutant: an invalid signature is no error, so the driver goes on.
IgnoreInvalid(s) ==
  /\ Take(s, "response")
  /\ IF ~Opens(s, Got(s).body) THEN Fail(s) /\ UNCHANGED exchange
     ELSE /\ exchange' = [exchange EXCEPT ![s].isVerified = IsValid(s, Got(s).body)]
          /\ IF role[s] = "acceptor" THEN SendAndGoOn(s, "identity")
             ELSE pc' = [pc EXCEPT ![s] = After(s)] /\ UNCHANGED said

\* VerifyResponse; an acceptor then sends its own identity.
VerifyResponse(s) ==
  /\ Take(s, "response")
  /\ IF ~(Opens(s, Got(s).body) /\ IsValid(s, Got(s).body)) THEN Fail(s) /\ UNCHANGED exchange
     ELSE /\ exchange' = [exchange EXCEPT ![s].isVerified = TRUE]
          /\ IF role[s] = "acceptor" THEN SendAndGoOn(s, "identity")
             ELSE pc' = [pc EXCEPT ![s] = After(s)] /\ UNCHANGED said

\* ReceiveFragmented returns another flag than the driver waits for.
WrongFlag(s) ==
  /\ pc[s] \in Flags /\ inbox[s] # <<>> /\ Got(s).flag \in Flags \ {pc[s]}
  /\ inbox' = [inbox EXCEPT ![s] = Tail(@)]
  /\ Fail(s)
  /\ UNCHANGED <<given, exchange, sends, gone, signed>>

\* The loop of ReceiveFragmented: a packet that completes no message, and one more
\* Recv, with five minutes more.
ReceiveNext(s) ==
  /\ pc[s] \in Flags /\ inbox[s] # <<>> /\ Got(s) = Part
  /\ inbox' = [inbox EXCEPT ![s] = Tail(@)]
  /\ UNCHANGED <<given, pc, exchange, sends, gone, said, signed>>

\* Mutant: Recv has no deadline.
OnlyWhenGone(s) ==
  /\ pc[s] \in Flags /\ s \in gone
  /\ Fail(s)
  /\ UNCHANGED <<given, exchange, inbox, sends, gone, signed>>

\* ReceiveFragmented returns an error: the peer is gone, what came is no packet, or
\* five minutes passed without one.
ReceiveFails(s) ==
  /\ pc[s] \in Flags
  /\ Fail(s)
  /\ UNCHANGED <<given, exchange, inbox, sends, gone, signed>>

Driver(s) ==
  \/ HandleChallenge(s) \/ HandlePeerIdentity(s) \/ VerifyResponse(s)
  \/ WrongFlag(s) \/ ReceiveNext(s) \/ ReceiveFails(s)

Peer(s) == PeerTells(s) \/ PeerSigns(s) \/ PeerSendsPart(s) \/ PeerGoes(s)

Next == \E s \in Sessions : Driver(s) \/ Peer(s)

Spec == Init /\ [][Next]_vars

\* Drivers go on, and five minutes pass.
FairSpec == Spec /\ \A s \in Sessions : WF_vars(Driver(s))
-----------------------------------------------------------------------------
\* What a peer can send.
Messages(s) ==
  [flag : Flags,
   body : Tellable(s) \cup {Sealed(s, Signature(peer[s], text)) : text \in signed[s]}]
    \cup {Part}

\* The types of the variables.  Who holds a peer key holds the one expected.
TypeOK ==
  /\ role \in [Sessions -> {"dialer", "acceptor"}]
  /\ target \in [Sessions -> Identities] /\ peer \in [Sessions -> Identities]
  /\ pc \in [Sessions -> Flags \cup Returned]
  /\ exchange \in [Sessions -> [peerKey : Identities \cup {None}, isVerified : BOOLEAN]]
  /\ \A s \in Sessions : exchange[s].peerKey \in {None, target[s]}
  /\ DOMAIN inbox = Sessions /\ \A s \in Sessions : inbox[s] \in Seq(Messages(s))
  /\ sends \in [Sessions -> 0..MaxMessages]
  /\ gone \subseteq Sessions
  /\ said \in [Sessions -> SUBSET Flags]
  /\ DOMAIN signed = Sessions
  /\ \A s \in Sessions : signed[s] \subseteq SignedAs(s) \X {"own", "other"} \X {s}

\* What the phase comes to, in the terms of Authentication.
Dialers == {s \in Sessions : role[s] = "dialer"}
Proved == {s \in Sessions : peer[s] = target[s] /\ Text(Challenge(s), "own", s) \in signed[s]}
Verified == {s \in Sessions : exchange[s].isVerified}
Shown == {s \in Sessions : "response" \in said[s]}
Open == {s \in Sessions : pc[s] = "verified"}
Over == {s \in Sessions : pc[s] \in Returned}

Abstract ==
  INSTANCE Authentication WITH
    dialers <- Dialers, proved <- Proved, verified <- Verified,
    shown <- Shown, open <- Open, over <- Over

\* README.md:18 and main.go:155: every step of the phase is a step of the abstract
\* authentication, or none: nobody is believed before it proved who it is, each end
\* proves itself in its turn, the last proof opens the channel, and a handshake
\* that returned shows, verifies and opens nothing more.
AuthenticationSpec == Abstract!ASpec

\* README.md:18: a channel is returned only when the peer is who the user asked
\* for and signed the challenge of this session with the binding of this end, and
\* after the program told and proved its own identity.
OpensOnlyToTarget ==
  \A s \in Sessions :
    pc[s] = "verified" =>
      /\ peer[s] = target[s]
      /\ Text(Challenge(s), "own", s) \in signed[s]
      /\ exchange[s].isVerified /\ said[s] = {"identity", "challenge", "response"}

\* README.md:194: "message = nonce_B || channel_binding", README.md:203: "Verify:
\* Ed25519Verify(DSA_pub_A, message, sig_A)", verifier.go:137: "Reconstruct the signed
\* message".  The peer asked for signed the nonce that it decrypted, as HandleChallenge
\* does, and the binding of this end: its response verifies.
HonestResponse(s) ==
  [flag |-> "response", body |-> Sealed(s, Signature(target[s], Text(Nonce(s), "own", s)))]

NonceSignerVerified ==
  [][\A s \in Sessions :
       /\ pc[s] = "response" /\ inbox[s] # <<>> /\ Got(s) = HonestResponse(s)
       /\ inbox'[s] = Tail(inbox[s])
       => exchange'[s].isVerified]_vars

\* main.go:295: an acceptor tells who it is, and proves it, only to a peer that it
\* verified.
AcceptorTellsLast ==
  \A s \in Sessions :
    role[s] = "acceptor" /\ said[s] \cap {"identity", "response"} # {} => exchange[s].isVerified

\* fragment.go:129, direct.go:147: the identity phase returns, whatever the peer sends or
\* leaves out, unless it sends packets for ever that complete no message: each of them
\* starts the five minutes anew.
Trickling(s) == \E i \in DOMAIN inbox[s] : inbox[s][i] = Part

IdentityPhaseReturns ==
  \A s \in Sessions : <>[]~Trickling(s) => <>(pc[s] \in Returned)
=============================================================================
