------------------------------ MODULE Session ------------------------------
(***************************************************************************)
(* performHandshake and performHandshakeResponder of main.go, from the     *)
(* dial to the return of Connect or Accept, over any number of concurrent  *)
(* connections: the KEM handshake, the identity phase as far as an end can *)
(* get, fragmentation, the reassembly buffer each client owns, broken      *)
(* connections and the read deadline of the transport.                     *)
(*                                                                         *)
(* A direct connection has a dialer "A" and an acceptor "B"; the acceptors *)
(* of all direct connections are goroutines of one server process with one *)
(* PQCClient, hence one FragmentBuffer.  In relay mode both ends dial.  An *)
(* end is one goroutine: it sends what it has queued, then waits for the   *)
(* message its code asks for next.                                         *)
(***************************************************************************)
EXTENDS KEMHandshake, Fragment

CONSTANTS
  Conns,        \* connections made in a run
  RelayConns,   \* those made through the relay
  MsgIDs,       \* values of the 32-bit random message ID
  RawTotals,    \* values of bytes 3-4 of a packet sent without a header
  MayDrop,      \* whether the network may break connections
  SlowPeers,    \* whether an end may wait 5 minutes for a peer still at work
  Server        \* the PQCClient of the server command

Ends == Conns \X {"A", "B"}
Peer(e) == IF e[2] = "A" THEN <<e[1], "B">> ELSE <<e[1], "A">>
Acceptor(e) == e[2] = "B" /\ e[1] \notin RelayConns

\* The PQCClient an end runs in: `connect' makes one per process.
Client(e) == IF Acceptor(e) THEN Server ELSE e
Clients == {Server} \cup Ends

ASSUME SessionAssumption ==
  /\ RelayConns \subseteq Conns
  /\ RawTotals \subseteq 0 .. MaxUint16 - 1
  /\ MayDrop \in BOOLEAN /\ SlowPeers \in BOOLEAN
  /\ Server \notin Ends /\ None \notin Ends

VARIABLES
  pc,          \* where the goroutine is; a flag while it waits for that message
  kem,         \* its KEMHandshake object
  sessionKey,  \* what DeriveSessionKey returned to it
  outq,        \* packets of the message it is sending
  net,         \* packets on their way to it
  inbox,       \* what ReceiveFragmented returned to it, before it is handled
  fragments,   \* the FragmentBuffer of each client
  dropped      \* connections the network broke

vars == <<pc, kem, sessionKey, outq, net, inbox, fragments, dropped>>

Flags == {"request", "agree", "finish", "challenge", "identity"}
Returned == {"identified", "failed"}

Init ==
  /\ pc = [e \in Ends |-> "idle"]
  /\ kem = [e \in Ends |-> NewKEMHandshake]
  /\ sessionKey = [e \in Ends |-> None]
  /\ outq = [e \in Ends |-> <<>>]
  /\ net = [e \in Ends |-> <<>>]
  /\ inbox = [e \in Ends |-> None]
  /\ fragments = [k \in Clients |-> {}]
  /\ dropped = {}

-----------------------------------------------------------------------------
\* The messages.  Sizes are those of ML-KEM-768, AES-GCM and Ed25519.

RequestSize == 1 + 2 + 1184 + 2 + 18
AgreeSize   == 1 + 2 + 1184 + 2 + 1088 + 2 + 18
FinishSize  == 1 + 2 + 1088
SealedIdentitySize == 12 + 32 + 16

\* The public identity key of an end.  The same two people, "A" and "B", are
\* at the two sides of every connection: a server expects one peer ID hash.
DSAPub(e) == e[2]

\* What is left of a packet whose first 13 bytes were taken for a header.
PastHeader(body) == [kind |-> "tail", of |-> body]

\* Mutant: SendIdentity sends the sealed key as every other message is sent.
FramedIdentityPackets(key, e, total, id) ==
  Fragments("identity", Sealed(key, DSAPub(e)), SealedIdentitySize, id)

\* SendIdentity hands its message to Transport.Send without a header: the
\* receiver finds the flag byte in place, the length of the sealed key where
\* the index is, and random bytes of the AES-GCM nonce in the other fields.
IdentityPackets(key, e, total, id) ==
  <<[flag |-> "identity", index |-> SealedIdentitySize, total |-> total,
     id |-> id, body |-> PastHeader(Sealed(key, DSAPub(e)))]>>

-----------------------------------------------------------------------------
\* One end closed the connection or the network broke it.
Broken(c) == c \in dropped \/ pc[<<c, "A">>] = "failed" \/ pc[<<c, "B">>] = "failed"

Blocked(e) == pc[e] \in Flags /\ outq[e] = <<>> /\ inbox[e] = None

\* The goroutine returns an error; Connect and Accept close the connection.
Fail(e) ==
  /\ pc' = [pc EXCEPT ![e] = "failed"]
  /\ outq' = [outq EXCEPT ![e] = <<>>]
  /\ inbox' = [inbox EXCEPT ![e] = None]

Dial(c) ==
  /\ pc[<<c, "A">>] = "idle"
  /\ pc' = [pc EXCEPT ![<<c, "A">>] = "start",
                      ![<<c, "B">>] = IF c \in RelayConns THEN "start" ELSE "request"]
  /\ UNCHANGED <<kem, sessionKey, outq, net, inbox, fragments, dropped>>

Initiate(e) ==
  /\ pc[e] = "start"
  /\ kem' = [kem EXCEPT ![e] = Initiated(@, e)]
  /\ \E id \in MsgIDs :
       outq' = [outq EXCEPT ![e] = Fragments("request", RequestMsg(e), RequestSize, id)]
  /\ pc' = [pc EXCEPT ![e] = "agree"]
  /\ UNCHANGED <<sessionKey, net, inbox, fragments, dropped>>

\* Transport.Send on a connection that still works.
SendPacket(e) ==
  /\ outq[e] # <<>>
  /\ ~Broken(e[1])
  /\ net' = [net EXCEPT ![Peer(e)] = Append(@, Head(outq[e]))]
  /\ outq' = [outq EXCEPT ![e] = Tail(@)]
  /\ UNCHANGED <<pc, kem, sessionKey, inbox, fragments, dropped>>

\* On a broken one the packet is lost, and the write may report it or not.
SendLost(e) ==
  /\ outq[e] # <<>>
  /\ Broken(e[1])
  /\ \/ outq' = [outq EXCEPT ![e] = Tail(@)] /\ UNCHANGED <<pc, inbox>>
     \/ Fail(e)
  /\ UNCHANGED <<kem, sessionKey, net, fragments, dropped>>

-----------------------------------------------------------------------------
\* One iteration of the loop of ReceiveFragmented.

Deliver(e, p, body) == inbox' = [inbox EXCEPT ![e] = [flag |-> p.flag, body |-> body]]

ReceiveWhole(e) ==
  LET p == Head(net[e]) IN
  /\ Blocked(e) /\ net[e] # <<>>
  /\ p.total = 1
  /\ net' = [net EXCEPT ![e] = Tail(@)]
  /\ Deliver(e, p, p.body)
  /\ UNCHANGED <<pc, kem, sessionKey, outq, fragments, dropped>>

ReceivePart(e) ==
  LET p == Head(net[e]) IN
  /\ Blocked(e) /\ net[e] # <<>>
  /\ p.total # 1
  /\ net' = [net EXCEPT ![e] = Tail(@)]
  /\ \E cleaned \in AfterCleanup(fragments[Client(e)]) :
       LET fb == Stored(cleaned, p) IN
       IF Complete(fb, p)
       THEN /\ Deliver(e, p, Reassembled(fb, p))
            /\ fragments' = [fragments EXCEPT ![Client(e)] = fb \ OfMessage(fb, p.id)]
       ELSE /\ fragments' = [fragments EXCEPT ![Client(e)] = fb]
            /\ UNCHANGED inbox
  /\ UNCHANGED <<pc, kem, sessionKey, outq, dropped>>

-----------------------------------------------------------------------------
\* What the goroutine does with the message it waited for.

Got(e, flag) == inbox[e] # None /\ inbox[e].flag = flag /\ pc[e] = flag
Body(e) == inbox[e].body
Consume(e) == inbox' = [inbox EXCEPT ![e] = None]

HandleRequest(e) ==
  /\ Got(e, "request")
  /\ IF ~TakesRequest(kem[e], Body(e)) THEN Fail(e) /\ UNCHANGED kem
     ELSE /\ kem' = [kem EXCEPT ![e] = RequestHandled(@, e, Body(e))]
          /\ \E id \in MsgIDs :
               outq' = [outq EXCEPT ![e] =
                 Fragments("agree", AgreeMsg(e, Ciphertext(Body(e).pk, e)), AgreeSize, id)]
          /\ pc' = [pc EXCEPT ![e] = "finish"]
          /\ Consume(e)
  /\ UNCHANGED <<sessionKey, net, fragments, dropped>>

HandleAgree(e) ==
  /\ Got(e, "agree")
  /\ IF ~TakesAgree(kem[e], Body(e)) THEN Fail(e) /\ UNCHANGED kem
     ELSE /\ kem' = [kem EXCEPT ![e] = AgreeHandled(@, Body(e))]
          /\ \E id \in MsgIDs :
               outq' = [outq EXCEPT ![e] =
                 Fragments("finish", FinishMsg(Ciphertext(Body(e).pk, e)), FinishSize, id)]
          /\ pc' = [pc EXCEPT ![e] = "derive"]
          /\ Consume(e)
  /\ UNCHANGED <<sessionKey, net, fragments, dropped>>

\* Once finish is written: DeriveSessionKey, then SendIdentity.
DeriveAndSendIdentity(e) ==
  /\ pc[e] = "derive" /\ outq[e] = <<>>
  /\ IF ~CanDerive(kem[e]) THEN Fail(e) /\ UNCHANGED sessionKey
     ELSE LET key == DerivedKey(kem[e]) IN
          /\ sessionKey' = [sessionKey EXCEPT ![e] = key]
          /\ \E total \in RawTotals, id \in MsgIDs :
               outq' = [outq EXCEPT ![e] = IdentityPackets(key, e, total, id)]
          /\ pc' = [pc EXCEPT ![e] = "challenge"]
          /\ UNCHANGED inbox
  /\ UNCHANGED <<kem, net, fragments, dropped>>

\* HandleFinish, then DeriveSessionKey.
HandleFinish(e) ==
  /\ Got(e, "finish")
  /\ LET h == FinishHandled(kem[e], Body(e)) IN
     IF ~(TakesFinish(kem[e], Body(e)) /\ CanDerive(h))
     THEN Fail(e) /\ UNCHANGED <<kem, sessionKey>>
     ELSE /\ kem' = [kem EXCEPT ![e] = h]
          /\ sessionKey' = [sessionKey EXCEPT ![e] = DerivedKey(h)]
          /\ pc' = [pc EXCEPT ![e] = "identity"]
          /\ Consume(e) /\ UNCHANGED outq
  /\ UNCHANGED <<net, fragments, dropped>>

\* The responder checks the identity; the model ends where it is accepted.
HandlePeerIdentity(e) ==
  /\ Got(e, "identity")
  /\ IF Opens(sessionKey[e], Body(e)) /\ Body(e).plain = DSAPub(Peer(e))
     THEN /\ pc' = [pc EXCEPT ![e] = "identified"]
          /\ Consume(e) /\ UNCHANGED outq
     ELSE Fail(e)
  /\ UNCHANGED <<kem, sessionKey, net, fragments, dropped>>

Unexpected(e) ==
  /\ inbox[e] # None /\ inbox[e].flag # pc[e]
  /\ Fail(e)
  /\ UNCHANGED <<kem, sessionKey, net, fragments, dropped>>

-----------------------------------------------------------------------------
\* Failures.

Drop(c) ==
  /\ MayDrop
  /\ pc[<<c, "A">>] # "idle" /\ c \notin dropped
  /\ dropped' = dropped \cup {c}
  /\ UNCHANGED <<pc, kem, sessionKey, outq, net, inbox, fragments>>

\* A blocked read reports a broken connection; packets in flight may be lost.
ReadError(e) ==
  /\ Blocked(e) /\ Broken(e[1])
  /\ Fail(e)
  /\ UNCHANGED <<kem, sessionKey, net, fragments, dropped>>

\* No packet is on its way and none will be sent.
Quiet(c) ==
  \A e \in {<<c, "A">>, <<c, "B">>} :
    net[e] = <<>> /\ (Blocked(e) \/ pc[e] \in Returned)

\* Mutant: Recv without SetReadDeadline.
NoDeadline(e) == FALSE

\* The read deadline of 5 minutes passes.
Timeout(e) ==
  /\ Blocked(e) /\ net[e] = <<>>
  /\ SlowPeers \/ Quiet(e[1])
  /\ Fail(e)
  /\ UNCHANGED <<kem, sessionKey, net, fragments, dropped>>

-----------------------------------------------------------------------------
Send(e) == SendPacket(e) \/ SendLost(e)
Receive(e) == ReceiveWhole(e) \/ ReceivePart(e)
Handle(e) ==
  \/ HandleRequest(e) \/ HandleAgree(e) \/ HandleFinish(e)
  \/ HandlePeerIdentity(e) \/ Unexpected(e)
Step(e) ==
  \/ Initiate(e) \/ Send(e) \/ Receive(e) \/ Handle(e) \/ DeriveAndSendIdentity(e)
GiveUp(e) == ReadError(e) \/ Timeout(e)

Next ==
  \/ \E c \in Conns : Dial(c) \/ Drop(c)
  \/ \E e \in Ends : Step(e) \/ GiveUp(e)

\* A goroutine that can run does, and a read that can only fail does: the
\* Go scheduler and the read deadline.  Nothing obliges anybody to dial.
Fairness == \A e \in Ends : WF_vars(Step(e)) /\ WF_vars(GiveUp(e))

Spec == Init /\ [][Next]_vars /\ Fairness
-----------------------------------------------------------------------------
\* What a body may be.
Ciphertexts == [to : Ends, by : Ends]
Secrets == [key : Ends, ct : Ciphertexts]
SealedIdentities ==
  [kind : {"sealed"}, key : Secrets \X Secrets, plain : {"A", "B"}]
Bodies ==
  [kind : {"request"}, pk : Ends]
    \cup [kind : {"agree"}, pk : Ends, ct : Ciphertexts]
    \cup [kind : {"finish"}, ct : Ciphertexts]
    \cup [kind : {"tail"}, of : SealedIdentities]

\* nil is not a key.
ASSUME NoneAssumption == None \notin Secrets \X Secrets

OptionalSecrets == Secrets \cup {None}
OptionalEnds == Ends \cup {None}
Handshakes ==
  [state : HandshakeState, keypair : OptionalEnds, peer : OptionalEnds,
   ssB2A : OptionalSecrets, ssA2B : OptionalSecrets]
Packets ==
  [flag : Flags, index : Nat, total : 0 .. MaxUint16 - 1, id : MsgIDs, body : Bodies]
Stores == [id : MsgIDs, index : Nat, body : Bodies]

\* The types of the variables.  Every message received is one that was sent:
\* none is Garbled.
TypeOK ==
  /\ pc \in [Ends -> {"idle", "start", "derive"} \cup Flags \cup Returned]
  /\ kem \in [Ends -> Handshakes]
  /\ sessionKey \in [Ends -> (Secrets \X Secrets) \cup {None}]
  /\ outq \in [Ends -> Seq(Packets)]
  /\ net \in [Ends -> Seq(Packets)]
  /\ inbox \in [Ends -> [flag : Flags, body : Bodies] \cup {None}]
  /\ fragments \in [Clients -> SUBSET Stores]
  /\ dropped \subseteq Conns

-----------------------------------------------------------------------------
\* Safety.

Keyed(e) == sessionKey[e] # None

\* Two ends that derived a session key derived the same one when they are the
\* two ends of one connection, and different ones otherwise, although the
\* acceptors run concurrently in one process.
KeyAgreement ==
  \A e, f \in Ends :
    Keyed(e) /\ Keyed(f) => (sessionKey[e] = sessionKey[f] <=> e[1] = f[1])

\* The end that made what a body consists of.
Author(body) ==
  CASE body.kind = "request" -> body.pk
    [] body.kind = "agree"   -> body.pk
    [] body.kind = "finish"  -> body.ct.by
    [] body.kind = "tail"    -> body.of.key[1].key
    [] OTHER                 -> None

\* An end is never given a message of another connection, or one of its own
\* side, although all acceptors reassemble in one FragmentBuffer and message
\* IDs may collide.  (The key that sealed an identity starts with a secret
\* of the dialer, so Author is the dialer there.)
NoCrossTalk ==
  \A e \in Ends : inbox[e] # None => Author(inbox[e].body) = Peer(e)

\* No peer identity is ever accepted, so neither Connect nor Accept returns a
\* channel: SendIdentity writes no fragment header, ReceiveFragmented reads one.
IdentityNeverAccepted == \A e \in Ends : pc[e] # "identified"

\* What the KEM phase achieves, as the abstract key exchange: an end holds a
\* key from the step that makes its handshake object ESTABLISHED.
HeldKey ==
  [e \in Ends |-> IF kem[e].state = "ESTABLISHED" THEN DerivedKey(kem[e]) ELSE None]
Exchange ==
  INSTANCE KeyExchange WITH key <- HeldKey, failed <- {e \in Ends : pc[e] = "failed"}
KeyExchangeSpec == Exchange!KXSpec

-----------------------------------------------------------------------------
\* The inductive invariant from which the safety properties are proved.

SecretB2A(c) == EncapsulatedSecret(<<c, "A">>, <<c, "B">>)
SecretA2B(c) == EncapsulatedSecret(<<c, "B">>, <<c, "A">>)
PipeKey(c) == HKDF(SecretB2A(c), SecretA2B(c))

Established(e) == kem[e].state = "ESTABLISHED"

\* Which goroutine is where: only acceptors answer requests.
ControlInv == \A e \in Ends :
  /\ pc[e] \in {"start", "agree", "derive", "challenge"} => ~Acceptor(e)
  /\ pc[e] \in {"request", "finish", "identity"} => Acceptor(e)
  /\ pc[e] \in {"idle", "start", "request"} => kem[e].state = "INIT"
  /\ pc[e] = "idle" => pc[Peer(e)] = "idle" /\ outq[e] = <<>> /\ inbox[e] = None
  /\ pc[e] # "identified"

\* What a handshake object holds in each state; the dialer is ESTABLISHED first.
KemInv == \A e \in Ends :
  /\ kem[e].state = "WAIT_AGREE" => kem[e].keypair = e
  /\ kem[e].state = "WAIT_FINISH" =>
       Acceptor(e) /\ kem[e].keypair = e /\ kem[e].ssB2A = SecretB2A(e[1])
  /\ Established(e) =>
       /\ e[1] \notin RelayConns
       /\ kem[e].ssB2A = SecretB2A(e[1]) /\ kem[e].ssA2B = SecretA2B(e[1])
       /\ Acceptor(e) => Established(Peer(e))
  /\ Keyed(e) => Established(e) /\ sessionKey[e] = PipeKey(e[1])

AgreeTo(e) == AgreeMsg(Peer(e), Ciphertext(e, Peer(e)))

\* The messages an end can be sent, by flag, when h is its peer's object.
Expected(e, h, flag, body) ==
  \/ flag = "request" /\ body = RequestMsg(Peer(e))
  \/ flag = "agree" /\ Acceptor(Peer(e)) /\ body = AgreeTo(e)
  \/ flag = "finish" /\ h.state = "ESTABLISHED" /\ body = FinishMsg(Ciphertext(e, Peer(e)))
  \/ flag = "identity" /\ Acceptor(e) /\ body = PastHeader(Sealed(PipeKey(e[1]), "A"))

ExpectedPacket(e, h, p) ==
  /\ p \in Packets
  /\ Expected(e, h, p.flag, p.body)
  /\ p.flag \in {"request", "finish"} => p.total = 1
  /\ p.flag = "agree" => p.total = 2 /\ p.index \in {0, 1}
  /\ p.flag = "identity" => p.index = SealedIdentitySize

MessageInv == \A e \in Ends :
  /\ \A i \in DOMAIN net[e] : ExpectedPacket(e, kem[Peer(e)], net[e][i])
  /\ \A i \in DOMAIN outq[e] : ExpectedPacket(Peer(e), kem[e], outq[e][i])
  /\ inbox[e] # None =>
       Expected(e, kem[Peer(e)], inbox[e].flag, inbox[e].body)

\* A dialer's buffer holds parts of its agree message; the server's holds
\* packets that had no header, all at the same index.
BufferInv ==
  /\ \A e \in Ends : ~Acceptor(e) =>
       \A f \in fragments[e] : f.index \in {0, 1} /\ f.body = AgreeTo(e)
  /\ \A f \in fragments[Server] : f.index = SealedIdentitySize

\* Everything above, together: what the whole state of the handshakes, the
\* messages on their way and the buffers have to do with each other.
SessionInv == TypeOK /\ ControlInv /\ KemInv /\ MessageInv /\ BufferInv

-----------------------------------------------------------------------------
\* Liveness.

Direct == Conns \ RelayConns
Dialled(c) == pc[<<c, "A">>] # "idle"
BothKeyed(c) == Keyed(<<c, "A">>) /\ Keyed(<<c, "B">>)

\* On a direct connection that stays up both ends derive a session key: the
\* agree message, the only one in two packets, is always reassembled.
KeyEstablishment ==
  \A c \in Direct : Dialled(c) ~> BothKeyed(c) \/ c \in dropped

\* Connect and Accept return, whatever the peer and the network do.
HandshakeReturns == \A c \in Conns :
  Dialled(c) ~> pc[<<c, "A">>] \in Returned /\ pc[<<c, "B">>] \in Returned

-----------------------------------------------------------------------------
\* What the documentation says and the code does not do.

\* README.md:464-466: a direct connection executes the complete handshake and
\* identity verification and ends in a channel.
HandshakeCompletes ==
  \A c \in Direct : Dialled(c) ~> pc[<<c, "B">>] = "identified" \/ c \in dropped

\* The same lines, for a connection via the relay server: already the shared
\* key is not established.
RelayKeyEstablishment ==
  \A c \in RelayConns : Dialled(c) ~> BothKeyed(c) \/ c \in dropped

\* verifier.go:137 reconstructs the signed message, of which the channel
\* binding is a part (README.md:194, 203): the binding an end computes after
\* it derived the key is the one its peer computes.
BindingAgreement ==
  \A c \in Conns : BothKeyed(c) =>
    ChannelBinding(kem[<<c, "A">>]) = ChannelBinding(kem[<<c, "B">>])
=============================================================================
