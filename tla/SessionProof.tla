---------------------------- MODULE SessionProof ----------------------------
(***************************************************************************)
(* Proofs about Session, for any connections, message IDs, raw packets,    *)
(* cleanup limits and network behaviour.                                   *)
(***************************************************************************)
EXTENDS Session, FiniteSetTheorems, TLAPS

-----------------------------------------------------------------------------
\* The two ends of a connection.

\* Peer is an involution that stays on the connection, and the peer of an
\* acceptor is the dialer "A" of a direct connection.
LEMMA PeerFacts ==
  ASSUME NEW e \in Ends
  PROVE  /\ Peer(e) \in Ends /\ Peer(Peer(e)) = e /\ Peer(e) # e
         /\ Peer(e)[1] = e[1] /\ e[1] \in Conns
         /\ Acceptor(e) => /\ ~Acceptor(Peer(e)) /\ e[1] \notin RelayConns
                           /\ e = <<e[1], "B">> /\ Peer(e) = <<e[1], "A">>
         /\ ~Acceptor(e) /\ e[1] \notin RelayConns =>
              e = <<e[1], "A">> /\ Peer(e) = <<e[1], "B">> /\ Acceptor(Peer(e))
BY DEF Ends, Peer, Acceptor

\* Clients are the ends and the server, and an acceptor runs in the server.
LEMMA ClientFacts ==
  ASSUME NEW e \in Ends
  PROVE  /\ Client(e) \in Clients /\ e \in Clients /\ Server \in Clients
         /\ Acceptor(e) => Client(e) = Server
         /\ ~Acceptor(e) => Client(e) = e
         /\ e # Server
BY SessionAssumption DEF Client, Clients

\* Dialers keep apart buffers, so two ends share one only in the server.
LEMMA ClientApart ==
  ASSUME NEW e \in Ends, NEW f \in Ends, ~Acceptor(f), Client(e) = f
  PROVE  e = f /\ ~Acceptor(e)
BY ClientFacts

-----------------------------------------------------------------------------
\* Keys and messages.

\* The session key of a connection identifies it.
LEMMA PipeKeyFacts ==
  ASSUME NEW c \in Conns, NEW d \in Conns
  PROVE  /\ PipeKey(c) \in Secrets \X Secrets
         /\ PipeKey(c) = PipeKey(d) => c = d
         /\ SecretB2A(c) \in Secrets /\ SecretA2B(c) \in Secrets
         /\ PipeKey(c)[1].key = <<c, "A">>
         /\ PipeKey(c) # None
<1>1. /\ SecretB2A(c) \in Secrets /\ SecretA2B(c) \in Secrets
      /\ SecretB2A(c).key = <<c, "A">> /\ SecretB2A(d).key = <<d, "A">>
  BY DEF SecretB2A, SecretA2B, EncapsulatedSecret, Decapsulate, Ciphertext,
         Secrets, Ciphertexts, Ends
<1>2. PipeKey(c) = <<SecretB2A(c), SecretA2B(c)>> /\ PipeKey(d)[1] = SecretB2A(d)
  BY DEF PipeKey, HKDF
<1> QED BY <1>1, <1>2, NoneAssumption

\* Fragmentation of the four messages sent in a handshake.
LEMMA TotalFacts ==
  /\ FragmentTotal(RequestSize) = 1 /\ FragmentTotal(AgreeSize) = 2
  /\ FragmentTotal(FinishSize) = 1 /\ SealedIdentitySize = 60
BY DEF FragmentTotal, RequestSize, AgreeSize, FinishSize, SealedIdentitySize,
       MaxFragmentSize, MaxUint16

\* An expected message is one of the bodies, and its author is the peer.
LEMMA ExpectedFacts ==
  ASSUME NEW e \in Ends, NEW h, NEW flag, NEW body, Expected(e, h, flag, body)
  PROVE  /\ flag \in Flags /\ body \in Bodies
         /\ Author(body) = Peer(e)
         /\ flag = "request" => body = RequestMsg(Peer(e))
         /\ flag = "agree" => body = AgreeTo(e) /\ Acceptor(Peer(e))
         /\ flag = "finish" => /\ body = FinishMsg(Ciphertext(e, Peer(e)))
                               /\ h.state = "ESTABLISHED"
         /\ flag = "identity" => body.kind = "tail" /\ Acceptor(e)
<1> DEFINE P == Peer(e)
<1>0. P \in Ends BY PeerFacts
<1>1. CASE flag = "request"
  <2>1. body = [kind |-> "request", pk |-> P]
    BY <1>1 DEF Expected, RequestMsg
  <2>2. body \in Bodies BY <2>1, <1>0 DEF Bodies
  <2> QED BY <1>1, <2>1, <2>2 DEF Author, Flags, RequestMsg
<1>2. CASE flag = "agree"
  <2>1. /\ body = [kind |-> "agree", pk |-> P, ct |-> [to |-> e, by |-> P]]
        /\ Acceptor(P) /\ body = AgreeTo(e)
    BY <1>2 DEF Expected, AgreeTo, AgreeMsg, Ciphertext
  <2>2. body \in Bodies BY <2>1, <1>0 DEF Bodies, Ciphertexts
  <2> QED BY <1>2, <2>1, <2>2 DEF Author, Flags
<1>3. CASE flag = "finish"
  <2>1. /\ body = [kind |-> "finish", ct |-> [to |-> e, by |-> P]]
        /\ h.state = "ESTABLISHED"
    BY <1>3 DEF Expected, FinishMsg, Ciphertext
  <2>2. body \in Bodies BY <2>1, <1>0 DEF Bodies, Ciphertexts
  <2> QED BY <1>3, <2>1, <2>2 DEF Author, Flags, FinishMsg, Ciphertext
<1>4. CASE flag = "identity"
  <2>1. /\ Acceptor(e)
        /\ body = [kind |-> "tail",
                   of |-> [kind |-> "sealed", key |-> PipeKey(e[1]), plain |-> "A"]]
    BY <1>4 DEF Expected, PastHeader, Sealed
  <2>2. e[1] \in Conns /\ P = <<e[1], "A">> BY <2>1, PeerFacts
  <2>3. PipeKey(e[1]) \in Secrets \X Secrets /\ PipeKey(e[1])[1].key = P
    BY <2>2, PipeKeyFacts
  <2>4. body \in Bodies BY <2>1, <2>3 DEF Bodies, SealedIdentities
  <2>5. body.kind = "tail" /\ body.of.key[1].key = P BY <2>1, <2>3
  <2> QED BY <1>4, <2>1, <2>4, <2>5 DEF Author, Flags
<1> QED BY <1>1, <1>2, <1>3, <1>4 DEF Expected

\* What an end may be sent stays so while its peer's object stays established.
LEMMA ExpectedStable ==
  ASSUME NEW e, NEW h, NEW g, h.state = "ESTABLISHED" => g.state = "ESTABLISHED"
  PROVE  /\ \A flag, body : Expected(e, h, flag, body) => Expected(e, g, flag, body)
         /\ \A p : ExpectedPacket(e, h, p) => ExpectedPacket(e, g, p)
BY DEF Expected, ExpectedPacket

-----------------------------------------------------------------------------
\* The elements of a queue after a packet left it or joined it.
LEMMA TailElements ==
  ASSUME NEW S, NEW q \in Seq(S), q # <<>>
  PROVE  /\ Tail(q) \in Seq(S) /\ Head(q) \in S
         /\ 1 \in DOMAIN q /\ Head(q) = q[1]
         /\ \A i \in DOMAIN Tail(q) : i + 1 \in DOMAIN q /\ Tail(q)[i] = q[i + 1]
OBVIOUS

LEMMA AppendElements ==
  ASSUME NEW S, NEW q \in Seq(S), NEW x \in S
  PROVE  /\ Append(q, x) \in Seq(S)
         /\ \A i \in DOMAIN Append(q, x) :
              Append(q, x)[i] = x \/ (i \in DOMAIN q /\ Append(q, x)[i] = q[i])
OBVIOUS

-----------------------------------------------------------------------------
\* The reassembly buffer.

\* Cleanup only removes, and storing adds the one fragment.
LEMMA BufferFacts ==
  ASSUME NEW fb, NEW p, NEW cleaned \in AfterCleanup(fb)
  PROVE  /\ cleaned \subseteq fb
         /\ \A f \in Stored(cleaned, p) :
              f \in fb \/ f = [id |-> p.id, index |-> p.index, body |-> p.body]
BY DEF AfterCleanup, Stored

\* A message in two parts that is complete is reassembled from both.
LEMMA Reassembly ==
  ASSUME NEW fb, NEW p, NEW b, p.total = 2, Complete(fb, p),
         \A f \in OfMessage(fb, p.id) :
           f \in [id : {p.id}, index : {0, 1}, body : {b}]
  PROVE  Reassembled(fb, p) = b
<1> DEFINE r(i) == [id |-> p.id, index |-> i, body |-> b]
           O == OfMessage(fb, p.id)
<1>1. O \subseteq {r(0), r(1)}
  <2> SUFFICES ASSUME NEW f \in O PROVE f \in {r(0), r(1)} OBVIOUS
  <2>1. f \in [id : {p.id}, index : {0, 1}, body : {b}] OBVIOUS
  <2>2. f = [id |-> p.id, index |-> f.index, body |-> b] /\ f.index \in {0, 1} BY <2>1
  <2> QED BY <2>2
<1>2. \A i, j : i # j => r(i) # r(j)
  <2> SUFFICES ASSUME NEW i, NEW j, r(i) = r(j) PROVE i = j OBVIOUS
  <2> QED OBVIOUS
<1> HIDE DEF r, O
<1>3. IsFiniteSet(O) /\ Cardinality(O) \in Nat /\ Cardinality(O) <= 2
  <2>1. IsFiniteSet({r(1)}) /\ Cardinality({r(1)}) = 1 BY FS_Singleton
  <2>2. IsFiniteSet({r(1)} \cup {r(0)}) /\ Cardinality({r(1)} \cup {r(0)}) <= 2
    BY <2>1, FS_AddElement
  <2>3. O \subseteq {r(1)} \cup {r(0)} BY <1>1
  <2> QED BY <2>2, <2>3, FS_Subset, FS_CardinalityType
<1>4. Cardinality(O) = 2
  <2>1. Cardinality(O) % MaxUint16 = 2 BY DEF Complete, O
  <2> QED BY <1>3, <2>1 DEF MaxUint16
<1>5. ASSUME NEW x, O \subseteq {x} PROVE FALSE
  <2>1. IsFiniteSet({x}) /\ Cardinality({x}) = 1 BY FS_Singleton
  <2>2. Cardinality(O) <= 1 BY <1>5, <2>1, FS_Subset
  <2> QED BY <1>4, <2>2
<1>6. O = {r(0), r(1)} BY <1>1, <1>5
<1> DEFINE parts == {f \in O : f.index < p.total}
           indices(f) == {g.index : g \in {h \in parts : h.body = f.body}}
           whole == {f \in parts : indices(f) = 0 .. p.total - 1}
<1>7. \A i : r(i).index = i /\ r(i).body = b BY DEF r
<1>8. parts = {r(0), r(1)} BY <1>6, <1>7
<1>9. r(0) \in whole /\ whole \subseteq {r(0), r(1)}
  <2>1. {h \in parts : h.body = r(0).body} = {r(0), r(1)} BY <1>7, <1>8
  <2>2. indices(r(0)) = {0, 1} BY <2>1, <1>7
  <2>3. 0 .. p.total - 1 = {0, 1} OBVIOUS
  <2>4. r(0) \in parts BY <1>8
  <2>5. whole \subseteq {r(0), r(1)} BY <1>8
  <2> QED BY <2>2, <2>3, <2>4, <2>5
<1>10. Reassembled(fb, p) = IF whole = {} THEN Garbled ELSE (CHOOSE f \in whole : TRUE).body
  BY DEF Reassembled, O
<1> HIDE DEF whole
<1>11. (CHOOSE f \in whole : TRUE) \in whole BY <1>9
<1> QED BY <1>7, <1>9, <1>10, <1>11

\* A fragment whose index all others share is alone with its message ID.
LEMMA LoneFragment ==
  ASSUME NEW fb, NEW p, p.total # 1, \A f \in fb : f.index = p.index
  PROVE  ~Complete(Stored(fb, p), p)
<1> DEFINE q == [id |-> p.id, index |-> p.index, body |-> p.body]
<1>1. OfMessage(Stored(fb, p), p.id) = {q}
  BY DEF OfMessage, Stored
<1>2. Cardinality({q}) = 1 BY FS_Singleton
<1>3. 1 % MaxUint16 = 1 BY DEF MaxUint16
<1> QED BY <1>1, <1>2, <1>3 DEF Complete

-----------------------------------------------------------------------------
\* The initial states.
LEMMA InitInv == Init => SessionInv
<1> SUFFICES ASSUME Init PROVE SessionInv OBVIOUS
<1>1. TypeOK
  <2>1. NewKEMHandshake \in Handshakes
    BY DEF NewKEMHandshake, Handshakes, HandshakeState, OptionalEnds, OptionalSecrets
  <2>2. <<>> \in Seq(Packets) OBVIOUS
  <2> QED BY <2>1, <2>2 DEF Init, TypeOK
<1>2. ControlInv BY PeerFacts DEF Init, ControlInv, NewKEMHandshake
<1>3. KemInv BY DEF Init, KemInv, NewKEMHandshake, Established, Keyed
<1>4. MessageInv BY DEF Init, MessageInv
<1>5. BufferInv BY DEF Init, BufferInv, Clients
<1> QED BY <1>1, <1>2, <1>3, <1>4, <1>5 DEF SessionInv

-----------------------------------------------------------------------------
\* The goroutine of an end that returns an error.
LEMMA FailInv ==
  ASSUME SessionInv, NEW e \in Ends, Fail(e), pc[e] # "idle",
         UNCHANGED <<kem, sessionKey, net, fragments, dropped>>
  PROVE  SessionInv'
<1> USE DEF SessionInv
<1>1. TypeOK'
  <2>1. pc' \in [Ends -> {"idle", "start", "derive"} \cup Flags \cup Returned]
    BY DEF TypeOK, Fail, Returned
  <2>2. outq' \in [Ends -> Seq(Packets)]
    <3>1. <<>> \in Seq(Packets) OBVIOUS
    <3> QED BY <3>1 DEF TypeOK, Fail
  <2>3. inbox' \in [Ends -> [flag : Flags, body : Bodies] \cup {None}]
    BY DEF TypeOK, Fail
  <2> QED BY <2>1, <2>2, <2>3 DEF TypeOK
<1>2. ControlInv' BY PeerFacts DEF TypeOK, ControlInv, Fail
<1>3. KemInv' BY DEF KemInv, Established, Keyed
<1>4. MessageInv' BY DEF TypeOK, MessageInv, Fail
<1>5. BufferInv' BY DEF BufferInv
<1> QED BY <1>1, <1>2, <1>3, <1>4, <1>5

-----------------------------------------------------------------------------
\* One lemma per action, with a step per part of the invariant it can disturb.

LEMMA DialInv ==
  ASSUME SessionInv, NEW c \in Conns, Dial(c) PROVE SessionInv'
<1> USE DEF SessionInv
<1> DEFINE a == <<c, "A">>  b == <<c, "B">>
<1>1. TypeOK' BY DEF TypeOK, Dial, Flags, Returned
<1>2. ControlInv'
  <2>1. a # b /\ a \in Ends /\ b \in Ends /\ Peer(a) = b /\ Peer(b) = a
    BY DEF Ends, Peer
  <2>2. ~Acceptor(a) /\ (Acceptor(b) <=> c \notin RelayConns) BY DEF Acceptor
  <2>3. pc[a] = "idle" /\ pc[b] = "idle"
    BY <2>1 DEF ControlInv, Dial
  <2>4. /\ pc'[a] = "start" /\ pc'[b] = (IF Acceptor(b) THEN "request" ELSE "start")
        /\ \A e \in Ends : e # a /\ e # b => pc'[e] = pc[e]
    BY <2>1, <2>2 DEF Dial, TypeOK
  <2>5. kem' = kem /\ outq' = outq /\ inbox' = inbox BY DEF Dial
  <2>6. ASSUME NEW e \in Ends, e # a, e # b PROVE Peer(e) # a /\ Peer(e) # b
    BY <2>1, <2>6, PeerFacts
  <2> HIDE DEF a, b
  <2> QED BY <2>1, <2>2, <2>3, <2>4, <2>5, <2>6, PeerFacts DEF ControlInv
<1>3. KemInv' BY DEF KemInv, Established, Keyed, Dial
<1>4. MessageInv' BY DEF MessageInv, Dial
<1>5. BufferInv' BY DEF BufferInv, Dial
<1> QED BY <1>1, <1>2, <1>3, <1>4, <1>5

\* The packets of an expected message are expected packets.
LEMMA SentFragments ==
  ASSUME NEW f \in Ends, NEW h, NEW flag, NEW body, Expected(f, h, flag, body),
         flag # "identity", NEW n, NEW id \in MsgIDs,
         FragmentTotal(n) = IF flag = "agree" THEN 2 ELSE 1
  PROVE  LET s == Fragments(flag, body, n, id) IN
         s \in Seq(Packets) /\ \A i \in DOMAIN s : ExpectedPacket(f, h, s[i])
<1> DEFINE t == FragmentTotal(n)
           s == Fragments(flag, body, n, id)
           packet(i) == [flag |-> flag, index |-> i - 1, total |-> t, id |-> id, body |-> body]
<1>1. flag \in Flags /\ body \in Bodies /\ t \in {1, 2} BY ExpectedFacts
<1>2. s = [i \in 1 .. t |-> packet(i)] BY DEF Fragments
<1>3. ASSUME NEW i \in 1 .. t PROVE packet(i) \in Packets /\ packet(i).index \in {0, 1}
  BY <1>1 DEF Packets, MaxUint16
<1>4. ASSUME NEW i \in 1 .. t PROVE ExpectedPacket(f, h, packet(i))
  BY <1>1, <1>3 DEF ExpectedPacket
<1> HIDE DEF packet, t
<1>5. t \in Nat /\ DOMAIN s = 1 .. t /\ \A i \in 1 .. t : s[i] = packet(i)
  BY <1>1, <1>2
<1>6. s \in Seq(Packets) BY <1>2, <1>3, <1>5
<1> QED BY <1>4, <1>5, <1>6

\* A goroutine that puts an expected message in its queue, done or not with
\* the one it received, keeps the invariant on messages.
LEMMA QueueInv ==
  ASSUME SessionInv, NEW e \in Ends, NEW s \in Seq(Packets),
         outq' = [outq EXCEPT ![e] = s],
         \A i \in DOMAIN s : ExpectedPacket(Peer(e), kem'[e], s[i]),
         net' = net,
         inbox' = inbox \/ inbox' = [inbox EXCEPT ![e] = None],
         \A f \in Ends : kem[f].state = "ESTABLISHED" => kem'[f].state = "ESTABLISHED"
  PROVE  /\ MessageInv'
         /\ outq' \in [Ends -> Seq(Packets)]
         /\ inbox' \in [Ends -> [flag : Flags, body : Bodies] \cup {None}]
<1> USE DEF SessionInv
<1>1. outq' \in [Ends -> Seq(Packets)] BY DEF TypeOK
<1>2. inbox' \in [Ends -> [flag : Flags, body : Bodies] \cup {None}] BY DEF TypeOK
<1>3. ASSUME NEW f \in Ends, NEW i \in DOMAIN net[f]
      PROVE  ExpectedPacket(f, kem'[Peer(f)], net[f][i])
  BY <1>3, PeerFacts, ExpectedStable DEF MessageInv
<1>4. ASSUME NEW f \in Ends, inbox'[f] # None
      PROVE  Expected(f, kem'[Peer(f)], inbox'[f].flag, inbox'[f].body)
  <2>1. inbox'[f] = inbox[f] BY <1>4 DEF TypeOK
  <2> QED BY <1>4, <2>1, PeerFacts, ExpectedStable DEF MessageInv
<1>5. ASSUME NEW f \in Ends, NEW i \in DOMAIN outq'[f]
      PROVE  ExpectedPacket(Peer(f), kem'[f], outq'[f][i])
  <2>1. CASE f = e BY <1>5, <2>1 DEF TypeOK
  <2>2. CASE f # e
    <3>1. outq'[f] = outq[f] BY <2>2 DEF TypeOK
    <3> QED BY <1>5, <3>1, ExpectedStable DEF MessageInv
  <2> QED BY <2>1, <2>2
<1> QED BY <1>1, <1>2, <1>3, <1>4, <1>5 DEF MessageInv

LEMMA InitiateInv ==
  ASSUME SessionInv, NEW e \in Ends, Initiate(e) PROVE SessionInv'
<1> USE DEF SessionInv
<1>1. /\ kem[e].state = "INIT" /\ pc[e] = "start" /\ ~Acceptor(e)
      /\ kem' = [kem EXCEPT ![e] = [@ EXCEPT !.keypair = e, !.state = "WAIT_AGREE"]]
      /\ pc' = [pc EXCEPT ![e] = "agree"]
  BY DEF Initiate, ControlInv, Initiated
<1>2. PICK id \in MsgIDs :
        outq' = [outq EXCEPT ![e] = Fragments("request", RequestMsg(e), RequestSize, id)]
  BY DEF Initiate
<1> DEFINE s == Fragments("request", RequestMsg(e), RequestSize, id)
<1>3. s \in Seq(Packets) /\ \A i \in DOMAIN s : ExpectedPacket(Peer(e), kem'[e], s[i])
  <2>1. Peer(Peer(e)) = e /\ Peer(e) \in Ends BY PeerFacts
  <2>2. Expected(Peer(e), kem'[e], "request", RequestMsg(e)) BY <2>1 DEF Expected
  <2> QED BY <2>1, <2>2, TotalFacts, SentFragments
<1>4. /\ kem'[e].state = "WAIT_AGREE" /\ kem'[e].keypair = e
      /\ \A f \in Ends : f # e => kem'[f] = kem[f]
  BY <1>1 DEF TypeOK, Handshakes
<1> HIDE DEF s
<1>5. /\ MessageInv' /\ outq' \in [Ends -> Seq(Packets)]
      /\ inbox' \in [Ends -> [flag : Flags, body : Bodies] \cup {None}]
  <2>1. \A f \in Ends : kem[f].state = "ESTABLISHED" => kem'[f].state = "ESTABLISHED"
    BY <1>1, <1>4
  <2>2. net' = net /\ inbox' = inbox /\ outq' = [outq EXCEPT ![e] = s]
    BY <1>2 DEF Initiate, s
  <2> QED BY <1>3, <2>1, <2>2, QueueInv
<1>6. TypeOK'
  <2>1. kem' \in [Ends -> Handshakes]
    <3>1. kem \in [Ends -> Handshakes]
      BY DEF TypeOK
    <3>2. [kem[e] EXCEPT !.keypair = e, !.state = "WAIT_AGREE"] \in Handshakes
      BY <3>1 DEF Handshakes, HandshakeState, OptionalEnds
    <3> QED BY <1>1, <3>1, <3>2
  <2>2. pc' \in [Ends -> {"idle", "start", "derive"} \cup Flags \cup Returned]
    BY <1>1 DEF TypeOK, Flags
  <2>3. UNCHANGED <<sessionKey, net, inbox, fragments, dropped>>
    BY DEF Initiate
  <2> QED BY <1>5, <2>1, <2>2, <2>3 DEF TypeOK
<1>7. ControlInv'
  BY <1>1, <1>2, PeerFacts DEF ControlInv, TypeOK, Initiate
<1>8. KemInv'
  <2>1. sessionKey[e] = None /\ sessionKey' = sessionKey
    BY <1>1 DEF KemInv, Established, Keyed, Initiate
  <2> QED BY <1>1, <1>4, <2>1, PeerFacts DEF KemInv, Established, Keyed
<1>9. BufferInv' BY DEF BufferInv, Initiate
<1> QED BY <1>5, <1>6, <1>7, <1>8, <1>9

LEMMA SendPacketInv ==
  ASSUME SessionInv, NEW e \in Ends, SendPacket(e) PROVE SessionInv'
<1> USE DEF SessionInv
<1> DEFINE p == Head(outq[e])
<1>0. /\ outq[e] \in Seq(Packets) /\ outq[e] # <<>> /\ net[Peer(e)] \in Seq(Packets)
      /\ net' = [net EXCEPT ![Peer(e)] = Append(@, p)]
      /\ outq' = [outq EXCEPT ![e] = Tail(@)]
      /\ Peer(e) \in Ends /\ Peer(Peer(e)) = e
  BY PeerFacts DEF TypeOK, SendPacket
<1>1. ExpectedPacket(Peer(e), kem[e], p) /\ p \in Packets
  BY <1>0, TailElements DEF MessageInv
<1> HIDE DEF p
<1>2. TypeOK'
  <2>1. outq' \in [Ends -> Seq(Packets)] BY <1>0, TailElements DEF TypeOK
  <2>2. net' \in [Ends -> Seq(Packets)] BY <1>0, <1>1, AppendElements DEF TypeOK
  <2> QED BY <2>1, <2>2 DEF TypeOK, SendPacket
<1>3. ControlInv' BY <1>0, PeerFacts DEF ControlInv, TypeOK, SendPacket
<1>4. KemInv' BY DEF KemInv, SendPacket, Established, Keyed
<1>5. MessageInv'
  <2>1. ASSUME NEW f \in Ends, NEW i \in DOMAIN outq'[f]
        PROVE  ExpectedPacket(Peer(f), kem[f], outq'[f][i])
    <3>1. CASE f = e
      <4>1. outq'[e] = Tail(outq[e]) BY <1>0 DEF TypeOK
      <4>2. i + 1 \in DOMAIN outq[e] /\ outq'[e][i] = outq[e][i + 1]
        <5>1. i \in DOMAIN Tail(outq[e])
          BY <4>1, <3>1, <2>1
        <5> QED BY <4>1, <5>1, <1>0, TailElements
      <4> QED BY <3>1, <4>2 DEF MessageInv
    <3>2. CASE f # e BY <3>2, <1>0, <2>1 DEF TypeOK, MessageInv
    <3> QED BY <3>1, <3>2
  <2>2. ASSUME NEW f \in Ends, NEW i \in DOMAIN net'[f]
        PROVE  ExpectedPacket(f, kem[Peer(f)], net'[f][i])
    <3>1. CASE f = Peer(e)
      <4>1. net'[f] = Append(net[f], p) BY <3>1, <1>0 DEF TypeOK
      <4>2. net'[f][i] = p \/ (i \in DOMAIN net[f] /\ net'[f][i] = net[f][i])
        BY <4>1, <3>1, <2>2, <1>0, <1>1, AppendElements
      <4> QED BY <3>1, <4>2, <1>0, <1>1 DEF MessageInv
    <3>2. CASE f # Peer(e) BY <3>2, <1>0, <2>2 DEF TypeOK, MessageInv
    <3> QED BY <3>1, <3>2
  <2> QED BY <2>1, <2>2 DEF MessageInv, SendPacket
<1>6. BufferInv' BY DEF BufferInv, SendPacket
<1> QED BY <1>2, <1>3, <1>4, <1>5, <1>6

LEMMA SendLostInv ==
  ASSUME SessionInv, NEW e \in Ends, SendLost(e) PROVE SessionInv'
<1> USE DEF SessionInv
<1>0. pc[e] # "idle" BY DEF SendLost, ControlInv
<1>1. CASE Fail(e) BY <1>0, <1>1, FailInv DEF SendLost
<1>2. CASE outq' = [outq EXCEPT ![e] = Tail(@)] /\ UNCHANGED <<pc, inbox>>
  <2>0. outq[e] \in Seq(Packets) /\ outq[e] # <<>> BY DEF TypeOK, SendLost
  <2>1. TypeOK'
    <3>1. outq' \in [Ends -> Seq(Packets)] BY <1>2, <2>0, TailElements DEF TypeOK
    <3> QED BY <1>2, <3>1 DEF TypeOK, SendLost
  <2>2. ControlInv' BY <1>0, <1>2, PeerFacts DEF ControlInv, TypeOK, SendLost
  <2>3. KemInv' BY DEF KemInv, SendLost, Established, Keyed
  <2>4. MessageInv'
    <3>1. ASSUME NEW f \in Ends, NEW i \in DOMAIN outq'[f]
          PROVE  ExpectedPacket(Peer(f), kem[f], outq'[f][i])
      <4>1. CASE f = e
        <5>1. outq'[e] = Tail(outq[e]) BY <1>2 DEF TypeOK
        <5>2. i \in DOMAIN Tail(outq[e]) BY <5>1, <4>1, <3>1
        <5>3. i + 1 \in DOMAIN outq[e] /\ outq'[e][i] = outq[e][i + 1]
          BY <5>1, <5>2, <2>0, TailElements
        <5> QED BY <4>1, <5>3 DEF MessageInv
      <4>2. CASE f # e BY <4>2, <1>2, <3>1 DEF TypeOK, MessageInv
      <4> QED BY <4>1, <4>2
    <3> QED BY <3>1, <1>2 DEF MessageInv, SendLost
  <2>5. BufferInv' BY DEF BufferInv, SendLost
  <2> QED BY <2>1, <2>2, <2>3, <2>4, <2>5
<1> QED BY <1>1, <1>2 DEF SendLost

LEMMA ReceiveWholeInv ==
  ASSUME SessionInv, NEW e \in Ends, ReceiveWhole(e) PROVE SessionInv'
<1> USE DEF SessionInv
<1> DEFINE p == Head(net[e])
<1>0. /\ net[e] \in Seq(Packets) /\ net[e] # <<>> /\ pc[e] # "idle"
      /\ net' = [net EXCEPT ![e] = Tail(@)]
      /\ inbox' = [inbox EXCEPT ![e] = [flag |-> p.flag, body |-> p.body]]
  BY DEF TypeOK, ReceiveWhole, Deliver, Blocked, Flags
<1>1. Expected(e, kem[Peer(e)], p.flag, p.body)
  BY <1>0, TailElements DEF MessageInv, ExpectedPacket
<1> HIDE DEF p
<1>2. TypeOK'
  <2>1. net' \in [Ends -> Seq(Packets)] BY <1>0, TailElements DEF TypeOK
  <2>2. p.flag \in Flags /\ p.body \in Bodies BY <1>1, ExpectedFacts
  <2>3. inbox' \in [Ends -> [flag : Flags, body : Bodies] \cup {None}]
    BY <1>0, <2>2 DEF TypeOK
  <2> QED BY <2>1, <2>3 DEF TypeOK, ReceiveWhole
<1>3. ControlInv' BY <1>0, PeerFacts DEF ControlInv, TypeOK, ReceiveWhole
<1>4. KemInv' BY DEF KemInv, ReceiveWhole, Established, Keyed
<1>5. MessageInv'
  <2>1. ASSUME NEW f \in Ends, NEW i \in DOMAIN net'[f]
        PROVE  ExpectedPacket(f, kem[Peer(f)], net'[f][i])
    <3>1. CASE f = e
      <4>1. net'[e] = Tail(net[e]) BY <1>0 DEF TypeOK
      <4>2. i \in DOMAIN Tail(net[e]) BY <4>1, <3>1, <2>1
      <4>3. i + 1 \in DOMAIN net[e] /\ net'[e][i] = net[e][i + 1]
        BY <4>1, <4>2, <1>0, TailElements
      <4> QED BY <3>1, <4>3 DEF MessageInv
    <3>2. CASE f # e BY <3>2, <1>0, <2>1 DEF TypeOK, MessageInv
    <3> QED BY <3>1, <3>2
  <2>2. ASSUME NEW f \in Ends, inbox'[f] # None
        PROVE  Expected(f, kem[Peer(f)], inbox'[f].flag, inbox'[f].body)
    BY <1>0, <1>1, <2>2 DEF TypeOK, MessageInv
  <2> QED BY <2>1, <2>2 DEF MessageInv, ReceiveWhole
<1>6. BufferInv' BY DEF BufferInv, ReceiveWhole
<1> QED BY <1>2, <1>3, <1>4, <1>5, <1>6

LEMMA ReceivePartInv ==
  ASSUME SessionInv, NEW e \in Ends, ReceivePart(e) PROVE SessionInv'
<1> USE DEF SessionInv
<1> DEFINE p == Head(net[e])
           k == Client(e)
           q == [id |-> p.id, index |-> p.index, body |-> p.body]
<1>0. /\ net[e] \in Seq(Packets) /\ net[e] # <<>> /\ pc[e] # "idle" /\ p.total # 1
      /\ net' = [net EXCEPT ![e] = Tail(@)]
      /\ UNCHANGED <<pc, kem, sessionKey, outq, dropped>>
  BY DEF TypeOK, ReceivePart, Blocked, Flags
<1>1. ExpectedPacket(e, kem[Peer(e)], p) /\ p \in Packets
  BY <1>0, TailElements DEF MessageInv, ExpectedPacket
<1>2. PICK cleaned \in AfterCleanup(fragments[k]) :
        LET fb == Stored(cleaned, p) IN
        IF Complete(fb, p)
        THEN /\ Deliver(e, p, Reassembled(fb, p))
             /\ fragments' = [fragments EXCEPT ![k] = fb \ OfMessage(fb, p.id)]
        ELSE /\ fragments' = [fragments EXCEPT ![k] = fb]
             /\ UNCHANGED inbox
  BY DEF ReceivePart
<1> DEFINE fb == Stored(cleaned, p)
<1>3. cleaned \subseteq fragments[k] /\ \A f \in fb : f \in fragments[k] \/ f = q
  BY BufferFacts
<1>4. k \in Clients BY ClientFacts
<1> HIDE DEF p, k, q
<1>5. /\ p.flag \in {"agree", "identity"}
      /\ p.flag = "agree" => /\ ~Acceptor(e) /\ p.total = 2
                             /\ q.index \in {0, 1} /\ q.body = AgreeTo(e) /\ p.body = AgreeTo(e)
      /\ p.flag = "identity" => Acceptor(e) /\ q.index = SealedIdentitySize
      /\ q.index = p.index /\ q.id = p.id
  <2>1. Expected(e, kem[Peer(e)], p.flag, p.body) BY <1>1 DEF ExpectedPacket
  <2>2. p.flag \in {"agree", "identity"}
    BY <2>1, <1>0, <1>1, ExpectedFacts DEF ExpectedPacket, Flags, Expected
  <2> QED BY <2>1, <2>2, <1>1, ExpectedFacts, PeerFacts DEF ExpectedPacket, q
<1>6. /\ Complete(fb, p) => ~Acceptor(e) /\ Reassembled(fb, p) = AgreeTo(e)
      /\ Acceptor(e) => \A f \in fb : f.index = SealedIdentitySize
      /\ ~Acceptor(e) => \A f \in fb : f.index \in {0, 1} /\ f.body = AgreeTo(e)
      /\ fb \subseteq Stores
  <2>1. fb \subseteq Stores
    <3>1. fragments[k] \subseteq Stores BY <1>4 DEF TypeOK
    <3>2. q \in Stores BY <1>1 DEF q, Packets, Stores
    <3> QED BY <3>1, <3>2, <1>3
  <2>2. CASE Acceptor(e)
    <3>1. k = Server BY <2>2, ClientFacts DEF k
    <3>2. \A f \in fb : f.index = SealedIdentitySize
      BY <1>3, <1>5, <2>2, <3>1 DEF BufferInv
    <3>3. \A f \in cleaned : f.index = p.index
      BY <1>3, <1>5, <2>2, <3>1 DEF BufferInv
    <3> QED BY <1>0, <2>1, <2>2, <3>2, <3>3, LoneFragment
  <2>3. CASE ~Acceptor(e)
    <3>1. k = e BY <2>3, ClientFacts DEF k
    <3>2. \A f \in fb : f.index \in {0, 1} /\ f.body = AgreeTo(e)
      BY <1>3, <1>5, <2>3, <3>1 DEF BufferInv
    <3>3. ASSUME NEW f \in OfMessage(fb, p.id)
          PROVE  f \in [id : {p.id}, index : {0, 1}, body : {AgreeTo(e)}]
      <4>1. f \in Stores /\ f.id = p.id /\ f.index \in {0, 1} /\ f.body = AgreeTo(e)
        BY <2>1, <3>2 DEF OfMessage
      <4> QED BY <4>1 DEF Stores
    <3>4. Complete(fb, p) => Reassembled(fb, p) = AgreeTo(e)
      BY <1>5, <2>3, <3>3, Reassembly
    <3> QED BY <2>1, <2>3, <3>2, <3>4
  <2> QED BY <2>2, <2>3
<1>7. /\ fragments' = [fragments EXCEPT ![k] = fragments'[k]]
      /\ fragments'[k] \subseteq fb
  BY <1>2, <1>4 DEF TypeOK
<1>8. \/ UNCHANGED inbox
      \/ /\ inbox' = [inbox EXCEPT ![e] = [flag |-> p.flag, body |-> AgreeTo(e)]]
         /\ p.flag = "agree" /\ p.body = AgreeTo(e)
  BY <1>2, <1>5, <1>6 DEF Deliver
<1> HIDE DEF fb
<1>9. TypeOK'
  <2>1. net' \in [Ends -> Seq(Packets)] BY <1>0, TailElements DEF TypeOK
  <2>2. fragments' \in [Clients -> SUBSET Stores] BY <1>4, <1>6, <1>7 DEF TypeOK
  <2>3. p.flag \in Flags /\ p.body \in Bodies BY <1>1 DEF Packets
  <2>4. inbox' \in [Ends -> [flag : Flags, body : Bodies] \cup {None}]
    BY <1>8, <2>3 DEF TypeOK
  <2> QED BY <1>0, <2>1, <2>2, <2>4 DEF TypeOK
<1>10. ControlInv' BY <1>0, <1>8, PeerFacts DEF ControlInv, TypeOK
<1>11. KemInv' BY <1>0 DEF KemInv, Established, Keyed
<1>12. MessageInv'
  <2>1. ASSUME NEW f \in Ends, NEW i \in DOMAIN net'[f]
        PROVE  ExpectedPacket(f, kem[Peer(f)], net'[f][i])
    <3>1. CASE f = e
      <4>1. net'[e] = Tail(net[e]) BY <1>0 DEF TypeOK
      <4>2. i \in DOMAIN Tail(net[e]) BY <4>1, <3>1, <2>1
      <4>3. i + 1 \in DOMAIN net[e] /\ net'[e][i] = net[e][i + 1]
        BY <4>1, <4>2, <1>0, TailElements
      <4> QED BY <3>1, <4>3 DEF MessageInv
    <3>2. CASE f # e BY <3>2, <1>0, <2>1 DEF TypeOK, MessageInv
    <3> QED BY <3>1, <3>2
  <2>2. ASSUME NEW f \in Ends, inbox'[f] # None
        PROVE  Expected(f, kem[Peer(f)], inbox'[f].flag, inbox'[f].body)
    <3>1. Expected(e, kem[Peer(e)], p.flag, p.body) BY <1>1 DEF ExpectedPacket
    <3>2. CASE inbox'[f] = inbox[f] BY <2>2, <3>2 DEF MessageInv
    <3>3. CASE inbox'[f] # inbox[f]
      <4>1. f = e /\ inbox'[f] = [flag |-> p.flag, body |-> p.body]
        BY <1>8, <3>3 DEF TypeOK
      <4> QED BY <3>1, <4>1
    <3> QED BY <3>2, <3>3
  <2> QED BY <1>0, <2>1, <2>2 DEF MessageInv
<1>13. BufferInv'
  <2>1. ASSUME NEW f \in Ends, ~Acceptor(f), NEW g \in fragments'[f]
        PROVE  g.index \in {0, 1} /\ g.body = AgreeTo(f)
    <3>1. CASE k = f
      <4>1. e = f BY <2>1, <3>1, ClientApart DEF k
      <4> QED BY <1>6, <1>7, <2>1, <3>1, <4>1
    <3>2. CASE k # f BY <1>7, <2>1, <3>2, ClientFacts DEF TypeOK, BufferInv
    <3> QED BY <3>1, <3>2
  <2>2. ASSUME NEW g \in fragments'[Server] PROVE g.index = SealedIdentitySize
    <3>1. CASE k = Server
      <4>1. Acceptor(e) BY <3>1, ClientFacts DEF k
      <4> QED BY <1>6, <1>7, <2>2, <3>1, <4>1
    <3>2. CASE k # Server BY <1>7, <2>2, <3>2, ClientFacts DEF TypeOK, BufferInv
    <3> QED BY <3>1, <3>2
  <2> QED BY <2>1, <2>2 DEF BufferInv
<1> QED BY <1>9, <1>10, <1>11, <1>12, <1>13

LEMMA HandleRequestInv ==
  ASSUME SessionInv, NEW e \in Ends, HandleRequest(e) PROVE SessionInv'
<1> USE DEF SessionInv
<1> DEFINE P == Peer(e)
<1>1. CASE ~TakesRequest(kem[e], Body(e))
  <2>1. Fail(e) /\ UNCHANGED <<kem, sessionKey, net, fragments, dropped>> /\ pc[e] # "idle"
    BY <1>1 DEF HandleRequest, Got
  <2> QED BY <2>1, FailInv
<1>2. CASE TakesRequest(kem[e], Body(e))
  <2>1. /\ pc[e] = "request" /\ Acceptor(e) /\ kem[e].state = "INIT"
        /\ Body(e) = RequestMsg(P) /\ Body(e).pk = P /\ P \in Ends /\ Peer(P) = e
    <3>1. Expected(e, kem[P], "request", Body(e))
      BY DEF HandleRequest, Got, Body, MessageInv
    <3>2. Body(e) = RequestMsg(P) BY <3>1, ExpectedFacts
    <3> QED BY <3>2, PeerFacts DEF HandleRequest, Got, ControlInv, RequestMsg
  <2>2. PICK id \in MsgIDs :
          outq' = [outq EXCEPT ![e] =
            Fragments("agree", AgreeMsg(e, Ciphertext(Body(e).pk, e)), AgreeSize, id)]
    BY <1>2 DEF HandleRequest
  <2> DEFINE s == Fragments("agree", AgreeTo(P), AgreeSize, id)
  <2>3. s \in Seq(Packets) /\ \A i \in DOMAIN s : ExpectedPacket(P, kem'[e], s[i])
    <3>1. Expected(P, kem'[e], "agree", AgreeTo(P)) BY <2>1 DEF Expected
    <3> QED BY <2>1, <3>1, TotalFacts, SentFragments
  <2>4. /\ pc' = [pc EXCEPT ![e] = "finish"]
        /\ outq' = [outq EXCEPT ![e] = s]
        /\ inbox' = [inbox EXCEPT ![e] = None]
        /\ kem' = [kem EXCEPT ![e] = RequestHandled(@, e, Body(e))]
        /\ UNCHANGED <<sessionKey, net, fragments, dropped>>
    BY <1>2, <2>1, <2>2 DEF HandleRequest, Consume, AgreeTo
  <2>5. /\ kem'[e] = RequestHandled(kem[e], e, RequestMsg(P))
        /\ kem'[e].state = "WAIT_FINISH" /\ kem'[e].keypair = e
        /\ kem'[e].ssB2A = EncapsulatedSecret(P, e)
        /\ \A f \in Ends : f # e => kem'[f] = kem[f]
    <3>1. RequestMsg(P).pk = P BY DEF RequestMsg
    <3> QED BY <2>1, <2>4, <3>1 DEF RequestHandled, TypeOK, Handshakes
  <2>6. EncapsulatedSecret(P, e) = SecretB2A(e[1])
    BY <2>1, PeerFacts DEF SecretB2A
  <2> HIDE DEF s
  <2>7. /\ MessageInv' /\ outq' \in [Ends -> Seq(Packets)]
        /\ inbox' \in [Ends -> [flag : Flags, body : Bodies] \cup {None}]
    <3>1. \A f \in Ends : kem[f].state = "ESTABLISHED" => kem'[f].state = "ESTABLISHED"
      BY <2>1, <2>5
    <3>2. /\ net' = net /\ inbox' = [inbox EXCEPT ![e] = None]
          /\ outq' = [outq EXCEPT ![e] = s]
      BY <2>4
    <3> QED BY <2>3, <3>1, <3>2, QueueInv
  <2>8. TypeOK'
    <3>1. EncapsulatedSecret(P, e) \in Secrets BY <2>6, PeerFacts, PipeKeyFacts
    <3>2. kem'[e] \in Handshakes
      BY <2>1, <2>5, <3>1
      DEF TypeOK, Handshakes, HandshakeState, OptionalEnds, OptionalSecrets,
          RequestHandled, RequestMsg
    <3>3. kem' \in [Ends -> Handshakes] BY <2>4, <3>2 DEF TypeOK
    <3> QED BY <2>4, <2>7, <3>3 DEF TypeOK, Flags
  <2>9. ControlInv' BY <2>1, <2>4, <2>5, PeerFacts DEF ControlInv, TypeOK
  <2>10. KemInv'
    <3>1. sessionKey[e] = None BY <2>1 DEF KemInv, Established, Keyed
    <3> QED BY <2>1, <2>4, <2>5, <2>6, <3>1, PeerFacts DEF KemInv, Established, Keyed
  <2>11. BufferInv' BY <2>4 DEF BufferInv
  <2> QED BY <2>7, <2>8, <2>9, <2>10, <2>11
<1> QED BY <1>1, <1>2

LEMMA HandleAgreeInv ==
  ASSUME SessionInv, NEW e \in Ends, HandleAgree(e) PROVE SessionInv'
<1> USE DEF SessionInv
<1> DEFINE P == Peer(e)
<1>1. CASE ~TakesAgree(kem[e], Body(e))
  <2>1. Fail(e) /\ UNCHANGED <<kem, sessionKey, net, fragments, dropped>> /\ pc[e] # "idle"
    BY <1>1 DEF HandleAgree, Got
  <2> QED BY <2>1, FailInv
<1>2. CASE TakesAgree(kem[e], Body(e))
  <2>1. /\ pc[e] = "agree" /\ Acceptor(P) /\ ~Acceptor(e)
        /\ kem[e].state = "WAIT_AGREE" /\ kem[e].keypair = e
        /\ Body(e) = AgreeTo(e) /\ P \in Ends /\ Peer(P) = e
        /\ Body(e).pk = P /\ Body(e).ct = Ciphertext(e, P)
    <3>1. Expected(e, kem[P], "agree", Body(e))
      BY DEF HandleAgree, Got, Body, MessageInv
    <3>2. Body(e) = AgreeTo(e) /\ Acceptor(P) BY <3>1, ExpectedFacts
    <3>3. kem[e].state = "WAIT_AGREE" BY <1>2 DEF TakesAgree
    <3> QED BY <3>2, <3>3, PeerFacts DEF HandleAgree, Got, KemInv, AgreeTo, AgreeMsg
  <2>2. PICK id \in MsgIDs :
          outq' = [outq EXCEPT ![e] =
            Fragments("finish", FinishMsg(Ciphertext(Body(e).pk, e)), FinishSize, id)]
    BY <1>2 DEF HandleAgree
  <2> DEFINE s == Fragments("finish", FinishMsg(Ciphertext(P, e)), FinishSize, id)
  <2>3. /\ pc' = [pc EXCEPT ![e] = "derive"]
        /\ outq' = [outq EXCEPT ![e] = s]
        /\ inbox' = [inbox EXCEPT ![e] = None]
        /\ kem' = [kem EXCEPT ![e] = AgreeHandled(@, Body(e))]
        /\ UNCHANGED <<sessionKey, net, fragments, dropped>>
    BY <1>2, <2>1, <2>2 DEF HandleAgree, Consume
  <2>4. /\ kem'[e] = [kem[e] EXCEPT !.ssB2A = EncapsulatedSecret(e, P), !.peer = P,
                                    !.ssA2B = EncapsulatedSecret(P, e),
                                    !.state = "ESTABLISHED"]
        /\ \A f \in Ends : f # e => kem'[f] = kem[f]
    BY <2>1, <2>3 DEF AgreeHandled, EncapsulatedSecret, TypeOK
  <2>5. /\ kem'[e].state = "ESTABLISHED"
        /\ kem'[e].ssB2A = EncapsulatedSecret(e, P) /\ kem'[e].ssA2B = EncapsulatedSecret(P, e)
    BY <2>4 DEF TypeOK, Handshakes
  <2>6. /\ EncapsulatedSecret(e, P) = SecretB2A(e[1])
        /\ EncapsulatedSecret(P, e) = SecretA2B(e[1])
        /\ e[1] \notin RelayConns
    <3>1. P = <<P[1], "B">> /\ Peer(P) = <<P[1], "A">> /\ P[1] \notin RelayConns
      BY <2>1, PeerFacts
    <3>2. P[1] = e[1] BY PeerFacts
    <3> QED BY <2>1, <3>1, <3>2 DEF SecretB2A, SecretA2B
  <2>7. s \in Seq(Packets) /\ \A i \in DOMAIN s : ExpectedPacket(P, kem'[e], s[i])
    <3>1. Expected(P, kem'[e], "finish", FinishMsg(Ciphertext(P, e)))
      BY <2>1, <2>5 DEF Expected
    <3> QED BY <2>1, <3>1, TotalFacts, SentFragments
  <2> HIDE DEF s
  <2>8. /\ MessageInv' /\ outq' \in [Ends -> Seq(Packets)]
        /\ inbox' \in [Ends -> [flag : Flags, body : Bodies] \cup {None}]
    <3>1. \A f \in Ends : kem[f].state = "ESTABLISHED" => kem'[f].state = "ESTABLISHED"
      BY <2>4, <2>5
    <3>2. /\ net' = net /\ inbox' = [inbox EXCEPT ![e] = None]
          /\ outq' = [outq EXCEPT ![e] = s]
      BY <2>3
    <3> QED BY <2>7, <3>1, <3>2, QueueInv
  <2>9. TypeOK'
    <3>1. EncapsulatedSecret(P, e) \in Secrets /\ EncapsulatedSecret(e, P) \in Secrets
      BY <2>6, PeerFacts, PipeKeyFacts
    <3>2. kem[e] \in Handshakes BY DEF TypeOK
    <3> HIDE DEF P
    <3>3. kem'[e] \in Handshakes
      BY <2>1, <2>4, <3>1, <3>2 DEF Handshakes, HandshakeState, OptionalEnds, OptionalSecrets
    <3>4. kem' \in [Ends -> Handshakes] BY <2>3, <3>3 DEF TypeOK
    <3> QED BY <2>3, <2>8, <3>4 DEF TypeOK, Flags
  <2>10. ControlInv' BY <2>1, <2>3, <2>4, PeerFacts DEF ControlInv, TypeOK
  <2>11. KemInv'
    <3>1. sessionKey[e] = None BY <2>1 DEF KemInv, Established, Keyed
    <3> QED BY <2>1, <2>3, <2>4, <2>5, <2>6, <3>1, PeerFacts
        DEF KemInv, Established, Keyed
  <2>12. BufferInv' BY <2>3 DEF BufferInv
  <2> QED BY <2>8, <2>9, <2>10, <2>11, <2>12
<1> QED BY <1>1, <1>2

LEMMA DeriveAndSendIdentityInv ==
  ASSUME SessionInv, NEW e \in Ends, DeriveAndSendIdentity(e) PROVE SessionInv'
<1> USE DEF SessionInv
<1> DEFINE P == Peer(e)
<1>1. CASE ~CanDerive(kem[e])
  <2>1. Fail(e) /\ UNCHANGED <<kem, sessionKey, net, fragments, dropped>> /\ pc[e] # "idle"
    BY <1>1 DEF DeriveAndSendIdentity
  <2> QED BY <2>1, FailInv
<1>2. CASE CanDerive(kem[e])
  <2>1. /\ pc[e] = "derive" /\ ~Acceptor(e) /\ Established(e) /\ e[1] \notin RelayConns
        /\ DerivedKey(kem[e]) = PipeKey(e[1])
        /\ e = <<e[1], "A">> /\ DSAPub(e) = "A" /\ P \in Ends /\ Peer(P) = e /\ P[1] = e[1]
        /\ Acceptor(P)
    <3>1. pc[e] = "derive" /\ ~Acceptor(e) BY DEF DeriveAndSendIdentity, ControlInv
    <3>2. Established(e) BY <1>2 DEF CanDerive, Established
    <3>3. e[1] \notin RelayConns /\ DerivedKey(kem[e]) = PipeKey(e[1])
      BY <3>2 DEF KemInv, DerivedKey, PipeKey
    <3>4. e = <<e[1], "A">> BY <3>1, <3>3, PeerFacts
    <3>5. DSAPub(e) = "A" BY <3>4 DEF DSAPub
    <3> QED BY <3>1, <3>2, <3>3, <3>4, <3>5, PeerFacts
  <2>2. PICK total \in RawTotals, id \in MsgIDs :
          outq' = [outq EXCEPT ![e] = IdentityPackets(PipeKey(e[1]), e, total, id)]
    BY <1>2, <2>1 DEF DeriveAndSendIdentity
  <2> DEFINE body == PastHeader(Sealed(PipeKey(e[1]), "A"))
             p == [flag |-> "identity", index |-> SealedIdentitySize, total |-> total,
                   id |-> id, body |-> body]
  <2>3. ExpectedPacket(P, kem[e], p)
    <3>1. Expected(P, kem[e], "identity", body) BY <2>1 DEF Expected
    <3>2. body \in Bodies BY <2>1, <3>1, ExpectedFacts
    <3> HIDE DEF body
    <3>3. p \in Packets BY <3>2, TotalFacts, SessionAssumption DEF Packets, Flags
    <3> QED BY <3>1, <3>3 DEF ExpectedPacket
  <2>4. /\ sessionKey' = [sessionKey EXCEPT ![e] = PipeKey(e[1])]
        /\ pc' = [pc EXCEPT ![e] = "challenge"]
        /\ outq' = [outq EXCEPT ![e] = <<p>>]
        /\ kem' = kem /\ net' = net /\ inbox' = inbox
        /\ fragments' = fragments /\ dropped' = dropped
    BY <1>2, <2>1, <2>2 DEF DeriveAndSendIdentity, IdentityPackets
  <2> HIDE DEF p
  <2>5. /\ MessageInv' /\ outq' \in [Ends -> Seq(Packets)]
        /\ inbox' \in [Ends -> [flag : Flags, body : Bodies] \cup {None}]
    <3> DEFINE s == <<p>>
    <3>1. s \in Seq(Packets) BY <2>3 DEF ExpectedPacket
    <3>2. \A i \in DOMAIN s : ExpectedPacket(P, kem'[e], s[i]) BY <2>3, <2>4
    <3>3. \A f \in Ends : kem[f].state = "ESTABLISHED" => kem'[f].state = "ESTABLISHED"
      BY <2>4
    <3>4. net' = net /\ inbox' = inbox /\ outq' = [outq EXCEPT ![e] = s] BY <2>4
    <3> HIDE DEF s
    <3> QED BY <3>1, <3>2, <3>3, <3>4, QueueInv
  <2>6. TypeOK'
    <3>1. PipeKey(e[1]) \in Secrets \X Secrets BY PeerFacts, PipeKeyFacts
    <3> QED BY <2>4, <2>5, <3>1 DEF TypeOK, Flags
  <2>7. ControlInv' BY <2>1, <2>4, PeerFacts DEF ControlInv, TypeOK
  <2>8. KemInv' BY <2>1, <2>4 DEF KemInv, Established, Keyed, TypeOK
  <2>9. BufferInv' BY <2>4 DEF BufferInv
  <2> QED BY <2>5, <2>6, <2>7, <2>8, <2>9
<1> QED BY <1>1, <1>2

LEMMA HandleFinishInv ==
  ASSUME SessionInv, NEW e \in Ends, HandleFinish(e) PROVE SessionInv'
<1> USE DEF SessionInv
<1> DEFINE P == Peer(e)
           h == FinishHandled(kem[e], Body(e))
           taken == TakesFinish(kem[e], Body(e)) /\ CanDerive(h)
<1>1. CASE ~taken
  <2>1. Fail(e) /\ UNCHANGED <<kem, sessionKey, net, fragments, dropped>> /\ pc[e] # "idle"
    BY <1>1 DEF HandleFinish, Got
  <2> QED BY <2>1, FailInv
<1>2. CASE taken
  <2>1. /\ pc[e] = "finish" /\ Acceptor(e) /\ kem[e].state = "WAIT_FINISH"
        /\ kem[e].keypair = e /\ kem[e].ssB2A = SecretB2A(e[1])
        /\ Body(e) = FinishMsg(Ciphertext(e, P)) /\ Body(e).ct = Ciphertext(e, P)
        /\ kem[P].state = "ESTABLISHED" /\ P \in Ends /\ Peer(P) = e
        /\ e[1] \notin RelayConns
    <3>1. Expected(e, kem[P], "finish", Body(e))
      BY DEF HandleFinish, Got, Body, MessageInv
    <3>2. Body(e) = FinishMsg(Ciphertext(e, P)) /\ kem[P].state = "ESTABLISHED"
      BY <3>1, ExpectedFacts
    <3>3. kem[e].state = "WAIT_FINISH" BY <1>2 DEF TakesFinish
    <3> QED BY <3>2, <3>3, PeerFacts DEF HandleFinish, Got, KemInv, FinishMsg
  <2>2. EncapsulatedSecret(e, P) = SecretA2B(e[1])
    BY <2>1, PeerFacts DEF SecretA2B
  <2>3. h = [kem[e] EXCEPT !.ssA2B = SecretA2B(e[1]), !.state = "ESTABLISHED",
                           !.keypair = None]
    BY <2>1, <2>2 DEF FinishHandled, EncapsulatedSecret
  <2>4. /\ h.state = "ESTABLISHED" /\ h.keypair = None
        /\ h.ssB2A = SecretB2A(e[1]) /\ h.ssA2B = SecretA2B(e[1])
    BY <2>1, <2>3 DEF TypeOK, Handshakes
  <2>5. DerivedKey(h) = PipeKey(e[1]) BY <2>4 DEF DerivedKey, PipeKey
  <2>6. h \in Handshakes
    <3>1. kem[e] \in Handshakes BY DEF TypeOK
    <3>2. SecretA2B(e[1]) \in Secrets BY PeerFacts, PipeKeyFacts
    <3> HIDE DEF h
    <3> QED BY <2>3, <3>1, <3>2
        DEF Handshakes, HandshakeState, OptionalEnds, OptionalSecrets
  <2>7. /\ kem' = [kem EXCEPT ![e] = h]
        /\ sessionKey' = [sessionKey EXCEPT ![e] = PipeKey(e[1])]
        /\ pc' = [pc EXCEPT ![e] = "identity"]
        /\ inbox' = [inbox EXCEPT ![e] = None]
        /\ outq' = outq /\ net' = net /\ fragments' = fragments /\ dropped' = dropped
    BY <1>2, <2>5 DEF HandleFinish, Consume
  <2> HIDE DEF h
  <2>8. kem'[e] = h /\ \A f \in Ends : f # e => kem'[f] = kem[f] BY <2>7 DEF TypeOK
  <2>9. /\ MessageInv' /\ outq' \in [Ends -> Seq(Packets)]
        /\ inbox' \in [Ends -> [flag : Flags, body : Bodies] \cup {None}]
    <3> DEFINE s == outq[e]
    <3>1. s \in Seq(Packets) /\ outq' = [outq EXCEPT ![e] = s] BY <2>7 DEF TypeOK
    <3>2. \A f \in Ends : kem[f].state = "ESTABLISHED" => kem'[f].state = "ESTABLISHED"
      BY <2>4, <2>8
    <3>3. \A i \in DOMAIN s : ExpectedPacket(P, kem'[e], s[i])
      BY <3>2, ExpectedStable DEF MessageInv
    <3>4. net' = net /\ inbox' = [inbox EXCEPT ![e] = None] BY <2>7
    <3> HIDE DEF s
    <3> QED BY <3>1, <3>2, <3>3, <3>4, QueueInv
  <2>10. TypeOK'
    <3>1. PipeKey(e[1]) \in Secrets \X Secrets BY PeerFacts, PipeKeyFacts
    <3> QED BY <2>6, <2>7, <2>9, <3>1 DEF TypeOK, Flags
  <2>11. ControlInv' BY <2>1, <2>7, <2>8, PeerFacts DEF ControlInv, TypeOK
  <2>12. KemInv'
    BY <2>1, <2>4, <2>7, <2>8, PeerFacts DEF KemInv, Established, Keyed, TypeOK
  <2>13. BufferInv' BY <2>7 DEF BufferInv
  <2> QED BY <2>9, <2>10, <2>11, <2>12, <2>13
<1> QED BY <1>1, <1>2

LEMMA HandlePeerIdentityInv ==
  ASSUME SessionInv, NEW e \in Ends, HandlePeerIdentity(e) PROVE SessionInv'
<1> USE DEF SessionInv
<1>1. Expected(e, kem[Peer(e)], "identity", Body(e))
  BY DEF HandlePeerIdentity, Got, Body, MessageInv
<1>2. ~Opens(sessionKey[e], Body(e)) BY <1>1, ExpectedFacts DEF Opens
<1>3. Fail(e) /\ UNCHANGED <<kem, sessionKey, net, fragments, dropped>> /\ pc[e] # "idle"
  BY <1>2 DEF HandlePeerIdentity, Got
<1> QED BY <1>3, FailInv

LEMMA DropInv ==
  ASSUME SessionInv, NEW c \in Conns, Drop(c) PROVE SessionInv'
<1> USE DEF SessionInv
<1>1. TypeOK' BY DEF TypeOK, Drop
<1>2. ControlInv' BY DEF ControlInv, Drop
<1>3. KemInv' BY DEF KemInv, Drop, Established, Keyed
<1>4. MessageInv' BY DEF MessageInv, Drop
<1>5. BufferInv' BY DEF BufferInv, Drop
<1> QED BY <1>1, <1>2, <1>3, <1>4, <1>5

\* Every step preserves the invariant.
LEMMA StepInv == SessionInv /\ [Next]_vars => SessionInv'
<1> SUFFICES ASSUME SessionInv, [Next]_vars PROVE SessionInv' OBVIOUS
<1>1. CASE \E c \in Conns : Dial(c) \/ Drop(c) BY <1>1, DialInv, DropInv
<1>2. CASE \E e \in Ends : Step(e)
  <2> SUFFICES ASSUME NEW e \in Ends, Step(e) PROVE SessionInv' BY <1>2
  <2>1. CASE Initiate(e) BY <2>1, InitiateInv
  <2>2. CASE Send(e) BY <2>2, SendPacketInv, SendLostInv DEF Send
  <2>3. CASE Receive(e) BY <2>3, ReceiveWholeInv, ReceivePartInv DEF Receive
  <2>4. CASE DeriveAndSendIdentity(e) BY <2>4, DeriveAndSendIdentityInv
  <2>5. CASE HandleRequest(e) BY <2>5, HandleRequestInv
  <2>6. CASE HandleAgree(e) BY <2>6, HandleAgreeInv
  <2>7. CASE HandleFinish(e) BY <2>7, HandleFinishInv
  <2>8. CASE HandlePeerIdentity(e) BY <2>8, HandlePeerIdentityInv
  <2>9. CASE Unexpected(e)
    <3>1. pc[e] # "idle" BY <2>9 DEF Unexpected, SessionInv, ControlInv
    <3> QED BY <2>9, <3>1, FailInv DEF Unexpected
  <2> QED BY <2>1, <2>2, <2>3, <2>4, <2>5, <2>6, <2>7, <2>8, <2>9 DEF Step, Handle
<1>3. CASE \E e \in Ends : GiveUp(e)
  <2> SUFFICES ASSUME NEW e \in Ends, GiveUp(e) PROVE SessionInv' BY <1>3
  <2>1. pc[e] # "idle" BY DEF GiveUp, ReadError, Timeout, Blocked, Flags
  <2> QED BY <2>1, FailInv DEF GiveUp, ReadError, Timeout
<1>4. CASE UNCHANGED vars
  <2> USE DEF vars, SessionInv
  <2>1. TypeOK' BY <1>4 DEF TypeOK
  <2>2. ControlInv' BY <1>4 DEF ControlInv
  <2>3. KemInv' BY <1>4 DEF KemInv, Established, Keyed
  <2>4. MessageInv' BY <1>4 DEF MessageInv
  <2>5. BufferInv' BY <1>4 DEF BufferInv
  <2> QED BY <2>1, <2>2, <2>3, <2>4, <2>5
<1> QED BY <1>1, <1>2, <1>3, <1>4 DEF Next

-----------------------------------------------------------------------------
\* The theorems.

\* In every reachable state the invariant holds.
THEOREM SessionCorrect == Spec => []SessionInv
<1>1. Init => SessionInv BY InitInv
<1>2. SessionInv /\ [Next]_vars => SessionInv' BY StepInv
<1> QED BY <1>1, <1>2, PTL DEF Spec

\* The variables keep their types; in particular no received message is
\* Garbled, whatever message IDs the ends draw and whatever cleanup deletes.
THEOREM TypeCorrect == Spec => []TypeOK
<1>1. SessionInv => TypeOK BY DEF SessionInv
<1> QED BY <1>1, SessionCorrect, PTL

\* Ends of one connection derive one session key, ends of two derive two.
THEOREM KeyAgreementHolds == Spec => []KeyAgreement
<1>1. SessionInv => KeyAgreement
  <2> SUFFICES ASSUME SessionInv, NEW e \in Ends, NEW f \in Ends, Keyed(e), Keyed(f)
               PROVE  sessionKey[e] = sessionKey[f] <=> e[1] = f[1]
    BY DEF KeyAgreement
  <2>1. sessionKey[e] = PipeKey(e[1]) /\ sessionKey[f] = PipeKey(f[1])
    BY DEF SessionInv, KemInv
  <2>2. e[1] \in Conns /\ f[1] \in Conns BY PeerFacts
  <2> QED BY <2>1, <2>2, PipeKeyFacts
<1> QED BY <1>1, SessionCorrect, PTL

\* No end is handed a message its peer did not send.
THEOREM NoCrossTalkHolds == Spec => []NoCrossTalk
<1>1. SessionInv => NoCrossTalk
  BY ExpectedFacts DEF SessionInv, MessageInv, NoCrossTalk
<1> QED BY <1>1, SessionCorrect, PTL

\* Neither Connect nor Accept ever returns a channel.
THEOREM NeverAChannel == Spec => []IdentityNeverAccepted
<1>1. SessionInv => IdentityNeverAccepted
  BY DEF SessionInv, ControlInv, IdentityNeverAccepted
<1> QED BY <1>1, SessionCorrect, PTL

-----------------------------------------------------------------------------
\* The KEM phase implements the abstract key exchange.

Gone == {e \in Ends : pc[e] = "failed"}

\* What is held in a state that satisfies the invariant.
LEMMA HeldKeyFacts ==
  ASSUME SessionInv, NEW e \in Ends
  PROVE  /\ HeldKey[e] = IF kem[e].state = "ESTABLISHED" THEN PipeKey(e[1]) ELSE None
         /\ HeldKey[e] # None <=> kem[e].state = "ESTABLISHED"
         /\ PipeKey(e[1]) # None
BY PeerFacts, PipeKeyFacts
DEF HeldKey, SessionInv, KemInv, Established, DerivedKey, PipeKey

\* A step that leaves the handshake objects alone changes no held key.
LEMMA HeldKeyUnchanged == kem' = kem => HeldKey' = HeldKey
BY DEF HeldKey

\* A goroutine that fails gives up in the abstract exchange too.
LEMMA FailRefines ==
  ASSUME SessionInv, NEW e \in Ends, Fail(e), kem' = kem
  PROVE  [Exchange!KXNext]_<<HeldKey, Gone>>
<1>1. Gone' = Gone \cup {e} BY DEF Gone, Fail, SessionInv, TypeOK
<1>2. HeldKey' = HeldKey BY HeldKeyUnchanged
<1>3. CASE e \in Gone BY <1>1, <1>2, <1>3
<1>4. CASE e \notin Gone
  <2>1. Exchange!GiveUp(e) BY <1>1, <1>2, <1>4 DEF Exchange!GiveUp, Gone
  <2>2. e \in Exchange!KXEnds BY DEF Exchange!KXEnds, Ends
  <2> QED BY <2>1, <2>2 DEF Exchange!KXNext
<1> QED BY <1>3, <1>4

\* A step that establishes nothing and fails nowhere changes nothing abstract.
LEMMA QuietRefines ==
  ASSUME SessionInv, NEW e \in Ends,
         pc' = pc \/ \E where : /\ pc' = [pc EXCEPT ![e] = where]
                                /\ where # "failed" /\ pc[e] # "failed",
         kem' = kem \/ \E h : /\ kem' = [kem EXCEPT ![e] = h]
                              /\ h.state # "ESTABLISHED" /\ kem[e].state # "ESTABLISHED"
  PROVE  UNCHANGED <<HeldKey, Gone>>
<1>1. Gone' = Gone BY DEF Gone, SessionInv, TypeOK
<1>2. CASE kem' = kem BY <1>1, <1>2, HeldKeyUnchanged
<1>3. CASE kem' # kem
  <2>1. ASSUME NEW f \in Ends
        PROVE  /\ kem'[f].state = "ESTABLISHED" <=> kem[f].state = "ESTABLISHED"
               /\ kem[f].state = "ESTABLISHED" => kem'[f] = kem[f]
    BY <1>3 DEF SessionInv, TypeOK
  <2>2. HeldKey' = HeldKey BY <2>1 DEF HeldKey
  <2> QED BY <1>1, <2>2
<1> QED BY <1>2, <1>3

LEMMA InitiateRefines ==
  ASSUME SessionInv, NEW e \in Ends, Initiate(e)
  PROVE  UNCHANGED <<HeldKey, Gone>>
<1> DEFINE h == Initiated(kem[e], e)
<1>1. /\ pc' = [pc EXCEPT ![e] = "agree"] /\ pc[e] # "failed"
      /\ kem' = [kem EXCEPT ![e] = h] /\ kem[e].state # "ESTABLISHED"
  BY DEF Initiate, SessionInv, ControlInv
<1>2. h.state # "ESTABLISHED" BY DEF Initiated, SessionInv, TypeOK, Handshakes
<1> QED BY <1>1, <1>2, QuietRefines

LEMMA HandleRequestRefines ==
  ASSUME SessionInv, NEW e \in Ends, HandleRequest(e)
  PROVE  [Exchange!KXNext]_<<HeldKey, Gone>>
<1> DEFINE h == RequestHandled(kem[e], e, Body(e))
<1>1. CASE ~TakesRequest(kem[e], Body(e))
  <2>1. Fail(e) /\ kem' = kem BY <1>1 DEF HandleRequest
  <2> QED BY <2>1, FailRefines
<1>2. CASE TakesRequest(kem[e], Body(e))
  <2>1. /\ pc' = [pc EXCEPT ![e] = "finish"] /\ pc[e] # "failed"
        /\ kem' = [kem EXCEPT ![e] = h] /\ kem[e].state # "ESTABLISHED"
    BY <1>2 DEF HandleRequest, Got, SessionInv, ControlInv
  <2>2. h.state # "ESTABLISHED" BY DEF RequestHandled, SessionInv, TypeOK, Handshakes
  <2>3. UNCHANGED <<HeldKey, Gone>> BY <2>1, <2>2, QuietRefines
  <2> QED BY <2>3
<1> QED BY <1>1, <1>2

\* The dialer draws the key when it handles the agree message.
LEMMA HandleAgreeRefines ==
  ASSUME SessionInv, NEW e \in Ends, HandleAgree(e)
  PROVE  [Exchange!KXNext]_<<HeldKey, Gone>>
<1> DEFINE c == e[1]
<1>1. CASE ~TakesAgree(kem[e], Body(e))
  <2>1. Fail(e) /\ kem' = kem BY <1>1 DEF HandleAgree
  <2> QED BY <2>1, FailRefines
<1>2. CASE TakesAgree(kem[e], Body(e))
  <2>1. /\ pc' = [pc EXCEPT ![e] = "derive"] /\ pc[e] = "agree" /\ ~Acceptor(e)
        /\ kem[e].state = "WAIT_AGREE"
        /\ kem' = [kem EXCEPT ![e] = AgreeHandled(@, Body(e))]
    BY <1>2 DEF HandleAgree, Got, TakesAgree, SessionInv, ControlInv
  <2>2. kem'[e].state = "ESTABLISHED"
    BY <2>1 DEF AgreeHandled, SessionInv, TypeOK, Handshakes
  <2>3. SessionInv' BY HandleAgreeInv
  <2>4. HeldKey'[e] = PipeKey(c)
    BY <2>2, <2>3 DEF HeldKey, SessionInv, KemInv, Established, DerivedKey, PipeKey
  <2>5. c \in Conns /\ c \notin RelayConns /\ e = <<c, "A">> /\ Peer(e) = <<c, "B">>
        /\ Acceptor(Peer(e)) /\ Peer(e) \in Ends
    <3>1. c \notin RelayConns BY <2>2, <2>3 DEF SessionInv, KemInv, Established
    <3> QED BY <2>1, <3>1, PeerFacts
  <2>6. HeldKey' = [HeldKey EXCEPT ![e] = HeldKey'[e]]
    BY <2>1 DEF HeldKey, SessionInv, TypeOK
  <2>7. ASSUME NEW f \in Ends PROVE HeldKey'[e] # HeldKey[f]
    <3>1. CASE kem[f].state # "ESTABLISHED" BY <3>1, <2>4, HeldKeyFacts
    <3>2. CASE kem[f].state = "ESTABLISHED"
      <4>1. f[1] \in Conns /\ f[1] \notin RelayConns
        BY <3>2, PeerFacts DEF SessionInv, KemInv, Established
      <4>2. f # e BY <3>2, <2>1
      <4>3. f # Peer(e)
        <5>1. Acceptor(f) => kem[Peer(f)].state = "ESTABLISHED"
          BY <3>2 DEF SessionInv, KemInv, Established
        <5> QED BY <5>1, <2>1, <2>5, PeerFacts
      <4>4. f[1] # c BY <4>1, <4>2, <4>3, <2>5, PeerFacts
      <4> QED BY <3>2, <4>1, <4>4, <2>4, <2>5, HeldKeyFacts, PipeKeyFacts
    <3> QED BY <3>1, <3>2
  <2>8. HeldKey[e] = None /\ e \notin Gone BY <2>1, HeldKeyFacts DEF Gone
  <2>9. Gone' = Gone BY <2>1 DEF Gone, SessionInv, TypeOK
  <2> HIDE DEF c
  <2>10. Exchange!Draw(c)
    BY <2>5, <2>6, <2>7, <2>8, <2>9 DEF Exchange!Draw, Exchange!Holds, Exchange!KXEnds, Gone, Ends
  <2> QED BY <2>5, <2>10 DEF Exchange!KXNext
<1> QED BY <1>1, <1>2

\* The acceptor adopts it when it handles the finish message.
LEMMA HandleFinishRefines ==
  ASSUME SessionInv, NEW e \in Ends, HandleFinish(e)
  PROVE  [Exchange!KXNext]_<<HeldKey, Gone>>
<1> DEFINE c == e[1]
           h == FinishHandled(kem[e], Body(e))
           taken == TakesFinish(kem[e], Body(e)) /\ CanDerive(h)
<1>1. CASE ~taken
  <2>1. Fail(e) /\ kem' = kem BY <1>1 DEF HandleFinish
  <2> QED BY <2>1, FailRefines
<1>2. CASE taken
  <2>1. /\ pc' = [pc EXCEPT ![e] = "identity"] /\ pc[e] = "finish"
        /\ kem[e].state = "WAIT_FINISH" /\ kem' = [kem EXCEPT ![e] = h]
        /\ h.state = "ESTABLISHED"
    BY <1>2 DEF HandleFinish, Got, TakesFinish, CanDerive
  <2>2. SessionInv' BY HandleFinishInv
  <2> HIDE DEF h
  <2>3. Acceptor(e) /\ c \in Conns /\ e = <<c, "B">> /\ Peer(e) = <<c, "A">> /\ Peer(e) # e
        /\ Peer(e) \in Ends /\ Peer(e)[1] = c
    BY <2>1, PeerFacts DEF SessionInv, KemInv
  <2>4. kem'[e].state = "ESTABLISHED" BY <2>1 DEF SessionInv, TypeOK
  <2>5. HeldKey'[e] = PipeKey(c)
    BY <2>2, <2>4 DEF HeldKey, SessionInv, KemInv, Established, DerivedKey, PipeKey
  <2>6. kem[Peer(e)].state = "ESTABLISHED"
    <3>1. kem'[Peer(e)].state = "ESTABLISHED"
      BY <2>2, <2>3, <2>4 DEF SessionInv, KemInv, Established
    <3>2. kem'[Peer(e)] = kem[Peer(e)]
      BY <2>1, <2>3 DEF SessionInv, TypeOK
    <3> QED BY <3>1, <3>2
  <2>7. HeldKey[Peer(e)] = PipeKey(c) /\ PipeKey(c) # None
    BY <2>3, <2>6, HeldKeyFacts
  <2>8. HeldKey' = [HeldKey EXCEPT ![e] = HeldKey'[e]]
    BY <2>1 DEF HeldKey, SessionInv, TypeOK
  <2>9. HeldKey[e] = None /\ e \notin Gone BY <2>1, HeldKeyFacts DEF Gone
  <2>10. Gone' = Gone BY <2>1 DEF Gone, SessionInv, TypeOK
  <2> HIDE DEF c
  <2>11. Exchange!Adopt(c)
    BY <2>3, <2>5, <2>7, <2>8, <2>9, <2>10 DEF Exchange!Adopt, Exchange!Holds, Gone
  <2> QED BY <2>3, <2>11 DEF Exchange!KXNext
<1> QED BY <1>1, <1>2

\* Every step of a session is one of the abstract exchange or none.
LEMMA StepRefines ==
  SessionInv /\ [Next]_vars => [Exchange!KXNext]_<<HeldKey, Gone>>
<1> SUFFICES ASSUME SessionInv, [Next]_vars
             PROVE  [Exchange!KXNext]_<<HeldKey, Gone>>
  OBVIOUS
<1>1. CASE \E c \in Conns : Dial(c) \/ Drop(c)
  <2> SUFFICES ASSUME NEW c \in Conns, Dial(c) \/ Drop(c)
               PROVE  UNCHANGED <<HeldKey, Gone>>
    BY <1>1
  <2>1. HeldKey' = HeldKey BY HeldKeyUnchanged DEF Dial, Drop
  <2>2. CASE Drop(c) BY <2>1, <2>2 DEF Drop, Gone
  <2>3. CASE Dial(c)
    <3>1. <<c, "A">> \in Ends /\ <<c, "B">> \in Ends /\ <<c, "A">> # <<c, "B">>
          /\ Peer(<<c, "A">>) = <<c, "B">>
      BY DEF Ends, Peer
    <3>2. pc[<<c, "A">>] = "idle" /\ pc[<<c, "B">>] = "idle"
      BY <2>3, <3>1 DEF Dial, SessionInv, ControlInv
    <3>3. \A e \in Ends : pc'[e] = "failed" <=> pc[e] = "failed"
      BY <2>3, <3>1, <3>2 DEF Dial, SessionInv, TypeOK
    <3> QED BY <2>1, <3>3 DEF Gone
  <2> QED BY <2>2, <2>3
<1>2. CASE \E e \in Ends : Step(e)
  <2> SUFFICES ASSUME NEW e \in Ends, Step(e)
               PROVE  [Exchange!KXNext]_<<HeldKey, Gone>>
    BY <1>2
  <2>1. CASE Initiate(e) BY <2>1, InitiateRefines
  <2>2. CASE Send(e)
    <3>1. kem' = kem /\ (pc' = pc \/ Fail(e)) BY <2>2 DEF Send, SendPacket, SendLost
    <3> QED BY <3>1, FailRefines, QuietRefines
  <2>3. CASE Receive(e)
    <3>1. kem' = kem /\ pc' = pc BY <2>3 DEF Receive, ReceiveWhole, ReceivePart
    <3> QED BY <3>1, QuietRefines
  <2>4. CASE DeriveAndSendIdentity(e)
    <3>1. kem' = kem /\ (Fail(e) \/ pc' = [pc EXCEPT ![e] = "challenge"]) /\ pc[e] # "failed"
      BY <2>4 DEF DeriveAndSendIdentity
    <3> QED BY <3>1, FailRefines, QuietRefines
  <2>5. CASE HandleRequest(e) BY <2>5, HandleRequestRefines
  <2>6. CASE HandleAgree(e) BY <2>6, HandleAgreeRefines
  <2>7. CASE HandleFinish(e) BY <2>7, HandleFinishRefines
  <2>8. CASE HandlePeerIdentity(e)
    <3>1. kem' = kem /\ (Fail(e) \/ pc' = [pc EXCEPT ![e] = "identified"]) /\ pc[e] # "failed"
      BY <2>8 DEF HandlePeerIdentity, Got
    <3> QED BY <3>1, FailRefines, QuietRefines
  <2>9. CASE Unexpected(e) BY <2>9, FailRefines DEF Unexpected
  <2> QED BY <2>1, <2>2, <2>3, <2>4, <2>5, <2>6, <2>7, <2>8, <2>9 DEF Step, Handle
<1>3. CASE \E e \in Ends : GiveUp(e)
  BY <1>3, FailRefines DEF GiveUp, ReadError, Timeout
<1>4. CASE UNCHANGED vars BY <1>4, HeldKeyUnchanged DEF vars, Gone
<1> QED BY <1>1, <1>2, <1>3, <1>4 DEF Next

\* Every behaviour of the sessions is one of the abstract key exchange: keys
\* are drawn fresh by dialers, adopted by the acceptor of the same connection
\* and no other, never changed and never obtained after giving up.
THEOREM SessionImplementsKeyExchange == Spec => KeyExchangeSpec
<1>1. Init => Exchange!KXInit
  BY DEF Init, Exchange!KXInit, Exchange!KXEnds, HeldKey, NewKEMHandshake, Ends
<1>2. SessionInv /\ [Next]_vars => [Exchange!KXNext]_<<HeldKey, Gone>> BY StepRefines
<1> QED BY <1>1, <1>2, SessionCorrect, PTL DEF Spec, KeyExchangeSpec, Exchange!KXSpec, Gone

-----------------------------------------------------------------------------
\* What the documentation says of keys and bindings fails in every run that gets so
\* far, on any number of connections: the disagreements that TLC shows by an example.

\* The KEM keys an object holds once it has answered a request or finished: the peer's,
\* and its own unless it is the acceptor, which dropped it.
KeysInv == \A e \in Ends :
  /\ kem[e].state = "WAIT_FINISH" => kem[e].peer = Peer(e)
  /\ Established(e) =>
       kem[e].peer = Peer(e) /\ kem[e].keypair = (IF Acceptor(e) THEN None ELSE e)

\* A step that leaves the objects alone leaves their keys alone.
LEMMA KeysUnchanged == KeysInv /\ kem' = kem => KeysInv'
BY DEF KeysInv, Established

\* It is enough to look at the end whose object a step changes.
LEMMA KeysOf ==
  ASSUME TypeOK, KeysInv, NEW e \in Ends, NEW h, kem' = [kem EXCEPT ![e] = h],
         h.state = "WAIT_FINISH" => h.peer = Peer(e),
         h.state = "ESTABLISHED" =>
           h.peer = Peer(e) /\ h.keypair = (IF Acceptor(e) THEN None ELSE e)
  PROVE  KeysInv'
<1>1. kem'[e] = h /\ \A f \in Ends \ {e} : kem'[f] = kem[f] BY DEF TypeOK
<1> QED BY <1>1 DEF KeysInv, Established

LEMMA InitiateKeys ==
  ASSUME SessionInv, KeysInv, NEW e \in Ends, Initiate(e) PROVE KeysInv'
<1> DEFINE h == Initiated(kem[e], e)
<1>1. TypeOK /\ kem' = [kem EXCEPT ![e] = h] BY DEF Initiate, SessionInv
<1>2. h.state = "WAIT_AGREE" BY <1>1 DEF Initiated, TypeOK, Handshakes
<1> HIDE DEF h
<1> QED BY <1>1, <1>2, KeysOf

LEMMA HandleRequestKeys ==
  ASSUME SessionInv, KeysInv, NEW e \in Ends, HandleRequest(e) PROVE KeysInv'
<1> DEFINE h == RequestHandled(kem[e], e, Body(e))
<1>1. CASE ~TakesRequest(kem[e], Body(e)) BY <1>1, KeysUnchanged DEF HandleRequest
<1>2. CASE TakesRequest(kem[e], Body(e))
  <2>1. TypeOK /\ kem' = [kem EXCEPT ![e] = h] BY <1>2 DEF HandleRequest, SessionInv
  <2>2. Expected(e, kem[Peer(e)], "request", Body(e))
    BY DEF HandleRequest, Got, Body, SessionInv, MessageInv
  <2>3. Body(e).pk = Peer(e) BY <2>2, ExpectedFacts DEF RequestMsg
  <2>4. h.state = "WAIT_FINISH" /\ h.peer = Peer(e)
    BY <2>1, <2>3 DEF RequestHandled, TypeOK, Handshakes
  <2> HIDE DEF h
  <2> QED BY <2>1, <2>4, KeysOf
<1> QED BY <1>1, <1>2

LEMMA HandleAgreeKeys ==
  ASSUME SessionInv, KeysInv, NEW e \in Ends, HandleAgree(e) PROVE KeysInv'
<1> DEFINE h == AgreeHandled(kem[e], Body(e))
<1>1. CASE ~TakesAgree(kem[e], Body(e)) BY <1>1, KeysUnchanged DEF HandleAgree
<1>2. CASE TakesAgree(kem[e], Body(e))
  <2>1. TypeOK /\ kem' = [kem EXCEPT ![e] = h] BY <1>2 DEF HandleAgree, SessionInv
  <2>2. Expected(e, kem[Peer(e)], "agree", Body(e))
    BY DEF HandleAgree, Got, Body, SessionInv, MessageInv
  <2>3. Body(e).pk = Peer(e) BY <2>2, ExpectedFacts DEF AgreeTo, AgreeMsg
  <2>4. kem[e].keypair = e /\ ~Acceptor(e)
    BY <1>2 DEF TakesAgree, SessionInv, KemInv, HandleAgree, Got, ControlInv
  <2>5. h.state = "ESTABLISHED" /\ h.peer = Peer(e) /\ h.keypair = e
    BY <2>1, <2>3, <2>4 DEF AgreeHandled, TypeOK, Handshakes
  <2> HIDE DEF h
  <2> QED BY <2>1, <2>4, <2>5, KeysOf
<1> QED BY <1>1, <1>2

LEMMA HandleFinishKeys ==
  ASSUME SessionInv, KeysInv, NEW e \in Ends, HandleFinish(e) PROVE KeysInv'
<1> DEFINE h == FinishHandled(kem[e], Body(e))
<1>1. CASE kem' = kem BY <1>1, KeysUnchanged
<1>2. CASE kem' # kem
  <2>1. /\ TypeOK /\ kem' = [kem EXCEPT ![e] = h]
        /\ kem[e].state = "WAIT_FINISH"
    BY <1>2 DEF HandleFinish, TakesFinish, SessionInv
  <2>2. Acceptor(e) /\ kem[e].peer = Peer(e) BY <2>1 DEF SessionInv, KemInv, KeysInv
  <2>3. h.state = "ESTABLISHED" /\ h.peer = Peer(e) /\ h.keypair = None
    BY <2>1, <2>2 DEF FinishHandled, TypeOK, Handshakes
  <2> HIDE DEF h
  <2> QED BY <2>1, <2>2, <2>3, KeysOf
<1> QED BY <1>1, <1>2

LEMMA KeysStep == SessionInv /\ KeysInv /\ [Next]_vars => KeysInv'
<1> SUFFICES ASSUME SessionInv, KeysInv, [Next]_vars PROVE KeysInv' OBVIOUS
<1>1. CASE \E c \in Conns : Dial(c) \/ Drop(c) BY <1>1, KeysUnchanged DEF Dial, Drop
<1>2. CASE \E e \in Ends : Step(e)
  <2> SUFFICES ASSUME NEW e \in Ends, Step(e) PROVE KeysInv' BY <1>2
  <2>1. CASE Initiate(e) BY <2>1, InitiateKeys
  <2>2. CASE HandleRequest(e) BY <2>2, HandleRequestKeys
  <2>3. CASE HandleAgree(e) BY <2>3, HandleAgreeKeys
  <2>4. CASE HandleFinish(e) BY <2>4, HandleFinishKeys
  <2>5. CASE Send(e) \/ Receive(e)
    BY <2>5, KeysUnchanged
    DEF Send, SendPacket, SendLost, Receive, ReceiveWhole, ReceivePart
  <2>6. CASE DeriveAndSendIdentity(e) \/ HandlePeerIdentity(e) \/ Unexpected(e)
    BY <2>6, KeysUnchanged DEF DeriveAndSendIdentity, HandlePeerIdentity, Unexpected
  <2> QED BY <2>1, <2>2, <2>3, <2>4, <2>5, <2>6 DEF Step, Handle
<1>3. CASE \E e \in Ends : GiveUp(e) BY <1>3, KeysUnchanged DEF GiveUp, ReadError, Timeout
<1>4. CASE UNCHANGED vars BY <1>4, KeysUnchanged DEF vars
<1> QED BY <1>1, <1>2, <1>3, <1>4 DEF Next

LEMMA KeysCorrect == Spec => []KeysInv
<1>1. Init => KeysInv
  <2> SUFFICES ASSUME Init PROVE KeysInv OBVIOUS
  <2>1. \A e \in Ends : kem[e].state = "INIT" BY DEF Init, NewKEMHandshake
  <2> QED BY <2>1 DEF KeysInv, Established
<1>2. SessionInv /\ KeysInv /\ [Next]_vars => KeysInv' BY KeysStep
<1> QED BY <1>1, <1>2, SessionCorrect, PTL DEF Spec

\* main.go:72: over a relay, where both ends dial, no end ever holds a session key.
THEOREM NoKeyOverRelay == Spec => [](\A e \in Ends : e[1] \in RelayConns => ~Keyed(e))
<1>1. SessionInv => \A e \in Ends : e[1] \in RelayConns => ~Keyed(e)
  BY DEF SessionInv, KemInv
<1> QED BY <1>1, SessionCorrect, PTL

\* handshake.go:147: every dialer that has a session key still has the ephemeral key pair
\* from which it comes; every acceptor has dropped its own.
THEOREM DialersKeepTheirKeys ==
  Spec => [](\A e \in Ends : Keyed(e) => (kem[e].keypair = None <=> Acceptor(e)))
<1>1. SessionInv /\ KeysInv =>
        \A e \in Ends : Keyed(e) => (kem[e].keypair = None <=> Acceptor(e))
  BY SessionAssumption DEF SessionInv, KemInv, KeysInv
<1> QED BY <1>1, SessionCorrect, KeysCorrect, PTL

\* handshake.go:178: the bindings of two ends that both have the session key are never
\* equal, so that no signature over one of them verifies against the other.
THEOREM BindingsNeverAgree ==
  Spec => [](\A c \in Conns : BothKeyed(c) =>
               ChannelBinding(kem[<<c, "A">>]) # ChannelBinding(kem[<<c, "B">>]))
<1>1. SessionInv /\ KeysInv =>
        \A c \in Conns : BothKeyed(c) =>
          ChannelBinding(kem[<<c, "A">>]) # ChannelBinding(kem[<<c, "B">>])
  <2> SUFFICES ASSUME SessionInv, KeysInv, NEW c \in Conns, BothKeyed(c)
               PROVE  ChannelBinding(kem[<<c, "A">>]) # ChannelBinding(kem[<<c, "B">>])
    OBVIOUS
  <2> DEFINE a == <<c, "A">>
             b == <<c, "B">>
  <2>1. a \in Ends /\ b \in Ends /\ Peer(a) = b /\ Peer(b) = a BY DEF Ends, Peer
  <2>2. Established(a) /\ Established(b) /\ c \notin RelayConns
    BY <2>1 DEF BothKeyed, SessionInv, KemInv
  <2>3. ~Acceptor(a) /\ Acceptor(b) BY <2>2 DEF Acceptor
  <2>4. /\ kem[a].keypair = a /\ kem[a].peer = b
        /\ kem[b].keypair = None /\ kem[b].peer = a
    BY <2>1, <2>2, <2>3 DEF KeysInv
  <2>5. a # None BY <2>1, SessionAssumption
  <2>6. ChannelBinding(kem[a]) = <<a>> \o <<b>> /\ ChannelBinding(kem[b]) = <<>> \o <<a>>
    BY <2>4, <2>5 DEF ChannelBinding
  <2> HIDE DEF a, b
  <2>7. Len(<<a>> \o <<b>>) = 2 /\ Len(<<>> \o <<a>>) = 1 OBVIOUS
  <2> QED BY <2>6, <2>7 DEF a, b
<1> QED BY <1>1, SessionCorrect, KeysCorrect, PTL
=============================================================================
