---------------------------- MODULE IdentityProof ----------------------------
(***************************************************************************)
(* Proofs about IdentityExchange, for any number of sessions, identities   *)
(* and messages.                                                           *)
(***************************************************************************)
EXTENDS IdentityExchange, TLAPS

-----------------------------------------------------------------------------
\* The inductive invariant.

\* What a driver has told by the time it waits for a message, per role.
SaidInv(s) ==
  /\ pc[s] = "challenge" =>
       said[s] = IF role[s] = "dialer" THEN {"identity"} ELSE {"challenge", "identity"}
  /\ pc[s] = "identity" => said[s] = IF role[s] = "dialer" THEN {"identity", "response"} ELSE {}
  /\ pc[s] = "response" =>
       said[s] = IF role[s] = "dialer" THEN {"identity", "challenge", "response"} ELSE {"challenge"}
  /\ pc[s] = "verified" => said[s] = {"identity", "challenge", "response"}

\* When an exchange is verified, and what it was verified by.
VerifiedInv(s) ==
  /\ exchange[s].isVerified => peer[s] = target[s] /\ Text(Challenge(s), "own", s) \in signed[s]
  /\ pc[s] = "verified" => exchange[s].isVerified
  /\ pc[s] = "challenge" /\ role[s] = "acceptor" => exchange[s].isVerified
  /\ role[s] = "acceptor" /\ said[s] \cap {"identity", "response"} # {} => exchange[s].isVerified
  /\ pc[s] \in {"identity", "response"} => ~exchange[s].isVerified
  /\ pc[s] = "challenge" /\ role[s] = "dialer" => ~exchange[s].isVerified

IdInv == TypeOK /\ \A s \in Sessions : SaidInv(s) /\ VerifiedInv(s)

-----------------------------------------------------------------------------
\* A message that verifies was signed by the one whose key is held.
LEMMA ValidSignature ==
  ASSUME TypeOK, NEW s \in Sessions, inbox[s] # <<>>, Got(s).flag \in Flags,
         IsValid(s, Got(s).body)
  PROVE  exchange[s].peerKey = peer[s] /\ Text(Challenge(s), "own", s) \in signed[s]
<1>1. Got(s).body \in Tellable(s) \cup {Sealed(s, Signature(peer[s], t)) : t \in signed[s]}
  <2>1. Got(s) \in Messages(s)
    BY DEF TypeOK, Got
  <2>2. Got(s) # Part
    BY DEF Part, Flags
  <2> QED
    BY <2>1, <2>2 DEF Messages
<1> DEFINE text == Text(Challenge(s), "own", s)
<1>2. Got(s).body.plain.kind = "signature" /\ Got(s).body.plain.by = exchange[s].peerKey
      /\ Got(s).body.plain.text = text
  BY DEF IsValid, Signature, Expected
<1>3. CASE \E i \in Identities : Got(s).body = Sealed(s, PublicKey(i))
  BY <1>2, <1>3 DEF Sealed, PublicKey
<1>4. CASE \E k \in {s, None} : Got(s).body = Sealed(k, Nonce(None))
  BY <1>2, <1>4 DEF Sealed, Nonce
<1>5. CASE \E t \in signed[s] : Got(s).body = Sealed(s, Signature(peer[s], t))
  BY <1>2, <1>5 DEF Sealed, Signature
<1> QED
  BY <1>1, <1>3, <1>4, <1>5 DEF Tellable

\* The invariant of a session depends on its own part of the state.
LEMMA OtherSessions ==
  ASSUME NEW s \in Sessions, IdInv,
         pc'[s] = pc[s], said'[s] = said[s], exchange'[s] = exchange[s],
         signed[s] \subseteq signed'[s], UNCHANGED given
  PROVE  SaidInv(s)' /\ VerifiedInv(s)'
BY DEF IdInv, SaidInv, VerifiedInv, given, Text, Challenge, Sealed, Nonce

LEMMA IdInit == Init => IdInv
<1> SUFFICES ASSUME Init PROVE IdInv
  OBVIOUS
<1>1. TypeOK
  BY IdentityAssumption DEF Init, TypeOK, Flags, Returned
<1>2. ASSUME NEW s \in Sessions PROVE SaidInv(s) /\ VerifiedInv(s)
  BY <1>2 DEF Init, SaidInv, VerifiedInv
<1> QED
  BY <1>1, <1>2 DEF IdInv

-----------------------------------------------------------------------------
LEMMA AppendType ==
  ASSUME NEW S, NEW q \in Seq(S), NEW x \in S
  PROVE  Append(q, x) \in Seq(S)
OBVIOUS

\* What the peer does leaves the driver where it is.
LEMMA PeerStep ==
  ASSUME IdInv, NEW s \in Sessions, Peer(s)
  PROVE  IdInv'
<1>1. UNCHANGED <<given, pc, exchange, said>>
  BY DEF Peer, PeerTells, PeerSigns, PeerGoes, PeerSends, PeerSendsPart
<1>2. /\ \A r \in Sessions : signed[r] \subseteq signed'[r]
      /\ \A r \in Sessions : signed'[r] \subseteq SignedAs(r) \X {"own", "other"} \X {r}
  <2>1. CASE PeerSigns(s)
    <3>1. PICK nonce \in SignedAs(s), binding \in {"own", "other"} :
            signed' = [signed EXCEPT ![s] = @ \cup {Text(nonce, binding, s)}]
      BY <2>1 DEF PeerSigns
    <3>2. Text(nonce, binding, s) \in SignedAs(s) \X {"own", "other"} \X {s}
      BY <3>1 DEF Text
    <3> DEFINE text == Text(nonce, binding, s)
               signable(r) == SignedAs(r) \X {"own", "other"} \X {r}
    <3>3. \A r \in Sessions : signed[r] \subseteq signable(r)
      BY DEF IdInv, TypeOK
    <3>4. signed' = [signed EXCEPT ![s] = @ \cup {text}] /\ text \in signable(s)
      BY <3>1, <3>2
    <3>5. DOMAIN signed = Sessions
      BY DEF IdInv, TypeOK
    <3> HIDE DEF text, signable
    <3>6. ASSUME NEW r \in Sessions
          PROVE  signed'[r] = IF r = s THEN signed[r] \cup {text} ELSE signed[r]
      BY <3>4, <3>5
    <3>7. \A r \in Sessions : signed[r] \subseteq signed'[r] /\ signed'[r] \subseteq signable(r)
      BY <3>3, <3>4, <3>6
    <3> QED
      BY <3>7 DEF signable
  <2>2. CASE ~PeerSigns(s)
    <3>1. UNCHANGED signed
      BY <2>2 DEF Peer, PeerTells, PeerGoes, PeerSendsPart
    <3> QED
      BY <3>1 DEF IdInv, TypeOK, SignedAs
  <2> QED
    BY <2>1, <2>2
<1>3. /\ sends' \in [Sessions -> 0..MaxMessages] /\ gone' \subseteq Sessions
      /\ DOMAIN inbox' = Sessions /\ DOMAIN signed' = Sessions
  <2>1. ASSUME NEW flag, NEW body, PeerSends(s, flag, body)
        PROVE  sends' \in [Sessions -> 0..MaxMessages] /\ gone' \subseteq Sessions
               /\ DOMAIN inbox' = Sessions
    BY <2>1, IdentityAssumption DEF PeerSends, IdInv, TypeOK
  <2>2. CASE PeerTells(s)
    BY <2>1, <2>2 DEF PeerTells, IdInv, TypeOK
  <2>3. CASE PeerSigns(s)
    BY <2>1, <2>3 DEF PeerSigns, IdInv, TypeOK
  <2>4. CASE PeerGoes(s)
    BY <2>4 DEF PeerGoes, IdInv, TypeOK
  <2>5. CASE PeerSendsPart(s)
    BY <2>5 DEF PeerSendsPart, IdInv, TypeOK
  <2> QED
    BY <2>2, <2>3, <2>4, <2>5 DEF Peer
<1>4. \A r \in Sessions : Messages(r) \subseteq Messages(r)'
  BY <1>1, <1>2 DEF Messages, Tellable, given, Sealed, PublicKey, Nonce, Part
<1>5. \A r \in Sessions : inbox'[r] \in Seq(Messages(r)')
  <2>1. ASSUME NEW message \in Messages(s)',
               inbox' = [inbox EXCEPT ![s] = Append(@, message)]
        PROVE  \A r \in Sessions : inbox'[r] \in Seq(Messages(r)')
    <3>1. ASSUME NEW r \in Sessions PROVE inbox[r] \in Seq(Messages(r)')
      <4>1. inbox[r] \in Seq(Messages(r))
        BY <3>1 DEF IdInv, TypeOK
      <4> QED
        BY <1>4, <4>1
    <3>2. DOMAIN inbox = Sessions
      BY DEF IdInv, TypeOK
    <3>3. \A r \in Sessions : r # s => inbox'[r] = inbox[r]
      BY <2>1
    <3>4. inbox'[s] = Append(inbox[s], message)
      BY <2>1, <3>2
    <3>5. inbox'[s] \in Seq(Messages(s)')
      BY <2>1, <3>1, <3>4, AppendType
    <3> QED
      BY <3>1, <3>3, <3>5
  <2>2. CASE PeerGoes(s)
    <3>1. \A r \in Sessions : inbox'[r] = inbox[r] /\ inbox[r] \in Seq(Messages(r))
      BY <2>2 DEF PeerGoes, IdInv, TypeOK
    <3> QED
      BY <1>4, <3>1
  <2>3. CASE PeerTells(s)
    <3>1. PICK flag \in Flags, body \in Tellable(s) : PeerSends(s, flag, body)
      BY <2>3 DEF PeerTells
    <3>2. [flag |-> flag, body |-> body] \in Messages(s)'
      BY <1>1 DEF Messages, Tellable, Sealed, PublicKey, Nonce
    <3> QED
      BY <2>1, <3>1, <3>2 DEF PeerSends
  <2>4. CASE PeerSigns(s)
    <3>1. PICK text \in signed'[s] : PeerSends(s, "response", Sealed(s, Signature(peer[s], text)))
      <4>1. PICK nonce \in SignedAs(s), binding \in {"own", "other"} :
              /\ PeerSends(s, "response", Sealed(s, Signature(peer[s], Text(nonce, binding, s))))
              /\ signed' = [signed EXCEPT ![s] = @ \cup {Text(nonce, binding, s)}]
        BY <2>4 DEF PeerSigns
      <4>2. Text(nonce, binding, s) \in signed'[s]
        BY <4>1 DEF IdInv, TypeOK
      <4> QED
        BY <4>1, <4>2
    <3>2. [flag |-> "response", body |-> Sealed(s, Signature(peer[s], text))] \in Messages(s)'
      BY <1>1 DEF Messages, given, Sealed, Signature, Flags
    <3> QED
      BY <2>1, <3>1, <3>2 DEF PeerSends
  <2>5. CASE PeerSendsPart(s)
    BY <2>1, <2>5 DEF PeerSendsPart, Messages
  <2> QED
    BY <2>2, <2>3, <2>4, <2>5 DEF Peer
<1>6. TypeOK'
  BY <1>1, <1>2, <1>3, <1>5 DEF IdInv, TypeOK, given
<1>7. \A r \in Sessions : SaidInv(r)' /\ VerifiedInv(r)'
  BY <1>1, <1>2, OtherSessions
<1> QED
  BY <1>6, <1>7 DEF IdInv
-----------------------------------------------------------------------------
LEMMA TailType ==
  ASSUME NEW S, NEW q \in Seq(S), q # <<>>
  PROVE  Tail(q) \in Seq(S)
OBVIOUS

\* A driver takes a message or not, and changes its own session only.
LEMMA DriverStep ==
  ASSUME IdInv, NEW s \in Sessions, UNCHANGED <<given, sends, gone, signed>>,
         NEW p \in Flags \cup Returned, pc' = [pc EXCEPT ![s] = p],
         NEW x \in SUBSET Flags, said' = [said EXCEPT ![s] = x],
         NEW e \in [peerKey : {None, target[s]}, isVerified : BOOLEAN],
         exchange' = [exchange EXCEPT ![s] = e],
         \/ UNCHANGED inbox
         \/ inbox[s] # <<>> /\ inbox' = [inbox EXCEPT ![s] = Tail(@)],
         SaidInv(s)', VerifiedInv(s)'
  PROVE  IdInv'
<1> USE DEF IdInv
<1>1. e.peerKey \in Identities \cup {None} /\ e.peerKey \in {None, target[s]}
  BY DEF TypeOK
<1>2. /\ pc' \in [Sessions -> Flags \cup Returned] /\ said' \in [Sessions -> SUBSET Flags]
      /\ exchange' \in [Sessions -> [peerKey : Identities \cup {None}, isVerified : BOOLEAN]]
  BY <1>1 DEF TypeOK
<1>3. \A r \in Sessions : exchange'[r].peerKey \in {None, target[r]}
  BY <1>1 DEF TypeOK
<1>4. UNCHANGED <<given, signed>> /\ \A r \in Sessions : Messages(r)' = Messages(r)
  BY DEF Messages, Tellable, given, Sealed, PublicKey, Nonce, Part
<1>5. DOMAIN inbox' = Sessions /\ \A r \in Sessions : inbox'[r] \in Seq(Messages(r)')
  <2>1. DOMAIN inbox = Sessions /\ \A r \in Sessions : inbox[r] \in Seq(Messages(r))
    BY DEF TypeOK
  <2>2. ASSUME NEW r \in Sessions PROVE inbox'[r] \in Seq(Messages(r))
    <3>1. inbox'[r] = inbox[r] \/ (inbox[r] # <<>> /\ inbox'[r] = Tail(inbox[r]))
      BY <2>1
    <3>2. inbox[r] \in Seq(Messages(r))
      BY <2>1
    <3> QED
      BY <3>1, <3>2, TailType
  <2> QED
    BY <1>4, <2>1, <2>2
<1>6. TypeOK'
  BY <1>2, <1>3, <1>4, <1>5 DEF TypeOK, given
<1>7. ASSUME NEW r \in Sessions PROVE SaidInv(r)' /\ VerifiedInv(r)'
  <2>1. CASE r = s
    BY <2>1
  <2>2. CASE r # s
    <3>1. pc'[r] = pc[r] /\ said'[r] = said[r] /\ exchange'[r] = exchange[r]
      BY <2>2 DEF TypeOK
    <3> QED
      BY <1>4, <3>1, OtherSessions
  <2> QED
    BY <2>1, <2>2
<1> QED
  BY <1>6, <1>7

\* The invariant of a session after a step of its driver, from what the step
\* made of the session.
LEMMA SessionAfter ==
  ASSUME IdInv, NEW s \in Sessions, UNCHANGED <<given, signed>>,
         NEW p, pc' = [pc EXCEPT ![s] = p], NEW x, said' = [said EXCEPT ![s] = x],
         NEW e, exchange' = [exchange EXCEPT ![s] = e]
  PROVE  /\ pc'[s] = p /\ said'[s] = x /\ exchange'[s] = e
         /\ role'[s] = role[s] /\ peer'[s] = peer[s] /\ target'[s] = target[s]
         /\ signed'[s] = signed[s] /\ Text(Challenge(s), "own", s)' = Text(Challenge(s), "own", s)
         /\ role[s] \in {"dialer", "acceptor"}
BY DEF IdInv, TypeOK, given, Text, Challenge, Sealed, Nonce

\* A send goes on or fails.
LEMMA Sent ==
  ASSUME IdInv, NEW s \in Sessions, NEW flag \in Flags, SendAndGoOn(s, flag)
  PROVE  \/ pc' = [pc EXCEPT ![s] = After(s)] /\ said' = [said EXCEPT ![s] = said[s] \cup {flag}]
         \/ pc' = [pc EXCEPT ![s] = "failed"] /\ said' = [said EXCEPT ![s] = said[s]]
BY DEF IdInv, TypeOK, SendAndGoOn, Fail

\* A driver that fails keeps what it has shown.
LEMMA Failed ==
  ASSUME IdInv, NEW s \in Sessions, UNCHANGED <<given, exchange, sends, gone, signed>>,
         Fail(s),
         \/ UNCHANGED inbox
         \/ inbox[s] # <<>> /\ inbox' = [inbox EXCEPT ![s] = Tail(@)]
  PROVE  IdInv'
<1>1. /\ pc' = [pc EXCEPT ![s] = "failed"] /\ said' = [said EXCEPT ![s] = said[s]]
      /\ exchange' = [exchange EXCEPT ![s] = exchange[s]]
  BY DEF Fail, IdInv, TypeOK
<1> UNCHANGED <<given, signed>>
  OBVIOUS
<1>2. /\ said[s] \in SUBSET Flags
      /\ exchange[s] \in [peerKey : {None, target[s]}, isVerified : BOOLEAN]
  BY DEF IdInv, TypeOK
<1>3. /\ pc'[s] = "failed" /\ said'[s] = said[s] /\ exchange'[s] = exchange[s]
      /\ role'[s] = role[s] /\ peer'[s] = peer[s] /\ target'[s] = target[s]
      /\ signed'[s] = signed[s] /\ Text(Challenge(s), "own", s)' = Text(Challenge(s), "own", s)
  BY <1>1 DEF IdInv, TypeOK, given, Text, Challenge, Sealed, Nonce
<1>4. SaidInv(s)' /\ VerifiedInv(s)'
  BY <1>3 DEF IdInv, SaidInv, VerifiedInv
<1> QED
  BY <1>1, <1>2, <1>4, DriverStep DEF Returned

LEMMA ChallengeStep ==
  ASSUME IdInv, NEW s \in Sessions, HandleChallenge(s)
  PROVE  IdInv'
<1>1. /\ UNCHANGED <<given, exchange, sends, gone, signed>> /\ pc[s] = "challenge"
      /\ inbox[s] # <<>> /\ inbox' = [inbox EXCEPT ![s] = Tail(@)]
  BY DEF HandleChallenge, Take
<1>2. CASE Fail(s)
  BY <1>1, <1>2, Failed
<1>3. CASE SendAndGoOn(s, "response") /\ ~Fail(s)
  <2>1. pc' = [pc EXCEPT ![s] = After(s)] /\ said' = [said EXCEPT ![s] = said[s] \cup {"response"}]
    BY <1>3 DEF SendAndGoOn
  <2>2. /\ After(s) = IF role[s] = "dialer" THEN "identity" ELSE "verified"
        /\ After(s) \in Flags \cup Returned
    BY <1>1 DEF After, Flags, Returned
  <2>3. exchange' = [exchange EXCEPT ![s] = exchange[s]]
        /\ exchange[s] \in [peerKey : {None, target[s]}, isVerified : BOOLEAN]
        /\ said[s] \cup {"response"} \in SUBSET Flags
    BY <1>1 DEF IdInv, TypeOK, Flags
  <2>4. /\ pc'[s] = After(s) /\ said'[s] = said[s] \cup {"response"} /\ exchange'[s] = exchange[s]
        /\ role'[s] = role[s] /\ peer'[s] = peer[s] /\ target'[s] = target[s]
        /\ signed'[s] = signed[s] /\ Text(Challenge(s), "own", s)' = Text(Challenge(s), "own", s)
        /\ role[s] \in {"dialer", "acceptor"}
    BY <1>1, <2>1, <2>3, SessionAfter
  <2>5. SaidInv(s)'
    BY <1>1, <2>2, <2>4 DEF IdInv, SaidInv
  <2>6. VerifiedInv(s)'
    BY <1>1, <2>2, <2>4 DEF IdInv, VerifiedInv
  <2> QED
    BY <1>1, <2>1, <2>2, <2>3, <2>5, <2>6, DriverStep
<1> QED
  BY <1>2, <1>3 DEF HandleChallenge

LEMMA IdentityStep ==
  ASSUME IdInv, NEW s \in Sessions, HandlePeerIdentity(s)
  PROVE  IdInv'
<1>1. /\ UNCHANGED <<given, sends, gone, signed>> /\ pc[s] = "identity"
      /\ inbox[s] # <<>> /\ inbox' = [inbox EXCEPT ![s] = Tail(@)]
  BY DEF HandlePeerIdentity, Take
<1>2. CASE Fail(s) /\ UNCHANGED exchange
  BY <1>1, <1>2, Failed
<1>3. CASE ~(Fail(s) /\ UNCHANGED exchange)
  <2> DEFINE e == [peerKey |-> target[s], isVerified |-> exchange[s].isVerified]
  <2>1. exchange' = [exchange EXCEPT ![s] = e] /\ SendAndGoOn(s, "challenge")
    <3>1. IsTarget(s, Got(s).body) /\ SendAndGoOn(s, "challenge")
          /\ exchange' = [exchange EXCEPT ![s].peerKey = Got(s).body.plain.of]
      BY <1>3 DEF HandlePeerIdentity
    <3>2. Got(s).body.plain.of = target[s]
      BY <3>1 DEF IsTarget, PublicKey
    <3>3. exchange[s] \in [peerKey : Identities \cup {None}, isVerified : BOOLEAN]
      BY DEF IdInv, TypeOK
    <3>4. [exchange[s] EXCEPT !.peerKey = target[s]] = e
      BY <3>3
    <3> QED
      BY <3>1, <3>2, <3>4
  <2>2. e \in [peerKey : {None, target[s]}, isVerified : BOOLEAN] /\ e.isVerified = exchange[s].isVerified
    BY DEF IdInv, TypeOK
  <2>3. PICK p, x : /\ pc' = [pc EXCEPT ![s] = p] /\ said' = [said EXCEPT ![s] = x]
                    /\ \/ p = After(s) /\ x = said[s] \cup {"challenge"}
                       \/ p = "failed" /\ x = said[s]
    BY <2>1, Sent DEF Flags
  <2>4. After(s) = "response"
    BY <1>1 DEF After
  <2>5. p \in Flags \cup Returned /\ x \in SUBSET Flags
    BY <2>3, <2>4 DEF Flags, Returned, IdInv, TypeOK
  <2> HIDE DEF e
  <2>6. /\ pc'[s] = p /\ said'[s] = x /\ exchange'[s] = e
        /\ role'[s] = role[s] /\ peer'[s] = peer[s] /\ target'[s] = target[s]
        /\ signed'[s] = signed[s] /\ Text(Challenge(s), "own", s)' = Text(Challenge(s), "own", s)
        /\ role[s] \in {"dialer", "acceptor"}
    BY <1>1, <2>1, <2>3 DEF IdInv, TypeOK, given, Text, Challenge, Sealed, Nonce
  <2>7. SaidInv(s)'
    BY <1>1, <2>3, <2>4, <2>6 DEF IdInv, SaidInv
  <2>8. VerifiedInv(s)'
    BY <1>1, <2>2, <2>3, <2>4, <2>6 DEF IdInv, VerifiedInv, SaidInv
  <2> QED
    BY <1>1, <2>1, <2>2, <2>3, <2>5, <2>7, <2>8, DriverStep
<1> QED
  BY <1>2, <1>3

LEMMA ResponseStep ==
  ASSUME IdInv, NEW s \in Sessions, VerifyResponse(s)
  PROVE  IdInv'
<1>1. /\ UNCHANGED <<given, sends, gone, signed>> /\ pc[s] = "response"
      /\ inbox[s] # <<>> /\ inbox' = [inbox EXCEPT ![s] = Tail(@)]
  BY DEF VerifyResponse, Take
<1>2. CASE Fail(s) /\ UNCHANGED exchange
  BY <1>1, <1>2, Failed
<1>3. CASE ~(Fail(s) /\ UNCHANGED exchange)
  <2> DEFINE e == [exchange[s] EXCEPT !.isVerified = TRUE]
  <2>1. /\ IsValid(s, Got(s).body) /\ exchange' = [exchange EXCEPT ![s].isVerified = TRUE]
        /\ IF role[s] = "acceptor" THEN SendAndGoOn(s, "identity")
           ELSE pc' = [pc EXCEPT ![s] = After(s)] /\ UNCHANGED said
    BY <1>3 DEF VerifyResponse
  <2>2. exchange' = [exchange EXCEPT ![s] = e]
    BY <2>1
  <2>3. e \in [peerKey : {None, target[s]}, isVerified : BOOLEAN] /\ e.isVerified = TRUE
    <3>1. exchange[s] \in [peerKey : {None, target[s]}, isVerified : BOOLEAN]
      BY DEF IdInv, TypeOK
    <3> QED
      BY <3>1
  <2>4. peer[s] = target[s] /\ Text(Challenge(s), "own", s) \in signed[s]
    <3>1. exchange[s].peerKey = peer[s] /\ Text(Challenge(s), "own", s) \in signed[s]
      BY <1>1, <2>1, ValidSignature DEF IdInv, VerifyResponse, Take, Flags
    <3>2. peer[s] # None /\ exchange[s].peerKey \in {None, target[s]}
      BY IdentityAssumption DEF IdInv, TypeOK
    <3> QED
      BY <3>1, <3>2
  <2>5. PICK p, x : /\ pc' = [pc EXCEPT ![s] = p] /\ said' = [said EXCEPT ![s] = x]
                    /\ \/ p = "verified" /\ role[s] = "dialer" /\ x = said[s]
                       \/ p = "challenge" /\ role[s] = "acceptor" /\ x = said[s] \cup {"identity"}
                       \/ p = "failed" /\ x \in {said[s], said[s] \cup {"identity"}}
    <3>1. After(s) = IF role[s] = "dialer" THEN "verified" ELSE "challenge"
      BY <1>1 DEF After
    <3>2. CASE role[s] = "acceptor"
      BY <2>1, <3>1, <3>2, Sent DEF Flags
    <3>3. CASE role[s] = "dialer"
      <4>1. said' = [said EXCEPT ![s] = said[s]] /\ pc' = [pc EXCEPT ![s] = "verified"]
        BY <2>1, <3>1, <3>3 DEF IdInv, TypeOK
      <4> QED
        BY <3>3, <4>1
    <3> QED
      BY <3>2, <3>3 DEF IdInv, TypeOK
  <2>6. p \in Flags \cup Returned /\ x \in SUBSET Flags
    BY <2>5 DEF Flags, Returned, IdInv, TypeOK
  <2> HIDE DEF e
  <2>7. /\ pc'[s] = p /\ said'[s] = x /\ exchange'[s] = e
        /\ role'[s] = role[s] /\ peer'[s] = peer[s] /\ target'[s] = target[s]
        /\ signed'[s] = signed[s] /\ Text(Challenge(s), "own", s)' = Text(Challenge(s), "own", s)
        /\ role[s] \in {"dialer", "acceptor"}
    BY <1>1, <2>2, <2>5 DEF IdInv, TypeOK, given, Text, Challenge, Sealed, Nonce
  <2>8. SaidInv(s)'
    BY <1>1, <2>5, <2>7 DEF IdInv, SaidInv
  <2>9. VerifiedInv(s)'
    BY <2>3, <2>4, <2>5, <2>7 DEF VerifiedInv
  <2> QED
    BY <1>1, <2>2, <2>3, <2>5, <2>6, <2>8, <2>9, DriverStep
<1> QED
  BY <1>2, <1>3

LEMMA IdNext ==
  ASSUME IdInv, [Next]_vars
  PROVE  IdInv'
<1>1. ASSUME NEW s \in Sessions, WrongFlag(s) \/ ReceiveFails(s)
      PROVE  IdInv'
  <2>1. /\ UNCHANGED <<given, exchange, sends, gone, signed>> /\ Fail(s)
        /\ \/ UNCHANGED inbox
           \/ inbox[s] # <<>> /\ inbox' = [inbox EXCEPT ![s] = Tail(@)]
    BY <1>1 DEF WrongFlag, ReceiveFails
  <2> QED
    BY <2>1, Failed
<1>2. ASSUME NEW s \in Sessions, ReceiveNext(s)
      PROVE  IdInv'
  <2>1. /\ UNCHANGED <<given, pc, exchange, sends, gone, said, signed>>
        /\ inbox[s] # <<>> /\ inbox' = [inbox EXCEPT ![s] = Tail(@)]
    BY <1>2 DEF ReceiveNext
  <2>2. /\ pc' = [pc EXCEPT ![s] = pc[s]] /\ said' = [said EXCEPT ![s] = said[s]]
        /\ exchange' = [exchange EXCEPT ![s] = exchange[s]]
        /\ pc[s] \in Flags \cup Returned /\ said[s] \in SUBSET Flags
        /\ exchange[s] \in [peerKey : {None, target[s]}, isVerified : BOOLEAN]
    BY <2>1 DEF IdInv, TypeOK
  <2>3. SaidInv(s)' /\ VerifiedInv(s)'
    BY <2>1, OtherSessions
  <2> QED
    BY <2>1, <2>2, <2>3, DriverStep
<1>3. CASE UNCHANGED vars
  <2>1. UNCHANGED <<given, pc, exchange, inbox, sends, gone, said, signed>>
    BY <1>3 DEF vars, given
  <2>2. TypeOK'
    <3>1. UNCHANGED <<role, target, peer>> /\ \A s \in Sessions : Messages(s)' = Messages(s)
      BY <2>1 DEF Messages, Tellable, given, Sealed, PublicKey, Nonce, Part
    <3> QED
      BY <2>1, <3>1 DEF IdInv, TypeOK, SignedAs
  <2>3. \A s \in Sessions : SaidInv(s)' /\ VerifiedInv(s)'
    BY <2>1, OtherSessions
  <2> QED
    BY <2>2, <2>3 DEF IdInv
<1> QED
  BY <1>1, <1>2, <1>3, PeerStep, ChallengeStep, IdentityStep, ResponseStep DEF Next, Driver

-----------------------------------------------------------------------------
\* The identity phase never leaves its types, and an exchange holds no other key
\* than the one whose hash the user gave (verifier.go:92).
THEOREM IdentityTypeCorrect == Spec => []TypeOK
<1>1. IdInv => TypeOK
  BY DEF IdInv
<1> QED
  BY <1>1, IdInit, IdNext, PTL DEF Spec

\* A channel is returned only when the peer is who the user asked for and signed
\* the challenge of this session (main.go:201 and main.go:317).
THEOREM OpensOnlyToTargetHolds == Spec => []OpensOnlyToTarget
<1>1. IdInv => OpensOnlyToTarget
  BY DEF IdInv, SaidInv, VerifiedInv, OpensOnlyToTarget
<1> QED
  BY <1>1, IdInit, IdNext, PTL DEF Spec

\* A peer that signs the nonce it decrypts, as HandleChallenge does and README.md:194
\* has it, is never verified: the drivers have the challenge verified as it was sent
\* (main.go:192, 284).
NonceSignerFails ==
  \A s \in Sessions :
    (\A text \in signed[s] : text[1] = Nonce(s)) => ~exchange[s].isVerified

\* main.go:192: it never is, in any number of sessions and after any messages.
THEOREM NonceSignerFailsAlways == Spec => []NonceSignerFails
<1>1. IdInv => NonceSignerFails
  <2>1. ASSUME IdInv, NEW s \in Sessions, exchange[s].isVerified
        PROVE  \E text \in signed[s] : text[1] # Nonce(s)
    <3>1. Text(Challenge(s), "own", s) \in signed[s]
      BY <2>1 DEF IdInv, VerifiedInv
    <3>2. Text(Challenge(s), "own", s)[1] = Challenge(s)
      BY DEF Text
    <3>3. Challenge(s) # Nonce(s)
      <4>1. Challenge(s).kind = "sealed" /\ Nonce(s).kind = "nonce"
        BY DEF Challenge, Sealed, Nonce
      <4> QED
        BY <4>1
    <3> QED
      BY <3>1, <3>2, <3>3
  <2> QED
    BY <2>1 DEF NonceSignerFails
<1> QED
  BY <1>1, IdInit, IdNext, PTL DEF Spec

\* An acceptor tells and proves its identity only to a verified peer
\* (main.go:295).
THEOREM AcceptorTellsLastHolds == Spec => []AcceptorTellsLast
<1>1. IdInv => AcceptorTellsLast
  BY DEF IdInv, VerifiedInv, AcceptorTellsLast
<1> QED
  BY <1>1, IdInit, IdNext, PTL DEF Spec

-----------------------------------------------------------------------------
\* The identity phase implements Authentication.

absvars == <<Dialers, Proved, Verified, Shown, Open, Over>>

\* A session that starts has come to nothing yet.
LEMMA MappedInit == Init => Abstract!AInit
<1> SUFFICES ASSUME Init PROVE Abstract!AInit
  OBVIOUS
<1>1. Proved = {} /\ Verified = {}
  BY DEF Init, Proved, Verified
<1>2. Shown = {} /\ Open = {} /\ Over = {}
  BY DEF Init, Shown, Open, Over, Returned
<1>3. Dialers \subseteq Sessions
  BY DEF Dialers
<1> QED
  BY <1>1, <1>2, <1>3 DEF Abstract!AInit

\* What a step of a driver makes of the abstract state: its session is where its
\* new place, its new history and its new exchange put it.
LEMMA MappedStep ==
  ASSUME IdInv, NEW s \in Sessions, UNCHANGED <<given, signed>>,
         NEW p, pc' = [pc EXCEPT ![s] = p], NEW x, said' = [said EXCEPT ![s] = x],
         NEW e, exchange' = [exchange EXCEPT ![s] = e]
  PROVE  /\ Dialers' = Dialers /\ Proved' = Proved
         /\ Verified' = IF e.isVerified THEN Verified \cup {s} ELSE Verified \ {s}
         /\ Shown' = IF "response" \in x THEN Shown \cup {s} ELSE Shown \ {s}
         /\ Open' = IF p = "verified" THEN Open \cup {s} ELSE Open \ {s}
         /\ Over' = IF p \in Returned THEN Over \cup {s} ELSE Over \ {s}
<1>1. Dialers' = Dialers
  BY DEF Dialers, given
<1>2. Proved' = Proved
  BY DEF Proved, given, Text, Challenge, Sealed, Nonce
<1>3. ASSUME NEW r \in Sessions
      PROVE  /\ pc'[r] = IF r = s THEN p ELSE pc[r]
             /\ said'[r] = IF r = s THEN x ELSE said[r]
             /\ exchange'[r] = IF r = s THEN e ELSE exchange[r]
  BY DEF IdInv, TypeOK
<1>4. Verified' = IF e.isVerified THEN Verified \cup {s} ELSE Verified \ {s}
  BY <1>3 DEF Verified
<1>5. Shown' = IF "response" \in x THEN Shown \cup {s} ELSE Shown \ {s}
  BY <1>3 DEF Shown
<1>6. Open' = IF p = "verified" THEN Open \cup {s} ELSE Open \ {s}
  BY <1>3 DEF Open
<1>7. Over' = IF p \in Returned THEN Over \cup {s} ELSE Over \ {s}
  BY <1>3 DEF Over, Returned
<1> QED
  BY <1>1, <1>2, <1>4, <1>5, <1>6, <1>7

\* What a place, a history and an exchange mean for the abstract state.
LEMMA Membership ==
  ASSUME NEW s \in Sessions
  PROVE  /\ s \in Dialers <=> role[s] = "dialer"
         /\ s \in Verified <=> exchange[s].isVerified
         /\ s \in Shown <=> "response" \in said[s]
         /\ s \in Open <=> pc[s] = "verified"
         /\ s \in Over <=> pc[s] \in Returned
BY DEF Dialers, Verified, Shown, Open, Over

\* A driver that fails gives up; it had not returned before.
LEMMA FailMaps ==
  ASSUME IdInv, NEW s \in Sessions, UNCHANGED <<given, signed>>, pc[s] \in Flags,
         pc' = [pc EXCEPT ![s] = "failed"], said' = [said EXCEPT ![s] = said[s]],
         NEW e, exchange' = [exchange EXCEPT ![s] = e], e.isVerified = exchange[s].isVerified
  PROVE  [Abstract!ANext]_absvars
<1>1. /\ Dialers' = Dialers /\ Proved' = Proved
      /\ Verified' = IF e.isVerified THEN Verified \cup {s} ELSE Verified \ {s}
      /\ Shown' = IF "response" \in said[s] THEN Shown \cup {s} ELSE Shown \ {s}
      /\ Open' = IF "failed" = "verified" THEN Open \cup {s} ELSE Open \ {s}
      /\ Over' = IF "failed" \in Returned THEN Over \cup {s} ELSE Over \ {s}
  BY MappedStep
<1>2. s \notin Over /\ s \notin Open /\ Over' = Over \cup {s} /\ Open' = Open
  BY <1>1, Membership DEF Flags, Returned
<1>3. Verified' = Verified /\ Shown' = Shown
  BY <1>1, Membership
<1>4. Abstract!GiveUp(s)
  BY <1>1, <1>2, <1>3 DEF Abstract!GiveUp
<1> QED
  BY <1>4 DEF Abstract!ANext

LEMMA PeerMaps ==
  ASSUME IdInv, NEW s \in Sessions, Peer(s)
  PROVE  [Abstract!ANext]_absvars
<1>1. UNCHANGED <<given, pc, exchange, said>>
  BY DEF Peer, PeerTells, PeerSigns, PeerGoes, PeerSends, PeerSendsPart
<1>2. UNCHANGED <<Dialers, Verified, Shown, Open, Over>>
  BY <1>1 DEF given, Dialers, Verified, Shown, Open, Over
<1>3. \A r \in Sessions : Text(Challenge(r), "own", r)' = Text(Challenge(r), "own", r)
  BY DEF Text, Challenge, Sealed, Nonce
<1>4. CASE PeerSigns(s)
  <2>1. PICK text : signed' = [signed EXCEPT ![s] = @ \cup {text}]
    BY <1>4 DEF PeerSigns
  <2>2. \A r \in Sessions : /\ r # s => signed'[r] = signed[r]
                            /\ signed[r] \subseteq signed'[r]
    BY <2>1 DEF IdInv, TypeOK
  <2>3. Proved' = Proved \/ Proved' = Proved \cup {s}
    BY <1>1, <1>3, <2>2 DEF Proved, given
  <2>4. CASE Proved' = Proved
    BY <1>2, <2>4 DEF absvars
  <2>5. CASE Proved' = Proved \cup {s}
    <3>1. Abstract!Prove(s)
      BY <1>2, <2>5 DEF Abstract!Prove
    <3> QED
      BY <3>1 DEF Abstract!ANext
  <2> QED
    BY <2>3, <2>4, <2>5
<1>5. CASE ~PeerSigns(s)
  <2>1. UNCHANGED signed
    BY <1>5 DEF Peer, PeerTells, PeerGoes, PeerSendsPart
  <2>2. Proved' = Proved
    BY <1>1, <1>3, <2>1 DEF Proved, given
  <2> QED
    BY <1>2, <2>2 DEF absvars
<1> QED
  BY <1>4, <1>5

LEMMA ChallengeMaps ==
  ASSUME IdInv, NEW s \in Sessions, HandleChallenge(s)
  PROVE  [Abstract!ANext]_absvars
<1>1. UNCHANGED <<given, signed>> /\ UNCHANGED exchange /\ pc[s] = "challenge"
  BY DEF HandleChallenge, Take
<1>2. exchange' = [exchange EXCEPT ![s] = exchange[s]]
  BY <1>1 DEF IdInv, TypeOK
<1>3. CASE Fail(s)
  <2>1. pc' = [pc EXCEPT ![s] = "failed"] /\ said' = [said EXCEPT ![s] = said[s]]
    BY <1>3 DEF Fail, IdInv, TypeOK
  <2> QED
    BY <1>1, <1>2, <2>1, FailMaps DEF Flags
<1>4. CASE ~Fail(s)
  <2> DEFINE p == After(s)
             x == said[s] \cup {"response"}
  <2>1. pc' = [pc EXCEPT ![s] = p] /\ said' = [said EXCEPT ![s] = x]
    BY <1>4 DEF HandleChallenge, SendAndGoOn
  <2>2. p = (IF role[s] = "dialer" THEN "identity" ELSE "verified") /\ "response" \in x
    BY <1>1 DEF After
  <2> HIDE DEF p, x
  <2>3. /\ Dialers' = Dialers /\ Proved' = Proved
        /\ Verified' = IF exchange[s].isVerified THEN Verified \cup {s} ELSE Verified \ {s}
        /\ Shown' = IF "response" \in x THEN Shown \cup {s} ELSE Shown \ {s}
        /\ Open' = IF p = "verified" THEN Open \cup {s} ELSE Open \ {s}
        /\ Over' = IF p \in Returned THEN Over \cup {s} ELSE Over \ {s}
    BY <1>1, <1>2, <2>1, MappedStep
  <2>4. Verified' = Verified /\ Shown' = Shown \cup {s}
    BY <2>2, <2>3, Membership
  <2>5. s \notin Over /\ s \notin Open
    BY <1>1, Membership DEF Returned
  <2>6. s \notin Shown
    <3>1. said[s] \in {{"identity"}, {"challenge", "identity"}}
      BY <1>1 DEF IdInv, SaidInv
    <3> QED
      BY <3>1, Membership
  <2>7. CASE role[s] = "dialer"
    <3>1. p = "identity" /\ Open' = Open /\ Over' = Over
      BY <2>2, <2>3, <2>5, <2>7 DEF Returned
    <3>2. s \in Dialers /\ s \notin Verified
      BY <1>1, <2>7, Membership DEF IdInv, VerifiedInv
    <3> QED
      BY <2>3, <2>4, <2>5, <2>6, <3>1, <3>2 DEF Abstract!ANext, Abstract!Show
  <2>8. CASE role[s] = "acceptor"
    <3>1. p = "verified" /\ Open' = Open \cup {s} /\ Over' = Over \cup {s}
      BY <2>2, <2>3, <2>8 DEF Returned
    <3>2. s \notin Dialers /\ s \in Verified
      BY <1>1, <2>8, Membership DEF IdInv, VerifiedInv
    <3> QED
      BY <2>3, <2>4, <2>5, <2>6, <3>1, <3>2 DEF Abstract!ANext, Abstract!Show, Abstract!Return
  <2> QED
    BY <2>7, <2>8 DEF IdInv, TypeOK
<1> QED
  BY <1>3, <1>4

LEMMA IdentityMaps ==
  ASSUME IdInv, NEW s \in Sessions, HandlePeerIdentity(s)
  PROVE  [Abstract!ANext]_absvars
<1>1. UNCHANGED <<given, signed>> /\ pc[s] = "identity" /\ pc[s] \in Flags
  BY DEF HandlePeerIdentity, Take, Flags
<1>2. PICK e : exchange' = [exchange EXCEPT ![s] = e] /\ e.isVerified = exchange[s].isVerified
  <2>1. CASE UNCHANGED exchange
    <3>1. exchange' = [exchange EXCEPT ![s] = exchange[s]]
      BY <2>1 DEF IdInv, TypeOK
    <3> QED
      BY <3>1
  <2>2. CASE ~UNCHANGED exchange
    <3> DEFINE k == Got(s).body.plain.of
               e == [exchange[s] EXCEPT !.peerKey = k]
    <3>1. exchange' = [exchange EXCEPT ![s] = e]
      BY <2>2 DEF HandlePeerIdentity
    <3>2. exchange[s] \in [peerKey : Identities \cup {None}, isVerified : BOOLEAN]
      BY DEF IdInv, TypeOK
    <3> HIDE DEF k
    <3>3. e.isVerified = exchange[s].isVerified
      BY <3>2
    <3> QED
      BY <3>1, <3>3
  <2> QED
    BY <2>1, <2>2
<1>3. CASE Fail(s)
  <2>1. pc' = [pc EXCEPT ![s] = "failed"] /\ said' = [said EXCEPT ![s] = said[s]]
    BY <1>3 DEF Fail, IdInv, TypeOK
  <2> QED
    BY <1>1, <1>2, <2>1, FailMaps
<1>4. CASE ~Fail(s)
  <2> DEFINE x == said[s] \cup {"challenge"}
  <2>1. pc' = [pc EXCEPT ![s] = "response"] /\ said' = [said EXCEPT ![s] = x]
    BY <1>1, <1>4 DEF HandlePeerIdentity, SendAndGoOn, After
  <2>2. "response" \in x <=> "response" \in said[s]
    OBVIOUS
  <2> HIDE DEF x
  <2>3. /\ Dialers' = Dialers /\ Proved' = Proved
        /\ Verified' = IF e.isVerified THEN Verified \cup {s} ELSE Verified \ {s}
        /\ Shown' = IF "response" \in x THEN Shown \cup {s} ELSE Shown \ {s}
        /\ Open' = IF "response" = "verified" THEN Open \cup {s} ELSE Open \ {s}
        /\ Over' = IF "response" \in Returned THEN Over \cup {s} ELSE Over \ {s}
    BY <1>1, <1>2, <2>1, MappedStep
  <2>4. Verified' = Verified /\ Shown' = Shown
    BY <1>2, <2>2, <2>3, Membership
  <2>5. Open' = Open /\ Over' = Over
    BY <1>1, <2>3, Membership DEF Returned
  <2> QED
    BY <2>3, <2>4, <2>5 DEF absvars
<1> QED
  BY <1>3, <1>4

LEMMA ResponseMaps ==
  ASSUME IdInv, NEW s \in Sessions, VerifyResponse(s)
  PROVE  [Abstract!ANext]_absvars
<1>1. UNCHANGED <<given, signed>> /\ pc[s] = "response" /\ pc[s] \in Flags /\ inbox[s] # <<>>
  BY DEF VerifyResponse, Take, Flags
<1>2. CASE Fail(s) /\ UNCHANGED exchange
  <2>1. /\ pc' = [pc EXCEPT ![s] = "failed"] /\ said' = [said EXCEPT ![s] = said[s]]
        /\ exchange' = [exchange EXCEPT ![s] = exchange[s]]
    BY <1>2 DEF Fail, IdInv, TypeOK
  <2> QED
    BY <1>1, <2>1, FailMaps
<1>3. CASE ~(Fail(s) /\ UNCHANGED exchange)
  <2> DEFINE e == [exchange[s] EXCEPT !.isVerified = TRUE]
  <2>1. /\ IsValid(s, Got(s).body) /\ exchange' = [exchange EXCEPT ![s] = e]
        /\ IF role[s] = "acceptor" THEN SendAndGoOn(s, "identity")
           ELSE pc' = [pc EXCEPT ![s] = After(s)] /\ UNCHANGED said
    BY <1>3 DEF VerifyResponse
  <2>2. e.isVerified = TRUE
    <3>1. exchange[s] \in [peerKey : Identities \cup {None}, isVerified : BOOLEAN]
      BY DEF IdInv, TypeOK
    <3> QED
      BY <3>1
  <2> HIDE DEF e
  <2>3. s \in Proved
    <3>1. exchange[s].peerKey = peer[s] /\ Text(Challenge(s), "own", s) \in signed[s]
      BY <1>1, <2>1, ValidSignature DEF IdInv, VerifyResponse, Take, Flags
    <3>2. peer[s] # None /\ exchange[s].peerKey \in {None, target[s]}
      BY IdentityAssumption DEF IdInv, TypeOK
    <3> QED
      BY <3>1, <3>2 DEF Proved
  <2>4. PICK p, x : /\ pc' = [pc EXCEPT ![s] = p] /\ said' = [said EXCEPT ![s] = x]
                    /\ "response" \in x <=> "response" \in said[s]
                    /\ \/ p = "verified" /\ role[s] = "dialer"
                       \/ p \in {"challenge", "failed"} /\ role[s] = "acceptor"
    <3>1. After(s) = IF role[s] = "dialer" THEN "verified" ELSE "challenge"
      BY <1>1 DEF After
    <3>2. CASE role[s] = "acceptor"
      <4>1. \/ /\ pc' = [pc EXCEPT ![s] = "challenge"]
               /\ said' = [said EXCEPT ![s] = said[s] \cup {"identity"}]
            \/ pc' = [pc EXCEPT ![s] = "failed"] /\ said' = [said EXCEPT ![s] = said[s]]
        BY <2>1, <3>1, <3>2, Sent DEF Flags
      <4> QED
        BY <3>2, <4>1
    <3>3. CASE role[s] = "dialer"
      <4>1. said' = [said EXCEPT ![s] = said[s]] /\ pc' = [pc EXCEPT ![s] = "verified"]
        BY <2>1, <3>1, <3>3 DEF IdInv, TypeOK
      <4> QED
        BY <3>3, <4>1
    <3> QED
      BY <3>2, <3>3 DEF IdInv, TypeOK
  <2>5. /\ Dialers' = Dialers /\ Proved' = Proved
        /\ Verified' = IF e.isVerified THEN Verified \cup {s} ELSE Verified \ {s}
        /\ Shown' = IF "response" \in x THEN Shown \cup {s} ELSE Shown \ {s}
        /\ Open' = IF p = "verified" THEN Open \cup {s} ELSE Open \ {s}
        /\ Over' = IF p \in Returned THEN Over \cup {s} ELSE Over \ {s}
    BY <1>1, <2>1, <2>4, MappedStep
  <2>6. Verified' = Verified \cup {s} /\ Shown' = Shown
    BY <2>2, <2>4, <2>5, Membership
  <2>7. s \notin Over /\ s \notin Open /\ s \notin Verified
    BY <1>1, Membership DEF Returned, IdInv, VerifiedInv
  <2>8. s \in Shown <=> role[s] = "dialer"
    <3>1. said[s] = IF role[s] = "dialer" THEN {"identity", "challenge", "response"} ELSE {"challenge"}
      BY <1>1 DEF IdInv, SaidInv
    <3> QED
      BY <3>1, Membership
  <2>9. CASE p = "verified" /\ role[s] = "dialer"
    <3>1. Open' = Open \cup {s} /\ Over' = Over \cup {s} /\ s \in Dialers /\ s \in Shown
      BY <2>5, <2>8, <2>9, Membership DEF Returned
    <3> QED
      BY <2>3, <2>5, <2>6, <2>7, <3>1 DEF Abstract!ANext, Abstract!Verify, Abstract!Return
  <2>10. CASE p \in {"challenge", "failed"} /\ role[s] = "acceptor"
    <3>1. Open' = Open /\ Over' \in {Over, Over \cup {s}} /\ s \notin Dialers /\ s \notin Shown
      BY <2>5, <2>7, <2>8, <2>10, Membership DEF Returned
    <3> QED
      BY <2>3, <2>5, <2>6, <2>7, <3>1 DEF Abstract!ANext, Abstract!Verify
  <2> QED
    BY <2>4, <2>9, <2>10
<1> QED
  BY <1>2, <1>3

LEMMA StepMaps ==
  ASSUME IdInv, [Next]_vars
  PROVE  [Abstract!ANext]_absvars
<1>1. ASSUME NEW s \in Sessions, WrongFlag(s) \/ ReceiveFails(s)
      PROVE  [Abstract!ANext]_absvars
  <2>1. UNCHANGED <<given, signed>> /\ UNCHANGED exchange /\ Fail(s) /\ pc[s] \in Flags
    BY <1>1 DEF WrongFlag, ReceiveFails
  <2>2. /\ pc' = [pc EXCEPT ![s] = "failed"] /\ said' = [said EXCEPT ![s] = said[s]]
        /\ exchange' = [exchange EXCEPT ![s] = exchange[s]]
    BY <2>1 DEF Fail, IdInv, TypeOK
  <2> QED
    BY <2>1, <2>2, FailMaps
<1>2. CASE UNCHANGED vars \/ \E s \in Sessions : ReceiveNext(s)
  <2>1. UNCHANGED <<Dialers, Verified, Shown, Open, Over>>
    BY <1>2 DEF vars, ReceiveNext, given, Dialers, Verified, Shown, Open, Over
  <2>2. UNCHANGED Proved
    BY <1>2 DEF vars, ReceiveNext, given, Proved, Text, Challenge, Sealed, Nonce
  <2> QED
    BY <2>1, <2>2 DEF absvars
<1> QED
  BY <1>1, <1>2, PeerMaps, ChallengeMaps, IdentityMaps, ResponseMaps DEF Next, Driver

\* Every behaviour of the identity phase is, seen through Dialers, Proved, Verified,
\* Shown, Open and Over, one of the abstract authentication (main.go:138 to 202 and
\* 254 to 317).
THEOREM IdentityImplementsAuthentication == Spec => AuthenticationSpec
<1>1. Init => Abstract!AInit
  BY MappedInit
<1>2. IdInv /\ [Next]_vars => [Abstract!ANext]_absvars
  BY StepMaps
<1> QED
  BY <1>1, <1>2, IdInit, IdNext, PTL DEF Spec, AuthenticationSpec, Abstract!ASpec, absvars
=============================================================================
