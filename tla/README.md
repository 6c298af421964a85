# A TLA+ model of pqc-chart-tool

pqc-chart-tool (`src/`) is a two-party chat over WebSockets.  Two peers exchange
ML-KEM-768 keys in three messages, derive an AES-GCM session key, prove their
Ed25519 identities to each other, and chat.  This directory models that program
in TLA+, checks the models with TLC and proves the main safety results with TLAPS.

    tlc -config SessionSafety.cfg MCSession      # and the other .cfg files
    tlapm SessionProof.tla                       # about a minute
    tlapm ChatProof.tla                          # and the other *Proof modules

`PROJECT.json` lists every run, the source lines each definition stands for, the
mutants that show each property can fail, the disagreements found between the code
and what it says of itself, and the hazards the properties are aimed at.

## 1. Inventory

| Component | State | Operations | Talks to |
|---|---|---|---|
| `protocol/handshake.go` KEMHandshake | state, own key pair, peer key, two secrets, under a mutex | Initiate, HandleRequest, HandleAgree, HandleFinish, DeriveSessionKey, MyKEMPublicKey, PeerPubkey | called by the driver |
| `main.go` driver: Connect, Accept, performHandshake, performHandshakeResponder | program counter of one goroutine per connection | the sequence of sends, receives and handler calls | handshake, identity, fragments, transport |
| `protocol/fragment.go` | `FragmentBuffer`: message ID → index → bytes, under a mutex, one per `PQCClient` | SendFragmented, ReceiveFragmented, cleanup | transport below, driver above |
| `protocol/messages.go` | none | Serialize and Deserialize of six messages | handshake, identity |
| `identity/verifier.go` IdentityExchange | session key, own pair, expected hash, peer key, verified flag | SendIdentity, HandlePeerIdentity, HandleChallenge, VerifyResponse | driver; sends on the transport itself |
| `identity/verifier.go` NonceCache | nonces with times | CheckAndAdd | nobody |
| `identity/store.go` KeyStore | `default.pub`, `default.priv` on disk | Save, Load, Has, Delete, List | commands generate, show-id, connect, server, each a process |
| `transport/*.go` | one WebSocket, a mutex, closed flag | Send, Recv (5 minute deadline), Close | network |
| `transport/direct.go` DirectServer | listener | one goroutine per connection calls OnConnect | Accept |
| `main.go` SecureChannel, interactiveChat | session key; two goroutines per session | Send, Recv, Close; lines from stdin | transport, stdin, process exit |
| `crypto/*.go` | none | KEM, KDF, AEAD, signature, hash, memory clearing | all |
| relay server | not in the repository | | both ends dial it |

How they interact: `connect` makes one `PQCClient` and one connection.  `server`
makes one `PQCClient` and then runs `Accept` in a goroutine per connection, so all
accepted connections share one FragmentBuffer, one identity and one expected peer
hash.  Nothing is shared between processes but the network and the key store.

What is hard here:

- **interleaving** – the server's goroutines reassemble in one map keyed by a random
  32-bit ID; several commands work on the two key files at once; the chat's reader
  and its stdin goroutine use one mutex, and the stdin goroutines of all sessions of a
  server compete for its input; calls of the nonce cache read the clock outside its lock;
- **ordering** – the two ends build one key from two secrets they learn in opposite
  order; SendIdentity uses another framing than the receiver;
- **failure** – connections break between the packets of a message, a peer is silent
  until the read deadline, a process dies between two writes;
- **limits** – counts modulo 2^16, totals read from bytes that are no header, a
  cleanup that deletes whatever the map yields first.

What makes each component correct:

- *handshake and driver*: the two ends of a connection hold the same key, ends of
  different connections never do; no end holds a key its peer cannot obtain; on a
  connection that stays up both obtain it; every call returns;
- *fragments*: what a goroutine is handed is exactly what its own peer sent to it;
- *identity*: a channel is returned only to the expected peer, and to it always; an
  acceptor shows itself last;
- *key store*: private and public key belong together; an interrupted command can be
  repeated; no private key is left unseen;
- *chat*: each side can speak and leave at any time, what is typed is said once and to
  one peer, and a session that ends does so at both ends;
- *nonce cache*: no nonce is accepted twice within its lifetime, and expired ones go.

## 2. Modules

| Module | Models | Kind |
|---|---|---|
| `Crypto` | the primitives, as symbolic terms | operators |
| `KEMHandshake` | the KEMHandshake object: a record and one operator per method | operators |
| `Fragment` | splitting, and one iteration of ReceiveFragmented on a buffer | operators |
| `Session` | the driver over any number of connections, with transport and buffers | state machine |
| `KeyExchange` | what the KEM phase promises | abstract state machine |
| `KeyStore` | the commands as processes over the two key files | state machine |
| `IdentityExchange` | the second half of the driver and the IdentityExchange object, against a peer of another make | state machine |
| `Authentication` | what the identity phase promises | abstract state machine |
| `Chat` | the sessions of one server: two goroutines per end on one mutex, the standard input | state machine |
| `Delivery` | what the chat promises to those who type | abstract state machine |
| `NonceCache` | concurrent calls of CheckAndAdd | state machine |
| `MCSession`, `MCKeyStore`, `MCIdentity`, `MCChat`, `MCNonceCache` | instances for TLC | |
| `SessionProof`, `FragmentProof`, `KeyStoreProof`, `IdentityProof`, `ChatProof`, `DeliveryProof`, `NonceCacheProof` | theorems and proofs | |

The program's life is `KeyStore` (the identity is loaded), `Session` (a connection and
its key), `IdentityExchange` (who the peer is), `Chat`.  The modules meet at the states
between these phases: a session of `IdentityExchange` starts where a `Session` end has
its key, a connection of `Chat` where both ends returned a channel.  Today's program
does not get from `Session` to `Chat` with itself (section 3, `session_completes`);
`IdentityExchange` and `Chat` say what its code does once a peer lets it.

### Session

An *end* `<<c, "A">>` or `<<c, "B">>` is one goroutine of one connection.  In direct
mode A dials and B accepts; on a relay connection both dial.  `pc[e]` is the place in
performHandshake or performHandshakeResponder; while the goroutine waits in
ReceiveFragmented it is the flag the next lines of code ask for.

| Variable | Code |
|---|---|
| `pc` | where the goroutine is |
| `kem` | its `protocol.KEMHandshake` |
| `sessionKey` | the result of DeriveSessionKey |
| `outq` | packets of the message being sent; the goroutine is in SendFragmented while it is not empty |
| `net` | packets on their way to an end; WebSocket keeps their order |
| `inbox` | what ReceiveFragmented returned, before the code acts on it |
| `fragments` | the FragmentBuffer of each `PQCClient`; the acceptors share one |
| `dropped` | connections the network broke |

Each action is one uninterruptible piece of the code, with all it changes: `Initiate`,
`HandleRequest`, `HandleAgree`, `DeriveAndSendIdentity` (DeriveSessionKey and
SendIdentity), `HandleFinish` (HandleFinish and DeriveSessionKey),
`HandlePeerIdentity`; `SendPacket` and `SendLost` are one Transport.Send on a good
or a broken connection; `ReceiveWhole` and `ReceivePart` are one iteration of the
loop of ReceiveFragmented; `Unexpected` is the flag check; `ReadError`, `Timeout` and
`Fail` are the error returns, after which Connect or Accept closes the connection.
The critical section of ReceiveFragmented is one step because it holds the mutex;
the goroutines interleave between such steps.

Abstractions:

- keys, secrets and ciphertexts are terms (`Crypto`); two are equal iff the bytes are.
  With another key Decapsulate succeeds and yields another secret, as ML-KEM does;
- the part of a message a packet carries is its index; a reassembly of parts that are
  not those of one message is the value `Garbled`;
- sizes are the true sizes (a request is 1207 bytes, an agree 2297), so that exactly
  the agree message takes two packets of at most 1400 bytes;
- the identity message is sent without a fragment header.  The receiver reads flag
  0x10 where it is, index 60 (the length of the sealed key, `SealedIdentitySize`), and
  total, length and ID from random nonce bytes: `\E total \in RawTotals, id \in MsgIDs`;
- peers follow the code.  Messages no peer sends are not modelled, so an error return
  that only a malformed message could cause is one disjunct, `Fail`;
- a message ID may collide with any other.  A 32-bit random number makes this rare,
  not impossible.  Zero is replaced by a clock value, one more member of `MsgIDs`;
- `Timeout` needs an empty connection: a packet that has arrived is read.

The module ends where HandlePeerIdentity accepts a peer.  `IdentityNeverAccepted`
shows that two ends of this program never reach that state; a peer of another make
can, and `IdentityExchange` goes on from there.

Defects that hide behind this one, and that a correct framing would uncover:
HandlePeerIdentity decrypts a message without taking off the framing of IdentityMsg;
the channel binding differs at the two ends (`BindingAgreement`); VerifyResponse is
given the encrypted challenge where HandleChallenge signs the decrypted nonce
(main.go:192 and 284, verifier.go:111).  Repairing one alone does not give a channel.

### KeyExchange

The abstract specification of phase 1: the dialing end draws a key that nobody holds,
the accepting end may then adopt that key and no other, a key never changes, and an
end that gave up draws and adopts none.  No messages, no states, no fragments.
`Session` implements it under the mapping `key <- HeldKey`: an end holds a key from
the step that makes its handshake object ESTABLISHED.

### KeyStore

A process is one run of one command.  `pub` and `priv` are the contents of the two
files: `Absent`, `Torn` (truncated or partly written) or the name of the generate that
wrote it; a private key file is sealed under the password typed to that generate.
Every system call that another process can see is a step: os.WriteFile is a truncation
and a write, a load is two reads, and `connect` and `server` load twice.
`After` is the order of the calls in SaveDSAKeypair and DeleteKeypair.  `Kill` ends
a writer anywhere and also stands for a failing call.  It is the death of a process:
a power failure, after which the kernel may have persisted the second file and not
the first (the code never calls fsync), is not modelled.  No command calls
DeleteKeypair; it is included because it is the other half of the package's promise.
`unlinked` are the writers that have a file open which a delete removed meanwhile: what
they write is in no file (`Written`; the model has POSIX removal, not that of Windows,
which refuses).  `begun` and `joined` are history variables: who began, in which order,
and who began while another writer was at work.

### IdentityExchange

One session is one run of the second half of performHandshake (`role` "dialer") or
performHandshakeResponder ("acceptor") with its session key derived.  The peer knows
that key and its own identity and frames its messages as ReceiveFragmented expects.
It sends any public key (its own or not), a nonce, or what the session key does not
open, under any flag; its signature under a challenge it was sent; all this at any time
and any number of times up to `MaxMessages`.  Besides, and without a bound, it sends
packets that complete no message; and it may go.

| Variable | Code |
|---|---|
| `role`, `target` | which function runs; targetIDHash, standing for the key it hashes |
| `pc` | the flag the driver waits for, or how it returned |
| `exchange` | `identity.IdentityExchange`: peerDSAPubkey and isVerified |
| `inbox`, `gone` | messages on their way to the program; connections that ended |
| `said`, `signed` | history: what the program sent, what the peer signed |

`HandleChallenge`, `HandlePeerIdentity` and `VerifyResponse` are the receive, the
call of the object's method and the send that follows it, in the order `After` gives
them for each role: the dialer shows itself first, the acceptor verifies first.
`WrongFlag` and `ReceiveFails` are the other ways out of a receive.  `ReceiveNext` is
one turn of the loop of ReceiveFragmented (fragment.go:129): a packet that completes no
message, after which Recv waits anew, with a new deadline.

A text to sign is a nonce, a channel binding and the session key.  `Challenge(s)` is
what HandlePeerIdentity returns, the *sealed* nonce, and the drivers pass exactly that
to VerifyResponse (`Expected`), whereas HandleChallenge, like README.md:194, signs the
nonce it opened.  So no peer that follows the README or runs this very code is ever
verified (`NonceSignerVerified`, violated); one that signs the challenge as it received it,
with the binding in this end's order, is.  With a peer of this program's own make
there would be no channel even if the framing were repaired.

`Authentication` is the abstract specification of the phase: the sets of sessions in
which the peer proved who it is, the program knows that, the program proved who it is,
a channel was returned, the handshake returned; and the steps between them in the order
that each role has.  It has no messages, keys or signatures.  `IdentityExchange`
implements it under the mapping `Proved`, `Verified`, `Shown`, `Open`, `Over`.

### Chat

An end has two goroutines, `reader` (the loop of interactiveChat, in Recv) and
`typist` (the one that reads stdin, in Scan, Send or Close).

| Variable | Code |
|---|---|
| `reader` | "recv" waits for the mutex, "read" is ReadMessage, "close" the deferred Close |
| `typist` | "scan", "send" waits for the mutex, "write" is WriteMessage, "quit", "gone" |
| `line` | the line a typist holds between Scan and the end of Send |
| `shut` | `DirectConn.closed` |
| `pipe`, `broken` | what the network holds for each end, at most `Capacity` |
| `stdin`, `left` | lines typed and not read, lines still to be typed |
| `exited` | programs that ended: os.Exit after a quit, the return of main in connect |
| `got` | history: lines printed |

`Locked` is the mutex: Recv holds it from its first line to the end of ReadMessage,
Send from its first line to the end of WriteMessage.  The two places where the code
blocks with the mutex held are "read" (until a message, an error or five minutes) and
"write" (until the network takes the message; there is no write deadline).  Every
typist of the server reads the same standard input; each line goes to one of them, as
a terminal gives a line per read.  Nothing tells a typist that its session is over.
Encryption is left out: both ends of a chat hold one key, and a message is its line.
WebSocketConn differs only in that Close clears the connection where DirectConn sets
`closed`.

### Delivery

The abstract specification of the chat has no goroutines, mutexes or connections.  An
end *takes* lines typed to its program, *carries* them, and its peer *prints* them in
that order; an end whose session is over at one side, or broken, may lose what it took
last, again and again, and its session does not come back.  `Chat` implements it under the mapping

| Delivery | Chat |
|---|---|
| `host` | `Program(e)` |
| `carried` | what the network holds for the peer, then the line the typist holds |
| `printed` | `got` of the peer |
| `over` | the ends closed here or there, whose peer is gone or whose connection broke |

So WriteMessage, which moves a line from the typist into the network, changes nothing
in the abstract, and a write to a peer that is gone is a loss although the code sees no
error.  `OneTaker`, the invariant of Delivery, becomes `EachLineOnce` of Chat.

### NonceCache

`Call` builds the key and reads the clock, `Check` is the critical section; between
the two the clock may tick and other calls may get the lock.  `cache` maps a key to
its time or `Never`.  `began` and `uses` are history variables.  The package exports
the cache and no code calls it, so callers are arbitrary goroutines.  README.md:399
says "Nonce cache prevents reuse": today's program has none of the promises below.

## 3. What is checked

| Run | States | Shows |
|---|---|---|
| `session_safety` | 185,697 | two direct connections to one server, IDs that collide, all failures: the safety properties and the refinement |
| `session_liveness` | 10,790 | a direct and a relay connection that may break: keys are established, calls return |
| `session_completes` | violated | README.md:465: the handshake never completes |
| `session_relay` | violated | README.md:464-466: no key over a relay |
| `session_binding` | violated | verifier.go:137, README.md:194: the ends bind to different values |
| `keystore` | 2,650,844 | two generates, a delete, a connect and a show-id, killed anywhere |
| `keystore_mixed` | violated | store.go:54: a client runs with half of each of two pairs |
| `identity` | 339,008 | both roles of phase 2 against a peer that sends what it likes |
| `identity_nonce` | violated | README.md:194-203, verifier.go:137: the right signature is refused |
| `chat` | 148,377 | two sessions for the lines of one user; one session and two full network directions |
| `chat_silent` | violated | direct.go:126: a line is not sent while the peer is silent |
| `nonce_cache` | 942,999 | three callers, three keys, a limit of one |

Properties of `Session`:

- `KeyAgreement`: session keys are equal iff their ends belong to one connection;
- `NoCrossTalk`: every message handed to an end was made by its own peer.  It holds
  although all acceptors share one buffer, because the only multi-packet message of
  the protocol, agree, goes to a dialer, and the headerless packets that do meet in
  the server's buffer all have index 60, so that two never make up one message;
- `IdentityNeverAccepted`: no handshake gets past phase 2's first message;
- `KeyExchangeSpec`: refinement of `KeyExchange`, an action property over whole steps;
- `KeyEstablishment`, `HandshakeReturns`: liveness;
- `SessionInv`: the inductive invariant of section 4.

Properties of `KeyStore`:

- `NoHiddenPrivateKey`: the order "public first" in Save and "private first" in Delete
  (store.go:89) keeps every private key visible, wherever commands that do not
  overlap are killed.  A save and a delete that overlap do leave a hidden one, or a
  save that succeeded and left nothing; no property excludes that, as the store has no lock;
- `SoleWriterDecides`: repeating a killed command, alone, repairs the store;
- `FirstSaveIsSafe`: the race of a connect with the first generate is benign, because
  the private key comes last in the save and the public key from the second load.  A
  show-id in that race may hash a torn public key and print the ID of nobody: it exits
  and the property tolerates it;
- `PublicNeverOlder`: later races and kills can give a client a public key that is
  newer than its private key, never older.

Properties of `IdentityExchange`:

- `OpensOnlyToTarget`: mutual authentication as far as the code promises it, over
  everything the peer may send and whichever role the program has;
- `AuthenticationSpec`: refinement of `Authentication`.  It says of every step what the
  invariant says of the states, and that a handshake that returned does nothing more;
- `NonceSignerVerified` (violated): the drivers have the signature verified against the
  sealed challenge (main.go:192 and 284), HandleChallenge signs the nonce in it
  (verifier.go:111), so the response of the right peer is refused;
- `AcceptorTellsLast`: the acceptor's identity and signature go to a verified peer only.
  The dialer has no such promise: it shows itself first, to whoever answered;
- `IdentityPhaseReturns`: every handshake returns, whatever the peer sends or leaves
  out, unless it sends packets for ever that complete no message.  Such a peer does keep
  the driver: each packet renews the deadline, and nothing bounds the whole phase.

Properties of `Chat`:

- `DeliverySpec`: refinement of `Delivery`: a line is lost only by a session that is over
  at one end or broken, and then it is the last that this session has taken by then, so
  that what came before it still arrives in order.  The code reports no error when the network took a line and the peer never reads it;
- `EachLineOnce`: the lines of a program are split among its sessions without a
  duplicate and without a reordering;
- `OneLateLine`: a typist whose connection its own end closed never returns to the
  standard input: the line it waits for is the last one it takes.  If the peer is gone
  or the connection broke and this end has not closed, there is no such bound: the network
  may take any number of lines without an error (direct.go:135), and they are lost;
- `SendReturns`, `QuitIsHeard`: a Send, and a quit, get the mutex in the end although
  the reader has it nearly always.  They hold up to `Jammed`: both typists in a write
  into a network full both ways, each with the mutex that its reader needs to make
  room.  TLC reaches that state in the `chat` run;
- `JamIsFinal`: neither a deadline nor a quit ends a jam: until one of the programs ends
  or the connection breaks, no goroutine of the session takes a step;
- `EndSpreads`: the end of a session at one side is seen at the other;
- `LineIsSent` (violated): the reader of a quiet session has the mutex for up to five
  minutes at a time, a line typed meanwhile waits, and if the deadline passes first the
  session ends and the line is lost.  With both users waiting for each other's line,
  that is the normal course.

Properties of `NonceCache`:

- `NoReplay`: calls decide in another order than that of their times, so an entry may
  be older than one added before it and may be dropped by a call with a later or
  an earlier reading of the clock; still no key is accepted within `ttl` of the moment
  its accepted call read the clock.  The moment it was *accepted* may be later, as
  the call may have waited for the lock: measured from there, a key may come back early;
- `FewAreNeverReused`: up to the limit nothing is dropped, so even an expired nonce is
  refused; whether an old nonce is accepted depends on how many others there were;
- `OnlyLiveAboveLimit`: only the rate of the calls bounds the cache.

### Bounds

- `session_safety`: two connections are what it takes for two goroutines to share the
  server's buffer; two IDs make every pattern of collision between two packets
  possible; totals 0, 1 and 2 are no message, a whole message and the one real
  multi-packet total.  Totals from 3 behave as 2 does while fewer than three packets
  of one ID can meet, as here; the proofs have no bound.
- `CleanAbove = CleanBelow = 1` scale the limits 100 and 50 down.  At most two
  IDs are pending in a run and cleanup precedes the second's storage, so cleanup itself
  never deletes here; it does in the proofs, where the number of connections is free, and
  `FragmentProof` covers it for any messages.  The mutant of KeyEstablishment, a cleanup
  without the limit, shows what the limit protects.
- `session_liveness`: connections interact only in the server's buffer, which only
  one of them uses here; both modes are present.
- `keystore`: two generates give two pairs to mix; one delete and one reader of each
  kind, as readers change nothing; two passwords, right and wrong.  They are
  interchangeable, hence the symmetry.
- `identity`: sessions share nothing, so one is enough; two identities, one expected;
  three messages are as many as a role can take, so that complete runs occur, and
  early, repeated and wrong ones: at the first of them a driver fails.
- `chat`: `MCChat` takes two scenarios, two sessions and the server's two lines, or one
  session and two lines of each user; with a network that holds one message two lines
  are what it takes to fill both directions and block both writers.  One of the two
  connections may break.  Any line may be a text, a quit or the end of the input.
- `nonce_cache`: the limit 1000 is scaled to 1, the ttl to 1; three keys make a cache
  above the limit, three callers overlap in every order, time 4 is enough to accept,
  expire, drop and accept again.  Callers and keys are interchangeable.
- All runs disable TLC's deadlock check: the programs end.

### Fairness

`Session` has weak fairness on `Step(e)`, the Go scheduler running a goroutine that
can run, and on `GiveUp(e)`, a blocked read that can only fail: the runtime reports a
closed connection, and the read deadline set by Recv expires.  Nothing is assumed
about dialing or about the network.  In `session_liveness` `SlowPeers` is FALSE: the
deadline expires only when no packet is under way and no peer is at work, because a
handler takes milliseconds and the deadline is five minutes.  `session_safety`
lets it expire at any time.  `HandshakeReturns` needs the deadline: after phase 1 both
ends wait for each other (main.go:147 and 258) and nothing else ends this.

`IdentityExchange` has weak fairness on `Driver(s)`: a driver that waits goes on when a
packet or the deadline comes.  The peer is not assumed to do anything, nor to stop:
`IdentityPhaseReturns` excludes the one that sends incomplete messages for ever in its statement.  `Chat` has weak fairness on each goroutine, `Typing(e)`
and `Reading(e)`: one that can run does, and the read deadline passes.  Weak fairness
is less than sync.Mutex gives, which hands the lock to a goroutine that has waited
for a millisecond; SendReturns holds all the same because users type finitely many
lines (`MaxLines`), after which the read deadline ends the reader's loop.  Against an
endless stream of lines it is the hand-over that lets a typist in.  No user has to type, quit or read, and no connection has to break.

## 4. What is proved

All theorems hold for every value of the constants that satisfies the named
assumptions: any set of connections, direct or relayed, any message IDs, any 16-bit
values of the header bytes, any limits of cleanup; any set of processes and passwords;
any sessions, identities and number of messages; any sessions, users, number of lines
and capacity of the network; any callers, nonces, limit and ttl.

| Theorem | States |
|---|---|
| `SessionProof!SessionCorrect` | `Spec => []SessionInv` |
| `SessionProof!TypeCorrect` | `Spec => []TypeOK`; no reassembly is garbled |
| `SessionProof!KeyAgreementHolds` | `Spec => []KeyAgreement` |
| `SessionProof!NoCrossTalkHolds` | `Spec => []NoCrossTalk` |
| `SessionProof!NeverAChannel` | `Spec => []IdentityNeverAccepted` |
| `SessionProof!SessionImplementsKeyExchange` | `Spec => KeyExchangeSpec` |
| `SessionProof!NoKeyOverRelay`, `DialersKeepTheirKeys`, `BindingsNeverAgree` | on every connection: two disagreements of section 3, and who keeps its key pair |
| `FragmentProof!PacketsCover` | how much of a message its packets carry |
| `FragmentProof!DistinctMessagesNeverMix` and two more | reassembly of any messages |
| `KeyStoreProof!StoreCorrect` | `Spec => []KSInv` |
| `KeyStoreProof!StoreTypeCorrect` and four more | the properties of the `keystore` run |
| `IdentityProof!IdentityTypeCorrect` | `Spec => []TypeOK`: no key is held but the expected one |
| `IdentityProof!IdentityImplementsAuthentication` | `Spec => AuthenticationSpec` |
| `IdentityProof!OpensOnlyToTargetHolds`, `AcceptorTellsLastHolds` | the other safety properties of the `identity` run |
| `IdentityProof!NonceSignerFailsAlways` | what `identity_nonce` shows, in every session |
| `ChatProof!ChatTypeCorrect`, `OneLateLineHolds`, `JamIsFinalHolds` | `TypeOK`, `OneLateLine`, `JamIsFinal` of `Chat` |
| `ChatProof!ChatImplementsDelivery` | `Spec => DeliverySpec` |
| `ChatProof!ChatSaysEachLineOnce` | `Spec => []EachLineOnce` |
| `DeliveryProof!OneTakerHolds` | `DSpec => []OneTaker` |
| `NonceCacheProof!NonceTypeCorrect` and three more | the properties of the `nonce_cache` run |

**Assumptions.**  `CleanupAssumption` (limits are naturals, the lower one positive and
not above the upper); `SessionAssumption` (relay connections are connections, header
totals are 16-bit numbers, the two switches are Booleans, `Server` and `None` are not
ends); `NoneAssumption` (nil is not a key); `KeyStoreAssumption` (a process runs one
command; absent, torn and nil are different and are no key); `IdentityAssumption` (nil is
neither an identity nor a session); `ChatAssumption` (the server is no connection, no
line is not a number, the network holds at least one message); `NonceAssumption` (limit, ttl and the end of time
are naturals, `Never` is not).  No induction over data
and no axiom is used.

**Session.**  `KeyAgreement` is not inductive: that two keys agree rests on what was in
flight before.  `SessionInv` adds

- `ControlInv`: which goroutine can be at which place, and that the places before the
  first handler have an untouched handshake object;
- `KemInv`: in each handshake state, which of the two secrets the object holds and
  that it is the secret of this very connection; an acceptor is ESTABLISHED only after
  its dialer, and nobody is on a relay connection;
- `MessageInv`: every packet queued, in flight or delivered is one of the four its
  peer can have sent at that point, with the total and index it must have;
- `BufferInv`: a dialer's buffer holds parts of its own agree message only, and every
  entry of the server's buffer is at index 60.  This is why reassembly can neither
  mix connections nor yield garbage: in a dialer's buffer two indices 0 and 1 make the
  whole message, in the server's a count of one never equals a total of two or more,
  and a total of zero never equals a count of one.

Each action has its lemma, with one step per part of the invariant it can disturb.
`SessionImplementsKeyExchange` maps `HandleAgree` to `Draw`, `HandleFinish` to `Adopt`,
every way of failing to `GiveUp`, and all else to a stutter; it uses `SessionInv` for
the freshness of the key drawn and the equality of the key adopted.

The disagreements that TLC shows by one behaviour each are the rule: `KeysInv`, which
says which KEM keys an object holds in each state, gives with `SessionInv` that every
dialer keeps its ephemeral key pair after it has the session key (README.md:151 has
"Ephemeral private keys securely wiped"; no run is spent on this) and that the bindings of two ends differ on every connection
(the acceptor's is one key long, the dialer's two), and `KemInv` that no end of a relay
connection ever has a key.

**Fragment.**  These theorems are about one iteration of ReceiveFragmented, for any
function from IDs to messages.  If the buffer holds parts of these messages only
(`HoldsParts`), it does so after the iteration, whatever cleanup deleted and whether the
packet is new or a repetition; and the message handed over, if any, is the one sent.
The heart is `CompleteIffAllThere`: the code compares a *number* of parts with the total,
and as the parts of one ID differ by their index and no index reaches the total, the
number is right exactly when all are there.  It fits 16 bits by `PacketsCover`.
`SameIDMixes` shows that without distinct IDs all this is false: `Session` needs
its own argument (`BufferInv`), as IDs collide there.

**KeyStore.**  `KSInv` adds to the properties which steps a process can be at
(`ProgramInv`), that while the last writer began alone no other is at work
(`WritersInv`), that only a writer in the middle of a write has its file removed under
it (`UnlinkedInv`), what each of its steps finds in the files (`SoleInv`), and what files
and readers hold while there has been one writer (`FirstFilesInv`, `FirstReadersInv`).
`AgeInv` orders the keys: the store's public key is never older than its private key,
nor than a private key already loaded.  `KSInv` and `AgeInv` were model-checked on the
instance of `keystore` before they were proved.

**IdentityExchange.**  `IdInv` ties, per role, the place of the driver to what it has
said (`SaidInv`) and to what it has verified (`VerifiedInv`).  The heart is the lemma
`ValidSignature`: of everything a peer can have sent, only its own signature under this
session's challenge verifies, and only if its key is the one held; the key held is the
expected one by `TypeOK`.  The refinement maps a peer's signature to `Prove`,
VerifyResponse to `Verify`, HandleChallenge to `Show`, every failure to `GiveUp` and all
else to a stutter, with `IdInv` for the guards of the abstract steps.  Messages of other sessions cannot help, as their texts
hold another session key.

**Chat.**  The refinement maps Scan to `TakeLine`, the end of the input to `TakeEnd`, a
Send that fails or a write that vanishes to `LoseLine`, ReadMessage at the peer to
`PrintLine`, everything that closes, exits or breaks to `EndSessions`, and all else, the
write into the network included, to a stutter.  It rests on `Control` (a typist holds a
line in the steps from Scan to the end of Send and in no others) and `TypeOK`.
`Mutex`, that a typist never writes while its reader reads, nor on a closed connection,
gives `JamIsFinal`, and, with `Started` (an end that is closed was opened, and its typist
with it), `OneLateLine`: only a write leads back to the standard input.  `OneTaker` is not inductive: that a line is taken once depends on the
lines still to be taken.  `DeliveryProof` proves it with `Queued` (the lines typed and
not taken carry increasing numbers, those still to be typed higher ones) and `TakenTyped`
(every number taken was typed).  `EachLineOnce` follows for the goroutines from the
abstract invariant and the refinement, and needs no proof about them of its own.

**NonceCache.**  The invariant holds that an accepted key stays in the cache with the
time of the call that accepted it until a call whose own reading of the clock exceeds
that time by more than the ttl has dropped it, and that no reading is ahead of the
clock: this gives `NoReplay` for any order of the critical sections.
`FewAreNeverReused` rests on the cache holding only used keys, so that it is never over
the limit before they are.

**Only model-checked**: the liveness properties (`KeyEstablishment`, `HandshakeReturns`,
`IdentityPhaseReturns`, `SendReturns`, `QuitIsHeard`, `EndSpreads`) and the six
disagreements as such.  Fairness and ENABLED are beyond the prover.

## 5. Not modelled

- Length fields of the codec, beyond the sizes that decide fragmentation.
- In `Session`, malformed messages and peers that do not run this code; in
  `IdentityExchange`, peers that break the framing or the encryption.
- A standard input that is not a terminal: each session has its own bufio.Scanner, which
  takes as many lines as one read gives it, so of a piped input one session may
  swallow lines that it never says.
- Memory clearing (`crypto/memory.go` overwrites buffers the modules do not have), TLS
  set-up, the HTTP upgrade, command line, printing, build files.
- DirectServer.Stop and StartTLS, KeyStore.ListKeypairs, IsClosed and RemoteAddr: no code
  calls them.
- The relay server: an external lossless FIFO link between two dialers.
- A power failure under the key store.

## 6. Plan

Done: all modules of section 2, with the proofs of every safety property, action property
and refinement that a run checks.  Next, in this order:

1. Codec boundaries (messages.go: length fields of 16 bits, what a deserializer accepts) as
   operators, with theorems that what was serialized is read back and that a length out
   of bounds is an error.
2. What `KeyExchange` and `Authentication` promise, proved on the abstract level as it is
   for `Delivery`.
