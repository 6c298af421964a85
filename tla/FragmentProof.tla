---------------------------- MODULE FragmentProof ----------------------------
(***************************************************************************)
(* What fragment.go does to any stream of packets, for any number of       *)
(* messages, any number of parts up to the limit of the header, and any    *)
(* limits of cleanup: messages are cut into parts that cover them, and a   *)
(* buffer whose message IDs are distinct hands over nothing but messages   *)
(* that were sent, in whatever order parts come and cleanup deletes.       *)
(***************************************************************************)
EXTENDS Fragment, FiniteSetTheorems, TLAPS

-----------------------------------------------------------------------------
\* Splitting.

\* The remainder that a conversion to uint16 leaves.
LEMMA Uint16Facts ==
  ASSUME NEW n \in Nat
  PROVE  /\ MaxUint16 \in Nat
         /\ n % MaxUint16 \in Nat /\ n % MaxUint16 < MaxUint16 /\ n % MaxUint16 <= n
         /\ n < MaxUint16 => n % MaxUint16 = n
<1> USE DEF MaxUint16
<1>1. MaxUint16 \in Nat /\ n % MaxUint16 \in Nat /\ n % MaxUint16 < MaxUint16 OBVIOUS
<1>2. n < MaxUint16 => n % MaxUint16 = n OBVIOUS
<1>3. n >= MaxUint16 => n % MaxUint16 <= n BY <1>1
<1> QED BY <1>1, <1>2, <1>3

\* The longest message whose number of packets the header can hold.
LongestMessage == MaxFragmentSize * (MaxUint16 - 1)

\* fragment.go:93: the packets of a message of up to LongestMessage bytes cover it
\* without one to spare.  Of a longer one they leave out the end: the conversion to
\* uint16 makes their number too small, and SendFragmented reports no error.
THEOREM PacketsCover ==
  ASSUME NEW n \in Nat \ {0}
  PROVE  /\ FragmentTotal(n) \in Nat /\ FragmentTotal(n) < MaxUint16
         /\ n <= LongestMessage =>
              /\ (FragmentTotal(n) - 1) * MaxFragmentSize < n
              /\ n <= FragmentTotal(n) * MaxFragmentSize
         /\ n > LongestMessage => FragmentTotal(n) * MaxFragmentSize < n
<1> DEFINE q == (n + MaxFragmentSize - 1) \div MaxFragmentSize
           r == q % MaxUint16
<1>1. q \in Nat /\ (q - 1) * MaxFragmentSize < n /\ n <= q * MaxFragmentSize
  BY DEF MaxFragmentSize
<1>2. FragmentTotal(n) = (IF n <= MaxFragmentSize THEN 1 ELSE r) BY DEF FragmentTotal
<1> HIDE DEF q
<1>3. r \in Nat /\ r < MaxUint16 /\ r <= q /\ (q < MaxUint16 => r = q) BY <1>1, Uint16Facts
<1> HIDE DEF r
<1> USE DEF LongestMessage, MaxFragmentSize, MaxUint16
<1>4. FragmentTotal(n) \in Nat /\ FragmentTotal(n) < MaxUint16 BY <1>2, <1>3
<1>5. CASE n <= LongestMessage
  <2>1. q < MaxUint16 BY <1>1, <1>5
  <2>2. n <= MaxFragmentSize => q = 1 BY <1>1
  <2>3. FragmentTotal(n) = q BY <1>2, <1>3, <2>1, <2>2
  <2> QED BY <1>1, <1>4, <1>5, <2>3
<1>6. CASE n > LongestMessage
  <2>1. FragmentTotal(n) = r BY <1>2, <1>6
  <2>2. r * MaxFragmentSize < n BY <1>3, <1>6
  <2> QED BY <1>4, <1>6, <2>1, <2>2
<1>7. n <= LongestMessage \/ n > LongestMessage OBVIOUS
<1> HIDE DEF LongestMessage, MaxFragmentSize, MaxUint16
<1> QED BY <1>5, <1>6, <1>7

-----------------------------------------------------------------------------
\* Streams.  A sender gives each message an ID of its own: `messages' maps the IDs
\* in use to a body and to how many packets it takes, two or more.

Messages(messages) ==
  \A id \in DOMAIN messages :
    messages[id].total \in Nat /\ 1 < messages[id].total /\ messages[id].total < MaxUint16

Part(messages, id, i) == [id |-> id, index |-> i, body |-> messages[id].body]

\* A packet of one of the messages.
PacketOf(messages, p) ==
  /\ p.id \in DOMAIN messages
  /\ p.body = messages[p.id].body /\ p.total = messages[p.id].total
  /\ p.index \in 0 .. p.total - 1

\* A buffer that holds parts of the messages and nothing else.
HoldsParts(messages, fb) ==
  \A f \in fb :
    /\ f.id \in DOMAIN messages
    /\ \E i \in 0 .. messages[f.id].total - 1 : f = Part(messages, f.id, i)

\* The indices at which a buffer holds a part of a message.
Indices(fb, id) == {f.index : f \in OfMessage(fb, id)}

\* SendFragmented writes packets of the message it was given.
LEMMA SentPackets ==
  ASSUME NEW messages, NEW id \in DOMAIN messages, NEW n \in Nat, NEW flag,
         n > MaxFragmentSize, messages[id].total = FragmentTotal(n),
         NEW i \in DOMAIN Fragments(flag, messages[id].body, n, id)
  PROVE  PacketOf(messages, Fragments(flag, messages[id].body, n, id)[i])
<1> DEFINE t == FragmentTotal(n)
<1>1. t \in Nat
  <2>1. n \in Nat \ {0} BY DEF MaxFragmentSize
  <2> QED BY <2>1, PacketsCover
<1>2. i \in 1 .. t BY DEF Fragments
<1>3. Fragments(flag, messages[id].body, n, id)[i] =
        [flag |-> flag, index |-> i - 1, total |-> t, id |-> id, body |-> messages[id].body]
  BY <1>2 DEF Fragments
<1> HIDE DEF t
<1>4. i - 1 \in 0 .. t - 1 BY <1>1, <1>2
<1> QED BY <1>3, <1>4 DEF PacketOf, t

\* Cleanup deletes all parts of a message or none, and tears no message apart.
LEMMA CleanupTearsNothing ==
  ASSUME NEW fb, NEW cleaned \in AfterCleanup(fb), NEW id
  PROVE  OfMessage(cleaned, id) \in {OfMessage(fb, id), {}} /\ cleaned \subseteq fb
BY DEF AfterCleanup, OfMessage

\* A buffer that holds parts only goes on doing so.
LEMMA PartsOnly ==
  ASSUME NEW messages, NEW fb, HoldsParts(messages, fb),
         NEW p, PacketOf(messages, p), NEW cleaned \in AfterCleanup(fb)
  PROVE  /\ HoldsParts(messages, Stored(cleaned, p))
         /\ HoldsParts(messages, Stored(cleaned, p) \ OfMessage(Stored(cleaned, p), p.id))
         /\ Indices(Stored(cleaned, p), p.id) = Indices(cleaned, p.id) \cup {p.index}
<1> DEFINE q == [id |-> p.id, index |-> p.index, body |-> p.body]
<1>1. cleaned \subseteq fb BY CleanupTearsNothing
<1>2. q = Part(messages, p.id, p.index) /\ p.index \in 0 .. messages[p.id].total - 1
      /\ q.id = p.id /\ q.index = p.index
  BY DEF Part, PacketOf
<1>3. Stored(cleaned, p) = {f \in cleaned : f.id # p.id \/ f.index # p.index} \cup {q}
  BY DEF Stored
<1> HIDE DEF q
<1>4. HoldsParts(messages, Stored(cleaned, p))
  BY <1>1, <1>2, <1>3 DEF HoldsParts, PacketOf
<1>5. HoldsParts(messages, Stored(cleaned, p) \ OfMessage(Stored(cleaned, p), p.id))
  BY <1>4 DEF HoldsParts
<1>6. Indices(Stored(cleaned, p), p.id) = Indices(cleaned, p.id) \cup {p.index}
  BY <1>2, <1>3 DEF Indices, OfMessage
<1> QED BY <1>4, <1>5, <1>6

-----------------------------------------------------------------------------
\* Reassembly.

\* The parts of a message in a buffer are its indices with the message around them.
LEMMA PartsByIndex ==
  ASSUME NEW messages, NEW fb, HoldsParts(messages, fb), NEW id \in DOMAIN messages
  PROVE  /\ Indices(fb, id) \subseteq 0 .. messages[id].total - 1
         /\ OfMessage(fb, id) = {Part(messages, id, i) : i \in Indices(fb, id)}
<1>1. \A i : Part(messages, id, i).index = i /\ Part(messages, id, i).id = id BY DEF Part
<1>2. \A f \in OfMessage(fb, id) :
        \E i \in 0 .. messages[id].total - 1 : f = Part(messages, id, i) /\ f.index = i
  BY <1>1 DEF HoldsParts, OfMessage
<1> QED BY <1>1, <1>2 DEF Indices

\* So there are as many parts as indices.
LEMMA CountParts ==
  ASSUME NEW messages, NEW fb, HoldsParts(messages, fb), NEW id \in DOMAIN messages,
         Messages(messages)
  PROVE  /\ IsFiniteSet(Indices(fb, id))
         /\ Cardinality(OfMessage(fb, id)) = Cardinality(Indices(fb, id))
<1> DEFINE I == Indices(fb, id)
           O == OfMessage(fb, id)
           part == [i \in I |-> Part(messages, id, i)]
<1>1. I \subseteq 0 .. messages[id].total - 1 /\ O = {Part(messages, id, i) : i \in I}
  BY PartsByIndex
<1>2. IsFiniteSet(I)
  <2> DEFINE t == messages[id].total
  <2>1. t \in Nat BY DEF Messages
  <2> HIDE DEF t
  <2>2. t - 1 \in Int BY <2>1
  <2>3. IsFiniteSet(0 .. t - 1) BY <2>2, FS_Interval
  <2> QED BY <1>1, <2>3, FS_Subset DEF t
<1>3. \A i, j \in I : Part(messages, id, i) = Part(messages, id, j) => i = j
  <2>1. \A i : Part(messages, id, i).index = i BY DEF Part
  <2> QED BY <2>1
<1> HIDE DEF I, O
<1>4. part \in Bijection(I, O)
  <2>1. part \in [I -> O] BY <1>1
  <2>2. part \in Injection(I, O) BY <1>3, <2>1 DEF Injection, IsInjective
  <2>3. part \in Surjection(I, O) BY <1>1, <2>1 DEF Surjection
  <2> QED BY <2>2, <2>3 DEF Bijection
<1>5. ExistsBijection(I, O) BY <1>4 DEF ExistsBijection
<1>6. Cardinality(O) = Cardinality(I) BY <1>2, <1>5, FS_Bijection
<1> QED BY <1>2, <1>6 DEF I, O

\* fragment.go:169: although the test counts parts and does not look at which they are,
\* it succeeds exactly when all parts are there.
THEOREM CompleteIffAllThere ==
  ASSUME NEW messages, Messages(messages), NEW fb, HoldsParts(messages, fb),
         NEW p, PacketOf(messages, p)
  PROVE  Complete(fb, p) <=> Indices(fb, p.id) = 0 .. p.total - 1
<1> DEFINE I == Indices(fb, p.id)
           t == p.total
           count == Cardinality(I)
<1>1. t \in Nat /\ 1 < t /\ t < MaxUint16 BY DEF Messages, PacketOf
<1>2. I \subseteq 0 .. t - 1 BY PartsByIndex DEF PacketOf
<1>3. IsFiniteSet(I) /\ Cardinality(OfMessage(fb, p.id)) = count
  BY CountParts DEF PacketOf
<1>4. Complete(fb, p) <=> count % MaxUint16 = t BY <1>3 DEF Complete
<1> HIDE DEF I, t
<1>5. IsFiniteSet(0 .. t - 1) /\ Cardinality(0 .. t - 1) = t
  <2>1. t - 1 \in Int /\ 0 \in Int /\ ~(0 > t - 1) /\ (t - 1) - 0 + 1 = t
    BY <1>1
  <2> QED BY <2>1, FS_Interval
<1>6. count \in Nat /\ count <= t
  BY <1>2, <1>3, <1>5, FS_Subset, FS_CardinalityType
<1>7. count = t => I = 0 .. t - 1 BY <1>2, <1>5, FS_Subset
<1>8. I = 0 .. t - 1 => count = t BY <1>5
<1> HIDE DEF count
<1>9. count % MaxUint16 = count
  <2>1. MaxUint16 \in Nat BY Uint16Facts, <1>6
  <2>2. count < MaxUint16 BY <1>1, <1>6, <2>1
  <2> QED BY <1>6, <2>2, Uint16Facts
<1> QED BY <1>4, <1>7, <1>8, <1>9 DEF I, t

\* What is reassembled from all parts is the message.
LEMMA AllPartsMake ==
  ASSUME NEW messages, Messages(messages), NEW fb, HoldsParts(messages, fb),
         NEW p, PacketOf(messages, p), Indices(fb, p.id) = 0 .. p.total - 1
  PROVE  Reassembled(fb, p) = p.body
<1> DEFINE O == OfMessage(fb, p.id)
           t == p.total
           parts == {f \in O : f.index < t}
           indices(f) == {g.index : g \in {h \in parts : h.body = f.body}}
           whole == {f \in parts : indices(f) = 0 .. t - 1}
<1>1. t \in Nat /\ 1 < t /\ t < MaxUint16 BY DEF Messages, PacketOf
<1>2. /\ \A f \in O : f.body = p.body /\ f.index \in 0 .. t - 1
      /\ {f.index : f \in O} = 0 .. t - 1
  <2>1. O = {Part(messages, p.id, i) : i \in 0 .. t - 1}
    <3>1. p.id \in DOMAIN messages BY DEF PacketOf
    <3>2. O = {Part(messages, p.id, i) : i \in Indices(fb, p.id)} BY <3>1, PartsByIndex
    <3> QED BY <3>2
  <2>2. \A i : Part(messages, p.id, i).index = i /\ Part(messages, p.id, i).body = p.body
    BY DEF Part, PacketOf
  <2> QED BY <2>1, <2>2 DEF Indices
<1>3. Reassembled(fb, p) = IF whole = {} THEN Garbled ELSE (CHOOSE f \in whole : TRUE).body
  BY DEF Reassembled
<1> HIDE DEF O, t
<1>4. 0 \in 0 .. t - 1 /\ \A i \in 0 .. t - 1 : i < t BY <1>1
<1>5. parts = O BY <1>2, <1>4
<1> HIDE DEF parts
<1>6. whole = O /\ O # {}
  <2>1. \A f \in O : {h \in parts : h.body = f.body} = O BY <1>2, <1>5
  <2>2. \A f \in O : indices(f) = 0 .. t - 1 BY <1>2, <2>1
  <2> QED BY <1>2, <1>4, <1>5, <2>2
<1> HIDE DEF whole
<1>7. (CHOOSE f \in whole : TRUE) \in whole BY <1>6
<1> QED BY <1>2, <1>3, <1>6, <1>7

\* fragment.go:161: as long as the messages on their way have different IDs, one
\* iteration of ReceiveFragmented on a buffer that holds their parts, with a cleanup
\* or without, hands over nothing but the message the packet is a part of, does so
\* exactly when the packet is the last that was missing, and leaves a buffer that
\* holds their parts: no order, repetition or loss of packets mixes two messages.
THEOREM DistinctMessagesNeverMix ==
  ASSUME NEW messages, Messages(messages), NEW fb, HoldsParts(messages, fb),
         NEW p, PacketOf(messages, p), NEW cleaned \in AfterCleanup(fb)
  PROVE  LET st == Stored(cleaned, p) IN
         /\ HoldsParts(messages, st)
         /\ HoldsParts(messages, st \ OfMessage(st, p.id))
         /\ Complete(st, p) <=> Indices(cleaned, p.id) \cup {p.index} = 0 .. p.total - 1
         /\ Complete(st, p) => Reassembled(st, p) = p.body
<1> DEFINE st == Stored(cleaned, p)
<1>1. /\ HoldsParts(messages, st) /\ HoldsParts(messages, st \ OfMessage(st, p.id))
      /\ Indices(st, p.id) = Indices(cleaned, p.id) \cup {p.index}
  BY PartsOnly
<1> HIDE DEF st
<1>2. Complete(st, p) <=> Indices(st, p.id) = 0 .. p.total - 1 BY <1>1, CompleteIffAllThere
<1>3. Complete(st, p) => Reassembled(st, p) = p.body BY <1>1, <1>2, AllPartsMake
<1> QED BY <1>1, <1>2, <1>3 DEF st

\* The hypothesis on the IDs is needed: half of a message that never became whole and
\* the other half of a later message with its ID count as one, which nobody sent.
THEOREM SameIDMixes ==
  ASSUME NEW id, NEW b, NEW c, b # c, NEW p, p.id = id, p.index = 1, p.total = 2, p.body = c
  PROVE  LET st == Stored({[id |-> id, index |-> 0, body |-> b]}, p) IN
         Complete(st, p) /\ Reassembled(st, p) = Garbled
<1> DEFINE first == [id |-> id, index |-> 0, body |-> b]
           second == [id |-> id, index |-> 1, body |-> c]
           st == Stored({first}, p)
           indices(f) == {g.index : g \in {h \in {first, second} : h.body = f.body}}
<1>1. /\ first.id = id /\ first.index = 0 /\ first.body = b
      /\ second.id = id /\ second.index = 1 /\ second.body = c
  OBVIOUS
<1>2. st = {first, second} BY DEF Stored
<1> HIDE DEF first, second, st
<1>3. first # second BY <1>1
<1>4. OfMessage(st, p.id) = {first, second} BY <1>1, <1>2 DEF OfMessage
<1>5. Complete(st, p)
  <2>1. IsFiniteSet({first}) /\ Cardinality({first}) = 1 BY FS_Singleton
  <2>2. Cardinality({first} \cup {second}) = 2 BY <1>3, <2>1, FS_AddElement
  <2>3. {first} \cup {second} = {first, second} OBVIOUS
  <2>4. 2 % MaxUint16 = 2 BY DEF MaxUint16
  <2> QED BY <1>4, <2>2, <2>3, <2>4 DEF Complete
<1>6. {f \in {first, second} : f.index < p.total} = {first, second} BY <1>1
<1>7. indices(first) # 0 .. 1 /\ indices(second) # 0 .. 1
  <2>1. indices(first) = {0} /\ indices(second) = {1} BY <1>1
  <2>2. 0 \in 0 .. 1 /\ 1 \in 0 .. 1 OBVIOUS
  <2> QED BY <2>1, <2>2
<1>8. Reassembled(st, p) = Garbled
  <2>1. p.total - 1 = 1 OBVIOUS
  <2>2. {f \in {first, second} : indices(f) = 0 .. p.total - 1} = {} BY <1>7, <2>1
  <2> QED BY <1>4, <1>6, <2>2 DEF Reassembled
<1> QED BY <1>5, <1>8 DEF first, st
=============================================================================
