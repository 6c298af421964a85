---------------------------- MODULE DeliveryProof ----------------------------
(***************************************************************************)
(* Every behaviour of Delivery keeps the order of the lines, and gives no  *)
(* line to two ends.  ChatProof uses the lemmas for the chat itself.       *)
(***************************************************************************)
EXTENDS Delivery, SequenceTheorems, TLAPS

Lines == 1..MaxLines
Typed == [n : Lines, word : Words]

\* Where the ends run is known, and the bound is a number.
Parameters == host \in [Ends -> Programs] /\ MaxLines \in Nat

DTypeOK ==
  /\ stdin \in [Programs -> Seq(Typed)]
  /\ left \in [Programs -> 0..MaxLines]
  /\ carried \in [Ends -> Seq(Lines)]
  /\ printed \in [Ends -> Seq(Lines)]
  /\ over \subseteq Ends

-----------------------------------------------------------------------------
\* Lemmas about sequences.

\* t is s, or s without some of its last elements.
Prefix(t, s) == Len(t) <= Len(s) /\ \A i \in 1..Len(t) : t[i] = s[i]

\* Every sequence is a prefix of itself.
LEMMA PrefixReflexive ==
  ASSUME NEW S, NEW s \in Seq(S)
  PROVE  Prefix(s, s)
  BY LenProperties DEF Prefix

\* A value moved from the head of one sequence to the end of the sequence before it
\* leaves the two together as they were.
LEMMA MoveHead ==
  ASSUME NEW S, NEW g \in Seq(S), NEW c \in Seq(S), c # <<>>
  PROVE  /\ Append(g, Head(c)) \in Seq(S)
         /\ Tail(c) \in Seq(S)
         /\ Append(g, Head(c)) \o Tail(c) = g \o c
<1> DEFINE g1 == Append(g, Head(c))
           c1 == Tail(c)
<1>1. Len(c) \in Nat \ {0} /\ Len(g) \in Nat
  BY EmptySeq, LenProperties
<1>2. /\ Head(c) \in S /\ c1 \in Seq(S) /\ Len(c1) = Len(c) - 1
      /\ \A i \in 1..Len(c1) : c1[i] = c[i + 1]
  BY HeadTailProperties
<1>3. Head(c) = c[1]
  OBVIOUS
<1>4. /\ g1 \in Seq(S) /\ Len(g1) = Len(g) + 1 /\ g1[Len(g) + 1] = c[1]
      /\ \A i \in 1..Len(g) : g1[i] = g[i]
  BY <1>2, <1>3, AppendProperties
<1> HIDE DEF g1, c1
<1>5. /\ g1 \o c1 \in Seq(S) /\ Len(g1 \o c1) = Len(g1) + Len(c1)
      /\ \A i \in 1..Len(g1) + Len(c1) :
           (g1 \o c1)[i] = IF i <= Len(g1) THEN g1[i] ELSE c1[i - Len(g1)]
  BY <1>2, <1>4, ConcatProperties
<1>6. /\ g \o c \in Seq(S) /\ Len(g \o c) = Len(g) + Len(c)
      /\ \A i \in 1..Len(g) + Len(c) :
           (g \o c)[i] = IF i <= Len(g) THEN g[i] ELSE c[i - Len(g)]
  BY ConcatProperties
<1>7. ASSUME NEW i \in 1..Len(g) + Len(c)
      PROVE  (g1 \o c1)[i] = (g \o c)[i]
  <2>1. CASE i <= Len(g)
    BY <1>1, <1>2, <1>4, <1>5, <1>6, <2>1
  <2>2. CASE i = Len(g) + 1
    BY <1>1, <1>2, <1>4, <1>5, <1>6, <2>2
  <2>3. CASE i > Len(g) + 1
    <3>1. (g1 \o c1)[i] = c1[i - Len(g1)]
      BY <1>1, <1>2, <1>4, <1>5, <2>3
    <3>2. i - Len(g1) \in 1..Len(c1) /\ (i - Len(g1)) + 1 = i - Len(g)
      BY <1>1, <1>2, <1>4, <2>3
    <3>3. c1[i - Len(g1)] = c[i - Len(g)]
      BY <1>2, <3>2
    <3> QED
      BY <1>1, <1>6, <2>3, <3>1, <3>3
  <2>4. i <= Len(g) \/ i = Len(g) + 1 \/ i > Len(g) + 1
    BY <1>1
  <2> QED
    BY <2>1, <2>2, <2>3, <2>4, Zenon
<1>8. g1 \o c1 = g \o c
  <2>1. Len(g1 \o c1) = Len(g \o c) /\ Len(g1 \o c1) = Len(g) + Len(c)
    BY <1>1, <1>2, <1>4, <1>5, <1>6
  <2>2. \A i \in 1..Len(g1 \o c1) : (g1 \o c1)[i] = (g \o c)[i]
    BY <1>7, <2>1, Zenon
  <2> QED
    BY <1>5, <1>6, <2>1, <2>2, SeqEqual, Zenon
<1> QED
  BY <1>2, <1>4, <1>8 DEF g1, c1

\* What is appended to the second of two sequences is appended to the two together.
LEMMA AppendToSecond ==
  ASSUME NEW S, NEW g \in Seq(S), NEW c \in Seq(S), NEW x \in S
  PROVE  /\ Append(c, x) \in Seq(S)
         /\ g \o Append(c, x) = Append(g \o c, x)
<1>1. <<x>> \in Seq(S) /\ g \o c \in Seq(S) /\ Append(c, x) \in Seq(S)
  BY ConcatProperties, AppendProperties
<1>2. Append(c, x) = c \o <<x>> /\ Append(g \o c, x) = (g \o c) \o <<x>>
  BY <1>1, AppendIsConcat
<1>3. (g \o c) \o <<x>> = g \o (c \o <<x>>)
  BY <1>1, ConcatAssociative
<1> QED
  BY <1>1, <1>2, <1>3

\* The length SubSeq gives to a sequence of n elements without the last.
LEMMA LengthButOne ==
  ASSUME NEW n \in Nat, 1 <= n,
         NEW l, l = IF 1 <= n - 1 THEN (n - 1) - 1 + 1 ELSE 0
  PROVE  l = n - 1
  OBVIOUS

\* What remains of two sequences when the second loses its last value is a prefix.
LEMMA CutSecond ==
  ASSUME NEW S, NEW g \in Seq(S), NEW c \in Seq(S), c # <<>>
  PROVE  /\ SubSeq(c, 1, Len(c) - 1) \in Seq(S)
         /\ Prefix(g \o SubSeq(c, 1, Len(c) - 1), g \o c)
<1> DEFINE d == SubSeq(c, 1, Len(c) - 1)
<1>1. Len(c) \in Nat /\ 1 <= Len(c) /\ Len(g) \in Nat
  BY EmptySeq, LenProperties
<1>2. \A i \in 1..Len(c) - 1 : c[i] \in S
  BY <1>1, ElementOfSeq
<1> HIDE DEF d
<1>3. d \in Seq(S) /\ Len(d) = Len(c) - 1 /\ \A i \in 1..Len(c) - 1 : d[i] = c[i]
  <2>1. /\ d \in Seq(S)
        /\ Len(d) = IF 1 <= Len(c) - 1 THEN (Len(c) - 1) - 1 + 1 ELSE 0
        /\ \A i \in 1..(Len(c) - 1) - 1 + 1 : d[i] = c[1 + i - 1]
    BY <1>1, <1>2, SubSeqProperties DEF d
  <2>2. Len(d) = Len(c) - 1
    <3>1. Len(d) = IF 1 <= Len(c) - 1 THEN (Len(c) - 1) - 1 + 1 ELSE 0
      BY <2>1, Zenon
    <3> QED
      BY <1>1, <3>1, LengthButOne, Zenon
  <2>3. ASSUME NEW i \in 1..Len(c) - 1
        PROVE  d[i] = c[i]
    <3>1. i \in 1..(Len(c) - 1) - 1 + 1 /\ 1 + i - 1 = i
      BY <1>1
    <3> QED
      BY <2>1, <3>1, Zenon
  <2> QED
    BY <2>1, <2>2, <2>3, Zenon
<1>4. /\ Len(g \o d) = Len(g) + Len(d)
      /\ \A i \in 1..Len(g) + Len(d) :
           (g \o d)[i] = IF i <= Len(g) THEN g[i] ELSE d[i - Len(g)]
  BY <1>3, ConcatProperties
<1>5. /\ Len(g \o c) = Len(g) + Len(c)
      /\ \A i \in 1..Len(g) + Len(c) :
           (g \o c)[i] = IF i <= Len(g) THEN g[i] ELSE c[i - Len(g)]
  BY ConcatProperties
<1>6. Prefix(g \o d, g \o c)
  <2>1. ASSUME NEW i \in 1..Len(g) + Len(d)
        PROVE  (g \o d)[i] = (g \o c)[i]
    BY <1>1, <1>3, <1>4, <1>5
  <2>2. Len(g \o d) <= Len(g \o c)
    BY <1>1, <1>3, <1>4, <1>5
  <2>3. \A i \in 1..Len(g \o d) : (g \o d)[i] = (g \o c)[i]
    BY <1>4, <2>1, Zenon
  <2> QED
    BY <2>2, <2>3, Zenon DEF Prefix
<1> QED
  BY <1>3, <1>6 DEF d

\* The elements of a prefix are elements of the whole, at the same places.
LEMMA PrefixElements ==
  ASSUME NEW S, NEW s \in Seq(S), NEW t \in Seq(S), Prefix(t, s)
  PROVE  \A i \in DOMAIN t : i \in DOMAIN s /\ t[i] = s[i]
<1>1. Len(s) \in Nat /\ Len(t) \in Nat /\ DOMAIN s = 1..Len(s) /\ DOMAIN t = 1..Len(t)
  BY LenProperties
<1> QED
  BY <1>1 DEF Prefix

\* The queue r is q, or q without its first element.
Behind(r, q) ==
  \E k \in {0, 1} : \A j \in DOMAIN r : j + k \in DOMAIN q /\ r[j] = q[j + k]

\* Every queue is behind itself.
LEMMA BehindReflexive ==
  ASSUME NEW S, NEW q \in Seq(S)
  PROVE  Behind(q, q)
<1>1. Len(q) \in Nat /\ DOMAIN q = 1..Len(q)
  BY LenProperties
<1>2. \A j \in DOMAIN q : j + 0 = j
  BY <1>1
<1> QED
  BY <1>2 DEF Behind

\* A queue without its head is behind the queue.
LEMMA BehindTail ==
  ASSUME NEW S, NEW q \in Seq(S), q # <<>>
  PROVE  /\ Behind(Tail(q), q)
         /\ Tail(q) \in Seq(S) /\ Head(q) \in S
         /\ 1 \in DOMAIN q /\ Head(q) = q[1]
         /\ \A j \in DOMAIN Tail(q) : j + 1 \in DOMAIN q /\ Tail(q)[j] = q[j + 1]
<1>1. Len(q) \in Nat \ {0} /\ DOMAIN q = 1..Len(q)
  BY EmptySeq, LenProperties
<1>2. /\ Head(q) \in S /\ Tail(q) \in Seq(S) /\ Len(Tail(q)) = Len(q) - 1
      /\ \A j \in 1..Len(Tail(q)) : Tail(q)[j] = q[j + 1]
  BY HeadTailProperties
<1>3. DOMAIN Tail(q) = 1..Len(Tail(q))
  BY <1>2, LenProperties
<1>4. \A j \in DOMAIN Tail(q) : j + 1 \in DOMAIN q /\ Tail(q)[j] = q[j + 1]
  <2> DEFINE r == Tail(q)
  <2>1. r \in Seq(S) /\ Len(r) = Len(q) - 1 /\ DOMAIN r = 1..Len(r)
    BY <1>2, <1>3
  <2>2. \A j \in DOMAIN r : r[j] = q[j + 1]
    BY <1>2, <1>3
  <2> HIDE DEF r
  <2>3. \A j \in DOMAIN r : j + 1 \in DOMAIN q
    BY <1>1, <2>1
  <2> QED
    BY <2>2, <2>3 DEF r
<1>5. 1 \in DOMAIN q /\ Head(q) = q[1]
  BY <1>1
<1>6. Behind(Tail(q), q)
  BY <1>4 DEF Behind
<1> QED
  BY <1>2, <1>4, <1>5, <1>6

\* What Append does to the elements of a sequence.
LEMMA AppendElements ==
  ASSUME NEW S, NEW s \in Seq(S), NEW x \in S
  PROVE  /\ Append(s, x) \in Seq(S)
         /\ \A i \in DOMAIN Append(s, x) :
              \/ i \in DOMAIN s /\ Append(s, x)[i] = s[i]
              \/ i = Len(s) + 1 /\ Append(s, x)[i] = x
<1>1. Len(s) \in Nat /\ DOMAIN s = 1..Len(s)
  BY LenProperties
<1>2. /\ Append(s, x) \in Seq(S) /\ Len(Append(s, x)) = Len(s) + 1
      /\ \A i \in 1..Len(s) : Append(s, x)[i] = s[i]
      /\ Append(s, x)[Len(s) + 1] = x
  BY AppendProperties
<1>3. DOMAIN Append(s, x) = 1..Len(Append(s, x))
  BY <1>2, LenProperties
<1> DEFINE t == Append(s, x)
<1>4. /\ DOMAIN t = 1..Len(s) + 1
      /\ \A i \in 1..Len(s) : t[i] = s[i]
      /\ t[Len(s) + 1] = x
  BY <1>2, <1>3
<1> HIDE DEF t
<1>5. \A i \in DOMAIN t :
        \/ i \in DOMAIN s /\ t[i] = s[i]
        \/ i = Len(s) + 1 /\ t[i] = x
  BY <1>1, <1>4
<1> QED
  BY <1>2, <1>5 DEF t

-----------------------------------------------------------------------------
\* The invariant.  OneTaker alone is not inductive: that the next line is beyond all
\* that were taken needs the queue to be in order, and that the line typed next is
\* beyond all needs a bound on what was typed so far.

\* What waits for the ends of p is in the order in which it was typed.
Queued(p) ==
  /\ \A j \in DOMAIN stdin[p] : stdin[p][j].n <= MaxLines - left[p]
  /\ \A j, k \in DOMAIN stdin[p] : j < k => stdin[p][j].n < stdin[p][k].n

TakenTyped(e) == \A i \in DOMAIN Taken(e) : Taken(e)[i] <= MaxLines - left[host[e]]

DInv ==
  /\ DTypeOK
  /\ \A p \in Programs : Queued(p)
  /\ \A e \in Ends : TakenTyped(e)
  /\ OneTaker

\* The initial states satisfy the invariant.
LEMMA DInitInv ==
  ASSUME Parameters, DInit
  PROVE  DInv
<1>1. DTypeOK
  BY DEF Parameters, DInit, DTypeOK, Lines, Typed
<1>2. \A e \in Ends : Taken(e) = <<>>
  <2>1. <<>> \in Seq(Lines)
    OBVIOUS
  <2>2. <<>> \o <<>> = <<>>
    BY <2>1, ConcatEmptySeq
  <2> QED
    BY <2>2 DEF DInit, Taken
<1>3. \A p \in Programs : stdin[p] = <<>>
  BY DEF DInit
<1>4. DOMAIN <<>> = {}
  OBVIOUS
<1> QED
  BY <1>1, <1>2, <1>3, <1>4 DEF DInv, Queued, TakenTyped, OneTaker, Increasing

\* What an end took is a sequence of lines.
LEMMA TakenType ==
  ASSUME DTypeOK, NEW e \in Ends
  PROVE  Taken(e) \in Seq(Lines)
<1>1. printed[e] \in Seq(Lines) /\ carried[e] \in Seq(Lines)
  BY DEF DTypeOK
<1> QED
  BY <1>1, ConcatProperties DEF Taken

\* The numbers that the invariant compares are integers.
LEMMA NumberTypes ==
  ASSUME Parameters, DTypeOK
  PROVE  /\ \A e \in Ends : host[e] \in Programs
         /\ \A p \in Programs : left[p] \in Int /\ stdin[p] \in Seq(Typed)
         /\ \A p \in Programs : \A j \in DOMAIN stdin[p] : j \in Int /\ stdin[p][j].n \in Int
         /\ \A e \in Ends : \A i \in DOMAIN Taken(e) : i \in Int /\ Taken(e)[i] \in Int
<1>1. ASSUME NEW p \in Programs, NEW j \in DOMAIN stdin[p]
      PROVE  j \in Int /\ stdin[p][j].n \in Int
  <2>1. stdin[p] \in Seq(Typed)
    BY DEF DTypeOK
  <2>2. Len(stdin[p]) \in Nat /\ DOMAIN stdin[p] = 1..Len(stdin[p])
    BY <2>1, LenProperties
  <2>3. stdin[p][j] \in Typed
    BY <2>1, <2>2, ElementOfSeq
  <2> QED
    BY <2>2, <2>3 DEF Typed, Lines, Parameters
<1>2. ASSUME NEW e \in Ends, NEW i \in DOMAIN Taken(e)
      PROVE  i \in Int /\ Taken(e)[i] \in Int
  <2>1. Taken(e) \in Seq(Lines)
    BY TakenType
  <2>2. Len(Taken(e)) \in Nat /\ DOMAIN Taken(e) = 1..Len(Taken(e))
    BY <2>1, LenProperties
  <2>3. Taken(e)[i] \in Lines
    BY <2>1, <2>2, ElementOfSeq
  <2> QED
    BY <2>2, <2>3 DEF Lines, Parameters
<1> QED
  BY <1>1, <1>2 DEF Parameters, DTypeOK

\* A step after which each end has taken a prefix of what it had taken, and each
\* queue is behind what it was, keeps the invariant.
LEMMA ShrinkKeeps ==
  ASSUME Parameters, DInv, DTypeOK', UNCHANGED left,
         \A e \in Ends : Prefix(Taken(e)', Taken(e)),
         \A p \in Programs : Behind(stdin[p]', stdin[p])
  PROVE  DInv'
<1>1. ASSUME NEW e \in Ends, NEW i \in DOMAIN Taken(e)'
      PROVE  i \in DOMAIN Taken(e) /\ Taken(e)'[i] = Taken(e)[i]
  <2>1. Taken(e) \in Seq(Lines) /\ Taken(e)' \in Seq(Lines)
    BY TakenType DEF DInv, Lines, DTypeOK, Taken
  <2> QED
    BY <2>1, PrefixElements
<1>2. \A e \in Ends : host[e] \in Programs
  BY DEF Parameters
<1>3. ASSUME NEW p \in Programs PROVE Queued(p)'
  <2>1. PICK k \in {0, 1} :
          \A j \in DOMAIN stdin[p]' :
            j + k \in DOMAIN stdin[p] /\ stdin[p]'[j] = stdin[p][j + k]
    BY DEF Behind
  <2>2. \A j \in DOMAIN stdin[p]' : j \in Int
    <3>1. stdin[p]' \in Seq(Typed)
      BY DEF DTypeOK, Typed, Lines
    <3> QED
      BY <3>1, LenProperties
  <2>3. Queued(p)
    BY DEF DInv
  <2>4. \A j \in DOMAIN stdin[p]' : stdin[p]'[j].n <= MaxLines - left[p]'
    BY <2>1, <2>3 DEF Queued
  <2>5. ASSUME NEW i \in DOMAIN stdin[p]', NEW j \in DOMAIN stdin[p]', i < j
        PROVE  stdin[p]'[i].n < stdin[p]'[j].n
    <3>1. i + k < j + k
      BY <2>2, <2>5
    <3>2. stdin[p][i + k].n < stdin[p][j + k].n
      BY <2>1, <2>3, <3>1 DEF Queued
    <3> QED
      BY <2>1, <3>2
  <2> QED
    BY <2>4, <2>5 DEF Queued
<1>4. ASSUME NEW e \in Ends PROVE TakenTyped(e)'
  <2>1. TakenTyped(e)
    BY DEF DInv
  <2>2. ASSUME NEW i \in DOMAIN Taken(e)'
        PROVE  Taken(e)'[i] <= MaxLines - left[host[e]]'
    BY <1>1, <2>1 DEF TakenTyped
  <2> QED
    BY <2>2 DEF TakenTyped
<1>5. OneTaker'
  <2>1. ASSUME NEW e \in Ends PROVE Increasing(Taken(e)')
    <3>1. Increasing(Taken(e))
      BY DEF DInv, OneTaker
    <3> QED
      BY <1>1, <3>1 DEF Increasing
  <2>2. ASSUME NEW e \in Ends, NEW i \in DOMAIN Taken(e)', NEW j \in DOMAIN stdin[host[e]]'
        PROVE  Taken(e)'[i] < stdin[host[e]]'[j].n
    <3>1. PICK k \in {0, 1} :
            j + k \in DOMAIN stdin[host[e]] /\ stdin[host[e]]'[j] = stdin[host[e]][j + k]
      BY <1>2 DEF Behind
    <3>2. Taken(e)[i] < stdin[host[e]][j + k].n
      BY <1>1, <3>1 DEF DInv, OneTaker
    <3> QED
      BY <1>1, <3>1, <3>2
  <2>3. ASSUME NEW e \in Ends, NEW f \in Ends \ {e}, host[f] = host[e],
               NEW i \in DOMAIN Taken(e)', NEW j \in DOMAIN Taken(f)'
        PROVE  Taken(e)'[i] # Taken(f)'[j]
    <3>1. Taken(e)[i] # Taken(f)[j]
      BY <1>1, <2>3 DEF DInv, OneTaker
    <3> QED
      BY <1>1, <3>1
  <2> QED
    BY <2>1, <2>2, <2>3 DEF OneTaker
<1> QED
  BY <1>3, <1>4, <1>5 DEF DInv

\* Every step keeps the types.
LEMMA DTypeStep ==
  ASSUME Parameters, DTypeOK, [DNext]_DVars
  PROVE  DTypeOK'
<1> USE DEF DTypeOK
<1>1. ASSUME NEW p \in Programs, NEW word \in Words, TypeLine(p, word)
      PROVE  DTypeOK'
  <2>1. left[p] \in 0..MaxLines /\ left[p] > 0 /\ MaxLines \in Nat
    BY <1>1 DEF TypeLine, Parameters
  <2>2. left' \in [Programs -> 0..MaxLines] /\ left'[p] = left[p] - 1
    BY <1>1, <2>1 DEF TypeLine
  <2> DEFINE new == [n |-> MaxLines - left'[p], word |-> word]
  <2>3. new \in Typed
    BY <2>1, <2>2 DEF Typed, Lines
  <2>4. stdin' = [stdin EXCEPT ![p] = Append(stdin[p], new)]
    BY <1>1 DEF TypeLine
  <2> HIDE DEF new
  <2>5. Append(stdin[p], new) \in Seq(Typed)
    BY <2>3, AppendElements
  <2>6. stdin' \in [Programs -> Seq(Typed)]
    BY <2>4, <2>5
  <2> QED
    BY <1>1, <2>2, <2>6 DEF TypeLine, Lines, Typed
<1>2. ASSUME NEW e \in Ends, TakeLine(e)
      PROVE  DTypeOK'
  <2>1. host[e] \in Programs /\ stdin[host[e]] \in Seq(Typed) /\ stdin[host[e]] # <<>>
    BY <1>2 DEF TakeLine, Parameters
  <2>2. Tail(stdin[host[e]]) \in Seq(Typed) /\ Head(stdin[host[e]]) \in Typed
    BY <2>1, BehindTail
  <2>3. stdin' \in [Programs -> Seq(Typed)]
    BY <1>2, <2>1, <2>2 DEF TakeLine
  <2>4. Append(carried[e], Head(stdin[host[e]]).n) \in Seq(Lines)
    BY <2>2, AppendElements DEF Typed
  <2>5. carried' \in [Ends -> Seq(Lines)]
    BY <1>2, <2>4 DEF TakeLine
  <2> QED
    BY <1>2, <2>3, <2>5 DEF TakeLine, Lines, Typed
<1>3. ASSUME NEW p \in Programs, TakeEnd(p)
      PROVE  DTypeOK'
  <2>1. Tail(stdin[p]) \in Seq(Typed)
    BY <1>3, BehindTail DEF TakeEnd
  <2>2. stdin' \in [Programs -> Seq(Typed)]
    BY <1>3, <2>1 DEF TakeEnd
  <2> QED
    BY <1>3, <2>2 DEF TakeEnd, Lines, Typed
<1>4. ASSUME NEW e \in Ends, PrintLine(e)
      PROVE  DTypeOK'
  <2>1. Append(printed[e], Head(carried[e])) \in Seq(Lines) /\ Tail(carried[e]) \in Seq(Lines)
    BY <1>4, MoveHead DEF PrintLine
  <2>2. printed' \in [Ends -> Seq(Lines)] /\ carried' \in [Ends -> Seq(Lines)]
    BY <1>4, <2>1 DEF PrintLine
  <2> QED
    BY <1>4, <2>2 DEF PrintLine, Lines, Typed
<1>5. ASSUME NEW e \in Ends, LoseLine(e)
      PROVE  DTypeOK'
  <2>1. SubSeq(carried[e], 1, Len(carried[e]) - 1) \in Seq(Lines)
    BY <1>5, CutSecond DEF LoseLine
  <2>2. carried' \in [Ends -> Seq(Lines)]
    BY <1>5, <2>1 DEF LoseLine
  <2> QED
    BY <1>5, <2>2 DEF LoseLine, Lines, Typed
<1>6. ASSUME EndSessions
      PROVE  DTypeOK'
  BY <1>6 DEF EndSessions, Lines, Typed
<1>7. ASSUME UNCHANGED DVars
      PROVE  DTypeOK'
  BY <1>7 DEF DVars, Lines, Typed
<1> QED
  BY <1>1, <1>2, <1>3, <1>4, <1>5, <1>6, <1>7, Zenon DEF DNext

\* A line that is typed is beyond all lines before it.
LEMMA TypeKeeps ==
  ASSUME Parameters, DInv, DTypeOK', NEW p \in Programs, NEW word \in Words, TypeLine(p, word)
  PROVE  DInv'
<1> DEFINE new == [n |-> MaxLines - left'[p], word |-> word]
<1>1. DTypeOK
  BY DEF DInv
<1>2. new.n = MaxLines - left[p] + 1 /\ new.n \in Int /\ left[p] \in Int /\ left'[p] = left[p] - 1
  BY <1>1 DEF TypeLine, DTypeOK, Parameters
<1>3. new \in Typed
  <2>1. left'[p] \in 0..MaxLines /\ left[p] \in 0..MaxLines /\ left'[p] = left[p] - 1
    BY <1>1, <1>2 DEF DTypeOK
  <2> QED
    BY <2>1 DEF Typed, Lines, Parameters
<1>4. /\ stdin' = [stdin EXCEPT ![p] = Append(stdin[p], new)]
      /\ left' = [left EXCEPT ![p] = left[p] - 1]
      /\ UNCHANGED <<carried, printed>>
  BY DEF TypeLine
<1> HIDE DEF new
<1>5. /\ stdin'[p] = Append(stdin[p], new)
      /\ \A q \in Programs \ {p} : stdin'[q] = stdin[q] /\ left'[q] = left[q]
  BY <1>1, <1>4 DEF DTypeOK
<1>6. \A j \in DOMAIN stdin'[p] :
        \/ j \in DOMAIN stdin[p] /\ stdin'[p][j] = stdin[p][j]
        \/ j = Len(stdin[p]) + 1 /\ stdin'[p][j] = new
  <2>1. stdin[p] \in Seq(Typed)
    BY <1>1 DEF DTypeOK
  <2> QED
    BY <1>3, <1>5, <2>1, AppendElements
<1>7. \A j \in DOMAIN stdin[p] : j < Len(stdin[p]) + 1 /\ stdin[p][j].n < new.n
  <2>1. Queued(p)
    BY DEF DInv
  <2>2. stdin[p] \in Seq(Typed)
    BY <1>1 DEF DTypeOK
  <2>3. Len(stdin[p]) \in Nat /\ DOMAIN stdin[p] = 1..Len(stdin[p])
    BY <2>2, LenProperties
  <2>4. \A j \in DOMAIN stdin[p] : stdin[p][j].n \in Int /\ stdin[p][j].n <= MaxLines - left[p]
    BY <1>1, <2>1, NumberTypes DEF Queued
  <2>5. MaxLines \in Int
    BY DEF Parameters
  <2> QED
    BY <1>2, <2>3, <2>4, <2>5
<1>8. ASSUME NEW e \in Ends PROVE Taken(e)' = Taken(e)
  BY <1>4 DEF Taken
<1>9. \A e \in Ends : host[e] \in Programs
  BY DEF Parameters
<1>10. ASSUME NEW q \in Programs PROVE Queued(q)'
  <2>1. Queued(q)
    BY DEF DInv
  <2>2. CASE q # p
    BY <1>5, <2>1, <2>2 DEF Queued
  <2>3. CASE q = p
    <3>1. ASSUME NEW j \in DOMAIN stdin'[p]
          PROVE  stdin'[p][j].n <= MaxLines - left'[p]
      <4>1. CASE j \in DOMAIN stdin[p] /\ stdin'[p][j] = stdin[p][j]
        <5>1. stdin[p][j].n \in Int /\ stdin[p][j].n <= MaxLines - left[p] /\ MaxLines \in Int
          BY <1>1, <2>1, <2>3, <4>1, NumberTypes DEF Queued, Parameters
        <5> QED
          BY <1>2, <4>1, <5>1
      <4>2. CASE stdin'[p][j] = new
        BY <1>2, <4>2 DEF Parameters
      <4> QED
        BY <1>6, <4>1, <4>2
    <3>2. ASSUME NEW i \in DOMAIN stdin'[p], NEW j \in DOMAIN stdin'[p], i < j
          PROVE  stdin'[p][i].n < stdin'[p][j].n
      <4>0. Len(stdin[p]) \in Nat /\ \A k \in DOMAIN stdin[p] : k \in Int
        BY <1>1, LenProperties, NumberTypes DEF DTypeOK
      <4>1. CASE i \in DOMAIN stdin[p] /\ stdin'[p][i] = stdin[p][i]
        BY <1>6, <1>7, <2>1, <2>3, <3>2, <4>1 DEF Queued
      <4>2. CASE i = Len(stdin[p]) + 1
        <5>1. ~(i < j)
          BY <1>6, <1>7, <4>0, <4>2
        <5> QED
          BY <3>2, <5>1
      <4> QED
        BY <1>6, <4>1, <4>2
    <3> QED
      BY <2>3, <3>1, <3>2 DEF Queued
  <2> QED
    BY <2>2, <2>3
<1>11. ASSUME NEW e \in Ends PROVE TakenTyped(e)'
  <2>1. TakenTyped(e)
    BY DEF DInv
  <2>2. ASSUME NEW i \in DOMAIN Taken(e)
        PROVE  Taken(e)[i] <= MaxLines - left'[host[e]]
    <3>1. Taken(e)[i] \in Int /\ Taken(e)[i] <= MaxLines - left[host[e]] /\ MaxLines \in Int
      BY <1>1, <2>1, NumberTypes DEF TakenTyped, Parameters
    <3>2. CASE host[e] = p
      BY <1>2, <3>1, <3>2
    <3>3. CASE host[e] # p
      BY <1>5, <1>9, <3>1, <3>3
    <3> QED
      BY <3>2, <3>3
  <2> QED
    BY <1>8, <2>2 DEF TakenTyped
<1>12. OneTaker'
  <2>1. ASSUME NEW e \in Ends, NEW i \in DOMAIN Taken(e), NEW j \in DOMAIN stdin'[host[e]]
        PROVE  Taken(e)[i] < stdin'[host[e]][j].n
    <3>1. CASE host[e] = p /\ stdin'[p][j] = new
      <4>1. Taken(e)[i] \in Int /\ Taken(e)[i] <= MaxLines - left[p] /\ MaxLines \in Int
        BY <1>1, <3>1, NumberTypes DEF DInv, TakenTyped, Parameters
      <4> QED
        BY <1>2, <3>1, <4>1
    <3>2. CASE host[e] = p /\ j \in DOMAIN stdin[p] /\ stdin'[p][j] = stdin[p][j]
      BY <3>2 DEF DInv, OneTaker
    <3>3. CASE host[e] # p
      BY <1>5, <1>9, <3>3 DEF DInv, OneTaker
    <3> QED
      BY <1>6, <3>1, <3>2, <3>3
  <2> QED
    BY <1>8, <2>1 DEF DInv, OneTaker
<1> QED
  BY <1>10, <1>11, <1>12 DEF DInv

\* A line that is taken is beyond all that were taken, and before all that wait.
LEMMA TakeKeeps ==
  ASSUME Parameters, DInv, DTypeOK', NEW e \in Ends, TakeLine(e)
  PROVE  DInv'
<1> DEFINE p == host[e]
           x == Head(stdin[p]).n
<1>1. DTypeOK
  BY DEF DInv
<1>2. /\ p \in Programs
      /\ stdin[p] \in Seq(Typed) /\ stdin[p] # <<>>
      /\ printed[e] \in Seq(Lines) /\ carried[e] \in Seq(Lines)
  BY <1>1 DEF TakeLine, Parameters, DTypeOK
<1>3. /\ Head(stdin[p]) \in Typed
      /\ 1 \in DOMAIN stdin[p] /\ Head(stdin[p]) = stdin[p][1]
      /\ \A j \in DOMAIN Tail(stdin[p]) :
           j + 1 \in DOMAIN stdin[p] /\ Tail(stdin[p])[j] = stdin[p][j + 1]
  BY <1>2, BehindTail
<1>4. x \in Lines /\ x = stdin[p][1].n /\ x \in Int
  BY <1>3 DEF Typed, Lines
<1>5. /\ stdin' = [stdin EXCEPT ![p] = Tail(stdin[p])]
      /\ carried' = [carried EXCEPT ![e] = Append(carried[e], x)]
      /\ UNCHANGED <<left, printed>>
  BY DEF TakeLine
<1> HIDE DEF p, x
<1>6. stdin'[p] = Tail(stdin[p]) /\ \A q \in Programs \ {p} : stdin'[q] = stdin[q]
  BY <1>1, <1>2, <1>5 DEF DTypeOK
<1>7. Taken(e)' = Append(Taken(e), x) /\ \A f \in Ends \ {e} : Taken(f)' = Taken(f)
  <2>1. carried'[e] = Append(carried[e], x) /\ \A f \in Ends \ {e} : carried'[f] = carried[f]
    BY <1>1, <1>5 DEF DTypeOK
  <2>2. printed[e] \o Append(carried[e], x) = Append(printed[e] \o carried[e], x)
    <3> DEFINE g == printed[e]
               c == carried[e]
    <3>1. g \in Seq(Lines) /\ c \in Seq(Lines) /\ x \in Lines
      BY <1>2, <1>4
    <3> HIDE DEF g, c
    <3>2. g \o Append(c, x) = Append(g \o c, x)
      BY <3>1, AppendToSecond, SMT
    <3> QED
      BY <3>2 DEF g, c
  <2>3. Taken(e)' = Append(Taken(e), x)
    BY <1>5, <2>1, <2>2 DEF Taken
  <2>4. \A f \in Ends \ {e} : Taken(f)' = Taken(f)
    BY <1>5, <2>1 DEF Taken
  <2> QED
    BY <2>3, <2>4
<1>8. \A i \in DOMAIN Taken(e)' :
        \/ i \in DOMAIN Taken(e) /\ Taken(e)'[i] = Taken(e)[i]
        \/ i = Len(Taken(e)) + 1 /\ Taken(e)'[i] = x
  <2>1. Taken(e) \in Seq(Lines)
    BY <1>1, TakenType
  <2> QED
    BY <1>4, <1>7, <2>1, AppendElements
<1>9. Len(Taken(e)) \in Nat /\ \A i \in DOMAIN Taken(e) : i < Len(Taken(e)) + 1
  <2>1. Taken(e) \in Seq(Lines)
    BY <1>1, TakenType
  <2>2. Len(Taken(e)) \in Nat /\ DOMAIN Taken(e) = 1..Len(Taken(e))
    BY <2>1, LenProperties
  <2> QED
    BY <2>2
<1>10. \A f \in Ends : host[f] = p => \A i \in DOMAIN Taken(f) : Taken(f)[i] < x
  BY <1>3, <1>4 DEF DInv, OneTaker
<1>11. \A q \in Programs : Behind(stdin'[q], stdin[q])
  <2>1. Behind(stdin'[p], stdin[p])
    BY <1>2, <1>6, BehindTail
  <2>2. ASSUME NEW q \in Programs \ {p}
        PROVE  Behind(stdin'[q], stdin[q])
    <3>1. stdin[q] \in Seq(Typed)
      BY <1>1 DEF DTypeOK
    <3> QED
      BY <1>6, <3>1, BehindReflexive
  <2> QED
    BY <2>1, <2>2
<1>12. \A j \in DOMAIN stdin'[p] : x < stdin'[p][j].n
  <2>1. ASSUME NEW j \in DOMAIN stdin'[p]
        PROVE  x < stdin'[p][j].n
    <3>1. j + 1 \in DOMAIN stdin[p] /\ stdin'[p][j] = stdin[p][j + 1]
      BY <1>3, <1>6
    <3>2. 1 < j + 1
      <4>1. Tail(stdin[p]) \in Seq(Typed)
        BY <1>2, BehindTail
      <4>2. DOMAIN stdin'[p] = 1..Len(stdin'[p]) /\ Len(stdin'[p]) \in Nat
        BY <1>6, <4>1, LenProperties
      <4> QED
        BY <4>2
    <3>3. Queued(p)
      BY <1>2 DEF DInv
    <3> QED
      BY <1>3, <1>4, <3>1, <3>2, <3>3 DEF Queued
  <2> QED
    BY <2>1
<1>13. ASSUME NEW q \in Programs PROVE Queued(q)'
  <2>1. Queued(q)
    BY DEF DInv
  <2>2. CASE q # p
    BY <1>5, <1>6, <2>1, <2>2 DEF Queued
  <2>3. CASE q = p
    <3>1. \A j \in DOMAIN stdin'[p] :
            j \in Int /\ j + 1 \in DOMAIN stdin[p] /\ stdin'[p][j] = stdin[p][j + 1]
      <4>1. Tail(stdin[p]) \in Seq(Typed)
        BY <1>2, BehindTail
      <4>2. DOMAIN stdin'[p] = 1..Len(stdin'[p]) /\ Len(stdin'[p]) \in Nat
        BY <1>6, <4>1, LenProperties
      <4> QED
        BY <1>3, <1>6, <4>2
    <3>2. \A j \in DOMAIN stdin'[p] : stdin'[p][j].n <= MaxLines - left'[p]
      BY <1>5, <2>1, <2>3, <3>1 DEF Queued
    <3>3. ASSUME NEW i \in DOMAIN stdin'[p], NEW j \in DOMAIN stdin'[p], i < j
          PROVE  stdin'[p][i].n < stdin'[p][j].n
      <4>1. i + 1 < j + 1
        BY <3>1, <3>3
      <4> QED
        BY <2>1, <2>3, <3>1, <4>1 DEF Queued
    <3> QED
      BY <2>3, <3>2, <3>3 DEF Queued
  <2> QED
    BY <2>2, <2>3
<1>14. ASSUME NEW f \in Ends PROVE TakenTyped(f)'
  <2>1. TakenTyped(f)
    BY DEF DInv
  <2>2. CASE f # e
    BY <1>5, <1>7, <2>1, <2>2 DEF TakenTyped
  <2>3. CASE f = e
    <3>1. x <= MaxLines - left[p]
      BY <1>2, <1>3, <1>4 DEF DInv, Queued
    <3>2. ASSUME NEW i \in DOMAIN Taken(e)'
          PROVE  Taken(e)'[i] <= MaxLines - left[p]
      BY <1>8, <2>1, <2>3, <3>1 DEF TakenTyped, p
    <3> QED
      BY <1>5, <2>3, <3>2 DEF TakenTyped, p
  <2> QED
    BY <2>2, <2>3
<1>15. ASSUME NEW f \in Ends PROVE Increasing(Taken(f)')
  <2>1. Increasing(Taken(f))
    BY DEF DInv, OneTaker
  <2>2. CASE f # e
    BY <1>7, <2>1, <2>2
  <2>3. CASE f = e
    <3>1. ASSUME NEW i \in DOMAIN Taken(e)', NEW j \in DOMAIN Taken(e)', i < j
          PROVE  Taken(e)'[i] < Taken(e)'[j]
      <4>1. CASE i \in DOMAIN Taken(e) /\ Taken(e)'[i] = Taken(e)[i]
        <5>1. Taken(e)[i] < x
          BY <1>10, <4>1 DEF p
        <5> QED
          BY <1>8, <2>1, <2>3, <3>1, <4>1, <5>1 DEF Increasing
      <4>2. CASE i = Len(Taken(e)) + 1
        <5>1. ~(i < j)
          BY <1>8, <1>9, <4>2
        <5> QED
          BY <3>1, <5>1
      <4> QED
        BY <1>8, <4>1, <4>2
    <3> QED
      BY <2>3, <3>1 DEF Increasing
  <2> QED
    BY <2>2, <2>3
<1>16. ASSUME NEW f \in Ends, NEW i \in DOMAIN Taken(f)', NEW j \in DOMAIN stdin'[host[f]]
       PROVE  Taken(f)'[i] < stdin'[host[f]][j].n
  <2>1. CASE f = e /\ Taken(e)'[i] = x
    BY <1>12, <2>1 DEF p
  <2>2. CASE i \in DOMAIN Taken(f) /\ Taken(f)'[i] = Taken(f)[i]
    <3>1. host[f] \in Programs
      BY DEF Parameters
    <3>2. PICK k \in {0, 1} :
            j + k \in DOMAIN stdin[host[f]] /\ stdin'[host[f]][j] = stdin[host[f]][j + k]
      BY <1>11, <3>1 DEF Behind
    <3>3. Taken(f)[i] < stdin[host[f]][j + k].n
      BY <2>2, <3>2 DEF DInv, OneTaker
    <3> QED
      BY <2>2, <3>2, <3>3
  <2> QED
    BY <1>7, <1>8, <2>1, <2>2
<1>17. ASSUME NEW f \in Ends, NEW g \in Ends \ {f}, host[g] = host[f],
              NEW i \in DOMAIN Taken(f)', NEW j \in DOMAIN Taken(g)'
       PROVE  Taken(f)'[i] # Taken(g)'[j]
  <2>1. CASE /\ i \in DOMAIN Taken(f) /\ Taken(f)'[i] = Taken(f)[i]
             /\ j \in DOMAIN Taken(g) /\ Taken(g)'[j] = Taken(g)[j]
    BY <1>17, <2>1 DEF DInv, OneTaker
  <2>2. CASE f = e /\ Taken(f)'[i] = x
    <3>1. Taken(g)'[j] = Taken(g)[j] /\ j \in DOMAIN Taken(g)
      BY <1>7, <2>2
    <3>2. Taken(g)[j] < x /\ Taken(g)[j] \in Int
      BY <1>1, <1>10, <1>17, <2>2, <3>1, NumberTypes DEF p
    <3> QED
      BY <1>4, <2>2, <3>1, <3>2
  <2>3. CASE g = e /\ Taken(g)'[j] = x
    <3>1. Taken(f)'[i] = Taken(f)[i] /\ i \in DOMAIN Taken(f)
      BY <1>7, <2>3
    <3>2. Taken(f)[i] < x /\ Taken(f)[i] \in Int
      BY <1>1, <1>10, <1>17, <2>3, <3>1, NumberTypes DEF p
    <3> QED
      BY <1>4, <2>3, <3>1, <3>2
  <2> QED
    BY <1>7, <1>8, <2>1, <2>2, <2>3
<1>18. OneTaker'
  BY <1>15, <1>16, <1>17 DEF OneTaker
<1> QED
  BY <1>13, <1>14, <1>18 DEF DInv

\* Every step keeps the invariant.
LEMMA DStepInv ==
  ASSUME Parameters, DInv, [DNext]_DVars
  PROVE  DInv'
<1>1. DTypeOK
  BY DEF DInv
<1>2. DTypeOK'
  BY <1>1, DTypeStep
<1>3. /\ \A e \in Ends : Prefix(Taken(e), Taken(e))
      /\ \A p \in Programs : Behind(stdin[p], stdin[p])
  BY <1>1, TakenType, PrefixReflexive, BehindReflexive DEF DTypeOK
<1>4. ASSUME NEW p \in Programs, TakeEnd(p)
      PROVE  DInv'
  <2>1. stdin[p] \in Seq(Typed) /\ stdin[p] # <<>>
    BY <1>1, <1>4 DEF TakeEnd, DTypeOK
  <2>2. stdin'[p] = Tail(stdin[p]) /\ \A q \in Programs \ {p} : stdin'[q] = stdin[q]
    BY <1>1, <1>4 DEF TakeEnd, DTypeOK
  <2>3. \A q \in Programs : Behind(stdin'[q], stdin[q])
    BY <1>3, <2>1, <2>2, BehindTail
  <2>4. \A e \in Ends : Taken(e)' = Taken(e)
    BY <1>4 DEF TakeEnd, Taken
  <2> QED
    BY <1>2, <1>3, <1>4, <2>3, <2>4, ShrinkKeeps DEF TakeEnd
<1>5. ASSUME NEW e \in Ends, PrintLine(e)
      PROVE  DInv'
  <2>1. printed[e] \in Seq(Lines) /\ carried[e] \in Seq(Lines) /\ carried[e] # <<>>
    BY <1>1, <1>5 DEF PrintLine, DTypeOK
  <2>2. /\ printed'[e] = Append(printed[e], Head(carried[e])) /\ carried'[e] = Tail(carried[e])
        /\ \A f \in Ends \ {e} : printed'[f] = printed[f] /\ carried'[f] = carried[f]
    BY <1>1, <1>5 DEF PrintLine, DTypeOK
  <2>3. Taken(e)' = Taken(e)
    <3>1. Append(printed[e], Head(carried[e])) \o Tail(carried[e]) = printed[e] \o carried[e]
      BY <2>1, MoveHead, Zenon
    <3> QED
      BY <2>2, <3>1, Zenon DEF Taken
  <2>4. \A f \in Ends \ {e} : Taken(f)' = Taken(f)
    BY <2>2 DEF Taken
  <2> QED
    BY <1>2, <1>3, <1>5, <2>3, <2>4, ShrinkKeeps DEF PrintLine
<1>6. ASSUME NEW e \in Ends, LoseLine(e)
      PROVE  DInv'
  <2>1. printed[e] \in Seq(Lines) /\ carried[e] \in Seq(Lines) /\ carried[e] # <<>>
    BY <1>1, <1>6 DEF LoseLine, DTypeOK
  <2>2. /\ printed' = printed
        /\ carried'[e] = SubSeq(carried[e], 1, Len(carried[e]) - 1)
        /\ \A f \in Ends \ {e} : carried'[f] = carried[f]
    BY <1>1, <1>6 DEF LoseLine, DTypeOK
  <2>3. Prefix(Taken(e)', Taken(e)) /\ \A f \in Ends \ {e} : Taken(f)' = Taken(f)
    BY <2>1, <2>2, CutSecond DEF Taken
  <2> QED
    BY <1>2, <1>3, <1>6, <2>3, ShrinkKeeps DEF LoseLine
<1>7. ASSUME EndSessions \/ UNCHANGED DVars
      PROVE  DInv'
  <2>1. UNCHANGED <<stdin, left, carried, printed>>
    BY <1>7 DEF EndSessions, DVars
  <2>2. \A e \in Ends : Taken(e)' = Taken(e)
    BY <2>1 DEF Taken
  <2> QED
    BY <1>2, <1>3, <2>1, <2>2, ShrinkKeeps
<1> QED
  BY <1>2, <1>4, <1>5, <1>6, <1>7, TypeKeeps, TakeKeeps DEF DNext

\* Whatever implements Delivery gives each line to one end at most and once, and
\* prints the lines of an end in the order in which they were typed.
THEOREM OneTakerHolds ==
  ASSUME Parameters
  PROVE  DSpec => []OneTaker
<1>1. DInit => DInv
  BY DInitInv
<1>2. DInv /\ [DNext]_DVars => DInv'
  BY DStepInv
<1>3. DInv => OneTaker
  BY DEF DInv
<1> QED
  BY <1>1, <1>2, <1>3, PTL DEF DSpec
=============================================================================
