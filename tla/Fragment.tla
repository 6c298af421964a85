------------------------------ MODULE Fragment ------------------------------
(***************************************************************************)
(* pkg/protocol/fragment.go without its concurrency: how a message becomes *)
(* packets, and what one iteration of the loop of ReceiveFragmented does   *)
(* to a FragmentBuffer.  A buffer is the set of stored fragments; the code *)
(* keys them by message ID and then by index.  A packet carries a part of  *)
(* the message `body'; which part is its index.                            *)
(***************************************************************************)
EXTENDS Integers, FiniteSets

CONSTANTS
  CleanAbove,    \* cleanup acts on more message IDs than this (100 in the code)
  CleanBelow     \* ... and stops when fewer than this are left (50 in the code)

ASSUME CleanupAssumption ==
  /\ CleanAbove \in Nat
  /\ CleanBelow \in 1 .. CleanAbove

MaxFragmentSize == 1400     \* what every caller passes to SendFragmented
MaxUint16 == 65536

\* What comes out of a reassembly whose parts are not those of one message.
Garbled == [kind |-> "garbled"]

\* Number of packets of a message of n bytes; the header field is a uint16.
FragmentTotal(n) ==
  IF n <= MaxFragmentSize THEN 1
  ELSE ((n + MaxFragmentSize - 1) \div MaxFragmentSize) % MaxUint16

\* The packets SendFragmented writes, in order.
Fragments(flag, body, n, id) ==
  [i \in 1 .. FragmentTotal(n) |->
     [flag |-> flag, index |-> i - 1, total |-> FragmentTotal(n),
      id |-> id, body |-> body]]

-----------------------------------------------------------------------------
PendingIDs(fb) == {f.id : f \in fb}

OfMessage(fb, id) == {f \in fb : f.id = id}

\* Mutant: a fragment at the same index is kept beside the new one.
StoredBeside(fb, p) == fb \cup {[id |-> p.id, index |-> p.index, body |-> p.body]}

\* The map assignment: a fragment replaces the one at the same ID and index.
Stored(fb, p) ==
  {f \in fb : f.id # p.id \/ f.index # p.index}
    \cup {[id |-> p.id, index |-> p.index, body |-> p.body]}

\* Mutant: the "remove all fragments" of the comment at line 189.
AfterCleanupOfAll(fb) == {fb, {}}

\* The buffers the cleanup step may leave.  It runs only when the timeout has
\* passed since the last one, so it may always be skipped; it deletes IDs in
\* map order, which is arbitrary, and looks at no age.
AfterCleanup(fb) ==
  {fb} \cup
  IF Cardinality(PendingIDs(fb)) <= CleanAbove THEN {}
  ELSE {{f \in fb : f.id \in kept} :
          kept \in {k \in SUBSET PendingIDs(fb) :
                      Cardinality(k) = CleanBelow - 1}}

\* Mutant: >= in place of ==.
CompleteAtLeast(fb, p) == Cardinality(OfMessage(fb, p.id)) % MaxUint16 >= p.total

\* The test is on the number of stored indices, not on which ones they are.
Complete(fb, p) == Cardinality(OfMessage(fb, p.id)) % MaxUint16 = p.total

\* Concatenation of the parts 0 .. total-1; an absent part adds nothing.
Reassembled(fb, p) ==
  LET parts == {f \in OfMessage(fb, p.id) : f.index < p.total}
      whole == {f \in parts : {g.index : g \in {h \in parts : h.body = f.body}}
                                = 0 .. p.total - 1}
  IN IF whole = {} THEN Garbled ELSE (CHOOSE f \in whole : TRUE).body
=============================================================================
