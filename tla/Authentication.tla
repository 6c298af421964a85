---------------------------- MODULE Authentication ----------------------------
(***************************************************************************)
(* What the identity phase promises, whatever the messages are: a channel  *)
(* for a session in which the peer has proved who it is, the program knows *)
(* that, and the program has proved who it is.  The one that dialled goes  *)
(* first.                                                                  *)
(***************************************************************************)
CONSTANT Sessions

VARIABLES
  dialers,   \* the sessions in which the program dialled
  proved,    \* the sessions whose peer is the one asked for and proved it
  verified,  \* the sessions in which the program knows that
  shown,     \* the sessions in which the program proved its own identity
  open,      \* the sessions that returned a channel
  over       \* the sessions that returned

AInit ==
  /\ dialers \subseteq Sessions
  /\ proved = {} /\ verified = {} /\ shown = {} /\ open = {} /\ over = {}

\* The second of the two proofs opens the channel.
Return(s) == open' = open \cup {s} /\ over' = over \cup {s}

Prove(s) ==
  /\ proved' = proved \cup {s}
  /\ UNCHANGED <<dialers, verified, shown, open, over>>

\* The program verifies the peer; an acceptor may then lose it.
Verify(s) ==
  /\ s \in proved \ over /\ s \notin verified
  /\ verified' = verified \cup {s}
  /\ IF s \in dialers THEN s \in shown /\ Return(s)
     ELSE s \notin shown /\ over' \in {over, over \cup {s}} /\ UNCHANGED open
  /\ UNCHANGED <<dialers, proved, shown>>

\* The program proves its own identity.
Show(s) ==
  /\ s \notin shown \cup over
  /\ shown' = shown \cup {s}
  /\ IF s \in dialers THEN s \notin verified /\ UNCHANGED <<open, over>>
     ELSE s \in verified /\ Return(s)
  /\ UNCHANGED <<dialers, proved, verified>>

GiveUp(s) ==
  /\ s \notin over
  /\ over' = over \cup {s}
  /\ UNCHANGED <<dialers, proved, verified, shown, open>>

ANext == \E s \in Sessions : Prove(s) \/ Verify(s) \/ Show(s) \/ GiveUp(s)

ASpec == AInit /\ [][ANext]_<<dialers, proved, verified, shown, open, over>>
===============================================================================
