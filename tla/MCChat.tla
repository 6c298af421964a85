------------------------------- MODULE MCChat -------------------------------
(***************************************************************************)
(* Instances of Chat for TLC.                                              *)
(***************************************************************************)
EXTENDS Chat

CONSTANT Talker   \* the dialer whose user types

\* Two sessions for the lines of the server's user, or one session in which both
\* users type as much as it takes to fill the network both ways.
Scenario ==
  \/ exited = {} /\ left = [p \in Programs |-> IF p = Server THEN MaxLines ELSE 0]
  \/ /\ exited = Conns \ {Talker}
     /\ left = [p \in Programs |-> IF p \in {Server, Talker} THEN MaxLines ELSE 0]

MCInit == Init /\ Scenario
MCSpec == MCInit /\ [][Next]_vars /\ Fairness

\* Two users who only ever type texts, over a network that does not break.
MCSilentSpec == Init /\ exited = {} /\ [][Next]_vars /\ Fairness
=============================================================================
