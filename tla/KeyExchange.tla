---------------------------- MODULE KeyExchange ----------------------------
(***************************************************************************)
(* What phase 1 of the handshake promises, whatever the messages are.  The *)
(* dialing end of a connection obtains a key no other end holds; the other *)
(* end can then obtain that key and no other; an end that holds a key      *)
(* never changes it, and an end that gave up never obtains one.            *)
(***************************************************************************)
CONSTANTS Conns, RelayConns, None

VARIABLES
  key,      \* the key each end holds, or None
  failed    \* the ends that gave up

KXEnds == Conns \X {"A", "B"}
Holds(e) == key[e] # None

KXInit ==
  /\ key = [e \in KXEnds |-> None]
  /\ failed = {}

\* The end that dialled draws a key: a value no end has.
Draw(c) ==
  /\ c \notin RelayConns
  /\ <<c, "A">> \notin failed
  /\ ~Holds(<<c, "A">>)
  /\ \A e \in KXEnds : key'[<<c, "A">>] # key[e]
  /\ key' = [key EXCEPT ![<<c, "A">>] = key'[<<c, "A">>]]
  /\ UNCHANGED failed

\* The end that accepted takes over the key of the end that dialled.
Adopt(c) ==
  /\ <<c, "B">> \notin failed
  /\ Holds(<<c, "A">>) /\ ~Holds(<<c, "B">>)
  /\ key' = [key EXCEPT ![<<c, "B">>] = key[<<c, "A">>]]
  /\ UNCHANGED failed

GiveUp(e) ==
  /\ e \notin failed
  /\ failed' = failed \cup {e}
  /\ UNCHANGED key

KXNext ==
  \/ \E c \in Conns : Draw(c) \/ Adopt(c)
  \/ \E e \in KXEnds : GiveUp(e)

KXSpec == KXInit /\ [][KXNext]_<<key, failed>>
=============================================================================
