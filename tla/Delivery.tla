------------------------------ MODULE Delivery ------------------------------
(***************************************************************************)
(* What the chat promises to those who type, whatever goroutines, mutexes  *)
(* and connections it is made of: each line typed to a program is taken by *)
(* one of its sessions, which prints its lines at its peer in the order in *)
(* which it took them.  Only a session that is over loses lines, and then  *)
(* the one it took last.                                                   *)
(***************************************************************************)
EXTENDS Integers, Sequences

CONSTANTS
  Ends,      \* the ends of the sessions
  Programs,  \* those who read a standard input
  host,      \* the program each end runs in
  Words,     \* what users type
  MaxLines   \* bound: how much a user types

VARIABLES
  stdin,     \* what was typed to each program and not taken yet
  left,      \* how many more lines the user of each program will type
  carried,   \* the lines each end took and its peer has not printed
  printed,   \* the lines of each end that its peer printed
  over       \* the ends whose session is over at one end, or broken

DVars == <<stdin, left, carried, printed, over>>

DInit ==
  /\ stdin = [p \in Programs |-> <<>>]
  /\ left \in [Programs -> 0..MaxLines]
  /\ carried = [e \in Ends |-> <<>>] /\ printed = [e \in Ends |-> <<>>]
  /\ over \subseteq Ends

TypeLine(p, word) ==
  /\ left[p] > 0
  /\ left' = [left EXCEPT ![p] = @ - 1]
  /\ stdin' = [stdin EXCEPT ![p] = Append(@, [n |-> MaxLines - left'[p], word |-> word])]
  /\ UNCHANGED <<carried, printed, over>>

\* Of all ends in a program, one gets its next line.
TakeLine(e) ==
  /\ stdin[host[e]] # <<>> /\ Head(stdin[host[e]]).word # "eof"
  /\ carried' = [carried EXCEPT ![e] = Append(@, Head(stdin[host[e]]).n)]
  /\ stdin' = [stdin EXCEPT ![host[e]] = Tail(@)]
  /\ UNCHANGED <<left, printed, over>>

TakeEnd(p) ==
  /\ stdin[p] # <<>> /\ Head(stdin[p]).word = "eof"
  /\ stdin' = [stdin EXCEPT ![p] = Tail(@)]
  /\ UNCHANGED <<left, carried, printed, over>>

PrintLine(e) ==
  /\ carried[e] # <<>>
  /\ printed' = [printed EXCEPT ![e] = Append(@, Head(carried[e]))]
  /\ carried' = [carried EXCEPT ![e] = Tail(@)]
  /\ UNCHANGED <<stdin, left, over>>

LoseLine(e) ==
  /\ e \in over /\ carried[e] # <<>>
  /\ carried' = [carried EXCEPT ![e] = SubSeq(@, 1, Len(@) - 1)]
  /\ UNCHANGED <<stdin, left, printed, over>>

\* A session that is over stays over.
EndSessions ==
  /\ over \subseteq over' /\ over' \subseteq Ends
  /\ UNCHANGED <<stdin, left, carried, printed>>

DNext ==
  \/ \E p \in Programs : TakeEnd(p) \/ \E word \in Words : TypeLine(p, word)
  \/ \E e \in Ends : TakeLine(e) \/ PrintLine(e) \/ LoseLine(e)
  \/ EndSessions

DSpec == DInit /\ [][DNext]_DVars
-----------------------------------------------------------------------------
Increasing(s) == \A i, j \in DOMAIN s : i < j => s[i] < s[j]

Taken(e) == printed[e] \o carried[e]

\* However many ends compete for the lines typed to a program, each line is taken by
\* one end at most and once, and each end takes and prints its lines in the order in
\* which they were typed.
OneTaker ==
  \A e \in Ends :
    /\ Increasing(Taken(e))
    /\ \A i \in DOMAIN Taken(e), j \in DOMAIN stdin[host[e]] :
         Taken(e)[i] < stdin[host[e]][j].n
    /\ \A f \in Ends \ {e} :
         host[f] = host[e] =>
           \A i \in DOMAIN Taken(e), j \in DOMAIN Taken(f) : Taken(e)[i] # Taken(f)[j]
=============================================================================
