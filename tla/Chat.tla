-------------------------------- MODULE Chat --------------------------------
(***************************************************************************)
(* The chat that follows a handshake: interactiveChat of main.go over      *)
(* SecureChannel and the mutex of a DirectConn.  A connection c joins a    *)
(* `connect' program, named c, with the one server.  Each end has two      *)
(* goroutines: the reader, in Recv, and the typist, which takes lines from *)
(* the standard input of its program.  All typists of the server share     *)
(* one.  Both ends have one key, so a message is the number of its line.   *)
(* The standard input is a terminal: a read returns a line.                *)
(***************************************************************************)
EXTENDS Integers, Sequences, FiniteSets

CONSTANTS
  Conns,      \* the connections whose handshake returned a channel
  Server,     \* the program that accepts them
  Words,      \* what users type: a text, quit, or the end of the input
  MaxLines,   \* bound: how much a user types
  Capacity,   \* how many messages the network takes before a write blocks
  Breakable,  \* the connections that may break
  None        \* no line

ASSUME ChatAssumption ==
  /\ Server \notin Conns /\ None \notin Nat
  /\ Words \subseteq {"text", "quit", "eof"}
  /\ MaxLines \in Nat /\ Capacity \in Nat \ {0} /\ Breakable \subseteq Conns

Ends == Conns \X {"dialer", "acceptor"}
Peer(e) == <<e[1], IF e[2] = "dialer" THEN "acceptor" ELSE "dialer">>
Program(e) == IF e[2] = "dialer" THEN e[1] ELSE Server
Programs == Conns \cup {Server}
EndsOf(p) == {e \in Ends : Program(e) = p}

VARIABLES
  reader,   \* the step of the goroutine that receives
  typist,   \* the step of the goroutine that reads the standard input
  line,     \* the line a typist holds
  shut,     \* DirectConn.closed
  pipe,     \* messages on their way to each end
  broken,   \* connections that broke
  stdin,    \* what was typed to each program and not read yet
  left,     \* how many more lines the user of each program will type
  exited,   \* programs that ended
  got       \* history: the lines each end printed

vars == <<reader, typist, line, shut, pipe, broken, stdin, left, exited, got>>
session == <<shut, pipe, broken, got>>
user == <<stdin, left>>

\* Some dialers end before a handshake returns a channel.
Init ==
  /\ reader = [e \in Ends |-> "idle"] /\ typist = [e \in Ends |-> "idle"]
  /\ line = [e \in Ends |-> None]
  /\ shut = [e \in Ends |-> FALSE]
  /\ pipe = [e \in Ends |-> <<>>]
  /\ broken = {}
  /\ stdin = [p \in Programs |-> <<>>]
  /\ left \in [Programs -> 0..MaxLines]
  /\ exited \in SUBSET Conns
  /\ got = [e \in Ends |-> <<>>]

Alive(e) == Program(e) \notin exited
Broken(e) == e[1] \in broken
PeerGone(e) == shut[Peer(e)] \/ ~Alive(Peer(e))

-----------------------------------------------------------------------------
\* Mutant: Send writes without the mutex.
LockedByReader(e) == reader[e] = "read"

\* The mutex of the connection: Recv holds it while it waits for a message,
\* Send while it writes.
Locked(e) == reader[e] = "read" \/ typist[e] = "write"

Move(g, e, step) == [g EXCEPT ![e] = step]

\* Both handshakes returned a channel, and interactiveChat starts.
Open(c) ==
  /\ {c, Server} \cap exited = {}
  /\ reader[<<c, "dialer">>] = "idle"
  /\ reader' = [e \in Ends |-> IF e[1] = c THEN "recv" ELSE reader[e]]
  /\ typist' = [e \in Ends |-> IF e[1] = c THEN "scan" ELSE typist[e]]
  /\ UNCHANGED <<line, session, user, exited>>

\* The user types, as long as the program reads.
Type(p, word) ==
  /\ p \notin exited /\ left[p] > 0
  /\ \A i \in DOMAIN stdin[p] : stdin[p][i].word # "eof"
  /\ left' = [left EXCEPT ![p] = @ - 1]
  /\ stdin' = [stdin EXCEPT ![p] = Append(@, [n |-> MaxLines - left'[p], word |-> word])]
  /\ UNCHANGED <<reader, typist, line, session, exited>>

Break(c) ==
  /\ c \in Breakable \ broken /\ reader[<<c, "dialer">>] # "idle"
  /\ broken' = broken \cup {c}
  /\ UNCHANGED <<reader, typist, line, shut, pipe, user, exited, got>>

-----------------------------------------------------------------------------
\* The typist.

\* Mutant: every session reads every line.
ScanCopies(e) ==
  /\ typist[e] = "scan" /\ Alive(e)
  /\ stdin[Program(e)] # <<>> /\ Head(stdin[Program(e)]).word # "eof"
  /\ LET typedLine == Head(stdin[Program(e)]) IN
       /\ line' = Move(line, e, typedLine.n)
       /\ typist' = Move(typist, e, IF typedLine.word = "quit" THEN "quit" ELSE "send")
  /\ UNCHANGED <<reader, session, user, exited>>

\* scanner.Scan returns a line: of all typists of a program, one gets it.
Scan(e) ==
  /\ typist[e] = "scan" /\ Alive(e)
  /\ stdin[Program(e)] # <<>> /\ Head(stdin[Program(e)]).word # "eof"
  /\ LET typedLine == Head(stdin[Program(e)]) IN
       /\ line' = Move(line, e, typedLine.n)
       /\ typist' = Move(typist, e, IF typedLine.word = "quit" THEN "quit" ELSE "send")
  /\ stdin' = [stdin EXCEPT ![Program(e)] = Tail(@)]
  /\ UNCHANGED <<reader, left, session, exited>>

\* Mutant: the result of scanner.Scan is not looked at, and there is no line to send.
ScanEndsSends(e) ==
  /\ typist[e] = "scan" /\ Alive(e)
  /\ stdin[Program(e)] # <<>> /\ Head(stdin[Program(e)]).word = "eof"
  /\ typist' = Move(typist, e, "send")
  /\ UNCHANGED stdin \/ stdin' = [stdin EXCEPT ![Program(e)] = Tail(@)]
  /\ UNCHANGED <<reader, line, left, session, exited>>

\* The input has ended: for all typists of the program when it is closed, for
\* the one that reads when a user says so at a terminal.
ScanEnds(e) ==
  /\ typist[e] = "scan" /\ Alive(e)
  /\ stdin[Program(e)] # <<>> /\ Head(stdin[Program(e)]).word = "eof"
  /\ typist' = Move(typist, e, "gone")
  /\ UNCHANGED stdin \/ stdin' = [stdin EXCEPT ![Program(e)] = Tail(@)]
  /\ UNCHANGED <<reader, line, left, session, exited>>

\* Mutant: a Send that fails is logged and the typist goes on.
FailAndGoOn(e) ==
  /\ typist' = Move(typist, e, "scan")
  /\ line' = Move(line, e, None)
  /\ UNCHANGED <<reader, shut, pipe, broken, user, exited, got>>

\* Send returns an error, and the typist ends.
SendError(e) ==
  /\ typist' = Move(typist, e, "gone")
  /\ line' = Move(line, e, None)
  /\ UNCHANGED <<reader, shut, pipe, broken, user, exited, got>>

\* Send gets the mutex and looks at closed.
LockSend(e) ==
  /\ typist[e] = "send" /\ Alive(e) /\ ~Locked(e)
  /\ IF shut[e] THEN SendError(e)
     ELSE /\ typist' = Move(typist, e, "write")
          /\ UNCHANGED <<reader, line, session, user, exited>>

\* Mutant: the error of a write that finds no room is dropped.
WriteForgets(e) ==
  /\ typist[e] = "write" /\ Alive(e)
  /\ IF PeerGone(e) \/ Broken(e) \/ Len(pipe[Peer(e)]) = Capacity THEN UNCHANGED pipe
     ELSE pipe' = [pipe EXCEPT ![Peer(e)] = Append(@, line[e])]
  /\ typist' = Move(typist, e, "scan")
  /\ line' = Move(line, e, None)
  /\ UNCHANGED <<reader, shut, broken, user, exited, got>>

\* WriteMessage: what is written to a peer that is gone vanishes.
Write(e) ==
  /\ typist[e] = "write" /\ Alive(e)
  /\ IF PeerGone(e) \/ Broken(e) THEN UNCHANGED pipe
     ELSE /\ Len(pipe[Peer(e)]) < Capacity
          /\ pipe' = [pipe EXCEPT ![Peer(e)] = Append(@, line[e])]
  /\ typist' = Move(typist, e, "scan")
  /\ line' = Move(line, e, None)
  /\ UNCHANGED <<reader, shut, broken, user, exited, got>>

WriteFails(e) ==
  /\ typist[e] = "write" /\ Alive(e)
  /\ PeerGone(e) \/ Broken(e)
  /\ SendError(e)

\* channel.Close, then os.Exit(0): all sessions of the program end.
Quit(e) ==
  /\ typist[e] = "quit" /\ Alive(e) /\ ~Locked(e)
  /\ shut' = [shut EXCEPT ![e] = TRUE]
  /\ exited' = exited \cup {Program(e)}
  /\ UNCHANGED <<reader, typist, line, pipe, broken, user, got>>

-----------------------------------------------------------------------------
\* The reader.

\* Recv gets the mutex, looks at closed and sets the deadline.
LockRecv(e) ==
  /\ reader[e] = "recv" /\ Alive(e) /\ ~Locked(e)
  /\ reader' = Move(reader, e, IF shut[e] THEN "close" ELSE "read")
  /\ UNCHANGED <<typist, line, session, user, exited>>

ReadMessage(e) ==
  /\ reader[e] = "read" /\ Alive(e) /\ pipe[e] # <<>>
  /\ got' = [got EXCEPT ![e] = Append(@, Head(pipe[e]))]
  /\ pipe' = [pipe EXCEPT ![e] = Tail(@)]
  /\ reader' = Move(reader, e, "recv")
  /\ UNCHANGED <<typist, line, shut, broken, user, exited>>

\* Recv returns an error, and interactiveChat returns.  A reset may overtake
\* messages that arrived.
ReadEnds(e) ==
  /\ reader' = Move(reader, e, "close")
  /\ UNCHANGED <<typist, line, session, user, exited>>

ReadFails(e) ==
  /\ reader[e] = "read" /\ Alive(e)
  /\ Broken(e) \/ PeerGone(e)
  /\ ReadEnds(e)

\* Mutant: no read deadline.
NoDeadline(e) == FALSE

\* Five minutes without a message.
ReadTimeout(e) ==
  /\ reader[e] = "read" /\ Alive(e)
  /\ ReadEnds(e)

\* Mutant: the deferred Close is missing.
ReturnWithoutClose(e) ==
  /\ reader[e] = "close" /\ Alive(e) /\ ~Locked(e)
  /\ reader' = Move(reader, e, "done")
  /\ UNCHANGED <<typist, line, session, user, exited>>

\* The deferred channel.Close; a connect then returns from main.
CloseChannel(e) ==
  /\ reader[e] = "close" /\ Alive(e) /\ ~Locked(e)
  /\ reader' = Move(reader, e, "done")
  /\ shut' = [shut EXCEPT ![e] = TRUE]
  /\ exited' = IF e[2] = "dialer" THEN exited \cup {Program(e)} ELSE exited
  /\ UNCHANGED <<typist, line, pipe, broken, user, got>>

-----------------------------------------------------------------------------
Typing(e) == Scan(e) \/ ScanEnds(e) \/ LockSend(e) \/ Write(e) \/ WriteFails(e) \/ Quit(e)
Reading(e) ==
  LockRecv(e) \/ ReadMessage(e) \/ ReadFails(e) \/ ReadTimeout(e) \/ CloseChannel(e)

Next ==
  \/ \E c \in Conns : Open(c) \/ Break(c)
  \/ \E p \in Programs, word \in Words : Type(p, word)
  \/ \E e \in Ends : Typing(e) \/ Reading(e)

\* Every goroutine that can go on does, and five minutes pass.  (sync.Mutex hands
\* over to who has waited long, which is more.)
Fairness == \A e \in Ends : WF_vars(Typing(e)) /\ WF_vars(Reading(e))

Spec == Init /\ [][Next]_vars
FairSpec == Spec /\ Fairness
-----------------------------------------------------------------------------
\* The types of the variables; the numbers of the lines that are somewhere.
Lines == 1..MaxLines

TypeOK ==
  /\ reader \in [Ends -> {"idle", "recv", "read", "close", "done"}]
  /\ typist \in [Ends -> {"idle", "scan", "send", "write", "quit", "gone"}]
  /\ line \in [Ends -> Lines \cup {None}]
  /\ shut \in [Ends -> BOOLEAN]
  /\ pipe \in [Ends -> Seq(Lines)]
  /\ broken \subseteq Conns
  /\ stdin \in [Programs -> Seq([n : Lines, word : Words])]
  /\ left \in [Programs -> 0..MaxLines]
  /\ exited \subseteq Programs
  /\ got \in [Ends -> Seq(Lines)]

\* What the chat is in the terms of Delivery: an end carries what is on its way to
\* its peer and what its typist holds.
Held(e) == IF line[e] = None THEN <<>> ELSE <<line[e]>>

Host == [e \in Ends |-> Program(e)]
Carried == [e \in Ends |-> pipe[Peer(e)] \o Held(e)]
Printed == [e \in Ends |-> got[Peer(e)]]
Ended == {e \in Ends : shut[e] \/ PeerGone(e) \/ Broken(e)}

Promise ==
  INSTANCE Delivery WITH host <- Host, carried <- Carried, printed <- Printed, over <- Ended

\* main.go:624: an end that is closed takes at most one more line from its user: a
\* typist that has a line when its end closes, or takes one later, loses it and ends,
\* and is not back at the standard input.  (Before that a Send to a peer that is gone
\* may succeed, so that any number of lines is lost without an error.)
OneLateLine == [][\A e \in Ends : shut[e] /\ typist[e] # "scan" => typist'[e] # "scan"]_vars

\* main.go:617: however many sessions compete for the lines typed to a server,
\* every line is said to at most one peer and at most once, and each peer gets
\* its lines in the order in which they were typed.
EachLineOnce == Promise!OneTaker

\* main.go:617, 635: the chat implements Delivery: a line is taken by one session,
\* printed after the lines that session took before it, and lost only by a session
\* that is over or broken.
DeliverySpec == Promise!DSpec

-----------------------------------------------------------------------------
\* Both goroutines that type into a connection wait for room in a network that
\* is full both ways, each with the mutex that its reader needs to make room:
\* nothing but a third party ends that.
Full(e) == typist[e] = "write" /\ Len(pipe[Peer(e)]) = Capacity
Jammed(e) == Full(e) /\ Full(Peer(e))

\* direct.go:135, 150: nothing that the goroutines of a session may do ends a jam, no
\* deadline and no quit: it takes the end of a program or a break of the connection.
JamIsFinal ==
  [][\A e \in Ends :
       Jammed(e) /\ Alive(Peer(e)) /\ ~Broken(e) => ~Typing(e) /\ ~Reading(e)]_vars

\* direct.go:127: a Send returns, although the reader has the mutex nearly all
\* the time, unless both ends jam each other.
SendReturns ==
  \A e \in Ends :
    typist[e] \in {"send", "write"} ~> typist[e] \in {"scan", "gone"} \/ ~Alive(e) \/ Jammed(e)

\* Nobody reads what is typed to p.
Deaf(p) == \A e \in EndsOf(p) : typist[e] \in {"idle", "gone"} \/ Jammed(e)

\* main.go:620: a quit that was typed ends the program, whichever session reads
\* it and whoever has the mutex of that session.
QuitIsHeard ==
  \A p \in Programs :
    (\E i \in DOMAIN stdin[p] : stdin[p][i].word = "quit") ~> p \in exited \/ Deaf(p)

\* main.go:635: a session that is over at one end is over at both some time.
Over(e) == reader[e] # "idle" /\ (shut[e] \/ ~Alive(e))
EndSpreads ==
  \A c \in Conns :
    Over(<<c, "dialer">>) \/ Over(<<c, "acceptor">>)
      ~> Over(<<c, "dialer">>) /\ Over(<<c, "acceptor">>)

\* direct.go:126: "Send sends a message through the connection."  A line given
\* to Send in an open session, by users who never quit, over a network that does
\* not break, is sent.
LineIsSent ==
  \A e \in Ends : typist[e] = "send" /\ ~shut[e] ~> typist[e] = "scan"
=============================================================================
