------------------------------ MODULE ChatProof ------------------------------
(***************************************************************************)
(* Proofs about Chat: its type invariant, that a closed end takes one    *)
(* more line at most, that a jam is final, that Chat implements Delivery,  *)
(* and that each line is said once and in order.                           *)
(***************************************************************************)
EXTENDS Chat, SequenceTheorems, TLAPS

Typed == [n : Lines, word : Words]

\* What the steps of the goroutines say about each other.  The two goroutines of an
\* end, and the two ends of a connection, start together; a typist holds a line
\* exactly while it has one to send or to obey.
Control ==
  \A e \in Ends :
    /\ reader[e] = "idle" <=> typist[e] = "idle"
    /\ reader[e] = "idle" => reader[Peer(e)] = "idle"
    /\ line[e] = None <=> typist[e] \in {"idle", "scan", "gone"}

-----------------------------------------------------------------------------
\* The two ends of a connection, and the programs they run in.
LEMMA EndFacts ==
  /\ \A e \in Ends : Peer(e) \in Ends /\ Peer(Peer(e)) = e /\ Peer(e) # e
  /\ \A e \in Ends : Program(e) \in Programs /\ e[1] \in Conns /\ Peer(e)[1] = e[1]
  /\ \A e, f \in Ends : e[1] = f[1] => f = e \/ f = Peer(e)
  /\ \A c \in Conns : <<c, "dialer">> \in Ends /\ <<c, "dialer">>[1] = c
  BY DEF Ends, Peer, Program, Programs

\* The function g is f except for its value x at k.
LEMMA ChangedAt ==
  ASSUME NEW S, NEW T, NEW f \in [S -> T], NEW k \in S, NEW x, NEW U, NEW g \in [S -> U],
         g[k] = x, \A j \in S \ {k} : g[j] = f[j]
  PROVE  g = [f EXCEPT ![k] = x]
  OBVIOUS

\* Two functions with one domain and the same values are one.
LEMMA SameFunction ==
  ASSUME NEW S, NEW T, NEW f \in [S -> T], NEW U, NEW g \in [S -> U],
         \A j \in S : g[j] = f[j]
  PROVE  g = f
  OBVIOUS

\* The types of what is put into a sequence, and of what is left of it.
LEMMA SeqTypes ==
  ASSUME NEW S, NEW s \in Seq(S)
  PROVE  /\ \A x \in S : Append(s, x) \in Seq(S)
         /\ s # <<>> => Head(s) \in S /\ Tail(s) \in Seq(S)
  BY AppendProperties, HeadTailProperties

-----------------------------------------------------------------------------
\* The type invariant.

LEMMA InitType == Init => TypeOK /\ Control
<1> SUFFICES ASSUME Init PROVE TypeOK /\ Control
  OBVIOUS
<1>1. TypeOK
  BY ChatAssumption DEF Init, TypeOK, Programs
<1>2. Control
  BY EndFacts DEF Init, Control
<1> QED
  BY <1>1, <1>2

\* A step of one typist, which moves to step and holds text then.
LEMMA TypistControl ==
  ASSUME TypeOK, Control, NEW e \in Ends, typist[e] # "idle",
         NEW step \in {"scan", "send", "write", "quit", "gone"},
         NEW text \in Lines \cup {None}, text = None <=> step \in {"scan", "gone"},
         typist' = Move(typist, e, step), line' = Move(line, e, text), UNCHANGED reader
  PROVE  /\ typist' \in [Ends -> {"idle", "scan", "send", "write", "quit", "gone"}]
         /\ line' \in [Ends -> Lines \cup {None}]
         /\ Control'
<1>1. /\ typist' \in [Ends -> {"idle", "scan", "send", "write", "quit", "gone"}]
      /\ line' \in [Ends -> Lines \cup {None}]
  BY DEF TypeOK, Move
<1>2. /\ typist'[e] = step /\ line'[e] = text
      /\ \A f \in Ends \ {e} : typist'[f] = typist[f] /\ line'[f] = line[f]
  BY DEF TypeOK, Move
<1>3. ASSUME NEW f \in Ends
      PROVE  /\ reader'[f] = "idle" <=> typist'[f] = "idle"
             /\ reader'[f] = "idle" => reader'[Peer(f)] = "idle"
             /\ line'[f] = None <=> typist'[f] \in {"idle", "scan", "gone"}
  <2>1. CASE f = e
    BY <1>2, <2>1 DEF Control
  <2>2. CASE f # e
    BY <1>2, <2>2 DEF Control
  <2> QED
    BY <2>1, <2>2
<1> QED
  BY <1>1, <1>3 DEF Control

\* A step of one reader.
LEMMA ReaderControl ==
  ASSUME TypeOK, Control, NEW e \in Ends, reader[e] # "idle",
         NEW step \in {"recv", "read", "close", "done"},
         reader' = Move(reader, e, step), UNCHANGED <<typist, line>>
  PROVE  /\ reader' \in [Ends -> {"idle", "recv", "read", "close", "done"}]
         /\ Control'
<1>1. reader' \in [Ends -> {"idle", "recv", "read", "close", "done"}]
  BY DEF TypeOK, Move
<1>2. reader'[e] = step /\ \A f \in Ends \ {e} : reader'[f] = reader[f]
  BY DEF TypeOK, Move
<1>3. ASSUME NEW f \in Ends
      PROVE  /\ reader'[f] = "idle" <=> typist'[f] = "idle"
             /\ reader'[f] = "idle" => reader'[Peer(f)] = "idle"
             /\ line'[f] = None <=> typist'[f] \in {"idle", "scan", "gone"}
  <2>1. CASE f = e
    BY <1>2, <2>1 DEF Control
  <2>2. CASE f # e
    <3>1. reader[f] = "idle" => Peer(f) # e
      BY EndFacts DEF Control
    <3> QED
      BY <1>2, <2>2, <3>1, EndFacts DEF Control
  <2> QED
    BY <2>1, <2>2
<1> QED
  BY <1>1, <1>3 DEF Control

\* SendError, from which ever step a Send fails.
LEMMA SendErrorType ==
  ASSUME TypeOK, Control, NEW e \in Ends, typist[e] # "idle", SendError(e)
  PROVE  TypeOK' /\ Control'
<1>1. /\ typist' = Move(typist, e, "gone") /\ line' = Move(line, e, None)
      /\ UNCHANGED <<reader, shut, pipe, broken, stdin, left, exited, got>>
  BY DEF SendError, user
<1>2. /\ typist' \in [Ends -> {"idle", "scan", "send", "write", "quit", "gone"}]
      /\ line' \in [Ends -> Lines \cup {None}]
      /\ Control'
  BY <1>1, TypistControl
<1> QED
  BY <1>1, <1>2 DEF TypeOK

\* A typist that moves, while nothing but its line and the standard input change.
LEMMA TypistType ==
  ASSUME TypeOK, Control, NEW e \in Ends, typist[e] # "idle",
         NEW step \in {"scan", "send", "write", "quit", "gone"},
         NEW text \in Lines \cup {None}, text = None <=> step \in {"scan", "gone"},
         typist' = Move(typist, e, step), line' = Move(line, e, text),
         stdin' \in [Programs -> Seq([n : Lines, word : Words])],
         pipe' \in [Ends -> Seq(Lines)],
         UNCHANGED <<reader, shut, broken, left, exited, got>>
  PROVE  TypeOK' /\ Control'
<1>1. /\ typist' \in [Ends -> {"idle", "scan", "send", "write", "quit", "gone"}]
      /\ line' \in [Ends -> Lines \cup {None}]
      /\ Control'
  BY TypistControl
<1> QED
  BY <1>1 DEF TypeOK

\* The line that a typist holds is moved to where it is already.
LEMMA HoldsOn ==
  ASSUME TypeOK, NEW e \in Ends, UNCHANGED line
  PROVE  line' = Move(line, e, line[e]) /\ line[e] \in Lines \cup {None}
  BY DEF TypeOK, Move

\* A typist that takes the head of the standard input.
LEMMA HeadType ==
  ASSUME TypeOK, NEW p \in Programs, stdin[p] # <<>>
  PROVE  /\ Head(stdin[p]) \in Typed /\ Head(stdin[p]).n \in Lines
         /\ [stdin EXCEPT ![p] = Tail(stdin[p])] \in [Programs -> Seq([n : Lines, word : Words])]
<1>1. stdin[p] \in Seq(Typed)
  BY DEF TypeOK, Typed
<1>2. Head(stdin[p]) \in Typed /\ Tail(stdin[p]) \in Seq(Typed)
  BY <1>1, SeqTypes
<1>3. Head(stdin[p]).n \in Lines
  BY <1>2 DEF Typed
<1> HIDE DEF Lines
<1> QED
  BY <1>2, <1>3 DEF TypeOK, Typed

\* No line has the number None, and None is not the number of a line.
LEMMA NoneIsNoLine == None \notin Lines
  BY ChatAssumption DEF Lines

LEMMA ScanType ==
  ASSUME TypeOK, Control, NEW e \in Ends, Scan(e)
  PROVE  TypeOK' /\ Control'
<1> DEFINE p == Program(e)
           step == IF Head(stdin[p]).word = "quit" THEN "quit" ELSE "send"
<1>1. p \in Programs /\ typist[e] = "scan" /\ stdin[p] # <<>>
  BY EndFacts DEF Scan
<1>2. /\ line' = Move(line, e, Head(stdin[p]).n)
      /\ typist' = Move(typist, e, step)
      /\ stdin' = [stdin EXCEPT ![p] = Tail(stdin[p])]
      /\ UNCHANGED <<reader, left, exited, shut, pipe, broken, got>>
  BY DEF Scan, session
<1>3. Head(stdin[p]).n \in Lines /\ stdin' \in [Programs -> Seq([n : Lines, word : Words])]
  BY <1>1, <1>2, HeadType
<1>4. step \in {"send", "quit"}
  OBVIOUS
<1>5. pipe' \in [Ends -> Seq(Lines)]
  BY <1>2 DEF TypeOK
<1> HIDE DEF p, step
<1> QED
  BY <1>1, <1>2, <1>3, <1>4, <1>5, TypistType, NoneIsNoLine

LEMMA ScanEndsType ==
  ASSUME TypeOK, Control, NEW e \in Ends, ScanEnds(e)
  PROVE  TypeOK' /\ Control'
<1> DEFINE p == Program(e)
<1>1. p \in Programs /\ typist[e] = "scan" /\ stdin[p] # <<>>
  BY EndFacts DEF ScanEnds
<1>2. /\ typist' = Move(typist, e, "gone")
      /\ stdin' = stdin \/ stdin' = [stdin EXCEPT ![p] = Tail(stdin[p])]
      /\ UNCHANGED <<reader, line, left, exited, shut, pipe, broken, got>>
  BY DEF ScanEnds, session
<1>3. stdin' \in [Programs -> Seq([n : Lines, word : Words])]
  BY <1>1, <1>2, HeadType DEF TypeOK
<1>4. pipe' \in [Ends -> Seq(Lines)]
  BY <1>2 DEF TypeOK
<1>5. line[e] = None /\ line' = Move(line, e, None)
  BY <1>1, <1>2, HoldsOn DEF Control
<1> HIDE DEF p
<1> QED
  BY <1>1, <1>2, <1>3, <1>4, <1>5, TypistType

LEMMA LockSendType ==
  ASSUME TypeOK, Control, NEW e \in Ends, LockSend(e)
  PROVE  TypeOK' /\ Control'
<1>1. typist[e] = "send"
  BY DEF LockSend
<1>2. CASE shut[e]
  BY <1>1, <1>2, SendErrorType DEF LockSend
<1>3. CASE ~shut[e]
  <2>1. /\ typist' = Move(typist, e, "write")
        /\ UNCHANGED <<reader, line, stdin, left, exited, shut, pipe, broken, got>>
    BY <1>3 DEF LockSend, session, user
  <2>2. /\ stdin' \in [Programs -> Seq([n : Lines, word : Words])]
        /\ pipe' \in [Ends -> Seq(Lines)]
    BY <2>1 DEF TypeOK
  <2>3. line[e] # None /\ line[e] \in Lines \cup {None} /\ line' = Move(line, e, line[e])
    BY <1>1, <2>1, HoldsOn DEF Control
  <2> QED
    BY <1>1, <2>1, <2>2, <2>3, TypistType
<1> QED
  BY <1>2, <1>3

LEMMA WriteType ==
  ASSUME TypeOK, Control, NEW e \in Ends, Write(e)
  PROVE  TypeOK' /\ Control'
<1>1. /\ typist[e] = "write"
      /\ typist' = Move(typist, e, "scan") /\ line' = Move(line, e, None)
      /\ UNCHANGED <<reader, shut, broken, stdin, left, exited, got>>
      /\ pipe' = pipe \/ pipe' = [pipe EXCEPT ![Peer(e)] = Append(pipe[Peer(e)], line[e])]
  BY DEF Write, user
<1>2. line[e] \in Lines
  BY <1>1 DEF Control, TypeOK
<1>3. Peer(e) \in Ends /\ pipe[Peer(e)] \in Seq(Lines)
  BY EndFacts DEF TypeOK
<1>4. Append(pipe[Peer(e)], line[e]) \in Seq(Lines)
  BY <1>2, <1>3, SeqTypes
<1>5. pipe' \in [Ends -> Seq(Lines)]
  BY <1>1, <1>3, <1>4 DEF TypeOK
<1>6. stdin' \in [Programs -> Seq([n : Lines, word : Words])]
  BY <1>1 DEF TypeOK
<1> QED
  BY <1>1, <1>5, <1>6, TypistType

LEMMA ReadType ==
  ASSUME TypeOK, Control, NEW e \in Ends,
         LockRecv(e) \/ ReadMessage(e) \/ ReadFails(e) \/ ReadTimeout(e)
  PROVE  TypeOK' /\ Control'
<1>1. CASE ReadMessage(e)
  <2>1. /\ reader[e] = "read" /\ pipe[e] # <<>>
        /\ got' = [got EXCEPT ![e] = Append(got[e], Head(pipe[e]))]
        /\ pipe' = [pipe EXCEPT ![e] = Tail(pipe[e])]
        /\ reader' = Move(reader, e, "recv")
        /\ UNCHANGED <<typist, line, shut, broken, stdin, left, exited>>
    BY <1>1 DEF ReadMessage, user
  <2>2. got[e] \in Seq(Lines) /\ pipe[e] \in Seq(Lines)
    BY DEF TypeOK
  <2>3. Append(got[e], Head(pipe[e])) \in Seq(Lines) /\ Tail(pipe[e]) \in Seq(Lines)
    BY <2>1, <2>2, SeqTypes
  <2>4. got' \in [Ends -> Seq(Lines)] /\ pipe' \in [Ends -> Seq(Lines)]
    BY <2>1, <2>3 DEF TypeOK
  <2>5. reader' \in [Ends -> {"idle", "recv", "read", "close", "done"}] /\ Control'
    BY <2>1, ReaderControl
  <2> QED
    BY <2>1, <2>4, <2>5 DEF TypeOK
<1>2. CASE LockRecv(e) \/ ReadFails(e) \/ ReadTimeout(e)
  <2>1. PICK step \in {"read", "close"} :
          /\ reader[e] # "idle" /\ reader' = Move(reader, e, step)
          /\ UNCHANGED <<typist, line, shut, pipe, broken, got, stdin, left, exited>>
    BY <1>2 DEF LockRecv, ReadFails, ReadTimeout, ReadEnds, session, user
  <2>2. reader' \in [Ends -> {"idle", "recv", "read", "close", "done"}] /\ Control'
    BY <2>1, ReaderControl
  <2> QED
    BY <2>1, <2>2 DEF TypeOK
<1> QED
  BY <1>1, <1>2

LEMMA CloseType ==
  ASSUME TypeOK, Control, NEW e \in Ends, Quit(e) \/ CloseChannel(e)
  PROVE  TypeOK' /\ Control'
<1>1. /\ shut' \in [Ends -> BOOLEAN]
      /\ exited' \subseteq Programs
      /\ UNCHANGED <<typist, line, pipe, broken, got, stdin, left>>
  BY EndFacts DEF TypeOK, Quit, CloseChannel, user
<1>2. CASE Quit(e)
  <2>1. UNCHANGED reader
    BY <1>2 DEF Quit
  <2> QED
    BY <1>1, <2>1 DEF TypeOK, Control
<1>3. CASE CloseChannel(e)
  <2>1. reader[e] # "idle" /\ reader' = Move(reader, e, "done")
    BY <1>3 DEF CloseChannel
  <2>2. reader' \in [Ends -> {"idle", "recv", "read", "close", "done"}] /\ Control'
    BY <1>1, <2>1, ReaderControl
  <2> QED
    BY <1>1, <2>2 DEF TypeOK
<1> QED
  BY <1>2, <1>3

LEMMA OpenType ==
  ASSUME TypeOK, Control, NEW c \in Conns, Open(c)
  PROVE  TypeOK' /\ Control'
<1>1. /\ reader' = [e \in Ends |-> IF e[1] = c THEN "recv" ELSE reader[e]]
      /\ typist' = [e \in Ends |-> IF e[1] = c THEN "scan" ELSE typist[e]]
      /\ reader[<<c, "dialer">>] = "idle"
      /\ UNCHANGED <<line, shut, pipe, broken, got, stdin, left, exited>>
  BY DEF Open, session, user
<1>2. \A e \in Ends : e[1] = c => typist[e] = "idle"
  BY <1>1, EndFacts DEF Control
<1>3. ASSUME NEW e \in Ends
      PROVE  /\ reader'[e] = "idle" <=> typist'[e] = "idle"
             /\ reader'[e] = "idle" => reader'[Peer(e)] = "idle"
             /\ line'[e] = None <=> typist'[e] \in {"idle", "scan", "gone"}
  <2>1. CASE e[1] = c
    BY <1>1, <1>2, <2>1 DEF Control
  <2>2. CASE e[1] # c
    BY <1>1, <2>2, EndFacts DEF Control
  <2> QED
    BY <2>1, <2>2
<1>4. TypeOK'
  BY <1>1 DEF TypeOK
<1> QED
  BY <1>3, <1>4 DEF Control

LEMMA TypeType ==
  ASSUME TypeOK, Control, NEW p \in Programs, NEW word \in Words, Type(p, word)
  PROVE  TypeOK' /\ Control'
<1> DEFINE new == [n |-> MaxLines - left'[p], word |-> word]
<1>1. /\ left[p] > 0
      /\ left' = [left EXCEPT ![p] = left[p] - 1]
      /\ stdin' = [stdin EXCEPT ![p] = Append(stdin[p], new)]
      /\ UNCHANGED <<reader, typist, line, shut, pipe, broken, got, exited>>
  BY DEF Type, session
<1>2. left[p] \in 0..MaxLines /\ MaxLines \in Nat
  BY ChatAssumption DEF TypeOK
<1>3. left' \in [Programs -> 0..MaxLines] /\ left'[p] = left[p] - 1
  BY <1>1, <1>2 DEF TypeOK
<1>4. new \in Typed
  BY <1>1, <1>2, <1>3 DEF Typed, Lines
<1> HIDE DEF new
<1>5. stdin[p] \in Seq(Typed)
  BY DEF TypeOK, Typed
<1>6. Append(stdin[p], new) \in Seq(Typed)
  BY <1>4, <1>5, SeqTypes
<1>7. stdin' \in [Programs -> Seq([n : Lines, word : Words])]
  BY <1>1, <1>6 DEF TypeOK, Typed
<1>8. Control'
  BY <1>1 DEF Control
<1> QED
  BY <1>1, <1>3, <1>7, <1>8 DEF TypeOK

LEMMA TypeStep ==
  ASSUME TypeOK, Control, [Next]_vars
  PROVE  TypeOK' /\ Control'
<1>1. ASSUME NEW c \in Conns, Break(c)
      PROVE  TypeOK' /\ Control'
  BY <1>1 DEF Break, TypeOK, Control, user
<1>2. ASSUME NEW e \in Ends, WriteFails(e)
      PROVE  TypeOK' /\ Control'
  BY <1>2, SendErrorType DEF WriteFails
<1>3. ASSUME UNCHANGED vars
      PROVE  TypeOK' /\ Control'
  BY <1>3 DEF vars, TypeOK, Control
<1>4. ASSUME NEW e \in Ends, Typing(e)
      PROVE  TypeOK' /\ Control'
  BY <1>2, <1>4, ScanType, ScanEndsType, LockSendType, WriteType, CloseType DEF Typing
<1>5. ASSUME NEW e \in Ends, Reading(e)
      PROVE  TypeOK' /\ Control'
  BY <1>5, ReadType, CloseType DEF Reading
<1> QED
  BY <1>1, <1>3, <1>4, <1>5, OpenType, TypeType DEF Next

\* main.go:608, direct.go:127: the goroutines of a session and the standard input are in
\* no state but those named; a line in the network or on a screen was typed.
THEOREM ChatTypeCorrect == Spec => []TypeOK
<1>1. Init => TypeOK /\ Control
  BY InitType
<1>2. TypeOK /\ Control /\ [Next]_vars => (TypeOK /\ Control)'
  BY TypeStep
<1> QED
  BY <1>1, <1>2, PTL DEF Spec

-----------------------------------------------------------------------------
\* What ends a session.

\* What ends a session is never undone.
LEMMA EndsForGood ==
  ASSUME TypeOK, [Next]_vars
  PROVE  /\ \A e \in Ends : shut[e] => shut'[e]
         /\ exited \subseteq exited' /\ broken \subseteq broken'
<1>1. ASSUME NEW c \in Conns, Open(c) \/ Break(c)
      PROVE  UNCHANGED <<shut, exited>> /\ broken \subseteq broken'
  BY <1>1 DEF Open, Break, session
<1>2. ASSUME NEW p \in Programs, NEW word \in Words, Type(p, word)
      PROVE  UNCHANGED <<shut, exited, broken>>
  BY <1>2 DEF Type, session
<1>3. ASSUME NEW e \in Ends, Typing(e), ~Quit(e)
      PROVE  UNCHANGED <<shut, exited, broken>>
  BY <1>3 DEF Typing, Scan, ScanEnds, LockSend, Write, WriteFails, SendError, session, user
<1>4. ASSUME NEW e \in Ends, Reading(e), ~CloseChannel(e)
      PROVE  UNCHANGED <<shut, exited, broken>>
  BY <1>4 DEF Reading, LockRecv, ReadMessage, ReadFails, ReadTimeout, ReadEnds, session, user
<1>5. ASSUME NEW e \in Ends, Quit(e) \/ CloseChannel(e)
      PROVE  /\ shut' = [shut EXCEPT ![e] = TRUE]
             /\ exited \subseteq exited' /\ UNCHANGED broken
  BY <1>5 DEF Quit, CloseChannel
<1>6. ASSUME UNCHANGED vars
      PROVE  UNCHANGED <<shut, exited, broken>>
  BY <1>6 DEF vars
<1>7. ASSUME NEW e \in Ends, shut' = [shut EXCEPT ![e] = TRUE], NEW f \in Ends, shut[f]
      PROVE  shut'[f]
  BY <1>7 DEF TypeOK
<1>8. CASE \E e \in Ends : Quit(e) \/ CloseChannel(e)
  BY <1>5, <1>7, <1>8
<1>9. CASE UNCHANGED <<shut, exited>> /\ broken \subseteq broken'
  BY <1>9
<1> QED
  BY <1>1, <1>2, <1>3, <1>4, <1>6, <1>8, <1>9 DEF Next

\* A session that is over stays over.
LEMMA EndedGrows ==
  ASSUME TypeOK, [Next]_vars
  PROVE  Ended \subseteq Ended'
<1>1. /\ \A e \in Ends : shut[e] => shut'[e]
      /\ exited \subseteq exited' /\ broken \subseteq broken'
  BY EndsForGood
<1>2. ASSUME NEW e \in Ended
      PROVE  e \in Ended'
  <2>1. e \in Ends /\ Peer(e) \in Ends
    BY EndFacts DEF Ended
  <2>2. CASE shut[e]
    BY <1>1, <2>1, <2>2 DEF Ended
  <2>3. CASE shut[Peer(e)]
    BY <1>1, <2>1, <2>3 DEF Ended, PeerGone
  <2>4. CASE ~Alive(Peer(e))
    BY <1>1, <2>1, <2>4 DEF Ended, PeerGone, Alive
  <2>5. CASE Broken(e)
    BY <1>1, <2>1, <2>5 DEF Ended, Broken
  <2> QED
    BY <2>2, <2>3, <2>4, <2>5 DEF Ended, PeerGone
<1> QED
  BY <1>2

\* A Send that returns an error does so in a session that is over, to a typist that
\* has not ended.
LEMMA SendErrorEnds ==
  ASSUME NEW e \in Ends, (LockSend(e) /\ shut[e]) \/ WriteFails(e)
  PROVE  e \in Ended /\ typist[e] \in {"send", "write"} /\ SendError(e)
  BY DEF LockSend, WriteFails, Ended

-----------------------------------------------------------------------------
\* The mutex of a session.

\* While a typist writes, its reader is in no read and its session is not shut: this is
\* what the mutex, held over all of Recv and all of Send, gives.
Mutex == \A e \in Ends : typist[e] = "write" => reader[e] # "read" /\ ~shut[e]

\* A step after which no more typists write, no more readers read and no more sessions
\* are shut than before keeps Mutex.
LEMMA MutexKept ==
  ASSUME Mutex,
         \A e \in Ends : /\ typist'[e] = "write" => typist[e] = "write"
                         /\ reader'[e] = "read" => reader[e] = "read"
                         /\ shut'[e] => shut[e]
  PROVE  Mutex'
  BY DEF Mutex

LEMMA MutexStep ==
  ASSUME TypeOK, Control, Mutex, [Next]_vars
  PROVE  Mutex'
<1>1. ASSUME NEW c \in Conns, Open(c)
      PROVE  Mutex'
  BY <1>1, MutexKept DEF Open, session
<1>2. ASSUME UNCHANGED <<reader, typist, shut>>
      PROVE  Mutex'
  BY <1>2, MutexKept
<1>3. ASSUME NEW c \in Conns, Break(c)
      PROVE  Mutex'
  BY <1>2, <1>3 DEF Break
<1>4. ASSUME NEW p \in Programs, NEW word \in Words, Type(p, word)
      PROVE  Mutex'
  BY <1>2, <1>4 DEF Type, session
<1>5. ASSUME NEW e \in Ends, NEW step \in {"scan", "send", "quit", "gone"},
             typist' = Move(typist, e, step), UNCHANGED <<reader, shut>>
      PROVE  Mutex'
  <2>1. \A f \in Ends : typist'[f] = "write" => typist[f] = "write"
    BY <1>5 DEF TypeOK, Move
  <2> QED
    BY <1>5, <2>1, MutexKept
<1>6. ASSUME NEW e \in Ends, LockSend(e), ~shut[e]
      PROVE  Mutex'
  <2>1. typist' = Move(typist, e, "write") /\ reader[e] # "read" /\ UNCHANGED <<reader, shut>>
    BY <1>6 DEF LockSend, Locked, session
  <2>2. \A f \in Ends \ {e} : typist'[f] = typist[f]
    BY <2>1 DEF TypeOK, Move
  <2> QED
    BY <1>6, <2>1, <2>2 DEF Mutex
<1>7. ASSUME NEW e \in Ends, Typing(e)
      PROVE  Mutex'
  <2>1. CASE Scan(e)
    BY <1>5, <2>1 DEF Scan, session
  <2>2. CASE ScanEnds(e)
    BY <1>5, <2>2 DEF ScanEnds, session
  <2>3. CASE LockSend(e)
    BY <1>5, <1>6, <2>3 DEF LockSend, SendError
  <2>4. CASE Write(e)
    BY <1>5, <2>4 DEF Write
  <2>5. CASE WriteFails(e)
    BY <1>5, <2>5 DEF WriteFails, SendError
  <2>6. CASE Quit(e)
    <3>1. typist[e] = "quit" /\ UNCHANGED <<reader, typist>>
      BY <2>6 DEF Quit
    <3>2. \A f \in Ends \ {e} : shut'[f] = shut[f]
      BY <2>6 DEF Quit, TypeOK
    <3> QED
      BY <3>1, <3>2 DEF Mutex
  <2> QED
    BY <1>7, <2>1, <2>2, <2>3, <2>4, <2>5, <2>6 DEF Typing
<1>8. ASSUME NEW e \in Ends, Reading(e)
      PROVE  Mutex'
  <2>1. CASE LockRecv(e)
    <3>1. typist[e] # "write" /\ UNCHANGED <<typist, shut>>
      BY <2>1 DEF LockRecv, Locked, session
    <3>2. \A f \in Ends \ {e} : reader'[f] = reader[f]
      BY <2>1 DEF LockRecv, TypeOK, Move
    <3> QED
      BY <3>1, <3>2 DEF Mutex
  <2>2. CASE ReadMessage(e) \/ ReadFails(e) \/ ReadTimeout(e)
    <3>1. PICK step \in {"recv", "close"} : reader' = Move(reader, e, step)
      BY <2>2 DEF ReadMessage, ReadFails, ReadTimeout, ReadEnds
    <3>2. UNCHANGED <<typist, shut>>
      BY <2>2 DEF ReadMessage, ReadFails, ReadTimeout, ReadEnds, session
    <3>3. \A f \in Ends : reader'[f] = "read" => reader[f] = "read"
      BY <3>1 DEF TypeOK, Move
    <3> QED
      BY <3>2, <3>3, MutexKept
  <2>3. CASE CloseChannel(e)
    <3>1. typist[e] # "write" /\ UNCHANGED typist
      BY <2>3 DEF CloseChannel, Locked
    <3>2. \A f \in Ends \ {e} : reader'[f] = reader[f] /\ shut'[f] = shut[f]
      BY <2>3 DEF CloseChannel, TypeOK, Move
    <3> QED
      BY <3>1, <3>2 DEF Mutex
  <2> QED
    BY <1>8, <2>1, <2>2, <2>3 DEF Reading
<1>9. ASSUME UNCHANGED vars
      PROVE  Mutex'
  BY <1>2, <1>9 DEF vars
<1> QED
  BY <1>1, <1>3, <1>4, <1>7, <1>8, <1>9 DEF Next

\* Who waits in a write, opposite a peer that waits in a write, has no step.
LEMMA JamStops ==
  ASSUME TypeOK, Mutex, NEW e \in Ends, Jammed(e), Alive(Peer(e)), ~Broken(e)
  PROVE  ~Typing(e) /\ ~Reading(e)
<1>1. Peer(e) \in Ends /\ Peer(Peer(e)) = e
  BY EndFacts
<1>2. /\ typist[e] = "write" /\ typist[Peer(e)] = "write"
      /\ Len(pipe[Peer(e)]) = Capacity
  BY DEF Jammed, Full
<1>3. reader[e] # "read" /\ ~shut[Peer(e)]
  BY <1>1, <1>2 DEF Mutex
<1>4. ~(PeerGone(e) \/ Broken(e)) /\ Locked(e)
  BY <1>2, <1>3 DEF PeerGone, Locked
<1>5. ~Write(e) /\ ~WriteFails(e)
  BY <1>2, <1>4, ChatAssumption DEF Write, WriteFails
<1>6. ~Scan(e) /\ ~ScanEnds(e) /\ ~LockSend(e) /\ ~Quit(e)
  BY <1>2 DEF Scan, ScanEnds, LockSend, Quit
<1>7. ~Reading(e)
  BY <1>3, <1>4 DEF Reading, LockRecv, ReadMessage, ReadFails, ReadTimeout, CloseChannel
<1> QED
  BY <1>5, <1>6, <1>7 DEF Typing

\* direct.go:135: whatever the number of sessions and the room in the network, two ends
\* that jam each other take no step until a program ends or the connection breaks.
THEOREM JamIsFinalHolds == Spec => JamIsFinal
<1>1. Init => TypeOK /\ Control
  BY InitType
<1>2. Init => Mutex
  BY DEF Init, Mutex
<1>3. TypeOK /\ Control /\ [Next]_vars => (TypeOK /\ Control)'
  BY TypeStep
<1>4. TypeOK /\ Control /\ Mutex /\ [Next]_vars => Mutex'
  BY MutexStep
<1> DEFINE NoStep ==
      \A e \in Ends : Jammed(e) /\ Alive(Peer(e)) /\ ~Broken(e) => ~Typing(e) /\ ~Reading(e)
<1>5. TypeOK /\ Mutex => NoStep
  BY JamStops
<1>6. TypeOK /\ Mutex => [NoStep]_vars
  BY <1>5
<1> QED
  BY <1>1, <1>2, <1>3, <1>4, <1>6, PTL DEF Spec, JamIsFinal

-----------------------------------------------------------------------------
\* What an end that is closed takes from its user.

\* Only an end whose goroutines run is closed.
Started == \A e \in Ends : shut[e] => typist[e] # "idle"

\* The steps that do not move a typist.
LEMMA TypistsStay ==
  ASSUME [Next]_vars, \A c \in Conns : ~Open(c), \A e \in Ends : ~Typing(e)
  PROVE  UNCHANGED typist
<1>1. ASSUME NEW e \in Ends, Reading(e)
      PROVE  UNCHANGED typist
  BY <1>1
  DEF Reading, LockRecv, ReadMessage, ReadFails, ReadTimeout, ReadEnds, CloseChannel, session
<1>2. ASSUME NEW c \in Conns, Break(c)
      PROVE  UNCHANGED typist
  BY <1>2 DEF Break
<1>3. ASSUME NEW p \in Programs, NEW word \in Words, Type(p, word)
      PROVE  UNCHANGED typist
  BY <1>3 DEF Type
<1> QED
  BY <1>1, <1>2, <1>3 DEF Next, vars

\* A typist that was started is not idle again, and one that has a line, or has ended,
\* comes back to the standard input by a Write alone.
LEMMA TypistMoves ==
  ASSUME TypeOK, Control, [Next]_vars, NEW e \in Ends, typist[e] # "idle"
  PROVE  /\ typist'[e] # "idle"
         /\ typist[e] # "scan" /\ typist'[e] = "scan" =>
              Write(e) /\ typist[e] = "write"
<1>1. ASSUME NEW c \in Conns, Open(c)
      PROVE  typist'[e] = typist[e]
  <2>1. e[1] # c
    BY <1>1, EndFacts DEF Open, Control
  <2> QED
    BY <1>1, <2>1 DEF Open
<1>2. ASSUME NEW f \in Ends, Typing(f), f # e
      PROVE  typist'[e] = typist[e]
  BY <1>2
  DEF Typing, Scan, ScanEnds, LockSend, Write, WriteFails, SendError, Quit, TypeOK, Move
<1>3. CASE Typing(e)
  <2>1. CASE Scan(e) \/ ScanEnds(e)
    BY <2>1 DEF Scan, ScanEnds, TypeOK, Move
  <2>2. CASE LockSend(e) \/ WriteFails(e)
    BY <2>2 DEF LockSend, WriteFails, SendError, TypeOK, Move
  <2>3. CASE Write(e)
    BY <2>3 DEF Write, TypeOK, Move
  <2>4. CASE Quit(e)
    BY <2>4 DEF Quit
  <2> QED
    BY <1>3, <2>1, <2>2, <2>3, <2>4 DEF Typing
<1>4. CASE UNCHANGED typist
  BY <1>4
<1> QED
  BY <1>1, <1>2, <1>3, <1>4, TypistsStay

\* An end is closed by itself alone.
LEMMA ClosesItself ==
  ASSUME TypeOK, [Next]_vars, NEW e \in Ends, shut'[e], ~shut[e]
  PROVE  Quit(e) \/ CloseChannel(e)
<1>1. ASSUME NEW c \in Conns, Open(c) \/ Break(c)
      PROVE  UNCHANGED shut
  BY <1>1 DEF Open, Break, session
<1>2. ASSUME NEW p \in Programs, NEW word \in Words, Type(p, word)
      PROVE  UNCHANGED shut
  BY <1>2 DEF Type, session
<1>3. ASSUME NEW f \in Ends, Typing(f), ~Quit(f)
      PROVE  UNCHANGED shut
  BY <1>3 DEF Typing, Scan, ScanEnds, LockSend, Write, WriteFails, SendError, session
<1>4. ASSUME NEW f \in Ends, Reading(f), ~CloseChannel(f)
      PROVE  UNCHANGED shut
  BY <1>4 DEF Reading, LockRecv, ReadMessage, ReadFails, ReadTimeout, ReadEnds, session
<1>5. ASSUME NEW f \in Ends, Quit(f) \/ CloseChannel(f), f # e
      PROVE  shut'[e] = shut[e]
  BY <1>5 DEF Quit, CloseChannel, TypeOK
<1> QED
  BY <1>1, <1>2, <1>3, <1>4, <1>5 DEF Next, vars

LEMMA StartedStep ==
  ASSUME TypeOK, Control, Started, [Next]_vars
  PROVE  Started'
<1> SUFFICES ASSUME NEW e \in Ends, shut'[e]
             PROVE  typist[e] # "idle"
  BY TypistMoves DEF Started
<1>1. CASE shut[e]
  BY <1>1 DEF Started
<1>2. CASE ~shut[e]
  <2>1. Quit(e) \/ CloseChannel(e)
    BY <1>2, ClosesItself
  <2> QED
    BY <2>1 DEF Quit, CloseChannel, Control
<1> QED
  BY <1>1, <1>2

\* main.go:624: an end that is closed takes at most one more line, for any number of
\* sessions: the mutex keeps Close out of a write, so that the line which a typist has
\* when its end closes is not sent, and its Send ends it.
THEOREM OneLateLineHolds == Spec => OneLateLine
<1> DEFINE NotBack == \A e \in Ends : shut[e] /\ typist[e] # "scan" => typist'[e] # "scan"
<1>1. Init => TypeOK /\ Control
  BY InitType
<1>2. Init => Mutex /\ Started
  BY DEF Init, Mutex, Started
<1>3. TypeOK /\ Control /\ [Next]_vars => (TypeOK /\ Control)'
  BY TypeStep
<1>4. TypeOK /\ Control /\ Mutex /\ [Next]_vars => Mutex'
  BY MutexStep
<1>5. TypeOK /\ Control /\ Started /\ [Next]_vars => Started'
  BY StartedStep
<1>6. TypeOK /\ Control /\ Mutex /\ Started /\ [Next]_vars => [NotBack]_vars
  BY TypistMoves DEF Mutex, Started
<1> QED
  BY <1>1, <1>2, <1>3, <1>4, <1>5, <1>6, PTL DEF Spec, OneLateLine

-----------------------------------------------------------------------------
\* The chat implements Delivery.
D == INSTANCE DeliveryProof
       WITH host <- Host, carried <- Carried, printed <- Printed, over <- Ended

\* The types of what Delivery sees of the chat.
Mapped ==
  /\ Carried \in [Ends -> Seq(Lines)]
  /\ Printed \in [Ends -> Seq(Lines)]
  /\ Ended \subseteq Ends
  /\ \A e \in Ends : /\ Carried[e] = pipe[Peer(e)] \o Held(e)
                     /\ Printed[e] = got[Peer(e)]
                     /\ pipe[Peer(e)] \in Seq(Lines) /\ Held(e) \in Seq(Lines)

LEMMA MappedTypes == TypeOK => Mapped
<1> SUFFICES ASSUME TypeOK PROVE Mapped
  OBVIOUS
<1>1. ASSUME NEW e \in Ends
      PROVE  /\ pipe[Peer(e)] \in Seq(Lines) /\ got[Peer(e)] \in Seq(Lines)
             /\ Held(e) \in Seq(Lines)
             /\ pipe[Peer(e)] \o Held(e) \in Seq(Lines)
  <2>1. pipe[Peer(e)] \in Seq(Lines) /\ got[Peer(e)] \in Seq(Lines)
    BY EndFacts DEF TypeOK
  <2>2. Held(e) \in Seq(Lines)
    <3>1. CASE line[e] = None
      BY <3>1 DEF Held
    <3>2. CASE line[e] # None
      <4>1. line[e] \in Lines
        BY <3>2 DEF TypeOK
      <4> HIDE DEF Lines
      <4> QED
        BY <3>2, <4>1 DEF Held
    <3> QED
      BY <3>1, <3>2
  <2>3. pipe[Peer(e)] \o Held(e) \in Seq(Lines)
    BY <2>1, <2>2, ConcatProperties
  <2> QED
    BY <2>1, <2>2, <2>3
<1>2. Ended \subseteq Ends
  BY DEF Ended
<1> QED
  BY <1>1, <1>2 DEF Mapped, Carried, Printed

LEMMA MappedNext == TypeOK' => Mapped'
  BY MappedTypes, PTL

\* The program each end runs in.
LEMMA HostFacts == Host \in [Ends -> Programs] /\ \A e \in Ends : Host[e] = Program(e)
  BY EndFacts DEF Host

\* A value that is held behind a sequence, and then lost.
LEMMA HeldLost ==
  ASSUME NEW S, NEW p \in Seq(S), NEW x \in S,
         NEW c, c = p \o <<x>>, NEW d, d = p \o <<>>
  PROVE  c # <<>> /\ d = SubSeq(c, 1, Len(c) - 1)
<1>1. d = p
  BY ConcatEmptySeq
<1>2. /\ c = Append(p, x) /\ c \in Seq(S) /\ c # <<>> /\ Len(c) = Len(p) + 1
      /\ \A i \in 1..Len(p) : c[i] = p[i]
  <2>1. c = Append(p, x)
    BY AppendIsConcat
  <2> QED
    BY <2>1, AppendProperties
<1>3. Len(p) \in Nat /\ Len(c) - 1 = Len(p)
  BY <1>2, LenProperties
<1> DEFINE front == SubSeq(c, 1, Len(p))
<1>4. \A i \in 1..Len(p) : c[i] \in S
  BY <1>2, <1>3, ElementOfSeq
<1>5. /\ front \in Seq(S)
      /\ Len(front) = IF 1 <= Len(p) THEN Len(p) - 1 + 1 ELSE 0
      /\ \A i \in 1..Len(p) - 1 + 1 : front[i] = c[1 + i - 1]
  BY <1>3, <1>4, SubSeqProperties
<1> HIDE DEF front
<1>6. Len(front) = Len(p)
  BY <1>3, <1>5
<1>7. ASSUME NEW i \in 1..Len(p)
      PROVE  front[i] = p[i]
  <2>1. i \in 1..Len(p) - 1 + 1 /\ 1 + i - 1 = i
    BY <1>3
  <2>2. front[i] = c[i]
    BY <1>5, <2>1, Zenon
  <2> QED
    BY <1>2, <2>2, Zenon
<1>8. front = p
  BY <1>5, <1>6, <1>7, SeqEqual, Zenon
<1> QED
  BY <1>1, <1>2, <1>3, <1>8 DEF front

\* A value that is taken and held behind a sequence.
LEMMA HeldTaken ==
  ASSUME NEW S, NEW p \in Seq(S), NEW x \in S,
         NEW c, c = p \o <<>>, NEW d, d = p \o <<x>>
  PROVE  d = Append(c, x)
<1>1. c = p
  BY ConcatEmptySeq
<1>2. d = Append(p, x)
  BY AppendIsConcat
<1> QED
  BY <1>1, <1>2

\* A value that is held behind a sequence, and then appended to it.
LEMMA HeldWritten ==
  ASSUME NEW S, NEW p \in Seq(S), NEW x \in S,
         NEW c, c = p \o <<x>>, NEW d, d = Append(p, x) \o <<>>
  PROVE  d = c
<1>1. Append(p, x) \in Seq(S)
  BY AppendProperties
<1>2. d = Append(p, x)
  BY <1>1, ConcatEmptySeq
<1> QED
  BY <1>2, AppendIsConcat

\* The head of two sequences is the head of the first.
LEMMA HeadRead ==
  ASSUME NEW S, NEW p \in Seq(S), p # <<>>, NEW h \in Seq(S),
         NEW c, c = p \o h, NEW d, d = Tail(p) \o h
  PROVE  c # <<>> /\ Head(c) = Head(p) /\ d = Tail(c)
<1> DEFINE t == Tail(p)
           u == Tail(c)
<1>1. Len(p) \in Nat \ {0} /\ Len(h) \in Nat
  BY EmptySeq, LenProperties
<1>2. /\ c \in Seq(S) /\ Len(c) = Len(p) + Len(h)
      /\ \A i \in 1..Len(p) + Len(h) : c[i] = IF i <= Len(p) THEN p[i] ELSE h[i - Len(p)]
  BY ConcatProperties
<1>3. c # <<>> /\ Head(c) = c[1] /\ Head(p) = p[1]
  BY <1>1, <1>2
<1>4. Head(c) = Head(p)
  BY <1>1, <1>2, <1>3
<1>5. /\ t \in Seq(S) /\ Len(t) = Len(p) - 1
      /\ \A i \in 1..Len(t) : t[i] = p[i + 1]
  BY HeadTailProperties
<1>6. /\ u \in Seq(S) /\ Len(u) = Len(c) - 1
      /\ \A i \in 1..Len(u) : u[i] = c[i + 1]
  BY <1>2, <1>3, HeadTailProperties
<1>7. d = t \o h
  OBVIOUS
<1> HIDE DEF t, u
<1>8. /\ d \in Seq(S) /\ Len(d) = Len(t) + Len(h)
      /\ \A i \in 1..Len(t) + Len(h) : d[i] = IF i <= Len(t) THEN t[i] ELSE h[i - Len(t)]
  BY <1>5, <1>7, ConcatProperties
<1>9. Len(d) = Len(u)
  BY <1>1, <1>2, <1>5, <1>6, <1>8
<1>10. ASSUME NEW i \in 1..Len(d)
       PROVE  d[i] = u[i]
  <2>1. i + 1 \in 1..Len(p) + Len(h) /\ u[i] = c[i + 1]
    BY <1>1, <1>2, <1>6, <1>9
  <2>2. CASE i <= Len(t)
    <3>1. d[i] = t[i] /\ t[i] = p[i + 1] /\ c[i + 1] = p[i + 1]
      BY <1>1, <1>2, <1>5, <1>8, <2>1, <2>2
    <3> QED
      BY <2>1, <3>1
  <2>3. CASE ~(i <= Len(t))
    <3>1. i - Len(t) = (i + 1) - Len(p)
      BY <1>1, <1>5
    <3>2. d[i] = h[i - Len(t)] /\ c[i + 1] = h[(i + 1) - Len(p)]
      BY <1>1, <1>2, <1>5, <1>8, <2>1, <2>3
    <3> QED
      BY <2>1, <3>1, <3>2
  <2> QED
    BY <2>2, <2>3
<1>11. d = u
  BY <1>6, <1>8, <1>9, <1>10, SeqEqual, Zenon
<1> QED
  BY <1>3, <1>4, <1>11 DEF u

\* What Delivery sees does not change with what it does not see.
LEMMA SeenAlike ==
  /\ UNCHANGED <<pipe, line>> => UNCHANGED Carried
  /\ UNCHANGED got => UNCHANGED Printed
  /\ UNCHANGED <<shut, broken, exited>> => UNCHANGED Ended
  BY DEF Carried, Held, Printed, Ended, PeerGone, Alive, Broken

\* What an end carries after its typist moved, and when that typist alone did.
LEMMA CarriedChange ==
  ASSUME TypeOK, TypeOK', NEW e \in Ends,
         NEW text, line' = Move(line, e, text), UNCHANGED pipe
  PROVE  /\ Carried[e] = pipe[Peer(e)] \o (IF line[e] = None THEN <<>> ELSE <<line[e]>>)
         /\ Carried'[e] = pipe[Peer(e)] \o (IF text = None THEN <<>> ELSE <<text>>)
         /\ \A x : Carried'[e] = x => Carried' = [Carried EXCEPT ![e] = x]
<1>1. line'[e] = text /\ \A f \in Ends \ {e} : line'[f] = line[f]
  BY DEF TypeOK, Move
<1>2. /\ Carried[e] = pipe[Peer(e)] \o Held(e) /\ Carried'[e] = pipe[Peer(e)] \o Held(e)'
      /\ \A f \in Ends \ {e} : Carried'[f] = Carried[f]
  <2>1. /\ \A f \in Ends : Carried[f] = pipe[Peer(f)] \o Held(f)
        /\ \A f \in Ends : Carried'[f] = pipe'[Peer(f)] \o Held(f)'
    BY MappedTypes, MappedNext DEF Mapped
  <2>2. \A f \in Ends \ {e} : Held(f)' = Held(f)
    BY <1>1 DEF Held
  <2> QED
    BY <2>1, <2>2
<1>3. Carried \in [Ends -> Seq(Lines)] /\ Carried' \in [Ends -> Seq(Lines)]
  BY MappedTypes, MappedNext DEF Mapped
<1>4. ASSUME NEW x, Carried'[e] = x
      PROVE  Carried' = [Carried EXCEPT ![e] = x]
  BY <1>2, <1>3, <1>4, ChangedAt
<1>5. /\ Held(e) = IF line[e] = None THEN <<>> ELSE <<line[e]>>
      /\ Held(e)' = IF text = None THEN <<>> ELSE <<text>>
  BY <1>1 DEF Held
<1> QED
  BY <1>2, <1>4, <1>5

\* What a typist holds is a line from when it was taken until it was sent.
LEMMA HoldsLine ==
  ASSUME TypeOK, Control, NEW e \in Ends
  PROVE  /\ typist[e] \in {"send", "write"} => line[e] # None /\ line[e] \in Lines
         /\ typist[e] = "scan" => line[e] = None
         /\ Peer(e) \in Ends /\ pipe[Peer(e)] \in Seq(Lines)
<1>1. line[e] = None <=> typist[e] \in {"idle", "scan", "gone"}
  BY DEF Control
<1>2. line[e] \in Lines \cup {None}
  BY DEF TypeOK
<1>3. Peer(e) \in Ends
  BY EndFacts
<1>4. pipe[Peer(e)] \in Seq(Lines)
  BY <1>3 DEF TypeOK
<1> QED
  BY <1>1, <1>2, <1>3, <1>4

\* A typist whose session is over loses the line it holds.
LEMMA LosesLine ==
  ASSUME TypeOK, TypeOK', Control, NEW e \in Ends, e \in Ended, typist[e] \in {"send", "write"},
         line' = Move(line, e, None),
         UNCHANGED <<pipe, got, stdin, left, shut, broken, exited>>
  PROVE  D!LoseLine(e)
<1>1. line[e] # None /\ line[e] \in Lines /\ pipe[Peer(e)] \in Seq(Lines)
  BY HoldsLine
<1>2. /\ Carried[e] = pipe[Peer(e)] \o <<line[e]>>
      /\ Carried'[e] = pipe[Peer(e)] \o <<>>
  BY <1>1, CarriedChange
<1>3. Carried[e] # <<>> /\ Carried'[e] = SubSeq(Carried[e], 1, Len(Carried[e]) - 1)
  BY <1>1, <1>2, HeldLost
<1>4. Carried' = [Carried EXCEPT ![e] = SubSeq(Carried[e], 1, Len(Carried[e]) - 1)]
  BY <1>3, CarriedChange
<1>5. UNCHANGED <<stdin, left, Printed, Ended>>
  BY SeenAlike
<1> QED
  BY <1>3, <1>4, <1>5 DEF D!LoseLine

LEMMA SendErrorLoses ==
  ASSUME TypeOK, TypeOK', Control, NEW e \in Ends, (LockSend(e) /\ shut[e]) \/ WriteFails(e)
  PROVE  D!LoseLine(e)
<1>1. e \in Ended /\ typist[e] \in {"send", "write"} /\ SendError(e)
  BY SendErrorEnds
<1>2. /\ line' = Move(line, e, None)
      /\ UNCHANGED <<pipe, got, stdin, left, shut, broken, exited>>
  BY <1>1 DEF SendError, user
<1> QED
  BY <1>1, <1>2, LosesLine

\* What is written in a session that is over is lost; what is written in another is
\* still carried.
LEMMA WriteCarries ==
  ASSUME TypeOK, TypeOK', Control, NEW e \in Ends, Write(e)
  PROVE  D!LoseLine(e) \/ UNCHANGED D!DVars
<1>1. /\ typist[e] = "write" /\ line' = Move(line, e, None)
      /\ UNCHANGED <<got, stdin, left, shut, broken, exited>>
  BY DEF Write, user
<1>2. CASE PeerGone(e) \/ Broken(e)
  <2>1. UNCHANGED pipe /\ e \in Ended
    BY <1>2 DEF Write, Ended
  <2> QED
    BY <1>1, <2>1, LosesLine
<1>3. CASE ~(PeerGone(e) \/ Broken(e))
  <2>1. pipe' = [pipe EXCEPT ![Peer(e)] = Append(pipe[Peer(e)], line[e])]
    BY <1>3 DEF Write
  <2>2. line[e] # None /\ line[e] \in Lines /\ Peer(e) \in Ends /\ pipe[Peer(e)] \in Seq(Lines)
    BY <1>1, HoldsLine
  <2>3. /\ pipe'[Peer(e)] = Append(pipe[Peer(e)], line[e]) /\ line'[e] = None
        /\ \A f \in Ends \ {e} : pipe'[Peer(f)] = pipe[Peer(f)] /\ line'[f] = line[f]
    BY <1>1, <2>1, <2>2, EndFacts DEF TypeOK, Move
  <2>4. /\ \A f \in Ends : Carried[f] = pipe[Peer(f)] \o Held(f)
        /\ \A f \in Ends : Carried'[f] = pipe'[Peer(f)] \o Held(f)'
    BY MappedTypes, MappedNext DEF Mapped
  <2>5. Carried'[e] = Carried[e]
    <3>1. Held(e) = <<line[e]>> /\ Held(e)' = <<>>
      BY <2>2, <2>3 DEF Held
    <3>2. /\ Carried[e] = pipe[Peer(e)] \o <<line[e]>>
          /\ Carried'[e] = Append(pipe[Peer(e)], line[e]) \o <<>>
      BY <2>3, <2>4, <3>1
    <3> QED
      BY <2>2, <3>2, HeldWritten
  <2>6. ASSUME NEW f \in Ends \ {e} PROVE Carried'[f] = Carried[f]
    <3>1. Held(f)' = Held(f)
      BY <2>3 DEF Held
    <3> QED
      BY <2>3, <2>4, <3>1
  <2>7. Carried' = Carried
    <3>1. Carried \in [Ends -> Seq(Lines)] /\ Carried' \in [Ends -> Seq(Lines)]
      BY MappedTypes, MappedNext DEF Mapped
    <3> QED
      BY <2>5, <2>6, <3>1, SameFunction
  <2> QED
    BY <1>1, <2>7, SeenAlike DEF D!DVars
<1> QED
  BY <1>2, <1>3

\* The typist that gets a line holds it, behind what is on its way.
LEMMA ScanTakes ==
  ASSUME TypeOK, TypeOK', Control, NEW e \in Ends, Scan(e)
  PROVE  D!TakeLine(e)
<1> DEFINE p == Program(e)
           x == Head(stdin[p]).n
<1>1. /\ typist[e] = "scan" /\ stdin[p] # <<>> /\ Head(stdin[p]).word # "eof"
      /\ line' = Move(line, e, x)
      /\ stdin' = [stdin EXCEPT ![p] = Tail(stdin[p])]
      /\ UNCHANGED <<left, shut, pipe, broken, exited, got>>
  BY DEF Scan, session
<1>2. p \in Programs /\ Host[e] = p
  BY EndFacts, HostFacts
<1>3. x \in Lines /\ x # None /\ line[e] = None /\ pipe[Peer(e)] \in Seq(Lines)
  <2>1. x \in Lines
    BY <1>1, <1>2, HeadType
  <2> HIDE DEF x
  <2> QED
    BY <1>1, <2>1, HoldsLine, NoneIsNoLine
<1> HIDE DEF x
<1>4. Carried[e] = pipe[Peer(e)] \o <<>> /\ Carried'[e] = pipe[Peer(e)] \o <<x>>
  BY <1>1, <1>3, CarriedChange
<1>5. Carried'[e] = Append(Carried[e], x)
  BY <1>3, <1>4, HeldTaken
<1>6. Carried' = [Carried EXCEPT ![e] = Append(Carried[e], x)]
  BY <1>1, <1>5, CarriedChange
<1>7. UNCHANGED <<left, Printed, Ended>>
  BY <1>1, SeenAlike
<1> HIDE DEF p
<1> QED
  BY <1>1, <1>2, <1>6, <1>7 DEF D!TakeLine, x

LEMMA ScanEndsTakes ==
  ASSUME TypeOK, TypeOK', Control, NEW e \in Ends, ScanEnds(e)
  PROVE  D!TakeEnd(Program(e)) \/ UNCHANGED D!DVars
<1>1. /\ stdin[Program(e)] # <<>> /\ Head(stdin[Program(e)]).word = "eof"
      /\ UNCHANGED stdin \/ stdin' = [stdin EXCEPT ![Program(e)] = Tail(@)]
      /\ UNCHANGED <<left, line, shut, pipe, broken, exited, got>>
  BY DEF ScanEnds, session
<1>2. UNCHANGED <<left, Carried, Printed, Ended>>
  BY <1>1, SeenAlike
<1> QED
  BY <1>1, <1>2 DEF D!TakeEnd, D!DVars

\* What a reader gets, its peer carried first.
LEMMA ReadPrints ==
  ASSUME TypeOK, TypeOK', Control, NEW r \in Ends, ReadMessage(r)
  PROVE  D!PrintLine(Peer(r))
<1> DEFINE e == Peer(r)
<1>1. /\ pipe[r] # <<>>
      /\ got' = [got EXCEPT ![r] = Append(got[r], Head(pipe[r]))]
      /\ pipe' = [pipe EXCEPT ![r] = Tail(pipe[r])]
      /\ UNCHANGED <<line, stdin, left, shut, broken, exited>>
  BY DEF ReadMessage, user
<1>2. e \in Ends /\ Peer(e) = r /\ \A f \in Ends \ {e} : Peer(f) \in Ends /\ Peer(f) # r
  BY EndFacts
<1>3. /\ got'[r] = Append(got[r], Head(pipe[r])) /\ pipe'[r] = Tail(pipe[r])
      /\ \A f \in Ends \ {r} : got'[f] = got[f] /\ pipe'[f] = pipe[f]
      /\ \A f \in Ends : Held(f)' = Held(f)
  BY <1>1 DEF TypeOK, Held
<1> HIDE DEF e
<1>4. /\ \A f \in Ends : Carried[f] = pipe[Peer(f)] \o Held(f) /\ Printed[f] = got[Peer(f)]
      /\ \A f \in Ends : Carried'[f] = pipe'[Peer(f)] \o Held(f)' /\ Printed'[f] = got'[Peer(f)]
      /\ pipe[r] \in Seq(Lines) /\ Held(e) \in Seq(Lines)
  BY <1>2, MappedTypes, MappedNext DEF Mapped, TypeOK
<1>5. Carried[e] = pipe[r] \o Held(e) /\ Carried'[e] = Tail(pipe[r]) \o Held(e)
  BY <1>2, <1>3, <1>4
<1>6. Carried[e] # <<>> /\ Head(Carried[e]) = Head(pipe[r]) /\ Carried'[e] = Tail(Carried[e])
  BY <1>1, <1>4, <1>5, HeadRead
<1>7. Printed'[e] = Append(Printed[e], Head(Carried[e]))
  <2>1. Printed'[e] = got'[r] /\ Printed[e] = got[r]
    BY <1>2, <1>4
  <2> QED
    BY <1>3, <1>6, <2>1
<1>8. ASSUME NEW f \in Ends \ {e}
      PROVE  Carried'[f] = Carried[f] /\ Printed'[f] = Printed[f]
  <2>1. Peer(f) \in Ends \ {r}
    BY <1>2
  <2>2. got'[Peer(f)] = got[Peer(f)] /\ pipe'[Peer(f)] = pipe[Peer(f)] /\ Held(f)' = Held(f)
    BY <1>3, <2>1
  <2> QED
    BY <1>4, <2>2
<1>9. /\ Carried \in [Ends -> Seq(Lines)] /\ Carried' \in [Ends -> Seq(Lines)]
      /\ Printed \in [Ends -> Seq(Lines)] /\ Printed' \in [Ends -> Seq(Lines)]
  BY MappedTypes, MappedNext DEF Mapped
<1>10. Carried' = [Carried EXCEPT ![e] = Tail(Carried[e])]
  BY <1>2, <1>6, <1>8, <1>9, ChangedAt
<1>11. Printed' = [Printed EXCEPT ![e] = Append(Printed[e], Head(Carried[e]))]
  BY <1>2, <1>7, <1>8, <1>9, ChangedAt
<1>12. UNCHANGED <<stdin, left, Ended>>
  BY <1>1, SeenAlike
<1> QED
  BY <1>6, <1>10, <1>11, <1>12 DEF D!PrintLine, e

\* Every step of the chat is a step of Delivery, or one that Delivery does not see.
LEMMA DeliveryStep ==
  ASSUME TypeOK, TypeOK', Control, [Next]_vars
  PROVE  [D!DNext]_(D!DVars)
<1>1. ASSUME UNCHANGED <<stdin, left, Carried, Printed>>
      PROVE  [D!DNext]_(D!DVars)
  <2>1. Ended \subseteq Ended' /\ Ended' \subseteq Ends
    BY EndedGrows DEF Ended
  <2> QED
    BY <1>1, <2>1 DEF D!DNext, D!EndSessions
<1>2. ASSUME UNCHANGED <<stdin, left, line, pipe, got>>
      PROVE  [D!DNext]_(D!DVars)
  BY <1>1, <1>2, SeenAlike
<1>3. ASSUME NEW c \in Conns, Open(c) \/ Break(c)
      PROVE  [D!DNext]_(D!DVars)
  <2>1. UNCHANGED <<stdin, left, line, pipe, got>>
    BY <1>3 DEF Open, Break, session, user
  <2> QED
    BY <1>2, <2>1
<1>4. ASSUME NEW p \in Programs, NEW word \in Words, Type(p, word)
      PROVE  [D!DNext]_(D!DVars)
  <2>1. UNCHANGED <<Carried, Printed, Ended>>
    BY <1>4, SeenAlike DEF Type, session
  <2>2. D!TypeLine(p, word)
    BY <1>4, <2>1 DEF Type, D!TypeLine
  <2> QED
    BY <2>2 DEF D!DNext
<1>5. ASSUME NEW e \in Ends, Typing(e)
      PROVE  [D!DNext]_(D!DVars)
  <2>1. CASE Scan(e)
    <3>1. D!TakeLine(e)
      BY <2>1, ScanTakes
    <3> QED
      BY <3>1 DEF D!DNext
  <2>2. CASE ScanEnds(e)
    <3>1. D!TakeEnd(Program(e)) \/ UNCHANGED D!DVars
      BY <2>2, ScanEndsTakes
    <3>2. Program(e) \in Programs
      BY EndFacts
    <3> QED
      BY <3>1, <3>2 DEF D!DNext
  <2>3. CASE (LockSend(e) /\ shut[e]) \/ WriteFails(e)
    <3>1. D!LoseLine(e)
      BY <2>3, SendErrorLoses
    <3> QED
      BY <3>1 DEF D!DNext
  <2>4. CASE LockSend(e) /\ ~shut[e]
    <3>1. UNCHANGED <<stdin, left, line, pipe, got>>
      BY <2>4 DEF LockSend, session, user
    <3> QED
      BY <1>2, <3>1
  <2>5. CASE Write(e)
    <3>1. D!LoseLine(e) \/ UNCHANGED D!DVars
      BY <2>5, WriteCarries
    <3> QED
      BY <3>1 DEF D!DNext
  <2>6. CASE Quit(e)
    <3>1. UNCHANGED <<stdin, left, line, pipe, got>>
      BY <2>6 DEF Quit, user
    <3> QED
      BY <1>2, <3>1
  <2> QED
    BY <1>5, <2>1, <2>2, <2>3, <2>4, <2>5, <2>6 DEF Typing
<1>6. ASSUME NEW e \in Ends, Reading(e)
      PROVE  [D!DNext]_(D!DVars)
  <2>1. CASE ReadMessage(e)
    <3>1. D!PrintLine(Peer(e)) /\ Peer(e) \in Ends
      BY <2>1, ReadPrints, EndFacts
    <3> QED
      BY <3>1 DEF D!DNext
  <2>2. CASE ~ReadMessage(e)
    <3>1. UNCHANGED <<stdin, left, line, pipe, got>>
      BY <1>6, <2>2
      DEF Reading, LockRecv, ReadFails, ReadTimeout, ReadEnds, CloseChannel, session, user
    <3> QED
      BY <1>2, <3>1
  <2> QED
    BY <2>1, <2>2
<1>7. ASSUME UNCHANGED vars
      PROVE  [D!DNext]_(D!DVars)
  <2>1. UNCHANGED <<stdin, left, line, pipe, got>>
    BY <1>7 DEF vars
  <2> QED
    BY <1>2, <2>1
<1> QED
  BY <1>3, <1>4, <1>5, <1>6, <1>7 DEF Next

LEMMA DeliveryInit == Init => D!DInit
<1> SUFFICES ASSUME Init PROVE D!DInit
  OBVIOUS
<1>1. TypeOK
  BY InitType
<1>2. /\ \A e \in Ends : Carried[e] = pipe[Peer(e)] \o Held(e) /\ Printed[e] = got[Peer(e)]
      /\ Carried \in [Ends -> Seq(Lines)] /\ Printed \in [Ends -> Seq(Lines)]
  BY <1>1, MappedTypes DEF Mapped
<1>3. ASSUME NEW e \in Ends
      PROVE  Carried[e] = <<>> /\ Printed[e] = <<>>
  <2>1. Peer(e) \in Ends
    BY EndFacts
  <2>2. pipe[Peer(e)] = <<>> /\ got[Peer(e)] = <<>> /\ Held(e) = <<>>
    BY <2>1 DEF Init, Held
  <2>3. <<>> \in Seq(Lines)
    OBVIOUS
  <2>4. <<>> \o <<>> = <<>>
    BY <2>3, ConcatEmptySeq
  <2> QED
    BY <1>2, <2>2, <2>4
<1>4. Carried = [e \in Ends |-> <<>>] /\ Printed = [e \in Ends |-> <<>>]
  BY <1>2, <1>3
<1>5. Ended \subseteq Ends
  BY DEF Ended
<1> QED
  BY <1>4, <1>5 DEF Init, D!DInit

\* The instance of Delivery that Chat names, and the one with its lemmas, are one.
LEMMA OneDelivery ==
  /\ D!DInit => Promise!DInit
  /\ [D!DNext]_(D!DVars) => [Promise!DNext]_(Promise!DVars)
  /\ D!OneTaker => EachLineOnce
<1>1. D!DInit => Promise!DInit
  BY DEF D!DInit, Promise!DInit
<1>2. [D!DNext]_(D!DVars) => [Promise!DNext]_(Promise!DVars)
  BY DEF D!DNext, D!DVars, D!TakeEnd, D!TypeLine, D!TakeLine, D!PrintLine, D!LoseLine,
         D!EndSessions, Promise!DNext, Promise!DVars, Promise!TakeEnd, Promise!TypeLine,
         Promise!TakeLine, Promise!PrintLine, Promise!LoseLine, Promise!EndSessions
<1>3. D!OneTaker => EachLineOnce
  BY DEF EachLineOnce, D!OneTaker, Promise!OneTaker, D!Taken, Promise!Taken,
         D!Increasing, Promise!Increasing
<1> QED
  BY <1>1, <1>2, <1>3

\* The parameters that Delivery has here are as its lemmas need them.
LEMMA DeliveryParameters == D!Parameters
  BY HostFacts, ChatAssumption DEF D!Parameters

\* main.go:617, 635: the chat implements Delivery, whatever the number of sessions, the
\* room in the network, and who quits, breaks or waits.
THEOREM ChatImplementsDelivery == Spec => DeliverySpec
<1>1. Init => TypeOK /\ Control
  BY InitType
<1>2. TypeOK /\ Control /\ [Next]_vars => (TypeOK /\ Control)'
  BY TypeStep
<1>3. Init => Promise!DInit
  BY DeliveryInit, OneDelivery
<1>4. TypeOK /\ Control /\ TypeOK' /\ [Next]_vars => [Promise!DNext]_(Promise!DVars)
  BY DeliveryStep, OneDelivery
<1> QED
  BY <1>1, <1>2, <1>3, <1>4, PTL DEF Spec, DeliverySpec, Promise!DSpec

\* main.go:617: each line typed to a program is said to one peer at most and once, and
\* each peer gets its lines in the order in which they were typed.
THEOREM ChatSaysEachLineOnce == Spec => []EachLineOnce
<1>1. Init => TypeOK /\ Control
  BY InitType
<1>2. TypeOK /\ Control /\ [Next]_vars => (TypeOK /\ Control)'
  BY TypeStep
<1>3. Init => D!DInv
  BY DeliveryInit, DeliveryParameters, D!DInitInv
<1>4. TypeOK /\ Control /\ TypeOK' /\ D!DInv /\ [Next]_vars => D!DInv'
  BY DeliveryStep, DeliveryParameters, D!DStepInv
<1>5. D!DInv => EachLineOnce
  BY OneDelivery DEF D!DInv
<1> QED
  BY <1>1, <1>2, <1>3, <1>4, <1>5, PTL DEF Spec
=============================================================================
