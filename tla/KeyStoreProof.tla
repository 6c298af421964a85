--------------------------- MODULE KeyStoreProof ---------------------------
(***************************************************************************)
(* What KeyStore guarantees for every set of processes and passwords.      *)
(* The inductive invariant KSInv says which writer can be at work, what    *)
(* each step of a save or delete finds in the files when that writer is    *)
(* alone, and what a reader that raced with the first save can hold.       *)
(***************************************************************************)
EXTENDS KeyStore, TLAPS

\* Which steps a process can be at.
ProgramInv ==
  /\ \A p \in Generators :
       pc[p] \in {"idle", "truncatePub", "writePub", "truncatePriv", "writePriv",
                  "saved", "stopped"}
  /\ \A p \in Deleters : pc[p] \in {"idle", "removePriv", "removePub", "deleted", "stopped"}
  /\ \A p \in Loaders :
       pc[p] \in {"idle", "has", "readPub", "readPriv", "readPubAgain",
                  "readPrivAgain", "running", "stopped"}
  /\ \A p \in Viewers :
       pc[p] \in {"idle", "has", "readPub", "readPriv", "shown", "stopped"}

\* Who has begun, and who can still be at work.
WritersInv ==
  /\ \A p \in Writers : pc[p] # "idle" <=> \E i \in DOMAIN begun : begun[i] = p
  /\ begun # <<>> /\ LastBegun \notin joined => Busy \subseteq {LastBegun}
  /\ Len(begun) <= 1 => joined = {}

\* A writer that is alone writes to the files it sees.
UnlinkedInv == begun # <<>> /\ LastBegun \notin joined => LastBegun \notin unlinked

\* What the last writer finds in the files when it is alone.
SoleInv ==
  begun # <<>> /\ LastBegun \notin joined =>
    /\ pc[LastBegun] \in {"truncatePriv", "writePriv", "saved"} => pub = LastBegun
    /\ pc[LastBegun] = "saved" => priv = LastBegun
    /\ pc[LastBegun] \in {"removePub", "deleted"} => priv = Absent
    /\ pc[LastBegun] = "deleted" => pub = Absent

\* The files while there has been one writer at most.
FirstFilesInv ==
  /\ begun = <<>> => pub = Absent /\ priv = Absent
  /\ Len(begun) = 1 =>
       /\ pub \in {Absent, Torn, begun[1]}
       /\ priv \in {Absent, Torn, begun[1]}
       /\ begun[1] \in Deleters => pub = Absent /\ priv = Absent
       /\ pc[begun[1]] \in {"truncatePub", "writePub", "truncatePriv"} => priv = Absent
       /\ priv # Absent => pub = begun[1]

\* What the readers hold at that time.
FirstReadersInv ==
  /\ begun = <<>> => \A p \in Readers : pc[p] \in {"idle", "has", "stopped"}
  /\ Len(begun) = 1 =>
       \A p \in Readers :
         /\ p \in Viewers /\ pc[p] \in {"readPriv", "shown"} =>
              held[p].public \in {begun[1], Torn}
         /\ pc[p] \in {"readPubAgain", "readPrivAgain"} => priv = begun[1] /\ Opens(p)
         /\ pc[p] \in {"readPubAgain", "readPrivAgain", "running"} =>
              held[p].private = begun[1]
         /\ pc[p] \in {"readPrivAgain", "running"} => held[p].public = begun[1]

KSInv ==
  /\ TypeOK /\ ProgramInv /\ WritersInv /\ UnlinkedInv /\ SoleInv
  /\ NoHiddenPrivateKey /\ FirstFilesInv /\ FirstReadersInv

-----------------------------------------------------------------------------
\* The order of the system calls, as equations.
LEMMA Order ==
  /\ After("save") = "truncatePub" /\ After("truncatePub") = "writePub"
  /\ After("writePub") = "truncatePriv" /\ After("truncatePriv") = "writePriv"
  /\ After("writePriv") = "saved" /\ After("delete") = "removePriv"
  /\ After("removePriv") = "removePub" /\ After("removePub") = "deleted"
BY DEF After

\* A writer at work has begun; if the last writer is alone it is that one.
LEMMA BusyWriter ==
  ASSUME KSInv, NEW p \in Writers, pc[p] \in WriterSteps
  PROVE  /\ begun # <<>> /\ Len(begun) \in Nat \ {0}
         /\ LastBegun \notin joined => p = LastBegun
         /\ Len(begun) = 1 => p = begun[1] /\ LastBegun = begun[1] /\ joined = {}
         /\ joined = {} => p = LastBegun
<1>1. begun \in Seq(Writers) /\ p \in Busy /\ pc[p] # "idle"
  BY DEF KSInv, TypeOK, Busy, WriterSteps
<1>2. PICK i \in DOMAIN begun : begun[i] = p
  BY <1>1 DEF KSInv, WritersInv
<1>3. begun # <<>> /\ Len(begun) \in Nat \ {0}
  BY <1>1, <1>2
<1>4. LastBegun \notin joined => p = LastBegun
  BY <1>1, <1>3 DEF KSInv, WritersInv
<1>5. Len(begun) = 1 => LastBegun = begun[1] /\ joined = {}
  BY DEF LastBegun, KSInv, WritersInv
<1> QED
  BY <1>3, <1>4, <1>5

\* A step of a writer at work, whatever it does to the files, preserves what
\* is known of who is at work.
LEMMA WriterMoves ==
  ASSUME KSInv, NEW p \in Writers, pc[p] \in WriterSteps, NEW x,
         x # "idle", pc' = [pc EXCEPT ![p] = x], UNCHANGED <<begun, joined>>
  PROVE  WritersInv'
<1>1. pc \in [Processes -> {"idle"} \cup WriterSteps \cup ReaderSteps \cup Ends]
  BY DEF KSInv, TypeOK
<1>2. p \in Processes /\ Writers \subseteq Processes
  BY DEF Processes
<1>3. Busy' \subseteq Busy \cup {p} /\ p \in Busy
  BY <1>1, <1>2 DEF Busy
<1>4. \A q \in Writers : pc'[q] # "idle" <=> pc[q] # "idle"
  BY <1>1, <1>2 DEF WriterSteps
<1> QED
  BY <1>3, <1>4 DEF KSInv, WritersInv, LastBegun

\* No step of a writer at work removes a file that the last writer has open, if that
\* one is alone: it would be its own step.
LEMMA WriterUnlinks ==
  ASSUME KSInv, NEW p \in Writers, Write(p), ~Begin(p)
  PROVE  UnlinkedInv'
<1>1. pc[p] \in WriterSteps
  BY DEF Write, Kill, Busy, TruncatePub, WritePub, TruncatePriv, WritePriv, RemovePriv,
         RemovePub, WriterSteps
<1>2. UNCHANGED <<begun, joined>> /\ LastBegun' = LastBegun
  BY DEF Write, Kill, TruncatePub, WritePub, TruncatePriv, WritePriv, RemovePriv, RemovePub,
         LastBegun
<1>3. LastBegun \notin joined => p = LastBegun /\ p \notin unlinked
  BY <1>1, BusyWriter DEF KSInv, UnlinkedInv
<1>4. p \notin unlinked => p \notin unlinked'
  BY DEF Write, Kill, TruncatePub, WritePub, TruncatePriv, WritePriv, RemovePriv, RemovePub, At
<1> QED
  BY <1>2, <1>3, <1>4 DEF UnlinkedInv

\* A writer whose file was removed is not alone.
LEMMA Orphan ==
  ASSUME KSInv, NEW p \in Writers, pc[p] \in WriterSteps, p \in unlinked
  PROVE  LastBegun \in joined /\ joined # {} /\ Len(begun) # 1
<1>1. LastBegun \in joined
  BY BusyWriter DEF KSInv, UnlinkedInv
<1> QED
  BY <1>1, BusyWriter

-----------------------------------------------------------------------------
\* Initially the store is empty and nobody has begun.
LEMMA KSInit == Init => KSInv
<1> SUFFICES ASSUME Init PROVE KSInv
  OBVIOUS
<1>1. TypeOK
  BY DEF Init, TypeOK, Readers, Processes, Writers
<1>2. ProgramInv
  BY DEF Init, ProgramInv, Processes, Writers, Readers
<1>3. WritersInv
  BY DEF Init, WritersInv, Processes
<1>4. UnlinkedInv /\ SoleInv /\ NoHiddenPrivateKey
  BY DEF Init, UnlinkedInv, SoleInv, NoHiddenPrivateKey
<1>5. FirstFilesInv /\ FirstReadersInv
  BY DEF Init, FirstFilesInv, FirstReadersInv, Processes
<1> QED
  BY <1>1, <1>2, <1>3, <1>4, <1>5 DEF KSInv

-----------------------------------------------------------------------------
\* The steps of SaveDSAKeypair and DeleteKeypair, one lemma each.

LEMMA TruncatePubStep ==
  ASSUME KSInv, NEW p \in Writers, TruncatePub(p)
  PROVE  KSInv'
<1>1. pc[p] = "truncatePub" /\ pc' = [pc EXCEPT ![p] = "writePub"]
  BY Order DEF TruncatePub, Advance, Goto
<1>2. TypeOK /\ p \in Processes /\ Readers \subseteq Processes /\ pc[p] \in WriterSteps
  BY <1>1 DEF KSInv, Processes, WriterSteps
<1>3. p \in Generators
  BY <1>1 DEF KSInv, ProgramInv, Writers
<1>4. TypeOK'
  BY <1>1, <1>2, <1>3 DEF TruncatePub, TypeOK, WriterSteps, Ends, At
<1>5. ProgramInv'
  BY <1>1, <1>2, <1>3, KeyStoreAssumption DEF KSInv, ProgramInv, TypeOK, Processes, Writers, Readers
<1>6. WritersInv'
  BY <1>1, <1>2, WriterMoves DEF TruncatePub
<1>7. SoleInv'
  BY <1>1, <1>2, BusyWriter DEF TruncatePub, KSInv, SoleInv, TypeOK, LastBegun
<1>8. NoHiddenPrivateKey'
  BY <1>1, <1>2, <1>3, BusyWriter, KeyStoreAssumption
  DEF TruncatePub, KSInv, NoHiddenPrivateKey, SoleInv
<1>9. FirstFilesInv'
  BY <1>1, <1>2, <1>3, BusyWriter, KeyStoreAssumption
  DEF TruncatePub, KSInv, FirstFilesInv, SoleInv, Writers, TypeOK
<1>10. FirstReadersInv'
  <2>1. \A q \in Readers : pc'[q] = pc[q]
    BY <1>1, <1>2, KeyStoreAssumption DEF TypeOK
  <2>2. Len(begun) = 1 /\ priv = begun[1] => priv' = priv
    BY <1>1, <1>2, <1>3, BusyWriter, KeyStoreAssumption
    DEF TruncatePub, KSInv, FirstFilesInv, Writers
  <2> QED
    BY <1>2, <2>1, <2>2, BusyWriter DEF TruncatePub, KSInv, FirstReadersInv, Opens
<1>11. UnlinkedInv'
  BY WriterUnlinks, Order DEF Write, Begin, TruncatePub
<1> QED
  BY <1>4, <1>5, <1>6, <1>7, <1>8, <1>9, <1>10, <1>11 DEF KSInv

LEMMA WritePubStep ==
  ASSUME KSInv, NEW p \in Writers, WritePub(p)
  PROVE  KSInv'
<1>1. pc[p] = "writePub" /\ pc' = [pc EXCEPT ![p] = "truncatePriv"]
  BY Order DEF WritePub, Advance, Goto
<1>2. TypeOK /\ p \in Processes /\ Readers \subseteq Processes /\ pc[p] \in WriterSteps
  BY <1>1 DEF KSInv, Processes, WriterSteps
<1>3. p \in Generators
  BY <1>1 DEF KSInv, ProgramInv, Writers
<1>4. TypeOK'
  BY <1>1, <1>2, <1>3 DEF WritePub, TypeOK, WriterSteps, Ends, At, Written
<1>5. ProgramInv'
  BY <1>1, <1>2, <1>3, KeyStoreAssumption DEF KSInv, ProgramInv, TypeOK, Processes, Writers, Readers
<1>6. WritersInv'
  BY <1>1, <1>2, WriterMoves DEF WritePub
<1>7. SoleInv'
  BY <1>1, <1>2, BusyWriter, Orphan DEF WritePub, Written, KSInv, SoleInv, TypeOK, LastBegun
<1>8. NoHiddenPrivateKey'
  BY <1>1, <1>2, <1>3, BusyWriter, Orphan, KeyStoreAssumption
  DEF WritePub, Written, KSInv, NoHiddenPrivateKey, SoleInv
<1>9. FirstFilesInv'
  BY <1>1, <1>2, <1>3, BusyWriter, Orphan, KeyStoreAssumption
  DEF WritePub, Written, KSInv, FirstFilesInv, SoleInv, Writers, TypeOK
<1>10. FirstReadersInv'
  <2>1. \A q \in Readers : pc'[q] = pc[q]
    BY <1>1, <1>2, KeyStoreAssumption DEF TypeOK
  <2>2. Len(begun) = 1 /\ priv = begun[1] => priv' = priv
    BY <1>1, <1>2, <1>3, BusyWriter, Orphan, KeyStoreAssumption
    DEF WritePub, Written, KSInv, FirstFilesInv, Writers
  <2> QED
    BY <1>2, <2>1, <2>2, BusyWriter, Orphan DEF WritePub, Written, KSInv, FirstReadersInv, Opens
<1>11. UnlinkedInv'
  BY WriterUnlinks, Order DEF Write, Begin, WritePub
<1> QED
  BY <1>4, <1>5, <1>6, <1>7, <1>8, <1>9, <1>10, <1>11 DEF KSInv

LEMMA TruncatePrivStep ==
  ASSUME KSInv, NEW p \in Writers, TruncatePriv(p)
  PROVE  KSInv'
<1>1. pc[p] = "truncatePriv" /\ pc' = [pc EXCEPT ![p] = "writePriv"]
  BY Order DEF TruncatePriv, Advance, Goto
<1>2. TypeOK /\ p \in Processes /\ Readers \subseteq Processes /\ pc[p] \in WriterSteps
  BY <1>1 DEF KSInv, Processes, WriterSteps
<1>3. p \in Generators
  BY <1>1 DEF KSInv, ProgramInv, Writers
<1>4. TypeOK'
  BY <1>1, <1>2, <1>3 DEF TruncatePriv, TypeOK, WriterSteps, Ends, At
<1>5. ProgramInv'
  BY <1>1, <1>2, <1>3, KeyStoreAssumption DEF KSInv, ProgramInv, TypeOK, Processes, Writers, Readers
<1>6. WritersInv'
  BY <1>1, <1>2, WriterMoves DEF TruncatePriv
<1>7. SoleInv'
  BY <1>1, <1>2, BusyWriter DEF TruncatePriv, KSInv, SoleInv, TypeOK, LastBegun
<1>8. NoHiddenPrivateKey'
  BY <1>1, <1>2, <1>3, BusyWriter, KeyStoreAssumption
  DEF TruncatePriv, KSInv, NoHiddenPrivateKey, SoleInv
<1>9. FirstFilesInv'
  BY <1>1, <1>2, <1>3, BusyWriter, KeyStoreAssumption
  DEF TruncatePriv, KSInv, FirstFilesInv, SoleInv, Writers, TypeOK
<1>10. FirstReadersInv'
  <2>1. \A q \in Readers : pc'[q] = pc[q]
    BY <1>1, <1>2, KeyStoreAssumption DEF TypeOK
  <2>2. Len(begun) = 1 /\ priv = begun[1] => priv' = priv
    BY <1>1, <1>2, <1>3, BusyWriter, KeyStoreAssumption
    DEF TruncatePriv, KSInv, FirstFilesInv, Writers
  <2> QED
    BY <1>2, <2>1, <2>2, BusyWriter DEF TruncatePriv, KSInv, FirstReadersInv, Opens
<1>11. UnlinkedInv'
  BY WriterUnlinks, Order DEF Write, Begin, TruncatePriv
<1> QED
  BY <1>4, <1>5, <1>6, <1>7, <1>8, <1>9, <1>10, <1>11 DEF KSInv

LEMMA WritePrivStep ==
  ASSUME KSInv, NEW p \in Writers, WritePriv(p)
  PROVE  KSInv'
<1>1. pc[p] = "writePriv" /\ pc' = [pc EXCEPT ![p] = "saved"]
  BY Order DEF WritePriv, Advance, Goto
<1>2. TypeOK /\ p \in Processes /\ Readers \subseteq Processes /\ pc[p] \in WriterSteps
  BY <1>1 DEF KSInv, Processes, WriterSteps
<1>3. p \in Generators
  BY <1>1 DEF KSInv, ProgramInv, Writers
<1>4. TypeOK'
  BY <1>1, <1>2, <1>3 DEF WritePriv, TypeOK, WriterSteps, Ends, At, Written
<1>5. ProgramInv'
  BY <1>1, <1>2, <1>3, KeyStoreAssumption DEF KSInv, ProgramInv, TypeOK, Processes, Writers, Readers
<1>6. WritersInv'
  BY <1>1, <1>2, WriterMoves DEF WritePriv
<1>7. SoleInv'
  BY <1>1, <1>2, BusyWriter, Orphan DEF WritePriv, Written, KSInv, SoleInv, TypeOK, LastBegun
<1>8. NoHiddenPrivateKey'
  BY <1>1, <1>2, <1>3, BusyWriter, Orphan, KeyStoreAssumption
  DEF WritePriv, Written, KSInv, NoHiddenPrivateKey, SoleInv
<1>9. FirstFilesInv'
  BY <1>1, <1>2, <1>3, BusyWriter, Orphan, KeyStoreAssumption
  DEF WritePriv, Written, KSInv, FirstFilesInv, SoleInv, Writers, TypeOK
<1>10. FirstReadersInv'
  <2>1. \A q \in Readers : pc'[q] = pc[q]
    BY <1>1, <1>2, KeyStoreAssumption DEF TypeOK
  <2>2. Len(begun) = 1 /\ priv = begun[1] => priv' = priv
    BY <1>1, <1>2, <1>3, BusyWriter, Orphan, KeyStoreAssumption
    DEF WritePriv, Written, KSInv, FirstFilesInv, Writers
  <2> QED
    BY <1>2, <2>1, <2>2, BusyWriter, Orphan DEF WritePriv, Written, KSInv, FirstReadersInv, Opens
<1>11. UnlinkedInv'
  BY WriterUnlinks, Order DEF Write, Begin, WritePriv
<1> QED
  BY <1>4, <1>5, <1>6, <1>7, <1>8, <1>9, <1>10, <1>11 DEF KSInv

LEMMA RemovePrivStep ==
  ASSUME KSInv, NEW p \in Writers, RemovePriv(p)
  PROVE  KSInv'
<1>1. pc[p] = "removePriv" /\ pc' = [pc EXCEPT ![p] = "removePub"]
  BY Order DEF RemovePriv, Advance, Goto
<1>2. TypeOK /\ p \in Processes /\ Readers \subseteq Processes /\ pc[p] \in WriterSteps
  BY <1>1 DEF KSInv, Processes, WriterSteps
<1>3. p \in Deleters
  BY <1>1 DEF KSInv, ProgramInv, Writers
<1>4. TypeOK'
  BY <1>1, <1>2, <1>3 DEF RemovePriv, TypeOK, WriterSteps, Ends, At
<1>5. ProgramInv'
  BY <1>1, <1>2, <1>3, KeyStoreAssumption DEF KSInv, ProgramInv, TypeOK, Processes, Writers, Readers
<1>6. WritersInv'
  BY <1>1, <1>2, WriterMoves DEF RemovePriv
<1>7. SoleInv'
  BY <1>1, <1>2, BusyWriter DEF RemovePriv, KSInv, SoleInv, TypeOK, LastBegun
<1>8. NoHiddenPrivateKey'
  BY <1>1, <1>2, <1>3, BusyWriter, KeyStoreAssumption
  DEF RemovePriv, KSInv, NoHiddenPrivateKey, SoleInv
<1>9. FirstFilesInv'
  BY <1>1, <1>2, <1>3, BusyWriter, KeyStoreAssumption
  DEF RemovePriv, KSInv, FirstFilesInv, SoleInv, Writers, TypeOK
<1>10. FirstReadersInv'
  <2>1. \A q \in Readers : pc'[q] = pc[q]
    BY <1>1, <1>2, KeyStoreAssumption DEF TypeOK
  <2>2. Len(begun) = 1 /\ priv = begun[1] => priv' = priv
    BY <1>1, <1>2, <1>3, BusyWriter, KeyStoreAssumption
    DEF RemovePriv, KSInv, FirstFilesInv, Writers
  <2> QED
    BY <1>2, <2>1, <2>2, BusyWriter DEF RemovePriv, KSInv, FirstReadersInv, Opens
<1>11. UnlinkedInv'
  BY WriterUnlinks, Order DEF Write, Begin, RemovePriv
<1> QED
  BY <1>4, <1>5, <1>6, <1>7, <1>8, <1>9, <1>10, <1>11 DEF KSInv

LEMMA RemovePubStep ==
  ASSUME KSInv, NEW p \in Writers, RemovePub(p)
  PROVE  KSInv'
<1>1. pc[p] = "removePub" /\ pc' = [pc EXCEPT ![p] = "deleted"]
  BY Order DEF RemovePub, Advance, Goto
<1>2. TypeOK /\ p \in Processes /\ Readers \subseteq Processes /\ pc[p] \in WriterSteps
  BY <1>1 DEF KSInv, Processes, WriterSteps
<1>3. p \in Deleters
  BY <1>1 DEF KSInv, ProgramInv, Writers
<1>4. TypeOK'
  BY <1>1, <1>2, <1>3 DEF RemovePub, TypeOK, WriterSteps, Ends, At
<1>5. ProgramInv'
  BY <1>1, <1>2, <1>3, KeyStoreAssumption DEF KSInv, ProgramInv, TypeOK, Processes, Writers, Readers
<1>6. WritersInv'
  BY <1>1, <1>2, WriterMoves DEF RemovePub
<1>7. SoleInv'
  BY <1>1, <1>2, BusyWriter DEF RemovePub, KSInv, SoleInv, TypeOK, LastBegun
<1>8. NoHiddenPrivateKey'
  BY <1>1, <1>2, <1>3, BusyWriter, KeyStoreAssumption
  DEF RemovePub, KSInv, NoHiddenPrivateKey, SoleInv
<1>9. FirstFilesInv'
  BY <1>1, <1>2, <1>3, BusyWriter, KeyStoreAssumption
  DEF RemovePub, KSInv, FirstFilesInv, SoleInv, Writers, TypeOK
<1>10. FirstReadersInv'
  <2>1. \A q \in Readers : pc'[q] = pc[q]
    BY <1>1, <1>2, KeyStoreAssumption DEF TypeOK
  <2>2. Len(begun) = 1 /\ priv = begun[1] => priv' = priv
    BY <1>1, <1>2, <1>3, BusyWriter, KeyStoreAssumption
    DEF RemovePub, KSInv, FirstFilesInv, Writers
  <2> QED
    BY <1>2, <2>1, <2>2, BusyWriter DEF RemovePub, KSInv, FirstReadersInv, Opens
<1>11. UnlinkedInv'
  BY WriterUnlinks, Order DEF Write, Begin, RemovePub
<1> QED
  BY <1>4, <1>5, <1>6, <1>7, <1>8, <1>9, <1>10, <1>11 DEF KSInv

\* The end of a writer that is killed.
LEMMA KillStep ==
  ASSUME KSInv, NEW p \in Writers, Kill(p)
  PROVE  KSInv'
<1>1. pc' = [pc EXCEPT ![p] = "stopped"] /\ pc[p] \in WriterSteps
  BY DEF Kill, Goto, Busy
<1>2. TypeOK /\ p \in Processes /\ p \notin Readers
  BY KeyStoreAssumption DEF KSInv, Processes
<1>3. TypeOK' /\ ProgramInv'
  BY <1>1, <1>2 DEF Kill, At, KSInv, TypeOK, ProgramInv, Ends, Processes, Writers, Readers
<1>4. WritersInv'
  BY <1>1, WriterMoves DEF Kill
<1>5. SoleInv' /\ NoHiddenPrivateKey'
  BY <1>1, <1>2, BusyWriter DEF Kill, KSInv, SoleInv, NoHiddenPrivateKey, TypeOK, LastBegun
<1>6. FirstFilesInv'
  BY <1>1, <1>2, BusyWriter DEF Kill, KSInv, FirstFilesInv, TypeOK
<1>7. FirstReadersInv'
  BY <1>1, <1>2, BusyWriter DEF Kill, KSInv, FirstReadersInv, Opens, TypeOK
<1>8. UnlinkedInv'
  BY WriterUnlinks DEF Write, Begin, Kill, Busy, WriterSteps
<1> QED
  BY <1>3, <1>4, <1>5, <1>6, <1>7, <1>8 DEF KSInv

\* The begin of a writer: it is alone if nobody is at work.
LEMMA BeginStep ==
  ASSUME KSInv, NEW p \in Writers, Begin(p)
  PROVE  KSInv'
<1> DEFINE first == After(IF p \in Generators THEN "save" ELSE "delete")
<1>1. /\ pc[p] = "idle" /\ pc' = [pc EXCEPT ![p] = first]
      /\ begun' = Append(begun, p)
      /\ joined' = IF Busy = {} THEN joined ELSE joined \cup {p}
      /\ UNCHANGED <<typed, held, pub, priv, unlinked>>
  BY DEF Begin, Goto
<1>2. first = IF p \in Generators THEN "truncatePub" ELSE "removePriv"
  BY Order
<1> HIDE DEF first
<1>3. TypeOK /\ p \in Processes /\ p \notin Readers /\ Writers \subseteq Processes
  BY KeyStoreAssumption DEF KSInv, Processes
<1>4. /\ begun' \in Seq(Writers) /\ begun' # <<>> /\ LastBegun' = p
      /\ Len(begun') = Len(begun) + 1 /\ Len(begun) \in Nat
      /\ DOMAIN begun' = DOMAIN begun \cup {Len(begun) + 1}
      /\ \A i \in DOMAIN begun : begun'[i] = begun[i]
      /\ begun'[Len(begun) + 1] = p
  BY <1>1, <1>3 DEF TypeOK, LastBegun
<1>5. TypeOK'
  BY <1>1, <1>2, <1>3, <1>4 DEF TypeOK, WriterSteps, At
<1>6. ProgramInv'
  BY <1>1, <1>2, <1>3, KeyStoreAssumption
  DEF KSInv, ProgramInv, TypeOK, Processes, Writers, Readers
<1>7. p \notin joined' => Busy = {} /\ joined' = joined
  BY <1>1
<1>8. Len(begun) = 0 => begun = <<>> /\ Busy = {} /\ joined = {}
  <2>1. Len(begun) = 0 => begun = <<>> /\ DOMAIN begun = {}
    BY <1>3 DEF TypeOK
  <2>2. Len(begun) = 0 => joined = {}
    BY DEF KSInv, WritersInv
  <2> QED
    BY <2>1, <2>2 DEF KSInv, WritersInv, Busy, WriterSteps
<1>first. Len(begun') = 1 => Len(begun) = 0
  <2>1. begun \in Seq(Writers)
    BY <1>3 DEF TypeOK
  <2> QED
    BY <1>1, <2>1
<1>9. WritersInv'
  <2>1. \A q \in Writers : pc'[q] # "idle" <=> \E i \in DOMAIN begun' : begun'[i] = q
    <3>1. \A q \in Writers \ {p} : pc'[q] = pc[q]
      BY <1>1, <1>3 DEF TypeOK
    <3>2. pc'[p] # "idle"
      BY <1>1, <1>2, <1>3 DEF TypeOK
    <3>3. \A q \in Writers : pc[q] # "idle" <=> \E i \in DOMAIN begun : begun[i] = q
      BY DEF KSInv, WritersInv
    <3> QED
      BY <1>4, <3>1, <3>2, <3>3
  <2>2. LastBegun' \notin joined' => Busy' \subseteq {LastBegun'}
    BY <1>1, <1>3, <1>4, <1>7 DEF Busy, TypeOK
  <2>3. Len(begun') <= 1 => joined' = {}
    BY <1>1, <1>4, <1>8
  <2> QED
    BY <2>1, <2>2, <2>3 DEF WritersInv
<1>10. SoleInv'
  BY <1>1, <1>2, <1>3, <1>4 DEF SoleInv, TypeOK
<1>11. NoHiddenPrivateKey'
  BY <1>1 DEF KSInv, NoHiddenPrivateKey
<1>12. FirstFilesInv'
  <2>1. begun' # <<>>
    BY <1>4
  <2>2. Len(begun') = 1 => begun = <<>> /\ begun'[1] = p
    <3>1. Len(begun) = 0 => begun'[1] = p
      BY <1>4
    <3> QED
      BY <1>first, <1>8, <3>1
  <2> QED
    BY <1>1, <2>1, <2>2, KeyStoreAssumption DEF KSInv, FirstFilesInv
<1>13. FirstReadersInv'
  <2>1. begun' # <<>>
    BY <1>4
  <2>2. Len(begun') = 1 => begun = <<>>
    BY <1>first, <1>8
  <2>3. \A q \in Readers : pc'[q] = pc[q]
    BY <1>1, <1>3 DEF TypeOK
  <2> QED
    BY <2>1, <2>2, <2>3 DEF KSInv, FirstReadersInv
<1>14. UnlinkedInv'
  BY <1>1, <1>3, <1>4 DEF UnlinkedInv, TypeOK, At
<1> QED
  BY <1>5, <1>6, <1>9, <1>10, <1>11, <1>12, <1>13, <1>14 DEF KSInv

-----------------------------------------------------------------------------
\* A step of a reader leaves the files and the writers alone.
LEMMA ReaderMoves ==
  ASSUME KSInv, NEW p \in Readers, NEW x, pc' = [pc EXCEPT ![p] = x], Store
  PROVE  WritersInv' /\ UnlinkedInv' /\ SoleInv' /\ NoHiddenPrivateKey' /\ FirstFilesInv'
<1>1. pc \in [Processes -> {"idle"} \cup WriterSteps \cup ReaderSteps \cup Ends]
  BY DEF KSInv, TypeOK
<1>2. \A q \in Writers : pc'[q] = pc[q]
  BY <1>1, KeyStoreAssumption DEF Processes
<1>3. Busy' = Busy
  BY <1>2 DEF Busy
<1>4. begun # <<>> => LastBegun \in Writers
  BY DEF KSInv, TypeOK, LastBegun
<1>5. Len(begun) = 1 => begun[1] \in Writers
  <2>1. begun \in Seq(Writers)
    BY DEF KSInv, TypeOK
  <2> QED
    BY <2>1
<1>6. WritersInv'
  BY <1>2, <1>3 DEF Store, KSInv, WritersInv, LastBegun
<1>7. SoleInv'
  <2>1. begun # <<>> => pc'[LastBegun] = pc[LastBegun] /\ LastBegun' = LastBegun
    BY <1>2, <1>4 DEF Store, LastBegun
  <2> QED
    BY <2>1 DEF Store, KSInv, SoleInv
<1>8. NoHiddenPrivateKey'
  BY DEF Store, KSInv, NoHiddenPrivateKey
<1>9. FirstFilesInv'
  <2>1. Len(begun) = 1 => pc'[begun[1]] = pc[begun[1]]
    BY <1>2, <1>5
  <2> QED
    BY <2>1 DEF Store, KSInv, FirstFilesInv
<1>10. UnlinkedInv'
  BY DEF Store, KSInv, UnlinkedInv, LastBegun
<1> QED
  BY <1>6, <1>7, <1>8, <1>9, <1>10

\* The type of what a reader holds survives a load of either file.
ReaderHolds(p) ==
  \/ UNCHANGED held
  \/ \E k \in Generators \cup {Torn, NoKey} : held' = [held EXCEPT ![p].public = k]
  \/ \E k \in Generators \cup {NoKey} : held' = [held EXCEPT ![p].private = k]

LEMMA ReaderTypes ==
  ASSUME TypeOK, Store, NEW p \in Readers,
         NEW x \in ReaderSteps \cup Ends, Goto(p, x), ReaderHolds(p)
  PROVE  TypeOK'
<1>1. pc' \in [Processes -> {"idle"} \cup WriterSteps \cup ReaderSteps \cup Ends]
  <2>1. pc \in [Processes -> {"idle"} \cup WriterSteps \cup ReaderSteps \cup Ends]
    BY DEF TypeOK
  <2> QED
    BY <2>1 DEF Goto
<1>2. held' \in [Readers -> [public : Generators \cup {Torn, NoKey},
                            private : Generators \cup {NoKey}]]
  <2> DEFINE Keys == [public : Generators \cup {Torn, NoKey}, private : Generators \cup {NoKey}]
  <2>1. held \in [Readers -> Keys]
    BY DEF TypeOK
  <2>2. CASE UNCHANGED held
    BY <2>1, <2>2
  <2>3. ASSUME NEW k \in Generators \cup {Torn, NoKey}, held' = [held EXCEPT ![p].public = k]
        PROVE  held' \in [Readers -> Keys]
    <3>1. [held[p] EXCEPT !.public = k] \in Keys
      BY <2>1
    <3> HIDE DEF Keys
    <3> QED
      BY <2>1, <2>3, <3>1
  <2>4. ASSUME NEW k \in Generators \cup {NoKey}, held' = [held EXCEPT ![p].private = k]
        PROVE  held' \in [Readers -> Keys]
    <3>1. [held[p] EXCEPT !.private = k] \in Keys
      BY <2>1
    <3> HIDE DEF Keys
    <3> QED
      BY <2>1, <2>4, <3>1
  <2> QED
    BY <2>2, <2>3, <2>4 DEF ReaderHolds
<1>3. unlinked' \subseteq At("writePub")' \cup At("writePriv")'
  <2>1. pc'= [pc EXCEPT ![p] = x] /\ p \notin Writers /\ Writers \subseteq Processes
    BY KeyStoreAssumption DEF Goto, Processes
  <2> QED
    BY <2>1 DEF Store, TypeOK, At
<1> QED
  BY <1>1, <1>2, <1>3 DEF Store, TypeOK

\* The steps of LoadDSAKeypair and of its callers that follow one of a reader's own.
Follows(p, x) ==
  /\ p \in Loaders => x \in {"has", "readPub", "readPriv", "readPubAgain", "readPrivAgain",
                             "running", "stopped"}
  /\ p \in Viewers => x \in {"has", "readPub", "readPriv", "shown", "stopped"}

LEMMA ReaderProgram ==
  ASSUME TypeOK, ProgramInv, NEW p \in Readers, NEW x, Goto(p, x), Follows(p, x)
  PROVE  ProgramInv'
<1>1. pc \in [Processes -> {"idle"} \cup WriterSteps \cup ReaderSteps \cup Ends]
  BY DEF TypeOK
<1>2. pc' = [pc EXCEPT ![p] = x] /\ p \in Processes
  BY DEF Goto, Processes
<1>3. p \notin Generators /\ p \notin Deleters
  BY KeyStoreAssumption DEF Writers, Readers
<1>4. /\ Generators \subseteq Processes /\ Deleters \subseteq Processes
      /\ Loaders \subseteq Processes /\ Viewers \subseteq Processes
  BY DEF Processes, Writers, Readers
<1> QED
  BY <1>1, <1>2, <1>3, <1>4 DEF ProgramInv, Follows

\* The steps of the readers, one lemma each.

LEMMA OpenStep ==
  ASSUME KSInv, NEW p \in Readers, Open(p)
  PROVE  KSInv'
<1>1. PICK x : pc' = [pc EXCEPT ![p] = x]
  BY DEF Open, Goto
<1>2. Store /\ TypeOK /\ p \in Processes /\ Readers \subseteq Processes
  BY DEF Open, KSInv, Processes
<1>3. TypeOK'
  <2>1. PICK y \in ReaderSteps \cup Ends : Goto(p, y)
    BY DEF Open, ReaderSteps, Ends
  <2>2. ReaderHolds(p)
    BY <1>2 DEF Open, ReaderHolds, Opens, TypeOK
  <2> QED
    BY <1>2, <2>1, <2>2, ReaderTypes
<1>4. ProgramInv'
  <2>1. PICK y : Goto(p, y) /\ Follows(p, y)
    BY DEF Open, Follows
  <2> QED
    BY <1>2, <2>1, ReaderProgram DEF KSInv
<1>5. WritersInv' /\ UnlinkedInv' /\ SoleInv' /\ NoHiddenPrivateKey' /\ FirstFilesInv'
  BY <1>1, <1>2, ReaderMoves
<1>6. FirstReadersInv'
  BY <1>2, KeyStoreAssumption
  DEF Open, Store, Goto, KSInv, FirstReadersInv, FirstFilesInv, Opens, TypeOK
<1> QED
  BY <1>3, <1>4, <1>5, <1>6 DEF KSInv

LEMMA HasStep ==
  ASSUME KSInv, NEW p \in Readers, Has(p)
  PROVE  KSInv'
<1>1. PICK x : pc' = [pc EXCEPT ![p] = x]
  BY DEF Has, Goto
<1>2. Store /\ TypeOK /\ p \in Processes /\ Readers \subseteq Processes
  BY DEF Has, KSInv, Processes
<1>3. TypeOK'
  <2>1. PICK y \in ReaderSteps \cup Ends : Goto(p, y)
    BY DEF Has, ReaderSteps, Ends
  <2>2. ReaderHolds(p)
    BY <1>2 DEF Has, ReaderHolds, Opens, TypeOK
  <2> QED
    BY <1>2, <2>1, <2>2, ReaderTypes
<1>4. ProgramInv'
  <2>1. PICK y : Goto(p, y) /\ Follows(p, y)
    BY DEF Has, Follows
  <2> QED
    BY <1>2, <2>1, ReaderProgram DEF KSInv
<1>5. WritersInv' /\ UnlinkedInv' /\ SoleInv' /\ NoHiddenPrivateKey' /\ FirstFilesInv'
  BY <1>1, <1>2, ReaderMoves
<1>6. FirstReadersInv'
  BY <1>2, KeyStoreAssumption
  DEF Has, Store, Goto, KSInv, FirstReadersInv, FirstFilesInv, Opens, TypeOK
<1> QED
  BY <1>3, <1>4, <1>5, <1>6 DEF KSInv

LEMMA ReadPubStep ==
  ASSUME KSInv, NEW p \in Readers, ReadPub(p)
  PROVE  KSInv'
<1>1. PICK x : pc' = [pc EXCEPT ![p] = x]
  BY DEF ReadPub, Goto
<1>2. Store /\ TypeOK /\ p \in Processes /\ Readers \subseteq Processes
  BY DEF ReadPub, KSInv, Processes
<1>3. TypeOK'
  <2>1. PICK y \in ReaderSteps \cup Ends : Goto(p, y)
    BY DEF ReadPub, ReaderSteps, Ends
  <2>2. ReaderHolds(p)
    BY <1>2 DEF ReadPub, ReaderHolds, Opens, TypeOK
  <2> QED
    BY <1>2, <2>1, <2>2, ReaderTypes
<1>4. ProgramInv'
  <2>1. PICK y : Goto(p, y) /\ Follows(p, y)
    BY DEF ReadPub, Follows
  <2> QED
    BY <1>2, <2>1, ReaderProgram DEF KSInv
<1>5. WritersInv' /\ UnlinkedInv' /\ SoleInv' /\ NoHiddenPrivateKey' /\ FirstFilesInv'
  BY <1>1, <1>2, ReaderMoves
<1>6. FirstReadersInv'
  BY <1>2, KeyStoreAssumption
  DEF ReadPub, Store, Goto, KSInv, FirstReadersInv, FirstFilesInv, Opens, TypeOK
<1> QED
  BY <1>3, <1>4, <1>5, <1>6 DEF KSInv

LEMMA ReadPrivStep ==
  ASSUME KSInv, NEW p \in Readers, ReadPriv(p)
  PROVE  KSInv'
<1>1. PICK x : pc' = [pc EXCEPT ![p] = x]
  BY DEF ReadPriv, Goto
<1>2. Store /\ TypeOK /\ p \in Processes /\ Readers \subseteq Processes
  BY DEF ReadPriv, KSInv, Processes
<1>3. TypeOK'
  <2>1. PICK y \in ReaderSteps \cup Ends : Goto(p, y)
    BY DEF ReadPriv, ReaderSteps, Ends
  <2>2. ReaderHolds(p)
    BY <1>2 DEF ReadPriv, ReaderHolds, Opens, TypeOK
  <2> QED
    BY <1>2, <2>1, <2>2, ReaderTypes
<1>4. ProgramInv'
  <2>1. PICK y : Goto(p, y) /\ Follows(p, y)
    BY KeyStoreAssumption DEF ReadPriv, Follows
  <2> QED
    BY <1>2, <2>1, ReaderProgram DEF KSInv
<1>5. WritersInv' /\ UnlinkedInv' /\ SoleInv' /\ NoHiddenPrivateKey' /\ FirstFilesInv'
  BY <1>1, <1>2, ReaderMoves
<1>6. FirstReadersInv'
  BY <1>2, KeyStoreAssumption
  DEF ReadPriv, Store, Goto, KSInv, FirstReadersInv, FirstFilesInv, Opens, TypeOK
<1> QED
  BY <1>3, <1>4, <1>5, <1>6 DEF KSInv

LEMMA ReadPubAgainStep ==
  ASSUME KSInv, NEW p \in Readers, ReadPubAgain(p)
  PROVE  KSInv'
<1>1. PICK x : pc' = [pc EXCEPT ![p] = x]
  BY DEF ReadPubAgain, Goto
<1>2. Store /\ TypeOK /\ p \in Processes /\ Readers \subseteq Processes
  BY DEF ReadPubAgain, KSInv, Processes
<1>3. TypeOK'
  <2>1. PICK y \in ReaderSteps \cup Ends : Goto(p, y)
    BY DEF ReadPubAgain, ReaderSteps, Ends
  <2>2. ReaderHolds(p)
    BY <1>2 DEF ReadPubAgain, ReaderHolds, Opens, TypeOK
  <2> QED
    BY <1>2, <2>1, <2>2, ReaderTypes
<1>4. ProgramInv'
  <2>1. PICK y : Goto(p, y) /\ Follows(p, y)
    BY DEF ReadPubAgain, KSInv, ProgramInv, Follows
  <2> QED
    BY <1>2, <2>1, ReaderProgram DEF KSInv
<1>5. WritersInv' /\ UnlinkedInv' /\ SoleInv' /\ NoHiddenPrivateKey' /\ FirstFilesInv'
  BY <1>1, <1>2, ReaderMoves
<1>6. FirstReadersInv'
  BY <1>2, KeyStoreAssumption
  DEF ReadPubAgain, Store, Goto, KSInv, FirstReadersInv, FirstFilesInv, Opens, TypeOK
<1> QED
  BY <1>3, <1>4, <1>5, <1>6 DEF KSInv

LEMMA ReadPrivAgainStep ==
  ASSUME KSInv, NEW p \in Readers, ReadPrivAgain(p)
  PROVE  KSInv'
<1>1. PICK x : pc' = [pc EXCEPT ![p] = x]
  BY DEF ReadPrivAgain, Goto
<1>2. Store /\ TypeOK /\ p \in Processes /\ Readers \subseteq Processes
  BY DEF ReadPrivAgain, KSInv, Processes
<1>3. TypeOK'
  <2>1. PICK y \in ReaderSteps \cup Ends : Goto(p, y)
    BY DEF ReadPrivAgain, ReaderSteps, Ends
  <2>2. ReaderHolds(p)
    BY <1>2 DEF ReadPrivAgain, ReaderHolds, Opens, TypeOK
  <2> QED
    BY <1>2, <2>1, <2>2, ReaderTypes
<1>4. ProgramInv'
  <2>1. PICK y : Goto(p, y) /\ Follows(p, y)
    BY DEF ReadPrivAgain, KSInv, ProgramInv, Follows
  <2> QED
    BY <1>2, <2>1, ReaderProgram DEF KSInv
<1>5. WritersInv' /\ UnlinkedInv' /\ SoleInv' /\ NoHiddenPrivateKey' /\ FirstFilesInv'
  BY <1>1, <1>2, ReaderMoves
<1>6. FirstReadersInv'
  BY <1>2, KeyStoreAssumption
  DEF ReadPrivAgain, Store, Goto, KSInv, FirstReadersInv, FirstFilesInv, Opens, TypeOK
<1> QED
  BY <1>3, <1>4, <1>5, <1>6 DEF KSInv

-----------------------------------------------------------------------------
\* Every step preserves the invariant.
LEMMA KSNext == KSInv /\ [Next]_vars => KSInv'
<1> SUFFICES ASSUME KSInv, [Next]_vars PROVE KSInv'
  OBVIOUS
<1>1. ASSUME NEW p \in Writers, Write(p) PROVE KSInv'
  BY <1>1, BeginStep, KillStep, TruncatePubStep, WritePubStep, TruncatePrivStep,
     WritePrivStep, RemovePrivStep, RemovePubStep DEF Write
<1>2. ASSUME NEW p \in Readers, Read(p) PROVE KSInv'
  BY <1>2, OpenStep, HasStep, ReadPubStep, ReadPrivStep, ReadPubAgainStep,
     ReadPrivAgainStep DEF Read
<1>3. CASE UNCHANGED vars
  BY <1>3 DEF vars, KSInv, TypeOK, ProgramInv, WritersInv, UnlinkedInv, SoleInv, LastBegun, Busy, At,
              NoHiddenPrivateKey, FirstFilesInv, FirstReadersInv, Opens
<1> QED
  BY <1>1, <1>2, <1>3 DEF Next

\* The inductive invariant holds in every reachable state.
THEOREM StoreCorrect == Spec => []KSInv
BY KSInit, KSNext, PTL DEF Spec

\* Type correctness: no reader ever holds a private key that was not saved
\* completely.
THEOREM StoreTypeCorrect == Spec => []TypeOK
<1>1. KSInv => TypeOK
  BY DEF KSInv
<1> QED
  BY <1>1, StoreCorrect, PTL

\* Saves and deletes that do not overlap, killed anywhere, never leave a
\* private key that HasKeypair does not see.
THEOREM NoHiddenPrivateKeyHolds == Spec => []NoHiddenPrivateKey
<1>1. KSInv => NoHiddenPrivateKey
  BY DEF KSInv
<1> QED
  BY <1>1, StoreCorrect, PTL

\* The last writer leaves what it was asked to leave if it was alone.
THEOREM SoleWriterDecidesHolds == Spec => []SoleWriterDecides
<1>1. KSInv => SoleWriterDecides
  BY DEF KSInv, SoleInv, SoleWriterDecides
<1> QED
  BY <1>1, StoreCorrect, PTL

\* A connect that races with the first generate fails or runs with its pair.
THEOREM FirstSaveIsSafeHolds == Spec => []FirstSaveIsSafe
<1>1. KSInv => FirstSaveIsSafe
  <2> SUFFICES ASSUME KSInv, Len(begun) = 1, NEW p \in Readers
               PROVE  /\ Running(p) => held[p] = [public |-> begun[1], private |-> begun[1]]
                      /\ pc[p] = "shown" => held[p].public \in {begun[1], Torn}
    BY DEF FirstSaveIsSafe
  <2>1. held[p] \in [public : Generators \cup {Torn, NoKey}, private : Generators \cup {NoKey}]
    BY DEF KSInv, TypeOK
  <2>2. pc[p] = "shown" => p \in Viewers
    BY DEF KSInv, ProgramInv, Readers
  <2> QED
    BY <2>1, <2>2 DEF Running, KSInv, FirstReadersInv
<1> QED
  BY <1>1, StoreCorrect, PTL

-----------------------------------------------------------------------------
\* The ages of the keys, while writers do not overlap: the public key in the
\* store is never older than the private key there, nor than one that a
\* reader has loaded and is about to load a public key for.
Saved(g) == \E i \in DOMAIN begun : begun[i] = g

AgeInv ==
  joined = {} =>
    /\ priv \in Generators => Saved(priv)
    /\ pub \in Generators /\ priv \in Generators => NotOlder(pub, priv)
    /\ \A p \in Loaders :
         /\ pc[p] \in {"readPriv", "readPubAgain"} => held[p].public = NoKey
         /\ pc[p] = "readPubAgain" =>
              /\ held[p].private \in Generators /\ Saved(held[p].private)
              /\ pub \in Generators => NotOlder(pub, held[p].private)
         /\ pc[p] \in {"readPrivAgain", "running"} /\ held[p].public \in Generators =>
              NotOlder(held[p].public, held[p].private)

\* What has begun stays so, and nobody becomes younger.
LEMMA AgesStay ==
  ASSUME begun \in Seq(Writers),
         begun' = begun \/ \E w \in Writers : begun' = Append(begun, w)
  PROVE  /\ \A g : Saved(g) => Saved(g)'
         /\ \A g, h : NotOlder(g, h) => NotOlder(g, h)'
<1>1. \A i \in DOMAIN begun : i \in DOMAIN begun' /\ begun'[i] = begun[i]
  OBVIOUS
<1> QED
  BY <1>1 DEF Saved, NotOlder

\* The last writer is no older than any.
LEMMA LastIsYoungest ==
  ASSUME begun \in Seq(Writers), begun # <<>>, NEW g, Saved(g)
  PROVE  NotOlder(LastBegun, g)
<1>1. PICK i \in DOMAIN begun : begun[i] = g
  BY DEF Saved
<1>2. Len(begun) \in DOMAIN begun /\ Len(begun) >= i
  BY <1>1
<1> QED
  BY <1>1, <1>2 DEF NotOlder, LastBegun

\* Nobody has begun, nothing is loaded.
LEMMA AgeInit == Init => AgeInv
BY KeyStoreAssumption DEF Init, AgeInv, Readers, Processes

\* A step of a writer: only the writes of the two files matter.
LEMMA AgeWrite ==
  ASSUME KSInv, AgeInv, NEW p \in Writers, Write(p)
  PROVE  AgeInv'
<1>1. /\ begun \in Seq(Writers) /\ UNCHANGED held
      /\ begun' = begun \/ begun' = Append(begun, p)
      /\ joined' = {} => joined = {}
  BY DEF KSInv, TypeOK, Write, Begin, Kill, TruncatePub, WritePub, TruncatePriv,
         WritePriv, RemovePriv, RemovePub
<1>2. /\ \A g : Saved(g) => Saved(g)'
      /\ \A g, h : NotOlder(g, h) => NotOlder(g, h)'
  BY <1>1, AgesStay
<1>3. \A q \in Loaders : pc'[q] = pc[q]
  <2>1. \E x : pc' = [pc EXCEPT ![p] = x]
    BY DEF Write, Begin, Kill, TruncatePub, WritePub, TruncatePriv, WritePriv,
           RemovePriv, RemovePub, Advance, Goto
  <2> QED
    BY <2>1, KeyStoreAssumption DEF KSInv, TypeOK, Processes, Readers
<1> SUFFICES ASSUME joined' = {} PROVE AgeInv'
  BY DEF AgeInv
<1>4. CASE WritePub(p)
  <2>1. p = LastBegun /\ begun # <<>> /\ begun' = begun /\ pub' = p /\ priv' = priv
    BY <1>1, <1>4, BusyWriter, Orphan DEF WritePub, Written, WriterSteps
  <2>2. ASSUME NEW g, Saved(g) PROVE NotOlder(p, g)'
    BY <1>1, <1>2, <2>1, <2>2, LastIsYoungest
  <2> QED
    BY <1>1, <1>2, <1>3, <2>1, <2>2 DEF AgeInv
<1>5. CASE WritePriv(p)
  <2>1. /\ p = LastBegun /\ begun # <<>> /\ begun' = begun
        /\ pub' = pub /\ priv' = p /\ pub = p
    BY <1>1, <1>5, BusyWriter, Orphan DEF WritePriv, Written, WriterSteps, KSInv, SoleInv
  <2>2. Saved(p)
    BY <1>1, <2>1 DEF Saved, LastBegun
  <2>3. NotOlder(p, p)
    BY <1>1, <2>1, <2>2, LastIsYoungest
  <2> QED
    BY <1>1, <1>2, <1>3, <2>1, <2>2, <2>3 DEF AgeInv
<1>6. CASE pub' \in {pub, Torn, Absent} /\ priv' \in {priv, Torn, Absent}
  BY <1>1, <1>2, <1>3, <1>6, KeyStoreAssumption DEF AgeInv
<1> QED
  BY <1>4, <1>5, <1>6
  DEF Write, Begin, Kill, TruncatePub, TruncatePriv, RemovePriv, RemovePub

\* A step of a reader: the second load takes what is in the store.
LEMMA AgeRead ==
  ASSUME KSInv, AgeInv, NEW p \in Readers, Read(p)
  PROVE  AgeInv'
<1>1. begun \in Seq(Writers) /\ begun' = begun /\ joined' = joined /\ pub' = pub /\ priv' = priv
  BY DEF KSInv, TypeOK, Read, Open, Has, ReadPub, ReadPriv, ReadPubAgain,
         ReadPrivAgain, Store
<1>2. /\ \A g : Saved(g) => Saved(g)'
      /\ \A g, h : NotOlder(g, h) => NotOlder(g, h)'
  BY <1>1, AgesStay
<1>3. /\ \A q \in Loaders \ {p} : pc'[q] = pc[q] /\ held'[q] = held[q]
      /\ pc \in [Processes -> {"idle"} \cup WriterSteps \cup ReaderSteps \cup Ends]
      /\ held \in [Readers -> [public : Generators \cup {Torn, NoKey},
                              private : Generators \cup {NoKey}]]
      /\ p \in Processes
  BY DEF KSInv, TypeOK, Read, Open, Has, ReadPub, ReadPriv, ReadPubAgain,
         ReadPrivAgain, Goto, Readers, Processes
<1> SUFFICES ASSUME joined' = {}, p \in Loaders
             PROVE  /\ pc'[p] \in {"readPriv", "readPubAgain"} => held'[p].public = NoKey
                    /\ pc'[p] = "readPubAgain" =>
                         /\ held'[p].private \in Generators /\ Saved(held[p].private)'
                         /\ pub' \in Generators => NotOlder(pub, held[p].private)'
                    /\ pc'[p] \in {"readPrivAgain", "running"} /\ held'[p].public \in Generators =>
                         NotOlder(held[p].public, held[p].private)'
  BY <1>1, <1>2, <1>3 DEF AgeInv
<1>4. CASE Open(p) \/ Has(p) \/ ReadPub(p)
  BY <1>1, <1>2, <1>3, <1>4, KeyStoreAssumption DEF Open, Has, ReadPub, Goto
<1>5. CASE ReadPriv(p)
  BY <1>1, <1>2, <1>3, <1>5 DEF ReadPriv, Opens, Goto, AgeInv
<1>6. CASE ReadPubAgain(p)
  BY <1>1, <1>2, <1>3, <1>6, KeyStoreAssumption DEF ReadPubAgain, Goto, AgeInv
<1>7. CASE ReadPrivAgain(p)
  BY <1>1, <1>2, <1>3, <1>7, KeyStoreAssumption DEF ReadPrivAgain, Goto, AgeInv
<1> QED
  BY <1>4, <1>5, <1>6, <1>7 DEF Read

\* While writers do not overlap, a connect or server never runs with a public
\* key that is older than its private key.
THEOREM PublicNeverOlderHolds == Spec => []PublicNeverOlder
<1>1. KSInv /\ AgeInv /\ [Next]_vars => AgeInv'
  <2> SUFFICES ASSUME KSInv, AgeInv, [Next]_vars PROVE AgeInv'
    OBVIOUS
  <2>1. CASE UNCHANGED vars
    BY <2>1 DEF vars, AgeInv, Saved, NotOlder
  <2> QED
    BY <2>1, AgeWrite, AgeRead DEF Next
<1>2. AgeInv => PublicNeverOlder
  BY DEF AgeInv, PublicNeverOlder, Running
<1> QED
  BY <1>1, <1>2, AgeInit, StoreCorrect, PTL DEF Spec
=============================================================================
