------------------------------ MODULE KeyStore ------------------------------
(***************************************************************************)
(* The key store of pkg/identity/store.go as the commands of main.go use   *)
(* it: processes that share two files, default.pub and default.priv, and   *)
(* may be killed.  `generate' saves a pair, `connect' and `server' load    *)
(* one (twice), `show-id' loads one and prints the ID of its public key.   *)
(* DeleteKeypair is modelled as one more process, although no command      *)
(* calls it.  A pair has the name of the process that generated it.        *)
(***************************************************************************)
EXTENDS Integers, Sequences

CONSTANTS
  Generators,   \* processes that run generate
  Deleters,     \* processes that call DeleteKeypair
  Loaders,      \* processes that run connect or server
  Viewers,      \* processes that run show-id
  Passwords,    \* master passwords that may be typed
  MayKill,      \* whether a process may be killed, or fail to write, half way
  Absent,       \* no such file
  Torn,         \* a file that is truncated or not completely written
  NoKey         \* nil

Writers == Generators \cup Deleters
Readers == Loaders \cup Viewers
Processes == Writers \cup Readers

ASSUME KeyStoreAssumption ==
  /\ Generators \cap Deleters = {} /\ Loaders \cap Viewers = {}
  /\ Writers \cap Readers = {}
  /\ {Absent, Torn, NoKey} \cap Generators = {}
  /\ Absent # Torn /\ Absent # NoKey /\ Torn # NoKey
  /\ MayKill \in BOOLEAN

VARIABLES
  pc,       \* the next step of each process
  typed,    \* the master password typed to it
  held,     \* the keys a reader has in memory
  pub,      \* content of default.pub
  priv,     \* content of default.priv; a pair g is sealed under typed[g]
  unlinked, \* who has a file open that was removed since
  begun,    \* history: the writers in the order in which they began
  joined    \* history: the writers that began while another was at work

vars == <<pc, typed, held, pub, priv, unlinked, begun, joined>>

WriterSteps ==
  {"truncatePub", "writePub", "truncatePriv", "writePriv", "removePriv", "removePub"}
ReaderSteps == {"has", "readPub", "readPriv", "readPubAgain", "readPrivAgain"}
Ends == {"saved", "deleted", "running", "shown", "stopped"}

Init ==
  /\ pc = [p \in Processes |-> "idle"]
  /\ typed \in [Generators \cup Readers -> Passwords]
  /\ held = [p \in Readers |-> [public |-> NoKey, private |-> NoKey]]
  /\ pub = Absent /\ priv = Absent /\ unlinked = {}
  /\ begun = <<>> /\ joined = {}

At(step) == {p \in Writers : pc[p] = step}
Busy == {p \in Writers : pc[p] \in WriterSteps}

-----------------------------------------------------------------------------
\* Mutant: SaveDSAKeypair writes the private key first.
AfterPrivateFirst(step) ==
  CASE step = "save"         -> "truncatePriv"
    [] step = "truncatePriv" -> "writePriv"
    [] step = "writePriv"    -> "truncatePub"
    [] step = "truncatePub"  -> "writePub"
    [] step = "writePub"     -> "saved"
    [] step = "delete"       -> "removePriv"
    [] step = "removePriv"   -> "removePub"
    [] step = "removePub"    -> "deleted"

\* Mutant: DeleteKeypair removes the public key first.
AfterRemovePublicFirst(step) ==
  CASE step = "save"         -> "truncatePub"
    [] step = "truncatePub"  -> "writePub"
    [] step = "writePub"     -> "truncatePriv"
    [] step = "truncatePriv" -> "writePriv"
    [] step = "writePriv"    -> "saved"
    [] step = "delete"       -> "removePub"
    [] step = "removePub"    -> "removePriv"
    [] step = "removePriv"   -> "deleted"

\* The order of the system calls of SaveDSAKeypair and DeleteKeypair;
\* os.WriteFile truncates the file, then writes it.
After(step) ==
  CASE step = "save"         -> "truncatePub"
    [] step = "truncatePub"  -> "writePub"
    [] step = "writePub"     -> "truncatePriv"
    [] step = "truncatePriv" -> "writePriv"
    [] step = "writePriv"    -> "saved"
    [] step = "delete"       -> "removePriv"
    [] step = "removePriv"   -> "removePub"
    [] step = "removePub"    -> "deleted"

Goto(p, step) == pc' = [pc EXCEPT ![p] = step]
Advance(p) == Goto(p, After(pc[p]))

\* A writer enters SaveDSAKeypair or DeleteKeypair.
Begin(p) ==
  /\ p \in Writers /\ pc[p] = "idle"
  /\ Goto(p, After(IF p \in Generators THEN "save" ELSE "delete"))
  /\ begun' = Append(begun, p)
  /\ joined' = IF Busy = {} THEN joined ELSE joined \cup {p}
  /\ UNCHANGED <<typed, held, pub, priv, unlinked>>

TruncatePub(p) ==
  /\ pc[p] = "truncatePub"
  /\ pub' = Torn /\ Advance(p)
  /\ UNCHANGED <<typed, held, priv, unlinked, begun, joined>>

\* What is written to a file that was removed since it was opened is in no file.
Written(p, file) == IF p \in unlinked THEN file ELSE p

WritePub(p) ==
  /\ pc[p] = "writePub"
  /\ pub' = Written(p, pub) /\ unlinked' = unlinked \ {p} /\ Advance(p)
  /\ UNCHANGED <<typed, held, priv, begun, joined>>

\* Mutant: an existing private key is never overwritten.
TruncatePrivIfAbsent(p) ==
  /\ pc[p] = "truncatePriv"
  /\ IF priv = Absent THEN priv' = Torn /\ Advance(p)
     ELSE UNCHANGED priv /\ Goto(p, "saved")
  /\ UNCHANGED <<typed, held, pub, unlinked, begun, joined>>

TruncatePriv(p) ==
  /\ pc[p] = "truncatePriv"
  /\ priv' = Torn /\ Advance(p)
  /\ UNCHANGED <<typed, held, pub, unlinked, begun, joined>>

WritePriv(p) ==
  /\ pc[p] = "writePriv"
  /\ priv' = Written(p, priv) /\ unlinked' = unlinked \ {p} /\ Advance(p)
  /\ UNCHANGED <<typed, held, pub, begun, joined>>

\* os.Remove takes away the name; a file that is open can still be written.
RemovePriv(p) ==
  /\ pc[p] = "removePriv"
  /\ priv' = Absent /\ unlinked' = unlinked \cup At("writePriv") /\ Advance(p)
  /\ UNCHANGED <<typed, held, pub, begun, joined>>

RemovePub(p) ==
  /\ pc[p] = "removePub"
  /\ pub' = Absent /\ unlinked' = unlinked \cup At("writePub") /\ Advance(p)
  /\ UNCHANGED <<typed, held, priv, begun, joined>>

\* A writer is killed, or a system call of it fails: it returns the error.
Kill(p) ==
  /\ MayKill
  /\ p \in Busy
  /\ unlinked' = unlinked \ {p} /\ Goto(p, "stopped")
  /\ UNCHANGED <<typed, held, pub, priv, begun, joined>>

-----------------------------------------------------------------------------
\* A reader: HasKeypair, LoadDSAKeypair and, except for show-id, a second
\* LoadDSAKeypair.

Store == UNCHANGED <<typed, pub, priv, unlinked, begun, joined>>

Open(p) ==
  /\ p \in Readers /\ pc[p] = "idle"
  /\ Goto(p, "has")
  /\ UNCHANGED held /\ Store

\* HasKeypair looks at the public file only.
Has(p) ==
  /\ pc[p] = "has"
  /\ Goto(p, IF pub = Absent THEN "stopped" ELSE "readPub")
  /\ UNCHANGED held /\ Store

\* show-id keeps this public key, connect and server drop it.
ReadPub(p) ==
  /\ pc[p] = "readPub"
  /\ IF pub = Absent THEN Goto(p, "stopped") /\ UNCHANGED held
     ELSE /\ held' = [held EXCEPT ![p].public = IF p \in Viewers THEN pub ELSE NoKey]
          /\ Goto(p, "readPriv")
  /\ Store

\* Mutant: what cannot be opened is taken as it is.
OpensAnything(p) == priv # Absent

\* The private key file opens under the master password typed.
Opens(p) == priv \in Generators /\ typed[priv] = typed[p]

ReadPriv(p) ==
  /\ pc[p] = "readPriv"
  /\ IF ~Opens(p) THEN Goto(p, "stopped") /\ UNCHANGED held
     ELSE /\ held' = [held EXCEPT ![p].private = priv]
          /\ Goto(p, IF p \in Viewers THEN "shown" ELSE "readPubAgain")
  /\ Store

\* The second load; its error is ignored and leaves the public key nil.
ReadPubAgain(p) ==
  /\ pc[p] = "readPubAgain"
  /\ IF pub = Absent THEN Goto(p, "running") /\ UNCHANGED held
     ELSE /\ held' = [held EXCEPT ![p].public = pub]
          /\ Goto(p, "readPrivAgain")
  /\ Store

ReadPrivAgain(p) ==
  /\ pc[p] = "readPrivAgain"
  /\ held' = IF Opens(p) THEN held ELSE [held EXCEPT ![p].public = NoKey]
  /\ Goto(p, "running")
  /\ Store

-----------------------------------------------------------------------------
Write(p) ==
  \/ Begin(p) \/ Kill(p)
  \/ TruncatePub(p) \/ WritePub(p) \/ TruncatePriv(p) \/ WritePriv(p)
  \/ RemovePriv(p) \/ RemovePub(p)
Read(p) ==
  \/ Open(p) \/ Has(p) \/ ReadPub(p) \/ ReadPriv(p)
  \/ ReadPubAgain(p) \/ ReadPrivAgain(p)

Next == (\E p \in Writers : Write(p)) \/ (\E p \in Readers : Read(p))

Spec == Init /\ [][Next]_vars
-----------------------------------------------------------------------------
\* The types of the variables.  No reader holds a private key that was not
\* saved completely.
TypeOK ==
  /\ pc \in [Processes -> {"idle"} \cup WriterSteps \cup ReaderSteps \cup Ends]
  /\ typed \in [Generators \cup Readers -> Passwords]
  /\ held \in [Readers -> [public : Generators \cup {Torn, NoKey},
                           private : Generators \cup {NoKey}]]
  /\ pub \in Generators \cup {Absent, Torn}
  /\ priv \in Generators \cup {Absent, Torn}
  /\ unlinked \subseteq At("writePub") \cup At("writePriv")
  /\ begun \in Seq(Writers)
  /\ joined \subseteq Writers

\* store.go:89: because saving writes the public key first and deleting
\* removes it last, a private key is never left where HasKeypair and
\* ListKeypairs do not see it, wherever saves and deletes that did not overlap
\* were killed.
NoHiddenPrivateKey == joined = {} => (priv # Absent => pub # Absent)

LastBegun == begun[Len(begun)]

\* The last writer, if it was alone from its begin to its end, leaves what it
\* was asked to leave, whatever killed or overlapping writers left before.
SoleWriterDecides ==
  begun # <<>> /\ LastBegun \notin joined =>
    /\ pc[LastBegun] = "saved" => pub = LastBegun /\ priv = LastBegun
    /\ pc[LastBegun] = "deleted" => pub = Absent /\ priv = Absent

Running(p) == pc[p] = "running"

\* A connect that races with the first generate, or with what is left of it
\* when it is killed, fails or runs with its pair: the private key is written
\* last, and the public key is the one of the second load.  A show-id, which
\* loads once, may have read the public key too early, but not a wrong one.
FirstSaveIsSafe ==
  Len(begun) = 1 =>
    \A p \in Readers :
      /\ Running(p) => held[p] = [public |-> begun[1], private |-> begun[1]]
      /\ pc[p] = "shown" => held[p].public \in {begun[1], Torn}

\* The generate g began no earlier than the generate h.
NotOlder(g, h) == \E i, j \in DOMAIN begun : i >= j /\ begun[i] = g /\ begun[j] = h

\* When writers do not overlap, a connect or server may run with a public key
\* that is newer than its private key, never with one that is older.
PublicNeverOlder ==
  joined = {} =>
    \A p \in Loaders :
      Running(p) /\ held[p].public \in Generators =>
        NotOlder(held[p].public, held[p].private)

-----------------------------------------------------------------------------
\* store.go:54: LoadDSAKeypair loads a keypair.  A connect or server that goes
\* on after the loads has the public and the private key of one pair.
RunsWithOnePair ==
  \A p \in Loaders : Running(p) => held[p].public = held[p].private
=============================================================================
