--------------------------- MODULE ExperimentLedger ---------------------------
(***************************************************************************)
(* fo-experiment: processes append experiment records to a JSONL ledger    *)
(* under a lock file, and promote the best recorded profile of a corpus    *)
(* into a registry file behind regression gates.  Nothing but the append   *)
(* takes the lock.                                                         *)
(*                                                                         *)
(* Abstractions.  The ledger is a sequence of the pieces a write can end   *)
(* at: the text of a record, cut once anywhere, and the newline.  Metrics  *)
(* are whole numbers; MaxScore is a score of 1.  A record is what report,  *)
(* method and profile make of it; its times and fingerprints are left out, *)
(* and of the metrics those that only have to be in bounds.                *)
(***************************************************************************)
EXTENDS Integers, Sequences

CONSTANTS Processes,     \* running fo-experiment commands
          Corpora,       \* corpus identifiers
          Recordings,    \* `record' commands: [run_id, report, method, profile]; a report
                         \* is [corpus, methods], a method [name, macro, micro, recall, p95]
          Selections,    \* what is asked of a record: [corpus, method, macro, micro,
                         \* recall, p95], method and p95 None if nothing is asked
          Allowed,       \* what a promotion may lose: [delta, micro, recall, p95 (percent)]
          MaxScore,
          MaxPieces,     \* length of the ledger at which recording stops (bound)
          None           \* absent: a file, an entry

\* A report is recorded for one of its methods, with a profile or without.
MethodsNamed(c) == {m \in c.report.methods : m.name = c.method}
Recorded(c) ==
  LET m == CHOOSE x \in MethodsNamed(c) : TRUE
  IN  [run_id |-> c.run_id, corpus |-> c.report.corpus, method |-> c.method,
       profile |-> c.profile, macro |-> m.macro, micro |-> m.micro, recall |-> m.recall,
       p95 |-> m.p95]
ValidMetrics(r) == {r.macro, r.micro, r.recall} \subseteq 0 .. MaxScore /\ r.p95 >= 0
Records == {r \in {Recorded(c) : c \in {x \in Recordings : MethodsNamed(x) # {}}} : ValidMetrics(r)}

ASSUME RecordsAssumption ==
  /\ \A r \in Records : r.corpus \in Corpora
  /\ MaxScore \in Nat
  /\ MaxPieces \in Nat

ASSUME NoneAssumption ==
  None \notin Records /\ None \notin [Corpora -> Records \cup {None}]

VARIABLES
  ledger,    \* the pieces in the ledger file
  lock_file, \* does the lock file exist?
  registry,  \* the promotions in the registry file, or None
  pc,        \* where each process is
  record,    \* the record it appends or promotes, or None
  written,   \* the pieces of it that are in the ledger
  asked,     \* what it promotes, one of Selections, or None
  staged     \* the registry it is about to install, or None

vars == <<ledger, lock_file, registry, pc, record, written, asked, staged>>

Places     == {"idle", "check", "write", "unlock", "gate", "stage", "remove", "rename"}
Promotions == [Corpora -> Records \cup {None}]

Start(r) == <<r, "start">>
Rest(r)  == <<r, "rest">>
Newline  == <<None, "newline">>
Line(r)  == <<Start(r), Rest(r), Newline>>
Pieces   == {Start(r) : r \in Records} \cup {Rest(r) : r \in Records} \cup {Newline}

\* Where the text of r begins, and the records whose text is complete.
Begun(r) == {i \in DOMAIN ledger : ledger[i] = Start(r)}
Whole    == {r \in Records : \E i \in Begun(r) : i < Len(ledger) /\ ledger[i + 1] = Rest(r)}

\* read_ledger: every line that is not blank is one whole record, and no run
\* identifier occurs twice.
Readable ==
  /\ \A r \in Records : \A i \in Begun(r) :
       /\ i > 1 => ledger[i - 1] = Newline
       /\ i < Len(ledger) /\ ledger[i + 1] = Rest(r)
  /\ \A q, r \in Records : \A i \in Begun(q), j \in Begun(r) :
       q.run_id = r.run_id => i = j

Init ==
  /\ ledger = << >>
  /\ lock_file = FALSE
  /\ registry = None
  /\ pc = [p \in Processes |-> "idle"]
  /\ record = [p \in Processes |-> None]
  /\ written = [p \in Processes |-> 0]
  /\ asked = [p \in Processes |-> None]
  /\ staged = [p \in Processes |-> None]

\* The command ends and its locals with it.
End(p) ==
  /\ pc' = [pc EXCEPT ![p] = "idle"]
  /\ record' = [record EXCEPT ![p] = None]
  /\ written' = [written EXCEPT ![p] = 0]
  /\ asked' = [asked EXCEPT ![p] = None]
  /\ staged' = [staged EXCEPT ![p] = None]

-----------------------------------------------------------------------------
(* record *)

\* Mutation: the file is opened whether or not it exists.
AcquireShared(p) ==
  /\ pc[p] = "idle"
  /\ Len(ledger) + 3 <= MaxPieces
  /\ \E r \in Records : record' = [record EXCEPT ![p] = r]
  /\ lock_file' = TRUE
  /\ pc' = [pc EXCEPT ![p] = "check"]
  /\ UNCHANGED <<ledger, registry, written, asked, staged>>

\* LedgerLock::acquire; a lock file that exists refuses the command.
Acquire(p) ==
  /\ pc[p] = "idle"
  /\ Len(ledger) + 3 <= MaxPieces
  /\ ~lock_file
  /\ \E r \in Records : record' = [record EXCEPT ![p] = r]
  /\ lock_file' = TRUE
  /\ pc' = [pc EXCEPT ![p] = "check"]
  /\ UNCHANGED <<ledger, registry, written, asked, staged>>

\* Mutation: the ledger is read, and a run identifier that exists is no error.
CheckReadable(p) ==
  /\ pc[p] = "check"
  /\ pc' = [pc EXCEPT ![p] = IF Readable THEN "write" ELSE "unlock"]
  /\ UNCHANGED <<ledger, lock_file, registry, record, written, asked, staged>>

\* append_record reads the ledger; it refuses a ledger it cannot read and a run
\* identifier that is there already.
Check(p) ==
  /\ pc[p] = "check"
  /\ pc' = [pc EXCEPT ![p] =
       IF /\ Readable
          /\ \A r \in Records : r.run_id = record[p].run_id => Begun(r) = {}
       THEN "write" ELSE "unlock"]
  /\ UNCHANGED <<ledger, lock_file, registry, record, written, asked, staged>>

\* The buffer reaches the file in one write or in several.
Write(p) ==
  /\ pc[p] = "write"
  /\ \E n \in written[p] + 1 .. 3 :
       /\ ledger' = ledger \o SubSeq(Line(record[p]), written[p] + 1, n)
       /\ written' = [written EXCEPT ![p] = n]
       /\ pc' = [pc EXCEPT ![p] = IF n = 3 THEN "unlock" ELSE "write"]
  /\ UNCHANGED <<lock_file, registry, record, asked, staged>>

\* A write fails: what is in the file stays there.
WriteFails(p) ==
  /\ pc[p] = "write"
  /\ pc' = [pc EXCEPT ![p] = "unlock"]
  /\ UNCHANGED <<ledger, lock_file, registry, record, written, asked, staged>>

\* LedgerLock::drop ignores that the lock file could not be removed.
Unlock(p) ==
  /\ pc[p] = "unlock"
  /\ lock_file' \in BOOLEAN
  /\ End(p)
  /\ UNCHANGED <<ledger, registry>>

-----------------------------------------------------------------------------
(* promote *)

\* selection_constraints
ValidSelection(s) ==
  {s.macro, s.micro, s.recall} \subseteq 0 .. MaxScore /\ (s.p95 # None => s.p95 >= 0)
Admits(s, r) ==
  /\ r.corpus = s.corpus /\ s.method \in {None, r.method} /\ r.profile
  /\ r.micro >= s.micro /\ r.macro >= s.macro /\ r.recall >= s.recall
  /\ s.p95 # None => r.p95 <= s.p95
Scores(r) == <<r.macro, r.micro, r.recall, -r.p95>>
Better(q, r) ==
  \E i \in 1 .. 4 : /\ Scores(q)[i] > Scores(r)[i]
                   /\ \A j \in 1 .. (i - 1) : Scores(q)[j] = Scores(r)[j]

\* Mutation: the corpus does not restrict the selection.
BestOfAll(s) ==
  {r \in Whole : \A q \in Whole : ~Better(q, r)}

\* select_best, up to recency and run identifier.
Best(s) ==
  {r \in Whole : Admits(s, r) /\ \A q \in Whole : Admits(s, q) => ~Better(q, r)}

\* enforce_promotion_delta; what was not slow at all may not get slower.
Passes(candidate, current) ==
  /\ candidate.macro - current.macro >= Allowed.delta
  /\ current.micro - candidate.micro <= Allowed.micro
  /\ current.recall - candidate.recall <= Allowed.recall
  /\ IF current.p95 > 0
     THEN 100 * (candidate.p95 - current.p95) <= Allowed.p95 * current.p95
     ELSE candidate.p95 = 0

\* The ledger is read without the lock.
Select(p) ==
  /\ pc[p] = "idle"
  /\ Readable
  /\ \E s \in {x \in Selections : ValidSelection(x)} : \E r \in Best(s) :
       /\ asked' = [asked EXCEPT ![p] = s]
       /\ record' = [record EXCEPT ![p] = r]
  /\ pc' = [pc EXCEPT ![p] = "gate"]
  /\ UNCHANGED <<ledger, lock_file, registry, written, staged>>

\* A registry is loaded and saved only if it is that.
ValidRegistry(promotions) ==
  \A c \in Corpora : promotions[c] # None =>
    promotions[c].corpus = c /\ ValidMetrics(promotions[c])

\* PromotionRegistry::load, which takes a missing file for an empty registry,
\* the gates, and the new entry.
Gate(p) ==
  /\ pc[p] = "gate"
  /\ LET loaded  == IF registry = None THEN [c \in Corpora |-> None] ELSE registry
         c       == asked[p].corpus
     IN  /\ ValidRegistry(loaded)
         /\ loaded[c] # None => Passes(record[p], loaded[c])
         /\ staged' = [staged EXCEPT ![p] = [loaded EXCEPT ![c] = record[p]]]
  /\ pc' = [pc EXCEPT ![p] = "stage"]
  /\ UNCHANGED <<ledger, lock_file, registry, record, written, asked>>

\* atomic_write: the temporary file is written, and the registry looked for.
Stage(p) ==
  /\ pc[p] = "stage"
  /\ ValidRegistry(staged[p])
  /\ pc' = [pc EXCEPT ![p] = IF registry = None THEN "rename" ELSE "remove"]
  /\ UNCHANGED <<ledger, lock_file, registry, record, written, asked, staged>>

\* It is removed; that it has gone meanwhile is an error.
Remove(p) ==
  /\ pc[p] = "remove"
  /\ IF registry # None
     THEN /\ registry' = None
          /\ pc' = [pc EXCEPT ![p] = "rename"]
          /\ UNCHANGED <<record, written, asked, staged>>
     ELSE End(p) /\ UNCHANGED registry
  /\ UNCHANGED <<ledger, lock_file>>

\* The temporary file takes its name.
Rename(p) ==
  /\ pc[p] = "rename"
  /\ registry' = staged[p]
  /\ End(p)
  /\ UNCHANGED <<ledger, lock_file>>

-----------------------------------------------------------------------------
(* list, best and registry read the files, without the lock, and print; best *)
(* prints what promote would select, of records without a profile too.       *)

Listed(c, method) == {r \in Whole : c \in {None, r.corpus} /\ method \in {None, r.method}}
Shown(promotions) == {promotions[c] : c \in Corpora} \ {None}

-----------------------------------------------------------------------------
(* The process dies, or promote ends with an error; someone cleans up *)

\* Nothing is left but what is in the files.
Stop(p) ==
  /\ pc[p] # "idle"
  /\ End(p)
  /\ UNCHANGED <<ledger, lock_file, registry>>

Locking(p) == pc[p] \in {"check", "write", "unlock"}

\* Whoever runs the command removes a lock file that nobody holds.
RemoveOrphanedLock ==
  /\ lock_file
  /\ \A p \in Processes : ~Locking(p)
  /\ lock_file' = FALSE
  /\ UNCHANGED <<ledger, registry, pc, record, written, asked, staged>>

Next ==
  \/ \E p \in Processes :
       \/ Acquire(p) \/ Check(p) \/ Write(p) \/ WriteFails(p) \/ Unlock(p)
       \/ Select(p) \/ Gate(p) \/ Stage(p) \/ Remove(p) \/ Rename(p)
       \/ Stop(p)
  \/ RemoveOrphanedLock

Spec == Init /\ [][Next]_vars

-----------------------------------------------------------------------------
(* Properties *)

TypeOK ==
  /\ ledger \in Seq(Pieces)
  /\ lock_file \in BOOLEAN
  /\ registry \in Promotions \cup {None}
  /\ pc \in [Processes -> Places]
  /\ record \in [Processes -> Records \cup {None}]
  /\ written \in [Processes -> 0 .. 3]
  /\ asked \in [Processes -> Selections \cup {None}]
  /\ staged \in [Processes -> Promotions \cup {None}]

\* "Run IDs are unique": whoever records, fails or dies meanwhile, no run
\* identifier is begun twice, because it is looked up and appended under the
\* lock.
UniqueRuns ==
  \A q, r \in Records : \A i \in Begun(q), j \in Begun(r) :
    q.run_id = r.run_id => i = j

\* "A single-writer lock prevents concurrent append corruption": the records of
\* two processes never mix; a record is cut off only at the end of the ledger,
\* where a write that failed, a process that died or one that writes left it.
WritesDoNotMix ==
  \A r \in Records :
    /\ \A i \in Begun(r) : i < Len(ledger) => ledger[i + 1] = Rest(r)
    /\ \A i \in DOMAIN ledger : ledger[i] = Rest(r) => i - 1 \in Begun(r)

\* The registry "stores [...] the exact evidence record": whatever is promoted
\* for a corpus, or is about to be installed, is a whole record of the ledger
\* that has a profile and that `list' shows for its corpus, also after the
\* ledger has become unreadable; whoever promotes it, the registry can be
\* loaded again.
PromotedWasRecorded ==
  \A promotions \in ({registry} \cup {staged[p] : p \in Processes}) \ {None} :
    /\ ValidRegistry(promotions)
    /\ \A r \in Shown(promotions) : r \in Listed(r.corpus, r.method) /\ r.profile

=============================================================================
