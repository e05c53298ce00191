---------------------------- MODULE SegmentedIndex ----------------------------
(***************************************************************************)
(* The segmented index of fo-core (segmented.rs): an append-only manifest  *)
(* over immutable segment files, written by processes that exclude each    *)
(* other with a lock file and detect stale handles by the generation       *)
(* number, and read by processes that hold on to the generation they       *)
(* opened.  A handle is one process's open SegmentedIndex; a crash of the  *)
(* process loses the handle and leaves the directory as it is.             *)
(*                                                                         *)
(* Abstractions.  The body of a segment is a function from local document  *)
(* identifiers to documents, a document a path and its normalized text;    *)
(* the length, the FNV hash and the statistics a descriptor records are    *)
(* represented by the body they were computed from.  The u64 counters stop *)
(* at the three limits, where checked_add fails.                           *)
(***************************************************************************)
EXTENDS Naturals, FiniteSets

CONSTANTS Handles,          \* open indexes, one per process
          Paths,            \* document paths
          Texts,            \* normalized document contents
          MaxBatch,         \* largest batch appended (bound)
          GenerationLimit,  \* u64::MAX for manifest.generation
          SegmentLimit,     \* u64::MAX for manifest.next_segment_id
          DocumentLimit,    \* u64::MAX for manifest.next_document_id
          RenameMayRefuse,  \* can rename fail because its target exists?
          None              \* absent: a file, a record, an Option

ASSUME LimitsAssumption ==
  /\ MaxBatch \in Nat \ {0}
  /\ GenerationLimit \in Nat
  /\ SegmentLimit \in Nat
  /\ DocumentLimit \in Nat
  /\ RenameMayRefuse \in BOOLEAN

Document    == [path : Paths, text : Texts]
SegmentIds  == 0 .. SegmentLimit
DocumentIds == 0 .. DocumentLimit
Batches     == UNION {[0 .. n - 1 -> Document] : n \in 1 .. MaxBatch}
Bodies      == UNION {[0 .. n - 1 -> Document] : n \in 1 .. MaxBatch + DocumentLimit}
LocalIds    == 0 .. MaxBatch + DocumentLimit

\* SegmentDocumentRecord: a tombstone (deleted) has no physical location.
Record == [path : Paths, deleted : BOOLEAN,
           segment : SegmentIds \cup {None}, local : LocalIds \cup {None}]

\* SegmentedManifest: segments[s] describes segment s, documents[g] is the
\* record of global document g, None marks an identifier not in use.
Manifest == [generation    : 0 .. GenerationLimit,
             next_segment  : SegmentIds,
             next_document : DocumentIds,
             segments      : [SegmentIds -> Bodies \cup {None}],
             documents     : [DocumentIds -> Record \cup {None}]]

\* What the history of such a manifest can be (History, below).
Histories == UNION {[1 .. n -> [path : Paths, text : Texts \cup {None}]] : n \in DocumentIds}

ASSUME NoneAssumption ==
  /\ None \notin Nat
  /\ None \notin Texts
  /\ None \notin Bodies
  /\ None \notin Record
  /\ None \notin Manifest
  /\ None \notin Histories

VARIABLES
  manifest,   \* manifest.json: a Manifest, or None
  files,      \* the segment files: a body, or None, for every segment id
  lock_file,  \* does .writer.lock exist?
  litter,     \* was a temporary file left behind in the directory?
  pc,         \* where each handle is in its current operation
  mem,        \* the manifest each handle holds in memory, or None
  next,       \* the manifest a writer is about to publish, or None
  fresh,      \* the segment a writer is creating, or None
  body,       \* the contents of that segment, or None
  todo,       \* segments still to be removed (compact) or read (search)
  answer      \* what a search has collected: <<document id, text>> pairs

disk  == <<manifest, files, lock_file, litter>>
local == <<pc, mem, next, fresh, body, todo, answer>>
vars  == <<disk, local>>

-----------------------------------------------------------------------------
(* Manifests *)

Listed(m)   == {s \in SegmentIds : m.segments[s] # None}
Recorded(m) == {g \in DocumentIds : m.documents[g] # None}
Live(m)     == {g \in Recorded(m) : ~m.documents[g].deleted}
LivePaths(m) == {m.documents[g].path : g \in Live(m)}
LiveIn(m, s) == {g \in Live(m) : m.documents[g].segment = s}

EmptyManifest ==
  [generation |-> 0, next_segment |-> 0, next_document |-> 0,
   segments |-> [s \in SegmentIds |-> None],
   documents |-> [g \in DocumentIds |-> None]]

\* validate_manifest
ValidManifest(m) ==
  /\ \A s \in Listed(m) : s < m.next_segment
  /\ \A g \in Recorded(m) : g < m.next_document
  /\ \A g \in Recorded(m) \ Live(m) :
       m.documents[g].segment = None /\ m.documents[g].local = None
  /\ \A g \in Live(m) :
       /\ m.documents[g].segment \in Listed(m)
       /\ m.documents[g].local \in DOMAIN m.segments[m.documents[g].segment]
  /\ \A g, k \in Live(m) : g # k =>
       /\ m.documents[g].path # m.documents[k].path
       /\ <<m.documents[g].segment, m.documents[g].local>>
            # <<m.documents[k].segment, m.documents[k].local>>

\* validate_append_inputs (blank paths and empty contents are not enumerated)
AcceptableBatch(m, batch) ==
  /\ \A i \in DOMAIN batch : batch[i].path \notin LivePaths(m)
  /\ \A i, j \in DOMAIN batch : batch[i].path = batch[j].path => i = j

\* The checked additions of append_documents.
AppendOverflows(m, n) ==
  \/ m.next_document + n > DocumentLimit
  \/ m.next_segment = SegmentLimit
  \/ m.generation = GenerationLimit

\* The manifest after appending batch as the next segment, None when an
\* identifier or the generation is exhausted.
AfterAppend(m, batch) ==
  LET n == Cardinality(DOMAIN batch)
      added == m.next_document .. m.next_document + n - 1
  IN  IF AppendOverflows(m, n)
      THEN None
      ELSE [generation |-> m.generation + 1,
            next_segment |-> m.next_segment + 1,
            next_document |-> m.next_document + n,
            segments |-> [m.segments EXCEPT ![m.next_segment] = batch],
            documents |-> [g \in DocumentIds |->
              IF g \in added
              THEN [path |-> batch[g - m.next_document].path, deleted |-> FALSE,
                    segment |-> m.next_segment, local |-> g - m.next_document]
              ELSE m.documents[g]]]

\* Mutation: a deleted record keeps its location.
TombstoneInPlace(r) == [r EXCEPT !.deleted = TRUE]

Tombstone(r) == [r EXCEPT !.deleted = TRUE, !.segment = None, !.local = None]

\* Mutation: the generation is not advanced.
DeleteInGeneration(m, requested) ==
  [m EXCEPT !.documents = [g \in DocumentIds |->
     IF g \in Live(m) /\ m.documents[g].path \in requested
     THEN Tombstone(m.documents[g])
     ELSE m.documents[g]]]

\* The manifest after deleting the live documents with a requested path.
AfterDelete(m, requested) ==
  IF m.generation = GenerationLimit
  THEN None
  ELSE [m EXCEPT
          !.generation = m.generation + 1,
          !.documents = [g \in DocumentIds |->
             IF g \in Live(m) /\ m.documents[g].path \in requested
             THEN Tombstone(m.documents[g])
             ELSE m.documents[g]]]

\* load_active_documents: can every live document be loaded from its file?
Loadable(m) ==
  \A g \in Live(m) :
    LET r == m.documents[g] IN
      /\ files[r.segment] # None
      /\ r.local \in DOMAIN files[r.segment]
      /\ files[r.segment][r.local].path = r.path

LoadedText(m, g) == files[m.documents[g].segment][m.documents[g].local].text

\* The live documents are written to the new segment by ascending global id.
Rank(m, g) == Cardinality({k \in Live(m) : k < g})

CompactedBody(m) ==
  [l \in 0 .. Cardinality(Live(m)) - 1 |->
     LET g == CHOOSE g \in Live(m) : Rank(m, g) = l
     IN  [path |-> m.documents[g].path, text |-> LoadedText(m, g)]]

\* Mutation: the identifiers start again once no document is left.
SegmentsRestart(m) == IF Live(m) = {} THEN 0 ELSE m.next_segment + 1

SegmentAfterCompact(m) ==
  IF Live(m) = {} THEN m.next_segment ELSE m.next_segment + 1

\* The manifest after compaction into the next segment, or into none at all
\* when no document is live; None when a checked addition overflows.
AfterCompact(m) ==
  LET rewritten == Live(m) # {}
  IN  IF \/ rewritten /\ m.next_segment = SegmentLimit
         \/ m.generation = GenerationLimit
      THEN None
      ELSE [m EXCEPT
              !.generation = m.generation + 1,
              !.next_segment = SegmentAfterCompact(m),
              !.segments = [s \in SegmentIds |->
                 IF rewritten /\ s = m.next_segment THEN CompactedBody(m)
                                                    ELSE None],
              !.documents = [g \in DocumentIds |->
                 IF g \in Live(m)
                 THEN [m.documents[g] EXCEPT !.segment = m.next_segment,
                                             !.local = Rank(m, g)]
                 ELSE IF g \in Recorded(m) THEN Tombstone(m.documents[g])
                                           ELSE None]]

-----------------------------------------------------------------------------
Init ==
  /\ manifest = None
  /\ files = [s \in SegmentIds |-> None]
  /\ lock_file = FALSE
  /\ litter = FALSE
  /\ pc = [h \in Handles |-> "closed"]
  /\ mem = [h \in Handles |-> None]
  /\ next = [h \in Handles |-> None]
  /\ fresh = [h \in Handles |-> None]
  /\ body = [h \in Handles |-> None]
  /\ todo = [h \in Handles |-> {}]
  /\ answer = [h \in Handles |-> {}]

\* The control points between WriterLock::acquire and the drop of the guard.
Guarded == {"scan", "append", "delete", "compact", "save", "install",
            "reinstall", "undo", "finish"}

Busy == Guarded \cup {"probed", "search"}

\* Where a handle rests between operations.
Rest(h) == IF mem[h] = None THEN "closed" ELSE "open"

Goto(h, label) == pc' = [pc EXCEPT ![h] = label]

\* What a writer intends to publish, with which new segment.
Plan(h, m, s, b, old) ==
  /\ next' = [next EXCEPT ![h] = m]
  /\ fresh' = [fresh EXCEPT ![h] = s]
  /\ body' = [body EXCEPT ![h] = b]
  /\ todo' = [todo EXCEPT ![h] = old]

NoPlan(h) == Plan(h, None, None, None, {})

\* Mutation: an early return that bypasses the drop of the guard.
ReturnEarly(h) == NoPlan(h) /\ Goto(h, Rest(h))

\* The rest of an operation that fails under the lock is the drop of the guard.
Abandon(h) == NoPlan(h) /\ Goto(h, "finish")

-----------------------------------------------------------------------------
(* Opening, and the writer lock *)

\* SegmentedIndex::open, also as the "reopen before writing" of a stale handle.
Open(h) ==
  /\ pc[h] \in {"closed", "open"}
  /\ manifest # None /\ ValidManifest(manifest)
  /\ mem' = [mem EXCEPT ![h] = manifest]
  /\ Goto(h, "open")
  /\ UNCHANGED <<disk, next, fresh, body, todo, answer>>

\* SegmentedIndex::create looks for a manifest before it takes the lock.
Probe(h) ==
  /\ pc[h] = "closed"
  /\ manifest = None
  /\ Goto(h, "probed")
  /\ UNCHANGED <<disk, mem, next, fresh, body, todo, answer>>

\* Mutation: the lock file is opened with create instead of create_new.
AcquireAnyway(h, label) ==
  /\ \/ pc[h] = "open" /\ label \in {"append", "delete", "compact"}
     \/ pc[h] = "probed" /\ label = "scan"
  /\ lock_file' = TRUE
  /\ Goto(h, label)
  /\ UNCHANGED <<manifest, files, litter, mem, next, fresh, body, todo, answer>>

\* WriterLock::acquire: create_new, then the pid is written and synced.  The
\* call of an operation and its acquire are one step: nothing happens between.
Acquire(h, label) ==
  /\ \/ pc[h] = "open" /\ label \in {"append", "delete", "compact"}
     \/ pc[h] = "probed" /\ label = "scan"
  /\ ~lock_file
  /\ lock_file' = TRUE
  /\ Goto(h, label)
  /\ UNCHANGED <<manifest, files, litter, mem, next, fresh, body, todo, answer>>

\* create_new fails because the lock file exists; create gives up, the other
\* operations fail without any change.
Refused(h) ==
  /\ pc[h] = "probed"
  /\ lock_file
  /\ Goto(h, Rest(h))
  /\ UNCHANGED <<disk, mem, next, fresh, body, todo, answer>>

\* Writing or syncing the pid fails: acquire returns the error before a guard
\* exists that would remove the file.
LeakLock(h) ==
  /\ pc[h] \in {"open", "probed"}
  /\ ~lock_file
  /\ lock_file' = TRUE
  /\ Goto(h, Rest(h))
  /\ UNCHANGED <<manifest, files, litter, mem, next, fresh, body, todo, answer>>

\* WriterLock::drop at the end of every operation, failed or not.
Release(h) ==
  /\ pc[h] = "finish"
  /\ todo[h] = {}
  /\ lock_file' = FALSE
  /\ Goto(h, Rest(h))
  /\ NoPlan(h)
  /\ UNCHANGED <<manifest, files, litter, mem, answer>>

-----------------------------------------------------------------------------
(* The writers, up to the manifest they want to publish *)

\* ensure_empty_directory_except_lock
EmptyDirectory == manifest = None /\ ~litter /\ \A s \in SegmentIds : files[s] = None

PlanCreate(h) ==
  /\ pc[h] = "scan"
  /\ IF EmptyDirectory
     THEN Plan(h, EmptyManifest, None, None, {}) /\ Goto(h, "install")
     ELSE Abandon(h)
  /\ UNCHANGED <<disk, mem, answer>>

\* Mutation: the generations are not compared.
CurrentUnchecked(h) == manifest # None /\ ValidManifest(manifest)

\* ensure_current
Current(h) ==
  /\ manifest # None
  /\ ValidManifest(manifest)
  /\ manifest.generation = mem[h].generation

PlanAppend(h) ==
  /\ pc[h] = "append"
  /\ \/ \E batch \in Batches :
          /\ Current(h) /\ AcceptableBatch(mem[h], batch)
          /\ Plan(h, AfterAppend(mem[h], batch), mem[h].next_segment, batch, {})
          /\ Goto(h, "save")
     \/ Abandon(h)  \* a stale handle, a batch refused, or a build that fails
  /\ UNCHANGED <<disk, mem, answer>>

PlanDelete(h) ==
  /\ pc[h] = "delete"
  /\ \/ \E requested \in SUBSET LivePaths(mem[h]) :
          /\ Current(h) /\ requested # {}
          /\ Plan(h, AfterDelete(mem[h], requested), None, None, {})
          /\ Goto(h, "install")
     \/ Abandon(h)  \* a stale handle, or no requested path is live
  /\ UNCHANGED <<disk, mem, answer>>

PlanCompact(h) ==
  /\ pc[h] = "compact"
  /\ \/ /\ Current(h) /\ Loadable(mem[h])
        /\ IF Live(mem[h]) = {}
           THEN /\ Plan(h, AfterCompact(mem[h]), None, None, Listed(mem[h]))
                /\ Goto(h, "install")
           ELSE /\ Plan(h, AfterCompact(mem[h]), mem[h].next_segment,
                        CompactedBody(mem[h]), Listed(mem[h]))
                /\ Goto(h, "save")
     \/ Abandon(h)  \* a stale handle, a segment that does not load, a failed build
  /\ UNCHANGED <<disk, mem, answer>>

-----------------------------------------------------------------------------
(* Segment files: Index::save and describe_segment *)

\* The temporary file is renamed to the segment's name, over an orphan of that
\* name if there is one.
Save(h) ==
  /\ pc[h] = "save"
  /\ files' = [files EXCEPT ![fresh[h]] = body[h]]
  /\ Goto(h, "install")
  /\ UNCHANGED <<manifest, lock_file, litter, mem, next, fresh, body, todo, answer>>

\* The same fallback as RemoveForReplace below, when an orphan is in the way.
DisplaceOrphan(h) ==
  /\ pc[h] = "save"
  /\ RenameMayRefuse /\ files[fresh[h]] # None
  /\ files' = [files EXCEPT ![fresh[h]] = None]
  /\ UNCHANGED <<manifest, lock_file, litter, local>>

SaveFails(h) ==
  /\ pc[h] = "save"
  /\ litter' \in {litter, TRUE}
  /\ Abandon(h)
  /\ UNCHANGED <<manifest, files, lock_file, mem, answer>>

-----------------------------------------------------------------------------
(* Publishing a manifest: validate_manifest, write_manifest, replace_file *)

Publishable(h) == next[h] # None /\ ValidManifest(next[h])

\* A checked addition overflowed, the segment could not be described, or the
\* new manifest is invalid: the operation fails and the saved segment stays.
Reject(h) ==
  /\ pc[h] = "install"
  /\ ~Publishable(h) \/ fresh[h] # None
  /\ Abandon(h)
  /\ UNCHANGED <<disk, mem, answer>>

Installed(h) ==
  /\ manifest' = next[h]
  /\ mem' = [mem EXCEPT ![h] = next[h]]
  /\ Plan(h, None, None, None, todo[h])
  /\ Goto(h, "finish")

Install(h) ==
  /\ pc[h] = "install"
  /\ Publishable(h)
  /\ Installed(h)
  /\ UNCHANGED <<files, lock_file, litter, answer>>

\* Mutation: the error is not returned before the old segments are removed.
InstallFailsUnnoticed(h) ==
  /\ pc[h] = "install"
  /\ Publishable(h)
  /\ litter' \in {litter, TRUE}
  /\ Goto(h, "finish")
  /\ UNCHANGED <<manifest, files, lock_file, mem, next, fresh, body, todo, answer>>

\* The temporary manifest cannot be created, written, synced or renamed.
InstallFails(h) ==
  /\ pc[h] = "install"
  /\ Publishable(h)
  /\ litter' \in {litter, TRUE}
  /\ Goto(h, "undo")
  /\ UNCHANGED <<manifest, files, lock_file, mem, next, fresh, body, todo, answer>>

\* replace_file: rename refused the existing destination, which is removed ...
RemoveForReplace(h) ==
  /\ pc[h] = "install"
  /\ Publishable(h)
  /\ RenameMayRefuse /\ manifest # None
  /\ manifest' = None
  /\ Goto(h, "reinstall")
  /\ UNCHANGED <<files, lock_file, litter, mem, next, fresh, body, todo, answer>>

\* ... and the rename tried again.
Reinstall(h) ==
  /\ pc[h] = "reinstall"
  /\ Installed(h)
  /\ UNCHANGED <<files, lock_file, litter, answer>>

ReinstallFails(h) ==
  /\ pc[h] = "reinstall"
  /\ litter' = TRUE
  /\ Goto(h, "undo")
  /\ UNCHANGED <<manifest, files, lock_file, mem, next, fresh, body, todo, answer>>

\* append_documents and compact try to remove the segment they saved.
Undo(h) ==
  /\ pc[h] = "undo"
  /\ files' \in IF fresh[h] = None THEN {files}
                ELSE {files, [files EXCEPT ![fresh[h]] = None]}
  /\ Abandon(h)
  /\ UNCHANGED <<manifest, lock_file, litter, mem, answer>>

\* compact removes the segments it replaced, one by one; a file that cannot be
\* removed is reported and stays.
Sweep(h) ==
  /\ pc[h] = "finish"
  /\ \E s \in todo[h] :
       /\ todo' = [todo EXCEPT ![h] = @ \ {s}]
       /\ files' \in {files, [files EXCEPT ![s] = None]}
  /\ UNCHANGED <<manifest, lock_file, litter, pc, mem, next, fresh, body, answer>>

-----------------------------------------------------------------------------
(* Readers *)

\* search takes the segments with live documents from the handle's manifest.
StartSearch(h) ==
  /\ pc[h] = "open"
  /\ ValidManifest(mem[h])
  /\ todo' = [todo EXCEPT ![h] = {s \in Listed(mem[h]) : LiveIn(mem[h], s) # {}}]
  /\ Goto(h, "search")
  /\ UNCHANGED <<disk, mem, next, fresh, body, answer>>

\* The live documents of segment s that its file holds.
Hits(h, s) == {g \in LiveIn(mem[h], s) : mem[h].documents[g].local \in DOMAIN files[s]}

Hit(h, g) == files[mem[h].documents[g].segment][mem[h].documents[g].local]

\* The file is there and agrees with the manifest on the paths.
Searchable(h, s) ==
  /\ files[s] # None
  /\ \A g \in Hits(h, s) : Hit(h, g).path = mem[h].documents[g].path

\* Mutation: a segment file that is missing is searched as an empty one.
ReadLeniently(h) ==
  /\ pc[h] = "search"
  /\ \E s \in todo[h] :
       /\ answer' = [answer EXCEPT ![h] =
            IF Searchable(h, s) THEN @ \cup {<<g, Hit(h, g).text>> : g \in Hits(h, s)}
                                ELSE @]
       /\ todo' = [todo EXCEPT ![h] = @ \ {s}]
  /\ UNCHANGED <<disk, pc, mem, next, fresh, body>>

\* One segment is loaded and searched.  The specimen matches everything: the
\* result is every live document of the segment with the text of its file.
\* Local documents the manifest no longer maps are skipped.
ReadSegment(h) ==
  /\ pc[h] = "search"
  /\ \E s \in todo[h] :
       /\ Searchable(h, s)
       /\ answer' = [answer EXCEPT ![h] = @ \cup {<<g, Hit(h, g).text>> : g \in Hits(h, s)}]
       /\ todo' = [todo EXCEPT ![h] = @ \ {s}]
  /\ UNCHANGED <<disk, pc, mem, next, fresh, body>>

\* The results are returned, or a segment could not be searched and the search
\* fails.
EndSearch(h) ==
  /\ pc[h] = "search"
  /\ todo[h] = {} \/ \E s \in todo[h] : ~Searchable(h, s)
  /\ todo' = [todo EXCEPT ![h] = {}]
  /\ answer' = [answer EXCEPT ![h] = {}]
  /\ Goto(h, "open")
  /\ UNCHANGED <<disk, mem, next, fresh, body>>

-----------------------------------------------------------------------------
(* Crashes, and the operator *)

\* A process dies.  A writer in the middle of writing a temporary file leaves
\* it; between the two steps of replace_file's fallback it is always there.
Crash(h) ==
  /\ pc[h] # "closed"
  /\ litter' \in IF pc[h] = "reinstall" THEN {TRUE}
                 ELSE IF pc[h] \in {"save", "install"} THEN {litter, TRUE}
                 ELSE {litter}
  /\ mem' = [mem EXCEPT ![h] = None]
  /\ answer' = [answer EXCEPT ![h] = {}]
  /\ NoPlan(h)
  /\ Goto(h, "closed")
  /\ UNCHANGED <<manifest, files, lock_file>>

Orphaned == lock_file /\ \A h \in Handles : pc[h] \notin Guarded

\* The operator has inspected .writer.lock and found its process gone.
RemoveOrphanedLock ==
  /\ Orphaned
  /\ lock_file' = FALSE
  /\ UNCHANGED <<manifest, files, litter, local>>

\* The steps an operation takes by itself once it has been called.
Step(h) ==
  \/ Acquire(h, "scan") \/ Refused(h) \/ Release(h)
  \/ PlanCreate(h) \/ PlanAppend(h) \/ PlanDelete(h) \/ PlanCompact(h)
  \/ Save(h) \/ DisplaceOrphan(h) \/ SaveFails(h)
  \/ Reject(h) \/ Install(h) \/ InstallFails(h)
  \/ RemoveForReplace(h) \/ Reinstall(h) \/ ReinstallFails(h)
  \/ Undo(h) \/ Sweep(h) \/ ReadSegment(h) \/ EndSearch(h)

Call(h) ==
  \/ Open(h) \/ Probe(h) \/ LeakLock(h) \/ StartSearch(h)
  \/ \E label \in {"append", "delete", "compact"} : Acquire(h, label)

Next ==
  \/ \E h \in Handles : Step(h) \/ Call(h) \/ Crash(h)
  \/ RemoveOrphanedLock

Spec == Init /\ [][Next]_vars

\* An operation runs to its end unless its process dies; nobody has to call
\* one, to crash, or to remove an orphaned lock.
FairSpec == Spec /\ \A h \in Handles : WF_vars(Step(h))

-----------------------------------------------------------------------------
(* Properties *)

TypeOK ==
  /\ manifest \in Manifest \cup {None}
  /\ files \in [SegmentIds -> Bodies \cup {None}]
  /\ lock_file \in BOOLEAN
  /\ litter \in BOOLEAN
  /\ pc \in [Handles -> Busy \cup {"closed", "open"}]
  /\ mem \in [Handles -> Manifest \cup {None}]
  /\ next \in [Handles -> Manifest \cup {None}]
  /\ fresh \in [Handles -> SegmentIds \cup {None}]
  /\ body \in [Handles -> Bodies \cup {None}]
  /\ todo \in [Handles -> SUBSET SegmentIds]
  /\ answer \in [Handles -> SUBSET (DocumentIds \X Texts)]

\* Two operations never hold the writer lock together, whatever fails, crashes
\* or is cleaned up by the operator: create_new and the drop of the guard.
OneWriter ==
  \A h, k \in Handles : pc[h] \in Guarded /\ pc[k] \in Guarded => h = k

\* Every segment the manifest on disk lists is there, complete, and is the one
\* its descriptor was computed from (what verify_storage checks), and every
\* live document's record leads to the document of that path.  This holds at
\* every instant, also between the steps of an append or a compaction and
\* after a crash in any of them.
Intact ==
  manifest # None =>
    /\ \A s \in Listed(manifest) : files[s] = manifest.segments[s]
    /\ Loadable(manifest)

\* A handle, however stale, finds under the name of a segment it lists either
\* the bytes it was opened with or no file, never those of another segment:
\* search does not compare content hashes, so a reused id would go unnoticed.
NoForeignBytes ==
  \A h \in Handles : mem[h] # None =>
    \A s \in Listed(mem[h]) : files[s] \in {mem[h].segments[s], None}

\* ensure_current compares generation numbers only; that is enough because no
\* two different manifests of one index ever carry the same number.
GenerationIdentifies ==
  \A h \in Handles : mem[h] # None =>
    /\ \A k \in Handles :
         mem[k] # None /\ mem[k].generation = mem[h].generation => mem[k] = mem[h]
    /\ manifest # None /\ manifest.generation = mem[h].generation => manifest = mem[h]

\* validate_manifest never turns down what append, delete or compact made of
\* a valid manifest, so a saved segment is never orphaned for that reason.
PlansAreValid ==
  \A h \in Handles : pc[h] = "install" /\ next[h] # None => ValidManifest(next[h])

\* A search that reaches its end has returned every document live in the
\* generation it was opened with, exactly once, with the text it had then,
\* although other processes appended, deleted and compacted meanwhile.
SearchIsSnapshot ==
  \A h \in Handles : pc[h] = "search" /\ todo[h] = {} =>
    answer[h] =
      {<<g, mem[h].segments[mem[h].documents[g].segment][mem[h].documents[g].local].text>> :
          g \in Live(mem[h])}

\* A new manifest is always built on the one it replaces ("A stale writer
\* therefore fails rather than overwriting a newer manifest"): it is the next
\* generation, no record is lost or renamed, no tombstone comes back to life,
\* and no identifier is given out again.
Extends(m, n) ==
  /\ n.generation = m.generation + 1
  /\ n.next_segment >= m.next_segment
  /\ n.next_document >= m.next_document
  /\ Recorded(m) \subseteq Recorded(n)
  /\ Recorded(n) \ Recorded(m) \subseteq m.next_document .. n.next_document - 1
  /\ Live(n) \cap Recorded(m) \subseteq Live(m)
  /\ \A g \in Recorded(m) : n.documents[g].path = m.documents[g].path

NoLostUpdate ==
  [][manifest # None /\ manifest' # None => Extends(manifest, manifest')]_manifest

\* What the files and the manifest hold, read as a history of documents.
History ==
  IF manifest = None
  THEN None
  ELSE [i \in 1 .. manifest.next_document |->
         LET r == manifest.documents[i - 1]
         IN  [path |-> r.path,
              text |-> IF r.deleted THEN None
                       ELSE IF files[r.segment] = None THEN "lost"
                       ELSE files[r.segment][r.local].text]]

Store == INSTANCE DocumentStore WITH store <- History, NoStore <- None, Gone <- None

\* The directory implements the document store: an append or a delete takes
\* effect at the one instant the manifest is replaced, and saving, compacting,
\* sweeping, failing, crashing and recovering change nothing a user can see.
ImplementsStore == Store!Spec

\* Every operation that is called returns, unless its process dies, and no error
\* path keeps the lock: a writer that entered under the lock file leaves with the
\* file gone, or as a dead process.
OperationsReturn ==
  \A h \in Handles :
    /\ pc[h] \in Busy ~> pc[h] \notin Busy
    /\ pc[h] \in Guarded ~> (~lock_file \/ pc[h] = "closed")

-----------------------------------------------------------------------------
(* Why the safety properties hold *)

\* m is the manifest n or one of an earlier generation.
Past(m, n) ==
  /\ m.generation <= n.generation
  /\ m.next_segment <= n.next_segment
  /\ m.generation = n.generation => m = n

\* The segments hold the documents the records say they hold.
PathsAgree(m) ==
  \A g \in Live(m) :
    m.segments[m.documents[g].segment][m.documents[g].local].path = m.documents[g].path

\* m is the manifest a reader would have to be given: every handle has it or
\* comes from before it, and its segment files are complete.
Authoritative(m) ==
  /\ ValidManifest(m)
  /\ PathsAgree(m)
  /\ \A k \in Handles : mem[k] # None => Past(mem[k], m)
  /\ \A s \in Listed(m) : files[s] = m.segments[s]

\* What a writer relies on at each control point under the lock.
LockInv ==
  /\ \A h \in Handles : pc[h] \in Guarded => lock_file
  /\ OneWriter

HandleInv ==
  \A h \in Handles :
    /\ pc[h] \in {"open", "search", "append", "delete", "compact"} => mem[h] # None
    /\ mem[h] # None => ValidManifest(mem[h])

\* The plan extends m; its segments are those of m or the fresh one, and none
\* of them is due to be swept.
PlanInv(h, m, n) ==
  /\ Extends(m, n)
  /\ PathsAgree(n)
  /\ \A s \in Listed(n) :
       \/ s \in Listed(m) /\ n.segments[s] = m.segments[s]
       \/ s = fresh[h] /\ n.segments[s] = body[h]
  /\ \A s \in Listed(n) : s \notin todo[h]

CreateInv(h) ==
  /\ manifest = None
  /\ \A k \in Handles : mem[k] = None
  /\ next[h] = EmptyManifest
  /\ fresh[h] = None
  /\ todo[h] = {}

UpdateInv(h) ==
  /\ mem[h] # None
  /\ fresh[h] # None => fresh[h] = mem[h].next_segment
  /\ next[h] # None => PlanInv(h, mem[h], next[h])

ControlInv(h) ==
  /\ pc[h] = "save" =>
       manifest = mem[h] /\ fresh[h] # None /\ body[h] # None /\ UpdateInv(h)
  /\ pc[h] = "install" =>
       \/ CreateInv(h)
       \/ /\ manifest = mem[h] /\ UpdateInv(h)
          /\ fresh[h] # None => files[fresh[h]] = body[h]
  /\ pc[h] = "reinstall" =>
       /\ manifest = None /\ Authoritative(mem[h]) /\ UpdateInv(h)
       /\ next[h] # None /\ ValidManifest(next[h])
       /\ fresh[h] # None => files[fresh[h]] = body[h]
  /\ pc[h] = "undo" /\ fresh[h] # None /\ manifest # None =>
       fresh[h] \notin Listed(manifest)
  /\ pc[h] = "finish" =>
       \A s \in todo[h] : manifest # None /\ s \notin Listed(manifest)

WriterInv == \A h \in Handles : ControlInv(h)

\* A manifest lost in replace_file leaves a temporary file, which keeps create
\* from starting a second history in the directory.
LostInv ==
  manifest = None /\ (\E h \in Handles : mem[h] # None) =>
    litter \/ \E h \in Handles : pc[h] = "reinstall"

DiskInv == manifest # None => Authoritative(manifest)

\* The inductive invariant: GenerationIdentifies, NoForeignBytes and Intact
\* hold because a writer under the lock extends the authoritative manifest and
\* touches only segments no manifest lists.
IndInv ==
  /\ LockInv
  /\ HandleInv
  /\ DiskInv
  /\ GenerationIdentifies
  /\ NoForeignBytes
  /\ WriterInv
  /\ LostInv
=============================================================================
