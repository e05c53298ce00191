------------------------------ MODULE CorpusFetch ------------------------------
(***************************************************************************)
(* fo-corpus and fo-sec-fetch: documents are downloaded one by one into a  *)
(* directory, and a manifest with the digest and the length of each is     *)
(* saved now and then and at the end, so that a run that was interrupted   *)
(* can be resumed and a corpus can be verified.                            *)
(*                                                                         *)
(* Abstractions.  A document is its identifier, with one path.  A text is  *)
(* a value with a length; equal digests mean equal texts.  What a server   *)
(* answers may change from request to request.  Catalogs, tickers and      *)
(* submissions only determine which documents a run selects, and a run     *)
(* that cannot read them does not start.  The failures a manifest records  *)
(* are never read and are left out; so is the pause between requests.      *)
(***************************************************************************)
EXTENDS Naturals, Sequences, FiniteSets

CONSTANTS Documents,    \* identifiers
          Texts,        \* what documents may contain, long enough to be kept
          Length,       \* the length of each text
          Selections,   \* the orders in which a run may go through documents
          Provider,     \* "gutenberg", "sec_10k" or "sec_filings"
          SaveEvery,    \* downloads after which the manifest is saved
          MaxAttempts,  \* maximum_attempts
          None          \* absent

ASSUME ParametersAssumption ==
  /\ Length \in [Texts -> Nat]
  /\ Selections \subseteq Seq(Documents)
  /\ Provider \in {"gutenberg", "sec_10k", "sec_filings"}
  /\ SaveEvery \in Nat \ {0}
  /\ MaxAttempts \in Nat \ {0}
  /\ None \notin Texts /\ None \notin [Documents -> Texts \cup {None}]

VARIABLES
  files,      \* the document files
  saved,      \* manifest.json, or None
  pc,         \* where the run is
  manifest,   \* the manifest in memory
  todo,       \* the documents the run has still to go through
  overwrite,  \* GutenbergOptions.overwrite
  attempt,    \* requests made for the first of them
  text,       \* what was downloaded for it
  downloaded, \* downloads since the manifest was saved
  kept,       \* the documents the run downloaded or reused
  reported,   \* history: kept, of the last run, once it has come to its end
  unsaved,    \* history: the documents of Unsaved when the run began
  known       \* history: documents listed in manifests that were not lost

vars == <<files, saved, pc, manifest, todo, overwrite, attempt, text, downloaded,
          kept, reported, unsaved, known>>

Manifest  == [Documents -> Texts \cup {None}]
Nothing   == [d \in Documents |-> None]
Listed(m) == {d \in Documents : m[d] # None}

\* Documents on disk the saved manifest does not describe.
Unsaved ==
  {d \in Documents : files[d] # None /\ (saved = None \/ saved[d] # files[d])}

Init ==
  /\ files = Nothing /\ saved = None
  /\ pc = "idle" /\ manifest = Nothing /\ todo = << >> /\ overwrite = FALSE
  /\ attempt = 0 /\ text = None /\ downloaded = 0 /\ kept = {}
  /\ reported = {} /\ unsaved = {} /\ known = {}

\* Mutation: the manifest that is there is not read.
AlwaysNew == Nothing

\* CorpusManifest::load_or_new.
LoadOrNew == IF saved = None THEN Nothing ELSE saved

\* The process is gone, and what it held with it.
Gone ==
  /\ pc' = "idle" /\ manifest' = Nothing /\ todo' = << >> /\ overwrite' = FALSE
  /\ attempt' = 0 /\ text' = None /\ downloaded' = 0 /\ kept' = {}

Start ==
  /\ pc = "idle"
  /\ \E s \in Selections : todo' = s
  /\ overwrite' \in BOOLEAN
  /\ manifest' = LoadOrNew
  /\ pc' = "next"
  /\ reported' = {}
  /\ unsaved' = Unsaved
  /\ known' = IF saved = None THEN {} ELSE known
  /\ UNCHANGED <<files, saved, attempt, text, downloaded, kept>>

\* fetch_gutenberg and fetch_sec_10k compare digests.
SameDigest(d) == files[d] = manifest[d]

\* fetch_sec_filings compares lengths.
SameLength(d) == Length[files[d]] = Length[manifest[d]]

\* Mutation: lengths are compared by all.
ReusableByLength(d) ==
  ~overwrite /\ manifest[d] # None /\ files[d] # None /\ SameLength(d)

Reusable(d) ==
  /\ ~overwrite
  /\ manifest[d] # None
  /\ files[d] # None
  /\ IF Provider = "sec_filings" THEN SameLength(d) ELSE SameDigest(d)

Reuse ==
  /\ pc = "next" /\ todo # << >>
  /\ Reusable(Head(todo))
  /\ kept' = kept \cup {Head(todo)}
  /\ todo' = Tail(todo)
  /\ UNCHANGED <<files, saved, pc, manifest, overwrite, attempt, text, downloaded,
                 reported, unsaved, known>>

Requesting == pc = "next" /\ todo # << >> /\ ~Reusable(Head(todo))

\* Mutation: attempts are not counted.
RetryForever ==
  /\ Requesting
  /\ attempt' = (attempt + 1) % MaxAttempts
  /\ UNCHANGED <<files, saved, pc, manifest, todo, overwrite, text, downloaded, kept,
                 reported, unsaved, known>>

\* DownloadClient::get: a status that may pass, or no answer.
Retry ==
  /\ Requesting
  /\ attempt + 1 < MaxAttempts
  /\ attempt' = attempt + 1
  /\ UNCHANGED <<files, saved, pc, manifest, todo, overwrite, text, downloaded, kept,
                 reported, unsaved, known>>

\* Another status, the last attempt, a body that breaks off or is too long, or a
\* text that is too short: what the manifest says of the document stays.
GiveUp ==
  /\ Requesting
  /\ todo' = Tail(todo)
  /\ attempt' = 0
  /\ UNCHANGED <<files, saved, pc, manifest, overwrite, text, downloaded, kept,
                 reported, unsaved, known>>

Receive ==
  /\ Requesting
  /\ text' \in Texts
  /\ attempt' = 0
  /\ pc' = "publish"
  /\ UNCHANGED <<files, saved, manifest, todo, overwrite, downloaded, kept,
                 reported, unsaved, known>>

\* atomic_write, of a document: the old file is removed first.
RemoveOld ==
  /\ pc = "publish"
  /\ files[Head(todo)] # None
  /\ files' = [files EXCEPT ![Head(todo)] = None]
  /\ UNCHANGED <<saved, pc, manifest, todo, overwrite, attempt, text, downloaded, kept,
                 reported, unsaved, known>>

\* Mutation: the manifest is saved at the end only.
CheckpointNever == /\ pc' = "next"
                   /\ downloaded' = downloaded

Checkpoint ==
  LET n == downloaded + 1
  IN  /\ pc' = IF n = SaveEvery THEN "checkpoint" ELSE "next"
      /\ downloaded' = n % SaveEvery

Publish ==
  /\ pc = "publish"
  /\ LET d == Head(todo)
     IN  /\ files[d] = None
         /\ files' = [files EXCEPT ![d] = text]
         /\ manifest' = [manifest EXCEPT ![d] = text]
         /\ kept' = kept \cup {d}
  /\ todo' = Tail(todo)
  /\ text' = None
  /\ Checkpoint
  /\ UNCHANGED <<saved, overwrite, attempt, reported, unsaved, known>>

\* After the last document.
Finish ==
  /\ pc = "next" /\ todo = << >>
  /\ pc' = "finish"
  /\ UNCHANGED <<files, saved, manifest, todo, overwrite, attempt, text, downloaded, kept,
                 reported, unsaved, known>>

\* CorpusManifest::save: atomic_write removes the old manifest as well.
RemoveManifest ==
  /\ pc \in {"checkpoint", "finish"}
  /\ saved # None
  /\ saved' = None
  /\ UNCHANGED <<files, pc, manifest, todo, overwrite, attempt, text, downloaded, kept,
                 reported, unsaved, known>>

Install ==
  /\ pc \in {"checkpoint", "finish"}
  /\ saved = None
  /\ saved' = manifest
  /\ known' = known \cup Listed(manifest)
  /\ IF pc = "finish"
     THEN Gone /\ reported' = kept
     ELSE /\ pc' = "next"
          /\ UNCHANGED <<manifest, todo, overwrite, attempt, text, downloaded, kept, reported>>
  /\ UNCHANGED <<files, unsaved>>

\* A file operation fails, a filing cannot be converted, or the process dies.
Stop ==
  /\ pc # "idle"
  /\ Gone
  /\ UNCHANGED <<files, saved, reported, unsaved, known>>

\* The loop over the documents.
Work == Reuse \/ Retry \/ GiveUp \/ Receive \/ RemoveOld \/ Publish \/ Finish
          \/ RemoveManifest \/ Install

Next == Start \/ Work \/ Stop

\* A run goes on: requests have a timeout.
Spec == Init /\ [][Next]_vars /\ WF_vars(Work)

-----------------------------------------------------------------------------
(* Properties *)

TypeOK ==
  /\ files \in Manifest /\ manifest \in Manifest
  /\ saved \in Manifest \cup {None}
  /\ pc \in {"idle", "next", "publish", "checkpoint", "finish"}
  /\ todo \in Seq(Documents)
  /\ pc = "publish" => todo # << >> /\ text \in Texts
  /\ overwrite \in BOOLEAN
  /\ attempt \in 0 .. MaxAttempts - 1
  /\ text \in Texts \cup {None}
  /\ downloaded \in 0 .. SaveEvery - 1
  /\ kept \subseteq Documents /\ reported \subseteq Documents
  /\ unsaved \subseteq Documents /\ known \subseteq Documents

\* "Existing files whose digest matches the manifest are reused": what a run that
\* came to its end reports as downloaded or reused verifies, whatever runs were
\* interrupted before it and whichever of their files it found.
FinishedIsVerified ==
  \A d \in reported : saved # None /\ saved[d] # None /\ files[d] = saved[d]

\* "Periodic manifest checkpoints": wherever a run dies, except while the
\* manifest is away, it adds at most SaveEvery documents to those on disk that
\* the manifest does not describe.
BoundedLoss ==
  \/ saved = None /\ known # {}
  \/ Cardinality(Unsaved \ unsaved) <= SaveEvery

\* A run for some documents does not make the manifest forget others: as long as
\* no run died while the manifest was away, what was listed stays listed.
NothingForgotten == saved # None => known \subseteq Listed(saved)

\* Retries end, and so does every run.
EveryRunEnds == (pc # "idle") ~> (pc = "idle")

=============================================================================
