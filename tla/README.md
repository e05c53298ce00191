# A TLA+ development of FrankenOverlap

FrankenOverlap finds passages that documents share: it indexes normalized text
by winnowed fingerprints, keeps large collections as a segmented index on disk,
answers searches from command lines and from a small HTTP service, and comes
with tools that acquire corpora, compare contracts, analyse what companies
filed, record experiments and turn reviewers' decisions into training data. It
is a Rust workspace of six crates; paths below are relative to `src/crates/`.

This directory holds TLA+ modules of the program's behaviour, TLC configurations
that check small instances of them, and proofs for TLAPS that hold for every
value of the constants.

Contents: [1 Inventory](#1-inventory) · [2 Modules](#2-modules) ·
[3 Runs](#3-runs-and-bounds) · [4 Fairness](#4-fairness) ·
[5 Proofs](#5-proofs) · [6 Disagreements](#6-where-code-and-documents-disagree) ·
[7 Not modelled](#7-not-modelled) · [8 Plan](#8-plan) · [9 Running it](#9-running-it)

## 1. Inventory

| Component | State it keeps | Operations | What is hard | What makes it correct |
|---|---|---|---|---|
| **Segmented index** (`fo-core/src/segmented.rs`) | `manifest.json`, `segment-*.fo` files, `.writer.lock`; a handle holds a manifest in memory | create, open, append, delete, compact, search | writers of several processes, stale handles, crashes between file operations, readers while files are removed | the manifest on disk lists only complete segments; updates are not lost; a search is a snapshot of the generation it opened or an error |
| **Query service** (`fo-cli/src/bin/fo-serve.rs`) | a bounded queue, a receiver under a mutex, atomic counters | accept, refuse, receive, read, route, answer, `/metrics` | workers race for connections; peers stop at any byte; counters are added in many places | bounded work, each connection with one worker, each ends, only whole requests are routed, counters add up |
| **Experiment ledger** (`fo-bench/src/bin/fo-experiment.rs`) | a JSONL ledger, its lock file, a registry of promotions | record, promote, list, best, registry | appends that are cut, locks left behind, promotions without a lock | unique runs, lines that do not mix, only recorded results promoted |
| **Review loop** (`fo-cli/src/bin/fo-review-apply.rs`) | ranking feedback, calibration feedback, decision ledger, lineage graph: four files | apply decisions | four files replaced one after another without a lock; repeated and partial application | what was completed stays complete; receipts tell the truth |
| **Corpus acquisition** (`fo-corpus/src/http.rs`, `gutenberg.rs`, `sec.rs`, `sec_filings.rs`, `model.rs`) | downloaded files and a manifest | select, fetch, retry, resume, verify | duplicates and damage in catalogs; manifest saved now and then; retries | the newest that was asked for, every document accounted for; manifest and files agree after any interruption |
| **Overlap index and search** (`winnow.rs`, `index.rs`, `storage_v2.rs`, `search.rs`, `chain.rs`, `verify.rs`, `batch.rs` of fo-core) | immutable indexes; single files | build, save, load, search, search in parallel | boundaries: windows, bins, bands, encoded integers; altered files | copies are found, results are true, only sound files load, a batch is what its queries are alone |
| **Lanes** (`prepared.rs`, `domain.rs`, `domain_adaptive.rs`, `planner.rs`, `composite.rs`) | a prepared query, a policy | profile, plan, suppress, project, assemble | budgets that bind; queries prepared for another index | budgets hold and copies survive them; composites count once |
| **Compound indexes** (`lexical.rs`, `hybrid.rs`, `semantic.rs`, `multiview.rs`) | a directory of components and a manifest | save, load, parse, search, fuse | saves that die or overlap; evidence of several lanes | a load agrees with itself; answers mean the query; lanes and views keep their evidence |
| **Contracts** (`contracts.rs`, `contract_diff.rs`, `fo-contract-analyze.rs`, `fo-contract-compare.rs`) | analyses, reports | extract, compare, benchmark | positions in nested text, greedy pairing, limits | what is extracted is where it is said to be; both sides of a comparison are accounted for |
| **Collections and sections** (`fo-corpus/src/collection.rs`, `section.rs`) | a directory and its manifests | import, verify, split | half imports; overlapping windows | what verifies is whole; nothing is lost but what is said to be |
| **SEC facts** (`fo-corpus/src/sec_facts.rs`, `sec_fact_analysis.rs`, `bin/fo-sec-facts.rs`) | raw and normalized files, a manifest, an analysis | fetch, verify, analyze | reuse; restatements; analyses while a fetch runs | a series is what was filed last |
| **Lineage** (`lineage.rs`, `fo-lineage.rs`, `fo-sec-lineage.rs`) | a graph; output directories | add, merge, walk, analyse filings | histories with missing or equal dates | edges lead back in time; walks are shortest; merging again adds nothing |
| **Learning and metrics**; **benchmarks and evidence** (fo-bench) | report files | fit, evaluate, measure | floating point | — |

How they interact: the command lines and the service hold the core as a library;
processes meet only in the file system, at the segmented index, the experiment
ledger with its registry, the files of the review loop, compound indexes,
collections with their analyses, and corpora. Threads exist in the service and
in the data-parallel searches of `batch.rs`, which share immutable indexes only.
There is no network protocol between parts of the program.

`PROJECT.json` lists every component with its sources, and under "hazards" every
place in the code at which one of these difficulties bites, with the property
that would catch it or the reason why none does.

## 2. Modules

Definitions whose comment begins with "Mutation" are not part of any
specification: each is a plausible mistake in the operator that follows it, and
is put in its place to see that a property notices.

### DocumentStore and SegmentedIndex

`DocumentStore` is the promise: one history of documents, changed by whole
batches. `Create`, `Add` and `Remove` are its only steps.

`SegmentedIndex` is `segmented.rs`. A *handle* is the open index of one process.

| Variable | In the code |
|---|---|
| `manifest`, `files`, `lock_file`, `litter` | the directory: `manifest.json`, segment files, `.writer.lock`, whether a temporary file is left |
| `mem[h]` | `SegmentedIndex.manifest` of the handle |
| `pc[h]`, `next[h]`, `fresh[h]`, `body[h]`, `todo[h]` | where the operation is, the manifest it will publish, the segment it writes, its contents, the segments it has still to remove or to read |
| `answer[h]` | what a search has collected |

| Actions | In the code |
|---|---|
| `Open`, `Probe`, `PlanCreate` | `open`; `create` before and under the lock |
| `Acquire`, `Refused`, `LeakLock`, `Release`, `Abandon` | `WriterLock` and its drop |
| `PlanAppend`, `PlanDelete`, `PlanCompact` | `ensure_current`, validation and the computation of the next manifest |
| `Save`, `DisplaceOrphan`, `SaveFails`, `Reject` | `Index::save` with its replacement of an existing file, `describe_segment` |
| `Install`, `InstallFails`, `RemoveForReplace`, `Reinstall`, `ReinstallFails`, `Undo` | `write_manifest`, `replace_file`, removal of the saved segment after an error |
| `Sweep` | removal of the files compaction replaced |
| `StartSearch`, `ReadSegment`, `EndSearch` | `search`, one segment at a time |
| `Crash`, `RemoveOrphanedLock` | the process dies; the operator removes a lock the documentation tells him to inspect |

The content of an index is abstracted to the documents it holds, a search to a
specimen that matches all of them, hashes and statistics to the body they were
computed from. The checks that compare them are therefore comparisons of bodies.
What an index computes is the subject of `OverlapEngine`.

### QueryService

`fo-serve.rs`: `Accept`, `Enqueue` and `Refuse` are the accept loop;
`LockReceiver` and `Receive` the head of the worker's loop; `Begin`, `ReadHead`,
`ReadBody`, `ReadFails`, `Route`, `Write`, `WriteFails`, `Measure` and `Leave`
are `handle_connection` with what it calls. `pc`, `conn`, `received`, `need` are
a worker's locals, `queue` the channel, `holder` the mutex, `metrics`
`ServiceMetrics`. A response is an outcome; requests are counted in bytes
because the limits are.

### ExperimentLedger

`fo-experiment.rs`: `Acquire`, `Check`, `Write`, `WriteFails`, `Unlock` are
`record`; `Select`, `Gate`, `Stage`, `Remove`, `Rename` are `promote` with
`atomic_write`; `Stop` is death or an error of `promote`; `Listed`, `Best` and
`Shown` are the commands that only read. A line of the ledger consists of three
pieces, so that a write may end inside the record and before its newline.

### ReviewLoop

`fo-review-apply.rs` over four files, and the commands of `fo-lineage.rs` that
add to the graph. `Begin` is `run` up to the first file, the graph being read
before anything is written; `Read` and `Replace` are `merge_feedback`,
`merge_calibration`, `merge_ledger` and `atomic_write`, one file after another;
`Enrich` is a node, ingest or merge command; `Stop` is an error or death.
`store` is the four files; `job`, `todo` (the files it has still to replace) and
`staged` are what a running command knows; `partial` and `done` are history for the properties. A file of feedback
is a function from the sort key to the run of records that have it, each given
by its end: that is what sorting and removing equal neighbours act on. The sort
is taken to be stable, which `sort_unstable_by` is for up to twenty records. A
missing file is an empty one.

### CorpusFetch and FilingSelection

`CorpusFetch` is the loop the three downloaders share: `Start` is a run up to
its first document, with `LoadOrNew`; `Reuse`, `Retry`, `GiveUp`, `Receive`,
`RemoveOld` and `Publish` are what happens to a document (`DownloadClient::get`,
`atomic_write`, `upsert_document`), `RemoveManifest` and `Install` are
`CorpusManifest::save`, at a checkpoint and at the end; `Stop` is death or an
error that ends the run. `Provider` says whether files are reused by digest
(Gutenberg, 10-K) or by length (filings).

`FilingSelection` is what differs between the three: the books of a catalog, the
companies of a ticker list, the filings of a submission with its pages, in the
order, with the cuts and the removal of neighbours that `gutenberg.rs`, `sec.rs`
and `sec_filings.rs` have, then each document's outcome with the counters,
checkpoints and errors that end a run.

### The overlap engine

| Module | Code | |
|---|---|---|
| `Chaining` | `chain.rs` | the heaviest chain of anchors, with its gap penalties |
| `Alignment` | `verify.rs` | Myers' bit vectors for one word, the widening band beyond it |
| `OverlapSearch` | `normalize.rs`, `fingerprint.rs`, `winnow.rs`, `index.rs`, `search.rs` | normalization, features, winnowing with the deque as the set of its positions, limits; votes in two rows of bins, suppression, verification, floors, order of results |
| `IndexFile` | `index.rs`, `storage_v2.rs`, `model.rs` | both formats: fields, deltas, varints, checksum, every check of the readers |
| `OverlapEngine` | `batch.rs` and the above | the composition: documents are added, scanned feature by feature, the index is saved, the file altered, loaded, and a batch searched by workers in any order |

`Alignment`, `Chaining` and the winnowing of `OverlapSearch` are the algorithms,
and their properties compare them with definitions by quantifiers:
`EditDistance` over all pairs of positions, `RightmostMinimum` of every window. Of
the band, which is not exact (section 6), `SpansAreNearest` asks what it can
promise: no span whose displacement and edits together stay in the first width is
nearer, and the distance is not less than that of the span. Logarithms are replaced by
monotone integer functions, factors that only rescale a score are left out.

### Lanes, compound indexes

`Lanes` holds the operators of `prepared.rs`, `domain.rs`, `domain_adaptive.rs`,
`planner.rs` and `composite.rs`, and `SearchLanes` lets a program prepare a query,
rebuild the index, and ask one of six lanes; the last step of each is
`OverlapSearch`'s search. `LexicalSearch` (`lexical.rs`), `HybridFusion`
(`hybrid.rs`, `hybrid_profile.rs`, `semantic.rs`) and `MultiView`
(`multiview.rs`) are operators too; `CompoundIndex` is the directory with
savers that overlap and die, a loader that reads file by file, and the stages of
a query. A component is saved in one step, since it is written aside and renamed.

### Contracts

`ContractAnalysis` is `contracts.rs`, over words and marks instead of
characters; `ContractComparison` is `contract_diff.rs`, clause pairs, changes,
alerts and the benchmark of a portfolio; `Collection` is `collection.rs`.
`ContractPortfolio` has the three commands on disk, which interleave, fail, die
and are run again, and both contract commands on single files. Similarities,
scores and medians are exact fractions, as are the confidences of the lineage
graph and the changes of facts; the rounding of floating point is left out.

### The filing analyst

`FactSeries` is `sec_fact_analysis.rs` and `SecFacts` the three commands of
`fo-sec-facts.rs` on one directory; `LineageGraph` is `lineage.rs`, `SecLineage`
is `fo-sec-lineage.rs` with `fo-lineage.rs`. Commands of `fo-lineage` may overlap:
each loads the graph, and `unsaved` holds what the running ones will save or,
when they die, will not. Analyses run one at a time; they write directories whose
names only tell them apart, hence the symmetry of that run. `Sectioning` is
`section.rs` with `fo-section.rs`. `SecAnalyst` composes these and
`FilingSelection`: each tool works in a directory of its own and reads what
another left complete, so that one behaviour follows one tool, and their steps
never interfere.

### Basics, proof and MC modules

`Basics` holds arithmetic that stops at zero, exact fractions, and orders of
sequences. Eight modules hold the theorems: `SegmentedIndexProofs`,
`QueryServiceProofs`, `ExperimentLedgerProofs`, `ReviewLoopProofs`,
and `OverlapEngineProofs` extend the module they are about, `CorpusProofs`
extends `CorpusFetch` and `ContractPortfolio`, `RetrievalProofs` extends
`CompoundIndex` and `SearchLanes`; `BasicsProofs` has the lemmas about natural
numbers, folds, orders and filtered sequences they share. The MC modules add symmetry sets and sample data for TLC;
`QueryService` needs neither and is run itself.

## 3. Runs and bounds

| Run | Instance | Shows |
|---|---|---|
| `segmented_safety` | two processes, two paths, two texts, batches up to two, counters to their limits | one writer; the directory intact at every instant; no foreign bytes; plans always valid; searches are snapshots; refinement of `DocumentStore` |
| `segmented_fallback` | two processes, one document a batch, a file system whose rename may refuse | generations identify manifests; no lost update; under fairness every call returns and gives its lock back |
| `service_workers` | two workers, three connections, a queue of one, bytes one at a time | no connection lost or doubled; the counters add up; every connection ends |
| `ledger_safety` | two processes, four records of two corpora, one run identifier twice, ledger up to three lines | unique runs; lines do not mix; only recorded results promoted |
| `review_safety` | one process at a time; three reviews that repeat and contradict each other, applied to all files or to two; one addition of `fo-lineage` | what came to its end stays complete; receipts are a true audit |
| `corpus_fetch` | three documents, runs for all or for one, two texts of the same length, a checkpoint after two, two attempts | finished runs vouch for what verifies; at most a checkpoint's worth is lost; nothing is forgotten; every run ends |
| `overlap_search` | corpora of one to four texts of up to nine letters over two or three, every specimen of up to four, both formats, one altered field, batches of three in every order, specimens of four and five letters displaced by more than the band, a text and a corpus beyond the limits | every window covered; only sound files load; results true; copies found; batches sequential |
| `search_lanes` | two or three texts, six lanes, budgets that bind and that do not, an index rebuilt after the query was prepared | budgets hold; hits are spans of what is loaded; copies survive; composites count once |
| `compound_retrieval` | two savers of collections with the same and with other identities, up to two loads, some four hundred queries through both lanes, a model and the views | loads agree; answers mean the query; lanes and views keep their evidence |
| `contract_versions` | eleven contracts under usual and tight limits, every pair compared; seven directories imported, replaced, analysed and compared by commands that interleave and die | what is extracted is in place; both sides are accounted for; outliers agree with the middle and the majority of the values; reports are about the documents they name |
| `contract_clauses` | the same | counterexample, section 6 |
| `sec_analyst` | two companies with restated, missing and altered facts; nine filings of two companies; texts of items, chapters and paragraphs; a catalog and pages with duplicates | receipts tell the truth; series tell the history; lineage looks back |

Why these bounds are enough to be telling. *Segmented index*: two handles are one
writer and one stale bystander, which is what every conflict in the code is made
of; three generations allow create, append, delete and compact, or an append in
between that makes a handle stale; the limits of the counters are reached, so
the overflow errors are taken. *Service*: three connections to two workers and a
queue of one fill everything and force a refusal. *Ledger*: nine pieces
are three whole lines, or more that are cut; the records of one corpus can
improve, get slower and get worse. *Review*: two reviews accept the same
candidate from hits that end in different places and a third rejects it for
another target, so that the files are merged where they agree, differ and
contradict. *Corpus*: three documents and a checkpoint after two leave one
beyond the checkpoint, two texts make a document change between runs, and a run
for one document is a bystander to the others.

*Overlap engine*: the sizes of the code are scaled with what they are compared
with. A q-gram has two letters, a window two or three features, a machine word
three bits, so that specimens of four letters use the band and those of three
the bit vectors; a byte of a varint carries two bits and a word has three bytes
of which the last may carry one, so that overlong and overflowing numbers are
one byte away. The hash sends different q-grams to neighbouring numbers. Bands
are as narrow as the code lets them be. *Lanes* and *compound indexes* use the
same scale; a keyword query has up to two words, a specimen query more than
five, and the terms looked at for proximity are three. *Contracts*: a text has
one or two clauses, an obligation, an amount, a day count and a definition, so
that each rule meets text it applies to and text it nearly applies to; the
portfolios have amounts most of which agree, amounts without a majority one of
which is far out, and three amounts none of which is. That a contract has not
changed against itself is asked where no two of its clauses are similar in full:
beyond `maximum_exact` characters the similarity compares sets of q-grams, which
two different clauses may share. *Filings*: three
years are needed for a restatement in a later comparative, and three filings of
one company for a reuse older than the last one. `MaxBatch`, `MaxPieces`,
`MaxRun`, `MaxLoads`, `MaxImports`, `MaxFetches`, `MaxAnalyses`, `MaxCommands`,
`MaxSectionings`, `MaxAcquisitions` and the number of connections are the only
bounds that are not in the code; the proofs do not depend on any of them.

Deadlock is checked where the system goes on: in the segmented index, the corpus
and the review loop, which goes on through `fo-lineage`. It is not checked where
work comes to an end: the service when every connection has ended, the ledger
when it is full or unreadable, the other runs when their commands and questions
are used up.

Symmetry is used in the segmented index, the ledger and the filing analyst, for
safety only.

## 4. Fairness

*Segmented index*: weak fairness of `Step(h)`, for each handle: an operation
that has been called runs on, as a thread that waits for nothing does. Calls,
crashes, leaks and the operator are not fair. `OperationsReturn` is checked
under it.

*Service*: weak fairness of the acceptor and of each worker. A worker's reads and
writes return because `handle_connection` sets both timeouts, and a request ends
because the byte limit does. The acceptor's own 503 is written without a
timeout; it fits the empty send buffer of a new connection. Nobody has to
connect. Nothing is assumed about which worker gets the mutex: weak fairness of
each is enough for `EveryConnectionEnds`.

*Corpus*: weak fairness of `Work`, the steps of a run, because every request has a
timeout and the run waits for nothing else.

Everything else is safety only: a command that died is run again when somebody
runs it, and nothing in the code promises that.

## 5. Proofs

All theorems are checked by tlapm, from the assumptions the modules name:
`LimitsAssumption` and `NoneAssumption` of `SegmentedIndex` (the limits are
natural numbers, `MaxBatch` is positive, `None` is none of the values it is
told from: no text, segment body, record, manifest or history);
`SizesAssumption`, `WorkersAssumption` (finitely many) and `NoneAssumption` of
`QueryService`; `RecordsAssumption` and `NoneAssumption` of `ExperimentLedger`;
`ReviewsAssumption`, `RequestsAssumption` and `NoneAssumption` of `ReviewLoop`
(a review decides on other documents than its target, an addition's evidence lies
between its nodes); `ParametersAssumption` of `CorpusFetch`; `CasesAssumption` of
`OverlapEngine` (texts are sequences, the configuration was validated),
`IndexFileAssumption` of `IndexFile` (how the widths of numbers and bytes relate, and
that a 32-bit number takes at most five bytes), `ScenariosAssumption` of
`CompoundIndex` (views are a sequence), `SourcesAssumption` of `ContractPortfolio`
(what somebody imports is well typed and finite) and `RequestsAssumption` of `SearchLanes`
(texts are sequences, the configuration and the options of composites were
validated, caps and budgets are numbers). Some theorems have
a hypothesis besides. `OneAtATime`, for the review loop: nothing is locked, and of
two commands that overlap the second loses what the first added (section 6).
`HashesAreNumbers`, for winnowing and the lanes: the constant `Fingerprint`
yields numbers. `[]HitsAreSpans`, for composites alone: TLC checks it, and it is not
proved.

**SegmentedIndexProofs.** `TypeCorrect` proves `TypeOK`, with `ValidManifest` of
every manifest in memory and on disk; its lemmas say of each planning operator
that it makes a valid manifest of a valid one, and of compaction that ranking
the live documents is a bijection. `MutualExclusion` proves `OneWriter` from
`LockInv`: a process between acquiring and releasing implies the lock file.
Neither `Intact` nor `NoForeignBytes` is inductive: that a segment file may be
written, removed by `Undo` or swept depends on what the writer knows of the
manifest on disk. `IndInv` therefore adds what each place in a writer's code
implies (`WriterInv`, from `ControlInv` and `PlanInv`: under the lock the
handle's manifest is the one on disk, the segment it writes has a number no
manifest lists, what it sweeps is not listed by what it published), what a stale
handle may still believe (`HandleInv`: its manifest is `Past` the authoritative
one), and what happens to the manifest while `replace_file` has removed it
(`DiskInv`, `LostInv`). From `Inductive` follow `StorageIsIntact`,
`GenerationsAreUnique`, `NamesAreNotReused` and `UpdatesAreKept`.

The second half of the module is about what the index promises.
`PlansAreAccepted` proves `PlansAreValid` from
`PlansInv`: a plan is valid from the moment it is made, and every manifest is
`Dense`, each identifier below `next_document` has its record. `Dense` is not
among what `validate_manifest` asks for; the refinement needs it, because a
document's identifier is its place in the history.
`SearchesAreSnapshots` proves `SearchIsSnapshot` from `SearchInv`: at each point
of a search the answer is exactly the live documents of the segments already
read, as the manifest of the handle describes them. That a segment read late has
those bytes, or is gone and ends the search, is `NoForeignBytes`.
`DirectoryIsStore` proves `ImplementsStore`: `HistoryIsTold` computes the history
from the manifest alone (with `Intact`, the files add nothing), `AppendHistory`,
`DeleteHistory` and `CompactHistory` say what each plan does to it (a batch at
the end, texts gone, nothing), `StoreInv` carries that from where a plan is made
to where it is installed, and `OnlyInstalled` shows that no other step replaces
the manifest. It assumes `~RenameMayRefuse`, as the run that checks it does: where
`replace_file` falls back on removing the manifest first, the history is gone for
a moment, which is no step of the store.

**QueryServiceProofs.** `IndInv` is `TypeOK`, `Shape` (what a worker holds at
each place), `InFlight` (the gauge is the number of handlers that run) and
`MutexOnlyToReceive`, `OnePlace` and `RequestsFit`. `InFlight`
is needed for the type of the gauge: that it is never counted below zero is a
fact about sets of workers, `LeaverIsCounted`. `ServesUnlocked`, `NoneIsLost` and
`RequestsAreComplete` follow; `WorkIsBounded` then counts the places a
connection can be in. `CountersAddUp` proves `Accounting` for any number of
connections: `AccountInv` adds to `IndInv` that only finitely many connections
were ever seen and that a request is decided once (`DecidedOnce`: an outcome
belongs to a worker that is writing it or to a connection that ended), without
which a counter of outcomes could count a connection twice.

**ExperimentLedgerProofs.** Neither `UniqueRuns` nor `WritesDoNotMix` is
inductive: both need that the process which writes is the only one between
`Acquire` and `Unlock` (`OneHolder`, `LocalInv`), and that its record was not in
the ledger when it looked and what it has written so far is the ledger's end
(`WriterInv`). `OnlyRecordsArePromoted` proves `PromotedWasRecorded`: what
`promote` holds in memory while it applies the gates is a whole line of the
ledger (`SelectedInv`), lines are only ever added after, and what is staged and
installed comes from it (`PromotionsInv`).

**ReviewLoopProofs.** `CompletedIsComplete` needs that no later command takes
away what a completed one left. `IInv` therefore says what a running command
knows (`CommandInv`: the graph is read first and replaced last, so what is staged
for it contains the graph on disk; a file that was replaced holds what the review
adds) and that every file holds it for every completed job (`DoneInv`). The
lemmas carry the weight: `DedupKeeps` shows that removing equal neighbours of a
sorted run keeps one of each, `MergedHolds` that merging keeps old and new
records, `Replaced` that each replacement only adds. `CompletedStays` and
`ReceiptsAudit` follow.

**CorpusProofs.** `ManifestsForgetNothing` needs
that the manifest in memory lists all that was ever listed (`KnownInv`).
`FinishedRunsVerify` assumes a provider that compares digests; its invariant
`KeptInv` says that the manifest in memory describes every document the run has
kept, but for one it is just replacing, which lets a run meet a document twice.
`LossIsBounded` proves `BoundedLoss`: `LossInv` counts what the manifest on disk
does not describe as what is unsaved since the checkpoint plus what was astray
when the run began.

`PipelinesAreWhole` proves `PipelineIsWhole` of the contract commands, for every
collection and however often they are begun, die and are begun again. `WholeIs`
unrolls the import into the states `Passes` goes through, file by file, so that
`ImportIsPart` can say of an import under way that it has passed the first k of
them, and `RootIsWhole` of a directory whose corpus manifest exists that it is the
last. The corpus manifest is written last and an import that begins takes it
away, so nothing is read while an import runs (`NothingIsRead`): that is what lets
`AnalysesAreOwn` and `ReportsAreOwn` say, as long as there was one import, that
whatever was read or written since is about its documents. `DigestIs` needs that
one path holds one file and what `verify_collection` compared. `ComparisonPairsAre`
says that sorting keeps each pair once; that no two pairs share a file is
`ReportNamesDiffer`, which is where names that fall together would break it
(section 6). Nothing is assumed of `Absent`.

**OverlapEngineProofs.** `WinnowingIsExact` proves `WindowsAreCovered`. The deque
of `winnow.rs` is characterised by `Ladder`, the positions of the window that are
smaller than all that follow: `PushLadder` shows that a push keeps it, and
`LadderFront` that its front is the rightmost minimum, whence `AdvanceScans` and,
as an invariant of the scan, `BuildInv`. `PassagesMeet` is the guarantee of
winnowing that the search relies on: two texts that share a passage as long as a
window of q-grams keep a fingerprint in common, of the same q-gram at the same
place of it, whatever the hash. `FilesAreSound` proves `OnlySoundFilesLoad`, for all word widths and limits.
`CodecExact` is its first part: digits weighted by `Power` add up to the number
(`DigitsAddUp`), and reading stops at the byte that writing left unmarked.
`BuiltIs` says that the entries the builder makes are sound, `ReadsAll` that
decoding undoes the encoding of postings in order, one posting after another
(`ReadsOn`), within fifteen bytes each. `LoadsV1` and `LoadsV2` follow: what is saved
loads as itself. `FileInv` carries an index from the builder to the file and to the
reader; under damage it keeps no more than the type of the entries, so that what
loads is sound (`AcceptedIsSound`) by the reader's checks alone. That a text or a
corpus beyond 32 bits is refused when it is added is needed for it.
`BatchesAreSequential` proves `BatchIsSequential` from `BatchInv`: an outcome that a worker stored is
what its query gives alone, and `Canonical` chooses the first of equal queries.

**RetrievalProofs.** `LoadsAreWhole` proves `LoadsAgree` for any number of
savers. `WritingInv` says that a single saver has left the components before the
next one as its collection's, `SettledInv` that a directory somebody finished
saving, alone, is all of one collection, `LoadingInv` and `HandleInv` what a load
has read while the directory stayed settled. That a load of a mixture is noticed
or harmless is then what the reader compares at its end.

`LanesKeepBudgets` proves `BudgetsHold`, for every hash that yields numbers and so
for every collision. `Total` is the sum of one field over a finite set of
features: it splits along a part and its rest (`TotalOfBoth`), and elements
matched with others, each with its own and not smaller, add up to no more
(`TotalMatched`). `IndexIs` says what the builder's dictionary is, `KnownIs` that
each of its entries a query has is counted once. The lane of a domain goes through
four suppressions and a budget that drops the dearest features one by one
(`WithinBudgetIs`, by the steps of its fold): `ReasonsAddUp` counts every
feature under one reason, and `OnlyKnown` that the index with the other entries
taken out knows exactly those retained, so that the engine's work is what the
report says. The document-first lane is harder, because it prices a feature by
the postings of the prepared query and searches another index, the projection on
the documents it chose, whose dictionary keeps features that were never priced:
`ProjectionCosts` matches every pair the engine goes through with one that
`ChooseFeaturesIs` has paid for. That needs the prepared query to be of the index
that is asked, which is what `LanesInv` adds to the property: what was prepared
is of the first index, and `fresh` says that this is still the current one.

`CompositesCover` proves `CompositesAreWhole` of every run whose hits are spans
(`HitsAreSpans`, which TLC checks and which alignment and chaining would have to be
unrolled for). `UnionLengthIs` says that the sweep over intervals counts each
point once: `SweepStep` takes in one interval more, and `Reached` says what has been
covered, how many points lie behind the open interval and that none lies beyond it.
`SelectedIs` follows the selection of blocks (`GoodBlocks`: none overlaps an earlier
one too much, and each after the first adds its tokens), `SelectBlocksIs` their
order, `AssembledIs` the composites of all documents. `WholeInv` adds that only two
lanes assemble any, with options that were validated.

**BasicsProofs.** The least and greatest of a set of numbers, and recursion on the
naturals unrolled, as sets and functions: the library's induction theorems take an
operator as a parameter, and these do not. With them `OverlapSearch`'s and the
collection's sorting are proved to be sorting (`OrderedByIs`): each element once,
in the order of its key.

**What TLC alone shows.** Liveness (`OperationsReturn`, `EveryConnectionEnds`,
`EveryRunEnds`): the prover has no rules for fairness and ENABLED. In the overlap
engine `ResultsAreTrue`, which compares bit-parallel alignment with the edit
distance, and `CopiesAreFound`; `AnswersHold` (`CopiesSurvive` and `HitsAreSpans`) of the
lanes; answers, fusion and views of the compound indexes (`AnswersMean`,
`LanesStayApart`, `ViewsAgree`); the contracts, their comparison and the
benchmark of `ContractPortfolio`; the analyst of filings. They rest on long
chains of folds and recursive functions over data, each of which would have to be
unrolled by hand; those of the lineage graph and of sections use RECURSIVE
operators, which the prover does not read. They are checked for all inputs within
the bounds of section 3.

## 6. Where code and documents disagree

`contract_clauses` is expected to find a counterexample:
`docs/CONTRACT_VERSION_PORTFOLIO_INTELLIGENCE.md` lists unchanged, moved,
revised, added and removed clauses, but `contract_diff.rs:396` inserts a pair's
previous clause in the set of used ones before it finds that the current one is
taken; the clause is then neither paired with another nor reported as removed.

The following have no run of their own. The first group is visible in the models,
whose properties hold in spite of it; the rest was met while reading.

Storage and processes:

* "Readers operate on the generation they opened" (`docs/SEGMENTED_INDEX.md:83`), but
  compaction removes the files that generation lists. The reader fails; that it
  never returns wrong documents is `NoForeignBytes` and `SearchIsSnapshot`.
* `replace_file` of the segmented index removes the manifest first where rename
  refuses an existing target; an error while the pid is written leaves the lock.
* `promote` reads and replaces the registry without a lock, so the gates hold
  against the promotion it read and not the current one; the registry is absent
  for a moment in between. The profile is read twice (`fo-experiment.rs:342-351`).
* "Reapplying the same result and decision files adds zero new records"
  (`docs/REVIEW_DECISION_LOOP.md`), but records that differ in their ends alone
  sort alike and may keep apart two equal ones. Two overlapping commands lose
  what the earlier added: nothing is locked.
* `atomic_write` of the corpora removes the old file first; without a manifest a
  corpus starts anew. Filings and company facts are reused by length
  (`sec_filings.rs:415`, `sec_facts.rs:431`; `docs/SEC_FILINGS_ACQUISITION.md:97`
  says "already verified local files").
* A save of a compound index that dies between components leaves a mix that loads
  when the identities agree (`hybrid.rs:207-225`); a multi-view identity compares
  path and length, not content (`multiview.rs:641`); `hybrid.rs:804` removes the
  manifest before the rename.
* Failed runs of `fo-contract-analyze`, `fo-contract-compare`, `fo-section` and
  `fo-sec-lineage` leave a directory that refuses the next one; replacing an
  output deletes the old one before the input is read.

Selection and search:

* Beyond 64 tokens verification is not exact. The band is widened until two widths
  agree (`verify.rs:97-113`), which they also do when both miss the nearest span:
  scaled down to the run's bounds, of `<<1, 2, 3, 4, 5>>` in `<<6, 6, 6, 1, 2>>` two
  widths report 5 edits while the last two tokens are 3 away; and the distance reported can exceed that of
  the span reported. `docs/ALGORITHM.md:80` says that verification "reruns without
  the band" if the band has no finite path; that rerun (`verify.rs:109`) is never
  reached, since the width grows until it is full.
  `docs/QUERY_INTENTS.md:48` says that surviving spans of short queries "are still
  verified exactly". `ResultsAreTrue` claims the nearest span and the exact
  distance within a machine word, and of longer specimens what lies in the first
  width.
* `Index::search` does not read `maximum_query_posting_pairs`, which
  `model.rs:112` calls the products "retained across all query fingerprints";
  the lanes that compute a budget of their own do.
* A Gutenberg catalog with a duplicate can push out a book that was asked for by
  number (`gutenberg.rs:399`). `sec_filings` removes only neighbouring
  duplicates (`:385`), cannot read a CIK written as text, which `sec.rs` accepts,
  does not compare the submission's CIK with the one asked for, and cuts to the
  limit before it rejects unsafe names. A filing whose text cannot be read ends a
  10-K run and is counted as failed by the other one.
* `MustNot` is bypassed by the overlap lane of a hybrid search; the overlap
  evidence of a document is that of its last passage (`hybrid.rs:335`);
  semantic-only candidates are admitted in the order of their identifiers before
  the floor is applied (`semantic.rs:269`); "tags:" is not a sign of a keyword
  query (`hybrid.rs:704`).

Texts:

* The warning of a duplicate definition (`docs/CONTRACT_INTELLIGENCE.md:43`) cannot
  occur (`contracts.rs:1082`); "shall not," becomes a duty, "Tenant, shall pay"
  none, "30 days." no term; the preamble may exceed `maximum_clauses` by one;
  alerts are cut before they are sorted; the benchmark
  pools all values of a kind, those of one document too, so that copies of one
  contract can be outliers of their own portfolio, and with a multiplier of one or
  less most values can be (`contract_diff.rs:1287-1333`); two document names that
  are made safe alike overwrite each other's analysis, and analyses are not
  compared with the texts of a later import.
* A window's paragraph break before the target is discarded (`section.rs:372`)
  although `docs/CORPUS_SECTIONING.md` speaks of paragraph-aligned windows; a tail
  shorter than the minimum is lost.
* A fetch of facts that died between a raw file and the manifest leaves files later
  runs reuse and `verify` rejects; quarterly values in a 10-K count as annual;
  `fo-sec-facts analyze` removes its output before it validates its options.
* `fo-lineage` loads the graph, changes it and saves it without a lock
  (`fo-lineage.rs:449`), so of two commands that overlap the later save loses what
  the other added. Node and ingest overwrite title, time and metadata of a node; evidence
  detected again counts again, as its time is part of its fingerprint.

## 7. Not modelled

* Power loss: a crash is the death of a process; what was written stays. The
  directory is not synced after a segment is saved, and errors of the sync after
  the manifest was renamed are ignored; both matter only then.
* In the service: a scrape of `/metrics` that runs while counters change, the
  failure to set a timeout, totals of bytes and searches, panics (the release
  profile aborts the process).
* In the review loop: dry runs. In `fo-sec-lineage`: two analyses into one directory
  between the check that it is absent and its creation.
* In the corpora: parsers of CSV, JSON and HTML, pauses between requests, two runs at
  once on one directory.
* In the engines: snippets, metadata filters, the sizes of scores beyond their order,
  the spectral lane and provenance reports; in contracts and collections titles,
  parties, tags and wording, marks glued to an amount, amounts that cannot be parsed,
  the shortening of digests in names, repeated rows of relations, and `alerts.jsonl`,
  which repeats what the comparisons say; the implementations of traits
  (`contract_ordering.rs`, `collection_ordering.rs`, `collection_metadata_serialize.rs`).
* Ranking, calibration, active learning and metrics: numerical fitting in floating
  point, whose errors are the question and which TLC cannot represent.
* Benchmarks and evidence (fo-bench but for `fo-experiment`): sequential generators,
  measurements and reports, each of which writes one output once.
* The command lines that parse arguments, call the core once and print; the data
  model, errors and facade; release scripts.

## 8. Plan

| | Modules | State |
|---|---|---|
| 1 | `DocumentStore`, `SegmentedIndex` | checked; safety and refinement proved |
| 2 | `QueryService` | checked; safety proved |
| 3 | `ExperimentLedger` | checked and proved |
| 4 | `ReviewLoop` | checked and proved |
| 5 | `CorpusFetch`, `FilingSelection` | checked; `CorpusFetch`'s safety proved |
| 6 | `OverlapSearch` to `OverlapEngine`, `Lanes`, `SearchLanes` | checked; winnowing, files, batches, budgets and composites proved |
| 7 | `LexicalSearch`, `HybridFusion`, `MultiView`, `CompoundIndex` | checked; loads proved |
| 8 | `ContractAnalysis` to `ContractPortfolio` | checked; the pipeline proved |
| 9 | `SecFacts`, `FactSeries`, `LineageGraph`, `SecLineage`, `Sectioning`, `SecAnalyst` | checked |
| 10 | `SegmentedDurability`: what survives a power loss | not begun |
| 11 | claim gates and adjudication as operators over reports | not begun |

Theorems to add: `LanesStayApart` of the compound indexes, `HitsAreSpans` of the
lanes.

## 9. Running it

    tlc -workers 2 -config SegmentedIndexSafety.cfg MCSegmentedIndex.tla
    tlapm SegmentedIndexProofs.tla

and likewise for the other configurations; `PROJECT.json` names the module of
each. The largest runs take two to three minutes.
