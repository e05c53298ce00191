--------------------------- MODULE OverlapEngine ---------------------------
(***************************************************************************)
(* A corpus is indexed (IndexBuilder, fo-core/src/index.rs), the index is  *)
(* saved in one of the two formats, the file may be altered on the disk,   *)
(* it is loaded, and a batch of specimens is searched in it by the workers *)
(* of a thread pool (batch.rs).  What is indexed, which batches may be     *)
(* asked and whether the disk fails is one of Cases.                       *)
(***************************************************************************)
EXTENDS OverlapSearch

CONSTANT Cases   \* records [texts, config, options, batches, damage]

\* Texts and the queries of a batch are sequences; a configuration has been
\* validated.
ASSUME CasesAssumption == \A c \in Cases :
    /\ c.texts \in Seq(Range(c.texts))
    /\ \A i \in DOMAIN c.texts : c.texts[i] \in Seq(Range(c.texts[i]))
    /\ ValidConfig(c.config)
    /\ \A b \in c.batches : b.queries \in Seq(Range(b.queries))

Variants == {1, 2}      \* the two formats

VARIABLES case, stage,
          documents,    \* normalized documents added so far
          scan, next,   \* winnowing of one document: the deque, the next feature
          kept,         \* features kept of the documents scanned
          index,        \* the index as it was built
          file,         \* the file on the disk
          loaded,       \* the index the searches use
          batch, outcomes, report

vars == <<case, stage, documents, scan, next, kept, index, file, loaded,
          batch, outcomes, report>>
built == <<documents, scan, next, kept, index>>

None == [none |-> TRUE]

Init ==
    /\ case \in Cases
    /\ stage = "adding" /\ documents = <<>> /\ scan = NotStarted /\ next = 1 /\ kept = <<>>
    /\ index = None /\ file = None /\ loaded = None
    /\ batch = None /\ outcomes = <<>> /\ report = None
-----------------------------------------------------------------------------
(* Building.                                                               *)

\* Identifiers and positions are 32-bit numbers.
Fits(text) == Len(documents) < NarrowMax /\ Len(text) =< NarrowMax

AddDocument ==
    /\ stage = "adding" /\ Len(documents) < Len(case.texts)
    /\ LET text == Normalize(case.texts[Len(documents) + 1], case.config.profile)
       IN  IF Fits(text) THEN documents' = Append(documents, text) /\ stage' = stage
           ELSE documents' = documents /\ stage' = "refused"
    /\ UNCHANGED <<case, scan, next, kept, index, file, loaded, batch, outcomes, report>>

Build ==
    /\ stage = "adding" /\ Len(documents) = Len(case.texts)
    /\ stage' = "scanning"
    /\ UNCHANGED <<case, documents, scan, next, kept, index, file, loaded, batch, outcomes,
                   report>>

Scanned == Len(kept) + 1
Hashes == QGramHashes(documents[Scanned], case.config.q)
Scanning == stage = "scanning" /\ Scanned =< Len(documents)
Keep(positions) ==
    /\ kept' = Append(kept, Selected(Hashes, positions))
    /\ scan' = NotStarted /\ next' = 1

KeepWithoutScan ==
    /\ Scanning /\ ~NeedsScan(Fingerprints(Hashes), case.config.window)
    /\ Keep(WithoutScan(Fingerprints(Hashes), case.config.window))
    /\ UNCHANGED <<case, stage, documents, index, file, loaded, batch, outcomes, report>>

ScanFeature ==
    /\ Scanning /\ NeedsScan(Fingerprints(Hashes), case.config.window) /\ next =< Len(Hashes)
    /\ scan' = Advance(Fingerprints(Hashes), case.config.window, scan, next)
    /\ next' = next + 1
    /\ UNCHANGED <<case, stage, documents, kept, index, file, loaded, batch, outcomes, report>>

KeepSelected ==
    /\ Scanning /\ next > Len(Hashes)
    /\ NeedsScan(Fingerprints(Hashes), case.config.window)
    /\ Keep(scan.selected)
    /\ UNCHANGED <<case, stage, documents, index, file, loaded, batch, outcomes, report>>

FinishBuild ==
    /\ stage = "scanning" /\ Len(kept) = Len(documents)
    /\ index' = [config |-> case.config, documents |-> documents, entries |-> BuildEntries(kept)]
    /\ stage' = "built"
    /\ UNCHANGED <<case, documents, scan, next, kept, file, loaded, batch, outcomes, report>>
-----------------------------------------------------------------------------
(* The file.                                                               *)

Save(format) ==
    /\ stage = "built"
    /\ IF ~WithinLimits(index)
       THEN file' = None /\ stage' = "refused"
       ELSE file' = (IF format = 1 THEN FileV1(index) ELSE FileV2(index)) /\ stage' = "saved"
    /\ UNCHANGED <<case, built, loaded, batch, outcomes, report>>

\* One field of an entry of the file is another one.
Altered(entry) ==
    {[entry EXCEPT !.df = n] : n \in 0..2} \cup
    (IF "payload" \in DOMAIN entry
     THEN {[entry EXCEPT !.count = n] : n \in 0..(entry.count + 1)} \cup
          {[entry EXCEPT !.payload[i] = b] : i \in DOMAIN entry.payload, b \in 0..(2 * Radix - 1)}
              \cup {[entry EXCEPT !.payload = Tail(@)]}
     ELSE {[entry EXCEPT !.postings = Reverse(@)], [entry EXCEPT !.postings = Tail(@)]} \cup
          {[entry EXCEPT !.postings[i] = p] :
               i \in DOMAIN entry.postings, p \in (0..2) \X (0..4)})

\* What a disk, a cut transfer or another program may have made of the file.
Damaged(f) ==
    {[f EXCEPT !.version = 3], [f EXCEPT !.reserved = 1], [f EXCEPT !.whole = FALSE], [f EXCEPT !.trailing = TRUE],
     [f EXCEPT !.config.q = @ + 1], [f EXCEPT !.config.q = 1], [f EXCEPT !.config.window = 0],
     [f EXCEPT !.documents = Reverse(@)], [f EXCEPT !.documents = Tail(@)],
     [f EXCEPT !.entries = Reverse(@)], [f EXCEPT !.entries = @ \o @]} \cup
    {[f EXCEPT !.documents[i].text = Tail(@)] : i \in DOMAIN f.documents} \cup
    UNION {{[f EXCEPT !.entries[i] = e] : e \in Altered(f.entries[i])} : i \in DOMAIN f.entries}

\* The checksum is left as it was, or it is the one of the altered file.
Damage ==
    /\ stage = "saved" /\ case.damage
    /\ \E altered \in Damaged(file) :
        \/ file' = altered
        \/ file.version = 2 /\ file' = [altered EXCEPT !.checksum = Contents(altered)]
    /\ stage' = "altered"
    /\ UNCHANGED <<case, built, loaded, batch, outcomes, report>>

Load ==
    /\ stage \in {"saved", "altered"}
    /\ loaded' = LoadAuto(file)
    /\ stage' = IF loaded'.accepted THEN "ready" ELSE "refused"
    /\ UNCHANGED <<case, built, file, batch, outcomes, report>>
-----------------------------------------------------------------------------
(* A batch is [queries, deduplicate, failFast, maxQueries]; a query is     *)
(* [id, specimen].                                                         *)

Canonical(b, i) ==
    IF ~b.deduplicate THEN i
    ELSE CHOOSE j \in DOMAIN b.queries :
            /\ b.queries[j].specimen = b.queries[i].specimen
            /\ \A k \in 1..(j - 1) : b.queries[k].specimen # b.queries[i].specimen
UniqueQueries(b) == {i \in DOMAIN b.queries : Canonical(b, i) = i}

ValidBatch(b) ==
    /\ Len(b.queries) =< b.maxQueries
    /\ \A i, j \in DOMAIN b.queries : b.queries[i].id = b.queries[j].id => i = j

Submit ==
    /\ stage = "ready" /\ batch = None
    /\ \E b \in case.batches :
        /\ batch' = b
        /\ IF ValidBatch(b) THEN stage' = "searching" /\ report' = None
           ELSE stage' = "answered" /\ report' = Refused
    /\ outcomes' = <<>>
    /\ UNCHANGED <<case, built, file, loaded>>

\* A worker takes one of the specimens nobody has searched yet.
SearchOne ==
    /\ stage = "searching"
    /\ \E i \in UniqueQueries(batch) \ DOMAIN outcomes :
        outcomes' = [j \in DOMAIN outcomes \cup {i} |->
                        IF j = i
                        THEN Search(loaded.value, batch.queries[i].specimen, case.options)
                        ELSE outcomes[j]]
    /\ UNCHANGED <<case, stage, built, file, loaded, batch, report>>

\* Mutation: the outcomes are taken in the order they were collected.
AnswerInOrder(i) ==
    [query |-> i, from |-> Canonical(batch, i), outcome |-> outcomes[
        Ordered(UniqueQueries(batch), LAMBDA n : <<n>>)[Smaller(i, Cardinality(UniqueQueries(batch)))]]]

\* An answer in the report: [query, from, outcome].
Answer(i) == [query |-> i, from |-> Canonical(batch, i), outcome |-> outcomes[Canonical(batch, i)]]
Failed == {i \in DOMAIN batch.queries : ~Answer(i).outcome.accepted}
Hits(i) == IF Answer(i).outcome.accepted THEN Len(Answer(i).outcome.value) ELSE 0
BatchReport ==
    [results |-> MappedSeq(CountUp(Len(batch.queries)), Answer),
     unique |-> Cardinality(UniqueQueries(batch)),
     deduplicated |-> Len(batch.queries) - Cardinality(UniqueQueries(batch)),
     succeeded |-> Len(batch.queries) - Cardinality(Failed), failed |-> Cardinality(Failed),
     totalHits |-> Sum(MappedSeq(CountUp(Len(batch.queries)), Hits))]

Collect ==
    /\ stage = "searching" /\ DOMAIN outcomes = UniqueQueries(batch)
    /\ report' = IF batch.failFast /\ \E i \in DOMAIN outcomes : ~outcomes[i].accepted
                 THEN Refused ELSE Accepted(BatchReport)
    /\ stage' = "answered"
    /\ UNCHANGED <<case, built, file, loaded, batch, outcomes>>

Next ==
    \/ AddDocument \/ Build \/ KeepWithoutScan \/ ScanFeature \/ KeepSelected \/ FinishBuild
    \/ \E format \in Variants : Save(format)
    \/ Damage \/ Load \/ Submit \/ SearchOne \/ Collect

Spec == Init /\ [][Next]_vars
-----------------------------------------------------------------------------
(* Properties.                                                             *)

\* Numbers and bytes of the compressed postings: what is written is read back
\* whatever follows it, and whatever bytes are read give a number that fits and
\* that its own encoding would not have made longer.
CodecIsExact ==
    /\ \A n \in 0..WideMax, b \in 0..(2 * Radix - 1) :
        ReadVarint(Append(WriteVarint(n), b))
            = Accepted([number |-> n, length |-> VarintLength(n)])
    /\ \A length \in 1..(WordBytes + 1) : \A bytes \in [1..length -> 0..(2 * Radix - 1)] :
        LET read == ReadVarint(bytes)
        IN  read.accepted => /\ read.value.number \in 0..WideMax
                             /\ VarintLength(read.value.number) =< read.value.length

\* Edit distance by its definition, on the first i and j tokens.
EditDistance(a, b) ==
    LET d[i \in 0..Len(a), j \in 0..Len(b)] ==
            IF i = 0 THEN j ELSE IF j = 0 THEN i
            ELSE Smaller(d[i - 1, j - 1] + (IF a[i] = b[j] THEN 0 ELSE 1),
                         1 + Smaller(d[i - 1, j], d[i, j - 1]))
    IN  d[Len(a), Len(b)]

\* By bit vectors, and wherever the specimen was expected, no span of the
\* document is nearer than the one reported.  The widening band stops when two
\* widths agree: it vouches for the spans whose edits cannot lead out of the
\* first width, and for the others that no distance is understated.
NoneNearer(found, pattern, text, InReach(_, _)) ==
    /\ 0 =< found.start /\ found.start =< found.end /\ found.end =< Len(text)
    /\ found.distance >= EditDistance(pattern, SubSeq(text, found.start + 1, found.end))
    /\ \A from \in 0..Len(text) : \A to \in from..Len(text) :
        LET distance == GlobalLevenshtein(pattern, SubSeq(text, from + 1, to))
        IN  InReach(from, distance) => found.distance =< distance
FirstWidth(pattern, text, band) == Larger(band, Abs(Len(pattern) - Len(text)) + MinimumRadius)
Nearest(pattern, text, expected, band) ==
    NoneNearer(SemiGlobalBanded(pattern, text, expected, band), pattern, text,
        LAMBDA from, distance :
            \/ Len(pattern) =< WordBits
            \/ Abs(from - expected) + distance =< FirstWidth(pattern, text, band))
Specimens == {Normalize(b.queries[1].specimen, case.config.profile) : b \in case.batches}
SpansAreNearest ==
    \A text \in Range(documents), pattern \in Specimens :
        \A expected \in {0, Len(text) \div 2, Len(text)} :
            Nearest(pattern, text, expected, case.options.band)

\* Winnowing (winnow.rs): every window of consecutive fingerprints of a
\* document that was scanned, or that is being scanned, has its rightmost
\* minimum among the selected ones, and nothing else is selected.
Minima(f, w, n) ==
    {RightmostMinimum(f, (i + 1 - Smaller(w, Len(f)))..i) : i \in Larger(Smaller(w, Len(f)), 1)..n}
WindowsAreCovered ==
    LET w == case.config.window
        f(d) == Fingerprints(QGramHashes(documents[d], case.config.q))
        all(d) == QGramHashes(documents[d], case.config.q)
    IN  /\ \A d \in DOMAIN kept :
            Range(kept[d]) = {all(d)[i] : i \in Minima(f(d), w, Len(f(d)))}
        /\ stage = "scanning" /\ next > 1 =>
            Range(scan.selected) = Minima(f(Scanned), w, next - 1)

\* Loading (index.rs, storage_v2.rs): whatever happened to the file, an index
\* that is loaded is one a search may rely on; a file nobody altered loads as
\* the index that was built, and one whose checksum does not match does not
\* load.  The numbers in it are those that were written.
OnlySoundFilesLoad ==
    /\ documents = <<>> => CodecIsExact
    /\ loaded # None =>
        /\ loaded.accepted => SoundIndex(loaded.value)
        /\ file \in {FileV1(index), FileV2(index)} => loaded = Accepted(index)
        /\ file.version = 2 /\ file.checksum # Contents(file) => ~loaded.accepted

Answered == stage = "answered" /\ report.accepted
Answers == {a \in Range(report.value.results) : a.outcome.accepted}
QueryTokens(a) == Normalize(batch.queries[a.query].specimen, case.config.profile)
Spans(query, text, r) ==
    <<SubSeq(query, r.queryStart + 1, r.queryEnd), SubSeq(text, r.start + 1, r.end)>>

\* Results (verify.rs, search.rs): verification finds a nearest span as far as it
\* looks, every span of a result lies inside its text, the distance reported is
\* the distance of the spans - beyond a machine word at least that, and nothing
\* exactly for a copy -, results are in the order of their scores and none
\* repeats another - in an index loaded from an altered file too.
ResultsAreTrue ==
    /\ stage = "built" => SpansAreNearest
    /\ Answered => \A a \in Answers :
        LET results == a.outcome.value
            query == QueryTokens(a)
        IN  /\ \A i \in DOMAIN results :
                LET r == results[i]
                    text == loaded.value.documents[r.document + 1]
                    spans == Spans(query, text, r)
                IN  /\ 0 =< r.queryStart /\ r.queryStart < r.queryEnd /\ r.queryEnd =< Len(query)
                    /\ 0 =< r.start /\ r.start < r.end /\ r.end =< Len(text)
                    /\ r.distance >= GlobalLevenshtein(spans[1], spans[2])
                    /\ Len(spans[1]) =< WordBits \/ spans[1] = spans[2] =>
                            r.distance = GlobalLevenshtein(spans[1], spans[2])
                    /\ r.score >= case.options.minSimilarity
            /\ \A i, j \in DOMAIN results : i < j =>
                /\ results[i].score >= results[j].score
                /\ ~Duplicates(results[i], results[j])

\* A copy is found: with limits that do not bind, a specimen that occurs in a
\* document of an index nobody altered, and that is as long as a window of
\* q-grams or too short for the features, leads to that document - through
\* winnowing, the bins of diagonals, suppression, chaining and the floors.
NothingBinds ==
    /\ case.options.intent = "any_passage" /\ case.options.minSimilarity = 0
    /\ case.options.minHits = 1 /\ ~case.damage
    /\ \A e \in Range(index.entries) : Len(e.postings) =< case.options.maxPostings
Occurs(query, text) == ExactOccurrences(query, text, 1) # <<>>
Guaranteed(query) ==
    \/ Len(query) >= case.config.q + case.config.window - 1
    \/ Len(query) < case.config.q
CopiesAreFound ==
    Answered /\ NothingBinds => \A a \in Answers : \A d \in DOMAIN documents :
        LET query == QueryTokens(a)
        IN  Guaranteed(query) /\ Occurs(query, documents[d]) =>
                \E i \in DOMAIN a.outcome.value : a.outcome.value[i].document = d - 1

\* A batch (batch.rs): whatever the workers' order and whichever specimens
\* are shared, the report is what searching one query after another gives.
Alone(i) == Search(loaded.value, batch.queries[i].specimen, case.options)
Alike(a, b) == batch.queries[a].specimen = batch.queries[b].specimen
Reports(answers) ==
    IF batch.failFast /\ \E i \in DOMAIN answers : ~answers[i].accepted
    THEN ~report.accepted
    ELSE /\ \A i \in DOMAIN answers :
            report.value.results[i].query = i /\ report.value.results[i].outcome = answers[i]
         /\ report.value.succeeded + report.value.failed = Len(answers)
         /\ report.value.unique + report.value.deduplicated = Len(answers)
         /\ report.value.deduplicated =
                Cardinality({i \in DOMAIN answers : batch.deduplicate
                                /\ \E j \in 1..(i - 1) : Alike(i, j)})
BatchIsSequential ==
    stage = "answered" /\ ValidBatch(batch) => Reports([i \in DOMAIN batch.queries |-> Alone(i)])
=============================================================================
