--------------------------- MODULE CompoundIndex ---------------------------
(***************************************************************************)
(* Indexes made of several files and a manifest: hybrid indexes            *)
(* (fo-core/src/hybrid.rs) and multi-view indexes (multiview.rs).          *)
(* Processes save collections of documents into one directory and may die  *)
(* between any two of their file operations; another process loads what    *)
(* it finds, file by file, and searches what it loaded.  A file holds the  *)
(* collection it was made from.                                            *)
(***************************************************************************)
EXTENDS HybridFusion, MultiView

CONSTANTS Scenarios,   \* records [kind, collections, savers, asking, config]
          Questions, ViewQuestions,   \* what is asked of either kind of index
          Savers,      \* processes that save, each once
          MaxLoads,    \* loads of the directory
          Absent

\* validate_options: the views of a configuration are a list.
ASSUME ScenariosAssumption ==
    \A s \in Scenarios :
        s.kind # "hybrid" => /\ Len(s.config.views) \in Nat
                             /\ DOMAIN s.config.views = 1..Len(s.config.views)

VARIABLES scenario,
          files,       \* the components on disk, by number
          manifest,    \* the manifest on disk
          saver,       \* for each saver its step and collection
          settled,     \* the last collection saved with nobody else writing
          raced,       \* whether savers overlapped in time
          loading,     \* what the process that loads has read so far
          handle,      \* the index it loaded
          loads,
          request, progress, query,
          lexical, overlap, fused, blended, clusters, views

directoryVars == <<files, manifest, saver, settled, raced>>
loadVars == <<loading, handle, loads>>
searchVars == <<request, progress, query, lexical, overlap, fused, blended, clusters, views>>
compoundVars == <<scenario, directoryVars, loadVars, searchVars>>

Hybrid == scenario.kind = "hybrid"
Components == IF Hybrid THEN 1..2 ELSE DOMAIN scenario.config.views
Idle == [step |-> "idle"]
NoQuery == <<>>

CompoundInit ==
    /\ scenario \in Scenarios
    /\ files = [k \in Components |-> Absent] /\ manifest = Absent
    /\ saver = [p \in Savers |-> Idle] /\ settled = Absent /\ raced = FALSE
    /\ loading = Absent /\ handle = Absent /\ loads = 0
    /\ request = Absent /\ progress = "unasked" /\ query = NoQuery
    /\ lexical = <<>> /\ overlap = <<>> /\ fused = <<>> /\ blended = <<>>
    /\ clusters = <<>> /\ views = <<>>
-----------------------------------------------------------------------------
(* Saving: the components in their order, then the manifest.               *)

Saving == {p \in Savers : saver[p].step \notin {"idle", "saved", "dead"}}
AcceptsCollection(collection) == Hybrid => AcceptsDocuments(collection)
BeginSave(p) ==
    /\ saver[p] = Idle /\ p \in scenario.savers
    /\ \E c \in scenario.collections :
            /\ AcceptsCollection(c)
            /\ saver' = [saver EXCEPT ![p] = [step |-> "components", next |-> 1, of |-> c]]
    /\ raced' = (Saving # {}) /\ settled' = Absent
    /\ UNCHANGED <<scenario, files, manifest, loadVars, searchVars>>
SaveComponent(p) ==
    /\ saver[p].step = "components" /\ saver[p].next \in Components
    /\ files' = [files EXCEPT ![saver[p].next] = saver[p].of]
    /\ saver' = [saver EXCEPT ![p].next = @ + 1]
    /\ UNCHANGED <<scenario, manifest, settled, raced, loadVars, searchVars>>
Saved(p) ==
    /\ manifest' = saver[p].of
    /\ saver' = [saver EXCEPT ![p] = [step |-> "saved"]]
    /\ settled' = IF raced \/ Saving # {p} THEN Absent ELSE saver[p].of

\* A hybrid manifest is removed before the new one is renamed into place; that
\* of several views only where renaming over it is refused.
RemoveManifest(p) ==
    /\ saver[p].step = "components" /\ saver[p].next \notin Components
    /\ manifest # Absent
    /\ manifest' = Absent /\ saver' = [saver EXCEPT ![p].step = "removed"]
    /\ UNCHANGED <<scenario, files, settled, raced, loadVars, searchVars>>
RenameManifest(p) ==
    /\ \/ saver[p].step = "removed"
       \/ /\ saver[p].step = "components" /\ saver[p].next \notin Components
          /\ Hybrid => manifest = Absent
    /\ Saved(p)
    /\ UNCHANGED <<scenario, files, raced, loadVars, searchVars>>

Die(p) ==
    /\ p \in Saving
    /\ saver' = [saver EXCEPT ![p] = [step |-> "dead"]]
    /\ UNCHANGED <<scenario, files, manifest, settled, raced, loadVars, searchVars>>
-----------------------------------------------------------------------------
(* Loading: the manifest, the components it lists, then their identity.    *)

Paths(collection) == MappedSeq(collection, LAMBDA d : d.id)
Lengths(collection) ==
    MappedSeq(collection, LAMBDA d : Len(Normalize(TextOf(d.body), scenario.config.profile)))

\* Mutation: only the numbers of the documents are compared.
SameNumbers(a, b) == Len(a) = Len(b)

\* The documents of a hybrid index agree in their paths, those of several
\* views also in their lengths.
SameIdentity(a, b) ==
    /\ Paths(a) = Paths(b)
    /\ ~Hybrid => Lengths(a) = Lengths(b)

BeginLoad ==
    /\ loading = Absent /\ handle = Absent /\ loads < MaxLoads /\ manifest # Absent
    /\ loading' = [manifest |-> manifest, components |-> <<>>, settled |-> settled]
    /\ loads' = loads + 1
    /\ UNCHANGED <<scenario, directoryVars, handle, searchVars>>
ReadComponent ==
    /\ loading # Absent /\ Len(loading.components) + 1 \in Components
    /\ loading' = [loading EXCEPT
                      !.components = Append(@, files[Len(loading.components) + 1]),
                      !.settled = IF settled = @ THEN @ ELSE Absent]
    /\ UNCHANGED <<scenario, directoryVars, handle, loads, searchVars>>
Agreeing ==
    IF Hybrid
    THEN /\ SameIdentity(loading.components[1], loading.components[2])
         /\ SameIdentity(loading.components[2], loading.manifest)
    ELSE \A k \in Components : SameIdentity(loading.components[1], loading.components[k])
FinishLoad ==
    /\ loading # Absent /\ Len(loading.components) + 1 \notin Components
    /\ handle' = IF Agreeing THEN loading ELSE Absent
    /\ loading' = Absent
    /\ UNCHANGED <<scenario, directoryVars, loads, searchVars>>
-----------------------------------------------------------------------------
(* Searching what was loaded: nothing on disk matters any more.            *)

Goto(next) == progress' = next
Keeping(variables) == UNCHANGED <<scenario, directoryVars, loadVars, variables>>

OverlapIndex == OverlapComponent(handle.components[1], scenario.config)
LexicalDocuments == handle.components[2]
LexicalPart == BuildLexical(LexicalDocuments)

Ask ==
    /\ handle # Absent /\ progress = "unasked" /\ scenario.asking
    /\ request' \in IF Hybrid THEN Questions ELSE ViewQuestions
    /\ Goto(IF Hybrid THEN "parsing" ELSE "viewing")
    /\ Keeping(<<query, lexical, overlap, fused, blended, clusters, views>>)

Mode == SelectMode(request.pieces, Len(Occurring(query)), request.options.mode)
ParseQuery ==
    /\ progress = "parsing"
    /\ LET parsed == Parse(request.pieces)
       IN  IF parsed.accepted THEN query' = parsed.value /\ Goto("lexical")
           ELSE query' = NoQuery /\ Goto("refused")
    /\ Keeping(<<request, lexical, overlap, fused, blended, clusters, views>>)
SearchLexicalLane ==
    /\ progress = "lexical" /\ Goto("overlap")
    /\ lexical' = IF Mode = "overlap" THEN <<>>
                  ELSE SearchLexical(LexicalPart, query, ForLexicalLane(request.options))
    /\ Keeping(<<request, query, overlap, fused, blended, clusters, views>>)
SearchOverlapLane ==
    /\ progress = "overlap" /\ Goto("fusing")
    /\ overlap' = IF Mode = "lexical" THEN <<>>
                  ELSE Named(SearchAdaptive(OverlapIndex, Specimen(query, scenario.config),
                                            ForOverlapLane(request.options), request.options.plan),
                             handle.components[1])
    /\ Keeping(<<request, query, lexical, fused, blended, clusters, views>>)
Fuse ==
    /\ progress = "fusing" /\ Goto("fused")
    /\ fused' = FuseLanes(LexicalDocuments, lexical, overlap, request.options)
    /\ Keeping(<<request, query, lexical, overlap, blended, clusters, views>>)
FuseSemantic ==
    /\ progress = "fused"
    /\ LET report == FuseSemanticCandidates(fused, request.candidates, request.semantic)
       IN  IF report.accepted THEN blended' = report.value /\ Goto("blended")
           ELSE blended' = <<>> /\ Goto("refused")
    /\ Keeping(<<request, query, lexical, overlap, fused, clusters, views>>)

ViewSpecimen == Normalize(TextOf(request.specimen), scenario.config.profile)
ViewIndex(k) ==
    BuildView(MappedSeq(handle.components[k], LAMBDA d : TextOf(d.body)), scenario.config,
              scenario.config.views[k])
ViewHits(k) ==
    SearchNormalized(ViewIndex(k), ViewSpecimen,
                     ForView(request.options, scenario.config, scenario.config.views[k]))
TakeHits(k, hits) ==
    IF hits.accepted
    THEN /\ clusters' = Append(clusters, AddHits(IF k = 1 THEN <<>> ELSE clusters[k - 1],
                                   hits.value, scenario.config.views[k], scenario.config))
         /\ UNCHANGED progress
    ELSE clusters' = <<>> /\ Goto("refused")
SearchView ==
    /\ progress = "viewing" /\ Len(clusters) < Len(scenario.config.views)
    /\ \E hits \in {ViewHits(Len(clusters) + 1)} : TakeHits(Len(clusters) + 1, hits)
    /\ Keeping(<<request, query, lexical, overlap, fused, blended, views>>)
FuseViews ==
    /\ progress = "viewing" /\ Len(clusters) = Len(scenario.config.views) /\ Goto("viewed")
    /\ views' = FuseClusters(Last(clusters), scenario.config, request.options)
    /\ Keeping(<<request, query, lexical, overlap, fused, blended, clusters>>)

CompoundNext ==
    \/ \E p \in Savers : BeginSave(p) \/ SaveComponent(p) \/ RemoveManifest(p)
                            \/ RenameManifest(p) \/ Die(p)
    \/ BeginLoad \/ ReadComponent \/ FinishLoad
    \/ Ask \/ ParseQuery \/ SearchLexicalLane \/ SearchOverlapLane \/ Fuse \/ FuseSemantic
    \/ SearchView \/ FuseViews

CompoundSpec == CompoundInit /\ [][CompoundNext]_compoundVars
-----------------------------------------------------------------------------
(* Properties.                                                             *)

\* Loads (hybrid.rs:164-268, multiview.rs:275-324, 628-654): whatever saves
\* overlap or die, the parts of a loaded index speak of the same documents;
\* and a directory somebody finished saving, with nobody else writing since,
\* loads, as exactly what was saved.
OneIdentity(read) ==
    \A j, k \in DOMAIN read.components :
        /\ Paths(read.components[j]) = Paths(read.components[k])
        /\ ~Hybrid => Lengths(read.components[j]) = Lengths(read.components[k])
Exactly(read) ==
    /\ read.manifest = read.settled
    /\ \A k \in DOMAIN read.components : read.components[k] = read.settled
LoadsAgree ==
    /\ handle # Absent =>
            OneIdentity(handle) /\ (Hybrid => Paths(handle.manifest) = Paths(handle.components[1]))
    /\ \A read \in {loading, handle} \ {Absent} : read.settled # Absent => Exactly(read)

\* What a query means for a document, by its words alone.
Says(document, clause) ==
    IF clause.phrase
    THEN \E f \in clause.mask : 
            \E i \in 1..(Len(document[f]) - Len(clause.terms) + 1) :
                SubSeq(document[f], i, i + Len(clause.terms) - 1) = clause.terms
    ELSE Range(clause.terms) \subseteq UNION {Range(document[f]) : f \in clause.mask}
Saying(document, occur) == {i \in OfOccur(query, occur) : Says(document, query[i])}
Means(document, options) ==
    /\ Saying(document, "must_not") = {} /\ Saying(document, "must") = OfOccur(query, "must")
    /\ options.requirePhrases =>
            \A c \in Range(Positive(query)) : c.phrase => Says(document, c)
    /\ 100 * Cardinality(Saying(document, "should"))
            >= options.minShould * Cardinality(OfOccur(query, "should"))
Mentions(document) ==
    \E c \in Range(Positive(query)) : \E t \in Range(c.terms) : \E f \in c.mask :
        t \in Range(document[f])

\* The shortest part of one field that has every positive term, each in a
\* field it was asked for.
HasAllTerms(document, field, i, j) ==
    \A s \in Range(TermSpecs(query)) :
        field \in s.mask /\ s.term \in Range(SubSeq(document[field], i, j))
WindowLengths(document) ==
    UNION {{part[2] - part[1] + 1 :
                part \in {w \in (DOMAIN document[f]) \X (DOMAIN document[f]) :
                             HasAllTerms(document, f, w[1], w[2])}} : f \in Fields}
NoLimitBinds(options) ==
    /\ options.maxPostings >= Len(LexicalDocuments)
    /\ options.candidateTerms >= Cardinality(PositiveTerms(query))
    /\ options.maxCandidates >= Len(LexicalDocuments)
    /\ options.maxResults >= Len(LexicalDocuments) /\ options.minScore = 0

\* Answers (lexical.rs): a document is among the answers only if its words
\* satisfy the query; if no limit binds, every such document with one of the
\* query's words is; and the proximity of words is that of the shortest part
\* of a field that has them all.
AnswersMean ==
    progress = "overlap" /\ Mode # "overlap" =>
        LET options == ForLexicalLane(request.options)
            documents == MappedSeq(LexicalDocuments, Indexed)
            answered == {r.document + 1 : r \in Range(lexical)}
        IN  /\ \A d \in answered : Means(documents[d], options) /\ Mentions(documents[d])
            /\ NoLimitBinds(options) =>
                    {d \in DOMAIN documents : Means(documents[d], options) /\ Mentions(documents[d])}
                        \subseteq answered
            /\ \A r \in Range(lexical) :
                    Cardinality(PositiveTerms(query)) \in 2..MaximumSpecs =>
                        LET lengths == WindowLengths(documents[r.document + 1])
                        IN  r.spans = {} <=> lengths = {}
                            /\ r.spans # {} => Min(r.spans) = Min(lengths)

\* Fusion (hybrid.rs, semantic.rs): a document is one result, it passes the
\* filter, its evidence is what the lanes found for it, every document of a
\* lane that passes the filter is there unless a limit or a floor binds, what
\* a model alone knows is bounded and never passes for textual evidence, and
\* no candidate of the model takes a document away.
OneEach(results) ==
    \A i, j \in DOMAIN results : results[i].id = results[j].id => i = j
FromLanes(r) ==
    /\ r.id \in request.options.filter.ids
    /\ r.lexical # <<>> \/ r.overlap # <<>>
    /\ r.lexical = SelectSeq(lexical, LAMBDA l : l.id = r.id)
    /\ (r.overlap = <<>>) = (\A i \in DOMAIN overlap : overlap[i].id # r.id)
    /\ \A e \in Range(r.overlap) : e \in Range(overlap) /\ e.id = r.id
Fitting ==
    {r.id : r \in {x \in Range(lexical) \cup Range(overlap) :
                      Passes(request.options.filter, CanonicalDocument(LexicalDocuments, x.id))}}
Truthful(r) ==
    /\ r.hybrid = SelectSeq(fused, LAMBDA f : f.id = r.id)
    /\ r.relationship \in {"textual_provenance", "textual_and_semantic"}
            <=> r.hybrid # <<>> /\ \E i \in DOMAIN overlap : overlap[i].id = r.id
    /\ r.relationship = "semantic_only" <=> r.hybrid = <<>>
LanesStayApart ==
    /\ progress \in {"fused", "blended"} =>
            /\ OneEach(fused) /\ \A r \in Range(fused) : FromLanes(r)
            /\ request.options.minScore = 0 =>
                    Cardinality(Range(fused))
                        = Smaller(Cardinality(Fitting), request.options.maxResults)
    /\ progress = "blended" =>
            /\ OneEach(blended) /\ \A r \in Range(blended) : Truthful(r)
            /\ Cardinality({r \in Range(blended) : r.hybrid = <<>>})
                    =< IF request.semantic.allowSemanticOnly
                       THEN request.semantic.maxSemanticOnly ELSE 0
            /\ request.semantic.minScore = 0
                    /\ Len(fused) + request.semantic.maxSemanticOnly =< request.semantic.maxResults
                    => {r.id : r \in Range(fused)} \subseteq {r.id : r \in Range(blended)}

\* Views (multiview.rs): a result is supported by as many different views as
\* asked for, its representative is the best of what they found, and with
\* limits and floors that do not bind a document that contains the specimen
\* is found by all views that guarantee it.
Containing ==
    {d \in 1..Len(handle.components[1]) :
        \A k \in Components : ExactOccurrences(ViewSpecimen,
            Normalize(TextOf(handle.components[k][d].body), scenario.config.profile), 1) # <<>>}
Guaranteeing ==
    {k \in Components : Len(ViewSpecimen) >= scenario.config.views[k].q
                                                + scenario.config.views[k].window - 1}
ViewsAgree ==
    progress = "viewed" =>
        /\ \A r \in Range(views) :
                /\ Cardinality({e.view : e \in r.evidence}) >= scenario.config.minSupport
                /\ r.support = Cardinality({e.view : e \in r.evidence})
                /\ r.representative.score = Max({e.raw : e \in r.evidence})
        /\ request.options.minSimilarity = 0 /\ request.options.intent = "any_passage"
                /\ Cardinality(Guaranteeing) >= scenario.config.minSupport
                => Containing \subseteq {r.representative.document + 1 : r \in Range(views)}
=============================================================================
