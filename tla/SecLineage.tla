----------------------------- MODULE SecLineage -----------------------------
(***************************************************************************)
(* fo-sec-lineage compares the items of a company's filings with those of  *)
(* its earlier filings and of other companies', and writes alerts and a    *)
(* lineage graph into a directory of their own; commands of fo-lineage add *)
(* what was found to a graph that lasts.  All may fail or die at any time, *)
(* and commands of fo-lineage may overlap: they take no lock.              *)
(*                                                                         *)
(* A corpus is [provider, sections], a section [id, cik, title, date,      *)
(* matches, characters]: cik, title and date may be missing, matches says  *)
(* that the file is text and the one of the corpus manifest.  What a       *)
(* search finds in a source is a constant.  One analysis runs at a time.   *)
(***************************************************************************)
EXTENDS LineageGraph

CONSTANTS
    Corpora,            \* the corpora there are
    KeyOf(_),           \* the canonical form of a section's title
    TitleHas(_, _),     \* whether a title contains a fragment, whatever their case
    FileName(_),        \* the file named after a section
    TitleOfPath(_),     \* a path as the title of a node
    Found(_, _),        \* passages of a target in a source: a set of results
    Informative(_),     \* whether a target has enough that tells it from others
    LineageOptions,     \* options of analyses
    NodeCommands,       \* nodes that are added by hand: [id, label, observed]
    IngestCommands,     \* ingestions: [target, label, observed, relation, detected, and floors]
    ResultFiles,        \* results of other searches: sequences of hits
    ListedAlerts,       \* alerts in a summary
    Outputs,            \* directories analyses write to
    Time, MaxCommands,
    Absent

VARIABLES
    outputs,    \* directory -> Absent or its files
    job,        \* the analysis that runs
    graph,      \* the file of fo-lineage
    unsaved,    \* the graphs that running commands of fo-lineage will save
    commands    \* commands begun
lineageVars == <<outputs, job, graph, unsaved, commands>>
-----------------------------------------------------------------------------
(* Sections, histories and targets.                                        *)

UnixDays(date) ==
    LET year == date[1] - (IF date[2] =< 2 THEN 1 ELSE 0)
        month == IF date[2] > 2 THEN date[2] - 3 ELSE date[2] + 9
        inEra == year % 400
    IN  (year \div 400) * 146097 + inEra * 365 + inEra \div 4 - inEra \div 100
            + (153 * month + 2) \div 5 + date[3] - 1 - 719468
IsDate(date) ==
    /\ date # <<>> /\ date[2] \in 1..12 /\ date[3] \in 1..31
    /\ UnixDays(date) >= 0
Eligible(s, options) ==
    /\ s.cik # 0 /\ s.title # "" /\ IsDate(s.date)
    /\ options.filters # {} => \E filter \in options.filters : TitleHas(s.title, filter)
Loadable(corpus, options) == \A s \in corpus.sections : Eligible(s, options) => s.matches
SectionsOf(corpus, options) ==
    {s \in corpus.sections : Eligible(s, options) /\ s.characters >= options.minimumCharacters}

Chronological(sections) == Ordered(sections, LAMBDA s : s.date \o <<s.id>>)
HistoryOf(s, sections) ==
    Chronological({t \in sections : t.cik = s.cik /\ KeyOf(t.title) = KeyOf(s.title)})
ItemGroup(s, sections) == Chronological({t \in sections : KeyOf(t.title) = KeyOf(s.title)})
TargetsIn(history, options) ==
    IF Len(history) = 1 THEN (IF options.noHistory THEN {history[1]} ELSE {})
    ELSE IF options.allTargets THEN Range(Tail(history)) ELSE {history[Len(history)]}
Backwards(date) == [i \in DOMAIN date |-> -date[i]]
SelectTargets(sections, options) ==
    LET histories == {HistoryOf(s, sections) : s \in sections}
    IN  Take(Ordered(UNION {TargetsIn(h, options) : h \in histories},
                     LAMBDA s : Backwards(s.date) \o <<s.id>>),
             options.maximumTargets)
-----------------------------------------------------------------------------
(* One target.                                                             *)

Latest(s, n) == SubSeq(s, 1 + Monus(Len(s), n), Len(s))
\* Mutation: all of the history but the target.
OthersOf(target, sections, options) ==
    Latest(SelectSeq(HistoryOf(target, sections), LAMBDA s : s # target), options.maximumPrior)
PriorOf(target, sections, options) ==
    LET history == HistoryOf(target, sections)
        position == CHOOSE i \in DOMAIN history : history[i] = target
    IN  Latest(SubSeq(history, 1, position - 1), options.maximumPrior)
PeersOf(target, sections, options) ==
    LET earlier(s) == s.cik # target.cik /\ Precedes(s.date, target.date)
    IN  IF options.peers
        THEN Take(Reverse(SelectSeq(ItemGroup(target, sections), earlier)), options.maximumPeers)
        ELSE <<>>
ByScore(results) ==
    LET scores == {r.score : r \in results}
    IN  Ordered(results, LAMBDA r : <<Above(r.score, scores), r.path, r.place>>)
SearchSubset(target, candidates) ==
    Take(ByScore(UNION {Found(target.id, s.id) : s \in Range(candidates)}), Len(candidates))

ItemAlert(kind, severity, target, source) ==
    [kind |-> kind, severity |-> severity, target |-> target.id, source |-> source]
Judged(target, best, prior, options) ==
    IF best = {}
    THEN CASE prior = <<>> -> ItemAlert("no_history", 1, target, {})
           [] prior # <<>> /\ ~Informative(target.id) -> ItemAlert("insufficient_evidence", 2, target, {})
           [] OTHER -> ItemAlert("new_language", 3, target, {})
    ELSE LET b == CHOOSE r \in best : TRUE
             reused == ~Less(b.query, options.highCoverage) /\ ~Less(b.edit, options.highSimilarity)
             new == Less(b.query, options.newCoverage)
             revised == Less(b.query, options.materialCoverage)
                            \/ Less(b.edit, options.materialSimilarity)
         IN  CASE reused -> ItemAlert("high_reuse", 1, target, best)
               [] ~reused /\ new -> ItemAlert("new_language", 3, target, best)
               [] ~reused /\ ~new /\ revised -> ItemAlert("material_revision", 3, target, best)
               [] OTHER -> ItemAlert("moderate_revision", 2, target, best)
\* An older filing is closer than the one before the target.
Legacy(target, best, prior, same, options) ==
    {ItemAlert("legacy_language", 2, target, best) : b \in {b \in best :
        LET latest == prior[Len(prior)].id
            its == SelectSeq(same, LAMBDA r : r.path = latest)
            score == IF its = <<>> THEN Zero ELSE its[1].score
        IN  b.path # latest /\ ~Less(b.score, Plus(score, options.legacyMargin))}}
Migrated(r, options) ==
    ~Less(r.score, options.peerScore) /\ ~Less(r.query, options.peerCoverage)
Migration(target, best, options) ==
    {ItemAlert("peer_language", 3, target, best) : r \in {r \in best : Migrated(r, options)}}
\* Of the options the limits are positive, and the thresholds rise from new to
\* reused.
IsThreshold(x) == ~Less(x, Zero) /\ ~Less(One, x)
ValidCommand(options) ==
    /\ \A n \in {options.maximumTargets, options.maximumPrior, options.maximumPeers,
                options.maximumSources, options.reviewCandidates, options.edgeTokens,
                options.minimumCharacters} : n > 0
    /\ options.threads \in 1..256
    /\ \A x \in {options.edgeScore, options.edgeCoverage, options.newCoverage,
                options.materialCoverage, options.materialSimilarity, options.highCoverage,
                options.highSimilarity, options.legacyMargin, options.peerScore,
                options.peerCoverage} : IsThreshold(x)
    /\ ~Less(options.materialCoverage, options.newCoverage)
    /\ ~Less(options.highCoverage, options.materialCoverage)
    /\ ~Less(options.highSimilarity, options.materialSimilarity)
KindOrder ==
    <<"no_history", "insufficient_evidence", "new_language", "material_revision",
      "moderate_revision", "high_reuse", "legacy_language", "peer_language">>
KindIndex(alert) == CHOOSE i \in DOMAIN KindOrder : KindOrder[i] = alert.kind
ClassifyAlerts(target, prior, same, peers, options) ==
    LET best(results) == Range(Take(results, 1))
    IN  Ordered({Judged(target, best(same), prior, options)}
                    \cup Legacy(target, best(same), prior, same, options)
                    \cup Migration(target, best(peers), options),
                LAMBDA a : <<-a.severity, KindIndex(a)>>)

RetainEdge(r, options) ==
    /\ ~Less(r.score, options.edgeScore) /\ ~Less(r.query, options.edgeCoverage)
    /\ r.tokens >= options.edgeTokens
OwnSources(same, options) ==
    Take(SelectSeq(same, LAMBDA r : RetainEdge(r, options)), options.maximumSources)
PeerSources(peers, options) ==
    Take(SelectSeq(peers, LAMBDA r : Migrated(r, options) /\ r.tokens >= options.edgeTokens), 1)
EdgeTo(target, relation, results) ==
    MappedSeq(results, LAMBDA r : [key |-> <<r.path, target.id, relation>>, result |-> r])
EdgesOf(target, same, peers, options) ==
    EdgeTo(target, "derived_from", OwnSources(same, options))
        \o EdgeTo(target, "reuses", PeerSources(peers, options))
\* Of neighbours about one source the first stays.
WithoutRepeats(results) ==
    Concat([i \in DOMAIN results |->
        IF i > 1 /\ results[i].path = results[i - 1].path THEN <<>> ELSE <<results[i]>>])
AnalyzeTarget(target, sections, options) ==
    LET analysis(prior, peerSections, same, peers) ==
            [target |-> target.id, prior |-> Len(prior), peers |-> Len(peerSections),
             best |-> Take(same, 1), bestPeer |-> Take(peers, 1),
             accepted |-> OwnSources(same, options) \o PeerSources(peers, options),
             alerts |-> ClassifyAlerts(target, prior, same, peers, options),
             edges |-> EdgesOf(target, same, peers, options),
             review |-> Take(WithoutRepeats(ByScore(Range(same \o peers))),
                             options.reviewCandidates)]
        found(prior, peerSections) ==
            analysis(prior, peerSections, SearchSubset(target, prior),
                     SearchSubset(target, peerSections))
    IN  found(PriorOf(target, sections, options), PeersOf(target, sections, options))
-----------------------------------------------------------------------------
(* The analysis.                                                           *)

InitLineage ==
    /\ outputs = [o \in Outputs |-> Absent]
    /\ job = Absent /\ graph = Absent /\ unsaved = {} /\ commands = 0
NodeOf(s) == [label |-> s.title, observed |-> {UnixDays(s.date)}]
NodesOf(sections) ==
    FoldSet(LAMBDA s, g : UpsertNode(g, s.id, NodeOf(s)), EmptyGraph, sections)
NewDirectory ==
    [results |-> <<>>, report |-> Absent, alerts |-> Absent, lineage |-> Absent,
     summary |-> Absent, artifacts |-> Absent]
\* Refused if the options are not valid, the directory exists, the corpus has
\* another provider, an eligible section is not the one of the manifest, or
\* there is no target.  Otherwise all targets are analysed, in parallel, before
\* anything but the directory is written.
StartLineage ==
    /\ job = Absent /\ commands < MaxCommands
    /\ \E o \in Outputs, corpus \in Corpora, options \in LineageOptions :
        /\ outputs[o] = Absent /\ ValidCommand(options)
        /\ corpus.provider = "sec_10k" /\ Loadable(corpus, options)
        /\ \E sections \in {SectionsOf(corpus, options)} :
           \E targets \in {SelectTargets(sections, options)} :
            /\ targets # <<>>
            /\ job' = [output |-> o, sections |-> sections, options |-> options,
                       todo |-> Ordered({AnalyzeTarget(t, sections, options) : t \in Range(targets)},
                                        LAMBDA a : <<a.target>>),
                       done |-> <<>>, graph |-> NodesOf(sections)]
        /\ outputs' = [outputs EXCEPT ![o] = NewDirectory]
    /\ commands' = commands + 1
    /\ UNCHANGED <<graph, unsaved>>
WithEdges(g, edges) ==
    FoldLeft(LAMBDA h, e : UpsertEdge(h, e.key, NewEdge(FromResult(e.result, Time))), g, edges)
AnalysisWrites == UNCHANGED <<graph, unsaved, commands>>
Working == job # Absent
Written == outputs[job.output]
WriteResults ==
    /\ Working /\ job.todo # <<>>
    /\ LET a == Head(job.todo)
       IN  /\ outputs' = [outputs EXCEPT ![job.output].results =
                             (FileName(a.target) :> a.review) @@ @]
           /\ job' = [job EXCEPT !.todo = Tail(@), !.done = Append(@, a),
                                 !.graph = WithEdges(@, a.edges)]
    /\ AnalysisWrites
AlertsOf(analyses) == Concat(MappedSeq(analyses, LAMBDA a : a.alerts))
AlertCounts(alerts) ==
    [k \in {a.kind : a \in Range(alerts)} |-> Cardinality({i \in DOMAIN alerts : alerts[i].kind = k})]
TopAlerts(alerts) ==
    Take(Ordered(Range(alerts), LAMBDA a : <<-a.severity, a.target, KindIndex(a)>>), ListedAlerts)
WriteFile(file, content) ==
    /\ outputs' = [outputs EXCEPT ![job.output][file] = content]
    /\ UNCHANGED job /\ AnalysisWrites
AllResults == Working /\ job.todo = <<>>
WriteReport ==
    /\ AllResults /\ Written.report = Absent
    /\ ValidGraph(job.graph)
    /\ WriteFile("report", [sections |-> job.sections, options |-> job.options,
                            targets |-> job.done, counts |-> AlertCounts(AlertsOf(job.done)),
                            lineage |-> Summary(job.graph)])
WriteAlerts ==
    /\ AllResults /\ Written.report # Absent /\ Written.alerts = Absent
    /\ WriteFile("alerts", AlertsOf(job.done))
WriteLineage ==
    /\ AllResults /\ Written.alerts # Absent /\ Written.lineage = Absent
    /\ WriteFile("lineage", job.graph)
WriteSummary ==
    /\ AllResults /\ Written.lineage # Absent /\ Written.summary = Absent
    /\ WriteFile("summary", [lineage |-> Summary(job.graph),
                             counts |-> AlertCounts(AlertsOf(job.done)),
                             alerts |-> TopAlerts(AlertsOf(job.done))])
\* The artifacts are the files as they are now.
WriteArtifacts ==
    /\ AllResults /\ Written.summary # Absent
    /\ outputs' = [outputs EXCEPT ![job.output].artifacts = Written]
    /\ job' = Absent
    /\ AnalysisWrites
StopLineage ==
    /\ Working
    /\ job' = Absent
    /\ UNCHANGED outputs /\ AnalysisWrites
-----------------------------------------------------------------------------
(* fo-lineage.  A command loads the graph, or a new one, and replaces the   *)
(* file later, whatever became of the file meanwhile.                      *)

LoadOrNewGraph == IF graph = Absent THEN EmptyGraph ELSE graph
WillSave(g) ==
    /\ commands < MaxCommands
    /\ ValidGraph(g)
    /\ unsaved' = unsaved \cup {g} /\ commands' = commands + 1
    /\ UNCHANGED <<outputs, job, graph>>
SaveGraph ==
    /\ \E g \in unsaved : graph' = g /\ unsaved' = unsaved \ {g}
    /\ UNCHANGED <<outputs, job, commands>>
StopSaving ==
    /\ \E g \in unsaved : unsaved' = unsaved \ {g}
    /\ UNCHANGED <<outputs, job, graph, commands>>
\* A graph that is there is replaced only on request.
InitGraph(replace) == (graph = Absent \/ replace) /\ WillSave(EmptyGraph)
\* What a node said before is replaced, its time of observation included.
AddNode ==
    \E node \in NodeCommands :
        WillSave(UpsertNode(LoadOrNewGraph, node.id,
                            [label |-> node.label, observed |-> node.observed]))
MergeLineage ==
    \E o \in Outputs :
        /\ outputs[o] # Absent /\ outputs[o].lineage # Absent
        /\ WillSave(MergeGraphs(LoadOrNewGraph, outputs[o].lineage))
\* A hit of a search [path, label, observed, overlap]: what only other lanes found
\* has no overlap.  A result is a hit with nothing but its overlap.
HitOf(r) == [path |-> r.path, label |-> TitleOfPath(r.path), observed |-> {}, overlap |-> <<r>>]
Retained(hits, command) ==
    SelectSeq(hits, LAMBDA h :
        /\ h.overlap # <<>>
        /\ ~Less(h.overlap[1].score, command.minimumScore)
        /\ ~Less(h.overlap[1].query, command.minimumCoverage)
        /\ h.overlap[1].tokens >= command.minimumTokens)
Ingested(g, hits, command) ==
    FoldLeft(LAMBDA h, hit :
                UpsertEdge(UpsertNode(h, hit.path, [label |-> hit.label, observed |-> hit.observed]),
                           <<hit.path, command.target, command.relation>>,
                           NewEdge(FromResult(hit.overlap[1], command.detected))),
             UpsertNode(g, command.target, [label |-> command.label, observed |-> command.observed]),
             Retained(hits, command))
ReadableHits ==
    ResultFiles \cup
    UNION {{MappedSeq(review, HitOf) : review \in Range(outputs[o].results)} :
              o \in {p \in Outputs : outputs[p] # Absent}}
IngestResults ==
    \E command \in IngestCommands, hits \in ReadableHits :
        /\ IsThreshold(command.minimumScore) /\ IsThreshold(command.minimumCoverage)
        /\ WillSave(Ingested(LoadOrNewGraph, hits, command))

NextLineage ==
    \/ StartLineage \/ WriteResults \/ WriteReport \/ WriteAlerts \/ WriteLineage \/ WriteSummary
    \/ WriteArtifacts \/ StopLineage \/ (\E replace \in BOOLEAN : InitGraph(replace)) \/ AddNode
    \/ MergeLineage \/ IngestResults \/ SaveGraph \/ StopSaving
-----------------------------------------------------------------------------
(* Properties.                                                             *)

\* Within k steps of a node.
WithinSteps(g, id, k, direction) ==
    FoldLeft(LAMBDA members, i :
                members \cup {To(key, direction) : key \in {e \in Keys(g) : From(e, direction) \in members}},
             {id}, CountUp(k))
\* A walk finds what is within its depth, at its distance, along steps of which
\* the weakest counts.
WalksAreShortest(g, id, depth, direction) ==
    \E visits \in {Traverse(g, id, depth, direction)} :
        /\ {v.node : v \in Range(visits)} = WithinSteps(g, id, depth, direction) \ {id}
        /\ \A v \in Range(visits) :
            /\ v.node \notin WithinSteps(g, id, v.depth - 1, direction)
            /\ From(v.via, direction) \in WithinSteps(g, id, v.depth - 1, direction)
            /\ ~Less(g.edges[v.via].confidence, v.confidence)
        /\ \A i, j \in DOMAIN visits : visits[i].node = visits[j].node => i = j
FamiliesAreApart(g, minimum) ==
    \E families \in {Range(Families(g, minimum))} :
        /\ UNION {f.members : f \in families} = DOMAIN g.nodes
        /\ \A f, h \in families : f # h =>
            /\ f.members \cap h.members = {}
            /\ \A key \in Confident(g, minimum) : ~(key[1] \in f.members /\ key[2] \in h.members)
QuestionsAreAnswered(g) ==
    /\ \A id \in DOMAIN g.nodes, depth \in 1..3, direction \in {"ancestors", "descendants"} :
        WalksAreShortest(g, id, depth, direction)
    /\ \A minimum \in {Zero, Ratio(60, 100)} : FamiliesAreApart(g, minimum)
Earlier(s, t) == Precedes(s.date \o <<s.id>>, t.date \o <<t.id>>)
EdgesLookBack(g, sections) ==
    \A key \in Keys(g) : \E s, t \in sections :
        /\ s.id = key[1] /\ t.id = key[2] /\ KeyOf(s.title) = KeyOf(t.title)
        /\ key[3] = "derived_from" => s.cik = t.cik /\ Earlier(s, t)
        /\ key[3] = "reuses" => s.cik # t.cik /\ Precedes(s.date, t.date)
        /\ ObservedAt(g.nodes[s.id]) =< ObservedAt(g.nodes[t.id])
\* The origin of a family is one of its sections that have no source.
OriginsAreOriginal(g) ==
    \A id \in DOMAIN g.nodes : \A key \in Keys(g) : key[2] # CanonicalOrigin(g, id)
AlertsAgree(a, sections) ==
    LET first == SubSeq(KindOrder, 1, 6)
        judged == {alert \in Range(a.alerts) : alert.kind \in Range(first)}
        prior(t) == {s \in sections : s.cik = t.cik /\ KeyOf(s.title) = KeyOf(t.title) /\ Earlier(s, t)}
        target == CHOOSE s \in sections : s.id = a.target
    IN  /\ Cardinality(judged) = 1
        /\ \A alert \in judged : alert.kind = "no_history" <=> prior(target) = {}
        /\ \A alert \in Range(a.alerts) : alert.kind = "legacy_language" =>
            \E r \in alert.source : \E s, t \in prior(target) : r.path = s.id /\ Earlier(s, t)
\* What is counted is in the report, and what is not listed is not more severe.
SummaryAgrees(summary, report) ==
    LET all == Range(AlertsOf(report.targets))
    IN  /\ \A k \in DOMAIN summary.counts :
            summary.counts[k] = Cardinality({a \in all : a.kind = k})
        /\ \A a \in all : a.kind \in DOMAIN summary.counts
        /\ \A a \in all \ Range(summary.alerts) : \A b \in Range(summary.alerts) : a.severity =< b.severity

\* Lineage (analyze_target, search_subset, traverse, families): every edge
\* of an analysis, and so every walk to ancestors, leads to an earlier filing,
\* of the same company or, for a reuse, of another; families are apart and
\* their origins have no source; a target has one alert on its history that
\* agrees with what came before it, and no alert is missing from the counts;
\* artifacts.json lists files as they are;
\* merging a lineage a second time adds nothing.
LineageLooksBack ==
    /\ \A o \in Outputs : outputs[o] # Absent =>
        /\ outputs[o].report # Absent => \A a \in Range(outputs[o].report.targets) :
            /\ AlertsAgree(a, outputs[o].report.sections)
            /\ FileName(a.target) \in DOMAIN outputs[o].results
            /\ outputs[o].results[FileName(a.target)] = a.review
        /\ outputs[o].lineage # Absent =>
            /\ EdgesLookBack(outputs[o].lineage, outputs[o].report.sections)
            /\ OriginsAreOriginal(outputs[o].lineage)
            /\ graph # Absent =>
                \E merged \in {MergeGraphs(graph, outputs[o].lineage)} :
                    MergeGraphs(merged, outputs[o].lineage) = merged
        /\ outputs[o].summary # Absent => SummaryAgrees(outputs[o].summary, outputs[o].report)
        /\ outputs[o].artifacts # Absent =>
            outputs[o].artifacts = [outputs[o] EXCEPT !.artifacts = Absent]
    /\ graph # Absent => QuestionsAreAnswered(graph)
=============================================================================
