----------------------------- MODULE MultiView -----------------------------
(***************************************************************************)
(* Search through several overlap indexes of the same documents that       *)
(* differ in the size of their features (fo-core/src/multiview.rs).  A     *)
(* view is [name, q, window, weight]; spans are comparable because all     *)
(* views share one normalization.  The consistency of a chain and the      *)
(* confidence of a hit are taken for 1.                                    *)
(***************************************************************************)
EXTENDS Lanes

CONSTANT MinimumViewSimilarity   \* the floor of a view is at most this (15)

ValidViews(config) ==
    /\ config.views # <<>> /\ config.minSupport \in DOMAIN config.views
    /\ config.multiplier > 0
    /\ \A v \in Range(config.views) : v.weight > 0
    /\ \A v, w \in DOMAIN config.views : config.views[v].name = config.views[w].name => v = w
ViewIndexConfig(config, view) ==
    [q |-> view.q, window |-> view.window, profile |-> config.profile]
BuildView(texts, config, view) == IndexOf(texts, ViewIndexConfig(config, view))

\* Documents are the same when their paths and their lengths agree.
SameDocuments(paths, index, otherPaths, other) ==
    /\ paths = otherPaths
    /\ MappedSeq(index.documents, Len) = MappedSeq(other.documents, Len)

\* A view is asked for passages of any kind; the floors come at the end.
MoreResults(options, config) ==
    Larger(options.maxCandidates, options.maxResults * config.multiplier)
ForView(options, config, view) ==
    [options EXCEPT !.intent = "any_passage", !.maxResults = MoreResults(options, config),
        !.maxCandidates = Larger(@, MoreResults(options, config)),
        !.minSimilarity = Smaller(@, MinimumViewSimilarity),
        !.minMatched = Larger(Smaller(@, 2 * view.q), view.q),
        !.minQueryCoverage = 0, !.minSourceCoverage = 0]
-----------------------------------------------------------------------------
(* Clusters [representative, evidence] of hits on the same passage.        *)

ViewEvidence(hit, view) ==
    [view |-> view.name, weight |-> view.weight, raw |-> hit.score,
     similarity |-> hit.similarity, query |-> hit.queryCoverage, source |-> hit.sourceCoverage,
     matched |-> Matched(hit)]
SamePassage(a, b, config) ==
    /\ a.document = b.document
    /\ OverlapFraction(InQuery(a), InQuery(b)) >= config.consensus
    /\ OverlapFraction(InCorpus(a), InCorpus(b)) >= config.consensus

\* Mutation: every hit of a view is evidence.
CountEvery(evidence, new) == evidence \cup {new}

\* Of a view's evidence only the one with the highest score counts.
WithEvidence(evidence, new) ==
    IF \E e \in evidence : e.view = new.view /\ e.raw >= new.raw THEN evidence
    ELSE {e \in evidence : e.view # new.view} \cup {new}
Absorb(cluster, hit, view) ==
    [representative |-> IF hit.score > cluster.representative.score THEN hit
                        ELSE cluster.representative,
     evidence |-> WithEvidence(cluster.evidence, ViewEvidence(hit, view))]

\* A hit joins the first cluster whose representative is the same passage.
Joined(clusters, hit, config) ==
    {i \in DOMAIN clusters : SamePassage(hit, clusters[i].representative, config)}
AddHit(clusters, hit, view, config) ==
    IF Joined(clusters, hit, config) = {}
    THEN Append(clusters, [representative |-> hit, evidence |-> {ViewEvidence(hit, view)}])
    ELSE [clusters EXCEPT ![Min(Joined(clusters, hit, config))] = Absorb(@, hit, view)]
AddHits(clusters, hits, view, config) ==
    FoldLeft(LAMBDA c, hit : AddHit(c, hit, view, config), clusters, hits)
-----------------------------------------------------------------------------
(* Fusion of a cluster.                                                    *)

TotalWeight(evidence) == MapThenSumSet(LAMBDA e : e.weight, evidence)
WeightedMean(evidence, Part(_)) ==
    MapThenSumSet(LAMBDA e : e.weight * Part(e), evidence) \div TotalWeight(evidence)
RawMean(evidence) == WeightedMean(evidence, LAMBDA e : e.raw)
QueryMean(evidence) == WeightedMean(evidence, LAMBDA e : e.query)
SourceMean(evidence) == WeightedMean(evidence, LAMBDA e : e.source)
DisagreementSquared(evidence, mean) ==
    WeightedMean(evidence, LAMBDA e : (e.raw - mean) * (e.raw - mean))
LeastRoot(n) == Min({r \in 0..100 : (r + 1) * (r + 1) > n} \cup {100})
Disagreement(evidence) == LeastRoot(DisagreementSquared(evidence, RawMean(evidence)))
SupportRatio(evidence, config) == (100 * Cardinality(evidence)) \div Len(config.views)
ViewBase(evidence) ==
    (55 * RawMean(evidence) + 16 * WeightedMean(evidence, LAMBDA e : e.similarity)
        + 14 * QueryMean(evidence) + 1500) \div 100
FusedViewScore(evidence, config) ==
    Smaller(100, (ViewBase(evidence)
                    * (68 + (22 * SupportRatio(evidence, config)
                             + 10 * Monus(100, 2 * Disagreement(evidence))) \div 100)) \div 100)

FusedCluster(cluster, config) ==
    [representative |-> cluster.representative, evidence |-> cluster.evidence,
     support |-> Cardinality(cluster.evidence),
     score |-> FusedViewScore(cluster.evidence, config),
     queryCoverage |-> QueryMean(cluster.evidence),
     sourceCoverage |-> SourceMean(cluster.evidence),
     matched |-> Max({e.matched : e \in cluster.evidence})]
Supported(r, config, options) ==
    /\ r.support >= config.minSupport
    /\ r.score >= options.minSimilarity
    /\ r.matched >= Smaller(options.minMatched,
                            Larger(r.representative.queryEnd - r.representative.queryStart, 1))
    /\ PassesIntentCoverage(options, r.queryCoverage, r.sourceCoverage)
FuseClusters(clusters, config, options) ==
    Truncate(Ordered({r \in {FusedCluster(c, config) : c \in Range(clusters)} :
                          Supported(r, config, options)},
                     LAMBDA r : <<-r.score, -r.support, -r.queryCoverage,
                                  r.representative.document, r.representative.start>>),
             options.maxResults)
=============================================================================
