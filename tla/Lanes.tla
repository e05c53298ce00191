------------------------------- MODULE Lanes -------------------------------
(***************************************************************************)
(* Searches that first decide what the overlap index is asked: under a     *)
(* domain's policy (fo-core/src/domain.rs, domain_adaptive.rs), with       *)
(* documents chosen first by a prepared query (prepared.rs), planned by    *)
(* the work they would take (planner.rs), and for sources made of several  *)
(* passages (composite.rs).  Every lane ends in a call of Index::search.   *)
(* Fractions are hundredths and logarithms are replaced as in              *)
(* OverlapSearch; the entropy of the tokens, which only advises, is left   *)
(* out.                                                                    *)
(***************************************************************************)
EXTENDS OverlapSearch

IndexOf(texts, config) ==
    [config |-> config, documents |-> MappedSeq(texts, LAMBDA t : Normalize(t, config.profile)),
     entries |-> BuildEntries(MappedSeq(texts,
                                 LAMBDA t : Features(Normalize(t, config.profile), config)))]

Selection(query, config) ==
    IF Len(query) < config.q THEN <<>> ELSE Features(query, config)
Occurrences(features, fp) == Cardinality({i \in DOMAIN features : features[i].fingerprint = fp})
Distinct(features) == {features[i].fingerprint : i \in DOMAIN features}
DfFraction(n, entry) == (100 * entry.df) \div Larger(n, 1)

\* What a lane decides: the search it ends in (of which index, with which
\* options, ids[k] being the document that is the k-th there) and its report.
Searches(status, counts, index, options) ==
    [status |-> status, counts |-> counts, calls |-> TRUE, index |-> index, options |-> options,
     ids |-> [k \in DOMAIN index.documents |-> k - 1]]
SearchesNothing(status, counts) == [status |-> status, counts |-> counts, calls |-> FALSE]
OnlyEntries(index, fingerprints) ==
    [index EXCEPT !.entries = Filtered(@, LAMBDA e : e.fingerprint \in fingerprints)]
-----------------------------------------------------------------------------
(* Domains.  A policy is [maxDf, minIdf, maxPairs, minInformative,         *)
(* minOccurrences, fallback].                                              *)

\* A fingerprint of the query: the entry it leads to and what it would cost.
KnownFeature(n, occurrences, e) ==
    [fingerprint |-> e.fingerprint, occurrences |-> occurrences, postings |-> Len(e.postings),
     pairs |-> Len(e.postings) * occurrences, idf |-> Idf(n, e.df), df |-> DfFraction(n, e)]
KnownFeatures(index, features) ==
    {KnownFeature(Len(index.documents), Occurrences(features, e.fingerprint), e) :
        e \in UNION {Range(Lookup(index, fp)) : fp \in Distinct(features)}}

OccurrencesIn(known) == MapThenSumSet(LAMBDA c : c.occurrences, known)
PairsIn(known) == MapThenSumSet(LAMBDA c : c.pairs, known)

\* The stricter of what the policy and the search options ask for.
Effective(policy, options) ==
    [maxDf |-> Smaller(policy.maxDf, options.maxDf),
     minIdf |-> Larger(policy.minIdf, options.minIdf),
     maxPairs |-> Smaller(policy.maxPairs, options.maxPairs),
     minInformative |-> Larger(policy.minInformative, options.minInformative),
     minOccurrences |-> Larger(policy.minOccurrences, options.minHits)]

\* A feature is counted under the first reason to suppress it.
Reason(c, limits, options) ==
    IF c.postings > options.maxPostings THEN "posting_cap"
    ELSE IF c.df > limits.maxDf THEN "document_frequency"
    ELSE IF c.idf < limits.minIdf THEN "idf" ELSE "eligible"
Because(known, reason, limits, options) ==
    {c \in known : Reason(c, limits, options) = reason}

\* Mutation: a feature is taken as long as the budget is not used up.
WithinBudgetLate(candidates, budget) ==
    FoldLeft(LAMBDA kept, c : IF PairsIn(kept) > budget THEN kept ELSE kept \cup {c},
             {}, Ordered(candidates, LAMBDA c : <<c.pairs, c.postings, -c.idf, c.fingerprint>>))

\* The cheapest features first, each if it still fits.
WithinBudget(candidates, budget) ==
    FoldLeft(LAMBDA kept, c :
                 IF PairsIn(kept) + c.pairs > budget THEN kept ELSE kept \cup {c},
             {}, Ordered(candidates, LAMBDA c : <<c.pairs, c.postings, -c.idf, c.fingerprint>>))

DomainCounts(known, eligible, retained, selected, limits, options) ==
    [selected |-> selected, missing |-> selected - OccurrencesIn(known),
     retained |-> OccurrencesIn(retained),
     byPostingCap |-> OccurrencesIn(Because(known, "posting_cap", limits, options)),
     byDocumentFrequency |-> OccurrencesIn(Because(known, "document_frequency", limits, options)),
     byIdf |-> OccurrencesIn(Because(known, "idf", limits, options)),
     byBudget |-> OccurrencesIn(eligible \ retained),
     pairsBefore |-> PairsIn(known), pairsAfter |-> PairsIn(retained),
     informative |-> Percent(OccurrencesIn(retained), selected)]
NoDomainCounts ==
    [selected |-> 0, missing |-> 0, retained |-> 0, byPostingCap |-> 0,
     byDocumentFrequency |-> 0, byIdf |-> 0, byBudget |-> 0, pairsBefore |-> 0, pairsAfter |-> 0,
     informative |-> 0]

Thin(counts, limits) ==
    counts.retained < limits.minOccurrences \/ counts.informative < limits.minInformative

FallBack(index, policy, options, status, counts) ==
    IF policy.fallback THEN Searches(status, counts, index, options)
    ELSE SearchesNothing("insufficient_informative_evidence", counts)

DecideRetained(index, policy, options, limits, retained, counts) ==
    IF Thin(counts, limits)
    THEN FallBack(index, policy, options, "thin_evidence_direct_fallback", counts)
    ELSE Searches("executed", counts, OnlyEntries(index, {c.fingerprint : c \in retained}), options)
DecideEligible(index, selected, policy, options, limits, known, eligible, retained) ==
    DecideRetained(index, policy, options, limits, retained,
                   DomainCounts(known, eligible, retained, selected, limits, options))
DecideKnown(index, selected, policy, options, limits, known, eligible) ==
    DecideEligible(index, selected, policy, options, limits, known, eligible,
                   WithinBudget(eligible, limits.maxPairs))
DecideLimits(index, features, policy, options, limits, known) ==
    DecideKnown(index, Len(features), policy, options, limits, known,
                Because(known, "eligible", limits, options))
SearchDomain(index, query, policy, options) ==
    IF Len(query) < index.config.q
    THEN FallBack(index, policy, options, "short_query_direct_fallback", NoDomainCounts)
    ELSE DecideLimits(index, Features(query, index.config), policy, options,
                      Effective(policy, options),
                      KnownFeatures(index, Features(query, index.config)))

\* In a small corpus a fingerprint of one document stays eligible.
Attainable(limits, n) ==
    [limits EXCEPT !.maxDf = Smaller(Larger(@, 100 \div n), 100),
                   !.minIdf = Smaller(@, Idf(n, 1))]
SearchDomainAdaptive(index, query, policy, options) ==
    SearchDomain(index, query, Attainable(policy, Larger(Len(index.documents), 1)),
                 Attainable(options, Larger(Len(index.documents), 1)))
-----------------------------------------------------------------------------
(* Documents first.  A prepared query outlives the index it was made for:  *)
(* it is used with any index of the same configuration.                    *)

PreparedEntry(n, features, e) ==
    [fingerprint |-> e.fingerprint, positions |-> PositionsOf(features, e.fingerprint),
     postings |-> Len(e.postings), df |-> e.df, idf |-> Idf(n, e.df)]
PrepareOverlapQuery(index, query) ==
    [config |-> index.config, selected |-> Len(Selection(query, index.config)),
     features |-> {PreparedEntry(Larger(Len(index.documents), 1),
                                 Selection(query, index.config), e) :
                     e \in Known(index, Selection(query, index.config))}]

ValidFor(prepared, index) ==
    /\ prepared.config = index.config
    /\ \A f \in prepared.features : f.df =< Len(index.documents)

\* Rarest features first, each within what is left of the budget; the counts
\* are those of the prepared query, the postings those of the index.
PreparedCost(f) == f.postings * Len(f.positions)
ChooseFeature(scan, f, entry, limits) ==
    IF f.postings > limits.maxPostings THEN [scan EXCEPT !.byPostingCap = @ + 1]
    ELSE IF scan.pairs + PreparedCost(f) > limits.maxPairs THEN [scan EXCEPT !.byBudget = @ + 1]
    ELSE IF entry = <<>> THEN scan
    ELSE [scan EXCEPT !.pairs = @ + PreparedCost(f), !.scanned = @ + Len(entry[1].postings),
                      !.retained = @ \cup {f}]
NothingChosen == [pairs |-> 0, scanned |-> 0, byPostingCap |-> 0, byBudget |-> 0, retained |-> {}]
ChooseFeatures(index, prepared, limits) ==
    FoldLeft(LAMBDA scan, f : ChooseFeature(scan, f, Lookup(index, f.fingerprint), limits),
             NothingChosen,
             Ordered(prepared.features,
                     LAMBDA f : <<PreparedCost(f), f.postings, -f.idf, f.fingerprint>>))

\* Every document scores once for each feature it contains.
DocumentCandidate(document, features) ==
    [document |-> document,
     score |-> MapThenSumSet(LAMBDA f : f.idf * (1 + Len(f.positions)), features),
     distinct |-> Cardinality(features),
     occurrences |-> MapThenSumSet(LAMBDA f : Len(f.positions), features)]
ContainedIn(index, document, retained) ==
    {f \in retained : PostingsForDocument(Lookup(index, f.fingerprint)[1], document) # <<>>}
NearBest(candidates, fraction) ==
    SelectSeq(candidates, LAMBDA c : 100 * c.score >= candidates[1].score * fraction)
DocumentCandidates(index, retained, limits) ==
    Truncate(
        NearBest(Ordered({c \in {DocumentCandidate(d, ContainedIn(index, d, retained)) :
                                    d \in 0..(Len(index.documents) - 1)} :
                             c.distinct >= limits.minDistinct},
                         LAMBDA c : <<-c.score, -c.distinct, -c.occurrences, c.document>>),
                 limits.minScoreFraction),
        limits.maxDocuments)

\* The index of the chosen documents and features.
LocalId(ids, d) == (CHOOSE k \in DOMAIN ids : ids[k] = d) - 1
ProjectedPostings(entry, ids) ==
    MappedSeq(Filtered(entry.postings, LAMBDA p : p[1] \in Range(ids)),
              LAMBDA p : <<LocalId(ids, p[1]), p[2]>>)
ProjectedEntry(entry, ids) ==
    [fingerprint |-> entry.fingerprint,
     df |-> Cardinality({p[1] : p \in Range(ProjectedPostings(entry, ids))}),
     postings |-> ProjectedPostings(entry, ids)]
Projected(index, ids, fingerprints) ==
    [config |-> index.config,
     documents |-> MappedSeq(ids, LAMBDA d : index.documents[d + 1]),
     entries |-> Filtered(MappedSeq(OnlyEntries(index, fingerprints).entries,
                                     LAMBDA e : ProjectedEntry(e, ids)),
                           LAMBDA e : e.postings # <<>>)]

FirstCounts(index, scan, candidates) ==
    [pairs |-> scan.pairs, scanned |-> scan.scanned, byPostingCap |-> scan.byPostingCap,
     byBudget |-> scan.byBudget, retained |-> Cardinality(scan.retained),
     candidates |-> candidates]
DecideCandidates(index, limits, options, scan, candidates, ids, counts) ==
    CASE candidates = <<>> /\ limits.fallback ->
            Searches("full_index_fallback_thin_evidence", counts, index, options)
      [] candidates = <<>> /\ ~limits.fallback -> SearchesNothing("no_candidates", counts)
      [] /\ candidates # <<>> /\ limits.fallback
         /\ 100 * Len(candidates) > limits.maxFraction * Len(index.documents) ->
            Searches("full_index_fallback_broad_candidate_set", counts, index, options)
      [] OTHER ->
            [Searches("filtered", counts,
                      Projected(index, ids, {f.fingerprint : f \in scan.retained}), options)
                EXCEPT !.ids = ids]
DecideChosen(index, limits, options, scan, candidates) ==
    DecideCandidates(index, limits, options, scan, candidates,
                     Ordered({c.document : c \in Range(candidates)}, LAMBDA d : <<d>>),
                     FirstCounts(index, scan, candidates))
DecideScan(index, limits, options, scan) ==
    DecideChosen(index, limits, options, scan, DocumentCandidates(index, scan.retained, limits))
SearchDocumentFirst(index, prepared, limits, options) ==
    IF ~ValidFor(prepared, index) THEN SearchesNothing("refused", NothingChosen)
    ELSE IF index.documents = <<>>
    THEN SearchesNothing("no_candidates", FirstCounts(index, NothingChosen, <<>>))
    ELSE DecideScan(index, limits, options, ChooseFeatures(index, prepared, limits))
-----------------------------------------------------------------------------
(* Plans.  A planner is [maxPairs, compositeTokens, compositeRetained,     *)
(* compositeRepetition, missing, heavy].                                   *)

Repetition(query) == 100 - Percent(Cardinality(Range(query)), Len(query))
Fraction(part, whole) == IF whole = 0 THEN 0 ELSE (100 * part) \div whole
Light(known, options) == {c \in known : c.postings =< options.maxPostings}

CompositeSignal(query, retained, selected, options, planner) ==
    /\ options.intent # "any_passage" /\ Len(query) >= planner.compositeTokens
    /\ \/ Fraction(retained, selected) =< planner.compositeRetained
       \/ Repetition(query) >= planner.compositeRepetition
       \/ Len(query) >= 4 * planner.compositeTokens

Route(query, q, retained, selected, pairs, options, planner) ==
    IF Len(query) < q \/ selected < options.minHits THEN "short_direct"
    ELSE IF CompositeSignal(query, retained, selected, options, planner) THEN "composite"
    ELSE IF retained < options.minHits \/ pairs > planner.maxPairs THEN "bounded_sparse"
    ELSE "sparse"

Advisories(query, retained, selected, known, pairs, options, planner) ==
    (IF Repetition(query) >= planner.compositeRepetition THEN {"high_repetition"} ELSE {}) \cup
    (IF Fraction(selected - OccurrencesIn(known), selected) >= planner.missing
     THEN {"many_missing_features", "multi_view_recommended"} ELSE {}) \cup
    (IF Fraction(OccurrencesIn(known) - retained, selected) >= planner.heavy
     THEN {"heavy_features_suppressed", "multi_view_recommended"} ELSE {}) \cup
    (IF pairs > planner.maxPairs THEN {"sparse_budget_exceeded", "dense_scan_recommended"} ELSE {})
    \cup (IF CompositeSignal(query, retained, selected, options, planner)
          THEN {"composite_recommended"} ELSE {})

\* The length of a posting list that keeps the retained occurrences together
\* within the budget, but at least 1.
Suggested(retained, options, planner) ==
    IF retained = 0 THEN options.maxPostings
    ELSE Smaller(Larger(planner.maxPairs \div retained, 1), options.maxPostings)

PlanOf(query, q, selected, known, light, options, planner) ==
    [route |-> Route(query, q, OccurrencesIn(light), selected, PairsIn(light), options, planner),
     advisories |-> Advisories(query, OccurrencesIn(light), selected, known, PairsIn(light),
                               options, planner),
     retained |-> OccurrencesIn(light), missing |-> selected - OccurrencesIn(known),
     suppressed |-> OccurrencesIn(known \ light), pairs |-> PairsIn(light),
     exceeded |-> PairsIn(light) > planner.maxPairs,
     suggested |-> Suggested(OccurrencesIn(light), options, planner)]
PlanFeatures(query, q, selected, known, options, planner) ==
    PlanOf(query, q, selected, known, Light(known, options), options, planner)
PlanQuery(index, query, options, planner) ==
    PlanFeatures(query, index.config.q, Len(Selection(query, index.config)),
                 KnownFeatures(index, Selection(query, index.config)), options, planner)

WithPlan(plan, options) ==
    IF plan.exceeded \/ plan.route = "bounded_sparse"
    THEN [options EXCEPT !.maxPostings = Smaller(@, plan.suggested)] ELSE options
-----------------------------------------------------------------------------
(* Sources made of several passages.  The options of composites are        *)
(* [maxBlocks, minTokens, minIncrement, maxOverlap, minAggregate].         *)

PassageOptions(options, composite) ==
    [options EXCEPT !.intent = "any_passage",
        !.maxResults = Larger(options.maxCandidates, 4 * options.maxResults * composite.maxBlocks),
        !.minSimilarity = Smaller(Smaller(@, (2 * composite.minAggregate) \div 5), 20),
        !.minMatched = Smaller(@, composite.minTokens),
        !.minQueryCoverage = 0, !.minSourceCoverage = 0]

Matched(r) == Smaller(r.queryEnd - r.queryStart, Larger(r.end - r.start, 1))

\* Intervals <<start, end>> sorted by their starts are swept once: state is
\* the interval that is open and the length that is behind.
Sweep(state, next) ==
    IF next[1] =< state.end THEN [state EXCEPT !.end = Larger(@, next[2])]
    ELSE [start |-> next[1], end |-> next[2], behind |-> state.behind + state.end - state.start]
Swept(state) == state.behind + state.end - state.start
SweepAll(sorted) ==
    Swept(FoldLeft(Sweep, [start |-> sorted[1][1], end |-> sorted[1][2], behind |-> 0],
                   Tail(sorted)))
IntervalUnionLength(intervals) ==
    IF \E i \in intervals : i[1] < i[2]
    THEN SweepAll(Ordered({i \in intervals : i[1] < i[2]}, LAMBDA i : i))
    ELSE 0

OverlapFraction(a, b) ==
    (100 * Monus(Smaller(a[2], b[2]), Larger(a[1], b[1])))
        \div Larger(Smaller(Monus(a[2], a[1]), Monus(b[2], b[1])), 1)
InQuery(r) == <<r.queryStart, r.queryEnd>>
InCorpus(r) == <<r.start, r.end>>
OverlapsTooMuch(a, b, composite) ==
    \/ OverlapFraction(InQuery(a), InQuery(b)) > composite.maxOverlap
    \/ OverlapFraction(InCorpus(a), InCorpus(b)) > composite.maxOverlap
QueryUnion(blocks) == IntervalUnionLength({InQuery(b) : b \in Range(blocks)})
CorpusUnion(blocks) == IntervalUnionLength({InCorpus(b) : b \in Range(blocks)})

\* The square of a hit's utility.
UtilitySquared(r) == r.score * r.score * Larger(Matched(r), 1)
\* Mutation: only what a hit adds is looked at, not what it repeats.
SelectIfNew(selected, hit, composite) ==
    IF \/ Len(selected) >= composite.maxBlocks
       \/ selected # <<>> /\ QueryUnion(Append(selected, hit)) - QueryUnion(selected)
                                 < composite.minIncrement
    THEN selected ELSE Append(selected, hit)

SelectBlock(selected, hit, composite) ==
    IF \/ Len(selected) >= composite.maxBlocks
       \/ \E i \in DOMAIN selected : OverlapsTooMuch(hit, selected[i], composite)
       \/ selected # <<>> /\ QueryUnion(Append(selected, hit)) - QueryUnion(selected)
                                 < composite.minIncrement
    THEN selected ELSE Append(selected, hit)
ChosenBlocks(hits, composite) ==
    FoldLeft(LAMBDA selected, hit : SelectBlock(selected, hit, composite), <<>>,
             Ordered({h \in hits : Matched(h) >= composite.minTokens},
                     LAMBDA r : <<-UtilitySquared(r), -r.queryCoverage, r.queryStart,
                                  r.start, r.end>>))
SelectBlocks(hits, composite) ==
    Ordered(Range(ChosenBlocks(hits, composite)),
            LAMBDA r : <<r.queryStart, r.queryEnd, r.start, r.end>>)

Root(n) == Max({r \in 0..100 : r * r =< 100 * n})
BlockSupport(count) == IF count > 3 THEN 86 ELSE <<39, 63, 78>>[count]
HarmonicMean(a, b) == IF a + b = 0 THEN 0 ELSE (2 * a * b) \div (a + b)
Reordered(score, reordered) == IF reordered THEN (97 * score) \div 100 ELSE score
CompositeScore(intent, edit, query, source, count, reordered) ==
    CASE intent = "any_passage" ->
            (72 * edit + 13 * query + 800 + 7 * BlockSupport(count)) \div 100
      [] intent = "source_attribution" ->
            Reordered(((54 * edit + 25 * query + 8 * Root(source) + 800
                            + 5 * BlockSupport(count)) * Root(query)) \div 10000, reordered)
      [] intent = "near_duplicate" ->
            Reordered(((65 * edit + 20 * HarmonicMean(query, source) + 1000
                            + 5 * BlockSupport(count)) * Root(HarmonicMean(query, source)))
                          \div 10000, reordered)

WeightedSimilarity(blocks) ==
    Sum(MappedSeq(blocks, LAMBDA b : b.similarity * Larger(Matched(b), 1)))
        \div Larger(Sum(MappedSeq(blocks, LAMBDA b : Larger(Matched(b), 1))), 1)
OutOfOrder(blocks) == \E i \in 1..(Len(blocks) - 1) : blocks[i + 1].start < blocks[i].start
ScoredComposite(document, blocks, intent, edit, query, source) ==
    [document |-> document, blocks |-> blocks, queryCoverage |-> query,
     sourceCoverage |-> source, similarity |-> edit,
     matched |-> Smaller(QueryUnion(blocks), CorpusUnion(blocks)),
     score |-> CompositeScore(intent, edit, query, source, Len(blocks), OutOfOrder(blocks))]
Composite(index, query, document, blocks, intent) ==
    ScoredComposite(document, blocks, intent, WeightedSimilarity(blocks),
                    Percent(QueryUnion(blocks), Len(query)),
                    Percent(CorpusUnion(blocks), Len(index.documents[document + 1])))
AcceptableComposite(r, query, options, composite) ==
    /\ PassesIntentCoverage(options, r.queryCoverage, r.sourceCoverage)
    /\ r.matched >= Smaller(options.minMatched, Len(query))
    /\ r.score >= composite.minAggregate /\ r.score >= options.minSimilarity
Assemble(index, query, hits, options, composite) ==
    Truncate(
        Ordered({r \in {Composite(index, query, d,
                                  SelectBlocks({h \in Range(hits) : h.document = d}, composite),
                                  options.intent) :
                          d \in {e \in {h.document : h \in Range(hits)} :
                                    \E h \in Range(hits) :
                                        h.document = e /\ Matched(h) >= composite.minTokens}} :
                    AcceptableComposite(r, query, options, composite)},
                LAMBDA r : <<-r.score, -r.queryCoverage, -r.similarity, r.document>>),
        options.maxResults)
=============================================================================
