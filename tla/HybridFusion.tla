---------------------------- MODULE HybridFusion ----------------------------
(***************************************************************************)
(* Hybrid search (fo-core/src/hybrid.rs, hybrid_profile.rs) and its fusion *)
(* with candidates of a semantic model (semantic.rs).  Documents are       *)
(* [id, title, body, tags]; a word is one letter of the text the overlap   *)
(* index sees.  Weights and scores are hundredths.                         *)
(***************************************************************************)
EXTENDS LexicalSearch

CONSTANTS KeywordTerms,   \* terms up to which a query is one of keywords (8)
          SpecimenTerms   \* terms from which it is a specimen (160)

NoId == 0
NoRank == 0
-----------------------------------------------------------------------------
(* The two components of an index.                                         *)

AcceptsDocuments(documents) ==
    /\ \A d \in DOMAIN documents : documents[d].id # NoId
    /\ \A d, e \in DOMAIN documents : documents[d].id = documents[e].id => d = e

\* What is left of a word nothing is left of is a mark.
LetterOf(word) ==
    [letter |-> word, kind |-> IF word = NoTerm THEN "mark" ELSE "word", upper |-> FALSE]
TextOf(words) == Concat(MappedSeq(words, LAMBDA w : <<LetterOf(w), Space>>))
OverlapComponent(documents, config) ==
    IndexOf(MappedSeq(documents, LAMBDA d : TextOf(d.body)), config)
-----------------------------------------------------------------------------
(* One query: its route and what the lanes are asked.                      *)

Occurring(query) == Concat(MappedSeq(Positive(query), LAMBDA c : c.terms))
HasLexicalSyntax(pieces) ==
    \E p \in Range(pieces) :
        p.quoted \/ p.sign # "none" \/ p.field \in {"title", "body", "tag"}
SelectMode(pieces, occurrences, mode) ==
    IF mode # "auto" THEN mode
    ELSE IF HasLexicalSyntax(pieces) \/ occurrences =< KeywordTerms THEN "lexical"
    ELSE IF occurrences >= SpecimenTerms THEN "overlap" ELSE "hybrid"

ExpandedLimit(options) == options.maxResults * options.multiplier
ForLexicalLane(options) ==
    [options.lexical EXCEPT !.maxResults = ExpandedLimit(options),
                            !.maxCandidates = Larger(@, ExpandedLimit(options))]
ForOverlapLane(options) ==
    [options.overlap EXCEPT !.maxResults = ExpandedLimit(options),
                            !.maxCandidates = Larger(@, 4 * ExpandedLimit(options)),
                            !.minSimilarity = Smaller(@, options.floor)]

\* Index::search_adaptive.
PlannedOptions(plan, options, policy) ==
    IF plan.route = "composite" THEN PassageOptions(WithPlan(plan, options), policy)
    ELSE WithPlan(plan, options)
AssembleIfPlanned(index, query, plan, hits, options, policy) ==
    IF plan.route = "composite" THEN Assemble(index, query, hits, options, policy) ELSE hits
FollowPlan(index, query, plan, options, policy) ==
    AssembleIfPlanned(index, query, plan,
                      SearchNormalized(index, query, PlannedOptions(plan, options, policy)).value,
                      options, policy)
SearchAdaptive(index, query, options, policy) ==
    FollowPlan(index, query, PlanQuery(index, query, options, policy), options, policy)
Specimen(query, config) == Normalize(TextOf(Occurring(query)), config.profile)
-----------------------------------------------------------------------------
(* Fusion.  A lane's results are in the order of their ranks.              *)

\* Later evidence of a document takes the place of earlier one.
RankOf(results, id) == Max({NoRank} \cup {r \in DOMAIN results : results[r].id = id})
Evidence(results, rank) == IF rank = NoRank THEN <<>> ELSE <<results[rank]>>

Named(hits, documents) ==
    MappedSeq(hits, LAMBDA h : h @@ [id |-> documents[h.document + 1].id])
HybridCandidates(lexical, overlap) ==
    {[id |-> id, lexicalRank |-> RankOf(lexical, id), overlapRank |-> RankOf(overlap, id)] :
        id \in {r.id : r \in Range(lexical) \cup Range(overlap)}}

Passes(filter, document) ==
    /\ document.id \in filter.ids
    /\ filter.tags \subseteq Range(document.tags)
CanonicalDocument(documents, id) == CHOOSE d \in Range(documents) : d.id = id

ScoreOf(evidence) == IF evidence = <<>> THEN 0 ELSE evidence[1].score
InverseRank(rank, constant) ==
    IF rank = NoRank THEN 0 ELSE (100 * (constant + 1)) \div (constant + rank)
MeanInverseRank(ranks, constant) ==
    Sum(MappedSeq(ranks, LAMBDA r : InverseRank(r, constant)))
        \div Larger(Len(SelectSeq(ranks, LAMBDA r : r # NoRank)), 1)
\* One or more occurrences of a phrase are the whole signal.
PhraseSignal(evidence) == IF evidence # <<>> /\ evidence[1].phrases > 0 THEN 100 ELSE 0
Weight(present, weight) == IF present THEN weight ELSE 0
NoisyOr(base, bonus) ==
    100 - ((100 - Smaller(base, 100)) * (100 - Smaller(bonus, 75))) \div 100

ActiveWeight(lexical, overlap, options) ==
    Weight(lexical # <<>>, options.lexicalWeight) + Weight(overlap # <<>>, options.overlapWeight)
        + options.rrfWeight
WeightedSum(lexical, overlap, ranks, options) ==
    options.lexicalWeight * Saturating(ScoreOf(lexical), options.saturation)
        + options.overlapWeight * Smaller(ScoreOf(overlap), 100)
        + options.rrfWeight * MeanInverseRank(ranks, options.rrfConstant)
BaseScore(lexical, overlap, ranks, options) ==
    IF ActiveWeight(lexical, overlap, options) = 0 THEN 0
    ELSE WeightedSum(lexical, overlap, ranks, options) \div ActiveWeight(lexical, overlap, options)
HybridBonus(lexical, overlap, options) ==
    Weight(lexical # <<>> /\ overlap # <<>>, options.agreementBonus)
        + (options.phraseBonus * PhraseSignal(lexical)) \div 100
FinalScore(lexical, overlap, ranks, options) ==
    NoisyOr(BaseScore(lexical, overlap, ranks, options), HybridBonus(lexical, overlap, options))

HybridResult(c, lexical, overlap, options) ==
    [id |-> c.id, lexical |-> lexical, overlap |-> overlap,
     lexicalRank |-> c.lexicalRank, overlapRank |-> c.overlapRank,
     agreement |-> lexical # <<>> /\ overlap # <<>>,
     score |-> FinalScore(lexical, overlap, <<c.lexicalRank, c.overlapRank>>, options)]
Fused(documents, lexical, overlap, options) ==
    {HybridResult(c, Evidence(lexical, c.lexicalRank), Evidence(overlap, c.overlapRank), options) :
        c \in {k \in HybridCandidates(lexical, overlap) :
                  Passes(options.filter, CanonicalDocument(documents, k.id))}}
FuseLanes(documents, lexical, overlap, options) ==
    Truncate(Ordered({r \in Fused(documents, lexical, overlap, options) :
                          r.score >= options.minScore},
                     LAMBDA r : <<-r.score, r.id>>),
             options.maxResults)
-----------------------------------------------------------------------------
(* Profiles that were tuned earlier take the place of options.             *)

ValidWeights(w) ==
    /\ \A weight \in {w.lexicalWeight, w.overlapWeight, w.rrfWeight, w.agreementBonus,
                      w.phraseBonus} : weight =< 1000
    /\ w.lexicalWeight + w.overlapWeight + w.rrfWeight > 0
    /\ w.rrfConstant > 0 /\ w.saturation > 0 /\ w.minScore =< 100 /\ w.multiplier > 0
ApplyProfile(profile, options) ==
    IF ~ValidWeights(profile) THEN Refused
    ELSE Accepted([options EXCEPT !.lexicalWeight = profile.lexicalWeight,
                      !.overlapWeight = profile.overlapWeight, !.rrfWeight = profile.rrfWeight,
                      !.rrfConstant = profile.rrfConstant, !.saturation = profile.saturation,
                      !.agreementBonus = profile.agreementBonus,
                      !.phraseBonus = profile.phraseBonus, !.multiplier = profile.multiplier,
                      !.minScore = profile.minScore])
-----------------------------------------------------------------------------
(* Semantic candidates [id, score, model] of a model outside the program.  *)

ValidSemantic(candidates) ==
    \A c \in Range(candidates) : c.id # NoId /\ c.model # NoId /\ c.score \in 0..100
SemanticRanked(candidates, options) ==
    MappedSeq(Ordered({n \in DOMAIN candidates : candidates[n].score >= options.minSemantic},
                      LAMBDA n : <<-candidates[n].score, candidates[n].id, candidates[n].model, n>>),
              LAMBDA n : candidates[n])
RankedEvidence(ranked, id) ==
    MappedSeq(SelectSeq(CountUp(Len(ranked)), LAMBDA r : ranked[r].id = id),
              LAMBDA r : [rank |-> r, score |-> ranked[r].score])
SemanticCandidates(results, ranked) ==
    {[id |-> id, hybrid |-> RankOf(results, id), semantic |-> RankedEvidence(ranked, id)] :
        id \in {r.id : r \in Range(results)} \cup {x.id : x \in Range(ranked)}}

\* Documents only the model knows, by their identifiers, up to a number.
SemanticOnly(candidates) == {c \in candidates : c.hybrid = NoRank}
\* Mutation: all of them.
AdmittedAll(candidates, options) ==
    IF ~options.allowSemanticOnly THEN candidates \ SemanticOnly(candidates) ELSE candidates

Admitted(candidates, options) ==
    IF ~options.allowSemanticOnly THEN candidates \ SemanticOnly(candidates)
    ELSE (candidates \ SemanticOnly(candidates))
            \cup Range(Take(Ordered(SemanticOnly(candidates), LAMBDA c : <<c.id>>),
                            options.maxSemanticOnly))

AggregateSemantic(evidence) ==
    100 - FoldLeft(LAMBDA miss, e : (miss * (100 - e.score)) \div 100, 100, evidence)
RankShare(rank, constant) ==
    IF rank = NoRank THEN 0 ELSE (50 * (constant + 1)) \div (constant + rank)
SemanticRank(c) == IF c.semantic = <<>> THEN NoRank ELSE c.semantic[1].rank
SemanticBase(c, hybrid, options) ==
    (options.hybridWeight * ScoreOf(hybrid)
        + options.semanticWeight * AggregateSemantic(c.semantic)
        + options.rankWeight * (RankShare(c.hybrid, options.rankConstant)
                                + RankShare(SemanticRank(c), options.rankConstant)))
        \div Larger(Weight(hybrid # <<>>, options.hybridWeight)
                        + Weight(c.semantic # <<>>, options.semanticWeight) + options.rankWeight, 1)
Relationship(hybrid, textual, semantic) ==
    CASE hybrid = <<>> -> "semantic_only"
      [] hybrid # <<>> /\ textual /\ semantic # <<>> -> "textual_and_semantic"
      [] hybrid # <<>> /\ textual /\ semantic = <<>> -> "textual_provenance"
      [] hybrid # <<>> /\ ~textual /\ semantic # <<>> -> "lexical_and_semantic"
      [] hybrid # <<>> /\ ~textual /\ semantic = <<>> -> "lexical_only"
HasTextual(hybrid) == hybrid # <<>> /\ hybrid[1].overlap # <<>>
SemanticResult(c, hybrid, options) ==
    [id |-> c.id, hybrid |-> hybrid, semantic |-> c.semantic, textual |-> HasTextual(hybrid),
     relationship |-> Relationship(hybrid, HasTextual(hybrid), c.semantic),
     score |-> NoisyOr(SemanticBase(c, hybrid, options),
                       Weight(hybrid # <<>> /\ c.semantic # <<>>, options.agreementBonus))]
SemanticOrder(r) == <<-r.score, IF r.textual THEN 0 ELSE 1, r.id>>
FuseRanked(results, ranked, options) ==
    Truncate(Ordered({r \in {SemanticResult(c, Evidence(results, c.hybrid), options) :
                                c \in Admitted(SemanticCandidates(results, ranked), options)} :
                          r.score >= options.minScore},
                     SemanticOrder),
             options.maxResults)
FuseSemanticCandidates(results, candidates, options) ==
    IF ~ValidSemantic(candidates) THEN Refused
    ELSE Accepted(FuseRanked(results, SemanticRanked(candidates, options), options))
=============================================================================
