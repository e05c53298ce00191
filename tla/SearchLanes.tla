---------------------------- MODULE SearchLanes ----------------------------
(***************************************************************************)
(* One specimen is searched, through one lane or another, in an index that *)
(* may have been rebuilt since the query was prepared: calls of the lanes  *)
(* (Lanes) by a program over fo-core.                                      *)
(***************************************************************************)
EXTENDS Lanes

CONSTANT Requests   \* records [texts, later, config, specimen, lane, options, policy]

\* Texts are sequences, the configuration is one that builds an index, and the
\* caps and budgets of the work are numbers.
IsText(t) == t \in Seq(Range(t))
IsCorpus(texts) == IsText(texts) /\ \A i \in DOMAIN texts : IsText(texts[i])
HasNumbers(r, fields) == \A k \in fields : k \in DOMAIN r /\ r[k] \in Nat
ASSUME RequestsAssumption ==
    \A r \in Requests :
        /\ IsCorpus(r.texts) /\ IsCorpus(r.later) /\ IsText(r.specimen) /\ ValidConfig(r.config)
        /\ HasNumbers(r.options, {"maxPostings", "maxPairs", "maxResults"})
        /\ r.options.intent \in {"any_passage", "source_attribution", "near_duplicate"}
        /\ r.lane \in {"domain", "domain_adaptive", "document_first", "adaptive"} =>
                HasNumbers(r.policy, {"maxPairs"})
        /\ r.lane \in {"composite", "adaptive"} =>
                /\ HasNumbers(r.policy, {"maxBlocks", "minTokens", "minIncrement", "maxOverlap"})
                /\ r.policy.maxBlocks > 0

VARIABLES call, phase,
          current,    \* the index that is loaded
          prepared,   \* the prepared query
          fresh,      \* whether it was prepared for that index
          decision,   \* what the lane decided
          hits,       \* what Index::search found
          composites

laneVars == <<call, phase, current, prepared, fresh, decision, hits, composites>>

Nothing == [nothing |-> TRUE]
Query == Normalize(call.specimen, call.config.profile)
LanesInit ==
    /\ call \in Requests
    /\ phase = "ready" /\ current = IndexOf(call.texts, call.config)
    /\ prepared = Nothing /\ fresh = TRUE /\ decision = Nothing /\ hits = <<>>
    /\ composites = <<>>

Prepare ==
    /\ phase = "ready" /\ call.lane = "document_first" /\ prepared = Nothing /\ Query # <<>>
    /\ prepared' = PrepareOverlapQuery(current, Query) /\ fresh' = TRUE
    /\ UNCHANGED <<call, phase, current, decision, hits, composites>>

Rebuild ==
    /\ phase = "ready" /\ prepared # Nothing /\ fresh
    /\ call.later # call.texts
    /\ current' = IndexOf(call.later, call.config) /\ fresh' = FALSE
    /\ UNCHANGED <<call, phase, prepared, decision, hits, composites>>

Decide(choice) ==
    /\ decision' = choice
    /\ phase' = IF choice.calls THEN "searching" ELSE "done"
    /\ UNCHANGED <<call, current, prepared, fresh, hits, composites>>
Asked(lane) == phase = "ready" /\ call.lane = lane /\ Query # <<>>

AskDomain ==
    Asked("domain") /\ Decide(SearchDomain(current, Query, call.policy, call.options))
AskDomainAdaptive ==
    /\ Asked("domain_adaptive")
    /\ Decide(SearchDomainAdaptive(current, Query, call.policy, call.options))
AskDocumentFirst ==
    /\ Asked("document_first") /\ prepared # Nothing
    /\ Decide(SearchDocumentFirst(current, prepared, call.policy, call.options))
AskDirectly ==
    Asked("plain") /\ Decide(Searches("plain", Nothing, current, call.options))
AskComposite ==
    /\ Asked("composite")
    /\ Decide(Searches("composite", Nothing, current,
                       PassageOptions(call.options, call.policy)))
DecidePlan(plan) ==
    Decide(Searches(plan.route, plan, current,
                    IF plan.route = "composite"
                    THEN PassageOptions(WithPlan(plan, call.options), call.policy)
                    ELSE WithPlan(plan, call.options)))
AskAdaptive ==
    Asked("adaptive") /\ DecidePlan(PlanQuery(current, Query, call.options, call.policy))

\* An empty specimen is an error in every lane.
Reject ==
    /\ phase = "ready" /\ Query = <<>> /\ phase' = "done"
    /\ UNCHANGED <<call, current, prepared, fresh, decision, hits, composites>>

\* Mutation: the document keeps its number in the projection.
Local(r, ids) == r

\* Documents of the projection are numbered as in the index again.
Original(r, ids) == [r EXCEPT !.document = ids[@ + 1]]
Execute ==
    /\ phase = "searching"
    /\ hits' = MappedSeq(SearchNormalized(decision.index, Query, decision.options).value,
                         LAMBDA r : Original(r, decision.ids))
    /\ phase' = IF decision.status = "composite" THEN "found" ELSE "done"
    /\ UNCHANGED <<call, current, prepared, fresh, decision, composites>>

AssembleComposites ==
    /\ phase = "found"
    /\ composites' = Assemble(current, Query, hits, call.options, call.policy)
    /\ phase' = "done"
    /\ UNCHANGED <<call, current, prepared, fresh, decision, hits>>

LanesNext ==
    \/ Prepare \/ Rebuild
    \/ AskDomain \/ AskDomainAdaptive \/ AskDocumentFirst \/ AskDirectly \/ AskComposite
    \/ AskAdaptive \/ Reject
    \/ Execute \/ AssembleComposites

LanesSpec == LanesInit /\ [][LanesNext]_laneVars
-----------------------------------------------------------------------------
(* Properties.                                                             *)

\* The pairs of a posting and a query position that Index::search goes
\* through for a decision.
Work(d) ==
    PairsIn(Light(KnownFeatures(d.index, Selection(Query, d.index.config)), d.options))
Decided == decision # Nothing /\ decision.status # "refused"

\* Budgets (domain.rs, prepared.rs, planner.rs): the search a lane ends in
\* goes through no more pairs than the lane's budget allows and its report
\* says - unless it falls back -, a plan allows one posting an occurrence,
\* and a domain's report counts every feature of the query once.
DomainBudget ==
    decision.status = "executed" =>
        /\ Work(decision) = decision.counts.pairsAfter
        /\ Work(decision) =< Smaller(call.policy.maxPairs, call.options.maxPairs)
DomainCountsOnce ==
    LET c == decision.counts
    IN  /\ c.selected = c.missing + c.retained + c.byPostingCap + c.byDocumentFrequency
                            + c.byIdf + c.byBudget
        /\ c.pairsAfter =< c.pairsBefore
DocumentBudget ==
    /\ decision.counts.pairs =< call.policy.maxPairs
    /\ fresh /\ decision.status = "filtered" => Work(decision) =< decision.counts.pairs
PlannedBudget ==
    decision.status # "composite" =>
        Work(decision) =< Larger(call.policy.maxPairs, decision.counts.retained)
BudgetsHold ==
    Decided =>
        CASE call.lane \in {"domain", "domain_adaptive"} -> DomainBudget /\ DomainCountsOnce
          [] call.lane = "document_first" -> DocumentBudget
          [] call.lane = "adaptive" -> PlannedBudget
          [] OTHER -> TRUE

\* Copies: whatever a lane suppresses, projects, caps or assembles, and
\* however old the prepared query, with floors that do not bind and a lane
\* that may fall back a document that contains the specimen is among the
\* answers.
NoFloor ==
    /\ call.options.intent = "any_passage" /\ call.options.minSimilarity = 0
    /\ call.options.minHits = 1 /\ call.options.maxPostings > 9
    /\ "fallback" \in DOMAIN call.policy => call.policy.fallback
    /\ "maxDocuments" \in DOMAIN call.policy =>
            call.policy.maxDocuments >= Len(current.documents)
Copied(text) == ExactOccurrences(Query, text, 1) # <<>>
LongEnough ==
    \/ Len(Query) >= call.config.q + call.config.window - 1
    \/ Len(Query) < call.config.q
Found == {r.document : r \in Range(IF decision.status = "composite" THEN composites ELSE hits)}
CopiesSurvive ==
    phase = "done" /\ Decided /\ NoFloor /\ LongEnough =>
        \A d \in DOMAIN current.documents : Copied(current.documents[d]) => d - 1 \in Found

\* Spans (search.rs, prepared.rs): whatever lane it came through, a hit is a
\* span of a document of the index that is loaded and of the query, and its
\* score and coverage are percentages.
IsSpan(r) ==
    /\ r.queryStart \in 0..Len(Query) /\ r.queryEnd \in (r.queryStart + 1)..Len(Query)
    /\ r.document \in 0..(Len(current.documents) - 1)
    /\ LET n == Len(current.documents[r.document + 1])
       IN  r.start \in 0..n /\ r.end \in (r.start + 1)..n
    /\ {r.score, r.similarity, r.queryCoverage} \subseteq 0..100
HitsAreSpans == hits \in Seq(Range(hits)) /\ \A r \in Range(hits) : IsSpan(r)

\* Answers: what a lane answers is sound and complete - its hits are spans of
\* what is loaded now, and no document that contains the specimen is missing.
AnswersHold == HitsAreSpans /\ CopiesSurvive

\* Composites (composite.rs): the coverage of a source is that of the tokens
\* its blocks cover, each counted once, no two blocks overlap more than
\* allowed, every one of several adds to the others, and a document is one
\* result.
Tokens(blocks, Span(_)) == UNION {Span(b)[1]..(Span(b)[2] - 1) : b \in blocks}
Covers(r) ==
    /\ r.queryCoverage = Percent(Cardinality(Tokens(Range(r.blocks), InQuery)), Len(Query))
    /\ r.sourceCoverage = Percent(Cardinality(Tokens(Range(r.blocks), InCorpus)),
                                  Len(current.documents[r.document + 1]))
    /\ Len(r.blocks) \in 1..call.policy.maxBlocks
    /\ \A i, j \in DOMAIN r.blocks :
            i < j => ~OverlapsTooMuch(r.blocks[i], r.blocks[j], call.policy)
    /\ Cardinality(Tokens(Range(r.blocks), InQuery))
            >= (Len(r.blocks) - 1) * call.policy.minIncrement
CompositesAreWhole ==
    /\ \A i \in DOMAIN composites : Covers(composites[i])
    /\ \A i, j \in DOMAIN composites :
            composites[i].document = composites[j].document => i = j

=============================================================================
