-------------------------- MODULE MCCompoundIndex --------------------------
(***************************************************************************)
(* Collections of two or three short documents: two that have the same     *)
(* identity, one that has not; keyword, phrase and specimen queries with   *)
(* limits, filters and model candidates that bind and that do not.         *)
(***************************************************************************)
EXTENDS CompoundIndex

HashOfGram(gram) == (3 * gram[1].letter + 5 * gram[Len(gram)].letter) % 7
Profile == [lowercase |-> TRUE, collapse |-> TRUE, punctuation |-> "space"]
Document(id, title, body, tags) == [id |-> id, title |-> title, body |-> body, tags |-> tags]

Near == Document(1, <<1>>, <<1, 2, 3>>, <<<<2>>>>)
Far == Document(2, <<2, 3>>, <<3, 1, 0, 2, 1>>, <<>>)
Tagged == Document(3, <<>>, <<2, 2, 3>>, <<<<1, 3>>, <<2>>>>)
Collection == <<Near, Far, Tagged>>
Twin == <<Document(1, <<3>>, <<3, 2, 1>>, <<<<1>>>>), Far, Tagged>>
Longer == <<Document(1, <<1>>, <<1, 2, 3, 1>>, <<>>), Far, Tagged>>
Fewer == <<Near, Far>>
Broken == <<Near, Near>>

Engine == [intent |-> "any_passage", maxResults |-> 10, maxCandidates |-> 20, maxPostings |-> 20,
           minHits |-> 1, binWidth |-> 2, suppressionBins |-> 1, anchorBand |-> 2,
           maximumAnchors |-> 20, lookback |-> 8, maximumGap |-> 8, driftPenalty |-> 10,
           gapPenalty |-> 10, slack |-> 1, band |-> 1, minMatched |-> 1, minQueryCoverage |-> 0,
           minSourceCoverage |-> 0, workLimit |-> 40, shortCandidates |-> 2, minSimilarity |-> 0]
Planning == [maxPairs |-> 20, compositeTokens |-> 4, compositeRetained |-> 50,
             compositeRepetition |-> 80, missing |-> 35, heavy |-> 20, maxBlocks |-> 3,
             minTokens |-> 2, minIncrement |-> 1, maxOverlap |-> 60, minAggregate |-> 0]
Words == [maxResults |-> 9, maxCandidates |-> 9, maxPostings |-> 9, candidateTerms |-> 9,
          requirePhrases |-> FALSE, minShould |-> 0, minScore |-> 0, phraseBoost |-> 50,
          proximityBoost |-> 50, coverageBoost |-> 50, window |-> 4]
Hybrids == [mode |-> "auto", maxResults |-> 3, multiplier |-> 3, lexical |-> Words,
            overlap |-> Engine, plan |-> Planning, lexicalWeight |-> 40, overlapWeight |-> 45,
            rrfWeight |-> 15, rrfConstant |-> 60, saturation |-> 400, agreementBonus |-> 12,
            phraseBonus |-> 8, floor |-> 10, minScore |-> 0,
            filter |-> [ids |-> {1, 2, 3}, tags |-> {}]]
Blending == [maxResults |-> 9, minScore |-> 0, minSemantic |-> 0, hybridWeight |-> 70,
             semanticWeight |-> 20, rankWeight |-> 10, rankConstant |-> 60, agreementBonus |-> 5,
             allowSemanticOnly |-> TRUE, maxSemanticOnly |-> 1]
Profiled == ApplyProfile([Hybrids EXCEPT !.lexicalWeight = 0, !.phraseBonus = 90], Hybrids).value

Piece(sign, field, quoted, words) ==
    [sign |-> sign, field |-> field, quoted |-> quoted, words |-> words]
Plain(words) == MappedSeq(words, LAMBDA w : Piece("none", "any", FALSE, <<w>>))
Model(id, score, model) == [id |-> id, score |-> score, model |-> model]
Known1 == <<Model(1, 80, 1), Model(1, 50, 2), Model(4, 90, 1), Model(3, 20, 1), Model(5, 95, 2)>>

Question(pieces, options, candidates, semantic) ==
    [pieces |-> pieces, options |-> options, candidates |-> candidates, semantic |-> semantic]
Asking(texts, options) == {Question(t, o, Known1, Blending) : t \in texts, o \in options}

Signed == {<<Piece(s, f, FALSE, <<w>>)>> \o Plain(rest) :
              s \in {"none", "plus", "minus"}, f \in {"any", "title", "body", "tags"},
              w \in 0..3, rest \in {<<>>, <<2>>, <<1, 3>>}}
Phrases == {<<Piece(s, f, TRUE, words)>> \o Plain(rest) :
              s \in {"none", "plus", "minus"}, f \in {"any", "body", "tag"},
              words \in {<<1, 2>>, <<2, 1>>, <<2, 0, 2>>, <<3, 2>>, <<3>>}, rest \in {<<>>, <<1, 3>>}}
Longish == {Plain(words) : words \in {<<1, 2, 3>>, <<3, 1, 2>>, <<2, 2, 3>>, <<1, 2, 3, 2>>,
                                      <<3, 1, 2, 1>>, <<1, 2, 3, 2, 2, 3>>, <<2, 3, 3, 1, 2, 1>>}}
Bounded == [Hybrids EXCEPT !.lexical.minShould = 60, !.lexical.requirePhrases = TRUE,
                           !.lexical.maxPostings = 2, !.lexical.candidateTerms = 1,
                           !.filter = [ids |-> {1, 3}, tags |-> {<<2>>}], !.maxResults = 1]
Modes == {[Hybrids EXCEPT !.mode = m] : m \in {"auto", "hybrid", "overlap", "lexical"}}
            \cup {[Hybrids EXCEPT !.mode = "hybrid", !.overlap.intent = "source_attribution",
                                    !.plan.compositeTokens = 2]}
Semantics == {[Blending EXCEPT !.allowSemanticOnly = a, !.maxSemanticOnly = n, !.minSemantic = f] :
                 a \in BOOLEAN, n \in {1, 2}, f \in {0, 60}}
SomeQuestions ==
    Asking(Signed \cup Phrases, {Hybrids, Bounded})
    \cup Asking(Longish, Modes \cup {Bounded, Profiled, [Hybrids EXCEPT !.minScore = 60]})
    \cup {Question(t, Hybrids, c, s) : t \in {Plain(<<1, 2, 3>>), Plain(<<2>>)}, s \in Semantics,
                                       c \in {Known1, <<>>, <<Model(0, 50, 1)>>}}

Views(consensus, support) ==
    [profile |-> Profile, consensus |-> consensus, minSupport |-> support, multiplier |-> 2,
     views |-> <<[name |-> 1, q |-> 2, window |-> 1, weight |-> 85],
                 [name |-> 2, q |-> 2, window |-> 2, weight |-> 100],
                 [name |-> 3, q |-> 3, window |-> 2, weight |-> 115]>>]
SomeViewQuestions ==
    {[specimen |-> s, options |-> o] :
        s \in {<<1, 2, 3>>, <<3, 1>>, <<2, 2, 3>>, <<1, 2, 2, 3>>, <<2>>, <<0>>, <<3, 1, 2, 1>>},
        o \in {Engine, [Engine EXCEPT !.intent = "source_attribution", !.minQueryCoverage = 60,
                                      !.minSimilarity = 40, !.minMatched = 3],
               [Engine EXCEPT !.intent = "near_duplicate", !.minSourceCoverage = 50,
                              !.maxResults = 1]}}

Scenario(kind, collections, savers, asking, config) ==
    [kind |-> kind, collections |-> collections, savers |-> savers, asking |-> asking,
     config |-> config]
All == {Collection, Twin, Longer, Fewer, Broken}
Overlaps == [q |-> 2, window |-> 2, profile |-> Profile]
OneSaver == {CHOOSE p \in Savers : TRUE}

AllScenarios ==
    {Scenario("hybrid", All, Savers, FALSE, Overlaps),
     Scenario("multiview", All, Savers, FALSE, Views(55, 2)),
     Scenario("hybrid", {Collection}, OneSaver, TRUE, Overlaps)}
    \cup {Scenario("multiview", {c}, OneSaver, TRUE, Views(f, n)) :
             c \in {Collection, Longer}, f \in {0, 55, 100}, n \in 1..3}
=============================================================================
