--------------------------- MODULE MCSearchLanes ---------------------------
(***************************************************************************)
(* Requests for every lane over corpora of two or three short texts, with  *)
(* budgets, caps and fractions that bind and that do not.                  *)
(***************************************************************************)
EXTENDS SearchLanes

Letter(n) == [letter |-> n, kind |-> "word", upper |-> FALSE]
Text(letters) == MappedSeq(letters, Letter)
Strings(letters, lengths) == UNION {[1..n -> letters] : n \in lengths}
HashOfGram(gram) == (3 * gram[1].letter + 5 * gram[Len(gram)].letter) % 7

Profile == [lowercase |-> TRUE, collapse |-> TRUE, punctuation |-> "space"]
Config1 == [q |-> 2, window |-> 2, profile |-> Profile]

Open == [intent |-> "any_passage", maxResults |-> 10, maxCandidates |-> 20, maxPostings |-> 20,
         minHits |-> 1, binWidth |-> 2, suppressionBins |-> 1, anchorBand |-> 2,
         maximumAnchors |-> 20, lookback |-> 8, maximumGap |-> 8, driftPenalty |-> 10,
         gapPenalty |-> 10, slack |-> 1, band |-> 1, minMatched |-> 1, minQueryCoverage |-> 0,
         minSourceCoverage |-> 0, workLimit |-> 8, shortCandidates |-> 2, minSimilarity |-> 0,
         maxDf |-> 100, minIdf |-> 0, maxPairs |-> 20, minInformative |-> 0]
Strict == [Open EXCEPT !.intent = "source_attribution", !.minQueryCoverage = 40,
                       !.minHits = 2, !.maxPostings = 3, !.minSimilarity = 20]

Domains == [maxDf : {50, 100}, minIdf : {0, 120}, maxPairs : {0, 2, 4}, minInformative : {0, 60},
            minOccurrences : {1}, fallback : BOOLEAN]
Firsts == [maxPostings : {1, 20}, maxPairs : {2, 6, 20}, minDistinct : {1, 2},
           minScoreFraction : {0, 100}, maxDocuments : {1, 3}, maxFraction : {50, 100},
           fallback : BOOLEAN]
Assembling == [maxBlocks : {1, 3}, minTokens : {1, 3}, minIncrement : {1, 2},
               maxOverlap : {0, 60}, minAggregate : {0, 40}]
Plans == {[maxPairs |-> pairs, compositeTokens |-> 4, compositeRetained |-> 50,
           compositeRepetition |-> 50, missing |-> 35, heavy |-> 20] @@ c :
              pairs \in {1, 3, 20},
              c \in [maxBlocks : {3}, minTokens : {2}, minIncrement : {1}, maxOverlap : {60},
                     minAggregate : {0}]}

Corpus(t) == <<Text(t), Text(<<1, 2, 1, 3>>), Text(<<2, 2, 1>>)>>
Texts1 == {Corpus(t) : t \in Strings({1, 2}, {4})}
Asks(lane, corpora, later, policies, options, specimens) ==
    [texts : corpora, later : later, config : {Config1}, specimen : specimens,
     lane : {lane}, options : options, policy : policies]
Short == {Text(s) : s \in {<<1>>, <<1, 2, 1>>, <<2, 1, 1>>, <<1, 2, 1, 3>>, <<2, 2, 1, 2>>}}
Long == {Text(<<1, 2, 1, 3, 2, 2, 1>>), Text(<<2, 2, 1, 1, 2, 1, 3>>), Text(<<1, 2, 1, 2, 1, 2>>),
         Text(<<4, 4, 4, 1, 2, 1, 3, 2, 2, 1, 4, 4, 4>>),
         Text(<<5, 4, 5, 2, 2, 1, 3, 1, 2, 1, 3>>)}
Few == {Corpus(<<1, 2, 1, 2>>), Corpus(<<2, 2, 1, 3>>), Corpus(<<1, 2, 1>> \o <<2, 2, 1>>)}
Mixed == {Corpus(<<2, 2, 1, 3, 3, 1, 2, 1, 3>>), Corpus(<<1, 2, 1, 3, 3, 2, 2, 1>>)}

AllRequests ==
    Asks("domain", Few, {<<>>}, Domains, {Open, Strict}, Short \cup {<<>>})
    \cup Asks("domain_adaptive", Few, {<<>>}, {d \in Domains : d.maxDf = 50}, {Open}, Short)
    \cup Asks("document_first", Few, Few \cup {<<>>}, Firsts, {Open}, {Text(<<2, 2, 1>>),
                                                  Text(<<2, 2, 1, 3>>), Text(<<2>>)})
    \cup Asks("plain", Few, {<<>>}, {Nothing}, {Open, [Open EXCEPT !.maxPostings = 1, !.workLimit = 30]},
                Short)
    \cup Asks("composite", Few \cup Mixed, {<<>>}, Assembling, {Open, Strict}, Long)
    \cup Asks("adaptive", Few \cup Mixed, {<<>>}, Plans, {Open, Strict}, Short \cup Long)
=============================================================================
