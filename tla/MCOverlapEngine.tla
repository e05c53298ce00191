-------------------------- MODULE MCOverlapEngine --------------------------
(***************************************************************************)
(* Values of the constants of OverlapEngine: short texts over two or three *)
(* letters, a hash under which different q-grams collide, and options      *)
(* under which no limit binds, or some do.                                 *)
(***************************************************************************)
EXTENDS OverlapEngine

Letter(n) == [letter |-> n, kind |-> "word", upper |-> FALSE]
Raised(n) == [Letter(n) EXCEPT !.upper = TRUE]
Mark == [letter |-> 9, kind |-> "mark", upper |-> FALSE]
Text(letters) == MappedSeq(letters, Letter)
Strings(letters, lengths) == UNION {[1..n -> letters] : n \in lengths}

HashOfGram(gram) == (3 * gram[1].letter + 5 * gram[Len(gram)].letter) % 7

Profile == [lowercase |-> TRUE, collapse |-> TRUE, punctuation |-> "space"]
Config1 == [q |-> 2, window |-> 2, profile |-> Profile]
Wide == [Config1 EXCEPT !.window = 3]
Verbatim == [Config1 EXCEPT !.profile = [lowercase |-> FALSE, collapse |-> FALSE,
                                        punctuation |-> "keep"]]
Dropping == [Config1 EXCEPT !.profile.punctuation = "drop"]

Open == [intent |-> "any_passage", maxResults |-> 10, maxCandidates |-> 20, maxPostings |-> 20,
         minHits |-> 1, binWidth |-> 2, suppressionBins |-> 1, anchorBand |-> 2,
         maximumAnchors |-> 20, lookback |-> 8, maximumGap |-> 8, driftPenalty |-> 10,
         gapPenalty |-> 10, slack |-> 1, band |-> 1, minMatched |-> 1, minQueryCoverage |-> 0,
         minSourceCoverage |-> 0, workLimit |-> 8, shortCandidates |-> 2, minSimilarity |-> 0]
Attribution == [Open EXCEPT !.intent = "source_attribution", !.minQueryCoverage = 50,
                            !.maxResults = 1, !.minSimilarity = 30, !.maxPostings = 2,
                            !.maxCandidates = 2]
Duplicate == [Open EXCEPT !.intent = "near_duplicate", !.minQueryCoverage = 50,
                          !.minSourceCoverage = 50, !.minHits = 2, !.lookback = 2,
                          !.maximumAnchors = 3]

Single(specimen) == [queries |-> <<[id |-> 1, specimen |-> specimen]>>, deduplicate |-> TRUE,
                     failFast |-> FALSE, maxQueries |-> 3]
Case(texts, config, options, specimens) ==
    [texts |-> texts, config |-> config, options |-> options, damage |-> FALSE,
     batches |-> {Single(s) : s \in specimens}]

Second == Text(<<1, 2, 1>>)
Short == {Text(s) : s \in Strings({1, 2}, 1..4)}
Pairs1 == {Case(<<Text(t), Second>>, Config1, Open, Short) : t \in Strings({1, 2}, 0..5)}
Limited == {Case(<<Text(t), Second>>, Config1, o, Short) :
                t \in Strings({1, 2}, {4}), o \in {Attribution, Duplicate}}
Windows == {Case(<<Text(<<1, 2>> \o t), Text(t \o <<3, 1>>)>>, Wide, Open,
                 {Text(<<s>> \o t) : s \in 1..2}) : t \in Strings({1, 2, 3}, {4})}
RawText == <<Raised(1), Mark, Space, Letter(2), Space, Letter(1), Mark>>
Raw == {Case(<<RawText>>, config, Open, {RawText, Text(<<1, 2>>), <<Mark, Space>>,
                                         <<Letter(2), Mark, Raised(1)>>}) :
           config \in {Config1, Verbatim, Dropping}}

Three(a, b, c) == <<[id |-> 1, specimen |-> a], [id |-> 2, specimen |-> b],
                    [id |-> 3, specimen |-> c]>>
Batches ==
    {[queries |-> Three(a, b, c), deduplicate |-> d, failFast |-> f, maxQueries |-> 3] :
        a, b, c \in {Text(<<1, 2>>), Text(<<2, 1, 1>>), <<Space>>}, d, f \in BOOLEAN}
    \cup {[queries |-> Three(Second, Second, Second), deduplicate |-> TRUE, failFast |-> FALSE,
           maxQueries |-> 2],
          [queries |-> [i \in 1..2 |-> [id |-> 1, specimen |-> Second]], deduplicate |-> TRUE,
           failFast |-> FALSE, maxQueries |-> 3]}
Batched == [Case(<<Second, Text(<<2, 1, 1, 2>>)>>, Config1, Open, {}) EXCEPT !.batches = Batches]

Failing == {[Case(<<Text(<<1, 2, 2, 1, 1, 2, 1>>), t>>, Config1, Open,
                 {Text(<<2, 1, 1>>), Text(<<2, 2, 1, 2>>)}) EXCEPT !.damage = TRUE] :
               t \in {Second, Text(<<1, 1, 1, 1>>)}}
\* Specimens beyond a machine word, displaced further than the first band.
Displaced ==
    {Case(<<Text(t)>>, Config1, [Open EXCEPT !.band = b],
          {Text(<<1, 2, 3, 4, 5>>), Text(<<1, 2, 1, 2>>)}) :
        b \in {1, 2}, t \in {<<6, 6, 6, 1, 2>>, <<3, 4, 5, 6, 6>>, <<6, 6, 1, 2, 3, 4>>,
                           <<6, 6, 6, 1, 2, 3, 5>>, <<4, 5, 6, 1, 3, 4>>}}
TooMany == Case([i \in 1..4 |-> Second], Config1, Open, {Second})
TooLong == Case(<<Second, Text([i \in 1..8 |-> 1])>>, Config1, Open, {Second})

AllCases ==
    Displaced \cup Pairs1 \cup Limited \cup Windows \cup Raw \cup Failing \cup {Batched, TooMany, TooLong}
=============================================================================
