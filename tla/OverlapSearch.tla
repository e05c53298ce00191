--------------------------- MODULE OverlapSearch ---------------------------
(***************************************************************************)
(* Index construction (fo-core/src/index.rs, winnow.rs, normalize.rs,      *)
(* fingerprint.rs) and the search for overlaps (search.rs).  Scores are    *)
(* integers of a hundred; logarithms are replaced by their arguments, and  *)
(* the factors made of exponentials and square roots, which only rescale a *)
(* score, are left out.  Query positions, document identifiers and offsets *)
(* count from 0 as in the code.                                            *)
(***************************************************************************)
EXTENDS Chaining, IndexFile

CONSTANT Fingerprint(_)   \* the hash of a q-gram; distinct for distinct ones

NotAResult == [found |-> FALSE]
-----------------------------------------------------------------------------
(* Winnowing (winnow.rs).  For every window of w consecutive fingerprints  *)
(* a document keeps the rightmost of the smallest.  The code finds it with *)
(* a monotone deque of positions; they enter it in increasing order, so    *)
(* the deque is the set of its positions, its front the least and its back *)
(* the greatest of them.  Positions count from 1.                          *)

\* The smallest fingerprint of a short text; of equal ones the last.
RightmostMinimum(f, S) ==
    CHOOSE i \in S : \A j \in S : f[i] < f[j] \/ (f[i] = f[j] /\ j =< i)

\* Popping the back until a strictly smaller fingerprint is met keeps the
\* positions up to the last one that is smaller than the new one.
PopBack(f, deque, i) == {j \in deque : \E k \in deque : j =< k /\ f[k] < f[i]}

\* Mutation: a position stays in the window for one feature more.
PushLate(f, w, deque, i) == {j \in PopBack(f, deque, i) \cup {i} : j >= i - w}

\* The deque after position i is pushed and the positions that left the
\* window are popped from the front.
Push(f, w, deque, i) == {j \in PopBack(f, deque, i) \cup {i} : j >= i + 1 - w}

\* The position is emitted once the window is full, unless it was the last one.
Emit(w, selected, front, i) ==
    IF i >= w /\ (selected = <<>> \/ selected[Len(selected)] # front)
    THEN Append(selected, front) ELSE selected

\* One iteration of the loop, from [deque, selected].
Advance(f, w, scan, i) ==
    LET deque == Push(f, w, scan.deque, i)
    IN  [deque |-> deque, selected |-> Emit(w, scan.selected, Min(deque), i)]

NotStarted == [deque |-> {}, selected |-> <<>>]

\* The loop runs only for windows of two or more that fit the text.
NeedsScan(f, w) == w > 1 /\ Len(f) >= w

\* The selected positions when no scan is needed.
WithoutScan(f, w) ==
    IF f = <<>> THEN <<>>
    ELSE IF w =< 1 THEN [i \in 1..Len(f) |-> i]
    ELSE <<RightmostMinimum(f, 1..Len(f))>>

\* The whole function, as a search applies it to a query.
Winnowed(f, w) ==
    LET scan[i \in 0..Len(f)] ==
            IF i = 0 THEN NotStarted ELSE Advance(f, w, scan[i - 1], i)
    IN  IF NeedsScan(f, w) THEN scan[Len(f)].selected ELSE WithoutScan(f, w)
-----------------------------------------------------------------------------
(* Normalization.  A character is a record [case, kind, letter].           *)

Space == [letter |-> 0, kind |-> "space", upper |-> FALSE]
Lowered(ch, profile) == IF profile.lowercase THEN [ch EXCEPT !.upper = FALSE] ELSE ch

\* A collapsed space is dropped at the start and after another space.
EmitSpace(out, collapse, ch) ==
    IF ~collapse THEN [text |-> Append(out.text, ch), space |-> TRUE]
    ELSE IF out.space \/ out.text = <<>> THEN out
    ELSE [text |-> Append(out.text, Space), space |-> TRUE]

EmitCharacter(out, ch, profile) ==
    IF ch.kind = "space" THEN EmitSpace(out, profile.collapse, ch)
    ELSE IF ch.kind = "word" \/ profile.punctuation = "keep"
    THEN [text |-> Append(out.text, ch), space |-> FALSE]
    ELSE IF profile.punctuation = "space" THEN EmitSpace(out, TRUE, Space)
    ELSE out

WithoutTrailingSpaces(text) ==
    SubSeq(text, 1, Max({0} \cup {i \in DOMAIN text : text[i] # Space}))

\* The tokens of a text are its characters; they are stored as text and split
\* into the same characters when an index is loaded.
Normalize(input, profile) ==
    LET out[i \in 0..Len(input)] ==
            IF i = 0 THEN [text |-> <<>>, space |-> TRUE]
            ELSE EmitCharacter(out[i - 1], Lowered(input[i], profile), profile)
    IN  WithoutTrailingSpaces(out[Len(input)].text)

\* Features are [fingerprint, position], one for every q-gram.
QGramHashes(tokens, q) ==
    IF Len(tokens) < q THEN <<>>
    ELSE [i \in 1..(Len(tokens) - q + 1) |->
            [fingerprint |-> Fingerprint(SubSeq(tokens, i, i + q - 1)), position |-> i - 1]]

Fingerprints(features) == MappedSeq(features, LAMBDA f : f.fingerprint)
Selected(features, positions) == [k \in DOMAIN positions |-> features[positions[k]]]
Winnow(all, window) == Selected(all, Winnowed(Fingerprints(all), window))
Features(tokens, config) == Winnow(QGramHashes(tokens, config.q), config.window)

\* The dictionary: for every fingerprint its sorted postings, each once.
Entry(fingerprint, postings) ==
    [fingerprint |-> fingerprint, df |-> Cardinality({p[1] : p \in postings}),
     postings |-> Ordered(postings, PostingKey)]

\* kept[d + 1]: the features of document d that winnowing kept.
EntriesOf(found) ==
    MappedSeq(Ordered({x[1] : x \in found}, LAMBDA fp : <<fp>>),
              LAMBDA fp : Entry(fp, {<<x[2], x[3]>> : x \in {y \in found : y[1] = fp}}))
BuildEntries(kept) ==
    EntriesOf(UNION {{<<kept[d][k].fingerprint, d - 1, kept[d][k].position>> :
                         k \in DOMAIN kept[d]} : d \in DOMAIN kept})

\* Binary search: the dictionary of a sound index has a fingerprint once.
Lookup(index, fp) == Filtered(index.entries, LAMBDA e : e.fingerprint = fp)

PostingsForDocument(entry, document) == SelectSeq(entry.postings, LAMBDA p : p[1] = document)
-----------------------------------------------------------------------------
(* Candidates: diagonals many features agree on.                           *)

\* The weight of a fingerprint that df of n documents contain.
Idf(n, df) == 100 + (100 * (n - df)) \div (df + 1)

\* The query's features the index knows and is allowed to use, rarest first.
PositionsOf(features, fp) ==
    Ordered({features[i].position : i \in {j \in DOMAIN features : features[j].fingerprint = fp}},
            LAMBDA n : <<n>>)
PreparedFeature(index, features, entry) ==
    [fingerprint |-> entry.fingerprint, positions |-> PositionsOf(features, entry.fingerprint),
     idf |-> Idf(Len(index.documents), entry.df), entry |-> entry]
Known(index, features) ==
    UNION {Range(Lookup(index, features[i].fingerprint)) : i \in DOMAIN features}
PrepareQueryFeatures(index, features, options) ==
    Ordered({PreparedFeature(index, features, e) :
                e \in {k \in Known(index, features) : Len(k.postings) =< options.maxPostings}},
            LAMBDA p : <<Len(p.entry.postings), -p.idf, p.fingerprint>>)

PreparedOccurrences(prepared) == Sum(MappedSeq(prepared, LAMBDA p : Len(p.positions)))

\* Two grids of bins, half a bin apart, so that no diagonal lies at an edge
\* of both.
EncodeDiagonalBin(diagonal, width, shifted) ==
    IF shifted THEN 2 * ((diagonal + (width \div 2)) \div width) + 1
    ELSE 2 * (diagonal \div width)

DiagonalBinCenter(encoded, width) ==
    IF encoded % 2 = 1 THEN (encoded \div 2) * width
    ELSE (encoded \div 2) * width + (width \div 2)

\* Every pair of a posting and a query position is a vote in both grids.
Pairs(prepared) ==
    UNION {{[document |-> p.entry.postings[k][1], weight |-> p.idf, fingerprint |-> p.fingerprint,
             diagonal |-> p.entry.postings[k][2] - p.positions[n], q |-> p.positions[n]] :
                k \in DOMAIN p.entry.postings, n \in DOMAIN p.positions} : p \in Range(prepared)}

Bin(pair, shifted, width) == <<pair.document, EncodeDiagonalBin(pair.diagonal, width, shifted)>>
Candidate(bin, votes, width) ==
    [document |-> bin[1], diagonal |-> DiagonalBinCenter(bin[2], width),
     weight |-> MapThenSumSet(LAMBDA p : p.weight, votes), hits |-> Cardinality(votes)]
CandidatesOf(pairs, options) ==
    LET votes(bin) == {p \in pairs : \E s \in BOOLEAN : Bin(p, s, options.binWidth) = bin}
        bins == {Bin(p, s, options.binWidth) : p \in pairs, s \in BOOLEAN}
    IN  Ordered({Candidate(b, votes(b), options.binWidth) :
                    b \in {x \in bins : Cardinality(votes(x)) >= options.minHits}},
                LAMBDA c : <<-c.weight, -c.hits, c.document, c.diagonal>>)
Candidates(prepared, options) == CandidatesOf(Pairs(prepared), options)

\* Mutation: the documents of the candidates are not compared.
SuppressAcross(candidates, options) ==
    FoldLeft(LAMBDA kept, c :
                 IF Len(kept) >= options.maxCandidates
                    \/ \E i \in DOMAIN kept : Abs(kept[i].diagonal - c.diagonal)
                                                =< options.suppressionBins * options.binWidth
                 THEN kept ELSE Append(kept, c),
             <<>>, candidates)

\* Of candidates of one document near each other only the first is kept.
SuppressNearby(candidates, options) ==
    LET radius == options.suppressionBins * options.binWidth
        near(a, b) == a.document = b.document /\ Abs(a.diagonal - b.diagonal) =< radius
    IN  FoldLeft(LAMBDA kept, c :
                     IF Len(kept) >= options.maxCandidates
                        \/ \E i \in DOMAIN kept : near(kept[i], c)
                     THEN kept ELSE Append(kept, c),
                 <<>>, candidates)
-----------------------------------------------------------------------------
(* Scores and floors.                                                      *)

DiagonalConsistency(anchors, median, width) ==
    (100 * width) \div (width + Median(MappedSeq(anchors, LAMBDA a : Abs((a.c - a.q) - median))))

ScoreEvidence(intent, similarity, anchor, query, source, votes, consistency) ==
    CASE intent = "any_passage" ->
            (58 * similarity + 12 * anchor + 10 * votes + 10 * consistency + 1000) \div 100
      [] intent = "source_attribution" ->
            ((50 * similarity + 18 * anchor + 10 * consistency + 7 * votes + 1500) * query)
                \div 10000
      [] intent = "near_duplicate" ->
            ((67 * similarity + 18 * consistency + 1500)
                * (IF query + source > 0 THEN (2 * query * source) \div (query + source) ELSE 0))
                \div 10000

PassesIntentCoverage(options, query, source) ==
    CASE options.intent = "any_passage" -> TRUE
      [] options.intent = "source_attribution" -> query >= options.minQueryCoverage
      [] options.intent = "near_duplicate" -> /\ query >= options.minQueryCoverage
                                              /\ source >= options.minSourceCoverage

\* Anchors near the candidate's diagonal, rarest features first, up to a cap.
Anchors(index, prepared, candidate, options) ==
    LET ofFeature(p) ==
            LET there == PostingsForDocument(p.entry, candidate.document)
            IN  Concat(MappedSeq(there, LAMBDA posting :
                    MappedSeq(p.positions, LAMBDA n :
                        [q |-> n, c |-> posting[2], span |-> index.config.q, weight |-> p.idf])))
        near(a) == Abs((a.c - a.q) - candidate.diagonal) =< options.anchorBand
    IN  Truncate(SelectSeq(Concat(MappedSeq(prepared, ofFeature)), near), options.maximumAnchors)

\* A candidate's anchors are chained, the chain widened by one q-gram on both
\* sides, and that part of the query aligned with the document around the
\* place the chain predicts.  A place is [query, text, from, to, start, end]:
\* the part of the query and the window of the document.
Placed(place, alignment) ==
    [found |-> TRUE, document |-> place.document,
     start |-> place.start + alignment.start, end |-> place.start + alignment.end,
     queryStart |-> place.from, queryEnd |-> place.to, distance |-> alignment.distance,
     similarity |-> alignment.similarity]
Verified(place, options) ==
    Placed(place, SemiGlobalBanded(SubSeq(place.query, place.from + 1, place.to),
                      SubSeq(place.text, place.start + 1, place.end),
                      place.predicted - place.start, options.band))

WithCoverage(r, chain, m, n) ==
    r @@ [anchorCoverage |-> Percent(chain.covered, m),
          queryCoverage |-> Percent(r.queryEnd - r.queryStart, m),
          sourceCoverage |-> Percent(r.end - r.start, n)]
WithScore(r, votes, consistency, options) ==
    r @@ [score |-> ScoreEvidence(options.intent, r.similarity, r.anchorCoverage, r.queryCoverage,
                        r.sourceCoverage, votes, consistency)]
Acceptable(r, query, text, options) ==
    /\ r.start < r.end /\ r.end =< Len(text)
    /\ Smaller(r.queryEnd - r.queryStart, Larger(r.end - r.start, 1))
           >= Smaller(options.minMatched, Len(query))
    /\ PassesIntentCoverage(options, r.queryCoverage, r.sourceCoverage)
IfAcceptable(r, query, text, options) ==
    IF Acceptable(r, query, text, options) THEN r ELSE NotAResult

Predicted(document, text, query, from, to, predicted, slack) ==
    [document |-> document, query |-> query, text |-> text, from |-> from, to |-> to,
     predicted |-> predicted, start |-> Monus(predicted, slack),
     end |-> Smaller(predicted + (to - from) + slack, Len(text))]
PlaceOf(document, text, query, from, chain, q, slack) ==
    Predicted(document, text, query, from, Smaller(chain.queryEnd + q, Len(query)),
              Larger(chain.medianDiagonal + from, 0), slack)

ScoreWithin(place, chain, votes, options) ==
    IF place.from >= place.to \/ place.start >= place.end THEN NotAResult
    ELSE IfAcceptable(
            WithScore(WithCoverage(Verified(place, options), chain, Len(place.query),
                                   Len(place.text)),
                      votes, DiagonalConsistency(chain.anchors, chain.medianDiagonal,
                                                 options.binWidth),
                      options),
            place.query, place.text, options)

ScoreChain(index, query, chain, document, votes, options) ==
    IF chain.anchors = <<>> \/ Len(chain.anchors) < options.minHits THEN NotAResult
    ELSE ScoreWithin(PlaceOf(document, index.documents[document + 1], query,
                             Monus(chain.queryStart, index.config.q), chain, index.config.q,
                             options.slack),
                     chain, votes, options)

ScoreCandidate(index, query, prepared, occurrences, candidate, options) ==
    ScoreChain(index, query, ChainAnchors(Anchors(index, prepared, candidate, options), options),
               candidate.document, Percent(candidate.hits, occurrences), options)

ResultKey(r) ==
    <<-r.score, -r.queryCoverage, -r.anchorCoverage, r.distance, r.document, r.start, r.end>>

\* Two results of one document whose spans share four fifths of the shorter.
Duplicates(a, b) ==
    LET shared == Monus(Smaller(a.end, b.end), Larger(a.start, b.start))
        shorter == Smaller(a.end - a.start, b.end - b.start)
    IN  a.document = b.document /\ shorter > 0 /\ 5 * shared >= 4 * shorter

RankAndDeduplicate(results, maximum) ==
    FoldLeft(LAMBDA kept, r :
                 IF Len(kept) >= maximum \/ \E i \in DOMAIN kept : Duplicates(kept[i], r)
                 THEN kept ELSE Append(kept, r),
             <<>>, SortSeq(results, LAMBDA a, b : Precedes(ResultKey(a), ResultKey(b))))
-----------------------------------------------------------------------------
(* Short queries are compared with every document, within a work budget.   *)

DirectResult(document, text, query, start, end, distance, similarity, coverage, options) ==
    LET source == Percent(end - start, Len(text))
    IN  [found |-> TRUE, document |-> document, start |-> start, end |-> end,
         queryStart |-> 0, queryEnd |-> Len(query), distance |-> distance,
         similarity |-> similarity, anchorCoverage |-> 0, queryCoverage |-> coverage,
         sourceCoverage |-> source,
         score |-> ScoreEvidence(options.intent, similarity, 0, coverage, source, 0, 100)]

PassesFloors(r, query, options) ==
    /\ r.start < r.end
    /\ Smaller(Len(query), Larger(r.end - r.start, 1)) >= Smaller(options.minMatched, Len(query))
    /\ PassesIntentCoverage(options, r.queryCoverage, r.sourceCoverage)
    /\ r.score >= options.minSimilarity

ExactOccurrences(pattern, text, maximum) ==
    Truncate(Ordered({s \in 0..(Len(text) - Len(pattern)) :
                        SubSeq(text, s + 1, s + Len(pattern)) = pattern}, LAMBDA s : <<s>>),
             maximum)

\* Positions spread over the pattern, its ends included.
SamplePositions(length, count) ==
    LET n == Larger(Smaller(count, length), 1)
    IN  IF n = 1 THEN {length \div 2}
        ELSE {(k * (length - 1)) \div (n - 1) : k \in 0..(n - 1)}

SampledHammingCandidates(pattern, text, maximum, count) ==
    LET samples == SamplePositions(Len(pattern), count)
        mismatches(s) == Cardinality({p \in samples : pattern[p + 1] # text[s + p + 1]})
    IN  Truncate(Ordered({[distance |-> mismatches(s), start |-> s] :
                            s \in 0..(Len(text) - Len(pattern))},
                         LAMBDA c : <<c.distance, c.start>>),
                 maximum)

FromAlignment(document, text, query, from, alignment, options) ==
    DirectResult(document, text, query, from + alignment.start, from + alignment.end,
                 alignment.distance, alignment.similarity, 100, options)
VerifyWithin(document, text, query, from, to, seed, options) ==
    FromAlignment(document, text, query, from,
                  SemiGlobalBanded(query, SubSeq(text, from + 1, to), seed.start - from,
                                   Larger(options.band, seed.distance + 8)),
                  options)
VerifyShortCandidate(document, text, query, seed, options) ==
    LET slack == Larger(options.slack, 2 * seed.distance + 4)
    IN  VerifyWithin(document, text, query, Monus(seed.start, slack),
                     Smaller(seed.start + Len(query) + slack, Len(text)), seed, options)

\* What comparing the query with one document costs: nothing when an exact
\* copy is found, which is looked for whatever is left of the budget.
ShortQuerySamples == 16
DirectWork(text, query, options) ==
    CASE text = <<>> -> 0
      [] text # <<>> /\ Len(text) < Len(query) -> Len(text) * Len(query)
      [] Len(text) >= Len(query) /\ ExactOccurrences(query, text, options.shortCandidates) # <<>> -> 0
      [] OTHER -> IF Len(query) =< WordBits THEN Len(text)
                  ELSE (Len(text) - Len(query) + 1) * Smaller(Len(query), ShortQuerySamples)

\* Mutation: a short document is said to be as long as the query.
ShorterAsQuery(document, text, query, distance, options) ==
    DirectResult(document, text, query, 0, Len(query), distance,
        Similarity(distance, Len(query), Len(text)), Percent(Len(text), Len(query)), options)

Shorter(document, text, query, distance, options) ==
    DirectResult(document, text, query, 0, Len(text), distance,
        Similarity(distance, Len(query), Len(text)), Percent(Len(text), Len(query)), options)
Seeds(text, query, options) ==
    IF Len(query) =< WordBits
    THEN MappedSeq(MyersInfixCandidates(query, text, options.shortCandidates),
             LAMBDA c : [distance |-> c.distance, start |-> Monus(c.end, Len(query))])
    ELSE SampledHammingCandidates(query, text, options.shortCandidates,
                                  Smaller(Len(query), ShortQuerySamples))
DirectCandidates(document, text, query, options) ==
    LET exact == ExactOccurrences(query, text, options.shortCandidates)
    IN  IF Len(text) < Len(query)
        THEN <<Shorter(document, text, query, GlobalLevenshtein(query, text), options)>>
        ELSE IF exact # <<>>
        THEN MappedSeq(exact, LAMBDA s :
                 DirectResult(document, text, query, s, s + Len(query), 0, 100, 100, options))
        ELSE MappedSeq(Seeds(text, query, options), LAMBDA seed :
                 VerifyShortCandidate(document, text, query, seed, options))

Compare(state, document, text, query, work, options) ==
    IF text = <<>> \/ work > state.remaining THEN state
    ELSE [remaining |-> state.remaining - work,
          results |-> state.results \o
              SelectSeq(DirectCandidates(document, text, query, options),
                        LAMBDA r : PassesFloors(r, query, options))]
SearchShortQuery(index, query, options) ==
    RankAndDeduplicate(
        FoldLeft(LAMBDA state, d :
                     Compare(state, d - 1, index.documents[d], query,
                             DirectWork(index.documents[d], query, options), options),
                 [remaining |-> options.workLimit, results |-> <<>>],
                 CountUp(Len(index.documents))).results,
        options.maxResults)
-----------------------------------------------------------------------------
\* The anchored search of a query with enough usable features.
Scored(index, query, features, prepared, candidates, options) ==
    MappedSeq(candidates, LAMBDA c :
        ScoreCandidate(index, query, prepared, Len(features), c, options))
SearchAnchored(index, query, features, prepared, options) ==
    RankAndDeduplicate(
        SelectSeq(Scored(index, query, features, prepared,
                         Truncate(SuppressNearby(Candidates(prepared, options), options),
                                  options.maxCandidates),
                         options),
                  LAMBDA r : r.found /\ r.score >= options.minSimilarity),
        options.maxResults)

\* Index::search; an empty specimen is an error.
SearchPrepared(index, query, features, prepared, options) ==
    IF /\ Len(query) >= index.config.q /\ Len(features) >= options.minHits
       /\ PreparedOccurrences(prepared) >= options.minHits
    THEN Accepted(SearchAnchored(index, query, features, prepared, options))
    ELSE Accepted(SearchShortQuery(index, query, options))
SearchFeatures(index, query, features, options) ==
    SearchPrepared(index, query, features, PrepareQueryFeatures(index, features, options),
                   options)
SearchNormalized(index, query, options) ==
    IF query = <<>> THEN Refused
    ELSE SearchFeatures(index, query, Features(query, index.config), options)
Search(index, specimen, options) ==
    SearchNormalized(index, Normalize(specimen, index.config.profile), options)
=============================================================================
