--------------------------- MODULE LexicalSearch ---------------------------
(***************************************************************************)
(* Fielded positional search (fo-core/src/lexical.rs): parsing of queries, *)
(* the term dictionary, candidate documents, clauses, scores.  A word is a *)
(* number, NoTerm one that normalization leaves nothing of.  Scores are    *)
(* hundredths, with the logarithm of x replaced by x - 1 and 1 - exp(-x)   *)
(* by x / (1 + x); snippets, metadata and byte spans are left out.         *)
(***************************************************************************)
EXTENDS Lanes

CONSTANT MaximumSpecs   \* terms beyond which proximity is not looked at (64)

NoTerm == 0
Tokenize(words) == SelectSeq(words, LAMBDA w : w # NoTerm)
Fields == {"title", "body", "tags"}
-----------------------------------------------------------------------------
(* Queries.  A text is a sequence of pieces [sign, field, quoted, words],  *)
(* as written between blanks or in quotes.                                 *)

Occur(sign) == [plus |-> "must", minus |-> "must_not", none |-> "should"][sign]
Mask(field) ==
    CASE field = "any" -> Fields [] field \in {"tag", "tags"} -> {"tags"} [] OTHER -> {field}
Clause(piece) ==
    [occur |-> Occur(piece.sign), mask |-> Mask(piece.field), terms |-> Tokenize(piece.words),
     phrase |-> piece.quoted /\ Len(Tokenize(piece.words)) > 1]
Clauses(pieces) == SelectSeq(MappedSeq(pieces, Clause), LAMBDA c : c.terms # <<>>)
IsPositive(clause) == clause.occur # "must_not"
ParseClauses(clauses) ==
    IF \E i \in DOMAIN clauses : IsPositive(clauses[i]) THEN Accepted(clauses) ELSE Refused
Parse(pieces) == ParseClauses(Clauses(pieces))

Positive(query) == SelectSeq(query, IsPositive)
PositiveTerms(query) == UNION {Range(c.terms) : c \in Range(Positive(query))}

\* One specification for each positive term: the fields any clause asks for.
Uses(query, term) ==
    {u \in UNION {{i} \X DOMAIN query[i].terms : i \in DOMAIN query} :
        IsPositive(query[u[1]]) /\ query[u[1]].terms[u[2]] = term}
TermSpec(query, term) ==
    [term |-> term, mask |-> UNION {query[u[1]].mask : u \in Uses(query, term)},
     count |-> Cardinality(Uses(query, term))]
TermSpecs(query) ==
    Ordered({TermSpec(query, t) : t \in PositiveTerms(query)}, LAMBDA s : <<s.term>>)
-----------------------------------------------------------------------------
(* The index: documents [id, title, body, tags] and, for every term, its   *)
(* postings [document, at], at[field] being positions in that field.       *)

\* The tags of a document are joined before they are split into terms.
Indexed(input) ==
    [id |-> input.id, title |-> Tokenize(input.title), body |-> Tokenize(input.body),
     tags |-> Tokenize(Concat(input.tags))]
Positions(tokens, term) ==
    Ordered({p \in 0..(Len(tokens) - 1) : tokens[p + 1] = term}, LAMBDA p : <<p>>)
LexicalPosting(document, d, term) ==
    [document |-> d, at |-> [f \in Fields |-> Positions(document[f], term)]]
TermsOf(document) == UNION {Range(document[f]) : f \in Fields}
LexicalEntry(documents, term) ==
    [term |-> term,
     postings |-> MappedSeq(SelectSeq(CountUp(Len(documents)),
                                      LAMBDA d : term \in TermsOf(documents[d])),
                            LAMBDA d : LexicalPosting(documents[d], d - 1, term))]
LexicalIndex(documents) ==
    [documents |-> documents,
     terms |-> MappedSeq(Ordered(UNION {TermsOf(documents[d]) : d \in DOMAIN documents},
                                 LAMBDA t : <<t>>),
                         LAMBDA t : LexicalEntry(documents, t))]
BuildLexical(inputs) == LexicalIndex(MappedSeq(inputs, Indexed))

\* What loading checks of the dictionary.
SoundPositions(positions, tokens) ==
    /\ \A i \in DOMAIN positions : positions[i] < Len(tokens)
    /\ \A i, j \in DOMAIN positions : i < j => positions[i] < positions[j]
SoundPostings(index, postings) ==
    /\ postings # <<>>
    /\ \A i, j \in DOMAIN postings : i < j => postings[i].document < postings[j].document
    /\ \A i \in DOMAIN postings :
            /\ postings[i].document < Len(index.documents)
            /\ \A f \in Fields : SoundPositions(postings[i].at[f],
                                                index.documents[postings[i].document + 1][f])
SoundLexical(index) ==
    /\ \A i, j \in DOMAIN index.terms : i < j => index.terms[i].term < index.terms[j].term
    /\ \A i \in DOMAIN index.terms : SoundPostings(index, index.terms[i].postings)

\* Positions of a term in a field of a document; none when it has no posting.
LookupTerm(index, term) ==
    Concat(MappedSeq(SelectSeq(index.terms, LAMBDA e : e.term = term), LAMBDA e : e.postings))
PostingIn(index, term, d) == SelectSeq(LookupTerm(index, term), LAMBDA p : p.document = d)
PositionsIn(index, term, d, field) ==
    IF PostingIn(index, term, d) = <<>> THEN <<>> ELSE PostingIn(index, term, d)[1].at[field]
HasMask(index, term, d, mask) == \E f \in mask : PositionsIn(index, term, d, f) # <<>>
-----------------------------------------------------------------------------
(* Clauses.                                                                *)

\* Mutation: the words of a phrase are looked for in any of its fields.
OccursAcross(index, terms, d, field, start) ==
    \A k \in DOMAIN terms :
        \E f \in Fields : start + k - 1 \in Range(PositionsIn(index, terms[k], d, f))

OccursAt(index, terms, d, field, start) ==
    \A k \in DOMAIN terms : start + k - 1 \in Range(PositionsIn(index, terms[k], d, field))
PhraseOccurrences(index, clause, d) ==
    MapThenSumSet(LAMBDA f : Cardinality({p \in Range(PositionsIn(index, clause.terms[1], d, f)) :
                                            OccursAt(index, clause.terms, d, f, p)}),
                  clause.mask)
ClauseMatches(index, clause, d) ==
    IF clause.phrase THEN PhraseOccurrences(index, clause, d) > 0
    ELSE \A k \in DOMAIN clause.terms : HasMask(index, clause.terms[k], d, clause.mask)
Matching(index, query, d, occur) ==
    {i \in DOMAIN query : query[i].occur = occur /\ ClauseMatches(index, query[i], d)}
OfOccur(query, occur) == {i \in DOMAIN query : query[i].occur = occur}

\* How many of the optional clauses a document has to match.
RequiredShould(total, fraction) == Smaller((total * fraction + 99) \div 100, total)
Eligible(index, query, d, options) ==
    /\ Matching(index, query, d, "must_not") = {}
    /\ Matching(index, query, d, "must") = OfOccur(query, "must")
    /\ options.requirePhrases =>
            \A c \in Range(Positive(query)) : c.phrase => ClauseMatches(index, c, d)
    /\ Cardinality(Matching(index, query, d, "should"))
            >= RequiredShould(Cardinality(OfOccur(query, "should")), options.minShould)
-----------------------------------------------------------------------------
(* Scores.                                                                 *)

Df(index, term) == Len(LookupTerm(index, term))
LexicalIdf(index, term) ==
    (100 * (2 * (Larger(Len(index.documents), 1) - Df(index, term)) + 1))
        \div (2 * Df(index, term) + 1)
Weighted(index, spec) == LexicalIdf(index, spec.term) * spec.count

\* k1 is 1.2, the length normalization 0.75.
AverageLength(index, field) ==
    Larger((100 * Sum(MappedSeq(index.documents, LAMBDA d : Len(d[field]))))
               \div Larger(Len(index.documents), 1), 100)
Bm25(frequency, length, average) ==
    (220 * 100 * frequency)
        \div (100 * frequency + (120 * (25 + (7500 * length) \div average)) \div 100)
FieldWeight == [title |-> 250, body |-> 100, tags |-> 300]
FieldScore(index, spec, d, field) ==
    (Bm25(Len(PositionsIn(index, spec.term, d, field)), Len(index.documents[d + 1][field]),
          AverageLength(index, field)) * Weighted(index, spec) * FieldWeight[field]) \div 10000
SpecScore(index, spec, d) ==
    MapThenSumSet(LAMBDA f : FieldScore(index, spec, d, f),
                  {f \in spec.mask : PositionsIn(index, spec.term, d, f) # <<>>})

PhraseIdf(index, clause) ==
    Sum(MappedSeq(clause.terms, LAMBDA t : IF Df(index, t) = 0 THEN 0 ELSE LexicalIdf(index, t)))
        \div Len(clause.terms)
PhraseScore(index, clause, d, boost) ==
    (boost * (100 + PhraseIdf(index, clause)) * PhraseOccurrences(index, clause, d)) \div 100

\* The terms of a field's events by position; a window is closed as soon as
\* it covers all of them, and then its left end moves on.
Events(index, specs, d, field) ==
    Ordered({<<p, i>> \in UNION {Range(PositionsIn(index, specs[i].term, d, field)) \X {i} :
                                    i \in {k \in DOMAIN specs : field \in specs[k].mask}} : TRUE},
            LAMBDA e : e)
CoversAll(events, left, right, count) ==
    Cardinality({events[i][2] : i \in left..right}) = count
CoveringFrom(events, left, right, count) ==
    {l \in left..right : CoversAll(events, l, right, count)}
SpanOf(events, l, right) == events[right][1] - events[l][1] + 1
Close(state, events, right, closing) ==
    IF closing = {} THEN state
    ELSE [left |-> Max(closing) + 1,
          spans |-> state.spans \cup {SpanOf(events, l, right) : l \in closing}]
FieldSpans(events, count) ==
    FoldLeft(LAMBDA state, right : Close(state, events, right,
                                         CoveringFrom(events, state.left, right, count)),
             [left |-> 1, spans |-> {}], CountUp(Len(events))).spans
ProximitySpans(index, specs, d) ==
    IF Len(specs) < 2 \/ Len(specs) > MaximumSpecs THEN {}
    ELSE UNION {FieldSpans(Events(index, specs, d, f), Len(specs)) : f \in Fields}
ProximityScore(specs, spans, options) ==
    IF spans = {} \/ Min(spans) > options.window THEN 0
    ELSE (options.proximityBoost * Smaller(100, (100 * Len(specs)) \div Min(spans))) \div 100
-----------------------------------------------------------------------------
(* The search.                                                             *)

\* The rarest terms whose postings are not too many name the candidates.
CandidateTerms(index, specs, options) ==
    Take(Ordered({s \in Range(specs) : Df(index, s.term) \in 1..options.maxPostings},
                 LAMBDA s : <<Df(index, s.term), -s.count, s.term>>),
         options.candidateTerms)
Naming(index, candidateTerms, d) ==
    {s \in Range(candidateTerms) : HasMask(index, s.term, d, s.mask)}
LexicalCandidate(index, candidateTerms, d) ==
    [document |-> d,
     score |-> MapThenSumSet(LAMBDA s : Weighted(index, s), Naming(index, candidateTerms, d))]
LexicalCandidates(index, candidateTerms, options) ==
    Truncate(Ordered({LexicalCandidate(index, candidateTerms, d) :
                        d \in {e \in 0..(Len(index.documents) - 1) :
                                  Naming(index, candidateTerms, e) # {}}},
                     LAMBDA c : <<-c.score, c.document>>),
             options.maxCandidates)

Coverage(matched, query, options) ==
    (options.coverageBoost * matched) \div Larger(Cardinality(PositiveTerms(query)), 1)
LexicalScore(index, query, specs, matched, phrases, spans, d, options) ==
    MapThenSumSet(LAMBDA s : SpecScore(index, s, d), matched)
        + MapThenSumSet(LAMBDA i : PhraseScore(index, query[i], d, options.phraseBoost), phrases)
        + ProximityScore(specs, spans, options)
        + Coverage(Cardinality(matched), query, options)
LexicalResult(index, query, specs, matched, phrases, spans, d, options) ==
    [document |-> d, id |-> index.documents[d + 1].id, terms |-> {s.term : s \in matched},
     phrases |-> MapThenSumSet(LAMBDA i : PhraseOccurrences(index, query[i], d), phrases),
     spans |-> spans,
     score |-> LexicalScore(index, query, specs, matched, phrases, spans, d, options)]
ScoreDocument(index, query, specs, d, options) ==
    LexicalResult(index, query, specs,
                  {s \in Range(specs) : HasMask(index, s.term, d, s.mask)},
                  {i \in DOMAIN query : IsPositive(query[i]) /\ query[i].phrase},
                  ProximitySpans(index, specs, d), d, options)

Saturating(score, at) == IF score = 0 THEN 0 ELSE (100 * score) \div (score + at)
LexicalResults(index, query, specs, candidates, options) ==
    Truncate(Ordered({r \in {ScoreDocument(index, query, specs, c.document, options) :
                                c \in {k \in Range(candidates) :
                                          Eligible(index, query, k.document, options)}} :
                        r.terms # {} /\ Saturating(r.score, 100) >= options.minScore},
                     LAMBDA r : <<-r.score, r.document>>),
             options.maxResults)
SearchSpecs(index, query, specs, options) ==
    LexicalResults(index, query, specs,
                   LexicalCandidates(index, CandidateTerms(index, specs, options), options),
                   options)
SearchLexical(index, query, options) ==
    SearchSpecs(index, query, TermSpecs(query), options)
=============================================================================
