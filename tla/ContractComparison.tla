-------------------------- MODULE ContractComparison --------------------------
(***************************************************************************)
(* Comparison of two analysed contracts and the benchmark of a portfolio   *)
(* (fo-core/src/contract_diff.rs): which clause, definition, obligation    *)
(* and economic term of one version became which of the other, what that   *)
(* matters, and which documents of a portfolio stand out.                  *)
(*                                                                         *)
(* Weights and similarities are exact fractions, where the code rounds to  *)
(* 32 bits; words stand for the characters of a text.  Titles and wording  *)
(* of alerts are left out.                                                 *)
(***************************************************************************)
EXTENDS ContractAnalysis

CONSTANTS
    ShortWords,    \* words with no run of three letters or digits
    Alphabet       \* place of a word in the alphabet

Verify == INSTANCE Alignment WITH WordBits <- 64, MinimumRadius <- 8
-----------------------------------------------------------------------------
(* What a kind of clause or term matters, for the kinds of this model.     *)

ClauseImpact(kind) ==
    CASE kind \in {"payment", "base_rent"} -> "economics"
      [] kind = "term" -> "duration_and_renewal"
      [] kind = "termination" -> "termination_and_default"
      [] kind = "liability" -> "liability_and_indemnity"
      [] kind = "scope" -> "operational_flexibility"
      [] kind = "premises" -> "real_estate_operations"
      [] OTHER -> "other"
Weighty == {"economics", "termination_and_default", "liability_and_indemnity"}
ClauseMateriality(kind) ==
    CASE ClauseImpact(kind) \in Weighty -> One
      [] ClauseImpact(kind) = "duration_and_renewal" -> Ratio(88, 100)
      [] ClauseImpact(kind) \in {"operational_flexibility", "real_estate_operations"}
            -> Ratio(72, 100)
      [] OTHER -> Ratio(45, 100)
EconomicKindWeight(kind) ==
    CASE kind \in {"base_rent", "rent_escalation", "percentage_rent", "liability_cap"} -> One
      [] kind \in {"money", "payment_term", "security_deposit", "interest_rate", "renewal"}
            -> Ratio(82, 100)
      [] OTHER -> Ratio(62, 100)
ModalityStrength(modality) ==
    CASE modality = <<"may">> -> 1 [] modality = <<"should">> -> 2 [] modality = <<"will">> -> 3
      [] modality \in {<<"shall">>, <<"must">>} -> 4 [] modality = <<"may", "not">> -> 5
      [] OTHER -> 6
-----------------------------------------------------------------------------
(* Similarity of texts, and who is paired with whom.                       *)

NormalWords(text) == SelectSeq(text, LAMBDA w : w \notin Marks \cup {NL})
Grams(words, q) == {SubSeq(words, i, i + q - 1) : i \in 1..(Len(words) - q + 1)}
Shared(a, b) == Ratio(Cardinality(a \cap b), Larger(1, Cardinality(a \cup b)))
LongSimilarity(left, right, q) ==
    IF Grams(left, q) = {} \/ Grams(right, q) = {}
    THEN Ratio(Smaller(Len(left), Len(right)), Larger(Len(left), Len(right)))
    ELSE Shared(Grams(left, q), Grams(right, q))
WordSimilarity(left, right, options) ==
    LET longer == Larger(Len(left), Len(right))
    IN  CASE left = <<>> /\ right = <<>> -> One
          [] (left = <<>>) # (right = <<>>) -> Zero
          [] left # <<>> /\ right # <<>> /\ longer =< options.maximumExact ->
                Minus(One, Ratio(Verify!GlobalLevenshtein(left, right), longer))
          [] OTHER -> LongSimilarity(left, right, options.q)
TextSimilarity(left, right, options) ==
    WordSimilarity(NormalWords(left), NormalWords(right), options)

\* The best pairs first.  A pair marks its previous side as used before it
\* is known whether its current side is free.
NoPairs == [previous |-> {}, current |-> {}, pairs |-> <<>>]
\* Mutated: the current side stays free.
UsePairTwice(used, pair) ==
    IF pair.previous \in used.previous THEN used
    ELSE [used EXCEPT !.previous = @ \cup {pair.previous}, !.pairs = Append(@, pair)]
UsePair(used, pair) ==
    CASE pair.previous \in used.previous -> used
      [] pair.previous \notin used.previous /\ pair.current \in used.current ->
            [used EXCEPT !.previous = @ \cup {pair.previous}]
      [] OTHER -> [previous |-> used.previous \cup {pair.previous},
                   current |-> used.current \cup {pair.current},
                   pairs |-> Append(used.pairs, pair)]
MatchBest(candidates) ==
    LET scores == {p.score : p \in candidates}
        similarities == {p.similarity : p \in candidates}
    IN  FoldLeft(UsePair, NoPairs,
                 Ordered(candidates, LAMBDA p : <<Above(p.score, scores),
                            Above(p.similarity, similarities), p.previous, p.current>>))
Unmatched(things, used) == SelectSeq(CountUp(Len(things)), LAMBDA i : i \notin used)
-----------------------------------------------------------------------------
(* Clauses.                                                                *)

ClausePair(old, new, heading, similarity) ==
    [previous |-> old.index, current |-> new.index, similarity |-> similarity,
     heading |-> heading,
     score |-> Plus(Plus(Times(Ratio(72, 100), similarity), Times(Ratio(10, 100), heading)),
                    IF PrimaryKind(old) = PrimaryKind(new) THEN Ratio(18, 100) ELSE Zero)]
Comparable(old, new, heading) ==
    PrimaryKind(old) = PrimaryKind(new) \/ ~Less(heading, Ratio(45, 100))
PairsOf(old, new, heading, options) ==
    IF ~Comparable(old, new, heading) THEN {}
    ELSE {ClausePair(old, new, heading, TextSimilarity(old.text, new.text, options))}
ClausePairs(previous, current, options) ==
    {p \in UNION {PairsOf(old, new, TextSimilarity(old.heading, new.heading, options), options) :
                    old \in Range(previous), new \in Range(current)} : ~Less(p.score, options.align)}

Moved(pair, options) == Abs(pair.previous - pair.current) > options.movedDistance
ClauseChangeKind(pair, options) ==
    CASE ~Less(pair.similarity, options.unchanged) ->
            IF Moved(pair, options) THEN "moved" ELSE "unchanged"
      [] Less(pair.similarity, options.unchanged) /\ ~Less(pair.similarity, options.minor) ->
            "minor_revision"
      [] OTHER -> "material_revision"
ClauseChange(kind, clause, pair, weight) ==
    [kind |-> kind, clause |-> PrimaryKind(clause), previous |-> pair.previous,
     current |-> pair.current, similarity |-> pair.similarity, heading |-> pair.heading,
     score |-> pair.score, impact |-> ClauseImpact(PrimaryKind(clause)),
     materiality |-> Times(ClauseMateriality(PrimaryKind(clause)), weight)]
MatchedClause(pair, new, options) ==
    LET floor == IF Moved(pair, options) THEN Ratio(8, 100) ELSE Zero
    IN  ClauseChange(ClauseChangeKind(pair, options), new, pair,
                     Clamped(Minus(One, pair.similarity), floor, One))
Nowhere == 0
Unpaired(previous, current) ==
    [previous |-> previous, current |-> current, similarity |-> Zero, heading |-> Zero,
     score |-> Zero]
ClauseChanges(previous, current, matched, options) ==
    {MatchedClause(p, current[p.current], options) : p \in Range(matched.pairs)}
    \cup {ClauseChange("removed", previous[i], Unpaired(i, Nowhere), One) :
             i \in Range(Unmatched(previous, matched.previous))}
    \cup {ClauseChange("added", current[i], Unpaired(Nowhere, i), One) :
             i \in Range(Unmatched(current, matched.current))}
InOrderOfCurrent(changes, n) ==
    Ordered(changes, LAMBDA c : <<IF c.current = Nowhere THEN n + 1 ELSE c.current, c.previous>>)
CompareClauses(previous, current, options) ==
    InOrderOfCurrent(ClauseChanges(previous, current,
                        MatchBest(ClausePairs(previous, current, options)), options), Len(current))
-----------------------------------------------------------------------------
(* Definitions.                                                            *)

\* The definition of a term, the first of them, in a sequence.
DefinitionOf(definitions, term) ==
    Take(SelectSeq(definitions, LAMBDA d : d.term = term), 1)
DefinitionChange(kind, term, old, new, similarity, materiality) ==
    [kind |-> kind, term |-> term, previous |-> old, current |-> new, similarity |-> similarity,
     materiality |-> materiality]
ChangedDefinition(term, old, new, similarity, options) ==
    IF ~Less(similarity, options.unchanged)
    THEN DefinitionChange("unchanged", term, old, new, similarity, Zero)
    ELSE DefinitionChange("changed", term, old, new, similarity,
            Plus(Ratio(35, 100), Times(Ratio(65, 100), Minus(One, similarity))))
DefinitionChangeOf(term, old, new, options) ==
    CASE new = <<>> -> DefinitionChange("removed", term, old, <<>>, Zero, Ratio(70, 100))
      [] old = <<>> -> DefinitionChange("added", term, <<>>, new, Zero, Ratio(60, 100))
      [] OTHER -> ChangedDefinition(term, old, new,
                    TextSimilarity(old[1].definition, new[1].definition, options), options)
TermsDefined(definitions) == {d.term : d \in Range(definitions)}
InAlphabet(terms) ==
    LET longest == Max({Len(t) : t \in terms} \cup {0})
    IN  Ordered(terms, LAMBDA t :
            [i \in 1..longest |-> IF i =< Len(t) THEN Alphabet[t[i]] ELSE 0])
CompareDefinitions(previous, current, options) ==
    MappedSeq(InAlphabet(TermsDefined(previous) \cup TermsDefined(current)), LAMBDA t :
        DefinitionChangeOf(t, DefinitionOf(previous, t), DefinitionOf(current, t), options))
-----------------------------------------------------------------------------
(* Obligations.                                                            *)

ClauseKindOf(analysis, record) == PrimaryKind(analysis.clauses[record.clause])
ObligationSimilarity(old, new, options) ==
    Plus(Times(Ratio(55, 100), TextSimilarity(old.sentence, new.sentence, options)),
         Plus(Times(Ratio(15, 100), TextSimilarity(old.subject, new.subject, options)),
              Times(Ratio(30, 100), TextSimilarity(old.action, new.action, options))))
SameKind(previous, current, things, otherThings) ==
    {x \in (DOMAIN things) \X (DOMAIN otherThings) :
        ClauseKindOf(previous, things[x[1]]) = ClauseKindOf(current, otherThings[x[2]])}
CandidatePair(i, j, score) == [previous |-> i, current |-> j, score |-> score, similarity |-> score]
ObligationPairs(previous, current, options) ==
    {p \in {CandidatePair(x[1], x[2],
                ObligationSimilarity(previous.obligations[x[1]], current.obligations[x[2]], options)) :
              x \in SameKind(previous, current, previous.obligations, current.obligations)} :
        ~Less(p.score, options.obligationAlign)}

ObligationChangeKind(old, new, similarity, options) ==
    LET before == ModalityStrength(old.modality)
        after == ModalityStrength(new.modality)
    IN  CASE ~Less(similarity, options.unchanged) /\ old.modality = new.modality -> "unchanged"
          [] after > before -> "strengthened"
          [] after < before -> "weakened"
          [] OTHER -> "changed"
ObligationDirection(kind) ==
    CASE kind \in {"strengthened", "added"} -> "more_restrictive"
      [] kind \in {"weakened", "removed"} -> "less_restrictive"
      [] OTHER -> "ambiguous"
ObligationChange(kind, old, new, clause, similarity, weight) ==
    [kind |-> kind, previous |-> old, current |-> new, similarity |-> similarity,
     impact |-> ClauseImpact(clause), direction |-> ObligationDirection(kind),
     materiality |-> Clamped(Times(ClauseMateriality(clause), weight), Zero, One)]
MatchedObligation(old, new, pair, clause, options) ==
    ObligationChange(ObligationChangeKind(old, new, pair.score, options), <<old>>, <<new>>, clause,
        pair.score, Plus(Minus(One, pair.score),
                         IF old.modality # new.modality THEN Ratio(35, 100) ELSE Zero))
ObligationChanges(previous, current, matched, options) ==
    MappedSeq(matched.pairs, LAMBDA p :
        MatchedObligation(previous.obligations[p.previous], current.obligations[p.current], p,
                          ClauseKindOf(current, current.obligations[p.current]), options))
    \o MappedSeq(Unmatched(previous.obligations, matched.previous), LAMBDA i :
        ObligationChange("removed", <<previous.obligations[i]>>, <<>>,
                         ClauseKindOf(previous, previous.obligations[i]), Zero, One))
    \o MappedSeq(Unmatched(current.obligations, matched.current), LAMBDA i :
        ObligationChange("added", <<>>, <<current.obligations[i]>>,
                         ClauseKindOf(current, current.obligations[i]), Zero, One))
CompareObligations(previous, current, options) ==
    ObligationChanges(previous, current, MatchBest(ObligationPairs(previous, current, options)),
                      options)
-----------------------------------------------------------------------------
(* Economic terms.                                                         *)

WordJaccard(left, right) == Shared(left \ ShortWords, right \ ShortWords)
EconomicPairScore(old, new) ==
    Plus(Times(Ratio(70, 100), WordJaccard(old.context, new.context)),
         Plus(IF old.unit = new.unit THEN Ratio(20, 100) ELSE Zero,
              IF old.currency = new.currency THEN Ratio(10, 100) ELSE Zero))
EconomicPairs(previous, current) ==
    {CandidatePair(x[1], x[2], EconomicPairScore(previous.terms[x[1]], current.terms[x[2]])) :
        x \in {y \in SameKind(previous, current, previous.terms, current.terms) :
                  previous.terms[y[1]].kind = current.terms[y[2]].kind}}
EconomicChangeKind(old, new, options) ==
    LET delta == Exact(new.value - old.value)
        equal == ~Less(options.economicTolerance, Magnitude(delta))
    IN  CASE equal /\ old.unit = new.unit /\ old.currency = new.currency -> "unchanged"
          [] Less(options.economicTolerance, delta) -> "increased"
          [] Less(options.economicTolerance, Minus(Zero, delta)) -> "decreased"
          [] OTHER -> "changed"
RelativeDelta(old, new, options) ==
    IF Less(options.economicTolerance, Exact(Abs(old.value)))
    THEN {Ratio(new.value - old.value, Abs(old.value))} ELSE {}
DeltaFactor(relative) ==
    IF relative = {} THEN Ratio(70, 100)
    ELSE Clamped(Over(Magnitude(CHOOSE x \in relative : TRUE), Ratio(25, 100)), Ratio(20, 100), One)
EconomicDirection(kind) ==
    CASE kind \in {"increased", "added"} -> "higher_economic_burden"
      [] kind = "decreased" -> "lower_economic_burden"
      [] kind = "removed" -> "removed_protection"
      [] OTHER -> "ambiguous"
EconomicChange(kind, old, new, term, relative, weight) ==
    [kind |-> kind, term |-> term.kind, previous |-> old, current |-> new, relative |-> relative,
     direction |-> EconomicDirection(kind),
     materiality |-> Times(EconomicKindWeight(term.kind), weight)]
MatchedTerm(old, new, options) ==
    LET kind == EconomicChangeKind(old, new, options)
        relative == RelativeDelta(old, new, options)
    IN  EconomicChange(kind, <<old>>, <<new>>, new, relative,
                       IF kind = "unchanged" THEN Zero ELSE DeltaFactor(relative))
EconomicChanges(previous, current, matched, options) ==
    MappedSeq(matched.pairs, LAMBDA p :
        MatchedTerm(previous[p.previous], current[p.current], options))
    \o MappedSeq(Unmatched(previous, matched.previous), LAMBDA i :
        EconomicChange("removed", <<previous[i]>>, <<>>, previous[i], {}, One))
    \o MappedSeq(Unmatched(current, matched.current), LAMBDA i :
        EconomicChange("added", <<>>, <<current[i]>>, current[i], {}, One))
CompareEconomicTerms(previous, current, options) ==
    EconomicChanges(previous.terms, current.terms, MatchBest(EconomicPairs(previous, current)),
                    options)
-----------------------------------------------------------------------------
(* Alerts, and the whole comparison.                                       *)

\* The codes of alerts in the order of the alphabet.
CodeOrder ==
    <<<<"clause", "added">>, <<"clause", "material_revision">>, <<"clause", "minor_revision">>,
      <<"clause", "moved">>, <<"clause", "removed">>,
      <<"definition", "added">>, <<"definition", "changed">>, <<"definition", "removed">>,
      <<"economic", "added">>, <<"economic", "changed">>, <<"economic", "decreased">>,
      <<"economic", "increased">>, <<"economic", "removed">>,
      <<"obligation", "added">>, <<"obligation", "changed">>, <<"obligation", "removed">>,
      <<"obligation", "strengthened">>, <<"obligation", "weakened">>>>
CodeIndex(alert) == CHOOSE i \in DOMAIN CodeOrder : CodeOrder[i] = alert.code
Alert(group, change, impact, direction, previous, current) ==
    [code |-> <<group, change.kind>>, impact |-> impact, direction |-> direction,
     severity |-> change.materiality, previous |-> previous, current |-> current]
ClauseOf(records) == IF records = <<>> THEN Nowhere ELSE records[1].clause
RecordAlert(group, change, impact, direction) ==
    Alert(group, change, impact, direction, ClauseOf(change.previous), ClauseOf(change.current))
Alarming(changes, floor) ==
    SelectSeq(changes, LAMBDA c : c.kind # "unchanged" /\ ~Less(c.materiality, floor))
ClauseDirection(change) ==
    CASE change.kind = "added" -> "more_restrictive"
      [] change.kind = "removed" -> "removed_protection"
      [] OTHER -> "ambiguous"
\* Cut off before they are sorted.
BuildChangeAlerts(clauses, definitions, obligations, economics, options) ==
    Truncate(MappedSeq(Alarming(clauses, Ratio(35, 100)), LAMBDA c :
                 Alert("clause", c, c.impact, ClauseDirection(c), c.previous, c.current))
             \o MappedSeq(Alarming(definitions, Ratio(45, 100)), LAMBDA c :
                 RecordAlert("definition", c, "other", "ambiguous"))
             \o MappedSeq(Alarming(obligations, Ratio(40, 100)), LAMBDA c :
                 RecordAlert("obligation", c, c.impact, c.direction))
             \o MappedSeq(Alarming(economics, Ratio(35, 100)), LAMBDA c :
                 RecordAlert("economic", c, "economics", c.direction)),
             options.maximumAlerts)
\* Those that agree in severity and code are in the order of their titles,
\* here in the order they were found.
SortedAlerts(alerts) ==
    LET severities == {a.severity : a \in Range(alerts)}
    IN  MappedSeq(Ordered({<<i, alerts[i]>> : i \in DOMAIN alerts},
                          LAMBDA a : <<Above(a[2].severity, severities), CodeIndex(a[2]), a[1]>>),
                  LAMBDA a : a[2])
Total(numbers) == FoldLeft(Plus, Zero, numbers)
WeightedSimilarity(changes) ==
    LET weight(c) == Clamped(ClauseMateriality(c.clause), Ratio(10, 100), One)
    IN  IF changes = <<>> THEN Zero
        ELSE Over(Total(MappedSeq(changes, LAMBDA c : Times(weight(c), c.similarity))),
                  Total(MappedSeq(changes, weight)))
Counted(changes, kind) == Len(SelectSeq(changes, LAMBDA c : c.kind = kind))
Comparison(clauses, definitions, obligations, economics, options) ==
    [clauses |-> clauses, definitions |-> definitions, obligations |-> obligations,
     economics |-> economics, similarity |-> WeightedSimilarity(clauses),
     matched |-> Len(SelectSeq(clauses, LAMBDA c : Nowhere \notin {c.previous, c.current})),
     added |-> Counted(clauses, "added"), removed |-> Counted(clauses, "removed"),
     revised |-> Counted(clauses, "material_revision"),
     alerts |-> SortedAlerts(BuildChangeAlerts(clauses, definitions, obligations, economics,
                                               options))]
ValidAnalysis(analysis) ==
    \A c \in Range(analysis.clauses) : c.first =< c.last /\ c.last =< analysis.size
InUnit(x) == ~Less(x, Zero) /\ ~Less(One, x)
ValidThresholds(options) ==
    /\ \A x \in {options.align, options.unchanged, options.minor, options.obligationAlign} :
            InUnit(x)
    /\ ~Less(options.unchanged, options.minor) /\ options.q \in 2..32
    /\ options.maximumPairs > 0 /\ options.maximumExact > 0 /\ options.maximumAlerts > 0
    /\ ~Less(options.economicTolerance, Zero) /\ ~Less(options.economicMateriality, Zero)
CompareContracts(previous, current, options) ==
    IF ~ValidThresholds(options) \/ ~ValidAnalysis(previous) \/ ~ValidAnalysis(current)
            \/ Len(previous.clauses) * Len(current.clauses) > options.maximumPairs
    THEN Refused
    ELSE Accepted(Comparison(CompareClauses(previous.clauses, current.clauses, options),
                    CompareDefinitions(previous.definitions, current.definitions, options),
                    CompareObligations(previous, current, options),
                    CompareEconomicTerms(previous, current, options), options))
-----------------------------------------------------------------------------
(* Benchmark of a portfolio of documents [id, analysis].                   *)

PrimaryKinds(document) == {PrimaryKind(c) : c \in Range(document.analysis.clauses)}
With(documents, kind) == {d \in Range(documents) : kind \in PrimaryKinds(d)}
Prevalence(documents, kind) == Ratio(Cardinality(With(documents, kind)), Len(documents))
ClausePrevalence(documents) ==
    MappedSeq(SelectSeq(Kinds, LAMBDA k : With(documents, k) # {}),
              LAMBDA k : [kind |-> k, documents |-> Cardinality(With(documents, k)),
                          prevalence |-> Prevalence(documents, k)])

Observations(documents, kind) ==
    Concat(MappedSeq(documents, LAMBDA d :
        MappedSeq(SelectSeq(d.analysis.terms, LAMBDA t : t.kind = kind),
                  LAMBDA t : [id |-> d.id, value |-> t.value])))
\* Mutated: left in the order of the documents.
UnsortedNumbers(numbers) == numbers
SortedNumbers(numbers) == SortSeq(numbers, Less)
Median(sorted) ==
    LET middle == Len(sorted) \div 2
    IN  IF Len(sorted) % 2 = 0 THEN Over(Plus(sorted[middle], sorted[middle + 1]), Exact(2))
        ELSE sorted[middle + 1]
ObservedValues(documents, kind) ==
    MappedSeq(Observations(documents, kind), LAMBDA o : Exact(o.value))
Deviations(values, median) == MappedSeq(values, LAMBDA v : Magnitude(Minus(v, median)))
\* Where no value deviates, a twentieth of the median is the scale.
Scale(distribution) ==
    IF distribution.deviation # Zero THEN distribution.deviation
    ELSE Times(Ratio(5, 100), LET center == Magnitude(distribution.median)
                              IN  IF Less(center, One) THEN One ELSE center)
RobustZ(value, distribution) ==
    Over(Magnitude(Minus(Exact(value), distribution.median)), Scale(distribution))
Distribution(kind, sorted) ==
    [kind |-> kind, observations |-> Len(sorted), minimum |-> sorted[1], maximum |-> Last(sorted),
     median |-> Median(sorted),
     deviation |-> Median(SortedNumbers(Deviations(sorted, Median(sorted))))]
TermKinds(documents) == UNION {{t.kind : t \in Range(d.analysis.terms)} : d \in Range(documents)}
EconomicDistributions(documents) ==
    {Distribution(k, SortedNumbers(ObservedValues(documents, k))) : k \in TermKinds(documents)}

\* Equal values of one document are outliers each, told apart by their place.
Outlier(id, code, kind, place, value, severity) ==
    [id |-> id, code |-> code, kind |-> kind, place |-> place, value |-> value,
     severity |-> Clamped(severity, Zero, One)]
EconomicOutliers(documents, distribution, options) ==
    LET observed == Observations(documents, distribution.kind)
        z(i) == RobustZ(observed[i].value, distribution)
    IN  {Outlier(observed[i].id, 1, distribution.kind, i, observed[i].value, Over(z(i), Exact(8))) :
            i \in {j \in DOMAIN observed :
                      /\ distribution.observations >= options.minimumObservations
                      /\ ~Less(z(j), options.madMultiplier)}}
MissingCommon(documents, document, options) ==
    {Outlier(document.id, 2, k, 0, 0,
             Plus(Ratio(45, 100), Times(Ratio(55, 100), Prevalence(documents, k)))) :
        k \in {x \in Range(Kinds) \ PrimaryKinds(document) :
                  With(documents, x) # {} /\ ~Less(Prevalence(documents, x), options.common)}}
RareClauses(documents, document, options) ==
    {Outlier(document.id, 3, k, 0, 0,
             Minus(Ratio(75, 100), Times(Ratio(50, 100), Prevalence(documents, k)))) :
        k \in {x \in PrimaryKinds(document) : ~Less(options.rare, Prevalence(documents, x))}}
AllOutliers(documents, distributions, options) ==
    UNION {EconomicOutliers(documents, d, options) : d \in distributions}
        \cup UNION {MissingCommon(documents, d, options) \cup RareClauses(documents, d, options) :
                       d \in Range(documents)}
\* Documents are in the order of their identifiers.
Position(documents, id) == CHOOSE i \in DOMAIN documents : documents[i].id = id
Worst(outliers, documents, options) ==
    LET severities == {o.severity : o \in outliers}
    IN  Truncate(Ordered(outliers, LAMBDA o :
                    <<Above(o.severity, severities), Position(documents, o.id), o.code>>),
                 options.maximumOutliers)
ModalitiesIn(documents) ==
    Concat(MappedSeq(documents, LAMBDA d :
        MappedSeq(d.analysis.obligations, LAMBDA o : o.modality)))
Occurrences(things) == [x \in Range(things) |-> Len(SelectSeq(things, LAMBDA y : y = x))]
Benchmark(documents, distributions, options) ==
    [documents |-> Len(documents),
     profiles |-> Occurrences(MappedSeq(documents, LAMBDA d : d.analysis.profile)),
     prevalence |-> ClausePrevalence(documents), distributions |-> distributions,
     modalities |-> Occurrences(ModalitiesIn(documents)),
     outliers |-> Worst(AllOutliers(documents, distributions, options), documents, options)]
ValidBenchmark(options) ==
    /\ InUnit(options.rare) /\ InUnit(options.common) /\ ~Less(options.common, options.rare)
    /\ Less(Zero, options.madMultiplier)
    /\ options.minimumObservations > 0 /\ options.maximumOutliers > 0
BenchmarkPortfolio(documents, options) ==
    IF ~ValidBenchmark(options) \/ documents = <<>>
            \/ ~(\A d \in Range(documents) : ValidAnalysis(d.analysis))
            \/ Cardinality({d.id : d \in Range(documents)}) < Len(documents)
    THEN Refused
    ELSE Accepted(Benchmark(documents, EconomicDistributions(documents), options))
=============================================================================
