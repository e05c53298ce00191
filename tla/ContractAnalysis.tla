--------------------------- MODULE ContractAnalysis ---------------------------
(***************************************************************************)
(* What fo-core/src/contracts.rs extracts from the text of a contract:     *)
(* clauses with their kinds, defined terms, obligations, economic terms    *)
(* and warnings, each with the place it was found at.                      *)
(*                                                                         *)
(* A text is a sequence of words and marks.  A mark is written right after *)
(* the word before it, words are separated by blanks, NL ends a line.      *)
(* Letters are lower case already; each phrase the program looks for is a  *)
(* word or a few.  Sizes are numbers of words and marks, scores hundredths.*)
(***************************************************************************)
EXTENDS Basics

CONSTANTS
    Numerals, Amounts, Percents,   \* words that are numbers, "$" and "%" ones
    ValueOf,                         \* the number such a word says
    Capitals,                      \* words in capital letters
    LongestHeading, LongestLabel,  \* words of a heading, of one that ends in ":"
    ShortestSentence,
    Before, After                  \* the context of a term reaches this far

NL == "NL"
Ends == {".", ";", NL}
Marks == {".", ",", ";", ":"}
Span(first, last) == [first |-> first, last |-> last]
Size(span) == span.last - span.first + 1
Part(text, span) == SubSeq(text, span.first, span.last)
From(text, i) == SubSeq(text, i, Len(text))
Trimmed(text, span) ==
    LET inked == {i \in span.first..span.last : text[i] # NL}
    IN  IF inked = {} THEN Span(span.first, span.first - 1) ELSE Span(Min(inked), Max(inked))
WordsIn(text) == Range(text) \ (Marks \cup {NL})
BeforeFirst(text, marks) ==
    Take(text, Min({i \in DOMAIN text : text[i] \in marks} \cup {Len(text) + 1}) - 1)
AfterLast(text, marks) ==
    From(text, Max({i \in DOMAIN text : text[i] \in marks} \cup {0}) + 1)
-----------------------------------------------------------------------------
(* Clauses.                                                                *)

LineStarts(text) == {i \in DOMAIN text : i = 1 \/ text[i - 1] = NL}
LineAt(text, i) == BeforeFirst(From(text, i), {NL})
Numbered(line) == line[1] \in Numerals /\ WordsIn(line) \ Numerals # {}
InCapitals(line) ==
    LET words == SelectSeq(line, LAMBDA w : w \notin Marks \cup Numerals)
    IN  words # <<>> /\ 4 * Len(SelectSeq(words, LAMBDA w : w \in Capitals)) >= 3 * Len(words)
Openers == {"article", "section", "schedule", "exhibit", "appendix"}
ProfileWords(profile) ==
    CASE profile = "lease" -> {<<"base", "rent">>, <<"permitted", "use">>}
      [] profile = "services" -> {<<"acceptance">>, <<"deliverables">>}
      [] profile = "nda" -> {<<"exclusions">>, <<"residuals">>}
      [] OTHER -> {<<"definitions">>, <<"notices">>}
IsHeading(line, profile) ==
    /\ line # <<>> /\ Len(line) =< LongestHeading
    /\ \/ line[1] \in Openers /\ Len(line) > 1 /\ line[2] \notin Marks
       \/ Numbered(line) \/ InCapitals(line) \/ line \in ProfileWords(profile)
       \/ Last(line) = ":" /\ Len(line) =< LongestLabel + 1
CleanHeading(line) ==
    LET label == IF Last(line) = ":" THEN Front(line) ELSE line
        lettered == {i \in DOMAIN label : label[i] \notin Numerals \cup {"."}}
    IN  IF lettered = {} THEN label ELSE From(label, Min(lettered))

SectionStart(first, heading) == [first |-> first, heading |-> heading]
HeadingStarts(text, profile, options) ==
    Truncate(MappedSeq(Ascending({i \in LineStarts(text) : IsHeading(LineAt(text, i), profile)}),
                       LAMBDA i : SectionStart(i, CleanHeading(LineAt(text, i)))),
             options.maximumClauses)
WithPreamble(text, starts, options) ==
    CASE starts = <<>> -> <<SectionStart(1, <<"document">>)>>
      [] starts # <<>> /\ Size(Trimmed(text, Span(1, starts[1].first - 1))) >= options.minimumSize
            -> <<SectionStart(1, <<"preamble">>)>> \o starts
      [] OTHER -> starts
Section(text, starts, k, options) ==
    LET last == IF k < Len(starts) THEN starts[k + 1].first - 1 ELSE Len(text)
    IN  Trimmed(text, Span(starts[k].first,
                           Smaller(last, starts[k].first + options.maximumSize - 1)))
Clause(text, heading, span) ==
    [heading |-> heading, first |-> span.first, last |-> span.last, text |-> Part(text, span)]
LongSections(text, starts, options) ==
    SelectSeq(CountUp(Len(starts)), LAMBDA k : Size(Section(text, starts, k, options))
                                                    >= options.minimumSize)
ClausesFrom(text, starts, options) ==
    IF LongSections(text, starts, options) = <<>>
    THEN <<Clause(text, <<"document">>, Span(1, Len(text)))>>
    ELSE MappedSeq(LongSections(text, starts, options), LAMBDA k :
                Clause(text, starts[k].heading, Section(text, starts, k, options)))
SegmentContract(text, profile, options) ==
    ClausesFrom(text, WithPreamble(text, HeadingStarts(text, profile, options), options), options)
-----------------------------------------------------------------------------
(* Kinds of clauses: some of the program's rules for every profile.        *)

Unclassified == "unclassified"
Rule(kind, heading, body) == [kind |-> kind, heading |-> heading, body |-> body]
GeneralRules ==
    <<Rule("definitions", {"definitions"}, {"means", "defined"}),
      Rule("term", {"term", "duration"}, {"commence", "expire", "effective"}),
      Rule("payment", {"payment"}, {"pay", "net", "late"}),
      Rule("liability", {"liability"}, {"exceed", "damages", "aggregate"}),
      Rule("termination", {"termination", "default"}, {"terminate", "breach", "cure"})>>
RetailLeaseRules ==
    <<Rule("premises", {"premises"}, {"premises", "feet"}),
      Rule("base_rent", {"rent"}, {"rent", "minimum", "annual"})>>
ProfessionalServicesRules ==
    <<Rule("scope", {"scope", "services"}, {"services", "work", "scope"})>>
NdaRules ==
    <<Rule("confidential_information", {"information"}, {"confidential", "designated"}),
      Rule("use_restrictions", {"use"}, {"solely", "purpose"})>>
ClassificationRules(profile) ==
    GeneralRules \o CASE profile = "lease" -> RetailLeaseRules
                      [] profile = "services" -> ProfessionalServicesRules
                      [] profile = "nda" -> NdaRules
                      [] OTHER -> <<>>
RequiredClauseKinds(profile) ==
    CASE profile = "lease" -> <<"premises", "term", "base_rent">>
      [] profile = "services" -> <<"scope", "payment", "termination">>
      [] profile = "nda" -> <<"confidential_information", "use_restrictions", "term">>
      [] OTHER -> <<"term", "payment", "termination">>

\* The order the kinds are declared in.
Kinds == <<"definitions", "term", "payment", "liability", "termination", "premises", "base_rent",
           "scope", "confidential_information", "use_restrictions", Unclassified>>
KindIndex(kind) == CHOOSE k \in DOMAIN Kinds : Kinds[k] = kind
RuleScore(rule, clause) ==
    (IF rule.heading \cap Range(clause.heading) # {} THEN 72 ELSE 0)
        + Smaller(42, 12 * Smaller(4, Cardinality(rule.body \cap Range(clause.text))))
Classification(kind, score) == [kind |-> kind, confidence |-> Smaller(score, 100)]
Matches(clause, profile) ==
    {Classification(r.kind, RuleScore(r, clause)) :
        r \in {x \in Range(ClassificationRules(profile)) : RuleScore(x, clause) >= 30}}
ClassifyClause(clause, profile, options) ==
    IF Matches(clause, profile) = {} THEN <<Classification(Unclassified, 0)>>
    ELSE Truncate(Ordered(Matches(clause, profile), LAMBDA m : <<-m.confidence, KindIndex(m.kind)>>),
                  options.maximumKinds)
PrimaryKind(clause) == clause.kinds[1].kind
Classified(clauses, profile, options) ==
    [k \in DOMAIN clauses |->
        [index |-> k, heading |-> clauses[k].heading, first |-> clauses[k].first,
         last |-> clauses[k].last, text |-> clauses[k].text,
         kinds |-> ClassifyClause(clauses[k], profile, options)]]
-----------------------------------------------------------------------------
(* Sentences, and phrases in them.                                         *)

SentenceEnds(text) == {i \in DOMAIN text : text[i] \in Ends} \cup {Len(text)}
SentenceSpan(text, end) ==
    Trimmed(text, Span(Max({i \in SentenceEnds(text) : i < end} \cup {0}) + 1, end))
Sentences(text) ==
    SelectSeq(MappedSeq(Ascending(SentenceEnds(text)), LAMBDA i : SentenceSpan(text, i)),
              LAMBDA s : Size(s) >= ShortestSentence)

At(text, phrase, i) ==
    /\ i + Len(phrase) - 1 =< Len(text)
    /\ \A j \in DOMAIN phrase : text[i + j - 1] = phrase[j]
Places(text, phrase) == {i \in DOMAIN text : At(text, phrase, i)}
\* A phrase with a blank after it, and one with blanks on both sides.
Followed(text, phrase) ==
    {i \in Places(text, phrase) : i + Len(phrase) =< Len(text) /\ text[i + Len(phrase)] \notin Marks}
Spaced(text, phrase) == Followed(text, phrase) \ {1}
\* The earliest of some phrases, the first of them if two begin there.
Found(text, phrases) ==
    UNION {{<<i, k>> : i \in Spaced(text, phrases[k])} : k \in DOMAIN phrases}
Earliest(found) == CHOOSE f \in found : \A g \in found : ~Precedes(g, f)

InClauses(clauses, Extract(_, _)) ==
    Concat(MappedSeq(clauses, LAMBDA c : Concat(MappedSeq(Sentences(c.text), LAMBDA s :
        Extract(c, s)))))
-----------------------------------------------------------------------------
(* Defined terms.                                                          *)

Markers == <<<<"shall", "mean">>, <<"means">>, <<"has", "the", "meaning">>>>
DefinedTerm(clause, span, sentence, found) ==
    LET term == AfterLast(Take(sentence, found[1] - 1), {".", ";", ":"})
    IN  IF term = <<>> THEN <<>>
        ELSE <<[term |-> term, clause |-> clause.index,
                definition |-> From(sentence, found[1] + Len(Markers[found[2]])),
                first |-> clause.first + span.first - 1, last |-> clause.first + span.last - 1]>>
DefinitionIn(clause, span) ==
    LET sentence == Part(clause.text, span)
    IN  IF Found(sentence, Markers) = {} THEN <<>>
        ELSE DefinedTerm(clause, span, sentence, Earliest(Found(sentence, Markers)))
FirstOfTerm(definitions) ==
    SelectSeq(CountUp(Len(definitions)), LAMBDA i :
        \A j \in 1..(i - 1) : definitions[j].term # definitions[i].term)
ExtractDefinitions(clauses, options) ==
    LET all == InClauses(clauses, DefinitionIn)
    IN  Truncate(MappedSeq(FirstOfTerm(all), LAMBDA i : all[i]), options.maximumDefinitions)
-----------------------------------------------------------------------------
(* Obligations.                                                            *)

Modalities == <<<<"shall", "not">>, <<"must", "not">>, <<"may", "not">>, <<"shall">>, <<"must">>,
                <<"will">>, <<"should">>, <<"may">>>>
TriggerMarkers == <<<<"subject", "to">>, <<"upon">>, <<"if">>>>
DeadlineMarkers == <<<<"within">>, <<"at", "least">>>>
RemedyMarkers == <<<<"terminate">>, <<"damages">>, <<"cure">>>>
Units == {"day", "days", "month", "months", "year", "years"}

ExtractTrigger(sentence) ==
    LET present == SelectSeq(TriggerMarkers, LAMBDA m : Followed(sentence, m) # {})
    IN  IF present = <<>> THEN <<>>
        ELSE BeforeFirst(From(sentence, Min(Followed(sentence, present[1]))), {",", ";"})
DeadlineAt(sentence, marker) ==
    BeforeFirst(From(sentence, Min(Followed(sentence, marker))), {",", ";", "."})
ExtractDeadline(sentence) ==
    LET present == SelectSeq(DeadlineMarkers, LAMBDA m :
            Followed(sentence, m) # {} /\ Range(DeadlineAt(sentence, m)) \cap Units # {})
    IN  IF present = <<>> THEN <<>> ELSE DeadlineAt(sentence, present[1])
ExtractRemedy(sentence) ==
    LET present == SelectSeq(RemedyMarkers, LAMBDA m : Places(sentence, m) # {})
    IN  IF present = <<>> THEN <<>>
        ELSE BeforeFirst(From(sentence, Min(Places(sentence, present[1]))), {",", ";", "."})

\* Mutated: the place within the clause instead of the one in the text.
ObligationInClause(clause, span, sentence, found) ==
    LET subject == AfterLast(Take(sentence, found[1] - 1), {",", ";", ":"})
    IN  IF subject = <<>> THEN <<>>
        ELSE <<[clause |-> clause.index, subject |-> subject, modality |-> Modalities[found[2]],
                action |-> From(sentence, found[1] + Len(Modalities[found[2]])),
                trigger |-> ExtractTrigger(sentence), deadline |-> ExtractDeadline(sentence),
                remedy |-> ExtractRemedy(sentence), sentence |-> sentence,
                first |-> span.first, last |-> span.last]>>
Obligation(clause, span, sentence, found) ==
    LET subject == AfterLast(Take(sentence, found[1] - 1), {",", ";", ":"})
    IN  IF subject = <<>> THEN <<>>
        ELSE <<[clause |-> clause.index, subject |-> subject, modality |-> Modalities[found[2]],
                action |-> From(sentence, found[1] + Len(Modalities[found[2]])),
                trigger |-> ExtractTrigger(sentence), deadline |-> ExtractDeadline(sentence),
                remedy |-> ExtractRemedy(sentence), sentence |-> sentence,
                first |-> clause.first + span.first - 1, last |-> clause.first + span.last - 1]>>
ObligationIn(clause, span) ==
    LET sentence == Part(clause.text, span)
    IN  IF Found(sentence, Modalities) = {} THEN <<>>
        ELSE Obligation(clause, span, sentence, Earliest(Found(sentence, Modalities)))
ExtractObligations(clauses, options) ==
    Truncate(InClauses(clauses, ObligationIn), options.maximumObligations)
-----------------------------------------------------------------------------
(* Economic terms.                                                         *)

Context(text, first, last) ==
    WordsIn(SubSeq(text, Larger(1, first - Before), Smaller(Len(text), last + After)))
\* The first row of a table all of whose needs a context has.
KindBy(context, table, otherwise) ==
    LET rows == SelectSeq(table, LAMBDA r : \A n \in r.needs : n \cap context # {})
    IN  IF rows = <<>> THEN otherwise ELSE rows[1].kind
Row(needs, kind) == [needs |-> needs, kind |-> kind]
RefineMoneyKind(context) ==
    KindBy(context, <<Row({{"rent"}}, "base_rent"), Row({{"deposit"}}, "security_deposit"),
                      Row({{"liability"}, {"cap", "exceed"}}, "liability_cap")>>, "money")
ClassifyPercentage(context) ==
    KindBy(context, <<Row({{"sales"}}, "percentage_rent"), Row({{"increase"}}, "rent_escalation"),
                      Row({{"interest", "late"}}, "interest_rate")>>, "percentage")
ClassifyDuration(context) ==
    KindBy(context, <<Row({{"notice"}}, "notice_period"), Row({{"renewal", "extend"}}, "renewal"),
                      Row({{"invoice", "pay"}}, "payment_term")>>, "duration")

EconomicTerm(source, clause, first, last, kind, value, unit, currency) ==
    [kind |-> kind, clause |-> clause.index, raw |-> SubSeq(clause.text, first, last),
     first |-> clause.first + first - 1, last |-> clause.first + last - 1, value |-> value,
     unit |-> unit, currency |-> currency,
     context |-> Context(source, clause.first + first - 1, clause.first + last - 1)]
MoneyOrPercentage(source, clause, i) ==
    IF clause.text[i] \in Amounts
    THEN EconomicTerm(source, clause, i, i,
            RefineMoneyKind(Context(source, clause.first + i - 1, clause.first + i - 1)),
            ValueOf[clause.text[i]], "currency", "usd")
    ELSE EconomicTerm(source, clause, i, i, ClassifyPercentage(Context(clause.text, i, i)),
            ValueOf[clause.text[i]], "percent", "none")
ScanMoneyAndPercentages(source, clause) ==
    MappedSeq(Ascending({i \in DOMAIN clause.text : clause.text[i] \in Amounts \cup Percents}),
              LAMBDA i : MoneyOrPercentage(source, clause, i))

\* Neighbours among the words; a point or comma after a word is part of it.
Neighbours(text) ==
    LET words == Ascending({i \in DOMAIN text : text[i] \notin Marks \cup {NL}})
    IN  [k \in 1..(Len(words) - 1) |-> Span(words[k], words[k + 1])]
Glued(text, i, marks) == i < Len(text) /\ text[i + 1] \in marks
IsDuration(text, w) ==
    /\ text[w.first] \in Numerals \cup Amounts
    /\ text[w.last] \in Units /\ ~Glued(text, w.last, {".", ","})
IsNet(text, w) ==
    /\ text[w.first] = "net" /\ ~Glued(text, w.first, {".", ","})
    /\ text[w.last] \in Numerals /\ ~Glued(text, w.last, {","})
UnitOf(word) ==
    CASE word \in {"day", "days"} -> "day" [] word \in {"month", "months"} -> "month"
      [] OTHER -> "year"
ScanNumberUnits(source, clause) ==
    MappedSeq(SelectSeq(Neighbours(clause.text), LAMBDA w : IsDuration(clause.text, w)), LAMBDA w :
        EconomicTerm(source, clause, w.first, w.last,
            ClassifyDuration(Context(clause.text, w.first, w.last)),
            ValueOf[clause.text[w.first]], UnitOf(clause.text[w.last]), "none"))
    \o
    MappedSeq(SelectSeq(Neighbours(clause.text), LAMBDA w : IsNet(clause.text, w)), LAMBDA w :
        EconomicTerm(source, clause, w.first, w.last, "payment_term",
                     ValueOf[clause.text[w.last]], "day", "none"))
\* In the order of the text, unless there are too many.
ExtractEconomicTerms(source, clauses, options) ==
    LET all == Concat(MappedSeq(clauses, LAMBDA c :
                    ScanMoneyAndPercentages(source, c) \o ScanNumberUnits(source, c)))
    IN  IF Len(all) >= options.maximumTerms THEN Truncate(all, options.maximumTerms)
        ELSE Ordered(Range(all), LAMBDA t : <<t.first, t.last>>)
-----------------------------------------------------------------------------
(* The whole analysis.                                                     *)

Present(clauses) == UNION {{k.kind : k \in Range(c.kinds)} : c \in Range(clauses)}
BuildWarnings(profile, clauses, terms) ==
    MappedSeq(SelectSeq(RequiredClauseKinds(profile), LAMBDA k : k \notin Present(clauses)),
              LAMBDA k : <<"missing_expected_clause", k>>)
    \o IF profile = "lease" /\ \A t \in Range(terms) : t.kind # "base_rent"
       THEN <<<<"base_rent_not_extracted", "base_rent">>>> ELSE <<>>
Analysed(text, profile, clauses, terms, options) ==
    [profile |-> profile, size |-> Len(text), clauses |-> clauses,
     definitions |-> ExtractDefinitions(clauses, options),
     obligations |-> ExtractObligations(clauses, options), terms |-> terms,
     warnings |-> BuildWarnings(profile, clauses, terms)]
AnalyzeClauses(text, profile, clauses, options) ==
    Analysed(text, profile, clauses, ExtractEconomicTerms(text, clauses, options), options)
ValidLimits(options) ==
    /\ options.minimumSize \in 1..options.maximumSize /\ options.maximumKinds \in 1..32
    /\ \A n \in {options.maximumClauses, options.maximumDefinitions, options.maximumObligations,
                options.maximumTerms} : n > 0
AnalyzeContract(text, profile, options) ==
    IF ~ValidLimits(options) \/ Range(text) \subseteq {NL} THEN Refused
    ELSE Accepted(AnalyzeClauses(text, profile,
                    Classified(SegmentContract(text, profile, options), profile, options), options))
=============================================================================
