-------------------------- MODULE ContractPortfolio --------------------------
(***************************************************************************)
(* The contract commands on disk: fo-collection imports a directory,       *)
(* fo-contract-analyze writes one analysis a document, fo-contract-compare *)
(* loads them, benchmarks the portfolio and compares versions.  The three  *)
(* run at the same time, fail, die and are run again; a second import may  *)
(* replace the directory the others read.  Both contract commands also     *)
(* work on single files.                                                   *)
(*                                                                         *)
(* The digest of a file is its text's number; the file of an analysis is   *)
(* the text and the profile it was made from.                              *)
(***************************************************************************)
EXTENDS Collection, ContractComparison

CONSTANTS
    Contracts,                     \* sequence of texts
    Profiles,
    AnalysisChoices, CompareChoices,   \* limits somebody may give
    Sources,                   \* what may be imported: [files, rows, options]
    Scope,                     \* [family, maximum, profile] of the collection commands
    AnalysisOptions, CompareOptions, BenchmarkOptions,   \* their limits
    MaxFiles, MaxImports,
    Absent

\* Strings of the program are sequences of numbers here; whatever somebody
\* imports is well typed and finite.
Strings == Seq(Int)
FileTypes == [path : Int, kind : STRING, size : Int, listed : BOOLEAN, family : Int, date : Int,
              stem : Int, digest : Int]
RowTypes == [path : Int, id : Strings, family : Int, version : Int, date : Int,
             previous : Strings, amends : Strings, supersedes : Strings, related : SUBSET Strings]
ASSUME SourcesAssumption ==
    /\ IdLength \in Nat /\ Scope.maximum \in Nat
    /\ \A source \in Sources : /\ source.files \subseteq FileTypes /\ IsFiniteSet(source.files)
                              /\ source.rows \in Seq(RowTypes)

VARIABLES
    mode,        \* "files" or "collection": what the commands are used for
    singles,     \* analyses of single files: [text, profile, options, analysis]
    compared,    \* comparison of two of them: [options, answer]
    root,        \* the collection: [source, stored, collection, corpus]
    imports,     \* imports begun
    importing,   \* [source, state, left, step]
    analyses,    \* the analysis directory: [files, summary]
    analyzing,   \* [documents, read, written]
    report,      \* the report directory: [benchmark, files, summary]
    reporting    \* [manifest, documents, loaded, pairs, done]
singleVars == <<singles, compared>>
importVars == <<root, imports, importing>>
analysisVars == <<analyses, analyzing>>
reportVars == <<report, reporting>>
portfolioVars == <<mode, singleVars, importVars, analysisVars, reportVars>>

PortfolioInit ==
    /\ mode \in {"files", "collection"} /\ singles = <<>> /\ compared = Absent
    /\ root = Absent /\ imports = 0 /\ importing = Absent
    /\ analyses = Absent /\ analyzing = Absent /\ report = Absent /\ reporting = Absent
\* A directory, or what was read of one, with one more file.
Put(files, name, file) ==
    [n \in DOMAIN files \cup {name} |-> IF n = name THEN file ELSE files[n]]
-----------------------------------------------------------------------------
(* Commands on single files.                                               *)

SaveAnalysis(text, profile, options, answer) ==
    IF answer.accepted
    THEN singles' = Append(singles, [text |-> text, profile |-> profile, options |-> options,
                                 analysis |-> answer.value])
    ELSE UNCHANGED singles
AnalyzeDocument ==
    /\ mode = "files" /\ Len(singles) < MaxFiles
    /\ \E text \in Range(Contracts), profile \in Profiles, options \in AnalysisChoices :
        \E answer \in {AnalyzeContract(text, profile, options)} :
            SaveAnalysis(text, profile, options, answer)
    /\ UNCHANGED <<mode, compared, importVars, analysisVars, reportVars>>
ComparePair ==
    /\ mode = "files" /\ Len(singles) = 2 /\ compared = Absent
    /\ \E options \in CompareChoices :
        compared' = [options |-> options,
                     answer |-> CompareContracts(singles[1].analysis, singles[2].analysis, options)]
    /\ UNCHANGED <<mode, singles, importVars, analysisVars, reportVars>>
-----------------------------------------------------------------------------
(* fo-collection import.                                                   *)

NoFiles == <<>>
EmptyRoot(source) ==
    [source |-> source, stored |-> {}, collection |-> Absent, corpus |-> Absent]
Importable(source) == UniqueRows(source.rows) /\ Eligible(source.files, source.options) # <<>>
BeginImport ==
    /\ mode = "collection" /\ importing = Absent /\ imports < MaxImports
    /\ \E source \in Sources :
        /\ root # Absent => source.options.replace
        /\ root' = EmptyRoot(source)
        /\ importing' = IF Importable(source)
                        THEN [source |-> source, state |-> Started, step |-> "files",
                              left |-> Eligible(source.files, source.options)]
                        ELSE Absent
    /\ imports' = imports + 1
    /\ UNCHANGED <<mode, singleVars, analysisVars, reportVars>>

ImportStep ==
    ImportFile(importing.state, importing.left[1], importing.source.rows, importing.source.options)
NewlyStored(state) ==
    {[path |-> Last(state.documents).stored, digest |-> Last(state.documents).digest] :
        i \in (Len(importing.state.documents) + 1)..Len(state.documents)}
Overwriting(stored, new) == {s \in stored : \A n \in new : n.path # s.path} \cup new
ImportOne ==
    /\ importing # Absent /\ importing.step = "files" /\ importing.left # <<>>
    /\ \E state \in {ImportStep} :
        /\ importing' = IF state.failed THEN Absent
                        ELSE [importing EXCEPT !.state = state, !.left = Tail(@)]
        /\ root' = [root EXCEPT !.stored = Overwriting(@, NewlyStored(state))]
    /\ UNCHANGED <<mode, singleVars, imports, analysisVars, reportVars>>

Imported == ManifestOf(importing.state, importing.source.options)
SaveCollection ==
    /\ importing # Absent /\ importing.step = "files" /\ importing.left = <<>>
    /\ IF ValidManifest(Imported)
       THEN /\ root' = [root EXCEPT !.collection = Imported]
            /\ importing' = [importing EXCEPT !.step = "corpus"]
       ELSE importing' = Absent /\ UNCHANGED root
    /\ UNCHANGED <<mode, singleVars, imports, analysisVars, reportVars>>
SaveCorpus ==
    /\ importing # Absent /\ importing.step = "corpus"
    /\ root' = [root EXCEPT !.corpus = Imported] /\ importing' = Absent
    /\ UNCHANGED <<mode, singleVars, imports, analysisVars, reportVars>>
DieImporting ==
    /\ importing # Absent /\ importing' = Absent
    /\ UNCHANGED <<mode, singleVars, root, imports, analysisVars, reportVars>>
-----------------------------------------------------------------------------
(* fo-contract-analyze collection.                                         *)

VerifyCollection ==
    /\ root # Absent /\ root.collection # Absent /\ root.corpus # Absent
    /\ Verified(root.collection, root.corpus, root.stored)
InScope == Scoped(root.collection, Scope.family, Scope.maximum)
BeginAnalysis ==
    /\ analyzing = Absent /\ VerifyCollection /\ InScope # <<>> /\ analyses = Absent
    /\ analyzing' = [documents |-> InScope, read |-> NoFiles, written |-> 0]
    /\ analyses' = [files |-> NoFiles, summary |-> Absent]
    /\ UNCHANGED <<mode, singleVars, importVars, reportVars>>

\* The text the document's path leads to when it is read, 0 for none.
DigestAt(document) ==
    LET there == {s.digest : s \in {x \in root.stored : x.path = document.stored}}
    IN  IF there = {} THEN 0 ELSE CHOOSE d \in there : TRUE
Analyses == [d \in DOMAIN Contracts |-> AnalyzeContract(Contracts[d], Scope.profile, AnalysisOptions)]
Analysable(digest) == digest # 0 /\ Analyses[digest].accepted
ReadDocument(k) ==
    /\ analyzing # Absent /\ k \in DOMAIN analyzing.documents \ DOMAIN analyzing.read
    /\ analyzing' = [analyzing EXCEPT !.read = Put(@, k, DigestAt(analyzing.documents[k]))]
    /\ UNCHANGED <<mode, singleVars, importVars, analyses, reportVars>>
AllRead == DOMAIN analyzing.read = DOMAIN analyzing.documents
WriteAnalysis(k) ==
    /\ analyzing # Absent /\ AllRead /\ k = analyzing.written + 1
    /\ k \in DOMAIN analyzing.documents
    /\ analyzing' = [analyzing EXCEPT !.written = k]
    /\ analyses' = IF Analysable(analyzing.read[k])
                   THEN [analyses EXCEPT !.files =
                            Put(@, SafeName(analyzing.documents[k].id), analyzing.read[k])]
                   ELSE analyses
    /\ UNCHANGED <<mode, singleVars, importVars, reportVars>>
FinishAnalysis ==
    /\ analyzing # Absent /\ AllRead /\ analyzing.written = Len(analyzing.documents)
    /\ analyses' = [analyses EXCEPT !.summary =
                        {k \in DOMAIN analyzing.documents : Analysable(analyzing.read[k])}]
    /\ analyzing' = Absent
    /\ UNCHANGED <<mode, singleVars, importVars, reportVars>>
DieAnalyzing ==
    /\ analyzing # Absent /\ analyzing' = Absent
    /\ UNCHANGED <<mode, singleVars, importVars, analyses, reportVars>>
\* Somebody removes what a run that failed left behind.
RemoveAnalyses ==
    /\ analyses # Absent /\ analyses.summary = Absent /\ analyzing = Absent
    /\ analyses' = Absent
    /\ UNCHANGED <<mode, singleVars, importVars, analyzing, reportVars>>
-----------------------------------------------------------------------------
(* fo-contract-compare portfolio.                                          *)

BeginReport ==
    /\ reporting = Absent /\ VerifyCollection /\ report = Absent
    /\ report' = [benchmark |-> Absent, files |-> NoFiles, summary |-> Absent]
    /\ reporting' = IF InScope = <<>> THEN Absent
                    ELSE [manifest |-> root.collection, documents |-> InScope, loaded |-> <<>>,
                          pairs |-> ComparisonPairs(root.collection, InScope), done |-> 0]
    /\ UNCHANGED <<mode, singleVars, importVars, analysisVars>>

AnalysisFile == SafeName(reporting.documents[Len(reporting.loaded) + 1].id)
LoadAnalysis ==
    /\ reporting # Absent /\ Len(reporting.loaded) < Len(reporting.documents)
    /\ reporting' = IF analyses # Absent /\ AnalysisFile \in DOMAIN analyses.files
                    THEN [reporting EXCEPT !.loaded = Append(@, analyses.files[AnalysisFile])]
                    ELSE Absent
    /\ UNCHANGED <<mode, singleVars, importVars, analysisVars, report>>
AllLoaded == Len(reporting.loaded) = Len(reporting.documents)
Analysis(digest) == Analyses[digest].value
PortfolioInput(documents, loaded) ==
    [k \in DOMAIN documents |-> [id |-> documents[k].id, analysis |-> Analysis(loaded[k])]]
SaveBenchmark ==
    /\ reporting # Absent /\ AllLoaded /\ report.benchmark = Absent
    /\ report' = [report EXCEPT !.benchmark =
                    BenchmarkPortfolio(PortfolioInput(reporting.documents, reporting.loaded),
                                       BenchmarkOptions).value]
    /\ UNCHANGED <<mode, singleVars, importVars, analysisVars, reporting>>

LoadedOf(id) ==
    reporting.loaded[CHOOSE k \in DOMAIN reporting.documents : reporting.documents[k].id = id]
ReportName(pair) == <<pair.family, SafeName(pair.previous), SafeName(pair.current)>>
ComparisonFile(pair) ==
    [previous |-> pair.previous, current |-> pair.current, old |-> LoadedOf(pair.previous),
     new |-> LoadedOf(pair.current)]
CompareNext ==
    /\ reporting # Absent /\ AllLoaded /\ report.benchmark # Absent
    /\ reporting.done < Len(reporting.pairs)
    /\ \E pair \in {reporting.pairs[reporting.done + 1]} :
        IF CompareContracts(Analysis(LoadedOf(pair.previous)), Analysis(LoadedOf(pair.current)),
                            CompareOptions).accepted
        THEN /\ report' = [report EXCEPT !.files = Put(@, ReportName(pair), ComparisonFile(pair))]
             /\ reporting' = [reporting EXCEPT !.done = @ + 1]
        ELSE reporting' = Absent /\ UNCHANGED report
    /\ UNCHANGED <<mode, singleVars, importVars, analysisVars>>
SaveSummary ==
    /\ reporting # Absent /\ AllLoaded /\ report.benchmark # Absent
    /\ reporting.done = Len(reporting.pairs)
    /\ report' = [report EXCEPT !.summary = reporting.pairs] /\ reporting' = Absent
    /\ UNCHANGED <<mode, singleVars, importVars, analysisVars>>
DieReporting ==
    /\ reporting # Absent /\ reporting' = Absent
    /\ UNCHANGED <<mode, singleVars, importVars, analysisVars, report>>
RemoveReport ==
    /\ report # Absent /\ report.summary = Absent /\ reporting = Absent
    /\ report' = Absent
    /\ UNCHANGED <<mode, singleVars, importVars, analysisVars, reporting>>

PortfolioNext ==
    \/ AnalyzeDocument \/ ComparePair
    \/ BeginImport \/ ImportOne \/ SaveCollection \/ SaveCorpus \/ DieImporting
    \/ BeginAnalysis \/ FinishAnalysis \/ DieAnalyzing \/ RemoveAnalyses
    \/ \E k \in 1..Scope.maximum : ReadDocument(k) \/ WriteAnalysis(k)
    \/ BeginReport \/ LoadAnalysis \/ SaveBenchmark \/ CompareNext \/ SaveSummary
    \/ DieReporting \/ RemoveReport

PortfolioSpec == PortfolioInit /\ [][PortfolioNext]_portfolioVars
-----------------------------------------------------------------------------
(* Properties.                                                             *)

\* What analyze_contract says of a text (contracts.rs): clauses are disjoint
\* and in order, each record lies inside its clause and its words stand at
\* its place in the text; with limits that do not bind no word is in no
\* clause, an amount in a clause is one term, and the first modal of a
\* sentence that has a subject before it and an action after it is one
\* obligation.
Inside(r, clause) == clause.first =< r.first /\ r.first =< r.last /\ r.last =< clause.last
EndsWith(s, end) == Len(end) =< Len(s) /\ From(s, Len(s) - Len(end) + 1) = end
InPlace(text, a) ==
    /\ \A k \in DOMAIN a.clauses : Part(text, a.clauses[k]) = a.clauses[k].text
    /\ \A k \in 2..Len(a.clauses) : a.clauses[k - 1].last < a.clauses[k].first
    /\ \A r \in Range(a.definitions) \cup Range(a.obligations) \cup Range(a.terms) :
            Inside(r, a.clauses[r.clause])
    /\ \A d \in Range(a.definitions) : EndsWith(Part(text, d), d.definition)
    /\ \A o \in Range(a.obligations) :
            Part(text, o) = o.sentence /\ EndsWith(o.sentence, o.subject \o o.modality \o o.action)
    /\ \A t \in Range(a.terms) : Part(text, t) = t.raw
Helpers == {"shall", "must", "may", "will", "should"}
IsWord(symbol) == symbol \notin Marks \cup {NL}
\* The first helper of its sentence, between two words of one clause.
Obliges(text, clause, i) ==
    /\ text[i] \in Helpers /\ i > clause.first /\ i < clause.last
    /\ IsWord(text[i - 1]) /\ IsWord(text[i + 1])
    /\ \A j \in clause.first..(i - 1) :
            text[j] \in Helpers => \E k \in j..i : text[k] \in Ends
Spanning(records, i) == {r \in Range(records) : r.first =< i /\ i =< r.last}
Whole(text, a, options) ==
    /\ options.minimumSize = 1 /\ options.maximumSize >= Len(text) =>
            \A i \in DOMAIN text : IsWord(text[i]) => Spanning(a.clauses, i) # {}
    /\ Len(a.terms) < options.maximumTerms =>
            \A c \in Range(a.clauses) : \A i \in c.first..c.last :
                text[i] \in Amounts \cup Percents =>
                    Cardinality({t \in Spanning(a.terms, i) : t.first = t.last}) = 1
    /\ Len(a.obligations) < options.maximumObligations =>
            \A c \in Range(a.clauses) : \A i \in c.first..c.last :
                Obliges(text, c, i) => Cardinality(Spanning(a.obligations, i)) = 1
ContractsAreWhole ==
    \A f \in Range(singles) : InPlace(f.text, f.analysis) /\ Whole(f.text, f.analysis, f.options)

\* A comparison (contract_diff.rs): every clause and obligation of the current
\* version is in one change, one of the previous version in at most one, and
\* in none only if some change took the clause it fits best; the alerts are
\* the material changes, the gravest first; and a contract whose clauses are
\* all different has not changed against itself.
Sided(changes, side, i) == {k \in DOMAIN changes : changes[k][side] = i}
OnceEach(changes, things, side) ==
    \A x \in Range(things) :
        Cardinality({i \in DOMAIN changes : changes[i][side] = <<x>>}) = 1
Material(answer) ==
    Len(Alarming(answer.clauses, Ratio(35, 100))) + Len(Alarming(answer.definitions, Ratio(45, 100)))
    + Len(Alarming(answer.obligations, Ratio(40, 100)))
    + Len(Alarming(answer.economics, Ratio(35, 100)))
Distinct(clauses, options) ==
    \A j, k \in DOMAIN clauses :
        TextSimilarity(clauses[j].text, clauses[k].text, options) = One => j = k
Balanced(previous, current, answer, options) ==
    /\ \A i \in DOMAIN current.clauses : Cardinality(Sided(answer.clauses, "current", i)) = 1
    /\ \A i \in DOMAIN previous.clauses :
            /\ Cardinality(Sided(answer.clauses, "previous", i)) =< 1
            /\ Sided(answer.clauses, "previous", i) = {} =>
                    \E p \in ClausePairs(previous.clauses, current.clauses, options) :
                        /\ p.previous = i
                        /\ \A k \in Sided(answer.clauses, "current", p.current) :
                                answer.clauses[k].previous \notin {i, Nowhere}
    /\ OnceEach(answer.obligations, current.obligations, "current")
    /\ OnceEach(answer.economics, current.terms, "current")
    /\ Len(answer.alerts) = Smaller(Material(answer), options.maximumAlerts)
    /\ \A k \in 2..Len(answer.alerts) : ~Less(answer.alerts[k - 1].severity, answer.alerts[k].severity)
    /\ previous = current /\ Distinct(current.clauses, options) =>
            /\ \A c \in Range(answer.clauses) : c.kind = "unchanged" /\ c.previous = c.current
            /\ answer.similarity = One
ComparisonsBalance ==
    compared # Absent /\ compared.answer.accepted =>
        Balanced(singles[1].analysis, singles[2].analysis, compared.answer.value, compared.options)

\* docs/CONTRACT_VERSION_PORTFOLIO_INTELLIGENCE.md: the comparison reports the
\* unchanged, moved, revised, added and removed clauses, hence every clause of
\* the previous version.
EveryClauseIsReported ==
    compared # Absent /\ compared.answer.accepted =>
        \A i \in DOMAIN singles[1].analysis.clauses :
            Sided(compared.answer.value.clauses, "previous", i) # {}

\* The benchmark (contract_diff.rs:1233-1400).  Whatever the values of a kind are -
\* few, equal, several of one document -, no more than half of them lie on
\* either side of the median that is reported, and of their distances on either
\* side of the deviation; equal values stand out alike, and none between two
\* that do not; with a multiplier above one at most half stand out; and where
\* most agree on a value, just those stand out that differ from it by the
\* multiple of its twentieth, however often other values are repeated.
Loaded == PortfolioInput(reporting.documents, reporting.loaded)
Middle(middle, values) ==
    /\ 2 * Len(SelectSeq(values, LAMBDA v : Less(v, middle))) =< Len(values)
    /\ 2 * Len(SelectSeq(values, LAMBDA v : Less(middle, v))) =< Len(values)
Majority(values, v) == 2 * Len(SelectSeq(values, LAMBDA w : w = v)) > Len(values)
Twentieth(v) == Over(IF Less(Magnitude(v), One) THEN One ELSE Magnitude(v), Exact(20))
FarFrom(v, values, options) ==
    {w \in Range(values) : /\ Len(values) >= options.minimumObservations
                           /\ ~Less(Magnitude(Minus(w, v)), Times(options.madMultiplier, Twentieth(v)))}
Robust(values, listed, distribution, options) ==
    LET far == {Exact(o.value) : o \in Range(listed)}
    IN  /\ Middle(distribution.median, values)
        /\ Middle(distribution.deviation,
                  MappedSeq(values, LAMBDA v : Magnitude(Minus(v, distribution.median))))
        /\ Len(listed) = Len(SelectSeq(values, LAMBDA v : v \in far))
        /\ \A v, w \in Range(values) \ far : \A x \in far : Less(x, v) = Less(x, w)
        /\ Less(One, options.madMultiplier) => 2 * Len(listed) =< Len(values)
        /\ \A v \in Range(values) : Majority(values, v) => far = FarFrom(v, values, options)
OutliersOf(kind) ==
    SelectSeq(report.benchmark.outliers, LAMBDA o : o.code = 1 /\ o.kind = kind)
OutliersStandOut ==
    reporting # Absent /\ report.benchmark # Absent
            /\ Len(report.benchmark.outliers) < BenchmarkOptions.maximumOutliers =>
        \A d \in report.benchmark.distributions :
            Robust(ObservedValues(Loaded, d.kind), OutliersOf(d.kind), d, BenchmarkOptions)

\* The three commands together (collection.rs, fo-contract-analyze.rs,
\* fo-contract-compare.rs): a directory that verifies is one whole import,
\* whatever died before; a report with a summary has compared each two
\* adjacent versions of its scope once, the older as the previous one, and
\* the analyses it used are those of the documents' own texts, unless two
\* names fall together or the directory was replaced in between.
WholeImport(source) ==
    FoldLeft(LAMBDA state, f : ImportFile(state, f, source.rows, source.options), Started,
             Eligible(source.files, source.options))
SafeNamesDiffer(documents) ==
    \A d, e \in Range(documents) : SafeName(d.id) = SafeName(e.id) => d = e
TimesListed(pairs, pair) == Cardinality({k \in DOMAIN pairs : pairs[k] = pair})
OwnTexts(file) ==
    /\ \E d \in Range(InScope) : d.id = file.previous /\ d.digest = file.old
    /\ \E d \in Range(InScope) : d.id = file.current /\ d.digest = file.new
PipelineIsWhole ==
    /\ importing = Absent /\ VerifyCollection =>
            /\ root.collection = ManifestOf(WholeImport(root.source), root.source.options)
            /\ IdsOf(root.collection.documents) = IdsOf(WholeImport(root.source).documents)
    /\ report # Absent /\ report.summary # Absent /\ imports = 1 =>
            /\ \A p \in AdjacentPairs(InScope) : TimesListed(report.summary, p) = 1
            /\ SafeNamesDiffer(InScope) =>
                    /\ \A p \in Range(report.summary) : ReportName(p) \in DOMAIN report.files
                    /\ Cardinality(DOMAIN report.files) = Len(report.summary)
                    /\ \A n \in DOMAIN report.files : OwnTexts(report.files[n])
=============================================================================
