------------------------------ MODULE SecFacts ------------------------------
(***************************************************************************)
(* fo-sec-facts: company facts are fetched into a directory of raw and     *)
(* normalized files with a manifest, verified and analysed (sec_facts.rs). *)
(* One fetch and one analysis may run at the same time; both may fail or   *)
(* die between any two file operations and be run again.                   *)
(*                                                                         *)
(* A raw file is the number of the response it holds; a normalized file    *)
(* is that and the fetch that wrote it, since it holds the time.  Digests  *)
(* are compared by content, lengths by the lengths of the response.        *)
(***************************************************************************)
EXTENDS FactSeries

CONSTANTS
    Ciks,            \* companies, as numbers
    Listings,        \* the ticker file: set of [ticker, cik]
    Responses,       \* what the server may give for a company: a sequence of
                     \* [cik, readable, sound, length, observations]
    FetchRequests,   \* [tickers, ciks, sample, overwrite]
    AnalysisRequests, \* [ciks, replace, options]
    MixedOrder,      \* companies in the order of stable_mix
    MaxFetches, MaxAnalyses,
    None

VARIABLES
    dir,        \* [raw, normalized, manifest]
    fetches,    \* fetches begun
    fetch,      \* [todo, overwrite, manifest, step, response, done]
    fetched,    \* history: what the last fetch reported, if it came to its end
    output,     \* the analysis directory: [files, summary]
    analyses,   \* analyses begun
    analysis    \* [request, manifest, todo, step, done]
fetchVars == <<dir, fetches, fetch, fetched>>
analysisVars == <<output, analyses, analysis>>
vars == <<fetchVars, analysisVars>>

NoFiles == [c \in Ciks |-> None]
Idle == [step |-> "idle"]
Init ==
    /\ dir = [raw |-> NoFiles, normalized |-> NoFiles, manifest |-> None]
    /\ fetches = 0 /\ fetch = Idle /\ fetched = None
    /\ output = None /\ analyses = 0 /\ analysis = Idle
-----------------------------------------------------------------------------
(* Fetching.                                                               *)

\* Companies by ticker and by number, or a sample, in ascending order.
Listed(manifest) == {c \in Ciks : manifest[c] # None}
CikOf(ticker) == (CHOOSE l \in Listings : l.ticker = ticker).cik
Known(request) == request.tickers \subseteq {l.ticker : l \in Listings}
Named(request) == {CikOf(t) : t \in request.tickers} \cup request.ciks
Sampled(n) == Range(Take(SelectSeq(MixedOrder, LAMBDA c : c \in {l.cik : l \in Listings}), n))
SelectCompanies(request) ==
    Ascending(IF Named(request) # {} THEN Named(request) ELSE Sampled(request.sample))

LoadOrNew == IF dir.manifest = None THEN NoFiles ELSE dir.manifest
StartFetch ==
    /\ fetch = Idle /\ fetches < MaxFetches
    /\ \E request \in {r \in FetchRequests : Known(r)} :
        fetch' = [step |-> "next", todo |-> SelectCompanies(request),
                  overwrite |-> request.overwrite, manifest |-> LoadOrNew, response |-> 0,
                  selected |-> Range(SelectCompanies(request)), failed |-> {}, downloaded |-> {}]
    /\ fetches' = fetches + 1 /\ fetched' = None
    /\ UNCHANGED <<dir, analysisVars>>
FetchGoesOn == UNCHANGED <<fetches, fetched, analysisVars>>

Company == Head(fetch.todo)
Response == Responses[Company][fetch.response]
Length(c, r) == Responses[c][r].length
\* Both files are there and as long as the manifest says.
Reusable ==
    /\ ~fetch.overwrite
    /\ dir.raw[Company] # None /\ dir.normalized[Company] # None
    /\ fetch.manifest[Company] # None
    /\ Length(Company, dir.raw[Company]) = Length(Company, fetch.manifest[Company].raw)
    /\ Length(Company, dir.normalized[Company].response)
           = Length(Company, fetch.manifest[Company].normalized.response)
Reuse ==
    /\ fetch.step = "next" /\ fetch.todo # <<>> /\ Reusable
    /\ fetch' = [fetch EXCEPT !.todo = Tail(@)]
    /\ UNCHANGED dir /\ FetchGoesOn
\* No response, one that cannot be read, or one about another company.
FailCompany ==
    /\ fetch.step = "next" /\ fetch.todo # <<>> /\ ~Reusable
    /\ fetch' = [fetch EXCEPT !.todo = Tail(@), !.failed = @ \cup {Company}]
    /\ UNCHANGED dir /\ FetchGoesOn
Usable(c, r) == Responses[c][r].readable /\ Responses[c][r].cik = c
Receive ==
    /\ fetch.step = "next" /\ fetch.todo # <<>> /\ ~Reusable
    /\ \E r \in DOMAIN Responses[Company] :
        /\ Usable(Company, r)
        /\ fetch' = [fetch EXCEPT !.step = "raw", !.response = r]
    /\ UNCHANGED dir /\ FetchGoesOn

\* atomic_write removes the file that is there and renames the new one.
Goto(step) == fetch' = [fetch EXCEPT !.step = step]
RemoveRaw ==
    /\ fetch.step = "raw" /\ dir.raw[Company] # None
    /\ dir' = [dir EXCEPT !.raw[Company] = None]
    /\ UNCHANGED fetch /\ FetchGoesOn
WriteRaw ==
    /\ fetch.step = "raw" /\ dir.raw[Company] = None
    /\ dir' = [dir EXCEPT !.raw[Company] = fetch.response]
    /\ Goto("normalize") /\ FetchGoesOn
\* Facts that fail validation end the fetch, although the raw file is there.
Normalize ==
    /\ fetch.step = "normalize" /\ Response.sound
    /\ Goto("normalized")
    /\ UNCHANGED dir /\ FetchGoesOn
RemoveNormalized ==
    /\ fetch.step = "normalized" /\ dir.normalized[Company] # None
    /\ dir' = [dir EXCEPT !.normalized[Company] = None]
    /\ UNCHANGED fetch /\ FetchGoesOn
Normalized == [response |-> fetch.response, fetch |-> fetches]
\* Mutation: normalized facts of the same length are left as they are.
KeepNormalized ==
    /\ fetch.step = "normalized" /\ dir.normalized[Company] = None
    /\ dir' = [dir EXCEPT !.normalized[Company] =
                  IF fetch.manifest[Company] # None THEN fetch.manifest[Company].normalized
                  ELSE Normalized]
    /\ fetch' = [fetch EXCEPT !.step = "save", !.manifest[Company] =
                    [raw |-> fetch.response, normalized |-> dir'.normalized[Company]]]
    /\ FetchGoesOn
WriteNormalized ==
    /\ fetch.step = "normalized" /\ dir.normalized[Company] = None
    /\ dir' = [dir EXCEPT !.normalized[Company] = Normalized]
    /\ fetch' = [fetch EXCEPT !.step = "save", !.manifest[Company] =
                    [raw |-> fetch.response, normalized |-> Normalized]]
    /\ FetchGoesOn
RemoveManifest ==
    /\ fetch.step \in {"save", "finish"} /\ dir.manifest # None
    /\ dir' = [dir EXCEPT !.manifest = None]
    /\ UNCHANGED fetch /\ FetchGoesOn
SaveManifest ==
    /\ fetch.step = "save" /\ dir.manifest = None
    /\ dir' = [dir EXCEPT !.manifest = fetch.manifest]
    /\ fetch' = [fetch EXCEPT !.step = "next", !.todo = Tail(@), !.downloaded = @ \cup {Company}]
    /\ FetchGoesOn
FinishFetch ==
    /\ fetch.step = "next" /\ fetch.todo = <<>>
    /\ Goto("finish")
    /\ UNCHANGED dir /\ FetchGoesOn
SaveFinally ==
    /\ fetch.step = "finish" /\ dir.manifest = None
    /\ dir' = [dir EXCEPT !.manifest = fetch.manifest]
    /\ fetched' = [selected |-> fetch.selected, downloaded |-> fetch.downloaded,
                   failed |-> fetch.failed]
    /\ fetch' = Idle
    /\ UNCHANGED <<fetches, analysisVars>>
\* An error, or the process dies.
StopFetch ==
    /\ fetch # Idle
    /\ fetch' = Idle
    /\ UNCHANGED <<dir, fetches, fetched, analysisVars>>
Fetch ==
    \/ StartFetch \/ Reuse \/ FailCompany \/ Receive \/ RemoveRaw \/ WriteRaw \/ Normalize
    \/ RemoveNormalized \/ WriteNormalized \/ RemoveManifest \/ SaveManifest \/ FinishFetch
    \/ SaveFinally \/ StopFetch
-----------------------------------------------------------------------------
(* Verification and analysis.                                              *)

\* Duplicates, which differ in the fiscal year or period at most, are dropped.
Identity(o) ==
    <<o.concept, o.unit, o.value, o.start, o.end, o.accession, o.form, o.filed>>
NormalizeFacts(raw) ==
    {raw[i] @@ [id |-> i] : i \in {k \in DOMAIN raw :
        \A j \in 1..(k - 1) : Identity(raw[j]) # Identity(raw[k])}}
\* Facts of one of the files are not both there and those of the manifest.
Matches(c, record) == dir.raw[c] = record.raw /\ dir.normalized[c] = record.normalized

AnalysisGoesOn == UNCHANGED <<fetchVars, analyses>>
StartAnalysis ==
    /\ analysis = Idle /\ analyses < MaxAnalyses /\ dir.manifest # None
    /\ \E request \in AnalysisRequests :
        analysis' = [step |-> "verify", request |-> request, manifest |-> dir.manifest,
                     todo |-> Ascending(Listed(dir.manifest)), done |-> {}]
    /\ analyses' = analyses + 1
    /\ UNCHANGED <<fetchVars, output>>
VerifyCompany ==
    /\ analysis.step = "verify" /\ analysis.todo # <<>>
    /\ LET c == Head(analysis.todo)
       IN  analysis' = IF Matches(c, analysis.manifest[c])
                       THEN [analysis EXCEPT !.todo = Tail(@)] ELSE Idle
    /\ UNCHANGED output /\ AnalysisGoesOn
\* The directory of an earlier analysis is removed or refused before the
\* options are looked at; the manifest is read again, and may be away.
NoOutput == [files |-> NoFiles, summary |-> None]
Prepare ==
    /\ analysis.step = "verify" /\ analysis.todo = <<>>
    /\ IF output # None /\ ~analysis.request.replace
       THEN analysis' = Idle /\ UNCHANGED output
       ELSE /\ output' = NoOutput
            /\ analysis' = [analysis EXCEPT !.step = "manifest"]
    /\ AnalysisGoesOn
Chosen(c) == analysis.request.ciks = {} \/ c \in analysis.request.ciks
LoadManifest ==
    /\ analysis.step = "manifest"
    /\ analysis' = IF dir.manifest = None \/ ~ValidOptions(analysis.request.options) THEN Idle
                   ELSE [analysis EXCEPT !.step = "analyze", !.manifest = dir.manifest,
                            !.todo = SelectSeq(Ascending(Listed(dir.manifest)), Chosen)]
    /\ UNCHANGED output /\ AnalysisGoesOn
AnalysisOf(c, file, options) ==
    [source |-> file, options |-> options,
     analysis |-> AnalyzeFacts(NormalizeFacts(Responses[c][file.response].observations), options)]
AnalyzeCompany ==
    /\ analysis.step = "analyze" /\ analysis.todo # <<>>
    /\ LET c == Head(analysis.todo)
       IN  IF dir.normalized[c] = None
           THEN analysis' = Idle /\ UNCHANGED output
           ELSE /\ output' = [output EXCEPT !.files[c] =
                                 AnalysisOf(c, dir.normalized[c], analysis.request.options)]
                /\ analysis' = [analysis EXCEPT !.todo = Tail(@), !.done = @ \cup {c}]
    /\ AnalysisGoesOn
Summarize ==
    /\ analysis.step = "analyze" /\ analysis.todo = <<>>
    /\ output' = [output EXCEPT !.summary = analysis.done]
    /\ analysis' = Idle
    /\ AnalysisGoesOn
StopAnalysis ==
    /\ analysis # Idle
    /\ analysis' = Idle
    /\ UNCHANGED output /\ AnalysisGoesOn
Analyze ==
    \/ StartAnalysis \/ VerifyCompany \/ Prepare \/ LoadManifest \/ AnalyzeCompany
    \/ Summarize \/ StopAnalysis

Next == Fetch \/ Analyze
-----------------------------------------------------------------------------
(* Properties.                                                             *)

\* Receipts (fetch_sec_companyfacts, verify_sec_companyfacts): whatever a
\* fetch that died left behind, files that verify hold one response, about
\* the company they are filed under; a fetch that came to its end has listed
\* every company it did not report as failed, and what it downloaded verifies.
FetchReceipts ==
    /\ dir.manifest # None => \A c \in Listed(dir.manifest) :
        Matches(c, dir.manifest[c]) =>
            /\ dir.raw[c] = dir.normalized[c].response
            /\ Usable(c, dir.raw[c]) /\ Responses[c][dir.raw[c]].sound
    /\ fetched # None =>
        /\ fetched.selected \subseteq Listed(dir.manifest) \cup fetched.failed
        /\ \A c \in fetched.downloaded : Matches(c, dir.manifest[c])

\* Series (build_metric_series, combine_points, latest_delta): a point is the
\* value that was filed last for its period; a restatement ends at the value
\* of such a point and differs from the value it began with; a derived point
\* is computed from two points of one period and is as late as the later of
\* them; a change is to an earlier point of the same kind.
Mine(considered, s, m) ==
    {o \in considered : o.concept = <<m, s.alias>> /\ o.unit = s.unit /\ o.end # 0}
PointsAreLatest(considered, s, m) ==
    \A p \in Range(s.points) : \A o \in Mine(considered, s, m) :
        PeriodKey(Point(m, o)) = PeriodKey(p) =>
            
            ~Precedes(<<p.filed, p.accession>>, <<o.filed, o.accession>>)
RestatementsEndInPoints(s, options) ==
    \A r \in Range(s.restatements) :
        /\ r.earliest # r.latest
        /\ Len(s.points) < options.maximumPoints =>
            \E p \in Range(s.points) : PeriodOf(p) = r.period /\ p.value = r.latest
DerivedFromOnePeriod(series, d) ==
    d[1] \in DOMAIN series => \A p \in Range(series[d[1]].points) :
        \E l \in Range(series[d[3]].points), r \in Range(series[d[4]].points) :
            /\ p.from = <<l.id, r.id>> /\ PeriodOf(l) = PeriodOf(r) /\ PeriodOf(p) = PeriodOf(l)
            /\ p.value \in Combination(d[2], l.value, r.value)
            /\ p.filed = Larger(l.filed, r.filed)
DeltasLookBack(s) ==
    \A d \in s.delta : \E i \in 1..(Len(s.points) - 1) :
        /\ d.current = s.points[Len(s.points)] /\ d.previous = s.points[i]
        /\ d.previous.type = d.current.type /\ d.previous.end =< d.current.end
SeriesAreSound(considered, series, options) ==
    /\ \A m \in DOMAIN series :
        /\ m \notin Derived => PointsAreLatest(considered, series[m], m)
        /\ RestatementsEndInPoints(series[m], options) /\ DeltasLookBack(series[m])
    /\ \A d \in Range(Derivations) : DerivedFromOnePeriod(series, d)
SeriesTellTheHistory ==
    output # None =>
        /\ output.summary # None => \A c \in output.summary : output.files[c] # None
        /\ \A c \in Ciks : output.files[c] # None =>
            LET file == output.files[c]
                facts == NormalizeFacts(Responses[c][file.source.response].observations)
            IN  /\ Usable(c, file.source.response) /\ Responses[c][file.source.response].sound
                /\ output.summary = None =>
                    SeriesAreSound(Considered(facts, file.options), file.analysis.series,
                                   file.options)
=============================================================================
