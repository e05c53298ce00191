--------------------------- MODULE FilingSelection ---------------------------
(***************************************************************************)
(* What a corpus is made of: the books of a catalog, or the filings that   *)
(* the submissions of companies list, are selected, and each of them is    *)
(* reused, downloaded, rejected or failed (gutenberg.rs, sec.rs,           *)
(* sec_filings.rs).  CorpusFetch tells how one of them is published.       *)
(*                                                                         *)
(* A date is a day, 0 where there is none.  A text is a sequence of lines, *)
(* "text", "blank", "space" (only white space), "start" and "end" (the     *)
(* lines of Project Gutenberg around a book).  What a reader of HTML makes *)
(* of a filing are the lines of the filing.  A document that is listed may *)
(* still have to be downloaded, since its file may be gone or another one. *)
(***************************************************************************)
EXTENDS Basics, TLC

CONSTANTS
    TickerRows,          \* the ticker file in the order of its keys: [ticker, cik]
    StableMix(_, _),     \* of a number and a seed
    Upper(_),            \* a form or a ticker without its spelling
    FormOrder,           \* forms in alphabetical order
    Submission(_),       \* of a company: [cik, readers, recent, files]
    Downloads,           \* what may come: [binary, converts, lines]
    AcquisitionRequests, \* options of runs, with the provider
    BulkLimit,           \* books the main site may be asked for
    SaveEach,            \* downloads after which the manifest is saved
    MaxAcquisitions,
    NoRun

VARIABLES
    shelf,         \* the saved manifest: NoRun or [provider, documents]
    acquisition,   \* the run
    acquisitions,  \* runs begun
    acquired       \* history: the last run, if it came to its end
acquisitionVars == <<shelf, acquisition, acquisitions, acquired>>

\* A sequence in the order of keys, equal elements as they stand.
SortedBy(s, Key(_)) ==
    LET order == Ordered(DOMAIN s, LAMBDA i : Append(Key(s[i]), i))
    IN  [k \in DOMAIN order |-> s[order[k]]]
-----------------------------------------------------------------------------
(* Books.                                                                  *)

ParseCatalog(rows, language) ==
    SortedBy(SelectSeq(rows, LAMBDA r : r.text /\ language \in r.languages /\ r.titled),
             LAMBDA r : <<r.id>>)
Numbers(catalog) == MappedSeq(catalog, LAMBDA r : r.id)
\* Books asked for that the catalog does not have are added; one the catalog
\* lists twice is selected twice, and may push the last one out.
ExplicitBooks(catalog, o) ==
    LET asked == Range(o.explicit)
        present == SelectSeq(Numbers(catalog), LAMBDA id : id \in asked)
    IN  Take(SortedBy(present \o Ascending(asked \ Range(present)), LAMBDA id : <<id>>),
             Larger(o.limit, Len(o.explicit)))
SampledBooks(catalog, o) ==
    SortedBy(Take(SortedBy(Numbers(catalog), LAMBDA id : <<StableMix(id, o.seed)>>), o.limit),
             LAMBDA id : <<id>>)
SelectBooks(catalog, o) ==
    IF o.explicit # <<>> THEN ExplicitBooks(catalog, o) ELSE SampledBooks(catalog, o)
\* The lines between the first start and the first end after it.
StripBoilerplate(lines) ==
    LET first(kind, from) == Min({k \in from..Len(lines) : lines[k] = kind} \cup {Len(lines) + 1})
        start == IF "start" \in Range(lines) THEN first("start", 1) + 1 ELSE 1
    IN  SubSeq(lines, start, first("end", start) - 1)
-----------------------------------------------------------------------------
(* Companies and filings.                                                  *)

\* Of rows with one ticker the last counts.
RowsOf(ticker) == {i \in DOMAIN TickerRows : Upper(TickerRows[i].ticker) = Upper(ticker)}
KnownTickers(o) == \A t \in o.tickers : RowsOf(t) # {}
SelectedCompanies(o) ==
    LET asked == {TickerRows[Max(RowsOf(t))].cik : t \in o.tickers} \cup o.ciks
        listed == SortedBy(Ascending({r.cik : r \in Range(TickerRows)}),
                           LAMBDA c : <<StableMix(c, o.seed)>>)
    IN  Ascending(IF asked # {} THEN asked ELSE Range(Take(listed, o.sample)))
\* Columns may have different lengths: rows without a value that is needed are cut.
NeededColumns(provider) ==
    {"accession", "date", "form", "document"} \cup (IF provider = "sec_10k" THEN {"report"} ELSE {})
CompleteRows(page, provider) == Take(page.rows, Min({page.lengths[c] : c \in NeededColumns(provider)}))
InDateRange(date, o) == o.from =< date /\ (o.to # 0 => date =< o.to)
IsWanted(row, o) ==
    /\ InDateRange(row.date, o)
    /\ IF o.provider = "sec_10k"
       THEN /\ row.form = "10-K" \/ (o.amendments /\ row.form = "10-K/A")
            /\ row.name \notin {"empty", "slash"}
       ELSE row.iso /\ Upper(row.form) \in {Upper(f) : f \in o.forms}
CandidatesFrom(page, o) ==
    MappedSeq(SelectSeq(CompleteRows(page, o.provider), LAMBDA r : IsWanted(r, o)),
              LAMBDA r : IF o.provider = "sec_10k" THEN r ELSE [r EXCEPT !.form = Upper(@)])
\* Of the older files those are read that may have filings of the time asked for.
OverlapsDates(file, o) ==
    /\ file.to # 0 => file.to >= o.from
    /\ (o.to # 0 /\ file.from # 0) => file.from =< o.to
HistoricalFiles(submission, o) ==
    IF o.provider = "sec_10k" \/ ~o.historical THEN <<>>
    ELSE SelectSeq(Take(submission.files, o.maximumFiles),
                   LAMBDA f : f.json /\ OverlapsDates(f, o))
FormIndex(form) == CHOOSE i \in DOMAIN FormOrder : FormOrder[i] = form
NewestFirst(found, o) ==
    IF o.provider = "sec_10k" THEN SortedBy(found, LAMBDA r : <<-r.date, -r.accession>>)
    ELSE SortedBy(found, LAMBDA r : <<-r.date, -r.accepted, FormIndex(r.form), r.accession>>)
\* Neighbours with one accession number are one filing.
WithoutNeighbours(s) ==
    MappedSeq(SelectSeq(CountUp(Len(s)), LAMBDA i : i = 1 \/ s[i].accession # s[i - 1].accession),
              LAMBDA i : s[i])
SelectFilings(found, o) ==
    Take(IF o.provider = "sec_10k" THEN NewestFirst(found, o)
         ELSE WithoutNeighbours(NewestFirst(found, o)), o.perCompany)

\* No blank line first or last, none after another; white space is none.
CleanFilingText(lines) ==
    LET plain == MappedSeq(lines, LAMBDA l : IF l = "space" THEN "blank" ELSE l)
        kept == SelectSeq(CountUp(Len(plain)),
                    LAMBDA i : plain[i] # "blank" \/ (i > 1 /\ plain[i - 1] # "blank"))
        squeezed == MappedSeq(kept, LAMBDA i : plain[i])
    IN  IF squeezed # <<>> /\ Last(squeezed) = "blank" THEN Front(squeezed) ELSE squeezed
\* Of empty lines one is left; white space around the text is cut.
CleanBookText(lines) ==
    LET body == StripBoilerplate(lines)
        squeezed == SelectSeq(CountUp(Len(body)),
                        LAMBDA i : body[i] # "blank" \/ i = 1 \/ body[i - 1] # "blank")
        seen == {i \in Range(squeezed) : body[i] \notin {"blank", "space"}}
    IN  IF seen = {} THEN <<>>
        ELSE MappedSeq(SelectSeq(squeezed, LAMBDA i : i \in Min(seen)..Max(seen)), LAMBDA i : body[i])
CleanText(lines, provider) ==
    IF provider = "gutenberg" THEN CleanBookText(lines) ELSE CleanFilingText(lines)
-----------------------------------------------------------------------------
(* The run.                                                                *)

ValidAcquisition(o) ==
    /\ o.minimum > 0
    /\ IF o.provider = "gutenberg"
       THEN o.limit > 0 /\ (Larger(o.limit, Len(o.explicit)) > BulkLimit => o.mirror)
       ELSE /\ o.perCompany > 0 /\ (o.to # 0 => o.from =< o.to)
            /\ o.sample > 0 \/ (o.provider = "sec_10k" /\ o.tickers \cup o.ciks # {})
            /\ o.provider = "sec_filings" => o.forms # {}
NoCounts == [candidates |-> 0, downloaded |-> 0, reused |-> 0, short |-> 0, binary |-> 0, failed |-> 0]
Books(ids) == MappedSeq(ids, LAMBDA id : [id |-> <<id>>, path |-> <<id>>, safe |-> TRUE])
FilingDocuments(chosen, cik, provider) ==
    MappedSeq(chosen, LAMBDA r :
        [id |-> <<cik, r.accession>>, safe |-> provider = "sec_10k" \/ r.name = "plain",
         path |-> IF provider = "sec_10k" THEN <<cik, r.date, r.accession>>
                  ELSE <<cik, r.date, r.form, r.accession>>])
Begun(o, companies, todo) ==
    [options |-> o, step |-> IF todo = <<>> THEN "company" ELSE "document", companies |-> companies,
     todo |-> todo, cik |-> 0, pages |-> <<>>, found |-> <<>>, lost |-> 0, log |-> <<>>, kept |-> {},
     listed |-> IF shelf = NoRun THEN <<>> ELSE shelf.documents,
     counts |-> [NoCounts EXCEPT !.candidates = Len(todo)]]
InitAcquisition ==
    shelf = NoRun /\ acquisition = NoRun /\ acquisitions = 0 /\ acquired = NoRun
\* The manifest of another provider is refused, and so is a ticker nobody has.
StartAcquisition ==
    /\ acquisition = NoRun /\ acquisitions < MaxAcquisitions
    /\ \E o \in {r \in AcquisitionRequests : ValidAcquisition(r)} :
        /\ shelf # NoRun => shelf.provider = o.provider
        /\ IF o.provider = "gutenberg"
           THEN acquisition' = Begun(o, <<>>, Books(SelectBooks(ParseCatalog(o.rows, o.language), o)))
           ELSE KnownTickers(o) /\ acquisition' = Begun(o, SelectedCompanies(o), <<>>)
    /\ acquisitions' = acquisitions + 1 /\ acquired' = NoRun
    /\ UNCHANGED shelf
AcquisitionGoesOn == UNCHANGED <<acquisitions, acquired>>
AcquisitionStep(step) == acquisition # NoRun /\ acquisition.step = step
Options == acquisition.options

\* A submission that does not come, cannot be read, or is, for fetch_sec_10k,
\* that of another company.
FailSubmission ==
    /\ AcquisitionStep("company") /\ acquisition.companies # <<>>
    /\ acquisition' = [acquisition EXCEPT !.companies = Tail(@), !.lost = @ + 1, !.counts.failed = @ + 1]
    /\ UNCHANGED shelf /\ AcquisitionGoesOn
ReadSubmission ==
    /\ AcquisitionStep("company") /\ acquisition.companies # <<>>
    /\ LET asked == Head(acquisition.companies)
           submission == Submission(asked)
       IN  /\ Options.provider \in submission.readers
           /\ Options.provider = "sec_10k" => submission.cik = asked
           /\ acquisition' = [acquisition EXCEPT !.companies = Tail(@), !.step = "page",
                  !.cik = submission.cik, !.found = CandidatesFrom(submission.recent, Options),
                  !.pages = HistoricalFiles(submission, Options)]
    /\ UNCHANGED shelf /\ AcquisitionGoesOn
ReadPage ==
    /\ AcquisitionStep("page") /\ acquisition.pages # <<>>
    /\ acquisition' = [acquisition EXCEPT !.pages = Tail(@),
           !.found = @ \o CandidatesFrom(Head(acquisition.pages).page, Options)]
    /\ UNCHANGED shelf /\ AcquisitionGoesOn
FailPage ==
    /\ AcquisitionStep("page") /\ acquisition.pages # <<>>
    /\ acquisition' = [acquisition EXCEPT !.pages = Tail(@), !.lost = @ + 1, !.counts.failed = @ + 1]
    /\ UNCHANGED shelf /\ AcquisitionGoesOn
ChooseFilings ==
    /\ AcquisitionStep("page") /\ acquisition.pages = <<>>
    /\ LET chosen == SelectFilings(acquisition.found, Options)
       IN  acquisition' = [acquisition EXCEPT !.step = "document", !.found = <<>>,
               !.todo = FilingDocuments(chosen, acquisition.cik, Options.provider),
               !.counts.candidates = @ + Len(chosen),
               !.log = Append(@, [found |-> acquisition.found, chosen |-> chosen])]
    /\ UNCHANGED shelf /\ AcquisitionGoesOn

NextDocument == Head(acquisition.todo)
AtDocument == AcquisitionStep("document") /\ acquisition.todo # <<>>
\* What the manifest lists counts by its identifier, for fetch_sec_filings by
\* its path as well.
IsListed(d) ==
    /\ d.id \in DOMAIN acquisition.listed
    /\ Options.provider = "sec_filings" => acquisition.listed[d.id].path = d.path
ReuseListed ==
    /\ AtDocument /\ NextDocument.safe /\ ~Options.overwrite /\ IsListed(NextDocument)
    /\ acquisition' = [acquisition EXCEPT !.todo = Tail(@), !.counts.reused = @ + 1,
                                          !.kept = @ \cup {NextDocument.id}]
    /\ UNCHANGED shelf /\ AcquisitionGoesOn
\* A name that is not safe, no answer, or a filing that cannot be converted;
\* the last ends a run of fetch_sec_10k.
FailDocument ==
    /\ AtDocument
    /\ acquisition' = [acquisition EXCEPT !.todo = Tail(@), !.counts.failed = @ + 1]
    /\ UNCHANGED shelf /\ AcquisitionGoesOn
Converted(download) == download.converts \/ Options.provider = "gutenberg"
TakenForBinary(download) == Options.provider = "sec_filings" /\ download.binary
RejectBinary ==
    /\ AtDocument /\ NextDocument.safe
    /\ \E download \in Downloads : TakenForBinary(download)
    /\ acquisition' = [acquisition EXCEPT !.todo = Tail(@), !.counts.binary = @ + 1]
    /\ UNCHANGED shelf /\ AcquisitionGoesOn
RejectShort ==
    /\ AtDocument /\ NextDocument.safe
    /\ \E download \in Downloads :
        /\ ~TakenForBinary(download) /\ Converted(download)
        /\ Len(CleanText(download.lines, Options.provider)) < Options.minimum
    /\ acquisition' = [acquisition EXCEPT !.todo = Tail(@), !.counts.short = @ + 1]
    /\ UNCHANGED shelf /\ AcquisitionGoesOn
Saved == [provider |-> Options.provider, documents |-> acquisition'.listed]
DownloadDocument ==
    /\ AtDocument /\ NextDocument.safe
    /\ \E download \in Downloads :
        LET text == CleanText(download.lines, Options.provider)
        IN  /\ ~TakenForBinary(download) /\ Converted(download)
            /\ Len(text) >= Options.minimum
            /\ acquisition' = [acquisition EXCEPT !.todo = Tail(@), !.counts.downloaded = @ + 1,
                   !.kept = @ \cup {NextDocument.id},
                   !.listed = (NextDocument.id :> [path |-> NextDocument.path, text |-> text]) @@ @]
    /\ shelf' = IF acquisition'.counts.downloaded % SaveEach = 0 THEN Saved ELSE shelf
    /\ AcquisitionGoesOn
NextCompany ==
    /\ AcquisitionStep("document") /\ acquisition.todo = <<>>
    /\ acquisition' = [acquisition EXCEPT !.step = "company"]
    /\ UNCHANGED shelf /\ AcquisitionGoesOn
FinishAcquisition ==
    /\ AcquisitionStep("company") /\ acquisition.companies = <<>>
    /\ shelf' = [provider |-> Options.provider, documents |-> acquisition.listed]
    /\ acquired' = acquisition /\ acquisition' = NoRun
    /\ UNCHANGED acquisitions
\* An error that ends the run, or the end of the process.
StopAcquisition ==
    /\ acquisition # NoRun
    /\ acquisition' = NoRun
    /\ UNCHANGED shelf /\ AcquisitionGoesOn
NextAcquisition ==
    \/ StartAcquisition \/ FailSubmission \/ ReadSubmission \/ ReadPage \/ FailPage \/ ChooseFilings
    \/ ReuseListed \/ FailDocument \/ RejectBinary \/ RejectShort \/ DownloadDocument \/ NextCompany
    \/ FinishAcquisition \/ StopAcquisition
-----------------------------------------------------------------------------
(* Properties.                                                             *)

Outcomes(counts) == counts.downloaded + counts.reused + counts.short + counts.binary + counts.failed
\* Every row of a filing says the same of it; fetch_sec_10k relies on one row.
RowsAgree(found, o) ==
    \A i, j \in DOMAIN found : (i < j /\ found[i].accession = found[j].accession) =>
        /\ o.provider # "sec_10k"
        /\ <<found[i].date, found[i].accepted, found[i].form>>
               = <<found[j].date, found[j].accepted, found[j].form>>
\* The newest filings that were found, newest first, each once, no more than
\* asked for, and all of them if they are not more.
IsTheNewest(found, chosen, o) ==
    /\ IsInjective(MappedSeq(chosen, LAMBDA r : r.accession))
    /\ Len(chosen) = Smaller(o.perCompany, Cardinality({r.accession : r \in Range(found)}))
    /\ \A i, j \in DOMAIN chosen : i < j => chosen[i].date >= chosen[j].date
    /\ \A r \in Range(found), k \in Range(chosen) :
        r.accession \notin {c.accession : c \in Range(chosen)} => r.date =< k.date
SelectionsAreRight(run) ==
    \A k \in DOMAIN run.log :
        RowsAgree(run.log[k].found, run.options) => IsTheNewest(run.log[k].found, run.log[k].chosen, run.options)
\* Of a catalog without repetitions: all books asked for and no other, or a
\* sample of the size asked for that contains that of every smaller size.
BooksAreRight(o) ==
    LET catalog == ParseCatalog(o.rows, o.language)
        ids == Range(Numbers(catalog))
        sample(n) == Range(SampledBooks(catalog, [o EXCEPT !.limit = n]))
    IN  IsInjective(Numbers(catalog)) =>
            IF o.explicit # <<>> THEN Range(SelectBooks(catalog, o)) = Range(o.explicit)
            ELSE \A n \in 1..o.limit :
                /\ sample(n) \subseteq ids /\ Cardinality(sample(n)) = Smaller(n, Cardinality(ids))
                /\ sample(n) \subseteq Range(SelectBooks(catalog, o))
\* A text has no blank line at an end or next to another, and a book not the
\* line that ends it; cleaning it again leaves it as it is.
TextIsClean(text, provider) ==
    /\ text # <<>> => {text[1], Last(text)} \cap {"blank", "space"} = {}
    /\ \A i \in 1..(Len(text) - 1) : ~(text[i] = "blank" /\ text[i + 1] = "blank")
    /\ provider = "gutenberg" => "end" \notin Range(text)
    /\ "start" \notin Range(text) => CleanText(text, provider) = text
\* Acquisition: the counters of a run that came to its end account for all that
\* it selected or could not read; what it kept is listed; it selected what it
\* was asked for; and every text listed is clean.
AcquisitionsAddUp ==
    /\ acquired # NoRun =>
        /\ acquired.counts.candidates + acquired.lost = Outcomes(acquired.counts)
        /\ acquired.kept \subseteq DOMAIN shelf.documents
        /\ IF acquired.options.provider = "gutenberg" THEN BooksAreRight(acquired.options)
           ELSE SelectionsAreRight(acquired)
    /\ shelf # NoRun =>
        \A id \in DOMAIN shelf.documents : TextIsClean(shelf.documents[id].text, shelf.provider)
=============================================================================
