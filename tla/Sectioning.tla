----------------------------- MODULE Sectioning -----------------------------
(***************************************************************************)
(* fo-section derives a corpus of sections from a corpus of documents: the *)
(* items of a filing, the chapters of a book, or windows that overlap      *)
(* (section.rs).  It may fail or die between any two file operations.      *)
(*                                                                         *)
(* A text is a sequence of <<"word">>, <<"space">>, <<"newline">> and      *)
(* headings, each of which is all there is on its line: <<"item", number   *)
(* of digits, number of letters, title>> and <<"chapter", title>>.  Bytes  *)
(* and characters coincide; positions count from 0, an end is exclusive.   *)
(***************************************************************************)
EXTENDS Basics

CONSTANTS
    TitleKey(_),       \* a title without its spelling
    SafeName(_),       \* what sanitize_component leaves of a document's id
    Parents,           \* parent corpora: [provider, documents], the documents a
                       \* sequence of [id, text, readable]
    SectionOptions,    \* [strategy, minimum, target, maximum, overlap, sections, replace]
    MaxSectionings,
    NoDirectory

VARIABLES
    sectionDir,    \* the output: NoDirectory or [files, manifest]
    sectioning,    \* the command that runs: [step, todo, writes, manifest, parent, options]
    sectionings,   \* commands begun
    sectioned      \* history: the parent and options of the last command, if it came to its end
sectionVars == <<sectionDir, sectioning, sectionings, sectioned>>
-----------------------------------------------------------------------------
(* Spans.                                                                  *)

ValidSectionOptions(o) ==
    /\ 0 < o.minimum /\ o.minimum =< o.target /\ o.target =< o.maximum
    /\ o.overlap < o.target /\ o.sections > 0
\* A strategy that is not given is that of the provider of the parent.
Resolved(options, provider) ==
    IF options.strategy # "auto" THEN options
    ELSE [options EXCEPT !.strategy =
             CASE provider = "gutenberg" -> "gutenberg"
               [] provider \in {"annual_reports", "filings"} -> "sec10k"
               [] provider = "local" -> "windows"]
SecHeading(e) == e[1] = "item" /\ e[2] \in 1..2 /\ e[3] =< 1
GutenbergHeading(e) == e[1] = "chapter"
IsHeading(e, strategy) ==
    CASE strategy = "sec10k" -> SecHeading(e)
      [] strategy = "gutenberg" -> GutenbergHeading(e)
      [] strategy = "windows" -> FALSE
TitleOf(e) == e[Len(e)]
Between(source, start, end) == SubSeq(source, start + 1, end)
Extent(span) == span.end - span.start
HeadingOffsets(source, strategy) ==
    {i - 1 : i \in {k \in DOMAIN source : IsHeading(source[k], strategy)}}
FrontMatter(offsets, options) ==
    IF Min(offsets) < options.minimum THEN {}
    ELSE {[start |-> 0, end |-> Min(offsets), title |-> "front matter", part |-> 0]}
HeadingCandidates(source, offsets, options) ==
    FrontMatter(offsets, options) \cup
    {[start |-> o, end |-> Min({p \in offsets : p > o} \cup {Len(source)}),
      title |-> TitleOf(source[o + 1]), part |-> 0] : o \in offsets}
\* Of the spans with one title the longest, the first of them.
BestOf(spans) == Ordered(spans, LAMBDA s : <<-Extent(s), s.start>>)[1]
BestSpans(spans) ==
    {BestOf({t \in spans : TitleKey(t.title) = TitleKey(s.title)}) : s \in spans}
HeadingSpans(source, options) ==
    LET offsets == HeadingOffsets(source, options.strategy)
        long == {s \in HeadingCandidates(source, offsets, options) : Extent(s) >= options.minimum}
    IN  IF offsets = {} THEN <<>> ELSE Ordered(BestSpans(long), LAMBDA s : <<s.start>>)

Breaks(source, from, to) ==
    {q \in from..(to - 2) : source[q + 1] = <<"newline">> /\ source[q + 2] = <<"newline">>}
\* A break before the target is found, but the window does not end there.
ParagraphBoundary(source, target, maximum) ==
    LET ahead == Breaks(source, target, maximum)
        behind == Breaks(source, 0, target)
    IN  CASE target >= maximum -> maximum
          [] target < maximum /\ ahead # {} -> Min(ahead) + 2
          [] target < maximum /\ ahead = {} /\ behind # {} -> Max(behind) + 2
          [] OTHER -> target
WindowEnd(source, start, options) ==
    LET target == Smaller(start + options.target, Len(source))
        maximum == Smaller(start + options.maximum, Len(source))
    IN  Larger(ParagraphBoundary(source, target, maximum), target)
RECURSIVE WindowsFrom(_, _, _, _)
WindowsFrom(source, start, part, options) ==
    LET window(end) == [start |-> start, end |-> end, part |-> part]
        left == Len(source) - start
        end == WindowEnd(source, start, options)
    IN  IF left = 0 \/ part > options.sections THEN <<>>
        ELSE IF left =< options.maximum
        THEN IF left >= options.minimum THEN <<window(Len(source))>> ELSE <<>>
        ELSE <<window(end)>> \o
             (IF end = Len(source) THEN <<>>
              ELSE WindowsFrom(source, Larger(end - options.overlap, start + 1), part + 1, options))
ParagraphWindows(source, base, title, options) ==
    MappedSeq(WindowsFrom(source, 0, 1, options),
              LAMBDA w : [start |-> base + w.start, end |-> base + w.end, title |-> title,
                          part |-> w.part])
\* Headings, of which those that are too long are divided; windows without any.
SplitDocument(source, options) ==
    LET headings == HeadingSpans(source, options)
        divided(h) == IF Extent(h) =< options.maximum THEN <<h>>
                      ELSE ParagraphWindows(Between(source, h.start, h.end), h.start, h.title, options)
    IN  IF headings = <<>> THEN ParagraphWindows(source, 0, "document", options)
        ELSE Concat(MappedSeq(headings, divided))
KeptSpans(source, options) ==
    Take(SelectSeq(SplitDocument(source, options), LAMBDA s : Extent(s) >= options.minimum),
         options.sections)

\* Sections without the white space around them; what is white only is no section.
Visible(source, span) ==
    {p \in span.start..(span.end - 1) : source[p + 1] \notin {<<"space">>, <<"newline">>}}
SectionRecord(document, spans, i, visible) ==
    [id |-> <<document.id, i>>,
     path |-> <<SafeName(document.id), i, TitleKey(spans[i].title), spans[i].part>>,
     title |-> spans[i].title, part |-> spans[i].part,
     start |-> Min(visible), end |-> Max(visible) + 1,
     text |-> Between(document.text, Min(visible), Max(visible) + 1)]
SectionsFrom(document, spans) ==
    Concat([i \in DOMAIN spans |->
        IF Visible(document.text, spans[i]) = {} THEN <<>>
        ELSE <<SectionRecord(document, spans, i, Visible(document.text, spans[i]))>>])
-----------------------------------------------------------------------------
(* The command.                                                            *)

InitSections ==
    /\ sectionDir = NoDirectory /\ sectioning = NoDirectory
    /\ sectionings = 0 /\ sectioned = NoDirectory
StartSections ==
    /\ sectioning = NoDirectory /\ sectionings < MaxSectionings
    /\ \E parent \in Parents, options \in SectionOptions :
        /\ ValidSectionOptions(options)
        /\ sectionDir # NoDirectory => options.replace
        /\ sectioning' = [step |-> "remove", todo |-> parent.documents, writes |-> <<>>,
                          manifest |-> {}, parent |-> parent.documents,
                          options |-> Resolved(options, parent.provider)]
    /\ sectionings' = sectionings + 1 /\ sectioned' = NoDirectory
    /\ UNCHANGED sectionDir
SectioningGoesOn == UNCHANGED <<sectionings, sectioned>>
SectionStep(step) == sectioning # NoDirectory /\ sectioning.step = step
\* The old directory goes file by file, in the order of the file system, in
\* which the manifest may be anywhere.
RemoveSection ==
    /\ SectionStep("remove") /\ sectionDir # NoDirectory
    /\ \/ /\ sectionDir.manifest # NoDirectory
          /\ sectionDir' = [sectionDir EXCEPT !.manifest = NoDirectory]
       \/ /\ sectionDir.files # <<>>
          /\ LET first == CHOOSE p \in DOMAIN sectionDir.files : TRUE
             IN  sectionDir' = [sectionDir EXCEPT !.files =
                                   Restrict(@, DOMAIN @ \ {first})]
    /\ UNCHANGED sectioning /\ SectioningGoesOn
EmptyDirectory == [files |-> <<>>, manifest |-> NoDirectory]
MakeDirectory ==
    /\ SectionStep("remove") /\ sectionDir \in {NoDirectory, EmptyDirectory}
    /\ sectionDir' = EmptyDirectory
    /\ sectioning' = [sectioning EXCEPT !.step = "write"]
    /\ SectioningGoesOn
\* A document that cannot be read is a failure in the manifest, no more.
SkipDocument ==
    /\ SectionStep("write") /\ sectioning.writes = <<>> /\ sectioning.todo # <<>>
    /\ ~Head(sectioning.todo).readable
    /\ sectioning' = [sectioning EXCEPT !.todo = Tail(@)]
    /\ UNCHANGED sectionDir /\ SectioningGoesOn
SplitNext ==
    /\ SectionStep("write") /\ sectioning.writes = <<>> /\ sectioning.todo # <<>>
    /\ Head(sectioning.todo).readable
    /\ LET document == Head(sectioning.todo)
       IN  sectioning' = [sectioning EXCEPT !.todo = Tail(@),
               !.writes = SectionsFrom(document, KeptSpans(document.text, sectioning.options))]
    /\ UNCHANGED sectionDir /\ SectioningGoesOn
WriteSection ==
    /\ SectionStep("write") /\ sectioning.writes # <<>>
    /\ LET r == Head(sectioning.writes)
       IN  /\ sectionDir' = [sectionDir EXCEPT !.files = (r.path :> r.text) @@ @]
           /\ sectioning' = [sectioning EXCEPT !.writes = Tail(@), !.manifest = @ \cup {r}]
    /\ SectioningGoesOn
\* A manifest with two sections at one path is not valid: the command fails.
DistinctPaths(manifest) == \A r, s \in manifest : r.path = s.path => r = s
SaveSections ==
    /\ SectionStep("write") /\ sectioning.writes = <<>> /\ sectioning.todo = <<>>
    /\ DistinctPaths(sectioning.manifest)
    /\ sectionDir' = [sectionDir EXCEPT !.manifest = sectioning.manifest]
    /\ sectioned' = [parent |-> sectioning.parent, options |-> sectioning.options]
    /\ sectioning' = NoDirectory
    /\ UNCHANGED sectionings
StopSections ==
    /\ sectioning # NoDirectory
    /\ sectioning' = NoDirectory
    /\ UNCHANGED sectionDir /\ SectioningGoesOn
NextSections ==
    \/ StartSections \/ RemoveSection \/ MakeDirectory \/ SkipDocument \/ SplitNext
    \/ WriteSection \/ SaveSections \/ StopSections
-----------------------------------------------------------------------------
(* Properties.                                                             *)

Of(manifest, document) == {r \in manifest : r.id[1] = document.id}
IsExact(r, document, options) ==
    /\ r.text = Between(document.text, r.start, r.end) /\ Len(r.text) =< options.maximum
    /\ r.text # <<>>
\* Sections under different headings have no text in common; windows of one
\* text share no more than the overlap.
KeepApart(r, s, options) ==
    r.start < s.start =>
        r.end =< s.start + (IF r.title = s.title THEN options.overlap ELSE 0)
Uncovered(document, manifest) ==
    {p \in Visible(document.text, [start |-> 0, end |-> Len(document.text)]) :
        \A r \in Of(manifest, document) : p \notin r.start..(r.end - 1)}
HasHeadings(document, options) == HeadingSpans(document.text, options) # <<>>
\* Without headings only an end shorter than a section is lost; with headings
\* each of them is there, unless it is as short as that.
NothingIsLost(document, manifest, options) ==
    Cardinality(Of(manifest, document)) < options.sections =>
        /\ ~HasHeadings(document, options) =>
            \A p \in Uncovered(document, manifest) : Len(document.text) - p < options.minimum
        /\ \A h \in Range(HeadingSpans(document.text, options)) :
            (Visible(document.text, h) # {} /\ Extent(h) =< options.maximum) =>
                \E r \in Of(manifest, document) :
                    TitleKey(r.title) = TitleKey(h.title) /\ Visible(document.text, h) \subseteq r.start..(r.end - 1)
\* Sections (section_corpus, split_document): what a command leaves that came
\* to its end are the texts the manifest says they are.
SectionsAreExact ==
    sectioned # NoDirectory =>
        /\ \A r \in sectionDir.manifest : sectionDir.files[r.path] = r.text
        /\ \A d \in {x \in Range(sectioned.parent) : x.readable} :
            /\ \A r \in Of(sectionDir.manifest, d) : IsExact(r, d, sectioned.options)
            /\ \A r, s \in Of(sectionDir.manifest, d) : KeepApart(r, s, sectioned.options)
            /\ NothingIsLost(d, sectionDir.manifest, sectioned.options)
\* Whatever is left of a manifest, a listed file is not there or the text it lists.
SectionReceipts ==
    (sectionDir # NoDirectory /\ sectionDir.manifest # NoDirectory) =>
        \A r \in sectionDir.manifest :
            r.path \in DOMAIN sectionDir.files => sectionDir.files[r.path] = r.text
=============================================================================
