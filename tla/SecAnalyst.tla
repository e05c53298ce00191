----------------------------- MODULE SecAnalyst -----------------------------
(***************************************************************************)
(* The tools of an analyst of filings: the selection of a corpus           *)
(* (FilingSelection), company facts (SecFacts), sections of filings        *)
(* (Sectioning) and the lineage of what sections say (SecLineage).  Each   *)
(* works in a directory of its own and reads what another one left there   *)
(* complete, so one behaviour follows one of them.                         *)
(***************************************************************************)
EXTENDS SecFacts, SecLineage, Sectioning, FilingSelection

VARIABLE tool   \* "corpus", "facts", "lineage" or "sections"

InitAnalyst ==
    /\ tool \in {"corpus", "facts", "lineage", "sections"}
    /\ Init /\ InitLineage /\ InitSections /\ InitAcquisition
NextAnalyst ==
    /\ UNCHANGED tool
    /\ \/ tool = "corpus" /\ NextAcquisition /\ UNCHANGED <<vars, lineageVars, sectionVars>>
       \/ tool = "facts" /\ Next /\ UNCHANGED <<lineageVars, sectionVars, acquisitionVars>>
       \/ tool = "lineage" /\ NextLineage /\ UNCHANGED <<vars, sectionVars, acquisitionVars>>
       \/ tool = "sections" /\ NextSections /\ UNCHANGED <<vars, lineageVars, acquisitionVars>>
SpecAnalyst ==
    InitAnalyst /\ [][NextAnalyst]_<<vars, lineageVars, sectionVars, acquisitionVars, tool>>

\* What the tools leave on disk and report (fetch_sec_companyfacts,
\* section_corpus, fetch_sec_filings): what verifies is what its receipt says;
\* what a command that came to its end reported is there, complete and from the
\* texts it was made of; and a corpus is the newest that was asked for, with
\* every document accounted for.
ReceiptsTellTheTruth == FetchReceipts /\ SectionReceipts /\ SectionsAreExact /\ AcquisitionsAddUp
=============================================================================
