----------------------------- MODULE CorpusProofs -----------------------------
(***************************************************************************)
(* Proofs about the two ways documents get into a directory.  Of           *)
(* CorpusFetch: types, that a manifest forgets nothing, that a run which   *)
(* came to its end vouches only for what verifies, where files are reused  *)
(* by their digest, and how much a run that dies leaves undescribed.  Of   *)
(* ContractPortfolio: that a collection that verifies is one whole import, *)
(* and what a finished report says of it.                                  *)
(***************************************************************************)
EXTENDS CorpusFetch, ContractPortfolio, BasicsProofs

\* A run takes its documents from the front.
LEMMA TodoIsSequence ==
  ASSUME todo \in Seq(Documents), todo # << >>
  PROVE  Head(todo) \in Documents /\ Tail(todo) \in Seq(Documents)
BY HeadTailProperties

\* What a process that does not run holds.
LEMMA GoneValues ==
  /\ Nothing \in Manifest
  /\ << >> \in Seq(Documents)
  /\ 0 \in 0 .. MaxAttempts - 1
  /\ 0 \in 0 .. SaveEvery - 1
<1>1. Nothing \in Manifest
  BY DEF Nothing, Manifest
<1>2. << >> \in Seq(Documents)
  OBVIOUS
<1>3. 0 \in 0 .. MaxAttempts - 1 /\ 0 \in 0 .. SaveEvery - 1
  BY ParametersAssumption
<1> QED BY <1>1, <1>2, <1>3

\* Every variable keeps its type, whatever documents, texts and answers there
\* are: attempts stay below maximum_attempts, and there is a text to publish.
THEOREM TypeCorrect == Spec => []TypeOK
<1> USE ParametersAssumption
<1>1. Init => TypeOK
  BY GoneValues DEF Init, TypeOK
<1>2. TypeOK /\ [Next]_vars => TypeOK'
  <2> SUFFICES ASSUME TypeOK, [Next]_vars PROVE TypeOK'
    OBVIOUS
  <2> USE DEF TypeOK
  <2>1. CASE Start
    <3>1. manifest' \in Manifest
      BY <2>1, GoneValues DEF Start, LoadOrNew
    <3>2. todo' \in Seq(Documents)
      BY <2>1 DEF Start
    <3>3. known' \subseteq Documents /\ unsaved' \subseteq Documents
      BY <2>1 DEF Start, Unsaved
    <3> QED BY <2>1, <3>1, <3>2, <3>3 DEF Start
  <2>2. CASE Reuse
    BY <2>2, TodoIsSequence DEF Reuse
  <2>3. CASE Retry
    BY <2>3 DEF Retry, Requesting
  <2>4. CASE GiveUp
    BY <2>4, TodoIsSequence DEF GiveUp, Requesting
  <2>5. CASE Receive
    BY <2>5 DEF Receive, Requesting
  <2>6. CASE RemoveOld
    BY <2>6, TodoIsSequence DEF RemoveOld, Manifest
  <2>7. CASE Publish
    <3>1. Head(todo) \in Documents /\ Tail(todo) \in Seq(Documents) /\ text \in Texts
      BY <2>7, TodoIsSequence DEF Publish
    <3>2. downloaded' \in 0 .. SaveEvery - 1 /\ pc' \in {"next", "checkpoint"}
      BY <2>7 DEF Publish, Checkpoint
    <3>3. files' \in Manifest /\ manifest' \in Manifest
      BY <2>7, <3>1 DEF Publish, Manifest
    <3>4. kept' \subseteq Documents
      BY <2>7, <3>1 DEF Publish
    <3> QED BY <2>7, <3>1, <3>2, <3>3, <3>4 DEF Publish
  <2>8. CASE Finish
    BY <2>8 DEF Finish
  <2>9. CASE RemoveManifest
    BY <2>9 DEF RemoveManifest
  <2>10. CASE Install
    BY <2>10, GoneValues DEF Install, Gone, Listed
  <2>11. CASE Stop
    BY <2>11, GoneValues DEF Stop, Gone
  <2>12. CASE UNCHANGED vars
    BY <2>12 DEF vars
  <2> QED
    BY <2>1, <2>2, <2>3, <2>4, <2>5, <2>6, <2>7, <2>8, <2>9, <2>10, <2>11, <2>12
       DEF Next, Work
<1> QED BY <1>1, <1>2, PTL DEF Spec

-----------------------------------------------------------------------------
(* What the manifest is worth *)

\* The manifest in memory describes every document the run has kept, but for one
\* it is just replacing.
KeptInv ==
  /\ pc = "idle" => kept = {}
  /\ \A d \in kept : /\ manifest[d] # None
                     /\ files[d] = manifest[d] \/ (pc = "publish" /\ d = Head(todo))

\* It lists all that was ever listed, as the saved one does.
KnownInv ==
  /\ pc # "idle" => known \subseteq Listed(manifest)
  /\ NothingForgotten

\* Only the last run is vouched for, and only until the next begins.
ReportedInv == reported # {} => pc = "idle"

\* Publishing changes one document.
LEMMA PublishOne ==
  ASSUME TypeOK, Publish
  PROVE  /\ pc = "publish" /\ pc' # "publish" /\ pc' # "idle"
         /\ Head(todo) \in Documents
         /\ files'[Head(todo)] = text /\ manifest'[Head(todo)] = text
         /\ text # None
         /\ \A d \in Documents \ {Head(todo)} : files'[d] = files[d] /\ manifest'[d] = manifest[d]
         /\ kept' = kept \cup {Head(todo)}
         /\ UNCHANGED <<saved, reported, known>>
<1>1. Head(todo) \in Documents /\ text \in Texts
  BY TodoIsSequence DEF TypeOK, Publish
<1>2. text # None
  BY <1>1, ParametersAssumption
<1>3. pc' # "publish" /\ pc' # "idle"
  BY DEF Publish, Checkpoint
<1> QED BY <1>1, <1>2, <1>3 DEF Publish, TypeOK, Manifest

\* "As long as no run died while the manifest was away": what was listed stays
\* listed, through any sequence of runs for any documents.
THEOREM ManifestsForgetNothing == Spec => []NothingForgotten
<1>1. Init => KnownInv
  BY DEF Init, KnownInv, NothingForgotten
<1>2. TypeOK /\ KnownInv /\ [Next]_vars => KnownInv'
  <2> SUFFICES ASSUME TypeOK, KnownInv, [Next]_vars PROVE KnownInv'
    OBVIOUS
  <2> USE DEF KnownInv, NothingForgotten
  <2>1. CASE Start
    BY <2>1 DEF Start, LoadOrNew, Listed
  <2>2. CASE Reuse \/ Retry \/ GiveUp \/ Receive \/ RemoveOld \/ Finish \/ RemoveManifest
    BY <2>2 DEF Reuse, Retry, GiveUp, Receive, RemoveOld, Finish, RemoveManifest, Requesting, Listed
  <2>3. CASE Publish
    <3>1. Listed(manifest) \subseteq Listed(manifest')
      BY <2>3, PublishOne DEF Listed
    <3>2. UNCHANGED <<saved, known>> /\ pc # "idle"
      BY <2>3, PublishOne
    <3> QED BY <3>1, <3>2
  <2>4. CASE Install
    BY <2>4 DEF Install, Gone, Listed
  <2>5. CASE Stop
    BY <2>5 DEF Stop, Gone
  <2>6. CASE UNCHANGED vars
    BY <2>6 DEF vars, Listed
  <2> QED BY <2>1, <2>2, <2>3, <2>4, <2>5, <2>6 DEF Next, Work
<1>3. KnownInv => NothingForgotten
  BY DEF KnownInv
<1> QED BY <1>1, <1>2, <1>3, TypeCorrect, PTL DEF Spec

\* Where files are reused by digest, a run that came to its end vouches only for
\* what verifies, whatever was interrupted before it.
THEOREM FinishedRunsVerify ==
  ASSUME Provider # "sec_filings"
  PROVE  Spec => []FinishedIsVerified
<1> DEFINE Inv == KeptInv /\ ReportedInv /\ FinishedIsVerified
<1>1. Init => Inv
  BY DEF Init, KeptInv, ReportedInv, FinishedIsVerified
<1>2. TypeOK /\ Inv /\ [Next]_vars => Inv'
  <2> SUFFICES ASSUME TypeOK, Inv, [Next]_vars PROVE Inv'
    OBVIOUS
  <2> USE DEF KeptInv, ReportedInv, FinishedIsVerified
  <2>1. CASE Start
    BY <2>1 DEF Start
  <2>2. CASE Reuse
    BY <2>2 DEF Reuse, Reusable, SameDigest
  <2>3. CASE Retry \/ GiveUp \/ Receive \/ Finish
    BY <2>3 DEF Retry, GiveUp, Receive, Finish, Requesting
  <2>4. CASE RemoveOld
    <3>1. \A d \in Documents \ {Head(todo)} : files'[d] = files[d]
      BY <2>4 DEF RemoveOld, TypeOK, Manifest
    <3>2. kept \subseteq Documents
      BY DEF TypeOK
    <3> QED BY <2>4, <3>1, <3>2 DEF RemoveOld
  <2>5. CASE Publish
    <3>1. kept \subseteq Documents
      BY DEF TypeOK
    <3>2. KeptInv'
      BY <2>5, <3>1, PublishOne
    <3>3. reported = {} /\ reported' = {}
      BY <2>5, PublishOne
    <3> QED BY <3>2, <3>3
  <2>6. CASE RemoveManifest
    BY <2>6 DEF RemoveManifest
  <2>7. CASE Install
    <3>1. CASE pc = "finish"
      <4>1. manifest # None
        BY ParametersAssumption DEF TypeOK, Manifest
      <4>2. \A d \in kept : manifest[d] # None /\ files[d] = manifest[d]
        BY <3>1
      <4> QED BY <2>7, <3>1, <4>1, <4>2 DEF Install, Gone
    <3>2. CASE pc # "finish"
      <4>1. reported = {} /\ pc # "publish" /\ pc # "idle"
        BY <2>7 DEF Install
      <4>2. pc' = "next" /\ UNCHANGED <<files, manifest, kept, reported>>
        BY <2>7, <3>2 DEF Install
      <4> QED BY <4>1, <4>2
    <3> QED BY <3>1, <3>2
  <2>8. CASE Stop
    BY <2>8 DEF Stop, Gone
  <2>9. CASE UNCHANGED vars
    BY <2>9 DEF vars
  <2> QED BY <2>1, <2>2, <2>3, <2>4, <2>5, <2>6, <2>7, <2>8, <2>9 DEF Next, Work
<1>3. Inv => FinishedIsVerified
  OBVIOUS
<1> QED BY <1>1, <1>2, <1>3, TypeCorrect, PTL DEF Spec

-----------------------------------------------------------------------------
(* What a run that dies leaves *)

\* Documents the run added to those on disk that the manifest does not describe.
Lost == Unsaved \ unsaved

\* Documents on disk the manifest in memory does not describe.
Astray == {d \in Documents : files[d] # None /\ manifest[d] # files[d]}

\* What was saved is known; a manifest in memory makes up for all that a run lost;
\* and what it lost was downloaded since the last save.
LossInv ==
  /\ saved # None => Listed(saved) \subseteq known
  /\ pc # "idle" => Astray \subseteq unsaved
  /\ \/ pc \notin {"next", "publish"} /\ saved = None /\ known # {}
     \/ /\ IsFiniteSet(Lost) /\ Cardinality(Lost) <= SaveEvery
        /\ pc \in {"next", "publish"} => Cardinality(Lost) <= downloaded

LEMMA SmallerLoss ==
  ASSUME IsFiniteSet(Lost), NEW S \in SUBSET Lost
  PROVE  IsFiniteSet(S) /\ Cardinality(S) <= Cardinality(Lost) /\ Cardinality(S) \in Nat
BY FS_Subset, FS_CardinalityType

\* A document that is published is one more at most.
LEMMA PublishLoss ==
  ASSUME TypeOK, LossInv, Publish
  PROVE  LossInv'
<1>1. PICK d \in Documents : d = Head(todo)
  BY PublishOne
<1>2. /\ pc = "publish" /\ text # None /\ files'[d] = text /\ manifest'[d] = text
      /\ \A e \in Documents \ {d} : files'[e] = files[e] /\ manifest'[e] = manifest[e]
      /\ UNCHANGED <<saved, known, unsaved>>
  BY <1>1, PublishOne DEF Publish
<1>3. Astray' \subseteq unsaved'
  BY <1>2 DEF Astray, LossInv
<1>4. Lost' \subseteq Lost \cup {d}
  BY <1>2 DEF Lost, Unsaved
<1>5. IsFiniteSet(Lost) /\ Cardinality(Lost) <= downloaded /\ Cardinality(Lost) \in Nat
  BY <1>2, FS_CardinalityType DEF LossInv
<1>6. IsFiniteSet(Lost \cup {d}) /\ Cardinality(Lost \cup {d}) <= Cardinality(Lost) + 1
  <2>1. PICK gone : gone = Lost
    OBVIOUS
  <2>2. IsFiniteSet(gone) /\ Cardinality(gone) \in Nat
    BY <1>5, <2>1
  <2>3. IsFiniteSet(gone \cup {d}) /\ Cardinality(gone \cup {d}) <= Cardinality(gone) + 1
    <3>1. /\ IsFiniteSet(gone \cup {d})
          /\ Cardinality(gone \cup {d})
               = IF d \in gone THEN Cardinality(gone) ELSE Cardinality(gone) + 1
      BY ONLY <2>2, FS_AddElement, Zenon
    <3>2. QED
      BY ONLY <2>2, <3>1
  <2>4. QED
    BY ONLY <2>1, <2>3
<1>7. IsFiniteSet(Lost') /\ Cardinality(Lost') <= downloaded + 1 /\ Cardinality(Lost') \in Nat
  <2>1. IsFiniteSet(Lost') /\ Cardinality(Lost') <= Cardinality(Lost \cup {d})
    BY <1>4, <1>6, FS_Subset
  <2>2. Cardinality(Lost') \in Nat /\ Cardinality(Lost \cup {d}) \in Nat
    BY <2>1, <1>6, FS_CardinalityType
  <2> QED
    BY <2>1, <2>2, <1>5, <1>6 DEF TypeOK
<1>8. downloaded \in 0 .. SaveEvery - 1 /\ SaveEvery \in Nat \ {0}
  BY ParametersAssumption DEF TypeOK
<1>9. CASE downloaded + 1 = SaveEvery
  <2>1. pc' = "checkpoint"
    BY <1>9 DEF Publish, Checkpoint
  <2> QED
    BY <2>1, <1>2, <1>3, <1>7, <1>9 DEF LossInv
<1>10. CASE downloaded + 1 # SaveEvery
  <2>1. (downloaded + 1) % SaveEvery = downloaded + 1
    BY <1>8, <1>10
  <2>2. pc' = "next" /\ downloaded' = downloaded + 1
    BY <2>1, <1>10 DEF Publish, Checkpoint
  <2>3. Cardinality(Lost') <= SaveEvery
    BY <1>7, <1>8
  <2> QED
    BY <2>2, <2>3, <1>2, <1>3, <1>7 DEF LossInv
<1> QED
  BY <1>9, <1>10

\* Wherever a run dies, except while the manifest is away, at most SaveEvery
\* documents are added to those the manifest does not describe.
THEOREM LossIsBounded == Spec => []BoundedLoss
<1> USE ParametersAssumption
<1>1. Init => LossInv
  <2> SUFFICES ASSUME Init PROVE LossInv
    OBVIOUS
  <2>1. Lost = {}
    BY DEF Init, Lost, Unsaved, Nothing
  <2>2. IsFiniteSet(Lost) /\ Cardinality(Lost) = 0
    BY <2>1, FS_EmptySet
  <2> QED
    BY <2>2 DEF Init, LossInv
<1>2. TypeOK /\ LossInv /\ [Next]_vars => LossInv'
  <2> SUFFICES ASSUME TypeOK, LossInv, [Next]_vars PROVE LossInv'
    OBVIOUS
  <2>1. CASE Start
    <3>1. Lost' = {}
      BY <2>1 DEF Start, Lost, Unsaved
    <3>2. IsFiniteSet(Lost') /\ Cardinality(Lost') = 0
      BY <3>1, FS_EmptySet
    <3>3. Astray' \subseteq unsaved'
      BY <2>1 DEF Start, LoadOrNew, Astray, Unsaved, Nothing
    <3>4. pc' = "next" /\ downloaded' \in Nat /\ saved' = saved
      BY <2>1 DEF Start, TypeOK
    <3>5. saved' # None => Listed(saved') \subseteq known'
      BY <2>1 DEF Start, LossInv
    <3> QED
      BY <3>2, <3>3, <3>4, <3>5 DEF LossInv
  <2>2. CASE Reuse \/ Retry \/ GiveUp \/ Receive
    <3>1. /\ pc = "next" /\ pc' \in {"next", "publish"}
          /\ UNCHANGED <<files, saved, manifest, downloaded, unsaved, known>>
      BY <2>2 DEF Reuse, Retry, GiveUp, Receive, Requesting
    <3>2. Lost' = Lost /\ Astray' = Astray
      BY <3>1 DEF Lost, Unsaved, Astray
    <3> QED
      BY <3>1, <3>2 DEF LossInv
  <2>3. CASE RemoveOld
    <3>1. /\ pc = "publish" /\ pc' = pc
          /\ UNCHANGED <<saved, manifest, downloaded, unsaved, known>>
          /\ \A d \in Documents : files'[d] = files[d] \/ files'[d] = None
      BY <2>3 DEF RemoveOld, TypeOK, Manifest
    <3>2. Lost' \subseteq Lost /\ Astray' \subseteq Astray
      BY <3>1 DEF Lost, Unsaved, Astray
    <3>3. IsFiniteSet(Lost) /\ Cardinality(Lost) <= downloaded /\ Cardinality(Lost) <= SaveEvery
      BY <3>1 DEF LossInv
    <3>4. IsFiniteSet(Lost') /\ Cardinality(Lost') <= Cardinality(Lost)
      BY <3>2, <3>3, SmallerLoss
    <3>5. Cardinality(Lost') \in Nat /\ Cardinality(Lost) \in Nat
      BY <3>3, <3>4, FS_CardinalityType
    <3>6. Cardinality(Lost') <= downloaded' /\ Cardinality(Lost') <= SaveEvery
      BY <3>1, <3>3, <3>4, <3>5 DEF TypeOK
    <3> QED
      BY <3>1, <3>2, <3>4, <3>6 DEF LossInv
  <2>4. CASE Publish
    BY <2>4, PublishLoss
  <2>5. CASE Finish
    <3>1. /\ pc = "next" /\ pc' = "finish"
          /\ UNCHANGED <<files, saved, manifest, unsaved, known>>
      BY <2>5 DEF Finish
    <3>2. Lost' = Lost /\ Astray' = Astray
      BY <3>1 DEF Lost, Unsaved, Astray
    <3> QED
      BY <3>1, <3>2 DEF LossInv
  <2>6. CASE RemoveManifest
    <3>1. /\ pc \in {"checkpoint", "finish"} /\ pc' = pc /\ saved # None /\ saved' = None
          /\ UNCHANGED <<files, manifest, unsaved, known>>
      BY <2>6 DEF RemoveManifest
    <3>2. Astray' = Astray
      BY <3>1 DEF Astray
    <3>3. CASE known = {}
      <4>1. \A d \in Documents : saved[d] = None
        BY <3>1, <3>3 DEF LossInv, Listed
      <4>2. Lost' = Lost
        BY <3>1, <4>1 DEF Lost, Unsaved
      <4> QED
        BY <3>1, <3>2, <4>2 DEF LossInv
    <3>4. CASE known # {}
      BY <3>1, <3>2, <3>4 DEF LossInv
    <3> QED
      BY <3>3, <3>4
  <2>7. CASE Install
    <3>1. /\ pc # "idle" /\ saved' = manifest /\ known' = known \cup Listed(manifest)
          /\ UNCHANGED <<files, unsaved>> /\ manifest # None
          /\ pc' = "idle" \/ (pc' = "next" /\ manifest' = manifest /\ downloaded' = downloaded)
      BY <2>7 DEF Install, Gone, TypeOK, Manifest
    <3>2. Lost' = {}
      BY <3>1 DEF Lost, Unsaved, Astray, LossInv
    <3>3. IsFiniteSet(Lost') /\ Cardinality(Lost') = 0
      BY <3>2, FS_EmptySet
    <3>4. pc' # "idle" => Astray' \subseteq unsaved'
      BY <3>1 DEF Astray, LossInv
    <3>5. Listed(saved') \subseteq known'
      BY <3>1
    <3>6. pc' # "idle" => downloaded' \in Nat
      BY <3>1 DEF TypeOK
    <3> QED
      BY <3>1, <3>3, <3>4, <3>5, <3>6 DEF LossInv
  <2>8. CASE Stop
    <3>1. pc' = "idle" /\ UNCHANGED <<files, saved, unsaved, known>>
      BY <2>8 DEF Stop, Gone
    <3>2. Lost' = Lost
      BY <3>1 DEF Lost, Unsaved
    <3> QED
      BY <3>1, <3>2 DEF LossInv
  <2>9. CASE UNCHANGED vars
    <3>1. Lost' = Lost /\ Astray' = Astray
      BY <2>9 DEF vars, Lost, Unsaved, Astray
    <3> QED
      BY <2>9, <3>1 DEF vars, LossInv
  <2> QED
    BY <2>1, <2>2, <2>3, <2>4, <2>5, <2>6, <2>7, <2>8, <2>9 DEF Next, Work
<1>3. LossInv => BoundedLoss
  BY DEF LossInv, BoundedLoss, Lost
<1> QED
  BY <1>1, <1>2, <1>3, TypeCorrect, PTL DEF Spec

-----------------------------------------------------------------------------
(* Collections: what an import makes of files, and which pairs it compares *)

PathNames == {Slug(x) : x \in Strings}
                 \cup {Slug(y[1]) \o <<Hyphen, y[2]>> : y \in Strings \X Int}
DocumentTypes == [id : Strings, source : Int, stored : PathNames, family : Int, version : Int,
                  date : Int, digest : Int]
RelationKinds == {"previous_version", "amendment_of", "supersedes", "related_to"}
RelationTypes == [from : Strings, to : Strings, kind : RelationKinds]
ImportStates == [documents : Seq(DocumentTypes), paths : SUBSET PathNames,
                 relations : SUBSET RelationTypes, failed : BOOLEAN]

LEMMA IdOrderIs ==
  ASSUME NEW id \in Strings
  PROVE  IdOrder(id) \in Keys(IdLength) /\ IdLength \in Nat
<1>1. IdLength \in Nat
  BY SourcesAssumption
<1>2. \A k \in 1..IdLength : k \in DOMAIN id => id[k] \in Int
  BY ElementOfSeq DEF Strings
<1>3. QED
  BY <1>1, <1>2 DEF IdOrder, Keys

\* The files of an import, in the order of their paths.
LEMMA EligibleIs ==
  ASSUME NEW source \in Sources
  PROVE  Eligible(source.files, source.options) \in Seq(FileTypes)
<1>1. PICK S : S = {f \in source.files : source.options.allFiles \/ f.listed}
  OBVIOUS
<1>2. IsFiniteSet(S) /\ S \in SUBSET FileTypes
  <2>1. IsFiniteSet(source.files) /\ source.files \subseteq FileTypes
    BY SourcesAssumption
  <2>2. QED
    BY <1>1, <2>1, FS_Subset
<1>3. PICK key : key = [f \in S |-> <<f.path>>]
  OBVIOUS
<1>4. key \in [S -> Keys(1)]
  <2>1. ASSUME NEW f \in S
        PROVE  <<f.path>> \in Keys(1)
    <3>1. f.path \in Int
      BY <1>2 DEF FileTypes
    <3>2. QED
      BY <3>1, KeyOfOne
  <2>2. QED
    BY <1>3, <2>1
<1>5. Eligible(source.files, source.options) = OrderedBy(S, key)
  BY <1>1, <1>3, Zenon DEF Eligible, Ordered
<1>6. Sorts(OrderedBy(S, key), S, key)
  BY <1>2, <1>4, OrderedByIs
<1>7. OrderedBy(S, key) \in Seq(S)
  BY <1>6 DEF Sorts
<1>8. QED
  BY <1>2, <1>5, <1>7

\* The row of a file is well typed, whether there is one or not.
LEMMA RowOfIs ==
  ASSUME NEW rows \in Seq(RowTypes), NEW path \in Int
  PROVE  RowOf(rows, path) \in RowTypes
<1>1. PICK s : s = RowsOf(rows, path)
  OBVIOUS
<1>2. s \in Seq(Range(rows))
  <2>1. PICK places : s = AtPlaces(rows, places)
    BY <1>1 DEF RowsOf, Filtered
  <2>2. Gathers(s, rows, places, Len(rows))
    BY <2>1, AtPlacesIs
  <2>3. QED
    BY <2>2 DEF Gathers
<1>3. CASE s = <<>>
  <2>1. NoRow(path) \in RowTypes
    BY DEF NoRow, RowTypes, NoName, Unstated, Strings
  <2>2. QED
    BY <1>1, <1>3, <2>1 DEF RowOf
<1>4. CASE s # <<>>
  <2>1. 1 \in 1..Len(s)
    <3>1. Len(s) \in Nat /\ Len(s) # 0
      BY <1>2, <1>4, EmptySeq
    <3>2. QED
      BY <3>1
  <2>2. s[1] \in Range(rows)
    BY <1>2, <2>1, ElementOfSeq
  <2>3. Range(rows) \in SUBSET RowTypes
    BY RangeOfSeq
  <2>4. QED
    BY <1>1, <1>4, <2>2, <2>3 DEF RowOf
<1>5. QED
  BY <1>3, <1>4

\* What a file becomes is well typed.
LEMMA NamesAre ==
  ASSUME NEW file \in FileTypes, NEW row \in RowTypes
  PROVE  /\ FamilyOf(file, row) \in Int /\ DateOf(file, row) \in Int /\ VersionOf(file, row) \in Int
         /\ \A used : FreshId(used, file, row) \in Strings
         /\ \A used : \A id \in Strings : FreshPath(used, file, id) \in PathNames
<1>1. /\ file.family \in Int /\ file.date \in Int /\ file.stem \in Int /\ file.digest \in Int
      /\ row.family \in Int /\ row.date \in Int /\ row.version \in Int /\ row.id \in Seq(Int)
  BY DEF FileTypes, RowTypes, Strings
<1>2. /\ FamilyOf(file, row) \in Int /\ DateOf(file, row) \in Int /\ VersionOf(file, row) \in Int
  BY <1>1 DEF FamilyOf, DateOf, VersionOf, Given
<1>3. Hyphen \in Int
  BY DEF Hyphen
<1>4. BaseId(file, row) \in Seq(Int)
  BY <1>1, <1>2, <1>3 DEF BaseId
<1>5. \A used : FreshId(used, file, row) \in Strings
  <2>1. <<Hyphen, file.digest>> \in Seq(Int)
    BY <1>1, <1>3
  <2>2. BaseId(file, row) \o <<Hyphen, file.digest>> \in Seq(Int)
    BY <1>4, <2>1, ConcatProperties
  <2>3. QED
    BY <1>4, <2>2 DEF FreshId, WithDigest, Strings
<1>6. ASSUME NEW used, NEW id \in Strings
      PROVE  FreshPath(used, file, id) \in PathNames
  <2>1. Slug(id) \in PathNames
    BY DEF PathNames
  <2>2. Slug(id) \o <<Hyphen, file.digest>> \in PathNames
    <3>1. PICK n \in Int : n = file.digest
      BY <1>1
    <3>2. <<id, n>> \in Strings \X Int /\ <<id, n>>[1] = id /\ <<id, n>>[2] = n
      OBVIOUS
    <3>3. Slug(id) \o <<Hyphen, n>> \in {Slug(y[1]) \o <<Hyphen, y[2]>> : y \in Strings \X Int}
      BY <3>2
    <3>4. QED
      BY <3>1, <3>3 DEF PathNames
  <2>3. QED
    BY <2>1, <2>2 DEF FreshPath, WithDigest
<1>7. QED
  BY <1>2, <1>5, <1>6

LEMMA RelationsAre ==
  ASSUME NEW row \in RowTypes, NEW id \in Strings
  PROVE  ExplicitRelations(id, row) \in SUBSET RelationTypes
<1>1. /\ row.previous \in Strings /\ row.amends \in Strings /\ row.supersedes \in Strings
      /\ row.related \in SUBSET Strings
  BY DEF RowTypes
<1> DEFINE R == {x \in {<<row.previous, "previous_version">>, <<row.amends, "amendment_of">>,
                        <<row.supersedes, "supersedes">>} : x[1] # NoName}
                    \cup {<<x, "related_to">> : x \in row.related}
<1>2. ASSUME NEW r \in R
      PROVE  r[1] \in Strings /\ r[2] \in RelationKinds
  <2>1. CASE \E x \in row.related : r = <<x, "related_to">>
    <3>1. PICK x \in Strings : r = <<x, "related_to">>
      BY <1>1, <2>1, Zenon
    <3>2. r[1] = x /\ r[2] = "related_to"
      BY <3>1
    <3>3. QED
      BY <3>2 DEF RelationKinds
  <2>2. CASE ~\E x \in row.related : r = <<x, "related_to">>
    <3>1. \/ r = <<row.previous, "previous_version">> \/ r = <<row.amends, "amendment_of">>
          \/ r = <<row.supersedes, "supersedes">>
      BY <2>2
    <3>2. \/ r[1] = row.previous /\ r[2] = "previous_version"
          \/ r[1] = row.amends /\ r[2] = "amendment_of"
          \/ r[1] = row.supersedes /\ r[2] = "supersedes"
      BY <3>1
    <3>3. QED
      BY <1>1, <3>2 DEF RelationKinds
  <2>3. QED
    BY <2>1, <2>2
<1>3. ASSUME NEW e \in ExplicitRelations(id, row)
      PROVE  e \in RelationTypes
  <2>1. PICK r \in R : e = [from |-> id, to |-> r[1], kind |-> r[2]]
    BY DEF ExplicitRelations
  <2>2. QED
    BY <1>2, <2>1 DEF RelationTypes
<1>4. QED
  BY <1>3

LEMMA ImportFileIs ==
  ASSUME NEW state \in ImportStates, NEW file \in FileTypes, NEW rows \in Seq(RowTypes), NEW options
  PROVE  ImportFile(state, file, rows, options) \in ImportStates
<1>1. PICK row \in RowTypes : row = RowOf(rows, file.path)
  <2>1. file.path \in Int
    BY DEF FileTypes
  <2>2. QED
    BY <2>1, RowOfIs
<1>2. PICK id \in Strings : id = FreshId(IdsOf(state.documents), file, row)
  BY NamesAre
<1>3. PICK stored \in PathNames : stored = FreshPath(state.paths, file, id)
  BY NamesAre
<1>4. /\ state.documents \in Seq(DocumentTypes) /\ state.paths \in SUBSET PathNames
      /\ state.relations \in SUBSET RelationTypes /\ state.failed \in BOOLEAN
  BY DEF ImportStates
<1>5. DocumentRecord(file, row, id, stored) \in DocumentTypes
  <2>1. file.path \in Int /\ file.digest \in Int
    BY DEF FileTypes
  <2>2. FamilyOf(file, row) \in Int /\ DateOf(file, row) \in Int /\ VersionOf(file, row) \in Int
    BY NamesAre
  <2>3. QED
    BY <2>1, <2>2 DEF DocumentRecord, DocumentTypes
<1>6. AddDocument(state, file, row, id, stored) \in ImportStates
  <2>1. PICK d \in DocumentTypes : d = DocumentRecord(file, row, id, stored)
    BY <1>5
  <2>2. PICK r \in SUBSET RelationTypes : r = ExplicitRelations(id, row)
    BY RelationsAre
  <2>3. AddDocument(state, file, row, id, stored)
          = [state EXCEPT !.documents = Append(@, d), !.paths = @ \cup {stored},
                          !.relations = @ \cup r]
    BY <2>1, <2>2 DEF AddDocument
  <2>4. Append(state.documents, d) \in Seq(DocumentTypes)
    BY <1>4
  <2>5. QED
    BY <1>4, <2>3, <2>4 DEF ImportStates
<1>7. [state EXCEPT !.failed = TRUE] \in ImportStates
  BY DEF ImportStates
<1>8. AddNamed(state, file, row, id) \in ImportStates
  BY <1>3, <1>6, <1>7 DEF AddNamed
<1>9. QED
  BY <1>1, <1>2, <1>8 DEF ImportFile

\* The states an import goes through, one file after another.
FilesOf(source) == Eligible(source.files, source.options)
Passes(g, source) ==
    /\ g \in [0..Len(FilesOf(source)) -> ImportStates] /\ g[0] = Started
    /\ \A i \in 1..Len(FilesOf(source)) :
           g[i] = ImportFile(g[i - 1], FilesOf(source)[i], source.rows, source.options)
    /\ g[Len(FilesOf(source))] = WholeImport(source)

LEMMA WholeIs ==
  ASSUME NEW source \in Sources
  PROVE  \E g : Passes(g, source)
<1>1. PICK s \in Seq(FileTypes) : s = FilesOf(source)
  BY EligibleIs DEF FilesOf
<1>2. PICK n \in Nat : n = Len(s) /\ DOMAIN s = 1..n
  BY LenProperties
<1>3. PICK rows, options : rows = source.rows /\ options = source.options
  OBVIOUS
<1>3a. rows \in Seq(RowTypes)
  BY <1>3, SourcesAssumption
<1>4. \A i \in 1..n : s[i] \in FileTypes
  BY <1>2, ElementOfSeq
<1>5. PICK X : X = ImportStates
  OBVIOUS
<1> DEFINE one(state, f) == ImportFile(state, f, rows, options)
           step == [i \in 1..n |-> [state \in X |-> one(state, s[i])]]
           Body(g) == [T \in SUBSET (1..n) |->
                         IF T = {} THEN Started ELSE one(g[T \ {Max(T)}], s[Max(T)])]
           iter == CHOOSE g : g = Body(g)
<1>6. Started \in X
  <2>1. <<>> \in Seq(DocumentTypes)
    OBVIOUS
  <2>2. QED
    BY <1>5, <2>1 DEF Started, ImportStates
<1>7. ASSUME NEW state \in X, NEW f \in FileTypes
      PROVE  one(state, f) \in X
  BY <1>3a, <1>5, ImportFileIs
<1>8. step \in [1..n -> [X -> X]]
  <2> HIDE DEF one
  <2>1. QED
    BY <1>4, <1>7
<1>9. ASSUME NEW g, NEW T \in SUBSET (1..n), T # {}, g[T \ {Max(T)}] \in X
      PROVE  Body(g)[T] = step[Max(T)][g[T \ {Max(T)}]]
  <2>1. Max(T) \in 1..n
    <3>1. T \in SUBSET (0..n)
      OBVIOUS
    <3>2. QED
      BY <1>9, <3>1, MaxIs
  <2> HIDE DEF one
  <2>2. QED
    BY <1>9, <2>1
<1>10. PICK g \in [SUBSET (1..n) -> X] : FoldsUp(g, Started, step, n)
  <2> HIDE DEF step
  <2>1. QED
    BY <1>6, <1>8, Folding
<1>11. g = Body(g)
  <2>1. ASSUME NEW T \in SUBSET (1..n)
        PROVE  g[T] = Body(g)[T]
    <3>1. CASE T = {}
      BY <1>10, <3>1 DEF FoldsUp
    <3>2. CASE T # {}
      <4>1. g[T] = step[Max(T)][g[T \ {Max(T)}]] /\ g[T \ {Max(T)}] \in X
        <5> HIDE DEF step
        <5>1. QED
          BY <1>10, <3>2 DEF FoldsUp
      <4> HIDE DEF Body, step
      <4>2. QED
        BY <1>9, <3>2, <4>1
    <3>3. QED
      BY <3>1, <3>2
  <2>2. DOMAIN g = SUBSET (1..n)
    BY <1>10
  <2> HIDE DEF one
  <2>3. QED
    BY <2>1, <2>2
<1>12. iter = Body(iter)
  BY <1>11, Zenon
<1>13. WholeImport(source) = iter[1..n]
  BY <1>1, <1>2, <1>3, Zenon DEF WholeImport, FilesOf, FoldLeft, MapThenFoldSet
<1> HIDE DEF iter
<1>14. FoldsIn(iter, Started, step, n, X)
  <2>1. iter[{}] = Started
    <3>1. {} \in SUBSET (1..n)
      OBVIOUS
    <3> HIDE DEF one
    <3>2. QED
      BY <1>12, <3>1
  <2> HIDE DEF step, Body
  <2>2. QED
    BY <1>9, <1>12, <2>1 DEF FoldsIn
<1>15. PICK h \in [0..n -> X] : Iterates(h, Started, step, n) /\ iter[1..n] = h[n]
  <2> HIDE DEF step, Body
  <2>1. PICK p, i : p = step /\ i = iter
    OBVIOUS
  <2>2. p \in [1..n -> [X -> X]] /\ FoldsIn(i, Started, p, n, X)
    BY <1>8, <1>14, <2>1
  <2>3. \E h \in [0..n -> X] : Iterates(h, Started, p, n) /\ i[1..n] = h[n]
    BY <1>6, <2>2, Folded, SMTT(60)
  <2>4. QED
    BY <2>1, <2>3
<1>16. h[0] = Started /\ \A i \in 1..n : h[i] = one(h[i - 1], s[i])
  <2>1. h[0] = Started /\ \A i \in 1..n : h[i] = step[i][h[i - 1]]
    BY <1>15 DEF Iterates
  <2>2. \A i \in 1..n : h[i - 1] \in X
    BY <1>15
  <2> HIDE DEF one
  <2>3. QED
    BY <2>1, <2>2
<1>17. QED
  BY <1>1, <1>2, <1>3, <1>5, <1>13, <1>15, <1>16 DEF Passes

\* The manifest of an import lists what was imported.
LEMMA ManifestIs ==
  ASSUME NEW state \in ImportStates, NEW options
  PROVE  /\ ManifestOf(state, options).documents \in Seq(DocumentTypes)
         /\ Range(ManifestOf(state, options).documents) = Range(state.documents)
<1>1. PICK S : S = Range(state.documents)
  OBVIOUS
<1>2. IsFiniteSet(S) /\ S \in SUBSET DocumentTypes
  <2>1. state.documents \in Seq(DocumentTypes)
    BY DEF ImportStates
  <2>2. QED
    BY <1>1, <2>1, RangeOfSeq, RangeIsFinite
<1>3. PICK key : key = [d \in S |-> IdOrder(d.id)]
  OBVIOUS
<1>4. key \in [S -> Keys(IdLength)]
  <2>1. \A d \in S : d.id \in Strings
    BY <1>2 DEF DocumentTypes
  <2>2. QED
    BY <1>3, <2>1, IdOrderIs
<1>5. ManifestOf(state, options).documents = OrderedBy(S, key)
  <2>1. ManifestOf(state, options).documents = Ordered(Range(state.documents), LAMBDA d : IdOrder(d.id))
    BY DEF ManifestOf
  <2>2. QED
    BY <1>1, <1>3, <2>1, Zenon DEF Ordered
<1>6. Sorts(OrderedBy(S, key), S, key)
  <2>1. IdLength \in Nat
    BY SourcesAssumption
  <2>2. QED
    BY <1>2, <1>4, <2>1, OrderedByIs
<1>7. OrderedBy(S, key) \in Seq(S) /\ Range(OrderedBy(S, key)) = S
  BY <1>6 DEF Sorts
<1>8. QED
  BY <1>1, <1>2, <1>5, <1>7

\* The documents of the scope are documents of the manifest.
LEMMA ScopedIs ==
  ASSUME NEW collected, collected.documents \in Seq(DocumentTypes), NEW family, NEW maximum \in Nat
  PROVE  /\ Scoped(collected, family, maximum) \in Seq(DocumentTypes)
         /\ Range(Scoped(collected, family, maximum)) \subseteq Range(collected.documents)
<1>1. PICK documents \in Seq(DocumentTypes) : documents = collected.documents
  OBVIOUS
<1>2. PICK places : Scoped(collected, family, maximum) = Truncate(AtPlaces(documents, places), maximum)
  BY <1>1 DEF Scoped, Filtered
<1>3. Gathers(AtPlaces(documents, places), documents, places, Len(documents))
  BY AtPlacesIs
<1>4. PICK s : s = AtPlaces(documents, places)
  OBVIOUS
<1>5. s \in Seq(Range(documents))
  BY <1>3, <1>4 DEF Gathers
<1>6. Truncate(s, maximum) \in Seq(Range(documents))
  BY <1>5, TruncateIs
<1>7. Range(documents) \subseteq DocumentTypes
  BY RangeOfSeq
<1>8. Range(Truncate(s, maximum)) \subseteq Range(documents)
  BY <1>6, RangeOfSeq
<1>9. Truncate(s, maximum) \in Seq(DocumentTypes)
  <2>1. Seq(Range(documents)) \subseteq Seq(DocumentTypes)
    BY <1>7
  <2>2. QED
    BY <1>6, <2>1
<1>10. QED
  BY <1>1, <1>2, <1>4, <1>8, <1>9

\* The versions of a family are documents.
LEMMA FamilyIs ==
  ASSUME NEW documents \in Seq(DocumentTypes), NEW family
  PROVE  Family(documents, family) \in Seq(Range(documents))
<1>1. PICK S : S = {d \in Range(documents) : d.family = family}
  OBVIOUS
<1>2. IsFiniteSet(S) /\ S \in SUBSET DocumentTypes
  <2>1. IsFiniteSet(Range(documents)) /\ Range(documents) \subseteq DocumentTypes
    BY RangeOfSeq, RangeIsFinite
  <2>2. QED
    BY <1>1, <2>1, FS_Subset
<1>3. PICK key : key = [d \in S |-> VersionKey(d)]
  OBVIOUS
<1>4. PICK m \in Nat : m = 2 + IdLength
  BY SourcesAssumption
<1>5. key \in [S -> Keys(m)]
  <2>1. ASSUME NEW d \in S
        PROVE  VersionKey(d) \in Keys(m)
    <3>1. d.date \in Int /\ d.version \in Int /\ d.id \in Strings
      BY <1>2 DEF DocumentTypes
    <3>2. <<d.date, d.version>> \in Keys(2) /\ IdOrder(d.id) \in Keys(IdLength) /\ IdLength \in Nat
      BY <3>1, KeyOfTwo, IdOrderIs
    <3>3. <<d.date, d.version>> \o IdOrder(d.id) \in Keys(2 + IdLength)
      BY <3>2, KeysJoin
    <3>4. QED
      BY <1>4, <3>3 DEF VersionKey
  <2>2. QED
    BY <1>3, <2>1
<1>6. Family(documents, family) = OrderedBy(S, key)
  BY <1>1, <1>3, Zenon DEF Family, Ordered
<1>7. Sorts(OrderedBy(S, key), S, key)
  BY <1>2, <1>4, <1>5, OrderedByIs
<1>8. OrderedBy(S, key) \in Seq(S)
  BY <1>7 DEF Sorts
<1>9. S \subseteq Range(documents)
  BY <1>1
<1>10. QED
  BY <1>6, <1>8, <1>9

\* A pair that is compared is of two documents of the scope.
PairsAmong(scoped) == {Pair(p[1], p[2]) : p \in Range(scoped) \X Range(scoped)}
LEMMA PairsAre ==
  ASSUME NEW collected, NEW scoped \in Seq(DocumentTypes)
  PROVE  /\ RelatedPairs(collected, scoped) \cup AdjacentPairs(scoped) \subseteq PairsAmong(scoped)
         /\ IsFiniteSet(PairsAmong(scoped))
<1>1. RelatedPairs(collected, scoped) \subseteq PairsAmong(scoped)
  BY DEF RelatedPairs, PairsAmong
<1>2. AllAdjacent(scoped) \subseteq Range(scoped) \X Range(scoped)
  <2>1. ASSUME NEW f, NEW i \in 1..(Len(Family(scoped, f)) - 1)
        PROVE  <<Family(scoped, f)[i], Family(scoped, f)[i + 1]>> \in Range(scoped) \X Range(scoped)
    <3>1. PICK v \in Seq(Range(scoped)) : v = Family(scoped, f)
      BY FamilyIs
    <3>2. i \in 1..Len(v) /\ i + 1 \in 1..Len(v)
      BY <3>1, LenProperties
    <3>3. v[i] \in Range(scoped) /\ v[i + 1] \in Range(scoped)
      BY <3>2, ElementOfSeq
    <3>4. QED
      BY <3>1, <3>3
  <2>2. ASSUME NEW p \in AllAdjacent(scoped)
        PROVE  p \in Range(scoped) \X Range(scoped)
    <3>1. PICK f : p \in Adjacent(Family(scoped, f))
      BY DEF AllAdjacent
    <3>2. PICK i \in 1..(Len(Family(scoped, f)) - 1) :
              p = <<Family(scoped, f)[i], Family(scoped, f)[i + 1]>>
      BY <3>1 DEF Adjacent
    <3>3. QED
      BY <2>1, <3>2
  <2>3. QED
    BY <2>2
<1>3. AdjacentPairs(scoped) \subseteq PairsAmong(scoped)
  BY <1>2 DEF AdjacentPairs, PairsAmong
<1>4. IsFiniteSet(Range(scoped) \X Range(scoped))
  BY RangeIsFinite, FS_Product
<1>5. IsFiniteSet(PairsAmong(scoped))
  <2>1. PICK P : P = Range(scoped) \X Range(scoped)
    OBVIOUS
  <2>2. PICK f : f = [p \in P |-> Pair(p[1], p[2])]
    OBVIOUS
  <2>3. f \in [P -> PairsAmong(scoped)]
    BY <2>1, <2>2 DEF PairsAmong
  <2>4. \A y \in PairsAmong(scoped) : \E p \in P : f[p] = y
    BY <2>1, <2>2 DEF PairsAmong
  <2>5. f \in Surjection(P, PairsAmong(scoped))
    BY <2>3, <2>4 DEF Surjection
  <2>6. QED
    BY <1>4, <2>1, <2>5, FS_Surjection
<1>6. QED
  BY <1>1, <1>3, <1>5

\* Every pair of the relations and of adjacent versions is compared once.
LEMMA ComparisonPairsAre ==
  ASSUME NEW collected, NEW scoped \in Seq(DocumentTypes)
  PROVE  LET pairs == ComparisonPairs(collected, scoped)
         IN  /\ pairs \in Seq(PairsAmong(scoped))
             /\ Range(pairs) = RelatedPairs(collected, scoped) \cup AdjacentPairs(scoped)
             /\ \A i, j \in 1..Len(pairs) : pairs[i] = pairs[j] => i = j
<1>1. PICK S : S = RelatedPairs(collected, scoped) \cup AdjacentPairs(scoped)
  OBVIOUS
<1>2. S \subseteq PairsAmong(scoped) /\ IsFiniteSet(S)
  <2>1. S \subseteq PairsAmong(scoped) /\ IsFiniteSet(PairsAmong(scoped))
    BY <1>1, PairsAre
  <2>2. QED
    BY <2>1, FS_Subset
<1>3. PICK key : key = [p \in S |-> <<p.family, p.version>> \o IdOrder(p.current) \o IdOrder(p.previous)]
  OBVIOUS
<1>4. PICK m \in Nat : m = 2 + IdLength + IdLength
  BY SourcesAssumption
<1>5. key \in [S -> Keys(m)]
  <2>1. ASSUME NEW p \in S
        PROVE  <<p.family, p.version>> \o IdOrder(p.current) \o IdOrder(p.previous) \in Keys(m)
    <3>1. PICK x \in Range(scoped) \X Range(scoped) : p = Pair(x[1], x[2])
      BY <1>2 DEF PairsAmong
    <3>2. x[1] \in DocumentTypes /\ x[2] \in DocumentTypes
      BY RangeOfSeq
    <3>3. p.family \in Int /\ p.version \in Int /\ p.current \in Strings /\ p.previous \in Strings
      BY <3>1, <3>2 DEF Pair, DocumentTypes
    <3>4. /\ <<p.family, p.version>> \in Keys(2) /\ IdOrder(p.current) \in Keys(IdLength)
          /\ IdOrder(p.previous) \in Keys(IdLength) /\ IdLength \in Nat
      BY <3>3, KeyOfTwo, IdOrderIs
    <3>5. <<p.family, p.version>> \o IdOrder(p.current) \in Keys(2 + IdLength)
      BY <3>4, KeysJoin
    <3>6. 2 + IdLength \in Nat
      BY <3>4
    <3>7. <<p.family, p.version>> \o IdOrder(p.current) \o IdOrder(p.previous)
              \in Keys((2 + IdLength) + IdLength)
      BY <3>4, <3>5, <3>6, KeysJoin
    <3>8. QED
      BY <1>4, <3>7
  <2>2. QED
    BY <1>3, <2>1
<1>6. ComparisonPairs(collected, scoped) = OrderedBy(S, key)
  BY <1>1, <1>3, Zenon DEF ComparisonPairs, Ordered
<1>7. PICK pairs : pairs = OrderedBy(S, key)
  OBVIOUS
<1>8. Sorts(pairs, S, key)
  BY <1>2, <1>4, <1>5, <1>7, OrderedByIs
<1>9. pairs \in Seq(S) /\ Range(pairs) = S
  BY <1>8 DEF Sorts
<1>10. ASSUME NEW i \in 1..Len(pairs), NEW j \in 1..Len(pairs), pairs[i] = pairs[j]
       PROVE  i = j
  <2>1. ~(i < j) /\ ~(j < i)
    BY <1>8, <1>10, Zenon DEF Sorts
  <2>2. i \in Int /\ j \in Int
    OBVIOUS
  <2>3. QED
    BY <2>1, <2>2
<1>11. pairs \in Seq(PairsAmong(scoped))
  BY <1>2, <1>9
<1>12. QED
  BY <1>1, <1>6, <1>7, <1>9, <1>10, <1>11

\* Two pairs of a scope whose names differ when written have files of their own.
LEMMA ReportNamesDiffer ==
  ASSUME NEW scoped \in Seq(DocumentTypes), SafeNamesDiffer(scoped),
         NEW p \in PairsAmong(scoped), NEW q \in PairsAmong(scoped), ReportName(p) = ReportName(q)
  PROVE  p = q
<1>1. PICK x \in Range(scoped) \X Range(scoped) : p = Pair(x[1], x[2])
  BY DEF PairsAmong
<1>2. PICK y \in Range(scoped) \X Range(scoped) : q = Pair(y[1], y[2])
  BY DEF PairsAmong
<1>3. SafeName(p.previous) = SafeName(q.previous) /\ SafeName(p.current) = SafeName(q.current)
  BY DEF ReportName
<1>4. p.previous = x[1].id /\ p.current = x[2].id /\ q.previous = y[1].id /\ q.current = y[2].id
  BY <1>1, <1>2 DEF Pair
<1>5. x[1] = y[1]
  <2>1. SafeName(x[1].id) = SafeName(y[1].id)
    BY <1>3, <1>4
  <2>2. x[1] \in Range(scoped) /\ y[1] \in Range(scoped)
    OBVIOUS
  <2>3. QED
    BY <2>1, <2>2 DEF SafeNamesDiffer
<1>6. x[2] = y[2]
  <2>1. SafeName(x[2].id) = SafeName(y[2].id)
    BY <1>3, <1>4
  <2>2. x[2] \in Range(scoped) /\ y[2] \in Range(scoped)
    OBVIOUS
  <2>3. QED
    BY <2>1, <2>2 DEF SafeNamesDiffer
<1>7. QED
  BY <1>1, <1>2, <1>5, <1>6

\* Each pair is listed once, and where names differ has a file of its own.
LEMMA PairsAreCounted ==
  ASSUME NEW S, NEW s \in Seq(S), \A i, j \in 1..Len(s) : s[i] = s[j] => i = j
  PROVE  /\ \A p \in Range(s) : TimesListed(s, p) = 1
         /\ (\A p, q \in S : ReportName(p) = ReportName(q) => p = q) =>
                Cardinality({ReportName(s[i]) : i \in 1..Len(s)}) = Len(s)
<1>1. PICK n \in Nat : n = Len(s) /\ DOMAIN s = 1..n
  BY LenProperties
<1>2. ASSUME NEW p \in Range(s)
      PROVE  TimesListed(s, p) = 1
  <2>1. PICK i \in 1..n : p = s[i]
    BY <1>1 DEF Range
  <2>2. {k \in DOMAIN s : s[k] = p} = {i}
    BY <1>1, <2>1
  <2>3. QED
    BY <2>2, FS_Singleton DEF TimesListed
<1>3. ASSUME \A p, q \in S : ReportName(p) = ReportName(q) => p = q
      PROVE  Cardinality({ReportName(s[i]) : i \in 1..Len(s)}) = Len(s)
  <2>1. PICK T : T = {ReportName(s[i]) : i \in 1..n}
    OBVIOUS
  <2>2. PICK f : f = [i \in 1..n |-> ReportName(s[i])]
    OBVIOUS
  <2>3. f \in [1..n -> T] /\ \A y \in T : \E i \in 1..n : f[i] = y
    BY <2>1, <2>2
  <2>4. \A i, j \in 1..n : f[i] = f[j] => i = j
    <3>1. ASSUME NEW i \in 1..n, NEW j \in 1..n, f[i] = f[j]
          PROVE  i = j
      <4>1. s[i] \in S /\ s[j] \in S
        BY <1>1, ElementOfSeq
      <4>2. ReportName(s[i]) = ReportName(s[j])
        BY <2>2, <3>1
      <4>3. s[i] = s[j]
        BY <1>3, <4>1, <4>2
      <4>4. QED
        BY <1>1, <4>3
    <3>2. QED
      BY <3>1
  <2>5. f \in Surjection(1..n, T) /\ f \in Injection(1..n, T)
    BY <2>3, <2>4 DEF Surjection, Injection, IsInjective
  <2>6. IsFiniteSet(1..n) /\ Cardinality(1..n) = n
    BY FS_Interval
  <2>7. Cardinality(T) = Cardinality(1..n)
    BY <2>5, <2>6, FS_Surjection
  <2>8. QED
    BY <1>1, <2>1, <2>6, <2>7
<1>4. QED
  BY <1>2, <1>3

-----------------------------------------------------------------------------
(* The three commands *)

\* The directory of the last import: of one path it holds one file, and what
\* it says of the corpus is the whole import.
RootIsWhole ==
    /\ imports \in Nat
    /\ imports = 0 => root = Absent
    /\ imports # 0 =>
          /\ root = [source |-> root.source, stored |-> root.stored,
                     collection |-> root.collection, corpus |-> root.corpus]
          /\ root.source \in Sources
          /\ \A s, t \in root.stored : s.path = t.path => s = t
          /\ root.corpus # Absent =>
                root.collection = ManifestOf(WholeImport(root.source), root.source.options)
\* An import under way has passed the first k files of its source.
Passed(g, k, source) ==
    /\ Passes(g, source) /\ k \in 0..Len(FilesOf(source))
    /\ importing = [source |-> source, state |-> g[k], step |-> importing.step,
                    left |-> SubSeq(FilesOf(source), k + 1, Len(FilesOf(source)))]
    /\ importing.step = "corpus" =>
          k = Len(FilesOf(source)) /\ root.collection = ManifestOf(g[k], source.options)
ImportIsPart ==
    importing # Absent =>
        /\ imports # 0 /\ root.corpus = Absent
        /\ \E g : \E k \in Nat : Passed(g, k, root.source)
\* While there was one import, what was read and written is of its documents.
ReadsAreOwn ==
    /\ analyzing = [documents |-> InScope, read |-> analyzing.read, written |-> analyzing.written]
    /\ \A k \in DOMAIN analyzing.read :
          k \in DOMAIN InScope /\ analyzing.read[k] = InScope[k].digest
AnalysesAreOwn ==
    imports < 2 /\ (analyses # Absent \/ analyzing # Absent) =>
        /\ VerifyCollection
        /\ analyses = [files |-> analyses.files, summary |-> analyses.summary]
        /\ \A n \in DOMAIN analyses.files :
              \E d \in Range(InScope) : SafeName(d.id) = n /\ analyses.files[n] = d.digest
        /\ analyzing # Absent => ReadsAreOwn
PairsNow == ComparisonPairs(root.collection, InScope)
NamesOf(n) == {ReportName(PairsNow[i]) : i \in 1..n}
LoadsAreOwn ==
    /\ reporting = [manifest |-> root.collection, documents |-> InScope, loaded |-> reporting.loaded,
                    pairs |-> PairsNow, done |-> reporting.done]
    /\ reporting.loaded \in Seq(Int)
    /\ \A k \in 1..Len(reporting.loaded) :
          /\ k \in DOMAIN InScope
          /\ \E d \in Range(InScope) :
                SafeName(d.id) = SafeName(InScope[k].id) /\ reporting.loaded[k] = d.digest
    /\ reporting.done \in 0..Len(PairsNow) /\ DOMAIN report.files = NamesOf(reporting.done)
    /\ report.summary = Absent
ReportsAreOwn ==
    imports < 2 /\ (report # Absent \/ reporting # Absent) =>
        /\ VerifyCollection
        /\ report = [benchmark |-> report.benchmark, files |-> report.files,
                     summary |-> report.summary]
        /\ SafeNamesDiffer(InScope) =>
              \A n \in DOMAIN report.files : OwnTexts(report.files[n])
        /\ report.summary # Absent =>
              report.summary = PairsNow /\ DOMAIN report.files = NamesOf(Len(PairsNow))
        /\ reporting # Absent => LoadsAreOwn
PipelineInvariant == RootIsWhole /\ ImportIsPart /\ AnalysesAreOwn /\ ReportsAreOwn

\* While an import runs nothing of it has been read.
LEMMA NothingIsRead ==
  ASSUME PipelineInvariant, importing # Absent, imports < 2
  PROVE  analyses = Absent /\ analyzing = Absent /\ report = Absent /\ reporting = Absent
<1>1. root.corpus = Absent
  BY DEF PipelineInvariant, ImportIsPart
<1>2. ~VerifyCollection
  BY <1>1 DEF VerifyCollection
<1>3. QED
  BY <1>2 DEF PipelineInvariant, AnalysesAreOwn, ReportsAreOwn

\* What the commands find in a directory that verifies.
LEMMA ScopeIs ==
  ASSUME RootIsWhole, VerifyCollection
  PROVE  /\ root.collection = ManifestOf(WholeImport(root.source), root.source.options)
         /\ Range(root.collection.documents) = Range(WholeImport(root.source).documents)
         /\ InScope \in Seq(DocumentTypes)
         /\ Range(InScope) \subseteq Range(root.collection.documents)
<1>1. imports # 0 /\ root.corpus # Absent
  BY DEF VerifyCollection, RootIsWhole
<1>2. PICK source \in Sources : source = root.source
  BY <1>1 DEF RootIsWhole
<1>3. root.collection = ManifestOf(WholeImport(source), source.options)
  BY <1>1, <1>2 DEF RootIsWhole
<1>4. WholeImport(source) \in ImportStates
  <2>1. PICK g : Passes(g, source)
    BY WholeIs
  <2>2. PICK s \in Seq(FileTypes) : s = FilesOf(source)
    BY EligibleIs DEF FilesOf
  <2>3. Len(s) \in 0..Len(s)
    BY <2>2, LenProperties
  <2>4. QED
    BY <2>1, <2>2, <2>3 DEF Passes
<1>5. /\ root.collection.documents \in Seq(DocumentTypes)
      /\ Range(root.collection.documents) = Range(WholeImport(source).documents)
  BY <1>3, <1>4, ManifestIs
<1>6. PICK c : c = root.collection
  OBVIOUS
<1>7. /\ Scoped(c, Scope.family, Scope.maximum) \in Seq(DocumentTypes)
      /\ Range(Scoped(c, Scope.family, Scope.maximum)) \subseteq Range(c.documents)
  <2>1. Scope.maximum \in Nat
    BY SourcesAssumption
  <2>2. QED
    BY <1>5, <1>6, <2>1, ScopedIs
<1>8. QED
  BY <1>2, <1>3, <1>5, <1>6, <1>7 DEF InScope

\* A document's path leads to the text it was imported from.
LEMMA DigestIs ==
  ASSUME RootIsWhole, VerifyCollection, NEW d \in Range(InScope)
  PROVE  DigestAt(d) = d.digest /\ d.digest \in Int
<1>1. imports # 0
  BY DEF VerifyCollection, RootIsWhole
<1>2. d \in DocumentTypes /\ d \in Range(root.collection.documents)
  BY ScopeIs, RangeOfSeq
<1>3. PICK e \in Range(root.corpus.documents) : e.stored = d.stored /\ e.digest = d.digest
  BY <1>2 DEF VerifyCollection, Verified
<1>4. PICK file : file = [path |-> d.stored, digest |-> d.digest] /\ file \in root.stored
  BY <1>3 DEF VerifyCollection, Verified
<1>5. \A s \in root.stored : s.path = d.stored => s = file
  BY <1>1, <1>4 DEF RootIsWhole
<1>6. {s.digest : s \in {x \in root.stored : x.path = d.stored}} = {d.digest}
  BY <1>4, <1>5
<1>7. DigestAt(d) = d.digest
  BY <1>6 DEF DigestAt
<1>8. QED
  BY <1>2, <1>7 DEF DocumentTypes

\* What an import does to its directory.
LEMMA ImportSteps ==
  ASSUME PipelineInvariant,
         BeginImport \/ ImportOne \/ SaveCollection \/ SaveCorpus \/ DieImporting
  PROVE  PipelineInvariant'
<1>1. RootIsWhole /\ ImportIsPart /\ imports \in Nat
  BY DEF PipelineInvariant, RootIsWhole
<1>2. CASE BeginImport
  <2>1. PICK source \in Sources :
            /\ root' = EmptyRoot(source)
            /\ importing' = IF Importable(source)
                            THEN [source |-> source, state |-> Started, step |-> "files",
                                  left |-> Eligible(source.files, source.options)]
                            ELSE Absent
    BY <1>2 DEF BeginImport
  <2>2. imports' = imports + 1 /\ UNCHANGED <<analyses, analyzing, report, reporting>>
    BY <1>2 DEF BeginImport, analysisVars, reportVars
  <2>3. root'.source = source /\ root'.stored = {} /\ root'.corpus = Absent
    BY <2>1 DEF EmptyRoot
  <2>4. RootIsWhole'
    <3>1. root' = [source |-> root'.source, stored |-> root'.stored,
                   collection |-> root'.collection, corpus |-> root'.corpus]
      BY <2>1 DEF EmptyRoot
    <3>2. imports' \in Nat /\ imports' # 0
      BY <1>1, <2>2
    <3>3. QED
      BY <2>1, <2>3, <3>1, <3>2 DEF RootIsWhole
  <2>5. ASSUME importing' # Absent
        PROVE  (\E g : \E k \in Nat : Passed(g, k, root.source))'
    <3>1. PICK g : Passes(g, source)
      BY WholeIs
    <3>2. PICK s \in Seq(FileTypes) : s = FilesOf(source)
      BY EligibleIs DEF FilesOf
    <3>3. importing' = [source |-> source, state |-> Started, step |-> "files", left |-> s]
      BY <2>1, <2>5, <3>2 DEF FilesOf
    <3>4. Len(s) \in Nat /\ SubSeq(s, 1, Len(s)) = s
      <4>1. 0 \in 0..Len(s)
        BY LenProperties
      <4>2. QED
        BY <4>1, RestIs, LenProperties
    <3>5. g[0] = Started
      BY <3>1 DEF Passes
    <3>6. importing'.step # "corpus"
      BY <3>3
    <3>7. Passed(g, 0, source)'
      BY <3>1, <3>2, <3>3, <3>4, <3>5, <3>6 DEF Passed
    <3>8. QED
      BY <2>3, <3>7
  <2>6. ImportIsPart'
    <3>1. imports' # 0
      BY <1>1, <2>2
    <3>2. QED
      BY <2>3, <2>5, <3>1 DEF ImportIsPart
  <2>7. ASSUME imports' < 2
        PROVE  analyses = Absent /\ analyzing = Absent /\ report = Absent /\ reporting = Absent
    <3>1. imports = 0
      BY <1>1, <2>2, <2>7
    <3>2. ~VerifyCollection /\ imports < 2
      BY <1>1, <3>1 DEF RootIsWhole, VerifyCollection
    <3>3. QED
      BY <3>2 DEF PipelineInvariant, AnalysesAreOwn, ReportsAreOwn
  <2>8. AnalysesAreOwn'
    BY <2>2, <2>7 DEF AnalysesAreOwn
  <2>9. ReportsAreOwn'
    BY <2>2, <2>7 DEF ReportsAreOwn
  <2>10. QED
    BY <2>4, <2>6, <2>8, <2>9 DEF PipelineInvariant
<1>3. CASE ImportOne \/ SaveCollection \/ SaveCorpus \/ DieImporting
  <2>1. importing # Absent /\ imports' = imports
        /\ UNCHANGED <<analyses, analyzing, report, reporting>>
    BY <1>3 DEF ImportOne, SaveCollection, SaveCorpus, DieImporting, analysisVars, reportVars
  <2>2. AnalysesAreOwn'
    BY <2>1, NothingIsRead DEF AnalysesAreOwn
  <2>3. ReportsAreOwn'
    BY <2>1, NothingIsRead DEF ReportsAreOwn
  <2>4. imports # 0 /\ root.corpus = Absent
    BY <1>1, <2>1 DEF ImportIsPart
  <2>5. PICK source \in Sources : source = root.source
    BY <1>1, <2>4 DEF RootIsWhole
  <2>5a. PICK F \in Seq(FileTypes) : F = FilesOf(source)
    BY EligibleIs DEF FilesOf
  <2>5b. PICK n \in Nat : n = Len(F)
    BY LenProperties
  <2>6. F = FilesOf(source) /\ n = Len(F)
    BY <2>5a, <2>5b
  <2>7. PICK g : \E k \in Nat : Passed(g, k, source)
    BY <1>1, <2>1, <2>5 DEF ImportIsPart
  <2>8. PICK k \in Nat : Passed(g, k, source)
    BY <2>7
  <2>9. /\ Passes(g, source) /\ k \in 0..n
        /\ importing = [source |-> source, state |-> g[k], step |-> importing.step,
                        left |-> SubSeq(F, k + 1, n)]
        /\ importing.step = "corpus" =>
              k = n /\ root.collection = ManifestOf(g[k], source.options)
    BY <2>6, <2>8 DEF Passed
  <2>10. importing.source = source /\ importing.state = g[k] /\ importing.left = SubSeq(F, k + 1, n)
    BY <2>9
  <2>11. root = [source |-> source, stored |-> root.stored,
                 collection |-> root.collection, corpus |-> root.corpus]
    BY <1>1, <2>4, <2>5 DEF RootIsWhole
  <2>12. \A s, t \in root.stored : s.path = t.path => s = t
    BY <1>1, <2>4 DEF RootIsWhole
  <2>13. CASE ImportOne
    <3>1. PICK state : /\ state = ImportStep
                       /\ importing' = IF state.failed THEN Absent
                                       ELSE [importing EXCEPT !.state = state, !.left = Tail(@)]
                       /\ root' = [root EXCEPT !.stored = Overwriting(@, NewlyStored(state))]
      BY <2>13 DEF ImportOne
    <3>2. importing.step = "files" /\ SubSeq(F, k + 1, n) # <<>>
      BY <2>10, <2>13 DEF ImportOne
    <3>3. k + 1 \in 1..n /\ importing.left[1] = F[k + 1] /\ Tail(importing.left) = SubSeq(F, (k + 1) + 1, n)
      <4>1. k \in 0..Len(F)
        BY <2>6, <2>9
      <4>2. /\ k + 1 \in 1..Len(F) /\ SubSeq(F, k + 1, Len(F))[1] = F[k + 1]
            /\ Tail(SubSeq(F, k + 1, Len(F))) = SubSeq(F, (k + 1) + 1, Len(F))
        BY <2>6, <3>2, <4>1, RestIs
      <4>3. QED
        BY <2>6, <2>10, <4>2
    <3>4. state = g[k + 1]
      <4>1. state = ImportFile(g[k], F[k + 1], source.rows, source.options)
        BY <2>10, <3>1, <3>3 DEF ImportStep
      <4>2. (k + 1) - 1 = k
        OBVIOUS
      <4>3. QED
        BY <2>6, <2>9, <3>3, <4>1, <4>2 DEF Passes
    <3>5. PICK stored : stored = Overwriting(root.stored, NewlyStored(state))
      OBVIOUS
    <3>6. root' = [source |-> source, stored |-> stored, collection |-> root.collection,
                   corpus |-> root.corpus]
      BY <2>11, <3>1, <3>5
    <3>7. \A s, t \in stored : s.path = t.path => s = t
      <4>1. \A s, t \in NewlyStored(state) : s = t
        BY DEF NewlyStored
      <4>2. QED
        BY <2>12, <3>5, <4>1 DEF Overwriting
    <3>8. RootIsWhole'
      BY <1>1, <2>1, <2>4, <3>6, <3>7 DEF RootIsWhole
    <3>9. ASSUME importing' # Absent
          PROVE  Passed(g, k + 1, source)'
      <4>1. importing' = [importing EXCEPT !.state = state, !.left = Tail(@)]
        BY <3>1, <3>9
      <4>2. importing' = [source |-> source, state |-> g[k + 1], step |-> importing.step,
                          left |-> SubSeq(F, (k + 1) + 1, n)]
        <5>1. PICK l, st, left : l = importing.left /\ st = importing.step /\ left = SubSeq(F, k + 1, n)
          OBVIOUS
        <5>2. importing = [source |-> source, state |-> g[k], step |-> st, left |-> left] /\ l = left
          BY <2>9, <2>10, <5>1
        <5>3. importing' = [source |-> source, state |-> state, step |-> st, left |-> Tail(l)]
          BY <4>1, <5>2
        <5>4. QED
          BY <3>3, <3>4, <5>1, <5>3
      <4>3. importing'.step # "corpus"
        BY <3>2, <4>2
      <4>4. k + 1 \in 0..n
        BY <3>3
      <4>5. QED
        BY <2>6, <2>9, <4>2, <4>3, <4>4 DEF Passed
    <3>10. ImportIsPart'
      <4>1. root'.corpus = Absent /\ root'.source = source
        BY <2>4, <3>6
      <4>2. k + 1 \in Nat
        OBVIOUS
      <4>3. QED
        BY <2>1, <2>4, <3>9, <4>1, <4>2 DEF ImportIsPart
    <3>11. QED
      BY <2>2, <2>3, <3>8, <3>10 DEF PipelineInvariant
  <2>14. CASE SaveCollection
    <3>1. k = n
      <4>1. SubSeq(F, k + 1, n) = <<>>
        BY <2>10, <2>14 DEF SaveCollection
      <4>2. QED
        BY <2>6, <2>9, <4>1, RestIs
    <3>2. Imported = ManifestOf(g[k], source.options)
      BY <2>10 DEF Imported
    <3>3. PICK c : root' = [source |-> source, stored |-> root.stored, collection |-> c,
                            corpus |-> root.corpus]
                   /\ (importing' # Absent =>
                          c = Imported /\ importing' = [importing EXCEPT !.step = "corpus"])
      <4>1. CASE ValidManifest(Imported)
        BY <2>11, <2>14, <4>1 DEF SaveCollection
      <4>2. CASE ~ValidManifest(Imported)
        BY <2>11, <2>14, <4>2 DEF SaveCollection
      <4>3. QED
        BY <4>1, <4>2
    <3>4. root'.source = source /\ root'.stored = root.stored /\ root'.corpus = Absent
          /\ root'.collection = c
      BY <2>4, <3>3
    <3>5. RootIsWhole'
      BY <1>1, <2>1, <2>4, <2>12, <3>3, <3>4 DEF RootIsWhole
    <3>6. ASSUME importing' # Absent
          PROVE  Passed(g, k, source)'
      <4>1. importing' = [source |-> source, state |-> g[k], step |-> "corpus",
                          left |-> SubSeq(F, k + 1, n)]
        <5>1. PICK st, left : st = importing.step /\ left = SubSeq(F, k + 1, n)
          OBVIOUS
        <5>2. importing = [source |-> source, state |-> g[k], step |-> st, left |-> left]
          BY <2>9, <5>1
        <5>3. importing' = [importing EXCEPT !.step = "corpus"]
          BY <3>3, <3>6
        <5>4. importing' = [source |-> source, state |-> g[k], step |-> "corpus", left |-> left]
          BY <5>2, <5>3
        <5>5. QED
          BY <5>1, <5>4
      <4>2. importing'.step = "corpus"
        BY <4>1
      <4>3. QED
        BY <2>6, <2>9, <3>1, <3>2, <3>3, <3>4, <3>6, <4>1, <4>2 DEF Passed
    <3>7. ImportIsPart'
      BY <2>1, <2>4, <3>4, <3>6 DEF ImportIsPart
    <3>8. QED
      BY <2>2, <2>3, <3>5, <3>7 DEF PipelineInvariant
  <2>15. CASE SaveCorpus
    <3>1. k = n /\ root.collection = ManifestOf(g[n], source.options)
      BY <2>9, <2>15 DEF SaveCorpus
    <3>2. g[n] = WholeImport(source)
      BY <2>6, <2>9 DEF Passes
    <3>3. root' = [source |-> source, stored |-> root.stored, collection |-> root.collection,
                   corpus |-> Imported] /\ importing' = Absent
      BY <2>11, <2>15 DEF SaveCorpus
    <3>4. RootIsWhole'
      BY <1>1, <2>1, <2>4, <2>12, <3>1, <3>2, <3>3 DEF RootIsWhole
    <3>5. ImportIsPart'
      BY <3>3 DEF ImportIsPart
    <3>6. QED
      BY <2>2, <2>3, <3>4, <3>5 DEF PipelineInvariant
  <2>16. CASE DieImporting
    <3>1. UNCHANGED <<root, imports>> /\ importing' = Absent
      BY <2>16 DEF DieImporting
    <3>2. RootIsWhole'
      BY <1>1, <3>1 DEF RootIsWhole
    <3>3. ImportIsPart'
      BY <3>1 DEF ImportIsPart
    <3>4. QED
      BY <2>2, <2>3, <3>2, <3>3 DEF PipelineInvariant
  <2>17. QED
    BY <1>3, <2>13, <2>14, <2>15, <2>16
<1>4. QED
  BY <1>2, <1>3

\* The other commands do not touch the directory.
LEMMA DirectoryStays ==
  ASSUME RootIsWhole, ImportIsPart, UNCHANGED <<root, imports, importing>>
  PROVE  /\ RootIsWhole' /\ ImportIsPart'
         /\ InScope' = InScope /\ VerifyCollection' = VerifyCollection /\ PairsNow' = PairsNow
<1>1. RootIsWhole'
  BY DEF RootIsWhole
<1>2. ImportIsPart'
  BY DEF ImportIsPart, Passed
<1>3. InScope' = InScope
  BY DEF InScope
<1>4. VerifyCollection' = VerifyCollection
  BY DEF VerifyCollection
<1>5. PairsNow' = PairsNow
  BY <1>3 DEF PairsNow
<1>6. QED
  BY <1>1, <1>2, <1>3, <1>4, <1>5

\* What is read and written by fo-contract-analyze.
LEMMA AnalysisSteps ==
  ASSUME PipelineInvariant, NEW k,
         \/ BeginAnalysis \/ FinishAnalysis \/ DieAnalyzing \/ RemoveAnalyses
         \/ ReadDocument(k) \/ WriteAnalysis(k)
  PROVE  AnalysesAreOwn'
<1>1. RootIsWhole /\ ImportIsPart /\ AnalysesAreOwn
  BY DEF PipelineInvariant
<1>2. UNCHANGED <<root, imports, importing>>
  BY DEF BeginAnalysis, FinishAnalysis, DieAnalyzing, RemoveAnalyses, ReadDocument, WriteAnalysis,
         importVars
<1>3. InScope' = InScope /\ VerifyCollection' = VerifyCollection
  BY <1>1, <1>2, DirectoryStays
<1>4. SUFFICES ASSUME imports < 2, analyses' # Absent \/ analyzing' # Absent
               PROVE  /\ VerifyCollection
                      /\ analyses' = [files |-> analyses'.files, summary |-> analyses'.summary]
                      /\ \A n \in DOMAIN analyses'.files :
                            \E d \in Range(InScope) : SafeName(d.id) = n /\ analyses'.files[n] = d.digest
                      /\ analyzing' # Absent =>
                            /\ analyzing' = [documents |-> InScope, read |-> analyzing'.read,
                                             written |-> analyzing'.written]
                            /\ \A i \in DOMAIN analyzing'.read :
                                  i \in DOMAIN InScope /\ analyzing'.read[i] = InScope[i].digest
  BY <1>2, <1>3 DEF AnalysesAreOwn, ReadsAreOwn
<1>5. CASE BeginAnalysis
  <2>1. /\ VerifyCollection
        /\ analyzing' = [documents |-> InScope, read |-> NoFiles, written |-> 0]
        /\ analyses' = [files |-> NoFiles, summary |-> Absent]
    BY <1>5 DEF BeginAnalysis
  <2>2. DOMAIN NoFiles = {}
    BY DEF NoFiles
  <2>3. analyses'.files = NoFiles /\ analyzing'.read = NoFiles
    BY <2>1
  <2>4. QED
    BY <2>1, <2>2, <2>3
<1>6. CASE ~BeginAnalysis
  <2>1. analyses # Absent \/ analyzing # Absent
    BY <1>6 DEF FinishAnalysis, DieAnalyzing, RemoveAnalyses, ReadDocument, WriteAnalysis
  <2>2. /\ VerifyCollection
        /\ analyses = [files |-> analyses.files, summary |-> analyses.summary]
        /\ \A n \in DOMAIN analyses.files :
              \E d \in Range(InScope) : SafeName(d.id) = n /\ analyses.files[n] = d.digest
        /\ analyzing # Absent => ReadsAreOwn
    BY <1>1, <1>4, <2>1 DEF AnalysesAreOwn
  <2>3. InScope \in Seq(DocumentTypes)
    BY <1>1, <2>2, ScopeIs
  <2>4. PICK scope \in Seq(DocumentTypes) : scope = InScope
    BY <2>3
  <2>5. \A i \in DOMAIN scope : scope[i] \in Range(scope)
    BY DEF Range
  <2>6. CASE FinishAnalysis
    <3>1. PICK s : analyses' = [analyses EXCEPT !.summary = s]
      BY <2>6 DEF FinishAnalysis
    <3>2. analyzing' = Absent
      BY <2>6 DEF FinishAnalysis
    <3>3. PICK f : f = analyses.files
      OBVIOUS
    <3>4. analyses' = [files |-> f, summary |-> s]
      BY <2>2, <3>1, <3>3
    <3>5. QED
      BY <2>2, <3>2, <3>3, <3>4
  <2>7. CASE DieAnalyzing
    BY <2>2, <2>7 DEF DieAnalyzing
  <2>8. CASE RemoveAnalyses
    BY <1>4, <2>8 DEF RemoveAnalyses
  <2>9. CASE ReadDocument(k)
    <3>1. ReadsAreOwn /\ k \in DOMAIN InScope
      <4>1. analyzing # Absent /\ k \in DOMAIN analyzing.documents
        BY <2>9 DEF ReadDocument
      <4>2. ReadsAreOwn
        BY <2>2, <4>1
      <4>3. QED
        BY <4>1, <4>2 DEF ReadsAreOwn
    <3>2. PICK r, w : r = analyzing.read /\ w = analyzing.written
      OBVIOUS
    <3>3. analyzing = [documents |-> scope, read |-> r, written |-> w]
      BY <2>4, <3>1, <3>2 DEF ReadsAreOwn
    <3>4. PICK x : x = DigestAt(scope[k])
      OBVIOUS
    <3>5. PICK q : q = Put(r, k, x)
      OBVIOUS
    <3>6. analyzing' = [documents |-> scope, read |-> q, written |-> w] /\ analyses' = analyses
      <4>1. analyzing' = [analyzing EXCEPT !.read = Put(@, k, DigestAt(analyzing.documents[k]))]
            /\ analyses' = analyses
        BY <2>9 DEF ReadDocument
      <4>2. analyzing.documents = scope /\ analyzing.read = r
        BY <3>3
      <4>3. analyzing' = [analyzing EXCEPT !.read = q]
        BY <3>4, <3>5, <4>1, <4>2
      <4>4. QED
        BY <3>3, <4>1, <4>3
    <3>7. x = scope[k].digest
      <4>1. scope[k] \in Range(InScope)
        BY <2>4, <2>5, <3>1
      <4>2. QED
        BY <1>1, <2>2, <3>4, <4>1, DigestIs
    <3>8. \A i \in DOMAIN q : i \in DOMAIN scope /\ q[i] = scope[i].digest
      <4>1. \A i \in DOMAIN r : i \in DOMAIN scope /\ r[i] = scope[i].digest
        BY <2>4, <3>1, <3>2 DEF ReadsAreOwn
      <4>2. k \in DOMAIN scope
        BY <2>4, <3>1
      <4>3. QED
        BY <3>5, <3>7, <4>1, <4>2 DEF Put
    <3>9. QED
      BY <2>2, <2>4, <3>6, <3>8
  <2>10. CASE WriteAnalysis(k)
    <3>1. ReadsAreOwn /\ AllRead /\ k \in DOMAIN analyzing.documents
      <4>1. analyzing # Absent
        BY <2>10 DEF WriteAnalysis
      <4>2. QED
        BY <2>2, <2>10, <4>1 DEF WriteAnalysis
    <3>2. PICK r, w : r = analyzing.read /\ w = analyzing.written
      OBVIOUS
    <3>3. analyzing = [documents |-> scope, read |-> r, written |-> w]
      BY <2>4, <3>1, <3>2 DEF ReadsAreOwn
    <3>4. analyzing.documents = scope
      BY <3>3
    <3>5. \A i \in DOMAIN r : r[i] = scope[i].digest
      BY <2>4, <3>1, <3>2 DEF ReadsAreOwn
    <3>6. k \in DOMAIN scope /\ k \in DOMAIN r
      BY <3>1, <3>2, <3>4 DEF AllRead
    <3>7. PICK name : name = SafeName(scope[k].id)
      OBVIOUS
    <3>8. PICK f, s : f = analyses.files /\ s = analyses.summary
      OBVIOUS
    <3>9. PICK h : h = Put(f, name, r[k])
      OBVIOUS
    <3>10. analyzing' = [documents |-> scope, read |-> r, written |-> k]
      <4>1. analyzing' = [analyzing EXCEPT !.written = k]
        BY <2>10 DEF WriteAnalysis
      <4>2. QED
        BY <3>3, <4>1
    <3>11. analyses' = analyses \/ analyses' = [files |-> h, summary |-> s]
      <4>1. \/ analyses' = analyses
            \/ analyses' = [analyses EXCEPT !.files =
                               Put(@, SafeName(analyzing.documents[k].id), analyzing.read[k])]
        BY <2>10 DEF WriteAnalysis
      <4>2. Put(f, SafeName(analyzing.documents[k].id), analyzing.read[k]) = h
        BY <3>2, <3>4, <3>7, <3>9
      <4>3. QED
        BY <2>2, <3>8, <4>1, <4>2
    <3>12. \A n \in DOMAIN f : \E d \in Range(scope) : SafeName(d.id) = n /\ f[n] = d.digest
      BY <2>2, <2>4, <3>8
    <3>13. \A n \in DOMAIN h : \E d \in Range(scope) : SafeName(d.id) = n /\ h[n] = d.digest
      <4>1. scope[k] \in Range(scope) /\ r[k] = scope[k].digest
        BY <2>5, <3>5, <3>6
      <4>2. DOMAIN h = {name} \cup DOMAIN f /\ h[name] = r[k]
            /\ \A n \in DOMAIN f : n # name => h[n] = f[n]
        BY <3>9 DEF Put
      <4>3. QED
        BY <3>7, <3>12, <4>1, <4>2
    <3>14. \A i \in DOMAIN r : i \in DOMAIN scope /\ r[i] = scope[i].digest
      BY <2>4, <3>1, <3>2 DEF ReadsAreOwn
    <3>15. CASE analyses' = analyses
      BY <2>2, <2>4, <3>10, <3>14, <3>15
    <3>16. CASE analyses' = [files |-> h, summary |-> s]
      BY <2>2, <2>4, <3>10, <3>13, <3>14, <3>16
    <3>17. QED
      BY <3>11, <3>15, <3>16
  <2>11. QED
    BY <1>6, <2>6, <2>7, <2>8, <2>9, <2>10
<1>7. QED
  BY <1>5, <1>6

\* The text that was loaded for a document of the scope, where no two names
\* fall together.
LEMMA LoadedIs ==
  ASSUME NEW scope \in Seq(DocumentTypes), scope = InScope, SafeNamesDiffer(scope), LoadsAreOwn, AllLoaded,
         NEW d \in Range(scope)
  PROVE  \E e \in Range(scope) : e.id = d.id /\ e.digest = LoadedOf(d.id)
<1>1. PICK n \in Nat : n = Len(scope) /\ DOMAIN scope = 1..n
  BY LenProperties
<1>2. reporting.documents = scope
  BY DEF LoadsAreOwn
<1>3. PICK k : k = CHOOSE i \in DOMAIN reporting.documents : reporting.documents[i].id = d.id
  OBVIOUS
<1>4. k \in 1..n /\ scope[k].id = d.id
  <2>1. \E i \in DOMAIN scope : scope[i].id = d.id
    BY DEF Range
  <2>2. \E i \in DOMAIN reporting.documents : reporting.documents[i].id = d.id
    BY <1>2, <2>1
  <2>3. k \in DOMAIN reporting.documents /\ reporting.documents[k].id = d.id
    BY <1>3, <2>2
  <2>4. QED
    BY <1>1, <1>2, <2>3
<1>5. k \in 1..Len(reporting.loaded)
  BY <1>1, <1>2, <1>4 DEF AllLoaded
<1>6. PICK e \in Range(scope) : SafeName(e.id) = SafeName(scope[k].id) /\ reporting.loaded[k] = e.digest
  BY <1>5 DEF LoadsAreOwn
<1>7. scope[k] \in Range(scope)
  BY <1>1, <1>4 DEF Range
<1>8. e = scope[k]
  BY <1>6, <1>7 DEF SafeNamesDiffer
<1>9. LoadedOf(d.id) = reporting.loaded[k]
  BY <1>3 DEF LoadedOf
<1>10. QED
  BY <1>4, <1>6, <1>7, <1>8, <1>9

\* What is written by fo-contract-compare.
LEMMA ReportSteps ==
  ASSUME PipelineInvariant,
         \/ BeginReport \/ LoadAnalysis \/ SaveBenchmark \/ CompareNext \/ SaveSummary
         \/ DieReporting \/ RemoveReport
  PROVE  ReportsAreOwn'
<1>1. RootIsWhole /\ ImportIsPart /\ AnalysesAreOwn /\ ReportsAreOwn
  BY DEF PipelineInvariant
<1>2. UNCHANGED <<root, imports, importing>>
  BY DEF BeginReport, LoadAnalysis, SaveBenchmark, CompareNext, SaveSummary, DieReporting,
         RemoveReport, importVars
<1>3. InScope' = InScope /\ VerifyCollection' = VerifyCollection /\ PairsNow' = PairsNow
  BY <1>1, <1>2, DirectoryStays
<1>4. CASE ~(imports < 2 /\ (report' # Absent \/ reporting' # Absent))
  BY <1>2, <1>4 DEF ReportsAreOwn
<1>5. CASE imports < 2 /\ (report' # Absent \/ reporting' # Absent)
  <2> DEFINE Own(r) ==
               /\ SafeNamesDiffer(InScope) => \A n \in DOMAIN r.files : OwnTexts(r.files[n])
               /\ r.summary # Absent =>
                     r.summary = PairsNow /\ DOMAIN r.files = NamesOf(Len(PairsNow))
             Loads(s, r) ==
               /\ s = [manifest |-> root.collection, documents |-> InScope, loaded |-> s.loaded,
                       pairs |-> PairsNow, done |-> s.done]
               /\ s.loaded \in Seq(Int)
               /\ \A k \in 1..Len(s.loaded) :
                     /\ k \in DOMAIN InScope
                     /\ \E d \in Range(InScope) :
                           SafeName(d.id) = SafeName(InScope[k].id) /\ s.loaded[k] = d.digest
               /\ s.done \in 0..Len(PairsNow) /\ DOMAIN r.files = NamesOf(s.done)
               /\ r.summary = Absent
  <2>1. SUFFICES /\ VerifyCollection
                 /\ report' = [benchmark |-> report'.benchmark, files |-> report'.files,
                               summary |-> report'.summary]
                 /\ Own(report')
                 /\ reporting' # Absent => Loads(reporting', report')
    <3>1. ASSUME NEW file
          PROVE  OwnTexts(file)' = OwnTexts(file)
      BY <1>3 DEF OwnTexts
    <3>2. (\A n \in DOMAIN report.files : OwnTexts(report.files[n]))'
            = \A n \in DOMAIN report'.files : OwnTexts(report'.files[n])
      BY <1>3 DEF OwnTexts
    <3>3. ASSUME NEW n
          PROVE  NamesOf(n)' = NamesOf(n)
      BY <1>3 DEF NamesOf
    <3>4. NamesOf(Len(PairsNow))' = NamesOf(Len(PairsNow))
      BY <1>3 DEF NamesOf
    <3>5. NamesOf(reporting.done)' = NamesOf(reporting'.done)
      BY <1>3 DEF NamesOf
    <3>6. SafeNamesDiffer(InScope)' = SafeNamesDiffer(InScope)
      BY <1>3 DEF SafeNamesDiffer
    <3>7. Loads(reporting', report') => LoadsAreOwn'
      BY <1>2, <1>3, <3>5 DEF LoadsAreOwn
    <3>8. QED
      BY <1>2, <1>3, <3>2, <3>4, <3>6, <3>7 DEF ReportsAreOwn
  <2>2. CASE BeginReport
    <3>1. /\ VerifyCollection
          /\ report' = [benchmark |-> Absent, files |-> NoFiles, summary |-> Absent]
          /\ reporting' # Absent =>
                reporting' = [manifest |-> root.collection, documents |-> InScope, loaded |-> <<>>,
                              pairs |-> PairsNow, done |-> 0]
      BY <2>2 DEF BeginReport, PairsNow
    <3>2. DOMAIN NoFiles = {}
      BY DEF NoFiles
    <3>3. DOMAIN NoFiles = NamesOf(0)
      BY <3>2 DEF NamesOf
    <3>4. report'.files = NoFiles /\ report'.summary = Absent
      BY <3>1
    <3>5. Own(report')
      BY <3>2, <3>4
    <3>6. ASSUME reporting' # Absent
          PROVE  Loads(reporting', report')
      <4>1. reporting'.loaded = <<>> /\ reporting'.done = 0
        BY <3>1, <3>6
      <4>2. Len(PairsNow) \in Nat
        <5>1. PICK scope \in Seq(DocumentTypes) : scope = InScope
          BY <1>1, <3>1, ScopeIs
        <5>2. PICK c : c = root.collection
          OBVIOUS
        <5>3. ComparisonPairs(c, scope) \in Seq(PairsAmong(scope))
          BY ComparisonPairsAre
        <5>4. QED
          BY <5>1, <5>2, <5>3, LenProperties DEF PairsNow
      <4>3. <<>> \in Seq(Int) /\ Len(<<>>) = 0
        OBVIOUS
      <4>4. 0 \in 0..Len(PairsNow)
        BY <4>2
      <4>5. reporting' = [manifest |-> root.collection, documents |-> InScope,
                          loaded |-> reporting'.loaded, pairs |-> PairsNow, done |-> reporting'.done]
        BY <3>1, <3>6, <4>1
      <4>6. QED
        BY <3>3, <3>4, <4>1, <4>3, <4>4, <4>5
    <3>7. QED
      BY <3>1, <3>4, <3>5, <3>6
  <2>3. CASE ~BeginReport
    <3>1. report # Absent \/ reporting # Absent
      BY <2>3 DEF LoadAnalysis, SaveBenchmark, CompareNext, SaveSummary, DieReporting, RemoveReport
    <3>2. /\ VerifyCollection
          /\ report = [benchmark |-> report.benchmark, files |-> report.files,
                       summary |-> report.summary]
          /\ Own(report)
          /\ reporting # Absent => LoadsAreOwn
      BY <1>1, <1>5, <3>1 DEF ReportsAreOwn
    <3>3. reporting # Absent => Loads(reporting, report)
      BY <3>2 DEF LoadsAreOwn
    <3>4. PICK b, f, s : b = report.benchmark /\ f = report.files /\ s = report.summary
      OBVIOUS
    <3>5. report = [benchmark |-> b, files |-> f, summary |-> s]
      BY <3>2, <3>4
    <3>6. PICK scope \in Seq(DocumentTypes) : scope = InScope
      BY <1>1, <3>2, ScopeIs
    <3>7. PICK n \in Nat : n = Len(scope) /\ DOMAIN scope = 1..n
      BY LenProperties
    <3>8. PICK pairs \in Seq(PairsAmong(scope)) : pairs = PairsNow
      <4>1. PICK c : c = root.collection
        OBVIOUS
      <4>2. ComparisonPairs(c, scope) \in Seq(PairsAmong(scope))
        BY ComparisonPairsAre
      <4>3. QED
        BY <3>6, <4>1, <4>2 DEF PairsNow
    <3>9. CASE DieReporting
      BY <3>2, <3>9 DEF DieReporting
    <3>10. CASE RemoveReport
      BY <1>5, <3>10 DEF RemoveReport
    <3>11. CASE SaveBenchmark
      <4>1. PICK x : report' = [report EXCEPT !.benchmark = x]
        BY <3>11 DEF SaveBenchmark
      <4>2. reporting' = reporting
        BY <3>11 DEF SaveBenchmark
      <4>3. report' = [benchmark |-> x, files |-> f, summary |-> s]
        BY <3>5, <4>1
      <4>4. Own(report')
        BY <3>2, <3>4, <4>3
      <4>5. reporting' # Absent => Loads(reporting', report')
        BY <3>3, <3>4, <4>2, <4>3
      <4>6. QED
        BY <3>2, <4>3, <4>4, <4>5
    <3>12. CASE SaveSummary
      <4>1. Loads(reporting, report)
        BY <3>3, <3>12 DEF SaveSummary
      <4>2. reporting.pairs = pairs
        BY <3>8, <4>1
      <4>3. report' = [report EXCEPT !.summary = pairs] /\ reporting' = Absent
        BY <3>12, <4>2 DEF SaveSummary
      <4>4. report' = [benchmark |-> b, files |-> f, summary |-> pairs]
        BY <3>5, <4>3
      <4>5. DOMAIN f = NamesOf(Len(PairsNow))
        <5>1. reporting.done = Len(pairs)
          BY <3>12, <4>2 DEF SaveSummary
        <5>2. QED
          BY <3>4, <3>8, <4>1, <5>1
      <4>6. Own(report')
        BY <3>2, <3>4, <3>8, <4>4, <4>5
      <4>7. QED
        BY <3>2, <4>3, <4>4, <4>6
    <3>13. CASE LoadAnalysis
      <4>1. Loads(reporting, report) /\ report' = report
        BY <3>3, <3>13 DEF LoadAnalysis
      <4>2. ASSUME reporting' # Absent
            PROVE  Loads(reporting', report)
        <5>1. PICK loaded, done : loaded = reporting.loaded /\ done = reporting.done
          OBVIOUS
        <5>2. PICK c : c = root.collection
          OBVIOUS
        <5>3. reporting = [manifest |-> c, documents |-> scope, loaded |-> loaded, pairs |-> pairs,
                           done |-> done]
          BY <3>6, <3>8, <4>1, <5>1, <5>2
        <5>4. loaded \in Seq(Int)
          BY <4>1, <5>1
        <5>5. PICK m \in Nat : m = Len(loaded)
          BY <5>4, LenProperties
        <5>6. reporting.documents = scope /\ reporting.loaded = loaded
          BY <5>3
        <5>7. m + 1 \in 1..n
          <6>1. Len(loaded) < Len(scope)
            BY <3>13, <5>6 DEF LoadAnalysis
          <6>2. QED
            BY <3>7, <5>5, <6>1
        <5>8. AnalysisFile = SafeName(scope[m + 1].id)
          BY <5>5, <5>6 DEF AnalysisFile
        <5>9. analyses # Absent /\ AnalysisFile \in DOMAIN analyses.files
              /\ reporting' = [reporting EXCEPT !.loaded = Append(@, analyses.files[AnalysisFile])]
          BY <3>13, <4>2 DEF LoadAnalysis
        <5>10. PICK e \in Range(scope) : /\ SafeName(e.id) = AnalysisFile
                                         /\ analyses.files[AnalysisFile] = e.digest
          BY <1>1, <1>5, <3>6, <5>9 DEF AnalysesAreOwn
        <5>11. e.digest \in Int
          BY <1>1, <3>2, <3>6, DigestIs
        <5>12. PICK more : more = Append(loaded, e.digest)
          OBVIOUS
        <5>13. more \in Seq(Int) /\ Len(more) = m + 1 /\ more[m + 1] = e.digest
               /\ \A k \in 1..m : more[k] = loaded[k]
          BY <5>4, <5>5, <5>11, <5>12, AppendProperties
        <5>14. reporting' = [reporting EXCEPT !.loaded = more]
          BY <5>6, <5>9, <5>10, <5>12
        <5>15. reporting' = [manifest |-> c, documents |-> scope, loaded |-> more, pairs |-> pairs,
                             done |-> done]
          BY <5>3, <5>14
        <5>16. ASSUME NEW k \in 1..(m + 1)
               PROVE  /\ k \in DOMAIN scope
                      /\ \E d \in Range(scope) :
                            SafeName(d.id) = SafeName(scope[k].id) /\ more[k] = d.digest
          <6>1. CASE k = m + 1
            BY <3>7, <5>7, <5>8, <5>10, <5>13, <6>1
          <6>2. CASE k # m + 1
            <7>1. k \in 1..m
              BY <6>2
            <7>2. /\ k \in DOMAIN scope
                  /\ \E d \in Range(scope) :
                        SafeName(d.id) = SafeName(scope[k].id) /\ loaded[k] = d.digest
              BY <3>6, <4>1, <5>1, <5>5, <7>1
            <7>3. QED
              BY <5>13, <7>1, <7>2
          <6>3. QED
            BY <6>1, <6>2
        <5>17. reporting'.loaded = more /\ reporting'.done = done
          BY <5>15
        <5>18. done \in 0..Len(PairsNow) /\ DOMAIN report.files = NamesOf(done)
               /\ report.summary = Absent
          BY <4>1, <5>1
        <5>19. QED
          BY <3>6, <3>8, <5>2, <5>13, <5>15, <5>16, <5>17, <5>18
      <4>3. QED
        BY <3>2, <4>1, <4>2
    <3>14. CASE CompareNext
      <4>1. Loads(reporting, report) /\ LoadsAreOwn /\ AllLoaded
        BY <3>2, <3>3, <3>14 DEF CompareNext
      <4>2. PICK c, loaded, done : c = root.collection /\ loaded = reporting.loaded /\ done = reporting.done
        OBVIOUS
      <4>3. reporting = [manifest |-> c, documents |-> scope, loaded |-> loaded, pairs |-> pairs,
                         done |-> done]
        BY <3>6, <3>8, <4>1, <4>2
      <4>4. reporting.pairs = pairs /\ reporting.done = done
        BY <4>3
      <4>5. done \in 0..Len(pairs) /\ DOMAIN f = NamesOf(done) /\ s = Absent
        BY <3>4, <3>8, <4>1, <4>2
      <4>6. done + 1 \in 1..Len(pairs) /\ Len(pairs) \in Nat
        <5>1. done < Len(pairs)
          BY <3>14, <4>4 DEF CompareNext
        <5>2. QED
          BY <4>5, <5>1, LenProperties
      <4>7. PICK pair \in PairsAmong(scope) : pair = pairs[done + 1]
        BY <4>6, ElementOfSeq
      <4>8. CASE report' = report /\ reporting' = Absent
        BY <3>2, <4>8
      <4>9. CASE /\ report' = [report EXCEPT !.files = Put(@, ReportName(pair), ComparisonFile(pair))]
                 /\ reporting' = [reporting EXCEPT !.done = @ + 1]
        <5>1. PICK name, file : name = ReportName(pair) /\ file = ComparisonFile(pair)
          OBVIOUS
        <5>2. PICK h : h = Put(f, name, file)
          OBVIOUS
        <5>3. report' = [benchmark |-> b, files |-> h, summary |-> s]
          <6>1. report' = [report EXCEPT !.files = h]
            BY <3>4, <4>9, <5>1, <5>2
          <6>2. QED
            BY <3>5, <6>1
        <5>4. reporting' = [manifest |-> c, documents |-> scope, loaded |-> loaded, pairs |-> pairs,
                            done |-> done + 1]
          BY <4>3, <4>9
        <5>5. DOMAIN h = DOMAIN f \cup {name} /\ h[name] = file
              /\ \A x \in DOMAIN f : x # name => h[x] = f[x]
          BY <5>2 DEF Put
        <5>6. NamesOf(done + 1) = NamesOf(done) \cup {name}
          <6>1. 1..(done + 1) = 1..done \cup {done + 1}
            BY <4>5
          <6>2. PairsNow[done + 1] = pair
            BY <3>8, <4>7
          <6>3. QED
            BY <5>1, <6>1, <6>2 DEF NamesOf
        <5>7. ASSUME SafeNamesDiffer(scope)
              PROVE  OwnTexts(file)
          <6>1. PICK x \in Range(scope) \X Range(scope) : pair = Pair(x[1], x[2])
            BY DEF PairsAmong
          <6>2. x[1] \in Range(scope) /\ x[2] \in Range(scope)
            OBVIOUS
          <6>3. pair.previous = x[1].id /\ pair.current = x[2].id
            BY <6>1 DEF Pair
          <6>4. \E e \in Range(scope) : e.id = pair.previous /\ e.digest = LoadedOf(pair.previous)
            BY <3>6, <4>1, <5>7, <6>2, <6>3, LoadedIs
          <6>5. \E e \in Range(scope) : e.id = pair.current /\ e.digest = LoadedOf(pair.current)
            BY <3>6, <4>1, <5>7, <6>2, <6>3, LoadedIs
          <6>6. file.previous = pair.previous /\ file.old = LoadedOf(pair.previous)
                /\ file.current = pair.current /\ file.new = LoadedOf(pair.current)
            BY <5>1 DEF ComparisonFile
          <6>7. QED
            BY <3>6, <6>4, <6>5, <6>6 DEF OwnTexts
        <5>8. SafeNamesDiffer(scope) => \A x \in DOMAIN h : OwnTexts(h[x])
          <6>1. SafeNamesDiffer(scope) => \A x \in DOMAIN f : OwnTexts(f[x])
            BY <3>2, <3>4, <3>6
          <6>2. QED
            BY <5>5, <5>7, <6>1
        <5>9. report'.files = h /\ report'.summary = Absent /\ reporting'.loaded = loaded
              /\ reporting'.done = done + 1
          BY <4>5, <5>3, <5>4
        <5>10. Own(report')
          BY <3>6, <5>8, <5>9
        <5>11. Loads(reporting', report')
          <6>1. done + 1 \in 0..Len(PairsNow) /\ DOMAIN h = NamesOf(done + 1)
            BY <3>8, <4>5, <4>6, <5>5, <5>6
          <6>2. /\ loaded \in Seq(Int)
                /\ \A k \in 1..Len(loaded) :
                      /\ k \in DOMAIN InScope
                      /\ \E d \in Range(InScope) :
                            SafeName(d.id) = SafeName(InScope[k].id) /\ loaded[k] = d.digest
            BY <4>1, <4>2
          <6>3. QED
            BY <3>6, <3>8, <4>2, <5>4, <5>9, <6>1, <6>2
        <5>12. report' = [benchmark |-> report'.benchmark, files |-> report'.files,
                          summary |-> report'.summary]
          BY <5>3
        <5>13. QED
          BY <3>2, <5>10, <5>11, <5>12
      <4>10. QED
        BY <3>14, <4>4, <4>7, <4>8, <4>9 DEF CompareNext
    <3>15. QED
      BY <2>3, <3>9, <3>10, <3>11, <3>12, <3>13, <3>14
  <2>4. QED
    BY <2>2, <2>3
<1>6. QED
  BY <1>4, <1>5

\* Work on single files touches nothing of the collection.
LEMMA OtherSteps ==
  ASSUME PipelineInvariant, UNCHANGED <<importVars, analysisVars, reportVars>>
  PROVE  PipelineInvariant'
<1>1. UNCHANGED <<root, imports, importing, analyses, analyzing, report, reporting>>
  BY DEF importVars, analysisVars, reportVars
<1>2. RootIsWhole /\ ImportIsPart
  BY DEF PipelineInvariant
<1>3. /\ RootIsWhole' /\ ImportIsPart'
      /\ InScope' = InScope /\ VerifyCollection' = VerifyCollection /\ PairsNow' = PairsNow
  BY <1>1, <1>2, DirectoryStays
<1>4. AnalysesAreOwn'
  BY <1>1, <1>3 DEF PipelineInvariant, AnalysesAreOwn, ReadsAreOwn
<1>5. ReportsAreOwn'
  BY <1>1, <1>3 DEF PipelineInvariant, ReportsAreOwn, LoadsAreOwn, NamesOf, OwnTexts, SafeNamesDiffer
<1>6. QED
  BY <1>3, <1>4, <1>5 DEF PipelineInvariant

LEMMA PipelineStep == PipelineInvariant /\ [PortfolioNext]_portfolioVars => PipelineInvariant'
<1> SUFFICES ASSUME PipelineInvariant, [PortfolioNext]_portfolioVars
             PROVE  PipelineInvariant'
  OBVIOUS
<1>1. CASE AnalyzeDocument \/ ComparePair \/ UNCHANGED portfolioVars
  BY <1>1, OtherSteps DEF AnalyzeDocument, ComparePair, portfolioVars
<1>2. CASE BeginImport \/ ImportOne \/ SaveCollection \/ SaveCorpus \/ DieImporting
  BY <1>2, ImportSteps
<1>3. CASE \/ BeginAnalysis \/ FinishAnalysis \/ DieAnalyzing \/ RemoveAnalyses
           \/ \E k \in 1..Scope.maximum : ReadDocument(k) \/ WriteAnalysis(k)
  <2>1. PICK k : \/ BeginAnalysis \/ FinishAnalysis \/ DieAnalyzing \/ RemoveAnalyses
                 \/ ReadDocument(k) \/ WriteAnalysis(k)
    BY <1>3
  <2>2. AnalysesAreOwn'
    BY <2>1, AnalysisSteps
  <2>3. UNCHANGED <<root, imports, importing, report, reporting>>
    BY <2>1 DEF BeginAnalysis, FinishAnalysis, DieAnalyzing, RemoveAnalyses, ReadDocument,
                WriteAnalysis, importVars, reportVars
  <2>4. /\ RootIsWhole' /\ ImportIsPart'
        /\ InScope' = InScope /\ VerifyCollection' = VerifyCollection /\ PairsNow' = PairsNow
    BY <2>3, DirectoryStays DEF PipelineInvariant
  <2>5. ReportsAreOwn'
    BY <2>3, <2>4 DEF PipelineInvariant, ReportsAreOwn, LoadsAreOwn, NamesOf, OwnTexts, SafeNamesDiffer
  <2>6. QED
    BY <2>2, <2>4, <2>5 DEF PipelineInvariant
<1>4. CASE \/ BeginReport \/ LoadAnalysis \/ SaveBenchmark \/ CompareNext \/ SaveSummary
           \/ DieReporting \/ RemoveReport
  <2>1. ReportsAreOwn'
    BY <1>4, ReportSteps
  <2>2. UNCHANGED <<root, imports, importing, analyses, analyzing>>
    BY <1>4 DEF BeginReport, LoadAnalysis, SaveBenchmark, CompareNext, SaveSummary, DieReporting,
                RemoveReport, importVars, analysisVars
  <2>3. /\ RootIsWhole' /\ ImportIsPart'
        /\ InScope' = InScope /\ VerifyCollection' = VerifyCollection
    BY <2>2, DirectoryStays DEF PipelineInvariant
  <2>4. AnalysesAreOwn'
    BY <2>2, <2>3 DEF PipelineInvariant, AnalysesAreOwn, ReadsAreOwn
  <2>5. QED
    BY <2>1, <2>3, <2>4 DEF PipelineInvariant
<1>5. QED
  BY <1>1, <1>2, <1>3, <1>4 DEF PortfolioNext

\* The three contract commands, for every collection, every limit and however
\* often imports, analyses and reports are begun, die and are begun again: a
\* directory that verifies holds one whole import, and where it was imported
\* once a finished report compares each two adjacent versions once, in files
\* of their own, by the analyses of their own texts.
THEOREM PipelinesAreWhole == PortfolioSpec => []PipelineIsWhole
<1>1. PortfolioInit => PipelineInvariant
  BY DEF PortfolioInit, PipelineInvariant, RootIsWhole, ImportIsPart, AnalysesAreOwn, ReportsAreOwn
<1>2. PipelineInvariant /\ [PortfolioNext]_portfolioVars => PipelineInvariant'
  BY PipelineStep
<1>3. PipelineInvariant => PipelineIsWhole
  <2> SUFFICES ASSUME PipelineInvariant PROVE PipelineIsWhole
    OBVIOUS
  <2>1. RootIsWhole /\ ReportsAreOwn
    BY DEF PipelineInvariant
  <2>2. ASSUME VerifyCollection
        PROVE  /\ root.collection = ManifestOf(WholeImport(root.source), root.source.options)
               /\ IdsOf(root.collection.documents) = IdsOf(WholeImport(root.source).documents)
    BY <2>1, <2>2, ScopeIs DEF IdsOf
  <2>3. ASSUME report # Absent, report.summary # Absent, imports = 1
        PROVE  /\ \A p \in AdjacentPairs(InScope) : TimesListed(report.summary, p) = 1
               /\ SafeNamesDiffer(InScope) =>
                     /\ \A p \in Range(report.summary) : ReportName(p) \in DOMAIN report.files
                     /\ Cardinality(DOMAIN report.files) = Len(report.summary)
                     /\ \A n \in DOMAIN report.files : OwnTexts(report.files[n])
    <3>1. /\ VerifyCollection
          /\ SafeNamesDiffer(InScope) => \A n \in DOMAIN report.files : OwnTexts(report.files[n])
          /\ report.summary = PairsNow /\ DOMAIN report.files = NamesOf(Len(PairsNow))
      <4>1. imports < 2
        BY <2>3
      <4>2. QED
        BY <2>1, <2>3, <4>1 DEF ReportsAreOwn
    <3>2. PICK scope \in Seq(DocumentTypes) : scope = InScope
      BY <2>1, <3>1, ScopeIs
    <3>3. PICK c, pairs : c = root.collection /\ pairs = ComparisonPairs(c, scope)
      OBVIOUS
    <3>4. /\ pairs \in Seq(PairsAmong(scope))
          /\ Range(pairs) = RelatedPairs(c, scope) \cup AdjacentPairs(scope)
          /\ \A i, j \in 1..Len(pairs) : pairs[i] = pairs[j] => i = j
      BY <3>3, ComparisonPairsAre
    <3>5. report.summary = pairs /\ DOMAIN report.files = {ReportName(pairs[i]) : i \in 1..Len(pairs)}
      BY <3>1, <3>2, <3>3 DEF PairsNow, NamesOf
    <3>6. /\ \A p \in Range(pairs) : TimesListed(pairs, p) = 1
          /\ (\A p, q \in PairsAmong(scope) : ReportName(p) = ReportName(q) => p = q) =>
                Cardinality({ReportName(pairs[i]) : i \in 1..Len(pairs)}) = Len(pairs)
      BY <3>4, PairsAreCounted
    <3>7. SafeNamesDiffer(scope) =>
              \A p, q \in PairsAmong(scope) : ReportName(p) = ReportName(q) => p = q
      BY ReportNamesDiffer
    <3>8. \A p \in Range(pairs) : ReportName(p) \in {ReportName(pairs[i]) : i \in 1..Len(pairs)}
      BY <3>4, LenProperties DEF Range
    <3>9. QED
      BY <3>1, <3>2, <3>4, <3>5, <3>6, <3>7, <3>8
  <2>4. QED
    BY <2>2, <2>3 DEF PipelineIsWhole
<1>4. QED
  BY <1>1, <1>2, <1>3, PTL DEF PortfolioSpec
=============================================================================
