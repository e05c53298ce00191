------------------------- MODULE SegmentedIndexProofs -------------------------
(***************************************************************************)
(* Theorems about SegmentedIndex, for every number of processes, every     *)
(* set of paths and texts and every limit of the counters: first the       *)
(* inductive invariant and what follows from it at once, then that what    *)
(* the writers plan is valid, that a search returns one generation, and    *)
(* that the directory implements DocumentStore.                            *)
(***************************************************************************)
EXTENDS SegmentedIndex, FiniteSetTheorems, SequenceTheorems, TLAPS

-----------------------------------------------------------------------------
(* The manifests the writers compute *)

\* A batch can be the body of a segment, and Cardinality counts its documents.
LEMMA BatchIsBody ==
  ASSUME NEW batch \in Batches
  PROVE  /\ batch \in Bodies
         /\ Cardinality(DOMAIN batch) \in 1 .. MaxBatch
         /\ batch \in [0 .. Cardinality(DOMAIN batch) - 1 -> Document]
<1>1. PICK n \in 1 .. MaxBatch : batch \in [0 .. n - 1 -> Document]
  BY DEF Batches
<1>2. n \in Nat /\ n >= 1 /\ n \in 1 .. MaxBatch + DocumentLimit
  BY <1>1, LimitsAssumption
<1>3. Cardinality(0 .. n - 1) = n
  BY <1>2, FS_Interval
<1>4. batch \in Bodies
  BY <1>1, <1>2 DEF Bodies
<1>5. QED
  BY <1>1, <1>2, <1>3, <1>4

LEMMA BodyDocument ==
  ASSUME NEW b \in Bodies, NEW l \in DOMAIN b
  PROVE  b[l] \in Document
BY DEF Bodies

\* Appending yields a manifest.
LEMMA AppendType ==
  ASSUME NEW m \in Manifest, NEW batch \in Batches,
         AfterAppend(m, batch) # None
  PROVE  AfterAppend(m, batch) \in Manifest
<1> DEFINE n == Cardinality(DOMAIN batch)
           added == m.next_document .. m.next_document + n - 1
           r == AfterAppend(m, batch)
<1>1. /\ n \in 1 .. MaxBatch /\ n \in Nat
      /\ batch \in [0 .. n - 1 -> Document]
      /\ batch \in Bodies
  BY BatchIsBody, LimitsAssumption
<1>2. /\ m.next_document \in Nat /\ m.next_segment \in Nat /\ m.generation \in Nat
      /\ m.next_document + n <= DocumentLimit
      /\ m.next_segment < SegmentLimit
      /\ m.generation < GenerationLimit
  BY <1>1, LimitsAssumption
     DEF AfterAppend, AppendOverflows, Manifest, SegmentIds, DocumentIds
<1>3. /\ r.generation = m.generation + 1
      /\ r.next_segment = m.next_segment + 1
      /\ r.next_document = m.next_document + n
      /\ r.segments = [m.segments EXCEPT ![m.next_segment] = batch]
      /\ r.documents = [g \in DocumentIds |->
           IF g \in added
           THEN [path |-> batch[g - m.next_document].path, deleted |-> FALSE,
                 segment |-> m.next_segment, local |-> g - m.next_document]
           ELSE m.documents[g]]
      /\ r = [generation |-> r.generation, next_segment |-> r.next_segment,
              next_document |-> r.next_document, segments |-> r.segments,
              documents |-> r.documents]
  BY DEF AfterAppend
<1>4. r.segments \in [SegmentIds -> Bodies \cup {None}]
  BY <1>1, <1>3 DEF Manifest
<1>5. r.documents \in [DocumentIds -> Record \cup {None}]
  <2>1. ASSUME NEW g \in DocumentIds, g \in added
        PROVE  [path |-> batch[g - m.next_document].path, deleted |-> FALSE,
                segment |-> m.next_segment, local |-> g - m.next_document] \in Record
    <3>1. g - m.next_document \in 0 .. n - 1
      BY <2>1, <1>1, <1>2 DEF DocumentIds
    <3>2. batch[g - m.next_document].path \in Paths
      BY <3>1, <1>1 DEF Document
    <3>3. g - m.next_document \in LocalIds
      BY <3>1, <1>1, LimitsAssumption DEF LocalIds
    <3>4. m.next_segment \in SegmentIds
      BY DEF Manifest
    <3>5. QED
      BY <3>2, <3>3, <3>4 DEF Record
  <2>2. QED
    BY <1>3, <2>1 DEF Manifest
<1>6. /\ r.generation \in 0 .. GenerationLimit
      /\ r.next_segment \in SegmentIds
      /\ r.next_document \in DocumentIds
  <2>1. r.generation \in 0 .. GenerationLimit
    BY <1>2, <1>3, LimitsAssumption
  <2>2. r.next_segment \in SegmentIds
    BY <1>2, <1>3, LimitsAssumption DEF SegmentIds
  <2>3. r.next_document \in DocumentIds
    <3> HIDE DEF n
    <3>1. m.next_document + n \in 0 .. DocumentLimit
      BY <1>1, <1>2, LimitsAssumption
    <3>2. QED
      BY <3>1, <1>3 DEF DocumentIds
  <2>4. QED
    BY <2>1, <2>2, <2>3
<1>7. QED
  BY <1>3, <1>4, <1>5, <1>6 DEF Manifest

LEMMA TombstoneType ==
  ASSUME NEW r \in Record
  PROVE  /\ Tombstone(r) \in Record
         /\ Tombstone(r).path = r.path
         /\ Tombstone(r).deleted
         /\ Tombstone(r).segment = None
         /\ Tombstone(r).local = None
BY DEF Tombstone, Record

\* Deleting yields a manifest.
LEMMA DeleteType ==
  ASSUME NEW m \in Manifest, NEW requested, AfterDelete(m, requested) # None
  PROVE  AfterDelete(m, requested) \in Manifest
<1> DEFINE r == AfterDelete(m, requested)
<1>1. /\ m.generation # GenerationLimit
      /\ r = [m EXCEPT
          !.generation = m.generation + 1,
          !.documents = [g \in DocumentIds |->
             IF g \in Live(m) /\ m.documents[g].path \in requested
             THEN Tombstone(m.documents[g])
             ELSE m.documents[g]]]
  BY DEF AfterDelete
<1>2. m.generation + 1 \in 0 .. GenerationLimit
  BY <1>1, LimitsAssumption DEF Manifest
<1>3. ASSUME NEW g \in Live(m)
      PROVE  Tombstone(m.documents[g]) \in Record
  BY TombstoneType DEF Live, Recorded, Manifest
<1>4. [g \in DocumentIds |->
             IF g \in Live(m) /\ m.documents[g].path \in requested
             THEN Tombstone(m.documents[g])
             ELSE m.documents[g]] \in [DocumentIds -> Record \cup {None}]
  BY <1>3 DEF Manifest
<1>5. QED
  BY <1>1, <1>2, <1>4 DEF Manifest

LEMMA LiveFinite ==
  ASSUME NEW m
  PROVE  /\ Live(m) \subseteq DocumentIds
         /\ Live(m) \subseteq Nat
         /\ IsFiniteSet(Live(m))
         /\ Cardinality(Live(m)) \in 0 .. DocumentLimit + 1
<1>1. Live(m) \subseteq DocumentIds /\ Live(m) \subseteq Nat
  BY DEF Live, Recorded, DocumentIds
<1>2. IsFiniteSet(DocumentIds) /\ Cardinality(DocumentIds) = DocumentLimit + 1
  BY LimitsAssumption, FS_Interval DEF DocumentIds
<1>3. IsFiniteSet(Live(m)) /\ Cardinality(Live(m)) <= DocumentLimit + 1
  BY <1>1, <1>2, FS_Subset
<1>4. Cardinality(Live(m)) \in Nat
  BY <1>3, FS_CardinalityType
<1>5. QED
  BY <1>1, <1>3, <1>4, LimitsAssumption

\* Ranking the live documents by identifier numbers them without gaps or
\* repetitions, so the local identifiers compact assigns are exactly the
\* positions of the new segment.
LEMMA RankBijection ==
  ASSUME NEW m
  PROVE  /\ \A g \in Live(m) : Rank(m, g) \in 0 .. Cardinality(Live(m)) - 1
         /\ \A g, k \in Live(m) : Rank(m, g) = Rank(m, k) => g = k
         /\ \A l \in 0 .. Cardinality(Live(m)) - 1 : \E g \in Live(m) : Rank(m, g) = l
<1> DEFINE L == Live(m)
           Below(g) == {k \in L : k < g}
           n == Cardinality(L)
           rank == [g \in L |-> Rank(m, g)]
<1>1. IsFiniteSet(L) /\ n \in Nat /\ L \subseteq Nat
  BY LiveFinite, FS_CardinalityType
<1>2. ASSUME NEW g \in L
      PROVE  /\ IsFiniteSet(Below(g)) /\ Rank(m, g) = Cardinality(Below(g))
             /\ Rank(m, g) \in Nat /\ Rank(m, g) < n
  <2>1. Below(g) \in SUBSET L /\ g \notin Below(g)
    BY <1>1
  <2>2. IsFiniteSet(Below(g)) /\ Cardinality(Below(g)) <= n /\ Cardinality(Below(g)) # n
    BY <1>1, <2>1, FS_Subset
  <2>3. Cardinality(Below(g)) \in Nat
    BY <2>2, FS_CardinalityType
  <2>4. Rank(m, g) = Cardinality(Below(g))
    BY DEF Rank
  <2>5. QED
    BY <1>1, <2>2, <2>3, <2>4
<1>3. ASSUME NEW g \in L, NEW k \in L, g < k
      PROVE  Rank(m, g) # Rank(m, k)
  <2>1. Below(g) \in SUBSET Below(k) /\ g \in Below(k) /\ g \notin Below(g)
    BY <1>1, <1>3
  <2>2. Cardinality(Below(g)) # Cardinality(Below(k))
    BY <1>2, <2>1, FS_Subset
  <2>3. QED
    BY <1>2, <2>2
<1>4. \A g, k \in L : Rank(m, g) = Rank(m, k) => g = k
  BY <1>1, <1>3
<1>5. ASSUME NEW g \in L
      PROVE  Rank(m, g) \in 0 .. n - 1
  <2>1. Rank(m, g) \in Nat /\ Rank(m, g) < n /\ n \in Nat
    BY <1>1, <1>2
  <2> HIDE DEF n
  <2>2. QED
    BY <2>1
<1>6. IsFiniteSet(0 .. n - 1) /\ Cardinality(0 .. n - 1) = n
  BY <1>1, FS_Interval
<1>7. rank \in Injection(L, 0 .. n - 1)
  BY <1>4, <1>5 DEF Injection, IsInjective
<1>8. rank \in Surjection(L, 0 .. n - 1)
  BY <1>6, <1>7, FS_Injection
<1>9. \A l \in 0 .. n - 1 : \E g \in L : Rank(m, g) = l
  BY <1>8 DEF Surjection
<1>10. QED
  BY <1>4, <1>5, <1>9

\* Compaction writes the document of rank l to position l.
LEMMA CompactedDocument ==
  ASSUME NEW m, NEW g \in Live(m)
  PROVE  /\ Rank(m, g) \in DOMAIN CompactedBody(m)
         /\ CompactedBody(m)[Rank(m, g)] =
              [path |-> m.documents[g].path, text |-> LoadedText(m, g)]
<1>1. /\ Rank(m, g) \in 0 .. Cardinality(Live(m)) - 1
      /\ (CHOOSE k \in Live(m) : Rank(m, k) = Rank(m, g)) = g
  BY RankBijection
<1>2. QED
  BY <1>1 DEF CompactedBody

\* A body that can be loaded completely is rewritten as a body.
LEMMA CompactBodyType ==
  ASSUME NEW m \in Manifest, files \in [SegmentIds -> Bodies \cup {None}],
         \A g \in Live(m) : m.documents[g].segment \in SegmentIds,
         Loadable(m), Live(m) # {}
  PROVE  CompactedBody(m) \in Bodies
<1> DEFINE n == Cardinality(Live(m))
<1>1. n \in 1 .. MaxBatch + DocumentLimit
  <2>1. n \in 0 .. DocumentLimit + 1 /\ IsFiniteSet(Live(m))
    BY LiveFinite
  <2>2. n # 0
    BY <2>1, FS_EmptySet
  <2>3. QED
    BY <2>1, <2>2, LimitsAssumption
<1>2. ASSUME NEW g \in Live(m)
      PROVE  [path |-> m.documents[g].path, text |-> LoadedText(m, g)] \in Document
  <2>1. m.documents[g] \in Record
    BY DEF Live, Recorded, Manifest
  <2>2. files[m.documents[g].segment] \in Bodies
    BY DEF Loadable
  <2>3. files[m.documents[g].segment][m.documents[g].local] \in Document
    BY <2>2 DEF Loadable, Bodies
  <2>4. QED
    BY <2>1, <2>3 DEF LoadedText, Document, Record
<1>3. ASSUME NEW l \in 0 .. n - 1
      PROVE  (CHOOSE g \in Live(m) : Rank(m, g) = l) \in Live(m)
  BY RankBijection
<1>4. CompactedBody(m) \in [0 .. n - 1 -> Document]
  BY <1>2, <1>3 DEF CompactedBody
<1>5. QED
  BY <1>1, <1>4 DEF Bodies

\* Compaction yields a manifest.
LEMMA CompactType ==
  ASSUME NEW m \in Manifest, files \in [SegmentIds -> Bodies \cup {None}],
         \A g \in Live(m) : m.documents[g].segment \in SegmentIds,
         Loadable(m), AfterCompact(m) # None
  PROVE  AfterCompact(m) \in Manifest
<1> DEFINE r == AfterCompact(m)
           segs == [s \in SegmentIds |->
                      IF Live(m) # {} /\ s = m.next_segment THEN CompactedBody(m)
                                                           ELSE None]
           docs == [g \in DocumentIds |->
                 IF g \in Live(m)
                 THEN [m.documents[g] EXCEPT !.segment = m.next_segment,
                                             !.local = Rank(m, g)]
                 ELSE IF g \in Recorded(m) THEN Tombstone(m.documents[g])
                                           ELSE None]
<1>1. /\ m.generation # GenerationLimit
      /\ Live(m) # {} => m.next_segment # SegmentLimit
      /\ r = [m EXCEPT !.generation = m.generation + 1,
                       !.next_segment = SegmentAfterCompact(m),
                       !.segments = segs,
                       !.documents = docs]
  BY DEF AfterCompact
<1>2. m.generation + 1 \in 0 .. GenerationLimit
  BY <1>1, LimitsAssumption DEF Manifest
<1>3. SegmentAfterCompact(m) \in SegmentIds
  BY <1>1, LimitsAssumption DEF Manifest, SegmentAfterCompact, SegmentIds
<1>4. segs \in [SegmentIds -> Bodies \cup {None}]
  BY CompactBodyType
<1>5. docs \in [DocumentIds -> Record \cup {None}]
  <2>1. ASSUME NEW g \in Recorded(m)
        PROVE  m.documents[g] \in Record /\ Tombstone(m.documents[g]) \in Record
    BY TombstoneType DEF Recorded, Manifest
  <2>2. ASSUME NEW g \in Live(m)
        PROVE  [m.documents[g] EXCEPT !.segment = m.next_segment,
                                      !.local = Rank(m, g)] \in Record
    <3>1. m.documents[g] \in Record
      BY <2>1 DEF Live
    <3>2. Rank(m, g) \in LocalIds
      <4>1. /\ Rank(m, g) \in 0 .. Cardinality(Live(m)) - 1
            /\ Cardinality(Live(m)) \in 0 .. DocumentLimit + 1
        BY RankBijection, LiveFinite
      <4>2. QED
        BY <4>1, LimitsAssumption DEF LocalIds
    <3>3. m.next_segment \in SegmentIds
      BY DEF Manifest
    <3>4. QED
      BY <3>1, <3>2, <3>3 DEF Record
  <2>3. QED
    BY <2>1, <2>2
<1>6. QED
  BY <1>1, <1>2, <1>3, <1>4, <1>5 DEF Manifest

-----------------------------------------------------------------------------
(* Type correctness *)

\* Typing the compacted body needs the manifests in memory to be valid ones.
TypeInv ==
  /\ TypeOK
  /\ HandleInv
  /\ \A h \in Handles : pc[h] = "reinstall" =>
       next[h] # None /\ ValidManifest(next[h])

LEMMA EmptyManifestType == EmptyManifest \in Manifest /\ ValidManifest(EmptyManifest)
<1>1. EmptyManifest \in Manifest
  BY LimitsAssumption DEF EmptyManifest, Manifest, SegmentIds, DocumentIds
<1>2. Listed(EmptyManifest) = {} /\ Recorded(EmptyManifest) = {} /\ Live(EmptyManifest) = {}
  BY DEF EmptyManifest, Listed, Recorded, Live
<1>3. QED
  BY <1>1, <1>2 DEF ValidManifest

LEMMA TypeInit == Init => TypeInv
BY DEF Init, TypeInv, TypeOK, HandleInv, Busy, Guarded

\* A handle with a manifest in memory plans within the types.
LEMMA PlanTypes ==
  ASSUME TypeInv, NEW h \in Handles, mem[h] # None
  PROVE  /\ mem[h] \in Manifest /\ mem[h].next_segment \in SegmentIds
         /\ \A batch \in Batches : AfterAppend(mem[h], batch) \in Manifest \cup {None}
         /\ \A requested : AfterDelete(mem[h], requested) \in Manifest \cup {None}
         /\ Loadable(mem[h]) => AfterCompact(mem[h]) \in Manifest \cup {None}
         /\ Loadable(mem[h]) /\ Live(mem[h]) # {} => CompactedBody(mem[h]) \in Bodies
<1> DEFINE m == mem[h]
<1>1. m \in Manifest /\ ValidManifest(m) /\ files \in [SegmentIds -> Bodies \cup {None}]
  BY DEF TypeInv, TypeOK, HandleInv
<1>2. m.next_segment \in SegmentIds
  BY <1>1 DEF Manifest
<1>3. \A g \in Live(m) : m.documents[g].segment \in SegmentIds
  BY <1>1 DEF ValidManifest, Listed
<1> HIDE DEF m
<1>4. \A batch \in Batches : AfterAppend(m, batch) \in Manifest \cup {None}
  BY <1>1, AppendType
<1>5. \A requested : AfterDelete(m, requested) \in Manifest \cup {None}
  BY <1>1, DeleteType
<1>6. Loadable(m) => AfterCompact(m) \in Manifest \cup {None}
  BY <1>1, <1>3, CompactType
<1>7. Loadable(m) /\ Live(m) # {} => CompactedBody(m) \in Bodies
  BY <1>1, <1>3, CompactBodyType
<1>8. QED
  BY <1>1, <1>2, <1>4, <1>5, <1>6, <1>7 DEF m

LEMMA TypeStep == TypeInv /\ [Next]_vars => TypeInv'
<1> SUFFICES ASSUME TypeInv, [Next]_vars
             PROVE  TypeInv'
  OBVIOUS
<1> USE DEF TypeInv, TypeOK, HandleInv, disk, local, Goto, Busy, Guarded
<1>1. ASSUME NEW h \in Handles, Open(h)
      PROVE  TypeInv'
  BY <1>1 DEF Open
<1>2. ASSUME NEW h \in Handles, Probe(h) \/ Refused(h) \/ LeakLock(h)
      PROVE  TypeInv'
  BY <1>2 DEF Probe, Refused, LeakLock, Rest
<1>3. ASSUME NEW h \in Handles, NEW label \in {"scan", "append", "delete", "compact"},
             Acquire(h, label)
      PROVE  TypeInv'
  BY <1>3 DEF Acquire
<1>4. ASSUME NEW h \in Handles, Release(h)
      PROVE  TypeInv'
  BY <1>4 DEF Release, NoPlan, Plan, Rest
<1>5. ASSUME NEW h \in Handles, PlanCreate(h)
      PROVE  TypeInv'
  BY <1>5, EmptyManifestType DEF PlanCreate, Abandon, NoPlan, Plan
<1>6. ASSUME NEW h \in Handles, PlanAppend(h)
      PROVE  TypeInv'
  <2>1. CASE /\ Abandon(h) /\ UNCHANGED <<disk, mem, answer>>
    BY <2>1 DEF Abandon, NoPlan, Plan
  <2>2. ASSUME NEW batch \in Batches,
               Plan(h, AfterAppend(mem[h], batch), mem[h].next_segment, batch, {}),
               Goto(h, "save"), UNCHANGED <<disk, mem, answer>>
        PROVE  TypeInv'
    BY <1>6, <2>2, PlanTypes, BatchIsBody DEF PlanAppend, Plan
  <2>3. QED
    BY <1>6, <2>1, <2>2 DEF PlanAppend
<1>7. ASSUME NEW h \in Handles, PlanDelete(h)
      PROVE  TypeInv'
  BY <1>7, PlanTypes DEF PlanDelete, Abandon, NoPlan, Plan
<1>8. ASSUME NEW h \in Handles, PlanCompact(h)
      PROVE  TypeInv'
  <2>1. mem[h] # None /\ Listed(mem[h]) \subseteq SegmentIds
    BY <1>8 DEF PlanCompact, Listed
  <2>2. QED
    BY <1>8, <2>1, PlanTypes DEF PlanCompact, Abandon, NoPlan, Plan
<1>9. ASSUME NEW h \in Handles, Save(h) \/ DisplaceOrphan(h)
      PROVE  TypeInv'
  BY <1>9 DEF Save, DisplaceOrphan
<1>10. ASSUME NEW h \in Handles, SaveFails(h) \/ Reject(h) \/ Undo(h)
       PROVE  TypeInv'
  BY <1>10 DEF SaveFails, Reject, Undo, Abandon, NoPlan, Plan
<1>11. ASSUME NEW h \in Handles, Install(h) \/ Reinstall(h)
       PROVE  TypeInv'
  BY <1>11 DEF Install, Reinstall, Installed, Publishable, Plan
<1>12. ASSUME NEW h \in Handles, InstallFails(h) \/ RemoveForReplace(h) \/ ReinstallFails(h)
       PROVE  TypeInv'
  BY <1>12 DEF InstallFails, RemoveForReplace, ReinstallFails, Publishable
<1>13. ASSUME NEW h \in Handles, Sweep(h)
       PROVE  TypeInv'
  BY <1>13 DEF Sweep
<1>14. ASSUME NEW h \in Handles, StartSearch(h) \/ EndSearch(h)
       PROVE  TypeInv'
  BY <1>14 DEF StartSearch, EndSearch, Listed
<1>15. ASSUME NEW h \in Handles, ReadSegment(h)
       PROVE  TypeInv'
  <2>1. PICK s \in todo[h] :
          /\ Searchable(h, s)
          /\ answer' = [answer EXCEPT ![h] =
                          @ \cup {<<g, Hit(h, g).text>> : g \in Hits(h, s)}]
          /\ todo' = [todo EXCEPT ![h] = @ \ {s}]
    BY <1>15 DEF ReadSegment
  <2>2. ASSUME NEW g \in Hits(h, s)
        PROVE  g \in DocumentIds /\ Hit(h, g).text \in Texts
    <3>1. s \in SegmentIds /\ files[s] \in Bodies
      BY <2>1 DEF Searchable
    <3>2. /\ g \in DocumentIds
          /\ mem[h].documents[g].segment = s
          /\ mem[h].documents[g].local \in DOMAIN files[s]
      BY <2>2 DEF Hits, LiveIn, Live, Recorded
    <3>3. files[s][mem[h].documents[g].local] \in Document
      BY <3>1, <3>2, BodyDocument
    <3>4. QED
      BY <3>2, <3>3 DEF Hit, Document
  <2>3. {<<g, Hit(h, g).text>> : g \in Hits(h, s)} \subseteq DocumentIds \X Texts
    BY <2>2
  <2>4. answer' \in [Handles -> SUBSET (DocumentIds \X Texts)]
    BY <2>1, <2>3
  <2>5. QED
    BY <1>15, <2>1, <2>4 DEF ReadSegment
<1>16. ASSUME NEW h \in Handles, Crash(h)
       PROVE  TypeInv'
  BY <1>16 DEF Crash, NoPlan, Plan
<1>17. CASE RemoveOrphanedLock
  BY <1>17 DEF RemoveOrphanedLock
<1>18. CASE UNCHANGED vars
  BY <1>18 DEF vars
<1>19. QED
  BY <1>1, <1>2, <1>3, <1>4, <1>5, <1>6, <1>7, <1>8, <1>9, <1>10, <1>11, <1>12,
     <1>13, <1>14, <1>15, <1>16, <1>17, <1>18 DEF Next, Step, Call

\* Every variable keeps its type, through every operation, failure and crash:
\* in particular no counter passes its limit and no body outgrows a segment.
THEOREM TypeCorrect == Spec => []TypeOK
<1>1. Spec => []TypeInv
  BY TypeInit, TypeStep, PTL DEF Spec
<1>2. TypeInv => TypeOK
  BY DEF TypeInv
<1>3. QED
  BY <1>1, <1>2, PTL

-----------------------------------------------------------------------------
(* What the plans of the writers preserve *)

\* The identifiers an appended batch takes.
Added(m, batch) ==
  m.next_document .. m.next_document + Cardinality(DOMAIN batch) - 1

\* Appending adds records for the batch and changes no other.
LEMMA AppendRecords ==
  ASSUME NEW m \in Manifest, ValidManifest(m),
         NEW batch \in Batches, AfterAppend(m, batch) # None
  PROVE  LET n == AfterAppend(m, batch)
             c == Cardinality(DOMAIN batch)
         IN  /\ /\ n.generation = m.generation + 1
                /\ n.next_segment = m.next_segment + 1
                /\ n.next_document = m.next_document + c
                /\ n.segments = [m.segments EXCEPT ![m.next_segment] = batch]
             /\ \A g \in Added(m, batch) :
                  /\ g \in DocumentIds /\ g - m.next_document \in 0 .. c - 1
                  /\ n.documents[g] =
                       [path |-> batch[g - m.next_document].path, deleted |-> FALSE,
                        segment |-> m.next_segment, local |-> g - m.next_document]
                  /\ g \in Live(n)
             /\ \A g \in Recorded(m) :
                  g \notin Added(m, batch) /\ n.documents[g] = m.documents[g]
             /\ Recorded(n) = Recorded(m) \cup Added(m, batch)
<1> DEFINE c == Cardinality(DOMAIN batch)
           added == Added(m, batch)
           n == AfterAppend(m, batch)
<1>1. /\ c \in Nat /\ c >= 1
      /\ batch \in [0 .. c - 1 -> Document] /\ batch \in Bodies /\ batch # None
  BY BatchIsBody, NoneAssumption, LimitsAssumption
<1>2. /\ m.next_document \in Nat /\ m.next_segment \in SegmentIds /\ m.generation \in Nat
      /\ m.next_segment \in Nat
      /\ m.segments \in [SegmentIds -> Bodies \cup {None}]
      /\ m.documents \in [DocumentIds -> Record \cup {None}]
      /\ m.next_document + c <= DocumentLimit
  BY <1>1, LimitsAssumption
     DEF Manifest, SegmentIds, DocumentIds, AfterAppend, AppendOverflows
<1>3. /\ n.generation = m.generation + 1
      /\ n.next_segment = m.next_segment + 1
      /\ n.next_document = m.next_document + c
      /\ n.segments = [m.segments EXCEPT ![m.next_segment] = batch]
      /\ n.documents = [g \in DocumentIds |->
           IF g \in added
           THEN [path |-> batch[g - m.next_document].path, deleted |-> FALSE,
                 segment |-> m.next_segment, local |-> g - m.next_document]
           ELSE m.documents[g]]
  BY DEF AfterAppend, Added
<1>4. added \subseteq DocumentIds /\ DocumentIds \subseteq Nat
  BY <1>1, <1>2, LimitsAssumption DEF DocumentIds, Added
<1> HIDE DEF n, c, added
<1>5. ASSUME NEW g \in added
      PROVE  /\ g \in DocumentIds /\ g - m.next_document \in 0 .. c - 1
             /\ n.documents[g] =
                  [path |-> batch[g - m.next_document].path, deleted |-> FALSE,
                   segment |-> m.next_segment, local |-> g - m.next_document]
             /\ n.documents[g] \in Record /\ n.documents[g] # None
             /\ g \in Live(n)
  <2>1. g - m.next_document \in 0 .. c - 1 /\ g \in DocumentIds
    BY <1>1, <1>2, <1>4, <1>5 DEF added, Added, c
  <2>2. n.documents[g] =
          [path |-> batch[g - m.next_document].path, deleted |-> FALSE,
           segment |-> m.next_segment, local |-> g - m.next_document]
    BY <1>3, <1>5, <2>1
  <2>3. n \in Manifest
    BY AppendType DEF n
  <2>4. n.documents[g] \in Record \cup {None}
    BY <2>1, <2>3 DEF Manifest
  <2>5. n.documents[g] # None
    <3>1. batch[g - m.next_document].path \in Paths
      BY <1>1, <2>1 DEF Document
    <3>2. g - m.next_document \in LocalIds
      <4>1. c \in 1 .. MaxBatch
        BY BatchIsBody DEF c
      <4>2. QED
        BY <2>1, <4>1, LimitsAssumption DEF LocalIds
    <3>3. n.documents[g] \in Record
      BY <1>2, <2>2, <3>1, <3>2 DEF Record
    <3>4. QED
      BY <3>3, NoneAssumption
  <2>6. QED
    BY <2>1, <2>2, <2>4, <2>5 DEF Live, Recorded
<1>6. ASSUME NEW g \in Recorded(m)
      PROVE  g \in DocumentIds /\ g \notin added /\ n.documents[g] = m.documents[g]
  <2>1. g \in DocumentIds /\ g < m.next_document
    BY <1>6 DEF ValidManifest, Recorded
  <2>2. g \notin added
    BY <1>2, <1>4, <2>1 DEF added, Added
  <2>3. QED
    BY <1>3, <2>1, <2>2
<1>7. Recorded(n) = Recorded(m) \cup added
  <2>1. Recorded(n) \subseteq Recorded(m) \cup added
    BY <1>3 DEF Recorded
  <2>2. Recorded(m) \subseteq Recorded(n)
    BY <1>6 DEF Recorded
  <2>3. added \subseteq Recorded(n)
    BY <1>5 DEF Live
  <2>4. QED
    BY <2>1, <2>2, <2>3
<1>8. QED
  BY <1>3, <1>5, <1>6, <1>7 DEF n, c, added

\* An append leaves the records there are as they are.
LEMMA AppendKeepsRecords ==
  ASSUME NEW m \in Manifest, ValidManifest(m),
         NEW batch \in Batches, AfterAppend(m, batch) # None, NEW g \in Recorded(m)
  PROVE  AfterAppend(m, batch).documents[g] = m.documents[g]
<1>1. g \in DocumentIds /\ g < m.next_document
  BY DEF ValidManifest, Recorded
<1>2. m.next_document \in Nat /\ DocumentIds \subseteq Nat
  BY LimitsAssumption DEF Manifest, DocumentIds
<1>3. g \notin Added(m, batch)
  BY <1>1, <1>2 DEF Added
<1>4. AfterAppend(m, batch).documents
        = [h \in DocumentIds |->
             IF h \in Added(m, batch)
             THEN [path |-> batch[h - m.next_document].path, deleted |-> FALSE,
                   segment |-> m.next_segment, local |-> h - m.next_document]
             ELSE m.documents[h]]
  BY DEF AfterAppend, Added
<1>5. QED
  BY ONLY <1>1, <1>3, <1>4

\* The batch becomes the contents of a segment no manifest has listed, and its
\* documents take identifiers no record has had.
LEMMA AppendPlan ==
  ASSUME NEW m \in Manifest, ValidManifest(m), PathsAgree(m),
         NEW batch \in Batches, AfterAppend(m, batch) # None
  PROVE  LET n == AfterAppend(m, batch)
         IN  /\ Extends(m, n)
             /\ PathsAgree(n)
             /\ \A s \in Listed(n) :
                  \/ s \in Listed(m) /\ n.segments[s] = m.segments[s]
                  \/ s = m.next_segment /\ n.segments[s] = batch
<1> DEFINE c == Cardinality(DOMAIN batch)
           added == Added(m, batch)
           n == AfterAppend(m, batch)
<1>1. c \in Nat /\ c >= 1 /\ batch \in Bodies /\ batch # None
  BY BatchIsBody, NoneAssumption, LimitsAssumption
<1>2. /\ m.next_document \in Nat /\ m.next_segment \in SegmentIds /\ m.generation \in Nat
      /\ m.next_segment \in Nat
      /\ m.segments \in [SegmentIds -> Bodies \cup {None}]
  BY LimitsAssumption DEF Manifest, SegmentIds, DocumentIds
<1> HIDE DEF n, c, added
<1>3. /\ n.generation = m.generation + 1
      /\ n.next_segment = m.next_segment + 1
      /\ n.next_document = m.next_document + c
      /\ n.segments = [m.segments EXCEPT ![m.next_segment] = batch]
  BY AppendRecords DEF n, c
<1>4. added = m.next_document .. m.next_document + c - 1
  BY DEF added, Added, c
<1>5. \A g \in added :
        n.documents[g] =
          [path |-> batch[g - m.next_document].path, deleted |-> FALSE,
           segment |-> m.next_segment, local |-> g - m.next_document]
  BY AppendRecords DEF n, added
<1>6. \A g \in Recorded(m) : g \notin added /\ n.documents[g] = m.documents[g]
  BY AppendRecords DEF n, added
<1>7. Recorded(n) = Recorded(m) \cup added
  BY AppendRecords DEF n, added
<1>8. Extends(m, n)
  <2>1. Recorded(m) \subseteq Recorded(n)
    BY <1>7
  <2>2. Recorded(n) \ Recorded(m) \subseteq m.next_document .. n.next_document - 1
    BY <1>1, <1>2, <1>3, <1>4, <1>7
  <2>3. n.next_segment >= m.next_segment /\ n.next_document >= m.next_document
    BY <1>1, <1>2, <1>3
  <2>4. /\ \A g \in Recorded(m) : n.documents[g] = m.documents[g]
        /\ Live(n) \cap Recorded(m) \subseteq Live(m)
    BY <1>6 DEF Live
  <2>5. QED
    BY <1>3, <2>1, <2>2, <2>3, <2>4 DEF Extends
<1>9. ASSUME NEW g \in Live(n)
      PROVE  n.segments[n.documents[g].segment][n.documents[g].local].path
               = n.documents[g].path
  <2>1. CASE g \in added
    <3>1. n.documents[g] =
            [path |-> batch[g - m.next_document].path, deleted |-> FALSE,
             segment |-> m.next_segment, local |-> g - m.next_document]
      BY <1>5, <2>1
    <3>2. n.segments[m.next_segment] = batch
      BY <1>2, <1>3
    <3>3. QED
      BY <3>1, <3>2
  <2>2. CASE g \notin added
    <3>1. g \in Recorded(m) /\ n.documents[g] = m.documents[g] /\ g \in Live(m)
      BY <1>6, <1>7, <2>2 DEF Live
    <3>2. m.documents[g].segment \in Listed(m) /\ m.documents[g].segment # m.next_segment
      <4>1. m.documents[g].segment \in Listed(m)
        BY <3>1 DEF ValidManifest
      <4>2. m.documents[g].segment < m.next_segment
        BY <4>1 DEF ValidManifest
      <4>3. QED
        BY <4>1, <4>2, <1>2
    <3>3. n.segments[m.documents[g].segment] = m.segments[m.documents[g].segment]
      BY <1>2, <1>3, <3>2 DEF Listed
    <3>4. QED
      BY <3>1, <3>3 DEF PathsAgree
  <2>3. QED
    BY <2>1, <2>2
<1>10. ASSUME NEW s \in Listed(n)
       PROVE  \/ s \in Listed(m) /\ n.segments[s] = m.segments[s]
              \/ s = m.next_segment /\ n.segments[s] = batch
  BY <1>2, <1>3 DEF Listed
<1>11. QED
  BY <1>8, <1>9, <1>10 DEF PathsAgree, n

\* Deleting turns the records of the requested paths into tombstones.
LEMMA DeleteRecords ==
  ASSUME NEW m \in Manifest, NEW requested, AfterDelete(m, requested) # None
  PROVE  LET n == AfterDelete(m, requested)
         IN  /\ /\ n.generation = m.generation + 1
                /\ n.next_segment = m.next_segment
                /\ n.next_document = m.next_document
                /\ n.segments = m.segments
             /\ Recorded(n) = Recorded(m)
             /\ \A g \in Recorded(m) :
                  IF g \in Live(m) /\ m.documents[g].path \in requested
                  THEN n.documents[g] = Tombstone(m.documents[g]) /\ g \notin Live(n)
                  ELSE n.documents[g] = m.documents[g]
             /\ \A g \in Recorded(m) : n.documents[g].path = m.documents[g].path
<1> DEFINE n == AfterDelete(m, requested)
           docs == [g \in DocumentIds |->
             IF g \in Live(m) /\ m.documents[g].path \in requested
             THEN Tombstone(m.documents[g])
             ELSE m.documents[g]]
<1>1. /\ n.generation = m.generation + 1
      /\ n.next_segment = m.next_segment
      /\ n.next_document = m.next_document
      /\ n.segments = m.segments
      /\ n.documents = docs
  BY DEF AfterDelete, Manifest
<1> HIDE DEF n
<1>2. ASSUME NEW g \in Recorded(m)
      PROVE  /\ g \in Recorded(n)
             /\ IF g \in Live(m) /\ m.documents[g].path \in requested
                THEN n.documents[g] = Tombstone(m.documents[g]) /\ g \notin Live(n)
                ELSE n.documents[g] = m.documents[g]
             /\ n.documents[g].path = m.documents[g].path
  <2>1. g \in DocumentIds /\ m.documents[g] \in Record /\ m.documents[g] # None
    BY DEF Recorded, Manifest
  <2>2. /\ Tombstone(m.documents[g]) \in Record /\ Tombstone(m.documents[g]) # None
        /\ Tombstone(m.documents[g]).path = m.documents[g].path
        /\ Tombstone(m.documents[g]).deleted
    BY <2>1, TombstoneType, NoneAssumption
  <2>3. n.documents[g] = IF g \in Live(m) /\ m.documents[g].path \in requested
                         THEN Tombstone(m.documents[g])
                         ELSE m.documents[g]
    BY <1>1, <2>1
  <2>4. n.documents[g].deleted => g \notin Live(n)
    BY DEF Live
  <2>5. QED
    BY <2>1, <2>2, <2>3, <2>4 DEF Recorded
<1>3. Recorded(n) \subseteq Recorded(m)
  BY <1>1 DEF Recorded, Live
<1>4. QED
  BY <1>1, <1>2, <1>3 DEF n

\* Deleting turns records into tombstones and leaves the segments alone.
LEMMA DeletePlan ==
  ASSUME NEW m \in Manifest, ValidManifest(m), PathsAgree(m),
         NEW requested, AfterDelete(m, requested) # None
  PROVE  LET n == AfterDelete(m, requested)
         IN  /\ Extends(m, n)
             /\ PathsAgree(n)
             /\ \A s \in Listed(n) : s \in Listed(m) /\ n.segments[s] = m.segments[s]
<1> DEFINE n == AfterDelete(m, requested)
<1> HIDE DEF n
<1>1. /\ n.generation = m.generation + 1
      /\ n.next_segment = m.next_segment
      /\ n.next_document = m.next_document
      /\ n.segments = m.segments
  BY DeleteRecords DEF n
<1>2. Recorded(n) = Recorded(m)
  BY DeleteRecords DEF n
<1>3. \A g \in Recorded(m) :
        /\ n.documents[g].path = m.documents[g].path
        /\ g \in Live(n) => n.documents[g] = m.documents[g]
  BY DeleteRecords DEF n
<1>4. ASSUME NEW g \in Live(n)
      PROVE  g \in Live(m) /\ n.documents[g] = m.documents[g]
  BY <1>2, <1>3 DEF Live
<1>5. Extends(m, n)
  <2>1. n.next_segment >= m.next_segment /\ n.next_document >= m.next_document
    BY <1>1, LimitsAssumption DEF Manifest, SegmentIds, DocumentIds
  <2>2. QED
    BY <1>1, <1>2, <1>3, <1>4, <2>1 DEF Extends
<1>6. PathsAgree(n)
  BY <1>1, <1>4 DEF PathsAgree
<1>7. \A s \in Listed(n) : s \in Listed(m) /\ n.segments[s] = m.segments[s]
  BY <1>1 DEF Listed
<1>8. QED
  BY <1>5, <1>6, <1>7 DEF n

\* Compaction moves the live documents and leaves tombstones of the others.
LEMMA CompactRecords ==
  ASSUME NEW m \in Manifest, AfterCompact(m) # None
  PROVE  LET n == AfterCompact(m)
         IN  /\ /\ n.generation = m.generation + 1
                /\ n.next_segment = SegmentAfterCompact(m)
                /\ n.next_document = m.next_document
                /\ n.segments = [s \in SegmentIds |->
                                   IF Live(m) # {} /\ s = m.next_segment
                                   THEN CompactedBody(m)
                                   ELSE None]
             /\ Recorded(n) = Recorded(m) /\ Live(n) = Live(m)
             /\ \A g \in Live(m) :
                  /\ n.documents[g].path = m.documents[g].path
                  /\ n.documents[g].deleted = m.documents[g].deleted
                  /\ n.documents[g].segment = m.next_segment
                  /\ n.documents[g].local = Rank(m, g)
             /\ \A g \in Recorded(m) \ Live(m) : n.documents[g] = Tombstone(m.documents[g])
             /\ \A g \in Recorded(m) : n.documents[g].path = m.documents[g].path
<1> DEFINE n == AfterCompact(m)
           segs == [s \in SegmentIds |->
                      IF Live(m) # {} /\ s = m.next_segment THEN CompactedBody(m)
                                                           ELSE None]
           moved(g) == [m.documents[g] EXCEPT !.segment = m.next_segment,
                                              !.local = Rank(m, g)]
           docs == [g \in DocumentIds |->
                 IF g \in Live(m)
                 THEN moved(g)
                 ELSE IF g \in Recorded(m) THEN Tombstone(m.documents[g])
                                           ELSE None]
<1>1. /\ n.generation = m.generation + 1
      /\ n.next_segment = SegmentAfterCompact(m)
      /\ n.next_document = m.next_document
      /\ n.segments = segs
      /\ n.documents = docs
  BY DEF AfterCompact, Manifest
<1>2. /\ m.next_document \in Nat /\ m.next_segment \in Nat
      /\ m.next_segment \in SegmentIds
      /\ m.documents \in [DocumentIds -> Record \cup {None}]
  BY LimitsAssumption DEF Manifest, SegmentIds, DocumentIds
<1> HIDE DEF n
<1>3. ASSUME NEW g \in Live(m)
      PROVE  /\ g \in DocumentIds
             /\ n.documents[g] = moved(g) /\ n.documents[g] # None
             /\ n.documents[g].path = m.documents[g].path
             /\ n.documents[g].deleted = m.documents[g].deleted
             /\ n.documents[g].segment = m.next_segment
             /\ n.documents[g].local = Rank(m, g)
  <2>1. g \in DocumentIds /\ m.documents[g] \in Record
    BY <1>2 DEF Live, Recorded
  <2>2. n.documents[g] = moved(g)
    BY <1>1, <2>1
  <2>3. /\ moved(g).path = m.documents[g].path
        /\ moved(g).deleted = m.documents[g].deleted
        /\ moved(g).segment = m.next_segment
        /\ moved(g).local = Rank(m, g)
    BY <2>1 DEF Record
  <2>4. moved(g) # None
    <3>1. Rank(m, g) \in LocalIds
      <4>1. /\ Rank(m, g) \in 0 .. Cardinality(Live(m)) - 1
            /\ Cardinality(Live(m)) \in 0 .. DocumentLimit + 1
        BY RankBijection, LiveFinite
      <4>2. QED
        BY <4>1, LimitsAssumption DEF LocalIds
    <3>2. moved(g) \in Record
      BY <1>2, <2>1, <3>1 DEF Record
    <3>3. QED
      BY <3>2, NoneAssumption
  <2>5. QED
    BY <2>1, <2>2, <2>3, <2>4
<1>4. ASSUME NEW g \in Recorded(m), g \notin Live(m)
      PROVE  /\ g \in DocumentIds
             /\ n.documents[g] = Tombstone(m.documents[g]) /\ n.documents[g] # None
             /\ n.documents[g].path = m.documents[g].path
             /\ g \notin Live(n)
  <2>1. g \in DocumentIds /\ m.documents[g] \in Record
    BY <1>2 DEF Recorded
  <2>2. n.documents[g] = Tombstone(m.documents[g])
    BY <1>1, <1>4, <2>1
  <2>3. /\ Tombstone(m.documents[g]) \in Record /\ Tombstone(m.documents[g]) # None
        /\ Tombstone(m.documents[g]).path = m.documents[g].path
        /\ Tombstone(m.documents[g]).deleted
    BY <2>1, TombstoneType, NoneAssumption
  <2>4. QED
    BY <2>1, <2>2, <2>3 DEF Live
<1>5. Recorded(n) = Recorded(m)
  <2>1. Recorded(n) \subseteq Recorded(m)
    BY <1>1 DEF Recorded, Live
  <2>2. Recorded(m) \subseteq Recorded(n)
    BY <1>3, <1>4 DEF Recorded
  <2>3. QED
    BY <2>1, <2>2
<1>6. Live(n) = Live(m)
  <2>1. Live(n) \subseteq Live(m)
    BY <1>4, <1>5 DEF Live
  <2>2. Live(m) \subseteq Live(n)
    BY <1>3, <1>5 DEF Live
  <2>3. QED
    BY <2>1, <2>2
<1>7. \A g \in Recorded(m) : n.documents[g].path = m.documents[g].path
  BY <1>3, <1>4
<1>8. QED
  BY <1>1, <1>3, <1>4, <1>5, <1>6, <1>7 DEF n

\* Compaction keeps every record; a live document moves to the position of its
\* rank in the one new segment.
LEMMA CompactPlan ==
  ASSUME NEW m \in Manifest, ValidManifest(m), Loadable(m), AfterCompact(m) # None
  PROVE  LET n == AfterCompact(m)
         IN  /\ Extends(m, n)
             /\ PathsAgree(n)
             /\ Live(m) = {} => Listed(n) = {}
             /\ \A s \in Listed(n) :
                  s = m.next_segment /\ n.segments[s] = CompactedBody(m)
<1> DEFINE n == AfterCompact(m)
<1> HIDE DEF n
<1>1. /\ n.generation = m.generation + 1
      /\ n.next_segment = SegmentAfterCompact(m)
      /\ n.next_document = m.next_document
      /\ n.segments = [s \in SegmentIds |->
                         IF Live(m) # {} /\ s = m.next_segment
                         THEN CompactedBody(m)
                         ELSE None]
  BY CompactRecords DEF n
<1>2. Recorded(n) = Recorded(m) /\ Live(n) = Live(m)
  BY CompactRecords DEF n
<1>3. \A g \in Recorded(m) : n.documents[g].path = m.documents[g].path
  BY CompactRecords DEF n
<1>4. \A g \in Live(m) : n.documents[g].segment = m.next_segment
                        /\ n.documents[g].local = Rank(m, g)
  BY CompactRecords DEF n
<1>5. m.next_document \in Nat /\ m.next_segment \in Nat /\ m.next_segment \in SegmentIds
  BY LimitsAssumption DEF Manifest, SegmentIds, DocumentIds
<1>6. Extends(m, n)
  <2>1. n.next_segment >= m.next_segment
    BY <1>1, <1>5 DEF SegmentAfterCompact
  <2>2. n.next_document >= m.next_document
    BY <1>1, <1>5
  <2>3. QED
    BY <1>1, <1>2, <1>3, <2>1, <2>2 DEF Extends
<1>7. ASSUME NEW g \in Live(n)
      PROVE  n.segments[n.documents[g].segment][n.documents[g].local].path
               = n.documents[g].path
  <2>1. g \in Live(m) /\ g \in Recorded(m)
    BY <1>2 DEF Live
  <2>2. n.segments[m.next_segment] = CompactedBody(m)
    BY <1>1, <1>5, <2>1
  <2>3. CompactedBody(m)[Rank(m, g)].path = m.documents[g].path
    <3>1. CompactedBody(m)[Rank(m, g)] =
            [path |-> m.documents[g].path, text |-> LoadedText(m, g)]
      BY <2>1, CompactedDocument
    <3>2. QED
      BY <3>1
  <2>4. QED
    BY <1>3, <1>4, <2>1, <2>2, <2>3
<1>8. /\ Live(m) = {} => Listed(n) = {}
      /\ \A s \in Listed(n) : s = m.next_segment /\ n.segments[s] = CompactedBody(m)
  BY <1>1 DEF Listed
<1>9. QED
  BY <1>6, <1>7, <1>8 DEF n, PathsAgree

-----------------------------------------------------------------------------
(* The writer lock *)

LEMMA LockStep == TypeOK /\ LockInv /\ [Next]_vars => LockInv'
<1> SUFFICES ASSUME TypeOK, LockInv, [Next]_vars
             PROVE  LockInv'
  OBVIOUS
<1>1. pc \in [Handles -> Busy \cup {"closed", "open"}]
  BY DEF TypeOK
\* a step of the operation that holds the lock, other than giving it back
<1>2. ASSUME NEW h \in Handles, pc[h] \in Guarded, NEW l,
             pc' = [pc EXCEPT ![h] = l], UNCHANGED lock_file
      PROVE  LockInv'
  BY <1>1, <1>2 DEF LockInv, OneWriter
\* a step of a handle outside the lock
<1>3. ASSUME NEW h \in Handles, NEW l, l \notin Guarded,
             pc' = [pc EXCEPT ![h] = l], lock_file => lock_file'
      PROVE  LockInv'
  <2>1. \A k \in Handles : pc'[k] \in Guarded => pc[k] \in Guarded
    BY <1>1, <1>3
  <2>2. QED
    BY <1>3, <2>1 DEF LockInv, OneWriter
<1>4. ASSUME NEW h \in Handles, NEW label, Acquire(h, label)
      PROVE  LockInv'
  BY <1>1, <1>4 DEF Acquire, LockInv, OneWriter, Goto
<1>5. ASSUME NEW h \in Handles, Release(h)
      PROVE  LockInv'
  <2>1. pc[h] \in Guarded /\ Rest(h) \notin Guarded
    BY <1>5 DEF Release, Rest, Guarded
  <2>2. \A k \in Handles : pc'[k] \notin Guarded
    BY <1>1, <1>5, <2>1 DEF Release, Goto, LockInv, OneWriter
  <2>3. QED
    BY <2>2 DEF LockInv, OneWriter
<1>6. ASSUME NEW h \in Handles,
             \/ PlanCreate(h) \/ PlanAppend(h) \/ PlanDelete(h) \/ PlanCompact(h)
             \/ Save(h) \/ SaveFails(h) \/ Reject(h) \/ Install(h) \/ InstallFails(h)
             \/ RemoveForReplace(h) \/ Reinstall(h) \/ ReinstallFails(h) \/ Undo(h)
      PROVE  LockInv'
  <2>1. pc[h] \in Guarded /\ UNCHANGED lock_file
    BY <1>6 DEF PlanCreate, PlanAppend, PlanDelete, PlanCompact, Save, SaveFails,
         Reject, Install, InstallFails, RemoveForReplace, Reinstall, ReinstallFails,
         Undo, Guarded, disk
  <2>2. \E l : pc' = [pc EXCEPT ![h] = l]
    BY <1>6 DEF PlanCreate, PlanAppend, PlanDelete, PlanCompact, Save, SaveFails,
         Reject, Install, InstallFails, RemoveForReplace, Reinstall, ReinstallFails,
         Undo, Abandon, Installed, Goto
  <2>3. QED
    BY <1>2, <2>1, <2>2
<1>7. ASSUME NEW h \in Handles,
             Open(h) \/ Probe(h) \/ Refused(h) \/ LeakLock(h) \/ StartSearch(h)
               \/ EndSearch(h) \/ Crash(h)
      PROVE  LockInv'
  <2>1. PICK l : l \notin Guarded /\ pc' = [pc EXCEPT ![h] = l]
    BY <1>7 DEF Open, Probe, Refused, LeakLock, StartSearch, EndSearch, Crash,
         Goto, Rest, Guarded
  <2>2. lock_file => lock_file'
    BY <1>7 DEF Open, Probe, Refused, LeakLock, StartSearch, EndSearch, Crash, disk
  <2>3. QED
    BY <1>3, <2>1, <2>2
<1>8. ASSUME NEW h \in Handles, DisplaceOrphan(h) \/ Sweep(h) \/ ReadSegment(h)
      PROVE  LockInv'
  BY <1>8 DEF DisplaceOrphan, Sweep, ReadSegment, LockInv, OneWriter, local, disk
<1>9. CASE RemoveOrphanedLock
  BY <1>9 DEF RemoveOrphanedLock, Orphaned, local, LockInv, OneWriter
<1>10. CASE UNCHANGED vars
  BY <1>10 DEF vars, disk, local, LockInv, OneWriter
<1>11. QED
  BY <1>4, <1>5, <1>6, <1>7, <1>8, <1>9, <1>10 DEF Next, Step, Call

\* Mutual exclusion of the writers, for any number of processes that may fail,
\* crash or leak the lock file at any point, with an operator who removes lock
\* files whose process is gone.
THEOREM MutualExclusion == Spec => []OneWriter
<1>1. Init => LockInv
  BY DEF Init, LockInv, OneWriter, Guarded
<1>2. Spec => [](TypeOK /\ LockInv)
  <2>1. Spec => []TypeOK
    BY TypeCorrect
  <2>2. QED
    BY <1>1, <2>1, LockStep, PTL DEF Spec
<1>3. LockInv => OneWriter
  BY DEF LockInv
<1>4. QED
  BY <1>2, <1>3, PTL

-----------------------------------------------------------------------------
(* The inductive invariant *)

\* Only these control points rely on anything but the types.
Planned == {"save", "install", "reinstall", "undo", "finish"}

\* What IndInv says beyond the lock and the handles.
DirInv ==
  /\ DiskInv
  /\ GenerationIdentifies
  /\ NoForeignBytes

\* A step that leaves the manifest, the segments and the handles' manifests
\* alone cannot disturb what is known of them.
LEMMA Unmoved ==
  ASSUME DirInv, UNCHANGED <<manifest, files, mem>>
  PROVE  DirInv'
BY DEF DirInv, DiskInv, Authoritative, GenerationIdentifies, NoForeignBytes

\* A crash loses a manifest in memory.
LEMMA Forgotten ==
  ASSUME TypeOK, DirInv, NEW h \in Handles, UNCHANGED <<manifest, files>>,
         mem' = [mem EXCEPT ![h] = None]
  PROVE  DirInv'
<1>1. \A k \in Handles : mem'[k] # None => mem'[k] = mem[k]
  BY DEF TypeOK
<1>2. DiskInv'
  BY <1>1 DEF DirInv, DiskInv, Authoritative
<1>3. GenerationIdentifies'
  BY <1>1 DEF DirInv, GenerationIdentifies
<1>4. NoForeignBytes'
  BY <1>1 DEF DirInv, NoForeignBytes
<1>5. QED
  BY <1>2, <1>3, <1>4 DEF DirInv

\* The control points that rely on nothing.
LEMMA Idle ==
  ASSUME NEW h \in Handles, pc'[h] \notin Planned
  PROVE  ControlInv(h)'
BY DEF ControlInv, Planned

\* While h has the lock, or takes it, no other handle is under it.
LEMMA OthersIdle ==
  ASSUME TypeOK, LockInv, NEW h \in Handles, pc[h] \in Guarded, NEW l,
         pc' = [pc EXCEPT ![h] = l], NEW k \in Handles, k # h
  PROVE  ControlInv(k)'
<1>1. pc'[k] = pc[k] /\ pc[k] \notin Guarded
  BY DEF TypeOK, LockInv, OneWriter
<1>2. QED
  BY <1>1, Idle DEF Planned, Guarded

\* A handle outside the lock cannot disturb the one under it: it may take over
\* the manifest on disk, if there is one, forget its own, search, or die.
LEMMA Bystander ==
  ASSUME TypeOK, WriterInv, DiskInv,
         NEW h \in Handles, NEW k \in Handles, k # h,
         UNCHANGED <<manifest, files>>,
         pc'[k] = pc[k], mem'[k] = mem[k], next'[k] = next[k],
         fresh'[k] = fresh[k], body'[k] = body[k], todo'[k] = todo[k],
         \A j \in Handles : mem'[j] = mem[j] \/ mem'[j] = None
           \/ (mem'[j] = manifest /\ manifest # None)
  PROVE  ControlInv(k)'
<1>1. ControlInv(k)
  BY DEF WriterInv
<1>2. UpdateInv(k) => UpdateInv(k)'
  BY DEF UpdateInv, PlanInv
<1>3. manifest = None => \A j \in Handles : mem'[j] # None => mem'[j] = mem[j]
  OBVIOUS
<1>4. CreateInv(k) => CreateInv(k)'
  BY <1>3 DEF CreateInv
<1>5. manifest = None /\ Authoritative(mem[k]) => Authoritative(mem[k])'
  BY <1>3 DEF Authoritative
<1>6. QED
  BY <1>1, <1>2, <1>4, <1>5 DEF ControlInv

\* ensure_current compares numbers, and thereby manifests.
LEMMA CurrentManifest ==
  ASSUME GenerationIdentifies, DiskInv, NEW h \in Handles, mem[h] # None, Current(h)
  PROVE  manifest = mem[h] /\ Authoritative(mem[h])
<1>1. manifest = mem[h]
  BY DEF GenerationIdentifies, Current
<1>2. QED
  BY <1>1 DEF DiskInv, Current

\* No manifest lists the segment identifier the authoritative one gives out next.
LEMMA NextIsUnlisted ==
  ASSUME TypeInv, NEW m \in Manifest, Authoritative(m)
  PROVE  /\ m.next_segment \notin Listed(m)
         /\ \A k \in Handles : mem[k] # None => m.next_segment \notin Listed(mem[k])
<1>1. m.next_segment \in Nat
  BY LimitsAssumption DEF Manifest, SegmentIds
<1>2. m.next_segment \notin Listed(m)
  <2>1. \A s \in Listed(m) : s < m.next_segment
    BY DEF Authoritative, ValidManifest
  <2>2. QED
    BY <1>1, <2>1
<1>3. ASSUME NEW k \in Handles, mem[k] # None
      PROVE  m.next_segment \notin Listed(mem[k])
  <2>1. mem[k] \in Manifest /\ ValidManifest(mem[k])
    BY <1>3 DEF TypeInv, TypeOK, HandleInv
  <2>2. mem[k].next_segment \in Nat
    BY <2>1, LimitsAssumption DEF Manifest, SegmentIds
  <2>3. mem[k].next_segment <= m.next_segment
    BY <1>3 DEF Authoritative, Past
  <2>4. \A s \in Listed(mem[k]) : s < mem[k].next_segment
    BY <2>1 DEF ValidManifest
  <2>5. QED
    BY <1>1, <2>2, <2>3, <2>4
<1>4. QED
  BY <1>2, <1>3

\* Saving the next segment, or removing an orphan of that name.
LEMMA NextIsWritten ==
  ASSUME TypeInv, DirInv, manifest # None, NEW b, UNCHANGED <<manifest, mem>>,
         files' = [files EXCEPT ![manifest.next_segment] = b]
  PROVE  DirInv'
<1>1. manifest \in Manifest /\ Authoritative(manifest)
  BY DEF TypeInv, TypeOK, DirInv, DiskInv
<1>2. \A s \in SegmentIds : s # manifest.next_segment => files'[s] = files[s]
  BY DEF TypeInv, TypeOK
<1>3. \A s \in Listed(manifest) : files'[s] = files[s]
  BY <1>1, <1>2, NextIsUnlisted DEF Listed
<1>4. \A k \in Handles : mem[k] # None => \A s \in Listed(mem[k]) : files'[s] = files[s]
  BY <1>1, <1>2, NextIsUnlisted DEF Listed
<1>5. DiskInv'
  BY <1>3 DEF DirInv, DiskInv, Authoritative
<1>6. GenerationIdentifies'
  BY DEF DirInv, GenerationIdentifies
<1>7. NoForeignBytes'
  BY <1>4 DEF DirInv, NoForeignBytes
<1>8. QED
  BY <1>5, <1>6, <1>7 DEF DirInv

\* Removing a segment the manifest on disk does not list, whoever else lists it.
LEMMA UnlistedIsRemoved ==
  ASSUME TypeInv, DirInv, NEW s, UNCHANGED <<manifest, mem>>,
         manifest # None => s \notin Listed(manifest),
         files' = files \/ files' = [files EXCEPT ![s] = None]
  PROVE  DirInv'
<1>1. \A t \in SegmentIds : files'[t] \in {files[t], None}
  BY DEF TypeInv, TypeOK
<1>2. manifest # None => \A t \in Listed(manifest) : files'[t] = files[t]
  BY DEF TypeInv, TypeOK, Listed
<1>3. DiskInv'
  BY <1>2 DEF DirInv, DiskInv, Authoritative
<1>4. GenerationIdentifies'
  BY DEF DirInv, GenerationIdentifies
<1>5. NoForeignBytes'
  BY <1>1 DEF DirInv, NoForeignBytes, Listed
<1>6. QED
  BY <1>3, <1>4, <1>5 DEF DirInv

\* The planned manifest takes the place of the authoritative one, m, which may
\* have been removed to make room for it.
LEMMA Published ==
  ASSUME TypeInv, DirInv, NEW h \in Handles,
         NEW m \in Manifest, Authoritative(m),
         NEW n \in Manifest, ValidManifest(n), PlanInv(h, m, n),
         fresh[h] # None => files[fresh[h]] = body[h],
         manifest' = n, mem' = [mem EXCEPT ![h] = n], UNCHANGED files
  PROVE  /\ DirInv'
         /\ \A s \in todo[h] : s \notin Listed(n)
<1>1. /\ m.generation \in Nat /\ m.next_segment \in Nat
      /\ n.generation \in Nat /\ n.next_segment \in Nat
  BY LimitsAssumption DEF Manifest, SegmentIds
<1>2. n.generation = m.generation + 1 /\ n.next_segment >= m.next_segment
  BY DEF PlanInv, Extends
<1>3. mem'[h] = n /\ \A k \in Handles : k # h => mem'[k] = mem[k]
  BY DEF TypeInv, TypeOK
<1>4. ASSUME NEW k \in Handles, mem[k] # None
      PROVE  /\ mem[k].generation \in Nat /\ mem[k].next_segment \in Nat
             /\ mem[k].generation < n.generation
             /\ mem[k].next_segment <= n.next_segment
  <2>1. mem[k].generation \in Nat /\ mem[k].next_segment \in Nat
    BY <1>4, LimitsAssumption DEF TypeInv, TypeOK, Manifest, SegmentIds
  <2>2. mem[k].generation <= m.generation /\ mem[k].next_segment <= m.next_segment
    BY <1>4 DEF Authoritative, Past
  <2>3. QED
    BY <1>1, <1>2, <2>1, <2>2
<1>5. \A s \in Listed(n) : files[s] = n.segments[s]
  <2>1. ASSUME NEW s \in Listed(n)
        PROVE  files[s] = n.segments[s]
    <3>1. CASE s \in Listed(m) /\ n.segments[s] = m.segments[s]
      BY <3>1 DEF Authoritative
    <3>2. CASE s = fresh[h] /\ n.segments[s] = body[h]
      <4>1. s # None
        BY LimitsAssumption, NoneAssumption DEF Listed, SegmentIds
      <4>2. QED
        BY <3>2, <4>1
    <3>3. QED
      BY <3>1, <3>2 DEF PlanInv
  <2>2. QED
    BY <2>1
<1>6. DiskInv'
  <2>1. Past(n, n)
    BY <1>1 DEF Past
  <2>2. \A k \in Handles : mem[k] # None => Past(mem[k], n)
    BY <1>1, <1>4 DEF Past
  <2>3. \A k \in Handles : mem'[k] # None => Past(mem'[k], n)
    BY <1>3, <2>1, <2>2
  <2>4. QED
    BY <1>5, <2>3 DEF DiskInv, Authoritative, PlanInv
<1>7. GenerationIdentifies'
  <2>1. ASSUME NEW j \in Handles, NEW k \in Handles, mem'[j] # None, mem'[k] # None,
               mem'[j].generation = mem'[k].generation
        PROVE  mem'[j] = mem'[k]
    <3>1. CASE j = h \/ k = h
      BY <1>1, <1>3, <1>4, <2>1, <3>1
    <3>2. CASE j # h /\ k # h
      BY <1>3, <2>1, <3>2 DEF DirInv, GenerationIdentifies
    <3>3. QED
      BY <3>1, <3>2
  <2>2. ASSUME NEW j \in Handles, mem'[j] # None, manifest'.generation = mem'[j].generation
        PROVE  manifest' = mem'[j]
    BY <1>1, <1>3, <1>4, <2>2
  <2>3. QED
    BY <2>1, <2>2 DEF GenerationIdentifies
<1>8. NoForeignBytes'
  BY <1>3, <1>5 DEF DirInv, NoForeignBytes
<1>9. QED
  BY <1>6, <1>7, <1>8 DEF DirInv, PlanInv

LEMMA LostStep == TypeInv /\ LostInv /\ [Next]_vars => LostInv'
<1> SUFFICES ASSUME TypeInv, LostInv, [Next]_vars
             PROVE  LostInv'
  OBVIOUS
<1>1. pc \in [Handles -> Busy \cup {"closed", "open"}] /\ mem \in [Handles -> Manifest \cup {None}]
  BY DEF TypeInv, TypeOK
\* only replace_file makes the manifest disappear
<1>2. ASSUME manifest' = None => manifest = None,
             \A k \in Handles : mem'[k] # None => mem[k] # None,
             litter => litter',
             \A k \in Handles : pc[k] = "reinstall" => litter' \/ pc'[k] = "reinstall"
      PROVE  LostInv'
  BY <1>2 DEF LostInv
<1>3. ASSUME NEW h \in Handles, Open(h) \/ Install(h) \/ Reinstall(h)
      PROVE  LostInv'
  <2>1. manifest' # None
    BY <1>3 DEF Open, Install, Reinstall, Installed, Publishable, TypeInv, disk
  <2>2. QED
    BY <2>1 DEF LostInv
<1>4. ASSUME NEW h \in Handles, RemoveForReplace(h)
      PROVE  LostInv'
  BY <1>1, <1>4 DEF RemoveForReplace, Goto, LostInv
<1>5. ASSUME NEW h \in Handles, NEW l, pc[h] # "reinstall" \/ litter',
             pc' = [pc EXCEPT ![h] = l], UNCHANGED <<manifest, mem>>, litter => litter'
      PROVE  LostInv'
  BY <1>1, <1>2, <1>5
<1>6. ASSUME NEW h \in Handles,
             \/ Probe(h) \/ Refused(h) \/ LeakLock(h) \/ Release(h) \/ StartSearch(h)
             \/ EndSearch(h) \/ PlanCreate(h) \/ PlanAppend(h) \/ PlanDelete(h)
             \/ PlanCompact(h) \/ Save(h) \/ SaveFails(h) \/ Reject(h)
             \/ InstallFails(h) \/ ReinstallFails(h) \/ Undo(h)
             \/ \E label \in {"scan", "append", "delete", "compact"} : Acquire(h, label)
      PROVE  LostInv'
  <2>1. \E l : pc' = [pc EXCEPT ![h] = l]
    BY <1>6 DEF Probe, Refused, LeakLock, Release, StartSearch, EndSearch, PlanCreate,
         PlanAppend, PlanDelete, PlanCompact, Save, SaveFails, Reject, InstallFails,
         ReinstallFails, Undo, Acquire, Abandon, Goto
  <2>2. UNCHANGED <<manifest, mem>>
    BY <1>6 DEF Probe, Refused, LeakLock, Release, StartSearch, EndSearch, PlanCreate,
         PlanAppend, PlanDelete, PlanCompact, Save, SaveFails, Reject, InstallFails,
         ReinstallFails, Undo, Acquire, disk
  <2>3. pc[h] # "reinstall" \/ litter'
    BY <1>6 DEF Probe, Refused, LeakLock, Release, StartSearch, EndSearch, PlanCreate,
         PlanAppend, PlanDelete, PlanCompact, Save, SaveFails, Reject, InstallFails,
         ReinstallFails, Undo, Acquire
  <2>4. litter => litter'
    <3>1. CASE SaveFails(h) \/ InstallFails(h)
      BY <3>1, Zenon DEF SaveFails, InstallFails
    <3>2. CASE ~(SaveFails(h) \/ InstallFails(h))
      BY <1>6, <3>2 DEF Probe, Refused, LeakLock, Release, StartSearch, EndSearch,
           PlanCreate, PlanAppend, PlanDelete, PlanCompact, Save, Reject,
           ReinstallFails, Undo, Acquire, disk
    <3>3. QED
      BY <3>1, <3>2
  <2>5. QED
    BY <1>5, <2>1, <2>2, <2>3, <2>4
<1>7. ASSUME NEW h \in Handles, DisplaceOrphan(h) \/ Sweep(h) \/ ReadSegment(h)
      PROVE  LostInv'
  BY <1>2, <1>7 DEF DisplaceOrphan, Sweep, ReadSegment, disk, local
<1>8. ASSUME NEW h \in Handles, Crash(h)
      PROVE  LostInv'
  <2>1. \A k \in Handles : mem'[k] # None => mem[k] # None
    BY <1>1, <1>8 DEF Crash
  <2>2. (litter => litter') /\ (pc[h] = "reinstall" => litter')
    <3>1. pc[h] = "reinstall" => litter'
      BY <1>8 DEF Crash
    <3>2. litter => litter'
      BY <1>8, Zenon DEF Crash
    <3>3. QED
      BY <3>1, <3>2
  <2>3. \A k \in Handles : k # h => pc'[k] = pc[k]
    BY <1>1, <1>8 DEF Crash, Goto
  <2>4. UNCHANGED manifest
    BY <1>8 DEF Crash
  <2>5. QED
    BY <1>2, <2>1, <2>2, <2>3, <2>4
<1>9. CASE RemoveOrphanedLock
  BY <1>2, <1>9 DEF RemoveOrphanedLock, local
<1>10. CASE UNCHANGED vars
  BY <1>2, <1>10 DEF vars, disk, local
<1>11. QED
  BY <1>3, <1>4, <1>6, <1>7, <1>8, <1>9, <1>10 DEF Next, Step, Call

\* A step of the operation under the lock: only its own control point counts.
LEMMA LockedStep ==
  ASSUME TypeOK, LockInv, NEW h \in Handles, pc[h] \in Guarded, NEW l,
         pc' = [pc EXCEPT ![h] = l], ControlInv(h)'
  PROVE  WriterInv'
BY OthersIdle DEF WriterInv

\* An operation that gives up has nothing left to sweep.
LEMMA Abandoned ==
  ASSUME TypeOK, LockInv, NEW h \in Handles, pc[h] \in Guarded, Abandon(h)
  PROVE  WriterInv'
<1>1. pc' = [pc EXCEPT ![h] = "finish"] /\ pc'[h] = "finish" /\ todo'[h] = {}
  BY DEF Abandon, NoPlan, Plan, Goto, TypeOK
<1>2. ControlInv(h)'
  BY <1>1 DEF ControlInv
<1>3. QED
  BY <1>1, <1>2, LockedStep

\* A step outside the lock, into or out of it, or a crash.
LEMMA FreeStep ==
  ASSUME TypeOK, WriterInv, DirInv, NEW h \in Handles, pc'[h] \notin Planned,
         UNCHANGED <<manifest, files>>,
         \A k \in Handles : k # h =>
           /\ pc'[k] = pc[k] /\ next'[k] = next[k] /\ fresh'[k] = fresh[k]
           /\ body'[k] = body[k] /\ todo'[k] = todo[k] /\ mem'[k] = mem[k],
         mem'[h] = mem[h] \/ mem'[h] = None \/ (mem'[h] = manifest /\ manifest # None)
  PROVE  WriterInv'
<1>1. ControlInv(h)'
  BY Idle
<1>2. \A j \in Handles : mem'[j] = mem[j] \/ mem'[j] = None
        \/ (mem'[j] = manifest /\ manifest # None)
  OBVIOUS
<1>3. ASSUME NEW k \in Handles, k # h
      PROVE  ControlInv(k)'
  BY <1>2, <1>3, Bystander DEF DirInv
<1>4. QED
  BY <1>1, <1>3 DEF WriterInv

\* A handle opened now is given the authoritative manifest.
LEMMA Opened ==
  ASSUME TypeInv, DirInv, NEW h \in Handles, manifest # None,
         mem' = [mem EXCEPT ![h] = manifest], UNCHANGED <<manifest, files>>
  PROVE  DirInv'
<1>1. manifest \in Manifest /\ Authoritative(manifest)
  BY DEF TypeInv, TypeOK, DirInv, DiskInv
<1>2. mem'[h] = manifest /\ \A k \in Handles : k # h => mem'[k] = mem[k]
  BY DEF TypeInv, TypeOK
<1>3. Past(manifest, manifest)
  BY <1>1, LimitsAssumption DEF Past, Manifest, SegmentIds
<1>4. DiskInv'
  BY <1>1, <1>2, <1>3 DEF DiskInv, Authoritative
<1>5. GenerationIdentifies'
  BY <1>2 DEF DirInv, GenerationIdentifies
<1>6. NoForeignBytes'
  BY <1>1, <1>2 DEF DirInv, NoForeignBytes, Authoritative
<1>7. QED
  BY <1>4, <1>5, <1>6 DEF DirInv

\* What the three writers intend to publish satisfies UpdateInv.
LEMMA Planning ==
  ASSUME TypeInv, NEW h \in Handles, mem[h] # None, mem'[h] = mem[h],
         NEW n \in Manifest \cup {None}, NEW s, NEW b, NEW old \in SUBSET SegmentIds,
         Plan(h, n, s, b, old),
         s # None => s = mem[h].next_segment,
         n # None => /\ Extends(mem[h], n) /\ PathsAgree(n)
                     /\ \A t \in Listed(n) :
                          /\ \/ t \in Listed(mem[h]) /\ n.segments[t] = mem[h].segments[t]
                             \/ t = s /\ n.segments[t] = b
                          /\ t \notin old
  PROVE  UpdateInv(h)' /\ next'[h] = n /\ fresh'[h] = s /\ body'[h] = b /\ todo'[h] = old
<1>1. next'[h] = n /\ fresh'[h] = s /\ body'[h] = b /\ todo'[h] = old
  BY DEF Plan, TypeInv, TypeOK
<1>2. n # None => PlanInv(h, mem[h], n)'
  BY <1>1 DEF PlanInv
<1>3. QED
  BY <1>1, <1>2 DEF UpdateInv

LEMMA AppendKeeps ==
  ASSUME TypeInv, IndInv, NEW h \in Handles, PlanAppend(h)
  PROVE  WriterInv'
<1>1. pc[h] \in Guarded /\ mem[h] # None
  BY DEF PlanAppend, Guarded, TypeInv, HandleInv
<1>2. CASE Abandon(h)
  BY <1>1, <1>2, Abandoned DEF TypeInv, IndInv
<1>3. ASSUME NEW batch \in Batches, Current(h),
             Plan(h, AfterAppend(mem[h], batch), mem[h].next_segment, batch, {}),
             Goto(h, "save"), UNCHANGED <<disk, mem, answer>>
      PROVE  WriterInv'
  <2> DEFINE m == mem[h]
             n == AfterAppend(m, batch)
  <2>1. manifest = m /\ Authoritative(m) /\ m \in Manifest
    BY <1>1, <1>3, CurrentManifest DEF IndInv, TypeInv, TypeOK
  <2>2. n \in Manifest \cup {None} /\ m.next_segment \in SegmentIds
    BY <1>1, PlanTypes
  <2>3. ValidManifest(m) /\ PathsAgree(m)
    BY <2>1 DEF Authoritative
  <2>4. n # None => /\ Extends(m, n) /\ PathsAgree(n)
                    /\ \A t \in Listed(n) :
                         \/ t \in Listed(m) /\ n.segments[t] = m.segments[t]
                         \/ t = m.next_segment /\ n.segments[t] = batch
    BY <2>1, <2>3, AppendPlan
  <2>5. mem'[h] = m
    BY <1>3
  <2> HIDE DEF n
  <2>6. UpdateInv(h)' /\ fresh'[h] = m.next_segment /\ body'[h] = batch
    BY <1>1, <1>3, <2>2, <2>4, <2>5, Planning DEF n
  <2>7. m.next_segment # None /\ batch # None
    BY <2>2, LimitsAssumption, NoneAssumption, BatchIsBody DEF SegmentIds
  <2>8. pc' = [pc EXCEPT ![h] = "save"] /\ pc'[h] = "save" /\ manifest' = mem'[h]
    BY <1>3, <2>1 DEF Goto, TypeInv, TypeOK, disk
  <2>9. ControlInv(h)'
    BY <2>6, <2>7, <2>8 DEF ControlInv
  <2>10. QED
    BY <1>1, <2>8, <2>9, LockedStep DEF IndInv, TypeInv
<1>4. QED
  BY <1>2, <1>3 DEF PlanAppend

LEMMA DeleteKeeps ==
  ASSUME TypeInv, IndInv, NEW h \in Handles, PlanDelete(h)
  PROVE  WriterInv'
<1>1. pc[h] \in Guarded /\ mem[h] # None
  BY DEF PlanDelete, Guarded, TypeInv, HandleInv
<1>2. CASE Abandon(h)
  BY <1>1, <1>2, Abandoned DEF TypeInv, IndInv
<1>3. ASSUME NEW requested, Current(h),
             Plan(h, AfterDelete(mem[h], requested), None, None, {}),
             Goto(h, "install"), UNCHANGED <<disk, mem, answer>>
      PROVE  WriterInv'
  <2> DEFINE m == mem[h]
             n == AfterDelete(m, requested)
  <2>1. manifest = m /\ Authoritative(m) /\ m \in Manifest
    BY <1>1, <1>3, CurrentManifest DEF IndInv, TypeInv, TypeOK
  <2>2. n \in Manifest \cup {None}
    BY <1>1, PlanTypes
  <2>3. ValidManifest(m) /\ PathsAgree(m)
    BY <2>1 DEF Authoritative
  <2>4. n # None => /\ Extends(m, n) /\ PathsAgree(n)
                    /\ \A t \in Listed(n) : t \in Listed(m) /\ n.segments[t] = m.segments[t]
    BY <2>1, <2>3, DeletePlan
  <2>5. mem'[h] = m
    BY <1>3
  <2> HIDE DEF n
  <2>6. UpdateInv(h)' /\ fresh'[h] = None
    BY <1>1, <1>3, <2>2, <2>4, <2>5, Planning DEF n
  <2>7. pc' = [pc EXCEPT ![h] = "install"] /\ pc'[h] = "install" /\ manifest' = mem'[h]
    BY <1>3, <2>1 DEF Goto, TypeInv, TypeOK, disk
  <2>8. ControlInv(h)'
    BY <2>6, <2>7 DEF ControlInv
  <2>9. QED
    BY <1>1, <2>7, <2>8, LockedStep DEF IndInv, TypeInv
<1>4. QED
  BY <1>2, <1>3 DEF PlanDelete

LEMMA CompactKeeps ==
  ASSUME TypeInv, IndInv, NEW h \in Handles, PlanCompact(h)
  PROVE  WriterInv'
<1>1. pc[h] \in Guarded /\ mem[h] # None
  BY DEF PlanCompact, Guarded, TypeInv, HandleInv
<1>2. CASE Abandon(h)
  BY <1>1, <1>2, Abandoned DEF TypeInv, IndInv
<1>3. CASE ~Abandon(h)
  <2> DEFINE m == mem[h]
             n == AfterCompact(m)
  <2>1. Current(h) /\ Loadable(m) /\ UNCHANGED <<disk, mem, answer>>
    BY <1>3 DEF PlanCompact
  <2>2. manifest = m /\ Authoritative(m) /\ m \in Manifest
    BY <1>1, <2>1, CurrentManifest DEF IndInv, TypeInv, TypeOK
  <2>3. /\ n \in Manifest \cup {None} /\ m.next_segment \in SegmentIds
        /\ Live(m) # {} => CompactedBody(m) \in Bodies
    BY <1>1, <2>1, PlanTypes
  <2>4. ValidManifest(m) /\ PathsAgree(m)
    BY <2>2 DEF Authoritative
  <2>5. n # None => /\ Extends(m, n) /\ PathsAgree(n)
                    /\ Live(m) = {} => Listed(n) = {}
                    /\ \A t \in Listed(n) :
                         t = m.next_segment /\ n.segments[t] = CompactedBody(m)
    BY <2>1, <2>2, <2>4, CompactPlan
  <2>6. m.next_segment \notin Listed(m) /\ Listed(m) \in SUBSET SegmentIds
    BY <2>2, NextIsUnlisted DEF Listed
  <2>7. mem'[h] = m /\ manifest' = manifest
    BY <2>1 DEF disk
  <2> HIDE DEF n
  <2>8. CASE Live(m) = {}
    <3>1. Plan(h, n, None, None, Listed(m)) /\ Goto(h, "install")
      BY <1>3, <2>8 DEF PlanCompact, n
    <3>2. n # None => /\ Extends(m, n) /\ PathsAgree(n)
                      /\ Listed(n) = {}
      BY <2>5, <2>8
    <3>3. UpdateInv(h)' /\ fresh'[h] = None
      BY <1>1, <2>3, <2>6, <2>7, <3>1, <3>2, Planning
    <3>4. pc' = [pc EXCEPT ![h] = "install"] /\ pc'[h] = "install" /\ manifest' = mem'[h]
      BY <2>2, <2>7, <3>1 DEF Goto, TypeInv, TypeOK
    <3>5. ControlInv(h)'
      BY <3>3, <3>4 DEF ControlInv
    <3>6. QED
      BY <1>1, <3>4, <3>5, LockedStep DEF IndInv, TypeInv
  <2>9. CASE Live(m) # {}
    <3> DEFINE b == CompactedBody(m)
    <3>1. Plan(h, n, m.next_segment, b, Listed(m)) /\ Goto(h, "save")
      BY <1>3, <2>9 DEF PlanCompact, n
    <3> HIDE DEF b
    <3>2. n # None => /\ Extends(m, n) /\ PathsAgree(n)
                      /\ \A t \in Listed(n) :
                           t = m.next_segment /\ n.segments[t] = b /\ t \notin Listed(m)
      BY <2>5, <2>6 DEF b
    <3>3. UpdateInv(h)' /\ fresh'[h] = m.next_segment /\ body'[h] = b
      BY <1>1, <2>3, <2>6, <2>7, <3>1, <3>2, Planning
    <3>4. m.next_segment # None /\ b # None
      BY <2>3, <2>9, LimitsAssumption, NoneAssumption DEF SegmentIds, b
    <3>5. pc' = [pc EXCEPT ![h] = "save"] /\ pc'[h] = "save" /\ manifest' = mem'[h]
      BY <2>2, <2>7, <3>1 DEF Goto, TypeInv, TypeOK
    <3>6. ControlInv(h)'
      BY <3>3, <3>4, <3>5 DEF ControlInv
    <3>7. QED
      BY <1>1, <3>5, <3>6, LockedStep DEF IndInv, TypeInv
  <2>10. QED
    BY <2>8, <2>9
<1>4. QED
  BY <1>2, <1>3

\* create: the directory is empty, so no handle of an earlier history is left.
LEMMA CreateKeeps ==
  ASSUME TypeInv, IndInv, NEW h \in Handles, PlanCreate(h)
  PROVE  WriterInv'
<1>1. pc[h] = "scan" /\ pc[h] \in Guarded /\ UNCHANGED <<disk, mem, answer>>
  BY DEF PlanCreate, Guarded
<1>2. CASE Abandon(h)
  BY <1>1, <1>2, Abandoned DEF TypeInv, IndInv
<1>3. CASE ~Abandon(h)
  <2>1. /\ manifest = None /\ ~litter
        /\ Plan(h, EmptyManifest, None, None, {}) /\ Goto(h, "install")
    BY <1>3 DEF PlanCreate, EmptyDirectory
  <2>2. \A k \in Handles : pc[k] # "reinstall"
    BY <1>1 DEF IndInv, LockInv, OneWriter, Guarded
  <2>3. \A k \in Handles : mem[k] = None
    BY <2>1, <2>2 DEF IndInv, LostInv
  <2>4. /\ pc' = [pc EXCEPT ![h] = "install"] /\ pc'[h] = "install"
        /\ next'[h] = EmptyManifest /\ fresh'[h] = None /\ todo'[h] = {}
    BY <2>1 DEF Plan, Goto, TypeInv, TypeOK
  <2>5. CreateInv(h)'
    BY <1>1, <2>1, <2>3, <2>4 DEF CreateInv, disk
  <2>6. ControlInv(h)'
    BY <2>4, <2>5 DEF ControlInv
  <2>7. QED
    BY <1>1, <2>4, <2>6, LockedStep DEF IndInv, TypeInv
<1>4. QED
  BY <1>2, <1>3

\* Saving a segment, and removing an orphan of its name.
LEMMA SaveKeeps ==
  ASSUME TypeInv, IndInv, DirInv, NEW h \in Handles, Save(h) \/ DisplaceOrphan(h)
  PROVE  DirInv' /\ WriterInv'
<1>1. /\ pc[h] = "save" /\ pc[h] \in Guarded
      /\ UNCHANGED <<manifest, mem, next, fresh, body, todo>>
  BY DEF Save, DisplaceOrphan, Guarded, local
<1>2. /\ manifest = mem[h] /\ fresh[h] # None /\ body[h] # None /\ UpdateInv(h)
  BY <1>1 DEF IndInv, WriterInv, ControlInv
<1>3. /\ manifest # None /\ manifest \in Manifest /\ fresh[h] = manifest.next_segment
      /\ fresh[h] \in SegmentIds
  BY <1>2 DEF UpdateInv, TypeInv, TypeOK
<1>4. UpdateInv(h)'
  BY <1>1, <1>2 DEF UpdateInv, PlanInv
<1>5. CASE Save(h)
  <2>1. /\ files' = [files EXCEPT ![manifest.next_segment] = body[h]]
        /\ pc' = [pc EXCEPT ![h] = "install"]
    BY <1>3, <1>5 DEF Save, Goto
  <2>2. DirInv'
    BY <1>1, <1>3, <2>1, NextIsWritten
  <2>3. pc'[h] = "install" /\ files'[fresh'[h]] = body'[h] /\ manifest' = mem'[h]
    BY <1>1, <1>2, <1>3, <2>1 DEF TypeInv, TypeOK
  <2>4. ControlInv(h)'
    BY <1>4, <2>3 DEF ControlInv
  <2>5. QED
    BY <1>1, <2>1, <2>2, <2>4, LockedStep DEF IndInv, TypeInv
<1>6. CASE DisplaceOrphan(h)
  <2>1. files' = [files EXCEPT ![manifest.next_segment] = None] /\ pc' = pc
    BY <1>3, <1>6 DEF DisplaceOrphan, local
  <2>2. DirInv'
    BY <1>1, <1>3, <2>1, NextIsWritten
  <2>3. ControlInv(h)'
    BY <1>1, <1>2, <1>4, <2>1 DEF ControlInv
  <2>4. pc' = [pc EXCEPT ![h] = "save"]
    BY <1>1, <2>1 DEF TypeInv, TypeOK
  <2>5. QED
    BY <1>1, <2>2, <2>3, <2>4, LockedStep DEF IndInv, TypeInv
<1>7. QED
  BY <1>5, <1>6

\* Publishing the first manifest of the directory.
LEMMA FirstPublished ==
  ASSUME TypeInv, DirInv, NEW h \in Handles, CreateInv(h),
         manifest' = EmptyManifest, mem' = [mem EXCEPT ![h] = EmptyManifest],
         UNCHANGED files
  PROVE  DirInv'
<1>1. Listed(EmptyManifest) = {} /\ Live(EmptyManifest) = {}
  BY DEF EmptyManifest, Listed, Live, Recorded
<1>2. \A k \in Handles : mem'[k] # None => mem'[k] = EmptyManifest
  BY DEF CreateInv, TypeInv, TypeOK
<1>3. Past(EmptyManifest, EmptyManifest)
  BY DEF Past, EmptyManifest
<1>4. DiskInv'
  BY <1>1, <1>2, <1>3, EmptyManifestType DEF DiskInv, Authoritative, PathsAgree
<1>5. GenerationIdentifies'
  BY <1>2 DEF GenerationIdentifies
<1>6. NoForeignBytes'
  BY <1>1, <1>2 DEF NoForeignBytes
<1>7. QED
  BY <1>4, <1>5, <1>6 DEF DirInv

LEMMA InstallKeeps ==
  ASSUME TypeInv, IndInv, DirInv, NEW h \in Handles, Install(h) \/ Reinstall(h)
  PROVE  DirInv' /\ WriterInv'
<1> DEFINE n == next[h]
<1>1. /\ pc[h] \in {"install", "reinstall"} /\ pc[h] \in Guarded
      /\ Installed(h) /\ UNCHANGED files
  BY DEF Install, Reinstall, Guarded
<1>2. n \in Manifest /\ n # None /\ ValidManifest(n)
  BY DEF Install, Reinstall, Publishable, TypeInv, TypeOK
<1>3. /\ manifest' = n /\ mem' = [mem EXCEPT ![h] = n]
      /\ pc' = [pc EXCEPT ![h] = "finish"] /\ pc'[h] = "finish"
      /\ todo'[h] = todo[h]
  BY <1>1 DEF Installed, Plan, Goto, TypeInv, TypeOK
<1>4. DirInv' /\ \A s \in todo[h] : s \notin Listed(n)
  <2>1. CASE CreateInv(h)
    BY <1>1, <1>3, <2>1, FirstPublished DEF CreateInv
  <2>2. CASE ~CreateInv(h)
    <3>1. /\ UpdateInv(h) /\ Authoritative(mem[h])
          /\ fresh[h] # None => files[fresh[h]] = body[h]
      <4>1. CASE pc[h] = "install"
        <5>1. /\ manifest = mem[h] /\ UpdateInv(h)
              /\ fresh[h] # None => files[fresh[h]] = body[h]
          BY <2>2, <4>1 DEF IndInv, WriterInv, ControlInv
        <5>2. Authoritative(mem[h])
          BY <5>1 DEF DirInv, DiskInv, UpdateInv
        <5>3. QED
          BY <5>1, <5>2
      <4>2. CASE pc[h] = "reinstall"
        BY <4>2 DEF IndInv, WriterInv, ControlInv
      <4>3. QED
        BY <1>1, <4>1, <4>2
    <3>2. mem[h] \in Manifest /\ PlanInv(h, mem[h], n)
      BY <1>2, <3>1 DEF UpdateInv, TypeInv, TypeOK
    <3>3. QED
      BY <1>1, <1>2, <1>3, <3>1, <3>2, Published
  <2>3. QED
    BY <2>1, <2>2
<1>5. ControlInv(h)'
  BY <1>2, <1>3, <1>4 DEF ControlInv
<1>6. QED
  BY <1>1, <1>3, <1>4, <1>5, LockedStep DEF IndInv, TypeInv

\* A manifest that could not be written or renamed.
LEMMA FailureKeeps ==
  ASSUME TypeInv, IndInv, NEW h \in Handles, InstallFails(h) \/ ReinstallFails(h)
  PROVE  WriterInv'
<1>1. /\ pc[h] \in {"install", "reinstall"} /\ pc[h] \in Guarded
      /\ pc' = [pc EXCEPT ![h] = "undo"] /\ pc'[h] = "undo"
      /\ UNCHANGED <<manifest, fresh>>
  BY DEF InstallFails, ReinstallFails, Goto, Guarded, TypeInv, TypeOK
<1>2. fresh[h] # None /\ manifest # None => fresh[h] \notin Listed(manifest)
  <2>1. SUFFICES ASSUME fresh[h] # None, manifest # None
                 PROVE  fresh[h] \notin Listed(manifest)
    OBVIOUS
  <2>2. manifest = mem[h] /\ UpdateInv(h)
    BY <1>1, <2>1 DEF IndInv, WriterInv, ControlInv, CreateInv
  <2>3. manifest \in Manifest /\ Authoritative(manifest)
    BY <2>1 DEF TypeInv, TypeOK, IndInv, DiskInv
  <2>4. QED
    BY <2>1, <2>2, <2>3, NextIsUnlisted DEF UpdateInv
<1>3. ControlInv(h)'
  BY <1>1, <1>2 DEF ControlInv
<1>4. QED
  BY <1>1, <1>3, LockedStep DEF IndInv, TypeInv

\* The first half of replace_file's fallback.
LEMMA ReplaceKeeps ==
  ASSUME TypeInv, IndInv, DirInv, NEW h \in Handles, RemoveForReplace(h)
  PROVE  DirInv' /\ WriterInv'
<1>1. /\ pc[h] = "install" /\ pc[h] \in Guarded
      /\ manifest # None /\ manifest' = None
      /\ next[h] # None /\ ValidManifest(next[h])
      /\ pc' = [pc EXCEPT ![h] = "reinstall"] /\ pc'[h] = "reinstall"
      /\ UNCHANGED <<files, mem, next, fresh, body, todo>>
  BY DEF RemoveForReplace, Publishable, Goto, Guarded, TypeInv, TypeOK
<1>2. /\ manifest = mem[h] /\ UpdateInv(h)
      /\ fresh[h] # None => files[fresh[h]] = body[h]
  BY <1>1 DEF IndInv, WriterInv, ControlInv, CreateInv
<1>3. Authoritative(mem[h])'
  BY <1>1, <1>2 DEF DirInv, DiskInv, Authoritative
<1>4. UpdateInv(h)'
  BY <1>1, <1>2 DEF UpdateInv, PlanInv
<1>5. ControlInv(h)'
  BY <1>1, <1>2, <1>3, <1>4 DEF ControlInv
<1>6. DirInv'
  BY <1>1 DEF DirInv, DiskInv, GenerationIdentifies, NoForeignBytes
<1>7. QED
  BY <1>1, <1>5, <1>6, LockedStep DEF IndInv, TypeInv

\* Removing the segment of a failed operation.
LEMMA UndoKeeps ==
  ASSUME TypeInv, IndInv, DirInv, NEW h \in Handles, Undo(h)
  PROVE  DirInv' /\ WriterInv'
<1>1. /\ pc[h] = "undo" /\ pc[h] \in Guarded /\ Abandon(h)
      /\ UNCHANGED <<manifest, mem>>
  BY DEF Undo, Guarded
<1>2. fresh[h] # None /\ manifest # None => fresh[h] \notin Listed(manifest)
  BY <1>1 DEF IndInv, WriterInv, ControlInv
<1>3. \/ files' = files
      \/ fresh[h] # None /\ files' = [files EXCEPT ![fresh[h]] = None]
  <2>1. CASE fresh[h] = None
    BY <2>1 DEF Undo
  <2>2. CASE fresh[h] # None
    BY <2>2 DEF Undo
  <2>3. QED
    BY <2>1, <2>2
<1>4. DirInv'
  <2>1. CASE files' = files
    BY <1>1, <2>1, Unmoved
  <2>2. CASE fresh[h] # None /\ files' = [files EXCEPT ![fresh[h]] = None]
    BY <1>1, <1>2, <2>2, UnlistedIsRemoved
  <2>3. QED
    BY <1>3, <2>1, <2>2
<1>5. QED
  BY <1>1, <1>4, Abandoned DEF IndInv, TypeInv

\* Removing a segment that was compacted away.
LEMMA SweepKeeps ==
  ASSUME TypeInv, IndInv, DirInv, NEW h \in Handles, Sweep(h)
  PROVE  DirInv' /\ WriterInv'
<1>1. PICK s \in todo[h] : /\ todo' = [todo EXCEPT ![h] = @ \ {s}]
                           /\ files' \in {files, [files EXCEPT ![s] = None]}
  BY DEF Sweep
<1>2. /\ pc[h] = "finish" /\ pc[h] \in Guarded /\ pc' = pc
      /\ UNCHANGED <<manifest, mem>>
  BY DEF Sweep, Guarded
<1>3. \A t \in todo[h] : manifest # None /\ t \notin Listed(manifest)
  BY <1>2 DEF IndInv, WriterInv, ControlInv
<1>4. DirInv'
  BY <1>1, <1>2, <1>3, UnlistedIsRemoved
<1>5. todo'[h] \subseteq todo[h]
  BY <1>1 DEF TypeInv, TypeOK
<1>6. ControlInv(h)'
  BY <1>2, <1>3, <1>5 DEF ControlInv
<1>7. pc' = [pc EXCEPT ![h] = "finish"]
  BY <1>2 DEF TypeInv, TypeOK
<1>8. QED
  BY <1>2, <1>4, <1>6, <1>7, LockedStep DEF IndInv, TypeInv

\* Whatever a handle does outside the lock.
LEMMA OutsideKeeps ==
  ASSUME TypeInv, IndInv, DirInv, NEW h \in Handles,
         \/ Open(h) \/ Probe(h) \/ Refused(h) \/ LeakLock(h) \/ Release(h)
         \/ StartSearch(h) \/ ReadSegment(h) \/ EndSearch(h) \/ Crash(h)
         \/ \E label \in {"scan", "append", "delete", "compact"} : Acquire(h, label)
  PROVE  DirInv' /\ WriterInv'
<1>1. UNCHANGED <<manifest, files>>
  BY DEF Open, Probe, Refused, LeakLock, Release, StartSearch, ReadSegment, EndSearch,
       Crash, Acquire, disk
<1>2. \/ UNCHANGED mem
      \/ mem' = [mem EXCEPT ![h] = manifest] /\ manifest # None
      \/ mem' = [mem EXCEPT ![h] = None]
  BY DEF Open, Probe, Refused, LeakLock, Release, StartSearch, ReadSegment, EndSearch,
       Crash, Acquire
<1>3. DirInv'
  BY <1>1, <1>2, Unmoved, Opened, Forgotten DEF TypeInv
<1>4. pc'[h] \notin Planned
  BY DEF Open, Probe, Refused, LeakLock, Release, StartSearch, ReadSegment, EndSearch,
       Crash, Acquire, Goto, Rest, Planned, TypeInv, TypeOK
<1>5. ASSUME NEW k \in Handles, k # h
      PROVE  /\ pc'[k] = pc[k] /\ next'[k] = next[k] /\ fresh'[k] = fresh[k]
             /\ body'[k] = body[k] /\ todo'[k] = todo[k] /\ mem'[k] = mem[k]
  <2>1. CASE Release(h) \/ Crash(h)
    BY <1>5, <2>1 DEF Release, Crash, Goto, NoPlan, Plan, TypeInv, TypeOK
  <2>2. CASE StartSearch(h) \/ EndSearch(h)
    BY <1>5, <2>2 DEF StartSearch, EndSearch, Goto, TypeInv, TypeOK
  <2>3. CASE ReadSegment(h)
    BY <1>5, <2>3 DEF ReadSegment, TypeInv, TypeOK
  <2>4. CASE Open(h) \/ Probe(h) \/ Refused(h) \/ LeakLock(h) \/ \E label : Acquire(h, label)
    BY <1>5, <2>4 DEF Open, Probe, Refused, LeakLock, Acquire, Goto, TypeInv, TypeOK
  <2>5. QED
    BY <2>1, <2>2, <2>3, <2>4
<1>6. mem'[h] = mem[h] \/ mem'[h] = None \/ (mem'[h] = manifest /\ manifest # None)
  BY <1>2 DEF TypeInv, TypeOK
<1>7. WriterInv'
  BY <1>1, <1>4, <1>5, <1>6, FreeStep DEF IndInv, TypeInv
<1>8. QED
  BY <1>3, <1>7

LEMMA IndInit == Init => IndInv
<1> SUFFICES ASSUME Init
             PROVE  IndInv
  OBVIOUS
<1>1. LockInv /\ HandleInv /\ DiskInv /\ GenerationIdentifies /\ NoForeignBytes /\ LostInv
  BY DEF Init, LockInv, OneWriter, HandleInv, DiskInv, GenerationIdentifies,
       NoForeignBytes, LostInv, Guarded
<1>2. WriterInv
  BY DEF Init, WriterInv, ControlInv
<1>3. QED
  BY <1>1, <1>2 DEF IndInv

LEMMA IndStep == TypeInv /\ IndInv /\ [Next]_vars => IndInv'
<1> SUFFICES ASSUME TypeInv, IndInv, [Next]_vars
             PROVE  IndInv'
  OBVIOUS
<1>1. LockInv' /\ HandleInv' /\ LostInv'
  BY TypeStep, LockStep, LostStep DEF IndInv, TypeInv
<1>2. DirInv
  BY DEF IndInv, DirInv
<1>3. ASSUME NEW h \in Handles, Step(h) \/ Call(h) \/ Crash(h)
      PROVE  DirInv' /\ WriterInv'
  <2>1. CASE PlanCreate(h) \/ PlanAppend(h) \/ PlanDelete(h) \/ PlanCompact(h)
    <3>1. UNCHANGED <<manifest, files, mem>>
      BY <2>1 DEF PlanCreate, PlanAppend, PlanDelete, PlanCompact, disk
    <3>2. QED
      BY <1>2, <2>1, <3>1, Unmoved, CreateKeeps, AppendKeeps, DeleteKeeps, CompactKeeps
  <2>2. CASE SaveFails(h) \/ Reject(h)
    <3>1. UNCHANGED <<manifest, files, mem>> /\ Abandon(h) /\ pc[h] \in Guarded
      BY <2>2 DEF SaveFails, Reject, Guarded, disk
    <3>2. QED
      BY <1>2, <3>1, Unmoved, Abandoned DEF IndInv, TypeInv
  <2>3. CASE InstallFails(h) \/ ReinstallFails(h)
    <3>1. UNCHANGED <<manifest, files, mem>>
      BY <2>3 DEF InstallFails, ReinstallFails
    <3>2. QED
      BY <1>2, <2>3, <3>1, Unmoved, FailureKeeps
  <2>4. CASE Save(h) \/ DisplaceOrphan(h)
    BY <1>2, <2>4, SaveKeeps
  <2>5. CASE Install(h) \/ Reinstall(h)
    BY <1>2, <2>5, InstallKeeps
  <2>6. CASE RemoveForReplace(h) \/ Undo(h) \/ Sweep(h)
    BY <1>2, <2>6, ReplaceKeeps, UndoKeeps, SweepKeeps
  <2>7. CASE \/ Open(h) \/ Probe(h) \/ Refused(h) \/ LeakLock(h) \/ Release(h)
             \/ StartSearch(h) \/ ReadSegment(h) \/ EndSearch(h) \/ Crash(h)
             \/ \E label \in {"scan", "append", "delete", "compact"} : Acquire(h, label)
    BY <1>2, <2>7, OutsideKeeps
  <2>8. QED
    BY <1>3, <2>1, <2>2, <2>3, <2>4, <2>5, <2>6, <2>7 DEF Step, Call
<1>4. ASSUME RemoveOrphanedLock \/ UNCHANGED vars
      PROVE  DirInv' /\ WriterInv'
  <2>1. UNCHANGED <<manifest, files, pc, mem, next, fresh, body, todo>>
    BY <1>4 DEF RemoveOrphanedLock, vars, local, disk
  <2>2. DirInv'
    BY <1>2, <2>1, Unmoved
  <2>3. ASSUME NEW h \in Handles, ControlInv(h)
        PROVE  ControlInv(h)'
    <3>1. /\ UpdateInv(h)' = UpdateInv(h) /\ CreateInv(h)' = CreateInv(h)
          /\ Authoritative(mem[h])' = Authoritative(mem[h])
      BY <2>1 DEF UpdateInv, CreateInv, PlanInv, Authoritative
    <3>2. QED
      BY <2>1, <2>3, <3>1 DEF ControlInv
  <2>4. WriterInv'
    BY <2>3 DEF IndInv, WriterInv
  <2>5. QED
    BY <2>2, <2>4
<1>5. DirInv' /\ WriterInv'
  BY <1>3, <1>4 DEF Next
<1>6. QED
  BY <1>1, <1>5 DEF IndInv, DirInv

\* The inductive invariant that the run Fallback checks on its small instance.
THEOREM Inductive == Spec => []IndInv
<1>1. Spec => []TypeInv
  BY TypeInit, TypeStep, PTL DEF Spec
<1>2. QED
  BY <1>1, IndInit, IndStep, PTL DEF Spec

\* ensure_current is right to compare numbers only: whatever is interleaved,
\* refused by the file system, crashed and cleaned up, two manifests of one
\* index with the same generation are the same manifest.
THEOREM GenerationsAreUnique == Spec => []GenerationIdentifies
<1>1. IndInv => GenerationIdentifies
  BY DEF IndInv
<1>2. QED
  BY <1>1, Inductive, PTL

\* No reader, however stale, ever finds the bytes of another segment under the
\* name of a segment of its generation.
THEOREM NamesAreNotReused == Spec => []NoForeignBytes
<1>1. IndInv => NoForeignBytes
  BY DEF IndInv
<1>2. QED
  BY <1>1, Inductive, PTL

\* What verify_storage checks holds at every instant, between the steps of any
\* operation and after a crash in any of them.
THEOREM StorageIsIntact == Spec => []Intact
<1>1. TypeInv /\ IndInv => Intact
  <2>1. SUFFICES ASSUME IndInv, manifest # None
                 PROVE  /\ \A s \in Listed(manifest) : files[s] = manifest.segments[s]
                        /\ Loadable(manifest)
    BY DEF Intact
  <2>2. Authoritative(manifest)
    BY <2>1 DEF IndInv, DiskInv
  <2>3. \A s \in Listed(manifest) : files[s] = manifest.segments[s] /\ files[s] # None
    BY <2>2 DEF Authoritative, Listed
  <2>4. ASSUME NEW g \in Live(manifest)
        PROVE  LET r == manifest.documents[g]
               IN  /\ files[r.segment] # None
                   /\ r.local \in DOMAIN files[r.segment]
                   /\ files[r.segment][r.local].path = r.path
    <3>1. /\ manifest.documents[g].segment \in Listed(manifest)
          /\ manifest.documents[g].local
               \in DOMAIN manifest.segments[manifest.documents[g].segment]
      BY <2>2 DEF Authoritative, ValidManifest
    <3>2. manifest.segments[manifest.documents[g].segment][manifest.documents[g].local].path
            = manifest.documents[g].path
      BY <2>2 DEF Authoritative, PathsAgree
    <3>3. QED
      BY <2>3, <3>1, <3>2
  <2>5. QED
    BY <2>3, <2>4 DEF Loadable
<1>2. Spec => []TypeInv
  BY TypeInit, TypeStep, PTL DEF Spec
<1>3. QED
  BY <1>1, <1>2, Inductive, PTL

\* No interleaving of writers, stale handles, failures and crashes loses an
\* update: every manifest extends the one it replaces.
THEOREM UpdatesAreKept == Spec => NoLostUpdate
<1>1. ASSUME TypeInv, IndInv, [Next]_vars, manifest # None, manifest' # None,
             manifest' # manifest
      PROVE  Extends(manifest, manifest')
  <2>1. ASSUME NEW h \in Handles, Install(h)
        PROVE  Extends(manifest, manifest')
    <3>1. pc[h] = "install" /\ next[h] # None /\ manifest' = next[h]
      BY <2>1 DEF Install, Installed, Publishable
    <3>2. manifest = mem[h] /\ UpdateInv(h)
      BY <1>1, <3>1 DEF IndInv, WriterInv, ControlInv, CreateInv
    <3>3. QED
      BY <3>1, <3>2 DEF UpdateInv, PlanInv
  <2>2. ASSUME NEW h \in Handles, Reinstall(h)
        PROVE  FALSE
    BY <1>1, <2>2 DEF Reinstall, IndInv, WriterInv, ControlInv
  <2>3. ASSUME NEW h \in Handles, RemoveForReplace(h)
        PROVE  FALSE
    BY <1>1, <2>3 DEF RemoveForReplace
  <2>4. ASSUME NEW h \in Handles,
               \/ Refused(h) \/ Release(h) \/ PlanCreate(h) \/ PlanAppend(h)
               \/ PlanDelete(h) \/ PlanCompact(h) \/ Save(h) \/ DisplaceOrphan(h)
               \/ SaveFails(h) \/ Reject(h) \/ InstallFails(h) \/ ReinstallFails(h)
               \/ Undo(h) \/ Sweep(h) \/ ReadSegment(h) \/ EndSearch(h)
               \/ Open(h) \/ Probe(h) \/ LeakLock(h) \/ StartSearch(h) \/ Crash(h)
               \/ \E label : Acquire(h, label)
        PROVE  FALSE
    BY <1>1, <2>4 DEF Refused, Release, PlanCreate, PlanAppend, PlanDelete, PlanCompact,
         Save, DisplaceOrphan, SaveFails, Reject, InstallFails, ReinstallFails, Undo,
         Sweep, ReadSegment, EndSearch, Open, Probe, LeakLock, StartSearch, Crash,
         Acquire, disk
  <2>5. CASE RemoveOrphanedLock \/ UNCHANGED vars
    BY <1>1, <2>5 DEF RemoveOrphanedLock, vars, disk
  <2>6. QED
    BY <1>1, <2>1, <2>2, <2>3, <2>4, <2>5 DEF Next, Step, Call
<1>2. TypeInv /\ IndInv /\ [Next]_vars
        => [manifest # None /\ manifest' # None => Extends(manifest, manifest')]_manifest
  BY <1>1
<1>3. Spec => []TypeInv
  BY TypeInit, TypeStep, PTL DEF Spec
<1>4. QED
  BY <1>2, <1>3, Inductive, PTL DEF Spec, NoLostUpdate

-----------------------------------------------------------------------------
(* The plans of the writers are valid manifests without gaps *)

\* Every identifier that was given out has its record.
Dense(m) == Recorded(m) = 0 .. m.next_document - 1

LEMMA LiveRecord ==
  ASSUME NEW m \in Manifest, ValidManifest(m), NEW g \in Live(m)
  PROVE  /\ g \in DocumentIds /\ g \in Nat /\ g < m.next_document
         /\ g \in Recorded(m) /\ m.documents[g] \in Record
         /\ m.documents[g].segment \in Listed(m)
         /\ m.documents[g].segment \in SegmentIds
         /\ m.documents[g].segment \in Nat
         /\ m.documents[g].segment < m.next_segment
         /\ m.segments[m.documents[g].segment] \in Bodies
         /\ m.documents[g].local \in DOMAIN m.segments[m.documents[g].segment]
<1>1. g \in Recorded(m) /\ g \in DocumentIds /\ m.documents[g] \in Record
  BY DEF Live, Recorded, Manifest
<1>2. g \in Nat /\ g < m.next_document
  BY <1>1 DEF ValidManifest, DocumentIds
<1>3. /\ m.documents[g].segment \in Listed(m)
      /\ m.documents[g].local \in DOMAIN m.segments[m.documents[g].segment]
  BY DEF ValidManifest
<1>4. /\ m.documents[g].segment \in SegmentIds
      /\ m.segments[m.documents[g].segment] \in Bodies
  BY <1>3 DEF Listed, Manifest
<1>5. m.documents[g].segment \in Nat /\ m.documents[g].segment < m.next_segment
  BY <1>3, <1>4 DEF ValidManifest, SegmentIds
<1> QED
  BY <1>1, <1>2, <1>3, <1>4, <1>5

LEMMA AppendValid ==
  ASSUME NEW m \in Manifest, ValidManifest(m), Dense(m),
         NEW batch \in Batches, AcceptableBatch(m, batch), AfterAppend(m, batch) # None
  PROVE  ValidManifest(AfterAppend(m, batch)) /\ Dense(AfterAppend(m, batch))
<1> DEFINE n == AfterAppend(m, batch)
           c == Cardinality(DOMAIN batch)
           added == Added(m, batch)
<1>1. c \in Nat /\ c >= 1 /\ batch \in [0 .. c - 1 -> Document] /\ batch \in Bodies
      /\ batch # None
  BY BatchIsBody, LimitsAssumption, NoneAssumption
<1>2. /\ m.next_document \in Nat /\ m.next_segment \in SegmentIds /\ m.next_segment \in Nat
      /\ m.segments \in [SegmentIds -> Bodies \cup {None}]
  BY LimitsAssumption DEF Manifest, SegmentIds, DocumentIds
<1>3. added = m.next_document .. m.next_document + c - 1
  BY DEF Added
<1> HIDE DEF n, c, added
<1>4. /\ n.next_segment = m.next_segment + 1
      /\ n.next_document = m.next_document + c
      /\ n.segments = [m.segments EXCEPT ![m.next_segment] = batch]
  BY AppendRecords DEF n, c
<1>5. ASSUME NEW g \in added
      PROVE  /\ g - m.next_document \in 0 .. c - 1
             /\ n.documents[g].path = batch[g - m.next_document].path
             /\ n.documents[g].segment = m.next_segment
             /\ n.documents[g].local = g - m.next_document
             /\ ~n.documents[g].deleted
             /\ g \in Live(n)
  <2>1. /\ g - m.next_document \in 0 .. c - 1
        /\ g \in Live(n)
        /\ n.documents[g] =
             [path |-> batch[g - m.next_document].path, deleted |-> FALSE,
              segment |-> m.next_segment, local |-> g - m.next_document]
    BY AppendRecords DEF n, added, c
  <2> QED
    BY <2>1
<1>6. \A g \in Recorded(m) : g \notin added /\ n.documents[g] = m.documents[g]
  BY AppendRecords DEF n, added
<1>7. Recorded(n) = Recorded(m) \cup added
  BY AppendRecords DEF n, added
<1>8. Live(n) = Live(m) \cup added
  <2>1. \A g \in Recorded(m) : g \in Live(n) <=> g \in Live(m)
    BY <1>6, <1>7 DEF Live
  <2>2. Live(n) \subseteq Recorded(n) /\ Live(m) \subseteq Recorded(m)
    BY DEF Live
  <2> QED
    BY <1>5, <1>7, <2>1, <2>2
<1>9. /\ n.segments[m.next_segment] = batch /\ m.next_segment \in Listed(n)
      /\ m.next_segment \notin Listed(m)
      /\ \A s \in Listed(m) : s \in Listed(n) /\ n.segments[s] = m.segments[s]
      /\ Listed(n) = Listed(m) \cup {m.next_segment}
  <2>1. m.next_segment \notin Listed(m)
    BY <1>2 DEF ValidManifest
  <2>2. n.segments[m.next_segment] = batch /\ m.next_segment \in Listed(n)
    BY <1>1, <1>2, <1>4 DEF Listed
  <2>3. \A s \in SegmentIds \ {m.next_segment} : n.segments[s] = m.segments[s]
    BY <1>2, <1>4
  <2> QED
    BY <1>2, <2>1, <2>2, <2>3 DEF Listed
<1>10. \A g \in Live(m) : g \notin added /\ n.documents[g] = m.documents[g]
  BY <1>6 DEF Live
<1>11. ASSUME NEW g \in Live(m)
       PROVE  /\ n.documents[g] = m.documents[g]
              /\ m.documents[g].segment \in Listed(m)
              /\ m.documents[g].segment # m.next_segment
              /\ m.documents[g].local \in DOMAIN m.segments[m.documents[g].segment]
              /\ m.documents[g].path \in LivePaths(m)
  BY <1>2, <1>10, LiveRecord DEF LivePaths
<1>12. \A s \in Listed(n) : s < n.next_segment
  <2>1. ASSUME NEW s \in Listed(m) PROVE s < n.next_segment
    <3>1. s \in Nat /\ s < m.next_segment
      BY DEF ValidManifest, Listed, SegmentIds
    <3> QED
      BY <1>2, <1>4, <3>1
  <2> QED
    BY <1>2, <1>4, <1>9, <2>1
<1>13. \A g \in Recorded(n) : g < n.next_document
  <2>1. \A g \in Recorded(m) : g \in Nat /\ g < m.next_document
    BY DEF ValidManifest, Recorded, DocumentIds
  <2> QED
    BY <1>1, <1>2, <1>3, <1>4, <1>7, <2>1
<1>14. \A g \in Recorded(n) \ Live(n) :
         n.documents[g].segment = None /\ n.documents[g].local = None
  BY <1>6, <1>7, <1>8 DEF ValidManifest
<1>15. \A g \in Live(n) :
         /\ n.documents[g].segment \in Listed(n)
         /\ n.documents[g].local \in DOMAIN n.segments[n.documents[g].segment]
  BY <1>1, <1>5, <1>8, <1>9, <1>11
<1>16. ASSUME NEW g \in Live(n), NEW k \in Live(n), g # k
       PROVE  /\ n.documents[g].path # n.documents[k].path
              /\ <<n.documents[g].segment, n.documents[g].local>>
                   # <<n.documents[k].segment, n.documents[k].local>>
  <2>1. ASSUME NEW a \in Live(m), NEW b \in added
        PROVE  /\ n.documents[a].path # n.documents[b].path
               /\ n.documents[a].segment # n.documents[b].segment
    BY <1>1, <1>5, <1>11 DEF AcceptableBatch
  <2>2. CASE g \in Live(m) /\ k \in Live(m)
    BY <1>10, <1>16, <2>2 DEF ValidManifest
  <2>3. CASE g \in added /\ k \in added
    <3>1. /\ g - m.next_document \in DOMAIN batch /\ k - m.next_document \in DOMAIN batch
          /\ g - m.next_document # k - m.next_document
      BY <1>1, <1>2, <1>3, <1>5, <1>16, <2>3
    <3> QED
      BY <1>5, <2>3, <3>1 DEF AcceptableBatch
  <2> QED
    BY <1>8, <1>16, <2>1, <2>2, <2>3
<1>17. Dense(n)
  BY <1>1, <1>2, <1>3, <1>4, <1>7 DEF Dense
<1> QED
  BY <1>12, <1>13, <1>14, <1>15, <1>16, <1>17 DEF ValidManifest, n

LEMMA DeleteValid ==
  ASSUME NEW m \in Manifest, ValidManifest(m), Dense(m),
         NEW requested, AfterDelete(m, requested) # None
  PROVE  ValidManifest(AfterDelete(m, requested)) /\ Dense(AfterDelete(m, requested))
<1> DEFINE n == AfterDelete(m, requested)
           Goes(g) == g \in Live(m) /\ m.documents[g].path \in requested
<1> HIDE DEF n
<1>1. /\ n.next_segment = m.next_segment /\ n.next_document = m.next_document
      /\ n.segments = m.segments /\ Listed(n) = Listed(m)
  BY DeleteRecords DEF n, Listed
<1>2. Recorded(n) = Recorded(m)
  BY DeleteRecords DEF n
<1>3. \A g \in Recorded(m) :
        IF Goes(g) THEN n.documents[g] = Tombstone(m.documents[g]) /\ g \notin Live(n)
                   ELSE n.documents[g] = m.documents[g]
  BY DeleteRecords DEF n
<1>4. \A g \in Live(n) : g \in Live(m) /\ n.documents[g] = m.documents[g]
  BY <1>2, <1>3 DEF Live
<1>5. ASSUME NEW g \in Recorded(n) \ Live(n)
      PROVE  n.documents[g].segment = None /\ n.documents[g].local = None
  <2>1. CASE Goes(g)
    <3>1. m.documents[g] \in Record
      BY <2>1, LiveRecord
    <3> QED
      BY <1>2, <1>3, <2>1, <3>1, TombstoneType
  <2>2. CASE ~Goes(g)
    <3>1. n.documents[g] = m.documents[g] /\ g \in Recorded(m) \ Live(m)
      BY <1>2, <1>3, <2>2 DEF Live
    <3> QED
      BY <3>1 DEF ValidManifest
  <2> QED
    BY <2>1, <2>2
<1> QED
  BY <1>1, <1>2, <1>4, <1>5 DEF ValidManifest, Dense, n

LEMMA CompactValid ==
  ASSUME NEW m \in Manifest, ValidManifest(m), Dense(m), AfterCompact(m) # None,
         Live(m) # {} => CompactedBody(m) \in Bodies
  PROVE  ValidManifest(AfterCompact(m)) /\ Dense(AfterCompact(m))
<1> DEFINE n == AfterCompact(m)
<1>1. m.next_document \in Nat /\ m.next_segment \in SegmentIds /\ m.next_segment \in Nat
  BY LimitsAssumption DEF Manifest, SegmentIds, DocumentIds
<1> HIDE DEF n
<1>2. /\ n.next_segment = SegmentAfterCompact(m) /\ n.next_document = m.next_document
      /\ n.segments = [s \in SegmentIds |-> IF Live(m) # {} /\ s = m.next_segment
                                            THEN CompactedBody(m)
                                            ELSE None]
  BY CompactRecords DEF n
<1>3. Recorded(n) = Recorded(m) /\ Live(n) = Live(m)
  BY CompactRecords DEF n
<1>4. \A g \in Live(m) : /\ n.documents[g].path = m.documents[g].path
                         /\ n.documents[g].segment = m.next_segment
                         /\ n.documents[g].local = Rank(m, g)
  BY CompactRecords DEF n
<1>5. \A g \in Recorded(m) \ Live(m) : n.documents[g] = Tombstone(m.documents[g])
  BY CompactRecords DEF n
<1>6. ASSUME NEW g \in Recorded(n) \ Live(n)
      PROVE  n.documents[g].segment = None /\ n.documents[g].local = None
  <2>1. m.documents[g] \in Record
    BY <1>3 DEF Recorded, Manifest
  <2> QED
    BY <1>3, <1>5, <2>1, TombstoneType
<1>7. \A s \in Listed(n) : s < n.next_segment
  <2>1. \A s \in Listed(n) : Live(m) # {} /\ s = m.next_segment
    BY <1>2 DEF Listed
  <2> QED
    BY <1>1, <1>2, <2>1 DEF SegmentAfterCompact
<1>8. ASSUME NEW g \in Live(n)
      PROVE  /\ n.documents[g].segment \in Listed(n)
             /\ n.documents[g].local \in DOMAIN n.segments[n.documents[g].segment]
  <2>1. n.segments[m.next_segment] = CompactedBody(m) /\ CompactedBody(m) # None
    BY <1>1, <1>2, <1>3, <1>8, NoneAssumption
  <2>2. Rank(m, g) \in DOMAIN CompactedBody(m)
    BY <1>3, CompactedDocument
  <2> QED
    BY <1>1, <1>3, <1>4, <2>1, <2>2 DEF Listed
<1>9. ASSUME NEW g \in Live(n), NEW k \in Live(n), g # k
      PROVE  /\ n.documents[g].path # n.documents[k].path
             /\ <<n.documents[g].segment, n.documents[g].local>>
                  # <<n.documents[k].segment, n.documents[k].local>>
  <2>1. Rank(m, g) # Rank(m, k)
    BY <1>3, <1>9, RankBijection
  <2>2. m.documents[g].path # m.documents[k].path
    BY <1>3, <1>9 DEF ValidManifest
  <2> QED
    BY <1>3, <1>4, <2>1, <2>2
<1>10. \A g \in Recorded(n) : g < n.next_document
  BY <1>2, <1>3 DEF ValidManifest
<1> QED
  BY <1>2, <1>3, <1>6, <1>7, <1>8, <1>9, <1>10 DEF ValidManifest, Dense, n

LEMMA EmptyIsDense == Dense(EmptyManifest)
<1>1. Recorded(EmptyManifest) = {} /\ EmptyManifest.next_document = 0
  BY DEF EmptyManifest, Recorded
<1> QED
  BY <1>1 DEF Dense

\* What is planned holds for every manifest a writer is about to publish.
PlansInv ==
  /\ manifest # None => Dense(manifest)
  /\ \A h \in Handles : mem[h] # None => Dense(mem[h])
  /\ \A h \in Handles : next[h] # None => ValidManifest(next[h]) /\ Dense(next[h])

LEMMA PlansInit == Init => PlansInv
BY DEF Init, PlansInv

LEMMA PlansStep == TypeInv /\ IndInv /\ PlansInv /\ [Next]_vars => PlansInv'
<1> SUFFICES ASSUME TypeInv, IndInv, PlansInv, [Next]_vars PROVE PlansInv'
  OBVIOUS
<1>1. TypeOK
  BY DEF TypeInv
<1>2. ASSUME NEW h \in Handles, UNCHANGED <<manifest, mem>>,
             NEW n, n # None => ValidManifest(n) /\ Dense(n),
             next' = [next EXCEPT ![h] = n]
      PROVE  PlansInv'
  BY <1>1, <1>2 DEF PlansInv, TypeOK
<1>3. ASSUME NEW h \in Handles, Abandon(h), UNCHANGED <<manifest, mem>> PROVE PlansInv'
  BY <1>2, <1>3 DEF Abandon, NoPlan, Plan
<1>4. ASSUME UNCHANGED <<manifest, mem, next>> PROVE PlansInv'
  BY <1>4 DEF PlansInv
<1>5. ASSUME NEW h \in Handles, Open(h) PROVE PlansInv'
  BY <1>1, <1>5 DEF Open, disk, PlansInv, TypeOK
<1>6. ASSUME NEW h \in Handles,
             \/ Refused(h) \/ Save(h) \/ DisplaceOrphan(h) \/ InstallFails(h)
             \/ ReinstallFails(h) \/ Sweep(h) \/ ReadSegment(h) \/ EndSearch(h)
             \/ Probe(h) \/ LeakLock(h) \/ StartSearch(h)
             \/ \E label : Acquire(h, label)
      PROVE  PlansInv'
  BY <1>4, <1>6 DEF Refused, Save, DisplaceOrphan, InstallFails, ReinstallFails, Sweep,
       ReadSegment, EndSearch, Probe, LeakLock, StartSearch, Acquire, disk, local
<1>7. ASSUME NEW h \in Handles, RemoveForReplace(h) PROVE PlansInv'
  BY <1>7 DEF RemoveForReplace, PlansInv
<1>8. ASSUME NEW h \in Handles, Release(h) PROVE PlansInv'
  BY <1>2, <1>8 DEF Release, NoPlan, Plan
<1>9. ASSUME NEW h \in Handles, SaveFails(h) \/ Reject(h) \/ Undo(h) PROVE PlansInv'
  BY <1>3, <1>9 DEF SaveFails, Reject, Undo, disk
<1>10. ASSUME NEW h \in Handles, PlanCreate(h) PROVE PlansInv'
  <2>1. CASE Abandon(h)
    BY <1>3, <1>10, <2>1 DEF PlanCreate, disk
  <2>2. CASE Plan(h, EmptyManifest, None, None, {})
    BY <1>2, <1>10, <2>2, EmptyManifestType, EmptyIsDense DEF PlanCreate, Plan, disk
  <2> QED
    BY <1>10, <2>1, <2>2 DEF PlanCreate
<1>11. ASSUME NEW h \in Handles, pc[h] \in {"append", "delete", "compact"}
       PROVE  mem[h] \in Manifest /\ mem[h] # None /\ ValidManifest(mem[h]) /\ Dense(mem[h])
  BY <1>11 DEF TypeInv, TypeOK, HandleInv, PlansInv
<1>12. ASSUME NEW h \in Handles, PlanAppend(h) PROVE PlansInv'
  <2>1. CASE Abandon(h)
    BY <1>3, <1>12, <2>1 DEF PlanAppend, disk
  <2>2. ASSUME NEW batch \in Batches, AcceptableBatch(mem[h], batch),
               Plan(h, AfterAppend(mem[h], batch), mem[h].next_segment, batch, {})
        PROVE  PlansInv'
    <3>1. AfterAppend(mem[h], batch) # None =>
            /\ ValidManifest(AfterAppend(mem[h], batch))
            /\ Dense(AfterAppend(mem[h], batch))
      BY <1>11, <1>12, <2>2, AppendValid DEF PlanAppend
    <3> QED
      BY <1>2, <1>12, <2>2, <3>1 DEF PlanAppend, Plan, disk
  <2> QED
    BY <1>12, <2>1, <2>2 DEF PlanAppend
<1>13. ASSUME NEW h \in Handles, PlanDelete(h) PROVE PlansInv'
  <2>1. CASE Abandon(h)
    BY <1>3, <1>13, <2>1 DEF PlanDelete, disk
  <2>2. ASSUME NEW requested, Plan(h, AfterDelete(mem[h], requested), None, None, {})
        PROVE  PlansInv'
    <3>1. AfterDelete(mem[h], requested) # None =>
            /\ ValidManifest(AfterDelete(mem[h], requested))
            /\ Dense(AfterDelete(mem[h], requested))
      BY <1>11, <1>13, DeleteValid DEF PlanDelete
    <3> QED
      BY <1>2, <1>13, <2>2, <3>1 DEF PlanDelete, Plan, disk
  <2> QED
    BY <1>13, <2>1, <2>2 DEF PlanDelete
<1>14. ASSUME NEW h \in Handles, PlanCompact(h) PROVE PlansInv'
  <2>1. CASE Abandon(h)
    BY <1>3, <1>14, <2>1 DEF PlanCompact, disk
  <2>2. CASE ~Abandon(h)
    <3>1. Loadable(mem[h]) /\ next' = [next EXCEPT ![h] = AfterCompact(mem[h])]
      BY <1>14, <2>2 DEF PlanCompact, Plan
    <3>2. Live(mem[h]) # {} => CompactedBody(mem[h]) \in Bodies
      BY <1>11, <1>14, <3>1, PlanTypes DEF PlanCompact
    <3>3. AfterCompact(mem[h]) # None =>
            ValidManifest(AfterCompact(mem[h])) /\ Dense(AfterCompact(mem[h]))
      BY <1>11, <1>14, <3>2, CompactValid DEF PlanCompact
    <3> QED
      BY <1>2, <1>14, <3>1, <3>3 DEF PlanCompact, disk
  <2> QED
    BY <2>1, <2>2
<1>15. ASSUME NEW h \in Handles, Installed(h), next[h] # None PROVE PlansInv'
  BY <1>1, <1>15 DEF Installed, Plan, PlansInv, TypeOK
<1>16. ASSUME NEW h \in Handles, Install(h) \/ Reinstall(h) PROVE PlansInv'
  <2>1. next[h] # None
    BY <1>16 DEF Install, Publishable, Reinstall, TypeInv
  <2> QED
    BY <1>15, <1>16, <2>1 DEF Install, Reinstall
<1>17. ASSUME NEW h \in Handles, Crash(h) PROVE PlansInv'
  BY <1>1, <1>17 DEF Crash, NoPlan, Plan, PlansInv, TypeOK
<1>18. CASE RemoveOrphanedLock \/ UNCHANGED vars
  BY <1>4, <1>18 DEF RemoveOrphanedLock, vars, disk, local
<1> QED
  BY <1>5, <1>6, <1>7, <1>8, <1>9, <1>10, <1>12, <1>13, <1>14, <1>16, <1>17, <1>18
  DEF Next, Step, Call

LEMMA Invariant == Spec => [](TypeInv /\ IndInv /\ PlansInv)
<1>1. Spec => []TypeInv
  BY TypeInit, TypeStep, PTL DEF Spec
<1> QED
  BY <1>1, Inductive, PlansInit, PlansStep, PTL DEF Spec

\* validate_manifest accepts whatever append, delete and compact compute of the
\* manifest they were opened with, after any history of the index.
THEOREM PlansAreAccepted == Spec => []PlansAreValid
<1>1. PlansInv => PlansAreValid
  BY DEF PlansInv, PlansAreValid
<1> QED
  BY <1>1, Invariant, PTL

-----------------------------------------------------------------------------
(* Searches *)

\* The text that manifest m means by its live document g.
Text(m, g) == m.segments[m.documents[g].segment][m.documents[g].local].text

\* The live documents of m that are in none of these segments.
Outside(m, segments) == {g \in Live(m) : m.documents[g].segment \notin segments}

\* A search has collected the documents of the segments it has read, with the
\* text they had when the handle was opened.
SearchInv ==
  \A h \in Handles :
    IF pc[h] = "search"
    THEN /\ mem[h] # None
         /\ todo[h] \subseteq Listed(mem[h])
         /\ answer[h] = {<<g, Text(mem[h], g)>> : g \in Outside(mem[h], todo[h])}
    ELSE answer[h] = {}

LEMMA SearchInit == Init => SearchInv
BY DEF Init, SearchInv

LEMMA SearchStep == TypeInv /\ IndInv /\ SearchInv /\ [Next]_vars => SearchInv'
<1> SUFFICES ASSUME TypeInv, IndInv, SearchInv, [Next]_vars PROVE SearchInv'
  OBVIOUS
<1>1. TypeOK
  BY DEF TypeInv
<1> DEFINE Good(h) == IF pc[h] = "search"
                      THEN /\ mem[h] # None
                           /\ todo[h] \subseteq Listed(mem[h])
                           /\ answer[h] =
                                {<<g, Text(mem[h], g)>> : g \in Outside(mem[h], todo[h])}
                      ELSE answer[h] = {}
<1>2. /\ SearchInv = \A h \in Handles : Good(h)
      /\ SearchInv' = \A h \in Handles : Good(h)'
  BY DEF SearchInv
<1>3. \A h \in Handles : Good(h)
  BY <1>2
<1>4. ASSUME NEW k \in Handles, pc'[k] = pc[k], mem'[k] = mem[k], todo'[k] = todo[k],
             answer'[k] = answer[k]
      PROVE  Good(k)'
  BY <1>3, <1>4
<1>5. ASSUME NEW k \in Handles, pc'[k] # "search", answer'[k] = {} PROVE Good(k)'
  BY <1>5
<1> HIDE DEF Good
<1>6. ASSUME NEW h \in Handles, Good(h)',
             \A k \in Handles \ {h} : /\ pc'[k] = pc[k] /\ mem'[k] = mem[k]
                                      /\ todo'[k] = todo[k] /\ answer'[k] = answer[k]
      PROVE  SearchInv'
  BY <1>2, <1>4, <1>6
<1>7. ASSUME NEW h \in Handles, answer' = answer, pc[h] # "search", pc'[h] # "search",
             \A k \in Handles \ {h} : /\ pc'[k] = pc[k] /\ mem'[k] = mem[k]
                                      /\ todo'[k] = todo[k]
      PROVE  SearchInv'
  <2>1. answer[h] = {}
    BY <1>3, <1>7 DEF Good
  <2> QED
    BY <1>5, <1>6, <1>7, <2>1
<1>8. ASSUME NEW h \in Handles,
             \/ Open(h) \/ Probe(h) \/ Refused(h) \/ LeakLock(h) \/ Release(h)
             \/ \E label \in {"scan", "append", "delete", "compact"} : Acquire(h, label)
      PROVE  SearchInv'
  BY <1>1, <1>7, <1>8 DEF Open, Probe, Refused, LeakLock, Release, Acquire, Goto, Rest,
       NoPlan, Plan, TypeOK, local
<1>9. ASSUME NEW h \in Handles,
             PlanCreate(h) \/ PlanAppend(h) \/ PlanDelete(h) \/ PlanCompact(h)
      PROVE  SearchInv'
  BY <1>1, <1>7, <1>9 DEF PlanCreate, PlanAppend, PlanDelete, PlanCompact, Abandon, Goto,
       NoPlan, Plan, TypeOK
<1>10. ASSUME NEW h \in Handles,
              \/ Save(h) \/ SaveFails(h) \/ Reject(h) \/ Install(h) \/ InstallFails(h)
              \/ RemoveForReplace(h) \/ Reinstall(h) \/ ReinstallFails(h) \/ Undo(h)
       PROVE  SearchInv'
  BY <1>1, <1>7, <1>10 DEF Save, SaveFails, Reject, Install, InstallFails,
       RemoveForReplace, Reinstall, ReinstallFails, Undo, Installed, Abandon, Goto,
       NoPlan, Plan, TypeOK
<1>11. ASSUME NEW h \in Handles, DisplaceOrphan(h) \/ Sweep(h) PROVE SearchInv'
  BY <1>1, <1>7, <1>11 DEF DisplaceOrphan, Sweep, TypeOK, local
<1>12. ASSUME NEW h \in Handles, StartSearch(h) PROVE SearchInv'
  <2> DEFINE m == mem[h]
             due == {s \in Listed(m) : LiveIn(m, s) # {}}
  <2>1. m # None /\ m \in Manifest /\ ValidManifest(m) /\ answer[h] = {}
    BY <1>1, <1>3, <1>12 DEF StartSearch, TypeInv, HandleInv, TypeOK, Good
  <2> HIDE DEF m
  <2>2. ASSUME NEW g \in Live(m) PROVE m.documents[g].segment \in due
    BY <2>1, LiveRecord DEF LiveIn
  <2>3. Outside(m, due) = {}
    BY <2>2 DEF Outside
  <2>4. /\ pc'[h] = "search" /\ mem' = mem /\ answer' = answer /\ todo'[h] = due
        /\ \A k \in Handles \ {h} : pc'[k] = pc[k] /\ todo'[k] = todo[k]
    BY <1>1, <1>12 DEF StartSearch, Goto, TypeOK, m
  <2>5. Good(h)'
    BY <2>1, <2>3, <2>4 DEF Good, m
  <2> QED
    BY <1>6, <2>4, <2>5
<1>13. ASSUME NEW h \in Handles, ReadSegment(h) PROVE SearchInv'
  <2> DEFINE m == mem[h]
  <2>1. PICK s \in todo[h] :
          /\ Searchable(h, s)
          /\ answer' = [answer EXCEPT ![h] =
                          @ \cup {<<g, Hit(h, g).text>> : g \in Hits(h, s)}]
          /\ todo' = [todo EXCEPT ![h] = @ \ {s}]
    BY <1>13 DEF ReadSegment
  <2>2. /\ pc[h] = "search" /\ m # None /\ m \in Manifest /\ ValidManifest(m)
        /\ todo[h] \subseteq Listed(m)
        /\ answer[h] = {<<g, Text(m, g)>> : g \in Outside(m, todo[h])}
    BY <1>1, <1>3, <1>13 DEF ReadSegment, TypeInv, HandleInv, TypeOK, Good
  <2>3. files[s] = m.segments[s]
    BY <2>1, <2>2 DEF Searchable, IndInv, NoForeignBytes
  <2>4. Hits(h, s) = LiveIn(m, s)
    <3>1. ASSUME NEW g \in LiveIn(m, s) PROVE m.documents[g].local \in DOMAIN files[s]
      BY <2>2, <2>3, LiveRecord DEF LiveIn
    <3> QED
      BY <3>1 DEF Hits
  <2>5. \A g \in LiveIn(m, s) : Hit(h, g).text = Text(m, g)
    BY <2>3 DEF LiveIn, Hit, Text
  <2>6. /\ answer'[h] = answer[h] \cup {<<g, Text(m, g)>> : g \in LiveIn(m, s)}
        /\ todo'[h] = todo[h] \ {s} /\ pc' = pc /\ mem' = mem
        /\ \A k \in Handles \ {h} : todo'[k] = todo[k] /\ answer'[k] = answer[k]
    BY <1>1, <1>13, <2>1, <2>4, <2>5 DEF ReadSegment, TypeOK
  <2>7. Outside(m, todo[h] \ {s}) = Outside(m, todo[h]) \cup LiveIn(m, s)
    BY <2>1 DEF Outside, LiveIn
  <2> HIDE DEF m
  <2>8. answer'[h] = {<<g, Text(m, g)>> : g \in Outside(m, todo[h] \ {s})}
    BY <2>2, <2>6, <2>7
  <2>9. Good(h)'
    BY <2>2, <2>6, <2>8 DEF Good, m
  <2> QED
    BY <1>6, <2>6, <2>9
<1>14. ASSUME NEW h \in Handles, EndSearch(h) \/ Crash(h) PROVE SearchInv'
  <2>1. /\ pc'[h] # "search" /\ answer'[h] = {}
        /\ \A k \in Handles \ {h} : /\ pc'[k] = pc[k] /\ mem'[k] = mem[k]
                                    /\ todo'[k] = todo[k] /\ answer'[k] = answer[k]
    BY <1>1, <1>14 DEF EndSearch, Crash, NoPlan, Plan, Goto, TypeOK
  <2> QED
    BY <1>5, <1>6, <2>1
<1>15. CASE RemoveOrphanedLock \/ UNCHANGED vars
  BY <1>2, <1>4, <1>15 DEF RemoveOrphanedLock, vars, local
<1> QED
  BY <1>8, <1>9, <1>10, <1>11, <1>12, <1>13, <1>14, <1>15 DEF Next, Step, Call

\* A search that ends has found every live document of the generation its handle
\* was opened with, once, with the text it had then, whatever other processes
\* append, delete, compact or sweep away while it runs.
THEOREM SearchesAreSnapshots == Spec => []SearchIsSnapshot
<1>1. SearchInv => SearchIsSnapshot
  <2> SUFFICES ASSUME SearchInv, NEW h \in Handles, pc[h] = "search", todo[h] = {}
               PROVE  answer[h] =
                 {<<g, mem[h].segments[mem[h].documents[g].segment]
                                      [mem[h].documents[g].local].text>> : g \in Live(mem[h])}
    BY DEF SearchIsSnapshot
  <2>1. Outside(mem[h], todo[h]) = Live(mem[h])
    BY DEF Outside
  <2> QED
    BY <2>1 DEF SearchInv, Text
<1> QED
  BY <1>1, Invariant, SearchInit, SearchStep, PTL DEF Spec

-----------------------------------------------------------------------------
(* The document store *)

\* The history a manifest tells.
HistoryOf(m) ==
  [i \in 1 .. m.next_document |->
     [path |-> m.documents[i - 1].path,
      text |-> IF m.documents[i - 1].deleted THEN None ELSE Text(m, i - 1)]]

PathsIn(old) == {old[i].path : i \in {j \in DOMAIN old : old[j].text # None}}

\* What DocumentStore lets an append and a delete do to a history.
Grows(old, new) ==
  \E n \in 1 .. MaxBatch : \E batch \in [1 .. n -> Document] :
    /\ \A i \in 1 .. n : batch[i].path \notin PathsIn(old)
    /\ \A i, j \in 1 .. n : batch[i].path = batch[j].path => i = j
    /\ new = old \o batch

Shrinks(old, new) ==
  \E requested \in SUBSET PathsIn(old) :
    /\ requested # {}
    /\ new = [i \in DOMAIN old |-> IF old[i].path \in requested
                                   THEN [old[i] EXCEPT !.text = None]
                                   ELSE old[i]]

Updates(old, new) == new = old \/ Grows(old, new) \/ Shrinks(old, new)

\* What the history holds of one document.
Entry == [path : Paths, text : Texts \cup {None}]

LEMMA EntryOf ==
  ASSUME NEW m \in Manifest, ValidManifest(m), NEW g \in Recorded(m)
  PROVE  /\ m.documents[g].path \in Paths
         /\ m.documents[g].deleted \in BOOLEAN
         /\ m.documents[g].deleted <=> g \notin Live(m)
         /\ g \in Live(m) => Text(m, g) \in Texts /\ Text(m, g) # None
<1>1. m.documents[g] \in Record
  BY DEF Recorded, Manifest
<1>2. m.documents[g].deleted <=> g \notin Live(m)
  BY <1>1 DEF Record, Live
<1>3. ASSUME g \in Live(m) PROVE Text(m, g) \in Texts /\ Text(m, g) # None
  <2>1. m.segments[m.documents[g].segment][m.documents[g].local] \in Document
    BY <1>3, LiveRecord, BodyDocument
  <2> QED
    BY <2>1, NoneAssumption DEF Text, Document
<1> QED
  BY <1>1, <1>2, <1>3 DEF Record

LEMMA HistoryType ==
  ASSUME NEW m \in Manifest, ValidManifest(m), Dense(m)
  PROVE  /\ m.next_document \in Nat
         /\ HistoryOf(m) \in [1 .. m.next_document -> Entry]
         /\ HistoryOf(m) \in Seq(Entry) /\ Len(HistoryOf(m)) = m.next_document
         /\ \A i \in 1 .. m.next_document : i - 1 \in Recorded(m)
         /\ PathsIn(HistoryOf(m)) = LivePaths(m)
<1> DEFINE H == HistoryOf(m)
           d == m.next_document
<1>1. d \in Nat
  BY LimitsAssumption DEF Manifest, DocumentIds
<1>2. ASSUME NEW i \in 1 .. d PROVE i - 1 \in Recorded(m)
  <2>1. i - 1 \in 0 .. d - 1
    BY <1>1
  <2> QED
    BY <2>1 DEF Dense
<1>3. ASSUME NEW i \in 1 .. d
      PROVE  /\ H[i] = [path |-> m.documents[i - 1].path,
                        text |-> IF m.documents[i - 1].deleted THEN None
                                                               ELSE Text(m, i - 1)]
             /\ H[i] \in Entry
             /\ H[i].text # None <=> i - 1 \in Live(m)
             /\ H[i].path = m.documents[i - 1].path
  <2>1. H[i] = [path |-> m.documents[i - 1].path,
                text |-> IF m.documents[i - 1].deleted THEN None ELSE Text(m, i - 1)]
    BY DEF HistoryOf
  <2>2. /\ m.documents[i - 1].path \in Paths
        /\ m.documents[i - 1].deleted \in BOOLEAN
        /\ m.documents[i - 1].deleted <=> i - 1 \notin Live(m)
        /\ i - 1 \in Live(m) => Text(m, i - 1) \in Texts /\ Text(m, i - 1) # None
    BY <1>2, EntryOf
  <2> HIDE DEF H
  <2> QED
    BY <2>1, <2>2 DEF Entry
<1>4. H \in [1 .. d -> Entry] /\ DOMAIN H = 1 .. d
  BY <1>3 DEF HistoryOf
<1> HIDE DEF H
<1>5. H \in Seq(Entry) /\ Len(H) = d
  BY <1>1, <1>4
<1>6. PathsIn(H) \subseteq LivePaths(m)
  <2>1. SUFFICES ASSUME NEW i \in 1 .. d, H[i].text # None
                 PROVE  H[i].path \in LivePaths(m)
    BY <1>4 DEF PathsIn
  <2>2. i - 1 \in Live(m) /\ H[i].path = m.documents[i - 1].path
    BY <1>3, <2>1
  <2>3. QED
    BY ONLY <2>2 DEF LivePaths
<1>7. ASSUME NEW g \in Live(m) PROVE m.documents[g].path \in PathsIn(H)
  <2>1. g \in Recorded(m)
    BY DEF Live
  <2>2. g + 1 \in 1 .. d /\ (g + 1) - 1 = g
    BY <1>1, <2>1 DEF Dense
  <2>3. H[g + 1].path = m.documents[g].path /\ H[g + 1].text # None
    BY <1>3, <2>2
  <2> QED
    BY <1>4, <2>2, <2>3 DEF PathsIn
<1>8. LivePaths(m) \subseteq PathsIn(H)
  BY <1>7 DEF LivePaths
<1> QED
  BY <1>1, <1>2, <1>4, <1>5, <1>6, <1>8 DEF H

LEMMA HistoryEntry ==
  ASSUME NEW m, NEW i \in 1 .. m.next_document
  PROVE  HistoryOf(m)[i] = [path |-> m.documents[i - 1].path,
                            text |-> IF m.documents[i - 1].deleted THEN None
                                                                   ELSE Text(m, i - 1)]
BY DEF HistoryOf

\* Functions on the same initial segment that agree are the same history.
LEMMA HistoriesEqual ==
  ASSUME NEW m \in Manifest, ValidManifest(m), Dense(m), NEW new \in Seq(Entry),
         Len(new) = m.next_document,
         \A i \in 1 .. m.next_document : HistoryOf(m)[i] = new[i]
  PROVE  HistoryOf(m) = new
BY HistoryType, SeqEqual

LEMMA AppendHistory ==
  ASSUME NEW m \in Manifest, ValidManifest(m), Dense(m),
         NEW batch \in Batches, AcceptableBatch(m, batch), AfterAppend(m, batch) # None
  PROVE  Grows(HistoryOf(m), HistoryOf(AfterAppend(m, batch)))
<1> DEFINE n == AfterAppend(m, batch)
           c == Cardinality(DOMAIN batch)
           d == m.next_document
           added == Added(m, batch)
           old == HistoryOf(m)
           new == HistoryOf(n)
           late == [i \in 1 .. c |-> batch[i - 1]]
<1>1. c \in 1 .. MaxBatch /\ c \in Nat /\ batch \in [0 .. c - 1 -> Document]
  BY BatchIsBody, LimitsAssumption
<1>2. added = d .. d + c - 1
  BY DEF Added
<1>3. /\ d \in Nat /\ old \in Seq(Entry) /\ Len(old) = d
      /\ \A i \in 1 .. d : i - 1 \in Recorded(m)
      /\ PathsIn(old) = LivePaths(m)
  BY HistoryType
<1>4. n \in Manifest /\ ValidManifest(n) /\ Dense(n)
  BY AppendType, AppendValid
<1>5. /\ new \in Seq(Entry) /\ Len(new) = n.next_document
  BY <1>4, HistoryType
<1>6. late \in [1 .. c -> Document]
  <2>1. ASSUME NEW i \in 1 .. c PROVE i - 1 \in 0 .. c - 1
    BY <1>1
  <2> QED
    BY <1>1, <2>1
<1>7. \A i \in 1 .. c : late[i] = batch[i - 1] /\ i - 1 \in 0 .. c - 1
  BY <1>1
<1>8. m.next_segment \in SegmentIds /\ m.segments \in [SegmentIds -> Bodies \cup {None}]
  BY DEF Manifest
<1> HIDE DEF n, c, d, added, old, new, late
<1>9. n.next_document = d + c /\ n.segments = [m.segments EXCEPT ![m.next_segment] = batch]
  BY AppendRecords DEF n, c, d
<1>10. n.segments[m.next_segment] = batch
       /\ \A s \in SegmentIds \ {m.next_segment} : n.segments[s] = m.segments[s]
  BY <1>8, <1>9
<1>11. late \in Seq(Entry) /\ Len(late) = c
  <2>1. late \in [1 .. c -> Entry]
    BY <1>6 DEF Document, Entry
  <2> QED
    BY <1>1, <2>1
<1>12. ASSUME NEW i \in 1 .. d PROVE new[i] = old[i]
  <2>1. i \in 1 .. n.next_document
    BY <1>1, <1>3, <1>9
  <2>2. i - 1 \in Recorded(m) /\ n.documents[i - 1] = m.documents[i - 1]
    <3>1. i - 1 \in Recorded(m)
      BY <1>3
    <3>2. QED
      BY <3>1, AppendKeepsRecords DEF n
  <2>3. ~m.documents[i - 1].deleted => Text(n, i - 1) = Text(m, i - 1)
    <3>1. SUFFICES ASSUME i - 1 \in Live(m) PROVE Text(n, i - 1) = Text(m, i - 1)
      BY <2>2, EntryOf
    <3>2. /\ m.documents[i - 1].segment \in SegmentIds
          /\ m.documents[i - 1].segment # m.next_segment
      <4>1. m.next_segment \in Nat
        BY <1>8 DEF SegmentIds
      <4> QED
        BY <3>1, <4>1, LiveRecord
    <3> QED
      BY <1>10, <2>2, <3>2 DEF Text
  <2>4. old[i] = [path |-> m.documents[i - 1].path,
                  text |-> IF m.documents[i - 1].deleted THEN None ELSE Text(m, i - 1)]
    BY HistoryEntry DEF old, d
  <2>5. new[i] = [path |-> n.documents[i - 1].path,
                  text |-> IF n.documents[i - 1].deleted THEN None ELSE Text(n, i - 1)]
    BY <2>1, HistoryEntry DEF new
  <2>6. m.documents[i - 1].deleted \in BOOLEAN
    BY <2>2, EntryOf
  <2> QED
    BY <2>2, <2>3, <2>4, <2>5, <2>6
<1>13. ASSUME NEW i \in d + 1 .. d + c PROVE new[i] = late[i - d]
  <2>1. /\ i - d \in 1 .. c /\ (i - d) - 1 = (i - 1) - d /\ i - 1 \in added
        /\ i \in 1 .. n.next_document /\ (i - 1) - d \in 0 .. c - 1
    BY <1>1, <1>2, <1>3, <1>9
  <2>2. n.documents[i - 1] =
          [path |-> batch[(i - 1) - d].path, deleted |-> FALSE,
           segment |-> m.next_segment, local |-> (i - 1) - d]
    BY <2>1, AppendRecords DEF n, added, d
  <2>3. Text(n, i - 1) = batch[(i - 1) - d].text
    BY <1>10, <2>2 DEF Text
  <2>4. new[i] = [path |-> n.documents[i - 1].path,
                  text |-> IF n.documents[i - 1].deleted THEN None ELSE Text(n, i - 1)]
    BY <2>1, HistoryEntry DEF new
  <2>5. new[i] = [path |-> batch[(i - 1) - d].path, text |-> batch[(i - 1) - d].text]
    BY <2>2, <2>3, <2>4
  <2>6. batch[(i - 1) - d] \in Document
    BY <1>1, <2>1
  <2>7. batch[(i - 1) - d] =
          [path |-> batch[(i - 1) - d].path, text |-> batch[(i - 1) - d].text]
    BY <2>6 DEF Document
  <2> QED
    BY <1>7, <2>1, <2>5, <2>7
<1>14. new = old \o late
  <2>1. /\ old \o late \in Seq(Entry) /\ Len(old \o late) = d + c
        /\ \A i \in 1 .. d + c :
             (old \o late)[i] = IF i <= d THEN old[i] ELSE late[i - d]
    BY <1>3, <1>11, ConcatProperties
  <2>2. ASSUME NEW i \in 1 .. d + c PROVE new[i] = (old \o late)[i]
    <3>1. CASE i <= d
      BY <1>1, <1>3, <1>12, <2>1, <3>1
    <3>2. CASE ~(i <= d)
      <4>1. i \in d + 1 .. d + c
        BY <1>1, <1>3, <3>2
      <4> QED
        BY <1>13, <2>1, <3>2, <4>1
    <3> QED
      BY <3>1, <3>2
  <2> QED
    BY <1>5, <1>9, <2>1, <2>2, SeqEqual
<1>15. ASSUME NEW i \in 1 .. c PROVE late[i].path \notin PathsIn(old)
  <2>1. i - 1 \in DOMAIN batch /\ late[i] = batch[i - 1]
    BY <1>1, <1>7
  <2>2. batch[i - 1].path \notin LivePaths(m)
    BY <2>1 DEF AcceptableBatch
  <2> QED
    BY <1>3, <2>1, <2>2
<1>16. ASSUME NEW i \in 1 .. c, NEW j \in 1 .. c, late[i].path = late[j].path PROVE i = j
  <2>1. i - 1 = j - 1
    BY <1>1, <1>7, <1>16 DEF AcceptableBatch
  <2> QED
    BY <2>1
<1> QED
  BY <1>1, <1>6, <1>14, <1>15, <1>16 DEF Grows, n, old, new

LEMMA DeleteHistory ==
  ASSUME NEW m \in Manifest, ValidManifest(m), Dense(m),
         NEW requested \in SUBSET LivePaths(m), requested # {},
         AfterDelete(m, requested) # None
  PROVE  Shrinks(HistoryOf(m), HistoryOf(AfterDelete(m, requested)))
<1> DEFINE n == AfterDelete(m, requested)
           d == m.next_document
           old == HistoryOf(m)
           new == HistoryOf(n)
           rest == [i \in DOMAIN old |-> IF old[i].path \in requested
                                         THEN [old[i] EXCEPT !.text = None]
                                         ELSE old[i]]
<1>1. /\ d \in Nat /\ old \in [1 .. d -> Entry]
      /\ \A i \in 1 .. d : i - 1 \in Recorded(m)
      /\ PathsIn(old) = LivePaths(m)
  BY HistoryType
<1>2. n \in Manifest /\ ValidManifest(n) /\ Dense(n)
  BY DeleteType, DeleteValid
<1> HIDE DEF n, d, old, new
<1>3. n.next_document = d /\ n.segments = m.segments
  BY DeleteRecords DEF n, d
<1>4. new \in [1 .. d -> Entry]
  BY <1>2, <1>3, HistoryType DEF new
<1>5. ASSUME NEW i \in 1 .. d PROVE new[i] = rest[i]
  <2>1. /\ i - 1 \in Recorded(m) /\ m.documents[i - 1].deleted \in BOOLEAN
        /\ m.documents[i - 1].deleted <=> i - 1 \notin Live(m)
        /\ m.documents[i - 1] \in Record
    BY <1>1, EntryOf DEF Recorded, Manifest
  <2>2. old[i] = [path |-> m.documents[i - 1].path,
                  text |-> IF m.documents[i - 1].deleted THEN None ELSE Text(m, i - 1)]
    BY HistoryEntry DEF old, d
  <2>3. new[i] = [path |-> n.documents[i - 1].path,
                  text |-> IF n.documents[i - 1].deleted THEN None ELSE Text(n, i - 1)]
    BY <1>3, HistoryEntry DEF new
  <2>4. rest[i] = IF m.documents[i - 1].path \in requested
                  THEN [path |-> m.documents[i - 1].path, text |-> None]
                  ELSE old[i]
    BY <1>1, <2>2
  <2>5. CASE i - 1 \in Live(m) /\ m.documents[i - 1].path \in requested
    <3>1. n.documents[i - 1] = Tombstone(m.documents[i - 1])
      BY <2>1, <2>5, DeleteRecords DEF n
    <3>2. n.documents[i - 1].deleted /\ n.documents[i - 1].path = m.documents[i - 1].path
      BY <2>1, <3>1, TombstoneType
    <3> QED
      BY <2>3, <2>4, <2>5, <3>2
  <2>6. CASE ~(i - 1 \in Live(m) /\ m.documents[i - 1].path \in requested)
    <3>1. n.documents[i - 1] = m.documents[i - 1]
      BY <2>1, <2>6, DeleteRecords DEF n
    <3>2. Text(n, i - 1) = Text(m, i - 1)
      BY <1>3, <3>1 DEF Text
    <3>3. new[i] = old[i]
      BY <2>1, <2>2, <2>3, <3>1, <3>2
    <3> QED
      BY <2>1, <2>2, <2>4, <2>6, <3>3
  <2> QED
    BY <2>5, <2>6
<1>6. new = rest
  <2>1. DOMAIN rest = 1 .. d /\ rest = [i \in DOMAIN rest |-> rest[i]]
    BY <1>1
  <2> HIDE DEF rest
  <2> QED
    BY <1>4, <1>5, <2>1
<1> QED
  BY <1>1, <1>6 DEF Shrinks, n, old, new

LEMMA CompactHistory ==
  ASSUME NEW m \in Manifest, ValidManifest(m), Dense(m), AfterCompact(m) # None,
         AfterCompact(m) \in Manifest, Live(m) # {} => CompactedBody(m) \in Bodies,
         \A s \in Listed(m) : files[s] = m.segments[s]
  PROVE  HistoryOf(AfterCompact(m)) = HistoryOf(m)
<1> DEFINE n == AfterCompact(m)
           d == m.next_document
<1>1. /\ d \in Nat /\ HistoryOf(m) \in Seq(Entry) /\ Len(HistoryOf(m)) = d
      /\ \A i \in 1 .. d : i - 1 \in Recorded(m)
  BY HistoryType
<1>2. n \in Manifest /\ ValidManifest(n) /\ Dense(n)
  BY CompactValid
<1>3. m.next_segment \in SegmentIds
  BY DEF Manifest
<1> HIDE DEF n, d
<1>4. /\ n.next_document = d
      /\ n.segments = [s \in SegmentIds |-> IF Live(m) # {} /\ s = m.next_segment
                                            THEN CompactedBody(m)
                                            ELSE None]
  BY CompactRecords DEF n, d
<1>5. ASSUME NEW i \in 1 .. d PROVE HistoryOf(n)[i] = HistoryOf(m)[i]
  <2>1. /\ i - 1 \in Recorded(m) /\ m.documents[i - 1].deleted \in BOOLEAN
        /\ m.documents[i - 1].deleted <=> i - 1 \notin Live(m)
        /\ m.documents[i - 1] \in Record
    BY <1>1, EntryOf DEF Recorded, Manifest
  <2>2. HistoryOf(m)[i] = [path |-> m.documents[i - 1].path,
                           text |-> IF m.documents[i - 1].deleted THEN None
                                                                  ELSE Text(m, i - 1)]
    BY HistoryEntry DEF d
  <2>3. HistoryOf(n)[i] = [path |-> n.documents[i - 1].path,
                           text |-> IF n.documents[i - 1].deleted THEN None
                                                                  ELSE Text(n, i - 1)]
    BY <1>4, HistoryEntry
  <2>4. CASE i - 1 \in Live(m)
    <3>1. /\ n.documents[i - 1].path = m.documents[i - 1].path
          /\ n.documents[i - 1].deleted = m.documents[i - 1].deleted
          /\ n.documents[i - 1].segment = m.next_segment
          /\ n.documents[i - 1].local = Rank(m, i - 1)
      BY <2>4, CompactRecords DEF n
    <3>2. n.segments[m.next_segment] = CompactedBody(m)
      BY <1>3, <1>4, <2>4
    <3>3. CompactedBody(m)[Rank(m, i - 1)].text = LoadedText(m, i - 1)
      <4>1. CompactedBody(m)[Rank(m, i - 1)] =
              [path |-> m.documents[i - 1].path, text |-> LoadedText(m, i - 1)]
        BY <2>4, CompactedDocument
      <4> QED
        BY <4>1
    <3>4. LoadedText(m, i - 1) = Text(m, i - 1)
      BY <2>4, LiveRecord DEF LoadedText, Text
    <3>5. Text(n, i - 1) = Text(m, i - 1)
      BY <3>1, <3>2, <3>3, <3>4 DEF Text
    <3> QED
      BY <2>2, <2>3, <3>1, <3>5
  <2>5. CASE i - 1 \notin Live(m)
    <3>1. n.documents[i - 1] = Tombstone(m.documents[i - 1])
      BY <2>1, <2>5, CompactRecords DEF n
    <3>2. n.documents[i - 1].deleted /\ n.documents[i - 1].path = m.documents[i - 1].path
      BY <2>1, <3>1, TombstoneType
    <3> QED
      BY <2>1, <2>2, <2>3, <2>5, <3>2
  <2> QED
    BY <2>4, <2>5
<1> QED
  BY <1>1, <1>2, <1>4, <1>5, HistoriesEqual DEF n

\* The update a writer is about to publish, when rename replaces a file at once.
StoreInv ==
  \A h \in Handles :
    /\ pc[h] # "reinstall"
    /\ pc[h] \in {"save", "install"} /\ next[h] # None /\ mem[h] # None =>
         Updates(HistoryOf(mem[h]), HistoryOf(next[h]))

LEMMA StoreInit == Init => StoreInv
BY DEF Init, StoreInv

LEMMA StoreStep ==
  ASSUME ~RenameMayRefuse
  PROVE  TypeInv /\ IndInv /\ PlansInv /\ StoreInv /\ [Next]_vars => StoreInv'
<1> SUFFICES ASSUME TypeInv, IndInv, PlansInv, StoreInv, [Next]_vars PROVE StoreInv'
  OBVIOUS
<1>1. TypeOK
  BY DEF TypeInv
<1> DEFINE Good(h) == /\ pc[h] # "reinstall"
                      /\ pc[h] \in {"save", "install"} /\ next[h] # None /\ mem[h] # None =>
                           Updates(HistoryOf(mem[h]), HistoryOf(next[h]))
<1>2. /\ \A h \in Handles : Good(h)
      /\ StoreInv' = \A h \in Handles : Good(h)'
  BY DEF StoreInv
<1>3. ASSUME NEW k \in Handles, pc'[k] = pc[k], mem'[k] = mem[k], next'[k] = next[k]
      PROVE  Good(k)'
  BY <1>2, <1>3
<1>4. ASSUME NEW k \in Handles, pc'[k] \notin {"save", "install", "reinstall"}
      PROVE  Good(k)'
  BY <1>4
<1>5. ASSUME NEW k \in Handles, pc'[k] \in {"save", "install"},
             next'[k] # None /\ mem'[k] # None =>
               Updates(HistoryOf(mem'[k]), HistoryOf(next'[k]))
      PROVE  Good(k)'
  <2>1. HistoryOf(mem[k])' = HistoryOf(mem'[k]) /\ HistoryOf(next[k])' = HistoryOf(next'[k])
    BY DEF HistoryOf, Text
  <2> QED
    BY <1>5, <2>1 DEF Updates, Grows, Shrinks, PathsIn
<1> HIDE DEF Good
<1>6. ASSUME NEW h \in Handles, Good(h)',
             \A k \in Handles \ {h} :
               pc'[k] = pc[k] /\ mem'[k] = mem[k] /\ next'[k] = next[k]
      PROVE  StoreInv'
  BY <1>2, <1>3, <1>6
<1>7. ASSUME NEW h \in Handles, Abandon(h), UNCHANGED mem PROVE StoreInv'
  <2>1. pc'[h] = "finish" /\ \A k \in Handles \ {h} :
          pc'[k] = pc[k] /\ mem'[k] = mem[k] /\ next'[k] = next[k]
    BY <1>1, <1>7 DEF Abandon, NoPlan, Plan, Goto, TypeOK
  <2> QED
    BY <1>4, <1>6, <2>1
<1>8. ASSUME NEW h \in Handles, NEW n, NEW label \in {"save", "install"}, UNCHANGED mem,
             next' = [next EXCEPT ![h] = n], Goto(h, label),
             n # None /\ mem[h] # None => Updates(HistoryOf(mem[h]), HistoryOf(n))
      PROVE  StoreInv'
  <2>1. /\ pc'[h] = label /\ next'[h] = n /\ mem'[h] = mem[h]
        /\ \A k \in Handles \ {h} :
             pc'[k] = pc[k] /\ mem'[k] = mem[k] /\ next'[k] = next[k]
    BY <1>1, <1>8 DEF Goto, TypeOK
  <2> QED
    BY <1>5, <1>6, <1>8, <2>1
<1>9. ASSUME NEW h \in Handles,
             \/ Open(h) \/ Probe(h) \/ Refused(h) \/ LeakLock(h) \/ Release(h)
             \/ StartSearch(h) \/ EndSearch(h) \/ Crash(h) \/ Install(h) \/ InstallFails(h)
             \/ \E label \in {"scan", "append", "delete", "compact"} : Acquire(h, label)
      PROVE  StoreInv'
  <2>1. /\ pc'[h] \notin {"save", "install", "reinstall"}
        /\ \A k \in Handles \ {h} :
             pc'[k] = pc[k] /\ mem'[k] = mem[k] /\ next'[k] = next[k]
    BY <1>1, <1>9 DEF Open, Probe, Refused, LeakLock, Release, StartSearch, EndSearch,
         Crash, Install, Installed, InstallFails, Acquire, Goto, Rest, NoPlan, Plan, TypeOK
  <2> QED
    BY <1>4, <1>6, <2>1
<1>10. ASSUME NEW h \in Handles, SaveFails(h) \/ Reject(h) \/ Undo(h) PROVE StoreInv'
  BY <1>7, <1>10 DEF SaveFails, Reject, Undo
<1>11. ASSUME NEW h \in Handles, DisplaceOrphan(h) \/ Sweep(h) \/ ReadSegment(h)
       PROVE  StoreInv'
  BY <1>2, <1>3, <1>11 DEF DisplaceOrphan, Sweep, ReadSegment, local
<1>12. ASSUME NEW h \in Handles,
              RemoveForReplace(h) \/ Reinstall(h) \/ ReinstallFails(h)
       PROVE  FALSE
  BY <1>2, <1>12 DEF RemoveForReplace, Reinstall, ReinstallFails, Good
<1>13. ASSUME NEW h \in Handles, Save(h) PROVE StoreInv'
  <2>1. /\ next[h] # None /\ mem[h] # None => Updates(HistoryOf(mem[h]), HistoryOf(next[h]))
        /\ next' = [next EXCEPT ![h] = next[h]]
    BY <1>1, <1>2, <1>13 DEF Save, Good, TypeOK
  <2> QED
    BY <1>8, <1>13, <2>1 DEF Save
<1>14. ASSUME NEW h \in Handles, PlanCreate(h) PROVE StoreInv'
  <2>1. CASE Abandon(h)
    BY <1>7, <1>14, <2>1 DEF PlanCreate
  <2>2. CASE ~Abandon(h)
    <3>1. EmptyDirectory /\ next' = [next EXCEPT ![h] = EmptyManifest] /\ Goto(h, "install")
          /\ UNCHANGED mem
      BY <1>14, <2>2 DEF PlanCreate, Plan
    <3>2. mem[h] = None
      BY <1>2, <3>1 DEF EmptyDirectory, IndInv, LostInv, Good
    <3> QED
      BY <1>8, <3>1, <3>2
  <2> QED
    BY <2>1, <2>2
<1>15. ASSUME NEW h \in Handles, pc[h] \in {"append", "delete", "compact"}
       PROVE  /\ mem[h] \in Manifest /\ mem[h] # None
              /\ ValidManifest(mem[h]) /\ Dense(mem[h])
  BY <1>15 DEF TypeInv, TypeOK, HandleInv, PlansInv
<1>16. ASSUME NEW h \in Handles, PlanAppend(h) PROVE StoreInv'
  <2>1. CASE Abandon(h)
    BY <1>7, <1>16, <2>1 DEF PlanAppend
  <2>2. ASSUME NEW batch \in Batches, AcceptableBatch(mem[h], batch), Goto(h, "save"),
               Plan(h, AfterAppend(mem[h], batch), mem[h].next_segment, batch, {})
        PROVE  StoreInv'
    <3>1. AfterAppend(mem[h], batch) # None =>
            Updates(HistoryOf(mem[h]), HistoryOf(AfterAppend(mem[h], batch)))
      BY <1>15, <1>16, <2>2, AppendHistory DEF PlanAppend, Updates
    <3> QED
      BY <1>8, <1>16, <2>2, <3>1 DEF PlanAppend, Plan
  <2> QED
    BY <1>16, <2>1, <2>2 DEF PlanAppend
<1>17. ASSUME NEW h \in Handles, PlanDelete(h) PROVE StoreInv'
  <2>1. CASE Abandon(h)
    BY <1>7, <1>17, <2>1 DEF PlanDelete
  <2>2. ASSUME NEW requested \in SUBSET LivePaths(mem[h]), requested # {},
               Plan(h, AfterDelete(mem[h], requested), None, None, {}), Goto(h, "install")
        PROVE  StoreInv'
    <3>1. AfterDelete(mem[h], requested) # None =>
            Updates(HistoryOf(mem[h]), HistoryOf(AfterDelete(mem[h], requested)))
      BY <1>15, <1>17, <2>2, DeleteHistory DEF PlanDelete, Updates
    <3> QED
      BY <1>8, <1>17, <2>2, <3>1 DEF PlanDelete, Plan
  <2> QED
    BY <1>17, <2>1, <2>2 DEF PlanDelete
<1>18. ASSUME NEW h \in Handles, PlanCompact(h) PROVE StoreInv'
  <2>1. CASE Abandon(h)
    BY <1>7, <1>18, <2>1 DEF PlanCompact
  <2>2. CASE ~Abandon(h)
    <3>1. /\ Current(h) /\ Loadable(mem[h]) /\ UNCHANGED mem
          /\ next' = [next EXCEPT ![h] = AfterCompact(mem[h])]
          /\ Goto(h, "install") \/ Goto(h, "save")
      BY <1>18, <2>2 DEF PlanCompact, Plan
    <3>2. mem[h] \in Manifest /\ mem[h] # None /\ ValidManifest(mem[h]) /\ Dense(mem[h])
      BY <1>15, <1>18 DEF PlanCompact
    <3>3. \A s \in Listed(mem[h]) : files[s] = mem[h].segments[s]
      BY <3>1, <3>2, CurrentManifest DEF IndInv, Authoritative
    <3>4. /\ AfterCompact(mem[h]) \in Manifest \cup {None}
          /\ Live(mem[h]) # {} => CompactedBody(mem[h]) \in Bodies
      BY <3>1, <3>2, PlanTypes
    <3>5. AfterCompact(mem[h]) # None =>
            HistoryOf(AfterCompact(mem[h])) = HistoryOf(mem[h])
      BY <3>2, <3>3, <3>4, CompactHistory
    <3> QED
      BY <1>8, <3>1, <3>5 DEF Updates
  <2> QED
    BY <2>1, <2>2
<1>19. CASE RemoveOrphanedLock \/ UNCHANGED vars
  BY <1>2, <1>3, <1>19 DEF RemoveOrphanedLock, vars, local
<1> QED
  BY <1>9, <1>10, <1>11, <1>12, <1>13, <1>14, <1>16, <1>17, <1>18, <1>19
  DEF Next, Step, Call

\* What is on disk is the history the manifest tells.
LEMMA HistoryIsTold ==
  TypeInv /\ IndInv /\ PlansInv =>
    History = IF manifest = None THEN None ELSE HistoryOf(manifest)
<1> SUFFICES ASSUME TypeInv, IndInv, PlansInv, manifest # None
             PROVE  History = HistoryOf(manifest)
  BY DEF History
<1>1. /\ manifest \in Manifest /\ ValidManifest(manifest) /\ Dense(manifest)
      /\ \A s \in Listed(manifest) : files[s] = manifest.segments[s]
  BY DEF TypeInv, TypeOK, IndInv, DiskInv, Authoritative, PlansInv
<1> DEFINE d == manifest.next_document
           r(i) == manifest.documents[i - 1]
           text(i) == IF r(i).deleted THEN None
                      ELSE IF files[r(i).segment] = None THEN "lost"
                      ELSE files[r(i).segment][r(i).local].text
<1>2. ASSUME NEW i \in 1 .. d
      PROVE  text(i) = IF r(i).deleted THEN None ELSE Text(manifest, i - 1)
  <2>1. i - 1 \in Recorded(manifest)
    BY <1>1, HistoryType
  <2>2. CASE i - 1 \in Live(manifest)
    <3>1. /\ files[r(i).segment] = manifest.segments[r(i).segment]
          /\ files[r(i).segment] # None
      BY <1>1, <2>2, LiveRecord, NoneAssumption
    <3> QED
      BY <3>1 DEF Text
  <2>3. CASE i - 1 \notin Live(manifest)
    <3>1. r(i).deleted
      BY <1>1, <2>1, <2>3, EntryOf
    <3> QED
      BY <3>1
  <2> QED
    BY <2>2, <2>3
<1>3. History = [i \in 1 .. d |-> [path |-> r(i).path, text |-> text(i)]]
  BY DEF History
<1>4. HistoryOf(manifest) =
        [i \in 1 .. d |-> [path |-> r(i).path,
                           text |-> IF r(i).deleted THEN None ELSE Text(manifest, i - 1)]]
  BY DEF HistoryOf
<1> HIDE DEF d, r, text
<1> QED
  BY <1>2, <1>3, <1>4

LEMMA EmptyHistory == HistoryOf(EmptyManifest) = << >>
<1>1. /\ HistoryOf(EmptyManifest) \in Seq(Entry)
      /\ Len(HistoryOf(EmptyManifest)) = EmptyManifest.next_document
  BY EmptyManifestType, EmptyIsDense, HistoryType
<1>2. EmptyManifest.next_document = 0
  BY DEF EmptyManifest
<1> QED
  BY <1>1, <1>2, SeqEqual, EmptySeq

\* The manifest on disk changes only when a writer installs its plan.
LEMMA OnlyInstalled ==
  ASSUME ~RenameMayRefuse, StoreInv, [Next]_vars, manifest' # manifest
  PROVE  \E h \in Handles : Install(h)
<1>1. ASSUME NEW h \in Handles, Reinstall(h) \/ RemoveForReplace(h) PROVE FALSE
  BY <1>1 DEF Reinstall, RemoveForReplace, StoreInv
<1>2. ASSUME NEW h \in Handles,
             \/ Refused(h) \/ Release(h) \/ PlanCreate(h) \/ PlanAppend(h)
             \/ PlanDelete(h) \/ PlanCompact(h) \/ Save(h) \/ DisplaceOrphan(h)
             \/ SaveFails(h) \/ Reject(h) \/ InstallFails(h) \/ ReinstallFails(h)
             \/ Undo(h) \/ Sweep(h) \/ ReadSegment(h) \/ EndSearch(h)
             \/ Open(h) \/ Probe(h) \/ LeakLock(h) \/ StartSearch(h) \/ Crash(h)
             \/ \E label : Acquire(h, label)
      PROVE  FALSE
  BY <1>2 DEF Refused, Release, PlanCreate, PlanAppend, PlanDelete, PlanCompact,
       Save, DisplaceOrphan, SaveFails, Reject, InstallFails, ReinstallFails, Undo,
       Sweep, ReadSegment, EndSearch, Open, Probe, LeakLock, StartSearch, Crash,
       Acquire, disk
<1>3. CASE RemoveOrphanedLock \/ UNCHANGED vars
  BY <1>3 DEF RemoveOrphanedLock, vars, disk
<1> QED
  BY <1>1, <1>2, <1>3 DEF Next, Step, Call

LEMMA StoreUpdates ==
  ASSUME NEW old, NEW new, Updates(old, new), old # None, History = old, History' = new
  PROVE  [Store!Next]_History
<1>1. Store!LivePaths = PathsIn(old)
  <2>1. Store!LivePaths = PathsIn(History)
    BY DEF Store!LivePaths, PathsIn
  <2> QED
    BY <2>1
<1>2. Store!Stored(Texts) = Document
  BY DEF Store!Stored, Document
<1>3. CASE Grows(old, new)
  <2>1. PICK n \in 1 .. MaxBatch : \E batch \in [1 .. n -> Document] :
          /\ \A i \in 1 .. n : batch[i].path \notin PathsIn(old)
          /\ \A i, j \in 1 .. n : batch[i].path = batch[j].path => i = j
          /\ new = old \o batch
    BY <1>3 DEF Grows
  <2>2. PICK batch \in [1 .. n -> Document] :
          /\ \A i \in 1 .. n : batch[i].path \notin PathsIn(old)
          /\ \A i, j \in 1 .. n : batch[i].path = batch[j].path => i = j
          /\ new = old \o batch
    BY <2>1
  <2>3. batch \in [1 .. n -> Store!Stored(Texts)]
    BY <1>2
  <2>4. \A i \in 1 .. n : batch[i].path \notin Store!LivePaths
    BY <1>1, <2>2
  <2>5. History' = History \o batch
    BY <2>2
  <2>6. Store!Add
    BY <2>2, <2>3, <2>4, <2>5 DEF Store!Add
  <2> QED
    BY <2>6 DEF Store!Next
<1>4. CASE Shrinks(old, new)
  <2>1. PICK requested \in SUBSET PathsIn(old) :
          /\ requested # {}
          /\ new = [i \in DOMAIN old |-> IF old[i].path \in requested
                                         THEN [old[i] EXCEPT !.text = None]
                                         ELSE old[i]]
    BY <1>4 DEF Shrinks
  <2>2. requested \in SUBSET Store!LivePaths
    BY <1>1
  <2>3. History' = [i \in DOMAIN History |-> IF History[i].path \in requested
                                             THEN [History[i] EXCEPT !.text = None]
                                             ELSE History[i]]
    BY <2>1
  <2>4. Store!Remove
    BY <2>1, <2>2, <2>3 DEF Store!Remove
  <2> QED
    BY <2>4 DEF Store!Next
<1> QED
  BY <1>3, <1>4 DEF Updates

LEMMA HistoryIsSome ==
  ASSUME NEW m \in Manifest, ValidManifest(m), Dense(m) PROVE HistoryOf(m) # None
<1>1. /\ HistoryOf(m) \in Seq(Entry)
      /\ Len(HistoryOf(m)) = m.next_document
      /\ m.next_document \in DocumentIds
  BY HistoryType DEF Manifest
<1>2. HistoryOf(m) \in [1 .. m.next_document -> Entry]
  BY <1>1
<1>3. HistoryOf(m) \in Histories
  BY <1>1, <1>2 DEF Histories, Entry
<1> QED
  BY <1>3, NoneAssumption

\* The directory implements the document store: whatever the writers, readers,
\* failures and crashes do, the history changes only by whole batches and whole
\* deletions, each at the one instant a manifest replaces another.  A rename
\* replaces its target here, as rename(2) does: RenameMayRefuse is FALSE.
THEOREM DirectoryIsStore ==
  ASSUME ~RenameMayRefuse
  PROVE  Spec => ImplementsStore
<1>1. Init => Store!Init
  BY DEF Init, History, Store!Init
<1>2. ASSUME TypeInv, IndInv, PlansInv, StoreInv, [Next]_vars,
             (TypeInv /\ IndInv /\ PlansInv)'
      PROVE  [Store!Next]_History
  <2>1. History = IF manifest = None THEN None ELSE HistoryOf(manifest)
    BY <1>2, HistoryIsTold
  <2>2. History' = IF manifest' = None THEN None ELSE HistoryOf(manifest')
    <3>1. (TypeInv /\ IndInv /\ PlansInv)' =>
            (History = IF manifest = None THEN None ELSE HistoryOf(manifest))'
      BY HistoryIsTold, PTL
    <3>2. HistoryOf(manifest)' = HistoryOf(manifest')
      BY DEF HistoryOf, Text
    <3> QED
      BY <1>2, <3>1, <3>2
  <2>3. CASE manifest' = manifest
    BY <2>1, <2>2, <2>3
  <2>4. CASE manifest' # manifest
    <3>1. PICK h \in Handles : Install(h)
      BY <1>2, <2>4, OnlyInstalled
    <3>2. pc[h] = "install" /\ next[h] # None /\ manifest' = next[h]
      BY <3>1 DEF Install, Installed, Publishable
    <3>3. CASE CreateInv(h)
      <4>1. History = None /\ History' = << >>
        BY <2>1, <2>2, <3>2, <3>3, EmptyHistory DEF CreateInv
      <4> QED
        BY <4>1 DEF Store!Next, Store!Create
    <3>4. CASE manifest = mem[h] /\ UpdateInv(h)
      <4>1. mem[h] # None /\ Updates(HistoryOf(mem[h]), HistoryOf(next[h]))
        BY <1>2, <3>2, <3>4 DEF UpdateInv, StoreInv
      <4>2. HistoryOf(mem[h]) # None
        BY <1>2, <3>4, <4>1, HistoryIsSome
           DEF TypeInv, TypeOK, IndInv, DiskInv, Authoritative, PlansInv
      <4>3. History = HistoryOf(mem[h]) /\ History' = HistoryOf(next[h])
        BY <2>1, <2>2, <3>2, <3>4, <4>1
      <4> QED
        BY <4>1, <4>2, <4>3, StoreUpdates
    <3> QED
      BY <1>2, <3>2, <3>3, <3>4 DEF IndInv, WriterInv, ControlInv
  <2> QED
    BY <2>3, <2>4
<1>3. Spec => [](TypeInv /\ IndInv /\ PlansInv /\ StoreInv)
  BY Invariant, StoreInit, StoreStep, PTL DEF Spec
<1> QED
  BY <1>1, <1>2, <1>3, PTL DEF Spec, ImplementsStore, Store!Spec
=============================================================================
