--------------------------- MODULE RetrievalProofs ---------------------------
(***************************************************************************)
(* Proofs about compound indexes that are saved and loaded (CompoundIndex) *)
(* and about the lanes a query may take (SearchLanes).                     *)
(***************************************************************************)
EXTENDS CompoundIndex, SearchLanes, OverlapEngineProofs

-----------------------------------------------------------------------------
(* Loading: the inductive invariant *)

Count == IF Hybrid THEN 2 ELSE Len(scenario.config.views)

Held == scenario.collections \cup {Absent}

SaverStates ==
    {Idle, [step |-> "saved"], [step |-> "dead"]}
        \cup [step : {"components", "removed"}, next : 1..(Count + 1), of : scenario.collections]

Readings == [manifest : Held, components : Seq(Held), settled : Held]

DirectoryType ==
    /\ scenario \in Scenarios
    /\ files \in [Components -> Held] /\ manifest \in Held /\ settled \in Held
    /\ saver \in [Savers -> SaverStates] /\ raced \in BOOLEAN
    /\ loading # Absent => loading \in Readings /\ Len(loading.components) =< Count

\* Unless savers overlapped, there is one, and the components it has written
\* are its collection's.
WritingInv ==
    /\ \A p \in Savers : saver[p].step = "removed" => saver[p].next = Count + 1
    /\ ~raced =>
            /\ \A p, q \in Saving : p = q
            /\ \A p \in Saving : \A k \in Components :
                    k < saver[p].next => files[k] = saver[p].of

\* A settled directory is nobody's to write, and all of it is of one collection.
SettledInv ==
    settled # Absent =>
        /\ Saving = {} /\ manifest = settled
        /\ \A k \in Components : files[k] = settled

LoadingInv == loading # Absent /\ loading.settled # Absent => Exactly(loading)

HandleInv ==
    handle # Absent =>
        /\ OneIdentity(handle) /\ (Hybrid => Paths(handle.manifest) = Paths(handle.components[1]))
        /\ handle.settled # Absent => Exactly(handle)

LoadsInv == DirectoryType /\ WritingInv /\ SettledInv /\ LoadingInv /\ HandleInv

-----------------------------------------------------------------------------
(* Loading: lemmas *)

\* The components are numbered from one.
LEMMA Numbered ==
    ASSUME scenario \in Scenarios
    PROVE  Count \in Nat /\ Components = 1..Count
BY ScenariosAssumption DEF Count, Components, Hybrid

\* What a process that saves has in hand.
LEMMA InHand ==
    ASSUME DirectoryType, NEW p \in Savers
    PROVE  /\ p \in Saving <=> saver[p].step \in {"components", "removed"}
           /\ p \in Saving => /\ saver[p].next \in 1..(Count + 1)
                              /\ saver[p].of \in scenario.collections
                              /\ saver[p] = [step |-> saver[p].step, next |-> saver[p].next,
                                             of |-> saver[p].of]
<1>1. saver[p] \in SaverStates
  BY DEF DirectoryType
<1>2. CASE saver[p] \in {Idle, [step |-> "saved"], [step |-> "dead"]}
  BY <1>2 DEF Idle, Saving
<1>3. CASE saver[p] \in [step : {"components", "removed"}, next : 1..(Count + 1), of : scenario.collections]
  BY <1>3 DEF Saving
<1>4. QED
  BY <1>1, <1>2, <1>3 DEF SaverStates

\* At the start no save and no load has begun, so the invariant holds.
LEMMA Initially == CompoundInit => LoadsInv
<1> SUFFICES ASSUME CompoundInit
             PROVE  LoadsInv
  OBVIOUS
<1>1. DirectoryType
  BY DEF CompoundInit, DirectoryType, Held, SaverStates
<1>2. Saving = {}
  BY DEF CompoundInit, Saving, Idle
<1>3. WritingInv /\ SettledInv
  BY <1>2 DEF CompoundInit, WritingInv, SettledInv, Idle
<1>4. LoadingInv /\ HandleInv
  BY DEF CompoundInit, LoadingInv, HandleInv
<1>5. QED
  BY <1>1, <1>3, <1>4 DEF LoadsInv

\* What was loaded does not depend on the directory.
LEMMA LoadsAlone ==
    ASSUME LoadsInv, UNCHANGED <<scenario, loading, handle>>
    PROVE  LoadingInv' /\ HandleInv'
<1>1. Hybrid' = Hybrid
  BY DEF Hybrid
<1>2. \A c : Paths(c)' = Paths(c) /\ Lengths(c)' = Lengths(c)
  BY DEF Paths, Lengths, MappedSeq
<1>3. OneIdentity(handle)' = OneIdentity(handle)
  BY <1>1, <1>2 DEF OneIdentity
<1>4. Exactly(handle)' = Exactly(handle) /\ Exactly(loading)' = Exactly(loading)
  BY DEF Exactly
<1>5. QED
  BY <1>1, <1>2, <1>3, <1>4 DEF LoadsInv, LoadingInv, HandleInv

\* The sets that depend on the scenario alone.
LEMMA ScenarioAlone ==
    ASSUME UNCHANGED scenario
    PROVE  /\ Count' = Count /\ Held' = Held /\ SaverStates' = SaverStates
           /\ Readings' = Readings /\ Components' = Components /\ Hybrid' = Hybrid
BY DEF Count, Held, SaverStates, Readings, Components, Hybrid, Idle

-----------------------------------------------------------------------------
(* Saving *)

\* Beginning a save keeps the invariant.
LEMMA BeginSaveStep ==
    ASSUME LoadsInv, NEW p \in Savers, BeginSave(p)
    PROVE  LoadsInv'
<1>1. PICK c \in scenario.collections :
             saver' = [saver EXCEPT ![p] = [step |-> "components", next |-> 1, of |-> c]]
  BY DEF BeginSave
<1>2. /\ saver[p] = Idle /\ raced' = (Saving # {}) /\ settled' = Absent
      /\ UNCHANGED <<scenario, files, manifest, loading, handle>>
  BY DEF BeginSave, loadVars
<1>3. DirectoryType
  BY DEF LoadsInv
<1>4. Count \in Nat /\ Components = 1..Count
  BY <1>3, Numbered DEF DirectoryType
<1>5. Count' = Count /\ Held' = Held /\ SaverStates' = SaverStates /\ Readings' = Readings
      /\ Components' = Components
  BY <1>2, ScenarioAlone
<1>6. DirectoryType'
  <2>1. [step |-> "components", next |-> 1, of |-> c] \in SaverStates
    BY <1>4 DEF SaverStates
  <2>2. saver' \in [Savers -> SaverStates]
    BY <1>1, <1>3, <2>1 DEF DirectoryType
  <2>3. QED
    BY <1>2, <1>3, <1>5, <2>2 DEF DirectoryType, Held
<1>7. \A q \in Savers :
        saver'[q] = IF q = p THEN [step |-> "components", next |-> 1, of |-> c] ELSE saver[q]
  BY <1>1, <1>3 DEF DirectoryType
<1>8. Saving' = Saving \cup {p}
  BY <1>7 DEF Saving
<1>9. WritingInv'
  <2>1. \A q \in Savers : saver'[q].step = "removed" => saver'[q].next = Count' + 1
    BY <1>5, <1>7 DEF LoadsInv, WritingInv
  <2>2. ASSUME ~raced'
        PROVE  Saving' = {p} /\ saver'[p].next = 1
    <3>1. Saving = {}
      BY <1>2, <2>2
    <3>2. QED
      BY <1>7, <1>8, <3>1
  <2>3. \A k \in Components : ~(k < 1)
    BY <1>4
  <2>4. QED
    BY <1>5, <2>1, <2>2, <2>3 DEF WritingInv
<1>10. SettledInv'
  BY <1>2 DEF SettledInv
<1>11. LoadingInv' /\ HandleInv'
  BY <1>2, LoadsAlone
<1>12. QED
  BY <1>6, <1>9, <1>10, <1>11 DEF LoadsInv

\* Writing one component keeps the invariant.
LEMMA SaveComponentStep ==
    ASSUME LoadsInv, NEW p \in Savers, SaveComponent(p)
    PROVE  LoadsInv'
<1>1. /\ saver[p].step = "components" /\ saver[p].next \in Components
      /\ files' = [files EXCEPT ![saver[p].next] = saver[p].of]
      /\ saver' = [saver EXCEPT ![p].next = @ + 1]
      /\ UNCHANGED <<scenario, manifest, settled, raced, loading, handle>>
  BY DEF SaveComponent, loadVars
<1>2. DirectoryType
  BY DEF LoadsInv
<1>3. Count \in Nat /\ Components = 1..Count
  BY <1>2, Numbered DEF DirectoryType
<1>4. Count' = Count /\ Held' = Held /\ SaverStates' = SaverStates /\ Readings' = Readings
      /\ Components' = Components
  BY <1>1, ScenarioAlone
<1>5. PICK n, c : n = saver[p].next /\ c = saver[p].of
  OBVIOUS
<1>6. /\ p \in Saving /\ n \in 1..Count /\ c \in scenario.collections
      /\ saver[p] = [step |-> "components", next |-> n, of |-> c]
  BY <1>1, <1>2, <1>3, <1>5, InHand
<1>7. \A q \in Savers :
        saver'[q] = IF q = p THEN [step |-> "components", next |-> n + 1, of |-> c] ELSE saver[q]
  BY <1>1, <1>2, <1>6 DEF DirectoryType
<1>8. files' \in [Components -> Held]
      /\ \A k \in Components : files'[k] = IF k = n THEN c ELSE files[k]
  BY <1>1, <1>2, <1>5, <1>6 DEF DirectoryType, Held
<1>9. DirectoryType'
  <2>1. [step |-> "components", next |-> n + 1, of |-> c] \in SaverStates
    BY <1>3, <1>6 DEF SaverStates
  <2>2. saver' \in [Savers -> SaverStates]
    <3>1. saver' = [q \in Savers |-> saver'[q]]
      BY <1>1, <1>2 DEF DirectoryType
    <3>2. \A q \in Savers : saver'[q] \in SaverStates
      BY <1>2, <1>7, <2>1 DEF DirectoryType
    <3>3. QED
      BY <3>1, <3>2
  <2>3. QED
    BY <1>1, <1>2, <1>4, <1>8, <2>2 DEF DirectoryType
<1>10. Saving' = Saving
  BY <1>6, <1>7 DEF Saving
<1>11. WritingInv'
  <2>1. \A q \in Savers : saver'[q].step = "removed" => saver'[q].next = Count' + 1
    BY <1>4, <1>7 DEF LoadsInv, WritingInv
  <2>2. ASSUME ~raced'
        PROVE  /\ \A q, r \in Saving' : q = r
               /\ \A q \in Saving' : \A k \in Components' :
                      k < saver'[q].next => files'[k] = saver'[q].of
    <3>1. \A q \in Saving : q = p
      BY <1>1, <1>6, <2>2 DEF LoadsInv, WritingInv
    <3>2. \A k \in Components : k < n => files[k] = c
      BY <1>1, <1>5, <1>6, <2>2 DEF LoadsInv, WritingInv
    <3>3. \A k \in Components : k < n + 1 => files'[k] = c
      BY <1>3, <1>6, <1>8, <3>2
    <3>4. saver'[p].next = n + 1 /\ saver'[p].of = c
      BY <1>7
    <3>5. QED
      BY <1>4, <1>10, <3>1, <3>3, <3>4
  <2>3. QED
    BY <2>1, <2>2 DEF WritingInv
<1>12. SettledInv'
  BY <1>1, <1>6 DEF LoadsInv, SettledInv
<1>13. LoadingInv' /\ HandleInv'
  BY <1>1, LoadsAlone
<1>14. QED
  BY <1>9, <1>11, <1>12, <1>13 DEF LoadsInv

\* Removing the manifest keeps the invariant.
LEMMA RemoveManifestStep ==
    ASSUME LoadsInv, NEW p \in Savers, RemoveManifest(p)
    PROVE  LoadsInv'
<1>1. /\ saver[p].step = "components" /\ saver[p].next \notin Components
      /\ manifest' = Absent /\ saver' = [saver EXCEPT ![p].step = "removed"]
      /\ UNCHANGED <<scenario, files, settled, raced, loading, handle>>
  BY DEF RemoveManifest, loadVars
<1>2. DirectoryType
  BY DEF LoadsInv
<1>3. Count \in Nat /\ Components = 1..Count
  BY <1>2, Numbered DEF DirectoryType
<1>4. Count' = Count /\ Held' = Held /\ SaverStates' = SaverStates /\ Readings' = Readings
      /\ Components' = Components
  BY <1>1, ScenarioAlone
<1>5. PICK c : c = saver[p].of
  OBVIOUS
<1>6. /\ p \in Saving /\ c \in scenario.collections
      /\ saver[p] = [step |-> "components", next |-> Count + 1, of |-> c]
  <2>1. /\ p \in Saving /\ saver[p].next \in 1..(Count + 1) /\ saver[p].of \in scenario.collections
        /\ saver[p] = [step |-> saver[p].step, next |-> saver[p].next, of |-> saver[p].of]
    BY <1>1, <1>2, InHand
  <2>2. saver[p].next = Count + 1
    BY <1>1, <1>3, <2>1
  <2>3. QED
    BY <1>1, <1>5, <2>1, <2>2
<1>7. \A q \in Savers :
        saver'[q] = IF q = p THEN [step |-> "removed", next |-> Count + 1, of |-> c] ELSE saver[q]
  BY <1>1, <1>2, <1>6 DEF DirectoryType
<1>8. DirectoryType'
  <2>1. [step |-> "removed", next |-> Count + 1, of |-> c] \in SaverStates
    BY <1>3, <1>6 DEF SaverStates
  <2>2. saver' \in [Savers -> SaverStates]
    <3>1. saver' = [q \in Savers |-> saver'[q]]
      BY <1>1, <1>2 DEF DirectoryType
    <3>2. \A q \in Savers : saver'[q] \in SaverStates
      BY <1>2, <1>7, <2>1 DEF DirectoryType
    <3>3. QED
      BY <3>1, <3>2
  <2>3. QED
    BY <1>1, <1>2, <1>4, <2>2 DEF DirectoryType, Held
<1>9. Saving' = Saving
  BY <1>6, <1>7 DEF Saving
<1>10. WritingInv'
  <2>1. \A q \in Savers : saver'[q].step = "removed" => saver'[q].next = Count' + 1
    BY <1>4, <1>7 DEF LoadsInv, WritingInv
  <2>2. \A q \in Savers : q \in Saving => saver'[q].next = saver[q].next /\ saver'[q].of = saver[q].of
    BY <1>6, <1>7
  <2>3. Saving \subseteq Savers
    BY DEF Saving
  <2>4. QED
    BY <1>1, <1>4, <1>9, <2>1, <2>2, <2>3 DEF LoadsInv, WritingInv
<1>11. SettledInv'
  BY <1>1, <1>6 DEF LoadsInv, SettledInv
<1>12. LoadingInv' /\ HandleInv'
  BY <1>1, LoadsAlone
<1>13. QED
  BY <1>8, <1>10, <1>11, <1>12 DEF LoadsInv

\* Renaming the manifest into place keeps the invariant.
LEMMA RenameManifestStep ==
    ASSUME LoadsInv, NEW p \in Savers, RenameManifest(p)
    PROVE  LoadsInv'
<1>1. /\ saver[p].step \in {"components", "removed"}
      /\ saver[p].step = "components" => saver[p].next \notin Components
      /\ manifest' = saver[p].of /\ saver' = [saver EXCEPT ![p] = [step |-> "saved"]]
      /\ settled' = IF raced \/ Saving # {p} THEN Absent ELSE saver[p].of
      /\ UNCHANGED <<scenario, files, raced, loading, handle>>
  BY DEF RenameManifest, Saved, loadVars
<1>2. DirectoryType /\ WritingInv
  BY DEF LoadsInv
<1>3. Count \in Nat /\ Components = 1..Count
  BY <1>2, Numbered DEF DirectoryType
<1>4. Count' = Count /\ Held' = Held /\ SaverStates' = SaverStates /\ Readings' = Readings
      /\ Components' = Components
  BY <1>1, ScenarioAlone
<1>5. p \in Saving /\ saver[p].next = Count + 1 /\ saver[p].of \in scenario.collections
  <2>1. p \in Saving /\ saver[p].next \in 1..(Count + 1) /\ saver[p].of \in scenario.collections
    BY <1>1, <1>2, InHand
  <2>2. saver[p].next = Count + 1
    BY <1>1, <1>2, <1>3, <2>1 DEF WritingInv
  <2>3. QED
    BY <2>1, <2>2
<1>6. \A q \in Savers : saver'[q] = IF q = p THEN [step |-> "saved"] ELSE saver[q]
  BY <1>1, <1>2 DEF DirectoryType
<1>7. DirectoryType'
  <2>1. saver' \in [Savers -> SaverStates]
    BY <1>1, <1>2 DEF DirectoryType, SaverStates
  <2>2. manifest' \in Held /\ settled' \in Held
    BY <1>1, <1>5 DEF Held
  <2>3. QED
    BY <1>1, <1>2, <1>4, <2>1, <2>2 DEF DirectoryType
<1>8. Saving' = Saving \ {p}
  BY <1>6 DEF Saving
<1>9. WritingInv'
  <2>1. \A q \in Savers : saver'[q].step = "removed" => saver'[q].next = Count' + 1
    BY <1>2, <1>4, <1>6 DEF WritingInv
  <2>2. \A q \in Saving' : q \in Saving /\ saver'[q] = saver[q]
    BY <1>6, <1>8 DEF Saving
  <2>3. QED
    BY <1>1, <1>2, <1>4, <2>1, <2>2 DEF WritingInv
<1>10. SettledInv'
  <2>1. SUFFICES ASSUME settled' # Absent
                 PROVE  /\ Saving' = {} /\ manifest' = settled'
                        /\ \A k \in Components : files[k] = settled'
    BY <1>1, <1>4 DEF SettledInv
  <2>2. ~raced /\ Saving = {p} /\ settled' = saver[p].of
    BY <1>1, <2>1
  <2>3. \A k \in Components : k < saver[p].next
    BY <1>3, <1>5
  <2>4. \A k \in Components : files[k] = saver[p].of
    BY <1>2, <1>5, <2>2, <2>3 DEF WritingInv
  <2>5. QED
    BY <1>1, <1>8, <2>2, <2>4
<1>11. LoadingInv' /\ HandleInv'
  BY <1>1, LoadsAlone
<1>12. QED
  BY <1>7, <1>9, <1>10, <1>11 DEF LoadsInv

\* A crash keeps the invariant: what is on disk stays as it was.
LEMMA DieStep ==
    ASSUME LoadsInv, NEW p \in Savers, Die(p)
    PROVE  LoadsInv'
<1>1. /\ p \in Saving /\ saver' = [saver EXCEPT ![p] = [step |-> "dead"]]
      /\ UNCHANGED <<scenario, files, manifest, settled, raced, loading, handle>>
  BY DEF Die, loadVars
<1>2. DirectoryType /\ WritingInv
  BY DEF LoadsInv
<1>3. Count' = Count /\ Held' = Held /\ SaverStates' = SaverStates /\ Readings' = Readings
      /\ Components' = Components
  BY <1>1, ScenarioAlone
<1>4. \A q \in Savers : saver'[q] = IF q = p THEN [step |-> "dead"] ELSE saver[q]
  BY <1>1, <1>2 DEF DirectoryType
<1>5. DirectoryType'
  <2>1. saver' \in [Savers -> SaverStates]
    BY <1>1, <1>2 DEF DirectoryType, SaverStates
  <2>2. QED
    BY <1>1, <1>2, <1>3, <2>1 DEF DirectoryType
<1>6. WritingInv'
  <2>1. \A q \in Savers : saver'[q].step = "removed" => saver'[q].next = Count' + 1
    BY <1>2, <1>3, <1>4 DEF WritingInv
  <2>2. \A q \in Saving' : q \in Saving /\ saver'[q] = saver[q]
    BY <1>4 DEF Saving
  <2>3. QED
    BY <1>1, <1>2, <1>3, <2>1, <2>2 DEF WritingInv
<1>7. SettledInv'
  BY <1>1 DEF LoadsInv, SettledInv
<1>8. LoadingInv' /\ HandleInv'
  BY <1>1, LoadsAlone
<1>9. QED
  BY <1>5, <1>6, <1>7, <1>8 DEF LoadsInv

-----------------------------------------------------------------------------
(* Loading *)

\* A directory that is not written to stays as it is.
LEMMA DirectoryAlone ==
    ASSUME LoadsInv, UNCHANGED <<scenario, directoryVars>>
    PROVE  /\ WritingInv' /\ SettledInv'
           /\ (loading' # Absent => loading' \in Readings /\ Len(loading'.components) =< Count)
                => DirectoryType'
<1>1. UNCHANGED <<scenario, files, manifest, saver, settled, raced>>
  BY DEF directoryVars
<1>2. Count' = Count /\ Held' = Held /\ SaverStates' = SaverStates /\ Readings' = Readings
      /\ Components' = Components
  BY <1>1, ScenarioAlone
<1>3. Saving' = Saving
  BY <1>1 DEF Saving
<1>4. WritingInv'
  BY <1>1, <1>2, <1>3 DEF LoadsInv, WritingInv
<1>5. SettledInv'
  BY <1>1, <1>2, <1>3 DEF LoadsInv, SettledInv
<1>6. QED
  BY <1>1, <1>2, <1>4, <1>5 DEF LoadsInv, DirectoryType

\* A search leaves the directory and the loaded index alone.
LEMMA SearchStep ==
    ASSUME LoadsInv, UNCHANGED <<scenario, directoryVars, loadVars>>
    PROVE  LoadsInv'
<1>1. UNCHANGED <<loading, handle>>
  BY DEF loadVars
<1>2. LoadingInv' /\ HandleInv'
  BY <1>1, LoadsAlone
<1>3. loading' # Absent => loading' \in Readings /\ Len(loading'.components) =< Count
  BY <1>1 DEF LoadsInv, DirectoryType
<1>4. QED
  BY <1>2, <1>3, DirectoryAlone DEF LoadsInv

\* Beginning a load keeps the invariant.
LEMMA BeginLoadStep ==
    ASSUME LoadsInv, BeginLoad
    PROVE  LoadsInv'
<1>1. /\ loading' = [manifest |-> manifest, components |-> <<>>, settled |-> settled]
      /\ UNCHANGED <<scenario, directoryVars, handle>> /\ handle = Absent
  BY DEF BeginLoad
<1>2. DirectoryType
  BY DEF LoadsInv
<1>3. loading' \in Readings /\ Len(loading'.components) =< Count
  <2>1. << >> \in Seq(Held) /\ Len(<< >>) = 0
    OBVIOUS
  <2>2. Count \in Nat
    BY <1>2, Numbered DEF DirectoryType
  <2>3. QED
    BY <1>1, <1>2, <2>1, <2>2 DEF DirectoryType, Readings
<1>4. LoadingInv'
  BY <1>1 DEF LoadsInv, SettledInv, LoadingInv, Exactly
<1>5. HandleInv'
  BY <1>1 DEF HandleInv
<1>6. QED
  BY <1>1, <1>3, <1>4, <1>5, DirectoryAlone DEF LoadsInv

\* Reading one component keeps the invariant.
LEMMA ReadComponentStep ==
    ASSUME LoadsInv, ReadComponent
    PROVE  LoadsInv'
<1>1. /\ loading # Absent /\ Len(loading.components) + 1 \in Components
      /\ loading' = [loading EXCEPT
                        !.components = Append(@, files[Len(loading.components) + 1]),
                        !.settled = IF settled = @ THEN @ ELSE Absent]
      /\ UNCHANGED <<scenario, directoryVars, handle>>
  BY DEF ReadComponent
<1>2. DirectoryType
  BY DEF LoadsInv
<1>3. PICK m, cs, s : m = loading.manifest /\ cs = loading.components /\ s = loading.settled
  OBVIOUS
<1>4. /\ m \in Held /\ cs \in Seq(Held) /\ s \in Held
      /\ loading = [manifest |-> m, components |-> cs, settled |-> s]
  BY <1>1, <1>2, <1>3 DEF DirectoryType, Readings
<1>5. PICK c : c = files[Len(cs) + 1]
  OBVIOUS
<1>6. c \in Held
  BY <1>1, <1>2, <1>3, <1>5 DEF DirectoryType
<1>7. loading' = [manifest |-> m, components |-> Append(cs, c),
                  settled |-> IF settled = s THEN s ELSE Absent]
  BY <1>1, <1>3, <1>4, <1>5
<1>8. Count \in Nat /\ Components = 1..Count
  BY <1>2, Numbered DEF DirectoryType
<1>9. Append(cs, c) \in Seq(Held) /\ Len(Append(cs, c)) = Len(cs) + 1 /\ Len(cs) \in Nat
  BY <1>4, <1>6
<1>10. loading' \in Readings /\ Len(loading'.components) =< Count
  <2>1. Len(cs) + 1 \in 1..Count
    BY <1>1, <1>3, <1>8
  <2>2. (IF settled = s THEN s ELSE Absent) \in Held
    BY <1>4 DEF Held
  <2>3. QED
    <3>1. loading' \in Readings
      BY <1>4, <1>7, <1>9, <2>2 DEF Readings
    <3>2. loading'.components = Append(cs, c)
      BY <1>7
    <3>3. QED
      BY <1>8, <1>9, <2>1, <3>1, <3>2
<1>11. LoadingInv'
  <2>1. SUFFICES ASSUME loading'.settled # Absent
                 PROVE  Exactly(loading')
    BY DEF LoadingInv, Exactly
  <2>2. settled = s /\ s # Absent /\ loading'.settled = s
    BY <1>7, <2>1
  <2>3. Exactly(loading)
    BY <1>1, <1>3, <2>2 DEF LoadsInv, LoadingInv
  <2>4. c = s
    BY <1>1, <1>3, <1>5, <2>2 DEF LoadsInv, SettledInv
  <2>5. \A k \in DOMAIN Append(cs, c) : Append(cs, c)[k] = s
    <3>1. \A k \in 1..Len(cs) : cs[k] = s
      BY <1>3, <1>4, <2>3 DEF Exactly
    <3>2. DOMAIN Append(cs, c) = 1..(Len(cs) + 1)
      BY <1>4, <1>6, <1>9
    <3>3. QED
      BY <1>4, <1>9, <2>4, <3>1, <3>2
  <2>6. QED
    BY <1>3, <1>7, <2>2, <2>3, <2>5 DEF Exactly
<1>12. HandleInv'
  <2>1. Hybrid' = Hybrid
    BY <1>1 DEF Hybrid
  <2>2. \A x : Paths(x)' = Paths(x) /\ Lengths(x)' = Lengths(x)
    BY <1>1 DEF Paths, Lengths, MappedSeq
  <2>3. OneIdentity(handle)' = OneIdentity(handle)
    BY <1>1, <2>1, <2>2 DEF OneIdentity
  <2>4. QED
    BY <1>1, <2>1, <2>2, <2>3 DEF LoadsInv, HandleInv, Exactly
<1>13. QED
  BY <1>1, <1>10, <1>11, <1>12, DirectoryAlone DEF LoadsInv

\* Finishing a load keeps the invariant.
LEMMA FinishLoadStep ==
    ASSUME LoadsInv, FinishLoad
    PROVE  LoadsInv'
<1>1. /\ loading # Absent /\ Len(loading.components) + 1 \notin Components
      /\ handle' = IF Agreeing THEN loading ELSE Absent
      /\ loading' = Absent
      /\ UNCHANGED <<scenario, directoryVars>>
  BY DEF FinishLoad
<1>2. DirectoryType
  BY DEF LoadsInv
<1>3. Count \in Nat /\ Components = 1..Count
  BY <1>2, Numbered DEF DirectoryType
<1>4. DOMAIN loading.components = 1..Count
  <2>1. loading.components \in Seq(Held) /\ Len(loading.components) =< Count
    BY <1>1, <1>2 DEF DirectoryType, Readings
  <2>2. Len(loading.components) = Count
    BY <1>1, <1>3, <2>1
  <2>3. QED
    BY <2>1, <2>2
<1>5. LoadingInv'
  BY <1>1 DEF LoadingInv
<1>6. HandleInv'
  <2>1. SUFFICES ASSUME handle' # Absent
                 PROVE  HandleInv'
    BY DEF HandleInv
  <2>2. Agreeing /\ handle' = loading
    BY <1>1, <2>1
  <2>3. Hybrid' = Hybrid
    BY <1>1 DEF Hybrid
  <2>4. \A x : Paths(x)' = Paths(x) /\ Lengths(x)' = Lengths(x)
    BY <1>1 DEF Paths, Lengths, MappedSeq
  <2>5. OneIdentity(loading) /\ (Hybrid => Paths(loading.manifest) = Paths(loading.components[1]))
    <3>1. CASE Hybrid
      <4>1. DOMAIN loading.components = {1, 2}
        BY <1>4, <3>1 DEF Count
      <4>2. /\ Paths(loading.components[1]) = Paths(loading.components[2])
            /\ Paths(loading.components[2]) = Paths(loading.manifest)
        BY <2>2, <3>1 DEF Agreeing, SameIdentity
      <4>3. QED
        BY <3>1, <4>1, <4>2 DEF OneIdentity
    <3>2. CASE ~Hybrid
      <4>1. \A k \in DOMAIN loading.components :
              /\ Paths(loading.components[1]) = Paths(loading.components[k])
              /\ Lengths(loading.components[1]) = Lengths(loading.components[k])
        BY <1>3, <1>4, <2>2, <3>2 DEF Agreeing, SameIdentity
      <4>2. QED
        BY <3>2, <4>1 DEF OneIdentity
    <3>3. QED
      BY <3>1, <3>2
  <2>6. loading.settled # Absent => Exactly(loading)
    BY <1>1 DEF LoadsInv, LoadingInv
  <2>7. QED
    BY <2>2, <2>3, <2>4, <2>5, <2>6 DEF HandleInv, OneIdentity, Exactly
<1>7. QED
  BY <1>1, <1>5, <1>6, DirectoryAlone DEF LoadsInv

-----------------------------------------------------------------------------
(* The theorem *)

\* Every step of the compound index, and every stutter, keeps the invariant.
LEMMA Kept == LoadsInv /\ [CompoundNext]_compoundVars => LoadsInv'
<1> SUFFICES ASSUME LoadsInv, [CompoundNext]_compoundVars
             PROVE  LoadsInv'
  OBVIOUS
<1>1. ASSUME NEW p \in Savers,
             BeginSave(p) \/ SaveComponent(p) \/ RemoveManifest(p) \/ RenameManifest(p) \/ Die(p)
      PROVE  LoadsInv'
  BY <1>1, BeginSaveStep, SaveComponentStep, RemoveManifestStep, RenameManifestStep, DieStep
<1>2. CASE BeginLoad \/ ReadComponent \/ FinishLoad
  BY <1>2, BeginLoadStep, ReadComponentStep, FinishLoadStep
<1>3. CASE \/ Ask \/ ParseQuery \/ SearchLexicalLane \/ SearchOverlapLane \/ Fuse \/ FuseSemantic
           \/ SearchView \/ FuseViews
  <2>1. UNCHANGED <<scenario, directoryVars, loadVars>>
    BY <1>3 DEF Ask, ParseQuery, SearchLexicalLane, SearchOverlapLane, Fuse, FuseSemantic,
         SearchView, FuseViews, Keeping
  <2>2. QED
    BY <2>1, SearchStep
<1>4. CASE UNCHANGED compoundVars
  <2>1. UNCHANGED <<scenario, directoryVars, loadVars>>
    BY <1>4 DEF compoundVars
  <2>2. QED
    BY <2>1, SearchStep
<1>5. QED
  BY <1>1, <1>2, <1>3, <1>4 DEF CompoundNext

\* The inductive invariant.
THEOREM LoadsInductive == CompoundSpec => []LoadsInv
BY Initially, Kept, PTL DEF CompoundSpec

\* Whatever saves overlap or die, the parts of a loaded index speak of the same
\* documents, and a settled directory is loaded as exactly what was saved.
THEOREM LoadsAreWhole == CompoundSpec => []LoadsAgree
<1>1. LoadsInv => LoadsAgree
  BY DEF LoadsInv, LoadingInv, HandleInv, LoadsAgree
<1>2. QED
  BY LoadsInductive, <1>1, PTL

-----------------------------------------------------------------------------
(* Sums over the elements of a set *)

Total(k, S) == MapThenSumSet(LAMBDA c : c[k], S)
AnyOf(T) == CHOOSE x \in T : TRUE

\* The elements of S have a number at k.
Measured(k, S) == IsFiniteSet(S) /\ \A c \in S : c[k] \in Nat

\* g adds them up.
AddsUp(g, k, S) ==
    \A T \in SUBSET S : g[T] = IF T = {} THEN 0 ELSE AnyOf(T)[k] + g[T \ {AnyOf(T)}]

\* A part of a finite set, without one of its elements.
LEMMA OneLess ==
  ASSUME NEW S, IsFiniteSet(S), NEW T \in SUBSET S, NEW x \in T
  PROVE  /\ IsFiniteSet(T) /\ T \ {x} \in SUBSET S
         /\ Cardinality(T) \in Nat /\ Cardinality(T) <= Cardinality(S) /\ Cardinality(T) > 0
         /\ Cardinality(T \ {x}) = Cardinality(T) - 1
<1>1. IsFiniteSet(T) /\ Cardinality(T) <= Cardinality(S)
  BY FS_Subset
<1>2. Cardinality(T) \in Nat
  BY <1>1, FS_CardinalityType
<1>3. Cardinality(T \ {x}) = Cardinality(T) - 1 /\ IsFiniteSet(T \ {x})
  BY <1>1, FS_RemoveElement
<1>4. Cardinality(T \ {x}) \in Nat
  BY <1>3, FS_CardinalityType
<1>5. QED
  BY <1>1, <1>2, <1>3, <1>4

\* Facts about a set follow by adding one element after another.
LEMMA BySize ==
  ASSUME NEW S, IsFiniteSet(S), NEW P \in SUBSET (SUBSET S), {} \in P,
         \A T \in SUBSET S : T # {} /\ (\A x \in T : T \ {x} \in P) => T \in P
  PROVE  \A T \in SUBSET S : T \in P
<1> DEFINE K == {i \in 0..Cardinality(S) : \A T \in SUBSET S : Cardinality(T) <= i => T \in P}
<1>1. PICK n \in Nat : n = Cardinality(S)
  BY FS_CardinalityType
<1>2. 0 \in K
  <2>1. ASSUME NEW T \in SUBSET S, Cardinality(T) <= 0, NEW x \in T
        PROVE  FALSE
    <3>1. Cardinality(T) \in Nat /\ Cardinality(T) > 0
      BY OneLess
    <3>2. QED
      BY <2>1, <3>1
  <2>2. \A T \in SUBSET S : Cardinality(T) <= 0 => T = {}
    BY <2>1
  <2>3. ASSUME NEW T \in SUBSET S, Cardinality(T) <= 0
        PROVE  T \in P
    <3>1. T = {}
      BY <2>2, <2>3
    <3>2. QED
      BY <3>1
  <2>4. 0 \in 0..Cardinality(S)
    BY <1>1
  <2>5. QED
    BY <2>3, <2>4
<1>3. ASSUME NEW i \in 0..n, i \in K, i < n
      PROVE  i + 1 \in K
  <2>1. ASSUME NEW T \in SUBSET S, Cardinality(T) <= i + 1
        PROVE  T \in P
    <3>1. ASSUME NEW x \in T
          PROVE  T \ {x} \in P
      <4>1. /\ T \ {x} \in SUBSET S /\ Cardinality(T) \in Nat
            /\ Cardinality(T \ {x}) = Cardinality(T) - 1
        BY OneLess
      <4>2. Cardinality(T \ {x}) <= i
        BY <2>1, <4>1
      <4>3. QED
        BY <1>3, <4>1, <4>2
    <3>2. CASE T = {}
      BY <3>2
    <3>3. CASE T # {}
      BY <3>1, <3>3
    <3>4. QED
      BY <3>2, <3>3
  <2>2. i + 1 \in 0..Cardinality(S)
    BY <1>1, <1>3
  <2>3. QED
    BY <2>1, <2>2
<1>4. \A i \in 0..n : i \in K
  <2> HIDE DEF K
  <2>1. QED
    BY <1>1, <1>2, <1>3, UpTo
<1>5. n \in K
  BY <1>1, <1>4
<1>6. ASSUME NEW T \in SUBSET S
      PROVE  T \in P
  <2>1. Cardinality(T) <= Cardinality(S)
    BY FS_Subset
  <2>2. QED
    BY <1>1, <1>5, <2>1
<1>7. QED
  BY <1>6

\* Some function does.
LEMMA AddingUpExists ==
  ASSUME NEW k, NEW S, Measured(k, S)
  PROVE  \E g \in [SUBSET S -> Nat] : AddsUp(g, k, S)
<1>1. PICK n \in Nat : n = Cardinality(S)
  BY FS_CardinalityType DEF Measured
<1> DEFINE X == [SUBSET S -> Nat]
           none == [T \in SUBSET S |-> 0]
           grown(h) == [T \in SUBSET S |->
                         IF T = {} THEN 0 ELSE AnyOf(T)[k] + h[T \ {AnyOf(T)}]]
           step == [i \in 1..(n + 1) |-> [h \in X |-> grown(h)]]
<1>2. \A T \in SUBSET S : T # {} => AnyOf(T) \in T /\ AnyOf(T)[k] \in Nat
  BY DEF AnyOf, Measured
<1>3. \A h \in X : grown(h) \in X
  BY <1>2
<1>4. none \in X
  OBVIOUS
<1>5. step \in [1..(n + 1) -> [X -> X]]
  <2> HIDE DEF X, grown
  <2>1. QED
    BY <1>3
<1>6. PICK g \in [0..(n + 1) -> X] : Iterates(g, none, step, n + 1)
  <2>1. n + 1 \in Nat
    OBVIOUS
  <2> HIDE DEF X, step, none
  <2>2. QED
    BY <1>4, <1>5, <2>1, Recursion
<1>7. g[0] = none /\ \A i \in 1..(n + 1) : g[i - 1] \in X /\ g[i] = grown(g[i - 1])
  <2>1. \A i \in 1..(n + 1) : i - 1 \in 0..(n + 1)
    OBVIOUS
  <2>2. \A i \in 1..(n + 1) : g[i - 1] \in X
    BY <2>1, <1>6
  <2>3. QED
    BY <1>6, <2>2 DEF Iterates
<1> DEFINE K == {i \in 0..n : \A T \in SUBSET S : Cardinality(T) <= i => g[i + 1][T] = g[i][T]}
<1>8. 0 \in K
  <2>1. ASSUME NEW T \in SUBSET S, Cardinality(T) <= 0
        PROVE  T = {}
    <3>1. \A x \in T : Cardinality(T) \in Nat /\ Cardinality(T) > 0
      BY OneLess DEF Measured
    <3>2. QED
      BY <2>1, <3>1
  <2>2. 1 \in 1..(n + 1) /\ 1 - 1 = 0 /\ 0 + 1 = 1
    BY <1>1
  <2>3. g[1] = grown(none)
    <3> HIDE DEF X, grown, none
    <3>1. QED
      BY <1>7, <2>2
  <2>4. g[1][{}] = 0 /\ g[0][{}] = 0
    <3>1. {} \in SUBSET S
      OBVIOUS
    <3>2. QED
      BY <1>7, <2>3, <3>1
  <2>5. \A T \in SUBSET S : Cardinality(T) <= 0 => g[0 + 1][T] = g[0][T]
    BY <2>1, <2>2, <2>4
  <2>6. 0 \in 0..n
    BY <1>1
  <2>7. QED
    BY <2>5, <2>6
<1>9. ASSUME NEW i \in 0..n, i \in K, i < n
      PROVE  i + 1 \in K
  <2>1. PICK a, b : a = i + 1 /\ b = a + 1
    OBVIOUS
  <2>2. a \in 1..(n + 1) /\ b \in 1..(n + 1) /\ a - 1 = i /\ b - 1 = a /\ a \in 0..n
    BY <1>9, <2>1
  <2>3. g[a] = grown(g[i]) /\ g[b] = grown(g[a])
    <3> HIDE DEF X, grown, none
    <3>1. QED
      BY <1>7, <2>2
  <2>4. ASSUME NEW T \in SUBSET S, Cardinality(T) <= a
        PROVE  g[b][T] = g[a][T]
    <3>1. CASE T = {}
      BY <2>3, <3>1
    <3>2. CASE T # {}
      <4>1. PICK x \in T : x = AnyOf(T)
        BY <1>2, <3>2
      <4>2. /\ T \ {x} \in SUBSET S /\ Cardinality(T) \in Nat
            /\ Cardinality(T \ {x}) = Cardinality(T) - 1
        BY OneLess DEF Measured
      <4>3. Cardinality(T \ {x}) <= i
        BY <2>1, <2>4, <4>2
      <4>4. g[a][T \ {x}] = g[i][T \ {x}]
        BY <1>9, <2>1, <4>2, <4>3
      <4>5. g[b][T] = x[k] + g[a][T \ {x}] /\ g[a][T] = x[k] + g[i][T \ {x}]
        BY <2>3, <3>2, <4>1
      <4>6. QED
        BY <4>4, <4>5
    <3>3. QED
      BY <3>1, <3>2
  <2>5. QED
    BY <2>1, <2>2, <2>4
<1>10. n \in K
  <2>1. \A i \in 0..n : i \in K
    <3> HIDE DEF K
    <3>1. QED
      BY <1>8, <1>9, UpTo
  <2>2. QED
    BY <1>1, <2>1
<1>11. n + 1 \in 1..(n + 1) /\ (n + 1) - 1 = n /\ n \in 0..(n + 1)
  BY <1>1
<1>12. g[n] \in X /\ g[n + 1] = grown(g[n])
  <2> HIDE DEF X, grown, none
  <2>1. QED
    BY <1>7, <1>11
<1>13. ASSUME NEW T \in SUBSET S
       PROVE  g[n][T] = IF T = {} THEN 0 ELSE AnyOf(T)[k] + g[n][T \ {AnyOf(T)}]
  <2>1. Cardinality(T) <= n
    BY <1>1, FS_Subset DEF Measured
  <2>2. g[n][T] = grown(g[n])[T]
    BY <1>10, <1>12, <2>1
  <2>3. QED
    BY <2>2
<1>14. QED
  BY <1>12, <1>13 DEF AddsUp

\* And what the sum is, is what any of them gives.
LEMMA AddingUpIsOne ==
  ASSUME NEW k, NEW S, IsFiniteSet(S), NEW R, NEW g, AddsUp(g, k, S), NEW h, AddsUp(h, k, R),
         S \subseteq R
  PROVE  \A T \in SUBSET S : g[T] = h[T]
<1> DEFINE P == {T \in SUBSET S : g[T] = h[T]}
<1>1. {} \in P
  BY DEF AddsUp
<1>2. ASSUME NEW T \in SUBSET S, T # {}, \A x \in T : T \ {x} \in P
      PROVE  T \in P
  <2>1. PICK x \in T : x = AnyOf(T)
    BY <1>2 DEF AnyOf
  <2>2. T \in SUBSET R
    OBVIOUS
  <2>3. g[T] = x[k] + g[T \ {x}] /\ h[T] = x[k] + h[T \ {x}]
    BY <1>2, <2>1, <2>2 DEF AddsUp
  <2>4. g[T \ {x}] = h[T \ {x}]
    BY <1>2
  <2>5. QED
    BY <2>3, <2>4
<1>3. \A T \in SUBSET S : T \in P
  <2>1. P \in SUBSET (SUBSET S)
    OBVIOUS
  <2> HIDE DEF P
  <2>2. QED
    BY <1>1, <1>2, <2>1, BySize
<1>4. QED
  BY <1>3

\* Adding up is what the operator does.
LEMMA TotalIs ==
  ASSUME NEW k, NEW S, Measured(k, S)
  PROVE  \E g \in [SUBSET S -> Nat] : AddsUp(g, k, S) /\ Total(k, S) = g[S]
<1> DEFINE Body(g) == [T \in SUBSET S |->
                         IF T = {} THEN 0 ELSE AnyOf(T)[k] + g[T \ {AnyOf(T)}]]
           iter == CHOOSE g : g = Body(g)
<1>1. PICK g \in [SUBSET S -> Nat] : AddsUp(g, k, S)
  BY AddingUpExists
<1>2. g = Body(g)
  BY <1>1 DEF AddsUp
<1>3. iter = Body(iter)
  BY <1>2, Zenon
<1>4. Total(k, S) = iter[S]
  BY Zenon DEF Total, MapThenSumSet, MapThenFoldSet, AnyOf
<1> HIDE DEF iter
<1>5. AddsUp(iter, k, S)
  BY <1>3 DEF AddsUp
<1>6. \A T \in SUBSET S : iter[T] = g[T]
  <2>1. S \subseteq S /\ IsFiniteSet(S)
    BY DEF Measured
  <2> HIDE DEF Body
  <2>2. QED
    BY <1>1, <1>5, <2>1, AddingUpIsOne
<1>7. QED
  BY <1>1, <1>4, <1>6

\* The sum of nothing, and the sum without any one element.
LEMMA TotalWithout ==
  ASSUME NEW k, NEW S, Measured(k, S)
  PROVE  /\ Total(k, S) \in Nat /\ (S = {} => Total(k, S) = 0)
         /\ \A x \in S : /\ Total(k, S \ {x}) \in Nat /\ x[k] \in Nat
                         /\ Total(k, S) = x[k] + Total(k, S \ {x})
<1>1. PICK g \in [SUBSET S -> Nat] : AddsUp(g, k, S) /\ Total(k, S) = g[S]
  BY TotalIs
<1>2. ASSUME NEW T \in SUBSET S
      PROVE  Measured(k, T) /\ Total(k, T) = g[T] /\ g[T] \in Nat
  <2>1. IsFiniteSet(T) /\ Measured(k, T)
    BY FS_Subset DEF Measured
  <2>2. PICK h \in [SUBSET T -> Nat] : AddsUp(h, k, T) /\ Total(k, T) = h[T]
    BY <2>1, TotalIs
  <2>3. \A U \in SUBSET T : h[U] = g[U]
    BY <1>1, <2>1, <2>2, AddingUpIsOne
  <2>4. QED
    BY <2>1, <2>2, <2>3
<1>3. \A T \in SUBSET S : \A x \in T : x[k] \in Nat /\ T \ {x} \in SUBSET S /\ g[T \ {x}] \in Nat
  BY DEF Measured
<1>4. \A T \in SUBSET S : T # {} =>
          AnyOf(T) \in T /\ g[T] = AnyOf(T)[k] + g[T \ {AnyOf(T)}]
  BY <1>1 DEF AddsUp, AnyOf
<1> DEFINE P == {T \in SUBSET S : \A x \in T : g[T] = x[k] + g[T \ {x}]}
<1>5. ASSUME NEW T \in SUBSET S, T # {}, \A x \in T : T \ {x} \in P
      PROVE  T \in P
  <2>1. PICK c \in T : c = AnyOf(T) /\ g[T] = c[k] + g[T \ {c}]
    BY <1>4, <1>5
  <2>2. ASSUME NEW x \in T
        PROVE  g[T] = x[k] + g[T \ {x}]
    <3>1. CASE x = c
      BY <2>1, <3>1
    <3>2. CASE x # c
      <4>1. PICK U \in SUBSET S : U = (T \ {x}) \ {c}
        OBVIOUS
      <4>2. c \in T \ {x} /\ x \in T \ {c} /\ (T \ {c}) \ {x} = U
        BY <3>2, <4>1
      <4>3. g[T \ {c}] = x[k] + g[U] /\ g[T \ {x}] = c[k] + g[U]
        BY <1>5, <4>1, <4>2
      <4>4. g[U] \in Nat /\ c[k] \in Nat /\ x[k] \in Nat
        BY <1>3
      <4>5. QED
        BY <2>1, <4>3, <4>4
    <3>3. QED
      BY <3>1, <3>2
  <2>3. QED
    BY <2>2
<1>6. \A T \in SUBSET S : T \in P
  <2>1. P \in SUBSET (SUBSET S) /\ {} \in P /\ IsFiniteSet(S)
    BY DEF Measured
  <2> HIDE DEF P
  <2>2. QED
    BY <1>5, <2>1, BySize
<1>7. ASSUME NEW x \in S
      PROVE  /\ Total(k, S \ {x}) \in Nat /\ x[k] \in Nat
             /\ Total(k, S) = x[k] + Total(k, S \ {x})
  <2>1. S \in SUBSET S /\ S \ {x} \in SUBSET S
    OBVIOUS
  <2>2. g[S] = x[k] + g[S \ {x}]
    BY <1>6, <2>1
  <2>3. QED
    BY <1>2, <1>3, <2>1, <2>2
<1>8. S = {} => g[S] = 0
  BY <1>1 DEF AddsUp
<1>9. S \in SUBSET S
  OBVIOUS
<1>10. QED
  BY <1>1, <1>2, <1>7, <1>8, <1>9

\* A part of it can be measured too.
LEMMA MeasuredPart ==
  ASSUME NEW k, NEW S, Measured(k, S), NEW T \in SUBSET S
  PROVE  Measured(k, T) /\ Total(k, T) \in Nat
<1>1. Measured(k, T)
  BY FS_Subset DEF Measured
<1>2. QED
  BY <1>1, TotalWithout

\* Two sets without a common element.
LEMMA TotalOfBoth ==
  ASSUME NEW k, NEW S, Measured(k, S), NEW R \in SUBSET S
  PROVE  /\ Total(k, S) = Total(k, R) + Total(k, S \ R)
         /\ Total(k, R) \in Nat /\ Total(k, S \ R) \in Nat /\ Total(k, S) \in Nat
<1> DEFINE Q(T) == Total(k, T) = Total(k, T \cap R) + Total(k, T \ R)
           P == {T \in SUBSET S : Q(T)}
<1>1. \A T \in SUBSET S : Measured(k, T) /\ Total(k, T) \in Nat
  BY MeasuredPart
<1>2. ASSUME NEW T \in SUBSET S, T # {}, \A x \in T : T \ {x} \in P
      PROVE  T \in P
  <2>1. PICK x \in T : TRUE
    BY <1>2
  <2>2. PICK U \in SUBSET S, A \in SUBSET S, B \in SUBSET S :
            U = T \ {x} /\ A = T \cap R /\ B = T \ R
    OBVIOUS
  <2>3. Total(k, T) = x[k] + Total(k, U) /\ x[k] \in Nat
    BY <1>1, <2>2, TotalWithout
  <2>4. Total(k, U) = Total(k, U \cap R) + Total(k, U \ R)
    BY <1>2, <2>2
  <2>5. U \cap R \in SUBSET S /\ U \ R \in SUBSET S
    OBVIOUS
  <2>5a. Total(k, U \cap R) \in Nat /\ Total(k, U \ R) \in Nat
    BY <1>1, <2>5
  <2>6. CASE x \in R
    <3>1. U \cap R = A \ {x} /\ U \ R = B /\ x \in A
      BY <2>2, <2>6
    <3>2. Total(k, A) = x[k] + Total(k, A \ {x})
      BY <1>1, <3>1, TotalWithout
    <3>3. PICK a \in Nat, b \in Nat : a = Total(k, U \cap R) /\ b = Total(k, U \ R)
      BY <2>5a
    <3>4. Total(k, T) = x[k] + (a + b) /\ Total(k, A) = x[k] + a /\ Total(k, B) = b
      BY <2>3, <2>4, <3>1, <3>2, <3>3
    <3>5. Total(k, T) = Total(k, A) + Total(k, B)
      BY <2>3, <3>3, <3>4
    <3>6. QED
      BY <2>2, <3>5
  <2>7. CASE x \notin R
    <3>1. U \cap R = A /\ U \ R = B \ {x} /\ x \in B
      BY <2>2, <2>7
    <3>2. Total(k, B) = x[k] + Total(k, B \ {x})
      BY <1>1, <3>1, TotalWithout
    <3>3. PICK a \in Nat, b \in Nat : a = Total(k, U \cap R) /\ b = Total(k, U \ R)
      BY <2>5a
    <3>4. Total(k, T) = x[k] + (a + b) /\ Total(k, A) = a /\ Total(k, B) = x[k] + b
      BY <2>3, <2>4, <3>1, <3>2, <3>3
    <3>5. Total(k, T) = Total(k, A) + Total(k, B)
      BY <2>3, <3>3, <3>4
    <3>6. QED
      BY <2>2, <3>5
  <2>8. QED
    BY <2>6, <2>7
<1>3. {} \in P
  <2>1. {} \in SUBSET S /\ {} \cap R = {} /\ {} \ R = {}
    OBVIOUS
  <2>2. Total(k, {}) = 0
    BY <1>1, <2>1, TotalWithout
  <2>3. QED
    BY <2>1, <2>2
<1>4. \A T \in SUBSET S : T \in P
  <2>1. P \in SUBSET (SUBSET S) /\ IsFiniteSet(S)
    BY DEF Measured
  <2> HIDE DEF P
  <2>2. QED
    BY <1>2, <1>3, <2>1, BySize
<1>5. S \cap R = R /\ S \ R \in SUBSET S /\ S \in SUBSET S
  OBVIOUS
<1>6. Q(S)
  BY <1>4, <1>5
<1>7. QED
  BY <1>1, <1>5, <1>6

\* A part adds up to no more.
LEMMA TotalOfPart ==
  ASSUME NEW k, NEW S, Measured(k, S), NEW T \in SUBSET S
  PROVE  Total(k, T) =< Total(k, S) /\ Total(k, T) \in Nat /\ Total(k, S) \in Nat
<1>1. /\ Total(k, S) = Total(k, T) + Total(k, S \ T)
      /\ Total(k, T) \in Nat /\ Total(k, S \ T) \in Nat /\ Total(k, S) \in Nat
  BY TotalOfBoth
<1>2. QED
  BY <1>1

\* Elements that are at most those they are matched with, each with its own.
LEMMA TotalMatched ==
  ASSUME NEW k, NEW S, Measured(k, S), NEW R, Measured(k, R), NEW mate \in [S -> R],
         \A x, y \in S : mate[x] = mate[y] => x = y, \A x \in S : x[k] =< mate[x][k]
  PROVE  Total(k, S) =< Total(k, R)
<1> DEFINE image(T) == {mate[x] : x \in T}
           P == {T \in SUBSET S : Total(k, T) =< Total(k, image(T))}
<1>1. \A T \in SUBSET S : Measured(k, T) /\ Total(k, T) \in Nat
  BY MeasuredPart
<1>2. \A T \in SUBSET R : Measured(k, T) /\ Total(k, T) \in Nat
  BY MeasuredPart
<1>3. {} \in P
  <2>1. image({}) = {} /\ {} \in SUBSET S
    OBVIOUS
  <2>2. Total(k, {}) \in Nat
    BY <1>1, <2>1
  <2>3. Total(k, {}) =< Total(k, image({}))
    BY ONLY <2>1, <2>2
  <2>4. QED
    BY ONLY <2>1, <2>3
<1>4. ASSUME NEW T \in SUBSET S, T # {}, \A x \in T : T \ {x} \in P
      PROVE  T \in P
  <2>1. PICK x \in T : TRUE
    BY <1>4
  <2>2. PICK U, I, J, y : U = T \ {x} /\ I = image(T) /\ J = image(U) /\ y = mate[x]
    OBVIOUS
  <2>2a. U \in SUBSET S /\ I \in SUBSET R /\ J \in SUBSET R /\ y \in R
    BY <2>2
  <2>3. y \in I /\ J = I \ {y}
    <3>1. y \in I
      BY <2>2
    <3>2. \A z \in T : mate[z] = y <=> z = x
      BY <2>2
    <3>3. QED
      BY <2>2, <3>1, <3>2
  <2>4. Total(k, T) = x[k] + Total(k, U) /\ x[k] \in Nat
    <3>1. Measured(k, T)
      BY <1>1
    <3>2. Total(k, T) = x[k] + Total(k, T \ {x}) /\ x[k] \in Nat
      BY <3>1, TotalWithout
    <3>3. QED
      BY <2>2, <3>2
  <2>5. Total(k, I) = y[k] + Total(k, J) /\ y[k] \in Nat
    <3>1. Measured(k, I)
      BY <1>2, <2>2a
    <3>2. QED
      BY <2>3, <3>1, TotalWithout
  <2>6. Total(k, U) =< Total(k, J)
    BY <1>4, <2>2
  <2>7. x[k] =< y[k]
    BY <2>2
  <2>8. Total(k, T) =< Total(k, I)
    BY <1>1, <1>2, <2>2a, <2>4, <2>5, <2>6, <2>7
  <2>9. QED
    BY <2>2, <2>8
<1>5. \A T \in SUBSET S : T \in P
  <2>1. P \in SUBSET (SUBSET S) /\ IsFiniteSet(S)
    BY DEF Measured
  <2> HIDE DEF P
  <2>2. QED
    BY <1>3, <1>4, <2>1, BySize
<1>6. PICK I \in SUBSET R : I = image(S)
  OBVIOUS
<1>7. Total(k, S) =< Total(k, I)
  <2>1. S \in SUBSET S
    OBVIOUS
  <2>2. QED
    BY <1>5, <1>6, <2>1
<1>8. Total(k, I) =< Total(k, R) /\ Total(k, I) \in Nat /\ Total(k, R) \in Nat
  BY TotalOfPart
<1>9. S \in SUBSET S
  OBVIOUS
<1>10. Total(k, S) \in Nat
  BY <1>1, <1>9
<1>11. QED
  BY <1>7, <1>8, <1>10

\* Elements that have at most m times as much of one as of the other.
LEMMA TotalBounded ==
  ASSUME NEW k, NEW l, NEW S, Measured(k, S), Measured(l, S), NEW m \in Nat,
         \A x \in S : x[k] =< m * x[l]
  PROVE  Total(k, S) =< m * Total(l, S)
<1> DEFINE P == {T \in SUBSET S : Total(k, T) =< m * Total(l, T)}
<1>1. \A T \in SUBSET S : /\ Measured(k, T) /\ Total(k, T) \in Nat
                          /\ Measured(l, T) /\ Total(l, T) \in Nat
  BY MeasuredPart
<1>2. {} \in P
  <2>1. {} \in SUBSET S
    OBVIOUS
  <2>2. Total(k, {}) = 0 /\ Total(l, {}) = 0
    BY <1>1, <2>1, TotalWithout
  <2>3. QED
    BY <2>1, <2>2
<1>3. ASSUME NEW T \in SUBSET S, T # {}, \A x \in T : T \ {x} \in P
      PROVE  T \in P
  <2>1. PICK x \in T : TRUE
    BY <1>3
  <2>2. PICK U \in SUBSET S : U = T \ {x}
    OBVIOUS
  <2>3. Total(k, T) = x[k] + Total(k, U) /\ x[k] \in Nat
    BY <1>1, <2>2, TotalWithout
  <2>4. Total(l, T) = x[l] + Total(l, U) /\ x[l] \in Nat
    BY <1>1, <2>2, TotalWithout
  <2>5. Total(k, U) =< m * Total(l, U) /\ x[k] =< m * x[l]
    BY <1>3, <2>2
  <2>6. PICK a \in Nat, b \in Nat, c \in Nat, d \in Nat :
            a = x[k] /\ b = x[l] /\ c = Total(k, U) /\ d = Total(l, U)
    BY <1>1, <2>3, <2>4
  <2>7. m * (b + d) = m * b + m * d
    OBVIOUS
  <2>8. a + c =< m * (b + d)
    <3>1. PICK u \in Nat, v \in Nat : u = m * b /\ v = m * d
      OBVIOUS
    <3>2. a =< u /\ c =< v /\ m * (b + d) = u + v
      BY <2>5, <2>6, <2>7, <3>1
    <3>3. QED
      BY <3>2
  <2>9. QED
    BY <2>3, <2>4, <2>6, <2>8
<1>4. \A T \in SUBSET S : T \in P
  <2>1. P \in SUBSET (SUBSET S) /\ IsFiniteSet(S)
    BY DEF Measured
  <2> HIDE DEF P
  <2>2. QED
    BY <1>2, <1>3, <2>1, BySize
<1>5. S \in SUBSET S
  OBVIOUS
<1>6. QED
  BY <1>4, <1>5

-----------------------------------------------------------------------------
(* Indexes *)

\* The entries of a fingerprint, and those of some fingerprints.
LEMMA LookupIs ==
  ASSUME NEW index1, IsSeq(index1.entries), NEW fp
  PROVE  /\ Lookup(index1, fp) \in Seq(Range(index1.entries))
         /\ Range(Lookup(index1, fp)) = {e \in Range(index1.entries) : e.fingerprint = fp}
<1>1. PICK s, places : s = index1.entries /\ places = {i \in DOMAIN s : s[i].fingerprint = fp}
  OBVIOUS
<1>2. Lookup(index1, fp) = AtPlaces(s, places)
  BY <1>1, Zenon DEF Lookup, Filtered
<1>3. s \in Seq(Range(s)) /\ DOMAIN s = 1..Len(s)
  BY <1>1, LenProperties DEF IsSeq
<1>4. PICK t : t = AtPlaces(s, places)
  OBVIOUS
<1>5. Gathers(t, s, places, Len(s))
  BY <1>3, <1>4, AtPlacesIs
<1>6. t \in Seq(Range(s)) /\ Range(t) = {s[j] : j \in {l \in 1..Len(s) : l \in places}}
  BY <1>5 DEF Gathers
<1>7. {s[j] : j \in {l \in 1..Len(s) : l \in places}} = {e \in Range(s) : e.fingerprint = fp}
  BY <1>1, <1>3 DEF Range
<1>8. QED
  BY <1>1, <1>2, <1>4, <1>6, <1>7

IsIndex(i) == i = [config |-> i.config, documents |-> i.documents, entries |-> i.entries]

\* An index that keeps the entries of some fingerprints.
LEMMA OnlyIs ==
  ASSUME NEW index1, IsIndex(index1), IsSeq(index1.entries), NEW fps,
         NEW only, only = OnlyEntries(index1, fps)
  PROVE  /\ IsIndex(only) /\ only.config = index1.config /\ only.documents = index1.documents
         /\ IsSeq(only.entries)
         /\ Range(only.entries) = {e \in Range(index1.entries) : e.fingerprint \in fps}
<1>1. PICK s, places : /\ s = index1.entries
                       /\ places = {i \in DOMAIN s : s[i].fingerprint \in fps}
  OBVIOUS
<1>2. PICK t : t = AtPlaces(s, places)
  OBVIOUS
<1>3. only = [index1 EXCEPT !.entries = t]
  BY <1>1, <1>2, Zenon DEF OnlyEntries, Filtered
<1>4. s \in Seq(Range(s)) /\ DOMAIN s = 1..Len(s)
  BY <1>1, LenProperties DEF IsSeq
<1>5. Gathers(t, s, places, Len(s))
  BY <1>2, <1>4, AtPlacesIs
<1>6. t \in Seq(Range(s)) /\ Range(t) = {s[j] : j \in {l \in 1..Len(s) : l \in places}}
  BY <1>5 DEF Gathers
<1>7. {s[j] : j \in {l \in 1..Len(s) : l \in places}} = {e \in Range(s) : e.fingerprint \in fps}
  BY <1>1, <1>4 DEF Range
<1>8. /\ IsIndex(only) /\ only.config = index1.config /\ only.documents = index1.documents
      /\ only.entries = t
  <2>1. PICK a, b, c : index1 = [config |-> a, documents |-> b, entries |-> c]
    BY DEF IsIndex
  <2>2. only = [config |-> a, documents |-> b, entries |-> t]
    BY <1>3, <2>1
  <2>3. QED
    BY <2>1, <2>2 DEF IsIndex
<1>9. IsSeq(t)
  BY <1>6, SeqIs
<1>10. QED
  BY <1>1, <1>6, <1>7, <1>8, <1>9

-----------------------------------------------------------------------------
(* The features of a text *)

Grams == [fingerprint : Nat, position : Nat]
\* No position twice.
Apart(features) ==
    \A i, j \in DOMAIN features : features[i].position = features[j].position => i = j

\* The features of a text are what winnowing keeps, each at its own position.
LEMMA FeaturesAre ==
  ASSUME HashesAreNumbers, NEW tokens, IsSeq(tokens), NEW config,
         config.q \in Nat \ {0}, config.window \in Nat \ {0},
         NEW features, features = Features(tokens, config)
  PROVE  /\ features \in Seq(Grams) /\ Apart(features)
         /\ KeepsMinima(features, tokens, config.q, config.window)
<1>1. PICK q, w, all, f, s :
        /\ q = config.q /\ w = config.window /\ all = QGramHashes(tokens, q)
        /\ f = Fingerprints(all) /\ s = Winnowed(f, w) /\ q \in Nat \ {0} /\ w \in Nat \ {0}
  OBVIOUS
<1>2. /\ f \in Seq(Nat) /\ DOMAIN all = 1..Len(f)
      /\ \A i \in 1..Len(f) : all[i] = [fingerprint |-> f[i], position |-> i - 1]
  BY <1>1, HashesOf DEF IsSeq
<1>3. s \in Seq(Nat) /\ Climbs(s) /\ Range(s) = Minima(f, w, Len(f))
  BY <1>1, <1>2, WinnowedCovers
<1>4. PICK n \in Nat, m \in Nat : n = Len(f) /\ m = Len(s) /\ DOMAIN s = 1..m
  BY <1>2, <1>3, LenProperties
<1>5. Range(s) \in SUBSET (1..n)
  BY <1>1, <1>2, <1>3, <1>4, MinimaIn
<1>6. \A k \in 1..m : s[k] \in 1..n
  BY <1>4, <1>5 DEF Range
<1>7. features = [k \in 1..m |-> all[s[k]]]
  BY <1>1, <1>4, Zenon DEF Features, Winnow, Selected
<1>8. \A k \in 1..m : /\ features[k] = [fingerprint |-> f[s[k]], position |-> s[k] - 1]
                      /\ features[k] \in Grams
  <2>1. TAKE k \in 1..m
  <2>2. PICK i \in 1..n : i = s[k]
    BY <1>6
  <2>3. features[k] = [fingerprint |-> f[i], position |-> i - 1]
    BY <1>2, <1>4, <1>7, <2>2
  <2>4. f[i] \in Nat /\ i - 1 \in Nat
    BY <1>2, <1>4
  <2>5. QED
    BY <2>2, <2>3, <2>4 DEF Grams
<1>9. features \in Seq(Grams) /\ DOMAIN features = 1..m
  <2>1. features \in [1..m -> Grams]
    BY <1>7, <1>8
  <2>2. QED
    BY <2>1, FunctionIsSeq
<1>10. Apart(features)
  <2>1. ASSUME NEW i \in 1..m, NEW j \in 1..m, features[i].position = features[j].position
        PROVE  i = j
    <3>1. PICK a \in 1..n, b \in 1..n : a = s[i] /\ b = s[j]
      BY <1>6
    <3>2. features[i] = [fingerprint |-> f[a], position |-> a - 1]
      BY <1>8, <3>1
    <3>3. features[j] = [fingerprint |-> f[b], position |-> b - 1]
      BY <1>8, <3>1
    <3>4. a = b
      BY <2>1, <3>2, <3>3
    <3>5. ~(i < j) /\ ~(j < i)
      <4>1. \A k, l \in 1..m : k < l => s[k] < s[l]
        BY <1>3, <1>4, Zenon DEF Climbs
      <4>2. s[i] = s[j] /\ s[i] \in Nat
        BY <3>1, <3>4
      <4>3. QED
        BY <4>1, <4>2
    <3>6. QED
      BY <3>5
  <2>2. QED
    BY <1>9, <2>1 DEF Apart
<1>11. Range(features) = {all[i] : i \in Range(s)}
  <2>1. features = Selected(all, s)
    BY <1>1, Zenon DEF Features, Winnow
  <2>2. QED
    BY <2>1, SelectedRange
<1>12. KeepsMinima(features, tokens, q, w)
  <2>1. Range(s) = Minima(GramsOf(tokens, q), w, Len(GramsOf(tokens, q)))
    BY <1>1, <1>3, Zenon DEF GramsOf
  <2>2. PICK M : M = Minima(GramsOf(tokens, q), w, Len(GramsOf(tokens, q)))
    OBVIOUS
  <2>3. Range(s) = M
    BY <2>1, <2>2, Zenon
  <2>4. Range(features) = {all[i] : i \in M}
    BY <1>11, <2>3, Zenon
  <2>5. Range(features) = {QGramHashes(tokens, q)[i] : i \in M}
    BY <1>1, <2>4, Zenon
  <2>6. QED
    BY <2>2, <2>5, Zenon DEF KeepsMinima
<1>13. QED
  BY <1>1, <1>9, <1>10, <1>12

\* So are those a search selects.
LEMMA SelectionIs ==
  ASSUME HashesAreNumbers, NEW asked, IsSeq(asked), NEW config,
         config.q \in Nat \ {0}, config.window \in Nat \ {0},
         NEW features, features = Selection(asked, config)
  PROVE  features \in Seq(Grams) /\ Apart(features)
<1>1. CASE Len(asked) < config.q
  <2>1. features = <<>>
    BY <1>1 DEF Selection
  <2>2. QED
    BY <2>1 DEF Apart
<1>2. CASE ~(Len(asked) < config.q)
  BY <1>2, FeaturesAre DEF Selection
<1>3. QED
  BY <1>1, <1>2

\* As often as a fingerprint occurs, so many positions it has.
LEMMA PositionsAre ==
  ASSUME NEW features \in Seq(Grams), Apart(features), NEW fp
  PROVE  /\ Occurrences(features, fp) \in Nat
         /\ Len(PositionsOf(features, fp)) = Occurrences(features, fp)
<1>1. PICK n \in Nat : n = Len(features) /\ DOMAIN features = 1..n
  BY LenProperties
<1>2. PICK I : I = {i \in 1..n : features[i].fingerprint = fp}
  OBVIOUS
<1>3. IsFiniteSet(I) /\ Cardinality(I) \in Nat
  <2>1. I \in SUBSET (1..n) /\ IsFiniteSet(1..n)
    BY <1>2, FS_Interval
  <2>2. QED
    BY <2>1, FS_Subset, FS_CardinalityType
<1>4. PICK P : P = {features[i].position : i \in I}
  OBVIOUS
<1>5. [i \in I |-> features[i].position] \in Bijection(I, P)
  <2>1. \A i \in I : i \in DOMAIN features
    BY <1>1, <1>2
  <2>2. \A i, j \in I : features[i].position = features[j].position => i = j
    BY <2>1 DEF Apart
  <2>3. QED
    BY <1>4, <2>2 DEF Bijection, Injection, Surjection, IsInjective
<1>6. IsFiniteSet(P) /\ Cardinality(P) = Cardinality(I)
  <2>1. ExistsBijection(I, P)
    BY <1>5, Zenon DEF ExistsBijection
  <2>2. QED
    BY <1>3, <2>1, FS_Bijection
<1>7. P \in SUBSET Nat
  <2>1. \A i \in I : features[i] \in Grams
    BY <1>1, <1>2, ElementOfSeq
  <2>2. QED
    BY <1>4, <2>1 DEF Grams
<1>8. PositionsOf(features, fp) = InOrder(P)
  BY <1>1, <1>2, <1>4, Zenon DEF PositionsOf, InOrder
<1>9. Len(InOrder(P)) = Cardinality(P)
  BY <1>6, <1>7, NumbersOrdered
<1>10. Occurrences(features, fp) = Cardinality(I)
  BY <1>1, <1>2 DEF Occurrences
<1>11. QED
  BY <1>3, <1>6, <1>8, <1>9, <1>10

-----------------------------------------------------------------------------
(* What an index knows of a query *)

EachOnce(entries) == \A e, f \in Range(entries) : e.fingerprint = f.fingerprint => e = f
Dictionary(entries) ==
    IsSeq(entries) /\ EachOnce(entries) /\ \A e \in Range(entries) : Len(e.postings) \in Nat

\* The dictionary of an index that is built.
LEMMA IndexIs ==
  ASSUME HashesAreNumbers, NEW texts, IsSeq(texts), \A d \in DOMAIN texts : IsSeq(texts[d]),
         NEW config, ValidConfig(config), NEW idx, idx = IndexOf(texts, config)
  PROVE  /\ IsIndex(idx) /\ idx.config = config /\ IsSeq(idx.documents)
         /\ idx.entries \in Seq(Entries) /\ Dictionary(idx.entries)
<1>1. PICK q, w, p, n : /\ q = config.q /\ w = config.window /\ p = config.profile
                        /\ n = Len(texts)
  OBVIOUS
<1>2. q \in Nat \ {0} /\ w \in Nat \ {0} /\ n \in Nat /\ DOMAIN texts = 1..n
  BY <1>1, ValidConfigIs, LenProperties DEF IsSeq
<1>3. PICK docs, lists :
        /\ docs = [d \in 1..n |-> Normalize(texts[d], p)]
        /\ lists = [d \in 1..n |-> Features(Normalize(texts[d], p), config)]
  OBVIOUS
<1>4. idx = [config |-> config, documents |-> docs, entries |-> BuildEntries(lists)]
  BY <1>1, <1>2, <1>3, Zenon DEF IndexOf, MappedSeq
<1>5. IsSeq(docs) /\ IsSeq(lists) /\ Len(docs) = n /\ Len(lists) = n
      /\ DOMAIN docs = 1..n /\ DOMAIN lists = 1..n
  <2>1. PICK A, B : A = {Normalize(texts[d], p) : d \in 1..n}
                    /\ B = {Features(Normalize(texts[d], p), config) : d \in 1..n}
    OBVIOUS
  <2>2. docs \in [1..n -> A] /\ lists \in [1..n -> B]
    BY <1>3, <2>1
  <2>3. docs \in Seq(A) /\ lists \in Seq(B)
    BY <1>2, <2>2, FunctionIsSeq
  <2>4. IsSeq(docs) /\ IsSeq(lists)
    BY <2>3, SeqIs
  <2>5. QED
    BY <1>2, <2>2, <2>3, <2>4
<1>6. ASSUME NEW d \in 1..n
      PROVE  IsSeq(docs[d]) /\ KeepsMinima(lists[d], docs[d], q, w)
  <2>1. PICK tokens : tokens = Normalize(texts[d], p)
    OBVIOUS
  <2>2. docs[d] = tokens /\ lists[d] = Features(tokens, config)
    BY <1>3, <2>1
  <2>3. IsSeq(tokens)
    BY <1>2, <2>1, NormalizeIs
  <2>4. KeepsMinima(lists[d], tokens, q, w)
    BY <1>1, <1>2, <2>2, <2>3, FeaturesAre
  <2>5. QED
    BY <2>2, <2>3, <2>4
<1>7. IsKept(lists, docs, q, w)
  BY <1>2, <1>5, <1>6 DEF IsKept
<1>8. PICK entries : entries = BuildEntries(lists)
  OBVIOUS
<1>9. IsSound(entries, docs, q)
  BY <1>2, <1>7, <1>8, BuiltIs
<1>10. PICK m : m = Len(entries)
  OBVIOUS
<1>11. /\ entries \in Seq(Entries) /\ m \in Nat /\ DOMAIN entries = 1..m
       /\ \A i \in 1..m : entries[i] \in Entries
       /\ \A i \in 1..(m - 1) : entries[i].fingerprint < entries[i + 1].fingerprint
  BY <1>9, <1>10, LenProperties, ElementOfSeq DEF IsSound
<1>12. ASSUME NEW i \in 1..m
       PROVE  \A k \in 0..(m - i) : k > 0 => entries[i].fingerprint < entries[i + k].fingerprint
  <2> DEFINE K == {k \in 0..(m - i) : k > 0 => entries[i].fingerprint < entries[i + k].fingerprint}
  <2>1. 0 \in K
    BY <1>11
  <2>2. ASSUME NEW k \in 0..(m - i), k \in K, k < m - i
        PROVE  k + 1 \in K
    <3>1. PICK j \in 1..(m - 1) : j = i + k
      BY <1>11, <2>2
    <3>2. j + 1 = i + (k + 1) /\ j + 1 \in 1..m /\ j \in 1..m /\ k + 1 \in 0..(m - i)
      BY <1>11, <2>2, <3>1
    <3>3. entries[j].fingerprint < entries[j + 1].fingerprint
      BY <1>11
    <3>4. /\ entries[i].fingerprint \in Nat /\ entries[j].fingerprint \in Nat
          /\ entries[j + 1].fingerprint \in Nat
      BY <1>11, <3>2 DEF Entries
    <3>5. k = 0 => j = i
      BY <1>11, <3>1
    <3>6. k > 0 => entries[i].fingerprint < entries[j].fingerprint
      BY <2>2, <3>1
    <3>7. entries[i].fingerprint < entries[j + 1].fingerprint
      BY <3>3, <3>4, <3>5, <3>6
    <3>8. QED
      BY <3>2, <3>7
  <2>3. m - i \in Nat
    BY <1>11
  <2>4. \A k \in 0..(m - i) : k \in K
    <3> HIDE DEF K
    <3>1. QED
      BY <2>1, <2>2, <2>3, UpTo
  <2>5. QED
    BY <2>4
<1>13. ASSUME NEW i \in 1..m, NEW j \in 1..m, i < j
       PROVE  entries[i].fingerprint # entries[j].fingerprint
  <2>1. j - i \in 0..(m - i) /\ j - i > 0 /\ i + (j - i) = j
    BY <1>11, <1>13
  <2>2. entries[i].fingerprint < entries[j].fingerprint
    BY <1>12, <2>1
  <2>3. entries[i].fingerprint \in Nat /\ entries[j].fingerprint \in Nat
    BY <1>11 DEF Entries
  <2>4. QED
    BY <2>2, <2>3
<1>14. EachOnce(entries)
  <2>1. ASSUME NEW i \in 1..m, NEW j \in 1..m,
               entries[i].fingerprint = entries[j].fingerprint
        PROVE  i = j
    BY <1>11, <1>13, <2>1
  <2>2. QED
    BY <1>11, <2>1 DEF EachOnce, Range
<1>15. \A e \in Range(entries) : Len(e.postings) \in Nat
  BY <1>11, LenProperties DEF Range, Entries
<1>16. IsSeq(entries)
  BY <1>11, SeqIs
<1>17. Dictionary(entries)
  BY <1>14, <1>15, <1>16 DEF Dictionary
<1>18. QED
  BY <1>4, <1>5, <1>8, <1>11, <1>17 DEF IsIndex

\* The entries the features of a asked lead to.
Met(idx, features) == {e \in Range(idx.entries) : e.fingerprint \in Distinct(features)}

\* What is known of them: each costs its postings as often as it occurs.
Surveyed(known) ==
    /\ IsFiniteSet(known)
    /\ \A c \in known : /\ c.postings \in Nat /\ c.occurrences \in Nat /\ c.pairs \in Nat
                        /\ c.pairs = c.postings * c.occurrences
    /\ \A c, d \in known : c.fingerprint = d.fingerprint => c = d

\* What is said of an entry.
Said(idx, features, e) ==
    KnownFeature(Len(idx.documents), Occurrences(features, e.fingerprint), e)

\* A finite dictionary leads to finitely many entries.
LEMMA MetIs ==
  ASSUME NEW idx, IsSeq(idx.entries), NEW features
  PROVE  IsFiniteSet(Met(idx, features)) /\ IsFiniteSet(Range(idx.entries))
<1>1. PICK s, n : s = idx.entries /\ n = Len(s)
  OBVIOUS
<1>2. n \in Nat /\ DOMAIN s = 1..n
  BY <1>1, LenProperties DEF IsSeq
<1>3. PICK R : R = Range(s)
  OBVIOUS
<1>4. [i \in 1..n |-> s[i]] \in Surjection(1..n, R)
  BY <1>2, <1>3 DEF Surjection, Range
<1>5. IsFiniteSet(R)
  BY <1>2, <1>4, FS_Interval, FS_Surjection
<1>6. Met(idx, features) \subseteq R
  BY <1>1, <1>3 DEF Met
<1>7. QED
  BY <1>1, <1>3, <1>5, <1>6, FS_Subset

\* An index knows the entries the features lead to, each once.
LEMMA KnownIs ==
  ASSUME NEW idx, Dictionary(idx.entries), NEW features \in Seq(Grams), Apart(features),
         NEW known, known = KnownFeatures(idx, features)
  PROVE  /\ Surveyed(known) /\ Measured("pairs", known) /\ Measured("occurrences", known)
         /\ known = {Said(idx, features, e) : e \in Met(idx, features)}
<1>1. \A fp : Range(Lookup(idx, fp)) = {e \in Range(idx.entries) : e.fingerprint = fp}
  BY LookupIs DEF Dictionary
<1>2. UNION {Range(Lookup(idx, fp)) : fp \in Distinct(features)} = Met(idx, features)
  BY <1>1 DEF Met
<1>3. known = {Said(idx, features, e) : e \in Met(idx, features)}
  BY <1>2, Zenon DEF KnownFeatures, Said
<1>4. IsFiniteSet(known)
  <2>1. IsFiniteSet(Met(idx, features))
    BY MetIs DEF Dictionary
  <2>2. [e \in Met(idx, features) |-> Said(idx, features, e)]
            \in Surjection(Met(idx, features), known)
    BY <1>3 DEF Surjection
  <2>3. QED
    BY <2>1, <2>2, FS_Surjection
<1>5. ASSUME NEW e \in Met(idx, features), NEW c, c = Said(idx, features, e)
      PROVE  /\ c.postings \in Nat /\ c.occurrences \in Nat /\ c.pairs \in Nat
             /\ c.pairs = c.postings * c.occurrences /\ c.fingerprint = e.fingerprint
  <2>1. PICK o, l : o = Occurrences(features, e.fingerprint) /\ l = Len(e.postings)
    OBVIOUS
  <2>2. o \in Nat /\ l \in Nat
    BY <2>1, PositionsAre DEF Met, Dictionary
  <2>3. l * o \in Nat
    BY <2>2
  <2>4. /\ c.postings = l /\ c.occurrences = o /\ c.pairs = l * o
        /\ c.fingerprint = e.fingerprint
    BY <1>5, <2>1 DEF Said, KnownFeature
  <2>5. QED
    BY <2>2, <2>3, <2>4
<1>6. \A c \in known : /\ c.postings \in Nat /\ c.occurrences \in Nat /\ c.pairs \in Nat
                       /\ c.pairs = c.postings * c.occurrences
  BY <1>3, <1>5
<1>7. ASSUME NEW c \in known, NEW d \in known, c.fingerprint = d.fingerprint
      PROVE  c = d
  <2>1. PICK e \in Met(idx, features) : c = Said(idx, features, e)
    BY <1>3
  <2>2. PICK f \in Met(idx, features) : d = Said(idx, features, f)
    BY <1>3
  <2>3. e.fingerprint = f.fingerprint
    BY <1>5, <1>7, <2>1, <2>2
  <2>4. e = f
    BY <2>3 DEF Met, Dictionary, EachOnce
  <2>5. QED
    BY <2>1, <2>2, <2>4
<1>8. Surveyed(known)
  BY <1>4, <1>6, <1>7 DEF Surveyed
<1>9. QED
  BY <1>3, <1>4, <1>6, <1>8 DEF Measured

\* With only the entries of some features the index knows just those.
LEMMA OnlyKnown ==
  ASSUME NEW idx, IsIndex(idx), Dictionary(idx.entries), NEW features \in Seq(Grams),
         Apart(features), NEW known, known = KnownFeatures(idx, features),
         NEW R \in SUBSET known, NEW only, only = OnlyEntries(idx, {c.fingerprint : c \in R})
  PROVE  KnownFeatures(only, features) = R /\ only.config = idx.config
<1>1. PICK F : F = {c.fingerprint : c \in R}
  OBVIOUS
<1>2. /\ only.config = idx.config /\ only.documents = idx.documents /\ IsSeq(only.entries)
      /\ Range(only.entries) = {e \in Range(idx.entries) : e.fingerprint \in F}
  BY <1>1, OnlyIs DEF Dictionary
<1>3. Dictionary(only.entries)
  BY <1>2 DEF Dictionary, EachOnce
<1>4. Met(only, features) = {e \in Met(idx, features) : e.fingerprint \in F}
  BY <1>2 DEF Met
<1>5. \A e : Said(only, features, e) = Said(idx, features, e)
  BY <1>2 DEF Said
<1>6. known = {Said(idx, features, e) : e \in Met(idx, features)} /\ Surveyed(known)
  BY KnownIs
<1>7. KnownFeatures(only, features) = {Said(idx, features, e) : e \in Met(only, features)}
  <2>1. KnownFeatures(only, features) = {Said(only, features, e) : e \in Met(only, features)}
    <3>1. PICK k : k = KnownFeatures(only, features)
      OBVIOUS
    <3>2. PICK j : j = only
      OBVIOUS
    <3>3. Dictionary(j.entries) /\ k = KnownFeatures(j, features)
      BY <1>3, <3>1, <3>2
    <3>4. k = {Said(j, features, e) : e \in Met(j, features)}
      BY ONLY features \in Seq(Grams), Apart(features), <3>3, KnownIs
    <3>5. k = {Said(only, features, e) : e \in Met(only, features)}
      BY <3>2, <3>4
    <3>6. QED
      BY <3>1, <3>5
  <2>2. QED
    BY <1>5, <2>1
<1>8. \A e : Said(idx, features, e).fingerprint = e.fingerprint
  BY DEF Said, KnownFeature
<1>9. ASSUME NEW e \in Met(only, features)
      PROVE  Said(idx, features, e) \in R
  <2>1. PICK c \in R : c.fingerprint = e.fingerprint
    BY <1>1, <1>4
  <2>2. Said(idx, features, e) \in known
    BY <1>4, <1>6
  <2>3. QED
    BY <1>6, <1>8, <2>1, <2>2 DEF Surveyed
<1>10. ASSUME NEW c \in R
       PROVE  \E e \in Met(only, features) : c = Said(idx, features, e)
  <2>1. PICK e \in Met(idx, features) : c = Said(idx, features, e)
    BY <1>6
  <2>2. e.fingerprint \in F
    BY <1>1, <1>8, <2>1
  <2>3. QED
    BY <1>4, <2>1, <2>2
<1>11. KnownFeatures(only, features) = R
  BY <1>7, <1>9, <1>10
<1>12. QED
  BY <1>2, <1>11

-----------------------------------------------------------------------------
(* Within a budget *)

\* The features taken within a budget cost no more than that.
LEMMA WithinBudgetIs ==
  ASSUME NEW C, Surveyed(C), \A c \in C : c.idf \in Int /\ c.fingerprint \in Int,
         NEW budget \in Nat, NEW chosen, chosen = WithinBudget(C, budget)
  PROVE  chosen \in SUBSET C /\ PairsIn(chosen) <= budget
<1>1. PICK key, s : key = [c \in C |-> <<c.pairs, c.postings, -c.idf, c.fingerprint>>]
                    /\ s = OrderedBy(C, key)
  OBVIOUS
<1>2. s \in Seq(C)
  <2>1. ASSUME NEW c \in C
        PROVE  <<c.pairs, c.postings, -c.idf, c.fingerprint>> \in Keys(4)
    <3>1. c.pairs \in Int /\ c.postings \in Int /\ -c.idf \in Int /\ c.fingerprint \in Int
      BY DEF Surveyed
    <3>2. PICK a \in Int, b \in Int, d \in Int, e \in Int :
              a = c.pairs /\ b = c.postings /\ d = -c.idf /\ e = c.fingerprint
      BY <3>1
    <3>3. <<a, b, d, e>> \in Keys(4)
      BY KeyOfFour
    <3>4. QED
      BY <3>2, <3>3
  <2>2. key \in [C -> Keys(4)]
    BY <1>1, <2>1
  <2>3. Sorts(s, C, key)
    BY <1>1, <2>2, OrderedByIs DEF Surveyed
  <2>4. QED
    BY <2>3 DEF Sorts
<1>3. PICK n \in Nat : n = Len(s) /\ DOMAIN s = 1..n
  BY <1>2, LenProperties
<1>4. \A i \in 1..n : s[i] \in C
  BY <1>2, <1>3, ElementOfSeq
<1> DEFINE X == {T \in SUBSET C : PairsIn(T) <= budget}
           one(T, c) == IF PairsIn(T) + c.pairs > budget THEN T ELSE T \cup {c}
           step == [i \in 1..n |-> [T \in X |-> one(T, s[i])]]
           Body(g) == [T \in SUBSET (1..n) |->
                         IF T = {} THEN {} ELSE one(g[T \ {Max(T)}], s[Max(T)])]
           iter == CHOOSE g : g = Body(g)
<1>5. Measured("pairs", C) /\ \A T : PairsIn(T) = Total("pairs", T)
  <2>1. ASSUME NEW T
        PROVE  PairsIn(T) = Total("pairs", T)
    BY Zenon DEF PairsIn, Total
  <2>2. QED
    BY <2>1 DEF Measured, Surveyed
<1>6. {} \in X
  BY <1>5, TotalWithout, MeasuredPart
<1>7. ASSUME NEW T \in X, NEW c \in C
      PROVE  one(T, c) \in X
  <2>1. CASE PairsIn(T) + c.pairs > budget
    BY <2>1
  <2>2. CASE ~(PairsIn(T) + c.pairs > budget)
    <3>1. PICK U \in SUBSET C : U = T \cup {c}
      OBVIOUS
    <3>2. CASE c \in T
      <4>1. U = T
        BY <3>1, <3>2
      <4>2. QED
        BY <2>2, <3>1, <4>1
    <3>3. CASE c \notin T
      <4>1. U \ {c} = T /\ c \in U /\ T \in SUBSET C
        BY <3>1, <3>3
      <4>2. Measured("pairs", U) /\ Measured("pairs", T)
        BY <1>5, MeasuredPart
      <4>3. Total("pairs", U) = c.pairs + Total("pairs", T) /\ Total("pairs", T) \in Nat
            /\ c.pairs \in Nat
        BY <4>1, <4>2, TotalWithout
      <4>4. PairsIn(U) <= budget
        BY <1>5, <2>2, <4>3
      <4>5. QED
        BY <2>2, <3>1, <4>4
    <3>4. QED
      BY <3>2, <3>3
  <2>3. QED
    BY <2>1, <2>2
<1>8. step \in [1..n -> [X -> X]]
  <2> HIDE DEF X, one
  <2>1. QED
    BY <1>4, <1>7
<1>9. ASSUME NEW g, NEW T \in SUBSET (1..n), T # {}, g[T \ {Max(T)}] \in X
      PROVE  Body(g)[T] = step[Max(T)][g[T \ {Max(T)}]]
  <2>1. Max(T) \in 1..n
    <3>1. T \in SUBSET (0..n)
      OBVIOUS
    <3>2. QED
      BY <1>9, <3>1, MaxIs
  <2> HIDE DEF X, one
  <2>2. QED
    BY <1>9, <2>1
<1>10. PICK g \in [SUBSET (1..n) -> X] : FoldsUp(g, {}, step, n)
  <2> HIDE DEF step, X
  <2>1. QED
    BY <1>6, <1>8, Folding
<1>11. g = Body(g)
  <2>1. ASSUME NEW T \in SUBSET (1..n)
        PROVE  g[T] = Body(g)[T]
    <3>1. CASE T = {}
      BY <1>10, <3>1 DEF FoldsUp
    <3>2. CASE T # {}
      <4>1. g[T] = step[Max(T)][g[T \ {Max(T)}]] /\ g[T \ {Max(T)}] \in X
        <5> HIDE DEF step, X
        <5>1. QED
          BY <1>10, <3>2 DEF FoldsUp
      <4> HIDE DEF Body, step, X
      <4>2. QED
        BY <1>9, <3>2, <4>1
    <3>3. QED
      BY <3>1, <3>2
  <2>2. DOMAIN g = SUBSET (1..n)
    BY <1>10
  <2> HIDE DEF one, X
  <2>3. QED
    BY <2>1, <2>2
<1>12. iter = Body(iter)
  BY <1>11, Zenon
<1>13. chosen = iter[1..n]
  BY <1>1, <1>3, Zenon DEF WithinBudget, Ordered, FoldLeft, MapThenFoldSet
<1> HIDE DEF iter
<1>14. iter[1..n] \in X
  <2>1. iter[{}] = {}
    <3>1. {} \in SUBSET (1..n)
      OBVIOUS
    <3> HIDE DEF one
    <3>2. QED
      BY <1>12, <3>1
  <2>2. FoldsIn(iter, {}, step, n, X)
    <3> HIDE DEF step, Body, X
    <3>1. QED
      BY <1>9, <1>12, <2>1 DEF FoldsIn
  <2> HIDE DEF step, Body, X
  <2>3. PICK p, h : p = step /\ h = iter
    OBVIOUS
  <2>4. p \in [1..n -> [X -> X]] /\ FoldsIn(h, {}, p, n, X)
    BY <1>8, <2>2, <2>3
  <2>5. \E P \in [0..n -> X] : Iterates(P, {}, p, n) /\ h[1..n] = P[n]
    BY <1>6, <2>4, Folded, SMTT(60)
  <2>6. QED
    BY <2>3, <2>5
<1>15. QED
  BY <1>13, <1>14

-----------------------------------------------------------------------------
(* Domains *)

\* An index to search in.
Usable(idx) ==
    /\ IsIndex(idx) /\ Dictionary(idx.entries)
    /\ idx.config.q \in Nat \ {0} /\ idx.config.window \in Nat \ {0}
    /\ IsSeq(idx.documents)

\* What the search of a decision goes through.
WorkOf(d, asked) ==
    PairsIn(Light(KnownFeatures(d.index, Selection(asked, d.index.config)), d.options))
Balanced(c) ==
    /\ c.selected = c.missing + c.retained + c.byPostingCap + c.byDocumentFrequency
                        + c.byIdf + c.byBudget
    /\ c.pairsAfter =< c.pairsBefore
DomainHolds(d, asked, budget) ==
    /\ d.status = "executed" =>
            WorkOf(d, asked) = d.counts.pairsAfter /\ WorkOf(d, asked) =< budget
    /\ Balanced(d.counts)

\* Every known feature is counted under one reason.
LEMMA ReasonsAddUp ==
  ASSUME NEW known, Measured("occurrences", known), NEW limits, NEW options
  PROVE  \E p, d, i, e \in Nat :
            /\ p = OccurrencesIn(Because(known, "posting_cap", limits, options))
            /\ d = OccurrencesIn(Because(known, "document_frequency", limits, options))
            /\ i = OccurrencesIn(Because(known, "idf", limits, options))
            /\ e = OccurrencesIn(Because(known, "eligible", limits, options))
            /\ OccurrencesIn(known) = p + d + i + e
<1> DEFINE B(r) == Because(known, r, limits, options)
           T(S) == Total("occurrences", S)
<1>1. \A S : OccurrencesIn(S) = T(S)
  <2>1. ASSUME NEW S
        PROVE  OccurrencesIn(S) = T(S)
    BY Zenon DEF OccurrencesIn, Total
  <2>2. QED
    BY <2>1
<1>2. PICK P, D, I, E : /\ P = B("posting_cap") /\ D = B("document_frequency") /\ I = B("idf")
                        /\ E = B("eligible")
  OBVIOUS
<1>3. /\ P = {c \in known : Reason(c, limits, options) = "posting_cap"}
      /\ D = {c \in known : Reason(c, limits, options) = "document_frequency"}
      /\ I = {c \in known : Reason(c, limits, options) = "idf"}
      /\ E = {c \in known : Reason(c, limits, options) = "eligible"}
  BY <1>2 DEF Because
<1>4. \A c : Reason(c, limits, options) \in {"posting_cap", "document_frequency", "idf", "eligible"}
  BY Zenon DEF Reason
<1>5. PICK A, C : A = known \ P /\ C = A \ D
  OBVIOUS
<1>6. P \in SUBSET known /\ D \in SUBSET A /\ I \in SUBSET C /\ C \ I = E
      /\ A \in SUBSET known /\ C \in SUBSET known
  BY <1>3, <1>4, <1>5
<1>7. Measured("occurrences", A) /\ Measured("occurrences", C)
  BY <1>6, MeasuredPart
<1>8. /\ T(known) = T(P) + T(A) /\ T(P) \in Nat /\ T(A) \in Nat
      /\ T(A) = T(D) + T(C) /\ T(D) \in Nat /\ T(C) \in Nat
      /\ T(C) = T(I) + T(E) /\ T(I) \in Nat /\ T(E) \in Nat
  <2>1. \A X, Y : Measured("occurrences", X) /\ Y \in SUBSET X
          => /\ Total("occurrences", X) = Total("occurrences", Y) + Total("occurrences", X \ Y)
             /\ Total("occurrences", Y) \in Nat /\ Total("occurrences", X \ Y) \in Nat
    <3>1. SUFFICES ASSUME NEW X, NEW Y, Measured("occurrences", X), Y \in SUBSET X
                   PROVE  /\ Total("occurrences", X)
                               = Total("occurrences", Y) + Total("occurrences", X \ Y)
                          /\ Total("occurrences", Y) \in Nat
                          /\ Total("occurrences", X \ Y) \in Nat
      OBVIOUS
    <3>2. QED
      BY ONLY <3>1, TotalOfBoth
  <2>2. /\ P \in SUBSET known /\ Measured("occurrences", known) /\ known \ P = A
        /\ D \in SUBSET A /\ Measured("occurrences", A) /\ A \ D = C
        /\ I \in SUBSET C /\ Measured("occurrences", C) /\ C \ I = E
    BY <1>5, <1>6, <1>7
  <2>3. T(known) = T(P) + T(A) /\ T(P) \in Nat /\ T(A) \in Nat
    BY <2>1, <2>2
  <2>4. T(A) = T(D) + T(C) /\ T(D) \in Nat /\ T(C) \in Nat
    BY <2>1, <2>2
  <2>5. T(C) = T(I) + T(E) /\ T(I) \in Nat /\ T(E) \in Nat
    BY <2>1, <2>2
  <2>6. QED
    BY <2>3, <2>4, <2>5
<1> HIDE DEF T
<1>9. PICK p \in Nat, d \in Nat, i \in Nat, e \in Nat :
          p = T(P) /\ d = T(D) /\ i = T(I) /\ e = T(E)
  BY <1>8
<1>10. T(known) = p + d + i + e
  BY <1>8, <1>9
<1>11. QED
  BY <1>1, <1>2, <1>9, <1>10

\* A search under a domain's policy keeps its budget and counts every feature once.
LEMMA DomainIs ==
  ASSUME HashesAreNumbers, NEW idx, Usable(idx), idx.entries \in Seq(Entries),
         NEW asked, IsSeq(asked), NEW policy, policy.maxPairs \in Nat,
         NEW options, options.maxPairs \in Nat, options.maxPostings \in Nat,
         NEW d, d = SearchDomain(idx, asked, policy, options)
  PROVE  DomainHolds(d, asked, Smaller(policy.maxPairs, options.maxPairs))
<1>1. CASE Len(asked) < idx.config.q
  <2>1. \/ d = Searches("short_query_direct_fallback", NoDomainCounts, idx, options)
        \/ d = SearchesNothing("insufficient_informative_evidence", NoDomainCounts)
    BY <1>1, Zenon DEF SearchDomain, FallBack
  <2>2. d.status # "executed" /\ d.counts = NoDomainCounts
    BY <2>1 DEF Searches, SearchesNothing
  <2>3. Balanced(NoDomainCounts)
    BY DEF Balanced, NoDomainCounts
  <2>4. QED
    BY <2>2, <2>3 DEF DomainHolds
<1>2. CASE ~(Len(asked) < idx.config.q)
  <2>1. PICK config, features, limits, known :
          /\ config = idx.config /\ features = Features(asked, config)
          /\ limits = Effective(policy, options) /\ known = KnownFeatures(idx, features)
    OBVIOUS
  <2>2. PICK eligible, budget :
          /\ eligible = Because(known, "eligible", limits, options)
          /\ budget = limits.maxPairs
    OBVIOUS
  <2>3. PICK retained : retained = WithinBudget(eligible, budget)
    OBVIOUS
  <2>4. PICK counts :
          counts = DomainCounts(known, eligible, retained, Len(features), limits, options)
    OBVIOUS
  <2>5. d = DecideRetained(idx, policy, options, limits, retained, counts)
    BY <1>2, <2>1, <2>2, <2>3, <2>4, Zenon
       DEF SearchDomain, DecideLimits, DecideKnown, DecideEligible
  <2>6. budget = Smaller(policy.maxPairs, options.maxPairs) /\ budget \in Nat
    BY <2>1, <2>2 DEF Effective, Smaller
  <2>7. /\ features = Selection(asked, config) /\ features \in Seq(Grams) /\ Apart(features)
        /\ Len(features) \in Nat
    <3>1. features = Selection(asked, config)
      BY <1>2, <2>1 DEF Selection
    <3>2. features \in Seq(Grams) /\ Apart(features)
      BY <2>1, FeaturesAre DEF Usable
    <3>3. QED
      BY <3>1, <3>2, LenProperties
  <2>8. /\ Surveyed(known) /\ Measured("pairs", known) /\ Measured("occurrences", known)
        /\ known = {Said(idx, features, e) : e \in Met(idx, features)}
    BY <2>1, <2>7, KnownIs DEF Usable
  <2>9. eligible \in SUBSET known
        /\ \A c \in eligible : c.postings =< options.maxPostings
    <3>1. eligible = {c \in known : Reason(c, limits, options) = "eligible"}
      BY <2>2 DEF Because
    <3>2. ASSUME NEW c \in eligible
          PROVE  c.postings =< options.maxPostings
      <4>1. ~(c.postings > options.maxPostings)
        <5>1. Reason(c, limits, options) = "eligible"
          BY <3>1
        <5>2. "posting_cap" # "eligible"
          OBVIOUS
        <5>3. QED
          BY <5>1, <5>2, Zenon DEF Reason
      <4>2. c.postings \in Nat
        BY <2>8, <3>1 DEF Surveyed
      <4>3. QED
        BY <4>1, <4>2
    <3>3. QED
      BY <3>1, <3>2
  <2>10. Surveyed(eligible)
    BY <2>8, <2>9, FS_Subset DEF Surveyed
  <2>11. \A c \in eligible : c.idf \in Int /\ c.fingerprint \in Int
    <3>1. Len(idx.documents) \in Nat
      BY LenProperties DEF Usable, IsSeq
    <3>2. ASSUME NEW e \in Entries
          PROVE  Said(idx, features, e).idf \in Int /\ Said(idx, features, e).fingerprint \in Int
      <4>1. PICK n \in Nat, df \in Nat : n = Len(idx.documents) /\ df = e.df
        BY <3>1, <3>2 DEF Entries
      <4>2. Idf(n, df) \in Int
        BY DEF Idf
      <4>3. /\ Said(idx, features, e).idf = Idf(n, df)
            /\ Said(idx, features, e).fingerprint = e.fingerprint
        BY <4>1 DEF Said, KnownFeature
      <4>4. QED
        BY <4>2, <4>3 DEF Entries
    <3>3. \A e \in Met(idx, features) : e \in Entries
      <4>1. \A e \in Range(idx.entries) : e \in Entries
        BY LenProperties, ElementOfSeq DEF Range
      <4>2. QED
        BY <4>1 DEF Met
    <3>4. QED
      BY <2>8, <2>9, <3>2, <3>3
  <2>12. retained \in SUBSET eligible /\ PairsIn(retained) <= budget
    BY <2>3, <2>6, <2>10, <2>11, WithinBudgetIs
  <2>13. Balanced(counts)
    <3>1. PICK p \in Nat, v \in Nat, i \in Nat, e \in Nat :
            /\ p = OccurrencesIn(Because(known, "posting_cap", limits, options))
            /\ v = OccurrencesIn(Because(known, "document_frequency", limits, options))
            /\ i = OccurrencesIn(Because(known, "idf", limits, options))
            /\ e = OccurrencesIn(eligible)
            /\ OccurrencesIn(known) = p + v + i + e
      <4>1. \E p, v, i, e \in Nat :
              /\ p = OccurrencesIn(Because(known, "posting_cap", limits, options))
              /\ v = OccurrencesIn(Because(known, "document_frequency", limits, options))
              /\ i = OccurrencesIn(Because(known, "idf", limits, options))
              /\ e = OccurrencesIn(Because(known, "eligible", limits, options))
              /\ OccurrencesIn(known) = p + v + i + e
        <5>1. Measured("occurrences", known)
          BY <2>8
        <5>2. QED
          BY <5>1, ReasonsAddUp
      <4>2. QED
        BY <2>2, <4>1
    <3>2. \A S : OccurrencesIn(S) = Total("occurrences", S) /\ PairsIn(S) = Total("pairs", S)
      <4>1. ASSUME NEW S
            PROVE  OccurrencesIn(S) = Total("occurrences", S) /\ PairsIn(S) = Total("pairs", S)
        BY Zenon DEF OccurrencesIn, PairsIn, Total
      <4>2. QED
        BY <4>1
    <3>3. Measured("occurrences", eligible)
      BY <2>8, <2>9, MeasuredPart
    <3>4. PICK r \in Nat, b \in Nat :
            r = OccurrencesIn(retained) /\ b = OccurrencesIn(eligible \ retained) /\ e = r + b
      <4>1. /\ Total("occurrences", eligible)
                  = Total("occurrences", retained) + Total("occurrences", eligible \ retained)
            /\ Total("occurrences", retained) \in Nat
            /\ Total("occurrences", eligible \ retained) \in Nat
        <5>1. retained \in SUBSET eligible
          BY <2>12
        <5>2. QED
          BY ONLY <5>1, <3>3, TotalOfBoth, SMTT(30)
      <4>2. QED
        BY <3>1, <3>2, <4>1
    <3>5. PairsIn(retained) =< PairsIn(known)
      BY <2>8, <2>9, <2>12, <3>2, TotalOfPart
    <3>6. /\ counts.selected = Len(features) /\ counts.missing = Len(features) - OccurrencesIn(known)
          /\ counts.retained = r /\ counts.byPostingCap = p /\ counts.byDocumentFrequency = v
          /\ counts.byIdf = i /\ counts.byBudget = b
          /\ counts.pairsBefore = PairsIn(known) /\ counts.pairsAfter = PairsIn(retained)
      BY <2>4, <3>1, <3>4 DEF DomainCounts
    <3>7. counts.missing = Len(features) - (p + v + i + (r + b))
      BY <3>1, <3>4, <3>6
    <3>8. PICK a, c : a = PairsIn(retained) /\ c = PairsIn(known) /\ a =< c
      BY <3>5
    <3>9. /\ Len(features) \in Nat /\ counts.selected = Len(features)
          /\ counts.pairsBefore = c /\ counts.pairsAfter = a
      BY <2>7, <3>6, <3>8
    <3>10. PICK z \in Nat : z = Len(features)
      BY <3>9
    <3>11. /\ counts.selected = z /\ counts.missing = z - (p + v + i + (r + b))
           /\ counts.retained = r /\ counts.byPostingCap = p /\ counts.byDocumentFrequency = v
           /\ counts.byIdf = i /\ counts.byBudget = b
      BY ONLY <3>6, <3>7, <3>9, <3>10
    <3>12. z = (z - (p + v + i + (r + b))) + r + p + v + i + b
      OBVIOUS
    <3>13. QED
      BY ONLY <3>8, <3>9, <3>11, <3>12 DEF Balanced
  <2>14. CASE Thin(counts, limits)
    <3>1. \/ d = Searches("thin_evidence_direct_fallback", counts, idx, options)
          \/ d = SearchesNothing("insufficient_informative_evidence", counts)
      BY <2>5, <2>14, Zenon DEF DecideRetained, FallBack
    <3>2. d.status # "executed" /\ d.counts = counts
      BY <3>1 DEF Searches, SearchesNothing
    <3>3. QED
      BY <2>13, <3>2 DEF DomainHolds
  <2>15. CASE ~Thin(counts, limits)
    <3>1. PICK only : only = OnlyEntries(idx, {c.fingerprint : c \in retained})
      OBVIOUS
    <3>2. d = Searches("executed", counts, only, options)
      BY <2>5, <2>15, <3>1, Zenon DEF DecideRetained
    <3>3. d.index = only /\ d.options = options /\ d.counts = counts
      BY <3>2 DEF Searches
    <3>4. KnownFeatures(only, features) = retained /\ only.config = config
      <4>1. retained \in SUBSET known
        BY <2>9, <2>12
      <4>2. IsIndex(idx) /\ Dictionary(idx.entries)
        BY DEF Usable
      <4>3. features \in Seq(Grams) /\ Apart(features) /\ known = KnownFeatures(idx, features)
        BY <2>1, <2>7
      <4>4. KnownFeatures(only, features) = retained /\ only.config = idx.config
        BY ONLY <3>1, <4>1, <4>2, <4>3, OnlyKnown
      <4>5. QED
        BY <2>1, <4>4, Zenon
    <3>5. Light(retained, options) = retained
      BY <2>9, <2>12 DEF Light
    <3>6. WorkOf(d, asked) = PairsIn(retained)
      BY <2>7, <3>3, <3>4, <3>5, Zenon DEF WorkOf
    <3>7. counts.pairsAfter = PairsIn(retained)
      BY <2>4 DEF DomainCounts
    <3>8. QED
      BY <2>6, <2>12, <2>13, <3>3, <3>6, <3>7 DEF DomainHolds
  <2>16. QED
    BY <2>14, <2>15
<1>3. QED
  BY <1>1, <1>2

\* In a small corpus the limits that change are not those of the work.
LEMMA AttainableIs ==
  ASSUME NEW limits, NEW n, NEW k \in DOMAIN limits, k # "maxDf", k # "minIdf"
  PROVE  Attainable(limits, n)[k] = limits[k]
  BY DEF Attainable

\* So does one whose policy is adapted to the corpus.
LEMMA DomainAdaptiveIs ==
  ASSUME HashesAreNumbers, NEW idx, Usable(idx), idx.entries \in Seq(Entries),
         NEW asked, IsSeq(asked),
         NEW policy, policy.maxPairs \in Nat, "maxPairs" \in DOMAIN policy,
         NEW options, options.maxPairs \in Nat, options.maxPostings \in Nat,
         {"maxPairs", "maxPostings"} \subseteq DOMAIN options,
         NEW d, d = SearchDomainAdaptive(idx, asked, policy, options)
  PROVE  DomainHolds(d, asked, Smaller(policy.maxPairs, options.maxPairs))
<1>1. PICK n, p, o : /\ n = Larger(Len(idx.documents), 1)
                     /\ p = Attainable(policy, n) /\ o = Attainable(options, n)
  OBVIOUS
<1>2. d = SearchDomain(idx, asked, p, o)
  BY <1>1 DEF SearchDomainAdaptive
<1>3. p.maxPairs = policy.maxPairs /\ o.maxPairs = options.maxPairs
      /\ o.maxPostings = options.maxPostings
  BY <1>1, AttainableIs
<1>4. DomainHolds(d, asked, Smaller(p.maxPairs, o.maxPairs))
  BY <1>2, <1>3, DomainIs
<1>5. QED
  BY <1>3, <1>4

-----------------------------------------------------------------------------
(* Plans *)

\* A bound on postings keeps the occurrences that are left within a budget.
LEMMA SuggestedIs ==
  ASSUME NEW retained \in Nat, NEW options, options.maxPostings \in Nat,
         NEW planner, planner.maxPairs \in Nat,
         NEW m, m = Smaller(options.maxPostings, Suggested(retained, options, planner))
  PROVE  /\ m \in Nat /\ m =< options.maxPostings
         /\ \A k \in Nat : k =< retained => m * k =< Larger(planner.maxPairs, retained)
<1>1. PICK a \in Nat, b \in Nat : a = options.maxPostings /\ b = planner.maxPairs
  OBVIOUS
<1>2. CASE retained = 0
  <2>1. m = a
    BY <1>1, <1>2 DEF Suggested, Smaller
  <2>2. ASSUME NEW k \in Nat, k =< retained
        PROVE  m * k =< Larger(b, retained)
    <3>1. k = 0
      BY <1>2, <2>2
    <3>2. m * k = 0
      BY <2>1, <3>1
    <3>3. QED
      BY <1>2, <3>2 DEF Larger
  <2>3. QED
    BY <1>1, <2>1, <2>2
<1>3. CASE retained # 0
  <2>1. PICK r, t : r = retained /\ r \in Nat /\ r > 0 /\ t = b \div r
    BY <1>3
  <2>2. t \in Nat /\ t * r =< b
    BY <2>1
  <2>3. m = Smaller(a, Smaller(Larger(t, 1), a))
    BY <1>1, <1>3, <2>1 DEF Suggested
  <2>4. m \in Nat /\ m =< a /\ (m =< t \/ m =< 1)
    BY <2>2, <2>3 DEF Smaller, Larger
  <2>5. ASSUME NEW k \in Nat, k =< retained
        PROVE  m * k =< Larger(b, retained)
    <3>1. CASE m =< t
      <4>1. m * k =< t * k
        BY <2>2, <2>4, <3>1
      <4>2. t * k =< t * r
        BY <2>1, <2>2, <2>5
      <4>3. PICK x \in Nat, y \in Nat, z \in Nat : x = m * k /\ y = t * k /\ z = t * r
        BY <2>1, <2>2, <2>4
      <4>4. x =< b
        BY <2>2, <4>1, <4>2, <4>3
      <4>5. QED
        BY <4>3, <4>4 DEF Larger
    <3>2. CASE m =< 1
      <4>1. m = 0 \/ m = 1
        BY <2>4, <3>2
      <4>2. m * k = 0 \/ m * k = k
        BY <4>1
      <4>3. QED
        BY <2>5, <4>2 DEF Larger
    <3>3. QED
      BY <2>4, <3>1, <3>2
  <2>6. QED
    BY <1>1, <2>4, <2>5
<1>4. QED
  BY <1>2, <1>3

\* A planned search keeps the planner's budget, or allows one posting an occurrence.
LEMMA PlannedIs ==
  ASSUME HashesAreNumbers, NEW idx, Usable(idx), NEW asked, IsSeq(asked),
         NEW options, options.maxPostings \in Nat, "maxPostings" \in DOMAIN options,
         NEW planner, planner.maxPairs \in Nat,
         NEW plan, plan = PlanQuery(idx, asked, options, planner),
         NEW known, known = KnownFeatures(idx, Selection(asked, idx.config))
  PROVE  PairsIn(Light(known, WithPlan(plan, options))) =< Larger(planner.maxPairs, plan.retained)
<1>1. PICK features, light, opts :
        /\ features = Selection(asked, idx.config) /\ light = Light(known, options)
        /\ opts = WithPlan(plan, options)
  OBVIOUS
<1>2. features \in Seq(Grams) /\ Apart(features)
  BY <1>1, SelectionIs DEF Usable
<1>3. Surveyed(known) /\ Measured("pairs", known) /\ Measured("occurrences", known)
  BY <1>1, <1>2, KnownIs DEF Usable
<1>4. light = {c \in known : c.postings =< options.maxPostings} /\ light \in SUBSET known
  BY <1>1 DEF Light
<1>5. /\ plan.retained = OccurrencesIn(light) /\ plan.pairs = PairsIn(light)
      /\ plan.exceeded = (PairsIn(light) > planner.maxPairs)
      /\ plan.suggested = Suggested(OccurrencesIn(light), options, planner)
  <2>1. PICK sel, q : sel = Len(features) /\ q = idx.config.q
    OBVIOUS
  <2>2. plan = PlanOf(asked, q, sel, known, light, options, planner)
    BY <1>1, <2>1, Zenon DEF PlanQuery, PlanFeatures
  <2>3. PICK o, x, a, e, h, ro, mi, su :
          /\ o = OccurrencesIn(light) /\ x = PairsIn(light) /\ e = (x > planner.maxPairs)
          /\ a = Advisories(asked, o, sel, known, x, options, planner)
          /\ h = Suggested(o, options, planner) /\ ro = Route(asked, q, o, sel, x, options, planner)
          /\ mi = sel - OccurrencesIn(known) /\ su = OccurrencesIn(known \ light)
    OBVIOUS
  <2>4. plan = [route |-> ro, advisories |-> a, retained |-> o, missing |-> mi, suppressed |-> su,
                pairs |-> x, exceeded |-> e, suggested |-> h]
    BY <2>2, <2>3, Zenon DEF PlanOf
  <2>5. plan.retained = o /\ plan.pairs = x /\ plan.exceeded = e /\ plan.suggested = h
    BY <2>4
  <2>6. QED
    BY <2>3, <2>5, Zenon
<1>6. \A S : OccurrencesIn(S) = Total("occurrences", S) /\ PairsIn(S) = Total("pairs", S)
  <2>1. ASSUME NEW S
        PROVE  OccurrencesIn(S) = Total("occurrences", S) /\ PairsIn(S) = Total("pairs", S)
    BY Zenon DEF OccurrencesIn, PairsIn, Total
  <2>2. QED
    BY <2>1
<1>7. PICK r \in Nat, p \in Nat, b \in Nat :
        r = OccurrencesIn(light) /\ p = PairsIn(light) /\ b = planner.maxPairs
  BY <1>3, <1>4, <1>6, MeasuredPart
<1>8. CASE plan.exceeded \/ plan.route = "bounded_sparse"
  <2>1. PICK m : m = Smaller(options.maxPostings, Suggested(r, options, planner))
    OBVIOUS
  <2>2. /\ m \in Nat /\ m =< options.maxPostings
        /\ \A k \in Nat : k =< r => m * k =< Larger(b, r)
    BY <1>7, <2>1, SuggestedIs
  <2>3. opts = [options EXCEPT !.maxPostings = m]
    BY <1>1, <1>5, <1>7, <1>8, <2>1, Zenon DEF WithPlan
  <2>4. opts.maxPostings = m
    BY <2>3
  <2>5. PICK few : few = Light(known, opts)
    OBVIOUS
  <2>6. few = {c \in known : c.postings =< m}
    BY <2>4, <2>5 DEF Light
  <2>7. few \in SUBSET light
    <3>1. ASSUME NEW c \in few
          PROVE  c \in light
      <4>1. c.postings \in Nat /\ c.postings =< m /\ c \in known
        BY <1>3, <2>6 DEF Surveyed
      <4>2. QED
        BY <1>4, <2>2, <4>1
    <3>2. QED
      BY <3>1
  <2>8. Measured("pairs", few) /\ Measured("occurrences", few) /\ Measured("occurrences", light)
    BY <1>3, <1>4, <2>6, MeasuredPart
  <2>9. \A c \in few : c["pairs"] =< m * c["occurrences"]
    <3>1. ASSUME NEW c \in few
          PROVE  c.pairs =< m * c.occurrences
      <4>1. PICK x \in Nat, y \in Nat : x = c.postings /\ y = c.occurrences /\ c.pairs = x * y
        BY <1>3, <2>6 DEF Surveyed
      <4>2. x =< m
        BY <2>6, <4>1
      <4>3. x * y =< m * y
        BY <2>2, <4>2
      <4>4. QED
        BY <4>1, <4>3
    <3>2. QED
      BY <3>1
  <2>10. Total("pairs", few) =< m * Total("occurrences", few)
    BY <2>2, <2>8, <2>9, TotalBounded
  <2>11. PICK k \in Nat, x \in Nat : k = Total("occurrences", few) /\ x = Total("pairs", few)
    BY <2>8, TotalWithout
  <2>12. k =< r
    BY <1>6, <1>7, <2>7, <2>8, <2>11, TotalOfPart
  <2>13. x =< m * k /\ m * k =< Larger(b, r)
    BY <2>2, <2>10, <2>11, <2>12
  <2>14. x =< Larger(b, r)
    <3>1. PICK y \in Nat : y = m * k
      BY <2>2
    <3>2. QED
      BY <2>13, <3>1 DEF Larger
  <2>15. QED
    BY <1>1, <1>5, <1>6, <1>7, <2>5, <2>11, <2>14
<1>9. CASE ~(plan.exceeded \/ plan.route = "bounded_sparse")
  <2>1. opts = options
    BY <1>1, <1>9 DEF WithPlan
  <2>2. ~(p > b)
    BY <1>5, <1>7, <1>9
  <2>3. p =< Larger(b, r)
    BY <2>2 DEF Larger
  <2>4. QED
    BY <1>1, <1>5, <1>7, <2>1, <2>3
<1>10. QED
  BY <1>8, <1>9

-----------------------------------------------------------------------------
(* Documents first *)

\* What a pq feature is charged.
Price(f) == [fingerprint |-> f.fingerprint, pairs |-> PreparedCost(f)]
Prices(R) == {Price(f) : f \in R}
Priced(F) ==
    /\ IsFiniteSet(F)
    /\ \A f \in F : /\ f.postings \in Nat /\ Len(f.positions) \in Nat
                    /\ f.idf \in Int /\ f.fingerprint \in Int
\* A scan that has spent no more than a budget, and as much as it has retained.
Spent(F, budget) ==
    {s \in [pairs : Nat, scanned : Nat, byPostingCap : Nat, byBudget : Nat, retained : SUBSET F] :
        s.pairs =< budget /\ Total("pairs", Prices(s.retained)) =< s.pairs}

\* Prices are numbers.
LEMMA PricesAre ==
  ASSUME NEW F, Priced(F), NEW R \in SUBSET F
  PROVE  Measured("pairs", Prices(R)) /\ \A f \in F : PreparedCost(f) \in Nat
<1>1. \A f \in F : PreparedCost(f) \in Nat
  <2>1. TAKE f \in F
  <2>2. PICK a \in Nat, b \in Nat : a = f.postings /\ b = Len(f.positions)
    BY DEF Priced
  <2>3. PreparedCost(f) = a * b
    BY <2>2 DEF PreparedCost
  <2>4. QED
    BY <2>3
<1>2. IsFiniteSet(R)
  BY FS_Subset DEF Priced
<1>3. [f \in R |-> Price(f)] \in Surjection(R, Prices(R))
  BY DEF Surjection, Prices
<1>4. IsFiniteSet(Prices(R))
  BY <1>2, <1>3, FS_Surjection
<1>5. \A x \in Prices(R) : x["pairs"] \in Nat
  BY <1>1 DEF Prices, Price
<1>6. QED
  BY <1>1, <1>4, <1>5 DEF Measured

\* One more feature.
LEMMA ChooseFeatureIs ==
  ASSUME NEW F, Priced(F), NEW f \in F, NEW limits, limits.maxPairs \in Nat,
         NEW entry, entry # <<>> => Len(entry[1].postings) \in Nat,
         NEW s \in Spent(F, limits.maxPairs)
  PROVE  ChooseFeature(s, f, entry, limits) \in Spent(F, limits.maxPairs)
<1>1. PICK p \in Nat, z \in Nat, a \in Nat, b \in Nat, R \in SUBSET F :
        s = [pairs |-> p, scanned |-> z, byPostingCap |-> a, byBudget |-> b, retained |-> R]
  BY DEF Spent
<1>2. PICK cost \in Nat, budget \in Nat : cost = PreparedCost(f) /\ budget = limits.maxPairs
  BY PricesAre
<1>3. p =< budget /\ Total("pairs", Prices(R)) =< p
  BY <1>1, <1>2 DEF Spent
<1>4. PICK new : new = ChooseFeature(s, f, entry, limits)
  OBVIOUS
<1>5. \/ new = [s EXCEPT !.byPostingCap = @ + 1]
      \/ new = [s EXCEPT !.byBudget = @ + 1]
      \/ new = s
      \/ /\ ~(s.pairs + PreparedCost(f) > limits.maxPairs) /\ entry # <<>>
         /\ new = [s EXCEPT !.pairs = @ + PreparedCost(f),
                            !.scanned = @ + Len(entry[1].postings), !.retained = @ \cup {f}]
  BY <1>4, Zenon DEF ChooseFeature
<1>6. CASE new = [s EXCEPT !.byPostingCap = @ + 1]
  <2>1. new = [pairs |-> p, scanned |-> z, byPostingCap |-> a + 1, byBudget |-> b, retained |-> R]
    BY <1>1, <1>6
  <2>2. QED
    BY <1>2, <1>3, <1>4, <2>1 DEF Spent
<1>7. CASE new = [s EXCEPT !.byBudget = @ + 1]
  <2>1. new = [pairs |-> p, scanned |-> z, byPostingCap |-> a, byBudget |-> b + 1, retained |-> R]
    BY <1>1, <1>7
  <2>2. QED
    BY <1>2, <1>3, <1>4, <2>1 DEF Spent
<1>8. CASE new = s
  BY <1>4, <1>8
<1>9. CASE /\ ~(s.pairs + PreparedCost(f) > limits.maxPairs) /\ entry # <<>>
           /\ new = [s EXCEPT !.pairs = @ + PreparedCost(f),
                              !.scanned = @ + Len(entry[1].postings), !.retained = @ \cup {f}]
  <2>1. PICK l \in Nat, U \in SUBSET F : l = Len(entry[1].postings) /\ U = R \cup {f}
    BY <1>9
  <2>2. new = [pairs |-> p + cost, scanned |-> z + l, byPostingCap |-> a, byBudget |-> b,
               retained |-> U]
    BY <1>1, <1>2, <1>9, <2>1
  <2>3. p + cost =< budget
    BY <1>1, <1>2, <1>9
  <2>4. PICK x, A, B : x = Price(f) /\ A = Prices(R) /\ B = Prices(U)
    OBVIOUS
  <2>5. B = A \cup {x} /\ x["pairs"] = cost
    BY <1>2, <2>1, <2>4 DEF Prices, Price
  <2>6. Measured("pairs", A) /\ Measured("pairs", B)
    BY <2>4, PricesAre
  <2>7. PICK t \in Nat : t = Total("pairs", A)
    BY <2>6, TotalWithout
  <2>8. Total("pairs", B) =< t + cost
    <3>1. CASE x \in A
      <4>1. B = A
        BY <2>5, <3>1
      <4>2. QED
        BY <2>7, <4>1
    <3>2. CASE x \notin A
      <4>1. B \ {x} = A /\ x \in B
        BY <2>5, <3>2
      <4>2. Total("pairs", B) = x["pairs"] + Total("pairs", A)
        BY <2>6, <4>1, TotalWithout
      <4>3. QED
        BY <2>5, <2>7, <4>2
    <3>3. QED
      BY <3>1, <3>2
  <2>9. Total("pairs", B) =< p + cost
    <3>1. Total("pairs", B) \in Nat /\ t =< p
      BY <1>3, <2>4, <2>6, <2>7, TotalWithout
    <3>2. QED
      BY <2>8, <3>1
  <2>10. p + cost \in Nat /\ z + l \in Nat
    OBVIOUS
  <2>11. QED
    BY <1>2, <1>4, <2>2, <2>3, <2>4, <2>9, <2>10 DEF Spent
<1>10. QED
  BY <1>5, <1>6, <1>7, <1>8, <1>9

\* All of them, the rarest first.
LEMMA ChooseFeaturesIs ==
  ASSUME NEW idx, Dictionary(idx.entries), NEW pq, Priced(pq.features),
         NEW limits, limits.maxPairs \in Nat, NEW chosen, chosen = ChooseFeatures(idx, pq, limits)
  PROVE  chosen \in Spent(pq.features, limits.maxPairs)
<1>1. PICK F, key, s : /\ F = pq.features
                       /\ key = [f \in F |-> <<PreparedCost(f), f.postings, -f.idf, f.fingerprint>>]
                       /\ s = OrderedBy(F, key)
  OBVIOUS
<1>2. s \in Seq(F)
  <2>1. ASSUME NEW f \in F
        PROVE  <<PreparedCost(f), f.postings, -f.idf, f.fingerprint>> \in Keys(4)
    <3>1. PICK a \in Int, b \in Int, d \in Int, e \in Int :
              a = PreparedCost(f) /\ b = f.postings /\ d = -f.idf /\ e = f.fingerprint
      <4>1. PreparedCost(f) \in Nat /\ f.postings \in Nat /\ f.idf \in Int /\ f.fingerprint \in Int
        BY <1>1, PricesAre DEF Priced
      <4>2. -f.idf \in Int
        BY <4>1
      <4>3. QED
        BY <4>1, <4>2
    <3>2. <<a, b, d, e>> \in Keys(4)
      BY KeyOfFour
    <3>3. QED
      BY <3>1, <3>2
  <2>2. key \in [F -> Keys(4)]
    BY <1>1, <2>1
  <2>3. Sorts(s, F, key)
    BY <1>1, <2>2, OrderedByIs DEF Priced
  <2>4. QED
    BY <2>3 DEF Sorts
<1>3. PICK n \in Nat : n = Len(s) /\ DOMAIN s = 1..n
  BY <1>2, LenProperties
<1>4. \A i \in 1..n : s[i] \in F
  BY <1>2, <1>3, ElementOfSeq
<1> DEFINE X == Spent(F, limits.maxPairs)
           one(t, f) == ChooseFeature(t, f, Lookup(idx, f.fingerprint), limits)
           step == [i \in 1..n |-> [t \in X |-> one(t, s[i])]]
           Body(g) == [T \in SUBSET (1..n) |->
                         IF T = {} THEN NothingChosen ELSE one(g[T \ {Max(T)}], s[Max(T)])]
           iter == CHOOSE g : g = Body(g)
<1>5. NothingChosen \in X
  <2>1. Measured("pairs", {})
    BY FS_EmptySet DEF Measured
  <2>2. Prices({}) = {} /\ Total("pairs", {}) = 0
    BY <2>1, TotalWithout DEF Prices
  <2>3. QED
    BY <2>2 DEF NothingChosen, Spent
<1>6. ASSUME NEW t \in X, NEW f \in F
      PROVE  one(t, f) \in X
  <2>1. PICK entry : entry = Lookup(idx, f.fingerprint)
    OBVIOUS
  <2>2. entry \in Seq(Range(idx.entries))
    BY <2>1, LookupIs DEF Dictionary
  <2>3. entry # <<>> => Len(entry[1].postings) \in Nat
    <3>1. entry # <<>> => entry[1] \in Range(idx.entries)
      BY <2>2
    <3>2. QED
      BY <3>1 DEF Dictionary
  <2>4. ChooseFeature(t, f, entry, limits) \in Spent(F, limits.maxPairs)
    BY <1>1, <2>3, ChooseFeatureIs
  <2>5. QED
    BY <2>1, <2>4
<1>7. step \in [1..n -> [X -> X]]
  <2> HIDE DEF X, one
  <2>1. QED
    BY <1>4, <1>6
<1>8. ASSUME NEW g, NEW T \in SUBSET (1..n), T # {}, g[T \ {Max(T)}] \in X
      PROVE  Body(g)[T] = step[Max(T)][g[T \ {Max(T)}]]
  <2>1. Max(T) \in 1..n
    <3>1. T \in SUBSET (0..n)
      OBVIOUS
    <3>2. QED
      BY <1>8, <3>1, MaxIs
  <2> HIDE DEF X, one
  <2>2. QED
    BY <1>8, <2>1
<1>9. PICK g \in [SUBSET (1..n) -> X] : FoldsUp(g, NothingChosen, step, n)
  <2> HIDE DEF step, X
  <2>1. QED
    BY <1>5, <1>7, Folding
<1>10. g = Body(g)
  <2>1. ASSUME NEW T \in SUBSET (1..n)
        PROVE  g[T] = Body(g)[T]
    <3>1. CASE T = {}
      BY <1>9, <3>1 DEF FoldsUp
    <3>2. CASE T # {}
      <4>1. g[T] = step[Max(T)][g[T \ {Max(T)}]] /\ g[T \ {Max(T)}] \in X
        <5> HIDE DEF step, X
        <5>1. QED
          BY <1>9, <3>2 DEF FoldsUp
      <4> HIDE DEF Body, step, X
      <4>2. QED
        BY <1>8, <3>2, <4>1
    <3>3. QED
      BY <3>1, <3>2
  <2>2. DOMAIN g = SUBSET (1..n)
    BY <1>9
  <2> HIDE DEF one, X
  <2>3. QED
    BY <2>1, <2>2
<1>11. iter = Body(iter)
  BY <1>10, Zenon
<1>12. chosen = iter[1..n]
  BY <1>1, <1>3, ZenonT(60) DEF ChooseFeatures, Ordered, FoldLeft, MapThenFoldSet
<1> HIDE DEF iter
<1>13. iter[1..n] \in X
  <2>1. iter[{}] = NothingChosen
    <3>1. {} \in SUBSET (1..n)
      OBVIOUS
    <3> HIDE DEF one
    <3>2. QED
      BY <1>11, <3>1
  <2>2. FoldsIn(iter, NothingChosen, step, n, X)
    <3> HIDE DEF step, Body, X
    <3>1. QED
      BY <1>8, <1>11, <2>1 DEF FoldsIn
  <2> HIDE DEF step, Body, X
  <2>3. PICK p, h, o : p = step /\ h = iter /\ o = NothingChosen
    OBVIOUS
  <2>4. p \in [1..n -> [X -> X]] /\ FoldsIn(h, o, p, n, X) /\ o \in X
    BY <1>5, <1>7, <2>2, <2>3
  <2>5. \E P \in [0..n -> X] : Iterates(P, o, p, n) /\ h[1..n] = P[n]
    BY <2>4, Folded, SMTT(60)
  <2>6. QED
    BY <2>3, <2>5
<1>14. QED
  BY <1>1, <1>12, <1>13

\* A prepared asked holds what the index says of its features.
PreparedOf(pq, idx, features) ==
    /\ pq.config = idx.config /\ Priced(pq.features)
    /\ \A f \in pq.features : \E e \in Met(idx, features) :
            /\ f.fingerprint = e.fingerprint /\ f.postings = Len(e.postings)
            /\ Len(f.positions) = Occurrences(features, e.fingerprint)

\* The query that is prepared for an index is such a query.
LEMMA PreparedIs ==
  ASSUME HashesAreNumbers, NEW idx, Usable(idx), idx.entries \in Seq(Entries),
         NEW asked, IsSeq(asked), NEW pq, pq = PrepareOverlapQuery(idx, asked)
  PROVE  PreparedOf(pq, idx, Selection(asked, idx.config))
<1>1. PICK features, n : /\ features = Selection(asked, idx.config)
                         /\ n = Larger(Len(idx.documents), 1)
  OBVIOUS
<1>2. features \in Seq(Grams) /\ Apart(features)
  BY <1>1, SelectionIs DEF Usable
<1>3. n \in Nat
  BY <1>1, LenProperties DEF Usable, IsSeq, Larger
<1>4. Known(idx, features) = Met(idx, features)
  <2>1. \A fp : Range(Lookup(idx, fp)) = {e \in Range(idx.entries) : e.fingerprint = fp}
    BY LookupIs DEF Usable, Dictionary
  <2>2. Known(idx, features) = UNION {{e \in Range(idx.entries) :
            e.fingerprint = features[i].fingerprint} : i \in DOMAIN features}
    <3>1. \A i \in DOMAIN features : Range(Lookup(idx, features[i].fingerprint))
              = {e \in Range(idx.entries) : e.fingerprint = features[i].fingerprint}
      BY <2>1
    <3>2. QED
      BY <3>1 DEF Known
  <2>3. QED
    BY <2>2 DEF Met, Distinct
<1>5. /\ pq.config = idx.config
      /\ pq.features = {PreparedEntry(n, features, e) : e \in Met(idx, features)}
  <2>1. PICK l, E : /\ l = Len(features)
                    /\ E = {PreparedEntry(n, features, e) : e \in Met(idx, features)}
    OBVIOUS
  <2>2. pq = [config |-> idx.config, selected |-> l, features |-> E]
    BY <1>1, <1>4, <2>1, Zenon DEF PrepareOverlapQuery
  <2>3. QED
    BY <2>1, <2>2
<1>6. ASSUME NEW e \in Met(idx, features), NEW f, f = PreparedEntry(n, features, e)
      PROVE  /\ f.postings \in Nat /\ Len(f.positions) \in Nat
             /\ f.idf \in Int /\ f.fingerprint \in Int
             /\ f.fingerprint = e.fingerprint /\ f.postings = Len(e.postings)
             /\ Len(f.positions) = Occurrences(features, e.fingerprint)
  <2>1. e \in Entries /\ Len(e.postings) \in Nat
    BY LenProperties, ElementOfSeq DEF Met, Range, Usable, Dictionary
  <2>2. PICK df \in Nat : df = e.df
    BY <2>1 DEF Entries
  <2>3. Idf(n, df) \in Int
    BY <1>3 DEF Idf
  <2>4. /\ f.fingerprint = e.fingerprint /\ f.postings = Len(e.postings) /\ f.idf = Idf(n, df)
        /\ f.positions = PositionsOf(features, e.fingerprint)
    BY <1>6, <2>2 DEF PreparedEntry
  <2>5. /\ Occurrences(features, e.fingerprint) \in Nat
        /\ Len(PositionsOf(features, e.fingerprint)) = Occurrences(features, e.fingerprint)
    BY <1>2, PositionsAre
  <2>6. QED
    BY <2>1, <2>3, <2>4, <2>5 DEF Entries
<1>7. IsFiniteSet(pq.features)
  <2>1. IsFiniteSet(Met(idx, features))
    BY MetIs DEF Usable, Dictionary
  <2>2. [e \in Met(idx, features) |-> PreparedEntry(n, features, e)]
            \in Surjection(Met(idx, features), pq.features)
    BY <1>5 DEF Surjection
  <2>3. QED
    BY <2>1, <2>2, FS_Surjection
<1>8. QED
  BY <1>1, <1>5, <1>6, <1>7 DEF PreparedOf, Priced

\* The postings that stay in a projection are no more than there were.
LEMMA ProjectedPostingsIs ==
  ASSUME NEW entry, entry.postings \in Seq(Postings), NEW ids
  PROVE  /\ Len(ProjectedPostings(entry, ids)) \in Nat
         /\ Len(ProjectedPostings(entry, ids)) =< Len(entry.postings)
<1>1. PICK s, places, t : /\ s = entry.postings
                          /\ places = {i \in DOMAIN s : s[i][1] \in Range(ids)}
                          /\ t = AtPlaces(s, places)
  OBVIOUS
<1>2. t \in Seq(Range(s)) /\ Len(t) =< Len(s)
  BY <1>1, AtPlacesIs DEF Gathers
<1>3. ProjectedPostings(entry, ids) = [i \in DOMAIN t |-> <<LocalId(ids, t[i][1]), t[i][2]>>]
  BY <1>1, Zenon DEF ProjectedPostings, MappedSeq, Filtered
<1>4. Len(t) \in Nat /\ DOMAIN t = 1..Len(t)
  BY <1>2, LenProperties
<1>5. Len(ProjectedPostings(entry, ids)) = Len(t)
  BY <1>3, <1>4
<1>6. QED
  BY <1>1, <1>2, <1>4, <1>5

\* A projection has the entries of some fingerprints, none longer than it was.
ProjectionOf(proj, idx, fps) ==
    /\ proj.config = idx.config /\ Dictionary(proj.entries)
    /\ \A e \in Range(proj.entries) : \E o \in Range(idx.entries) :
            /\ o.fingerprint = e.fingerprint /\ o.fingerprint \in fps
            /\ Len(e.postings) =< Len(o.postings)

\* What is projected is such a projection.
LEMMA ProjectedIs ==
  ASSUME NEW idx, Usable(idx), idx.entries \in Seq(Entries), NEW ids, NEW fps,
         NEW proj, proj = Projected(idx, ids, fps)
  PROVE  ProjectionOf(proj, idx, fps)
<1>1. PICK only, s, t, places, kept1, docs :
        /\ only = OnlyEntries(idx, fps) /\ s = only.entries
        /\ t = [i \in DOMAIN s |-> ProjectedEntry(s[i], ids)]
        /\ places = {i \in DOMAIN t : t[i].postings # <<>>} /\ kept1 = AtPlaces(t, places)
        /\ docs = MappedSeq(ids, LAMBDA d : idx.documents[d + 1])
  OBVIOUS
<1>2. proj = [config |-> idx.config, documents |-> docs, entries |-> kept1]
  BY <1>1, Zenon DEF Projected, MappedSeq, Filtered
<1>3. IsSeq(s) /\ Range(s) = {e \in Range(idx.entries) : e.fingerprint \in fps}
  BY <1>1, OnlyIs DEF Usable, Dictionary
<1>4. PICK n \in Nat : n = Len(s) /\ DOMAIN s = 1..n
  BY <1>3, LenProperties DEF IsSeq
<1>5. PICK A : A = {ProjectedEntry(e, ids) : e \in Range(s)}
  OBVIOUS
<1>6. \A i \in 1..n : s[i] \in Range(s) /\ t[i] = ProjectedEntry(s[i], ids) /\ t[i] \in A
  BY <1>1, <1>4, <1>5 DEF Range
<1>7. t \in Seq(A) /\ DOMAIN t = 1..n /\ Len(t) = n
  <2>1. t \in [1..n -> A]
    BY <1>1, <1>4, <1>6
  <2>2. QED
    BY <2>1, FunctionIsSeq
<1>8. kept1 \in Seq(Range(t))
  BY <1>1, <1>7, AtPlacesIs DEF Gathers
<1>9. Range(t) \subseteq A
  BY <1>6, <1>7 DEF Range
<1>10. Range(kept1) \subseteq A
  <2>1. \A i \in DOMAIN kept1 : kept1[i] \in Range(t)
    BY <1>8, LenProperties, ElementOfSeq
  <2>2. QED
    BY <1>9, <2>1 DEF Range
<1>11. ASSUME NEW e \in A
       PROVE  \E o \in Range(idx.entries) :
                /\ e = ProjectedEntry(o, ids) /\ o.fingerprint = e.fingerprint
                /\ o.fingerprint \in fps /\ Len(e.postings) \in Nat
                /\ Len(e.postings) =< Len(o.postings)
  <2>1. PICK o \in Range(s) : e = ProjectedEntry(o, ids)
    BY <1>5
  <2>2. o \in Range(idx.entries) /\ o.fingerprint \in fps
    BY <1>3
  <2>3. o \in Entries
    BY <2>2, LenProperties, ElementOfSeq DEF Range
  <2>4. /\ Len(ProjectedPostings(o, ids)) \in Nat
        /\ Len(ProjectedPostings(o, ids)) =< Len(o.postings)
    BY <2>3, ProjectedPostingsIs DEF Entries
  <2>5. e.fingerprint = o.fingerprint /\ e.postings = ProjectedPostings(o, ids)
    BY <2>1 DEF ProjectedEntry
  <2>6. QED
    BY <2>1, <2>2, <2>4, <2>5
<1>12. EachOnce(kept1)
  <2>1. ASSUME NEW e \in A, NEW f \in A, e.fingerprint = f.fingerprint
        PROVE  e = f
    <3>1. PICK o \in Range(idx.entries) :
              e = ProjectedEntry(o, ids) /\ o.fingerprint = e.fingerprint
      BY <1>11
    <3>2. PICK r \in Range(idx.entries) :
              f = ProjectedEntry(r, ids) /\ r.fingerprint = f.fingerprint
      BY <1>11
    <3>3. o = r
      BY <2>1, <3>1, <3>2 DEF Usable, Dictionary, EachOnce
    <3>4. QED
      BY <3>1, <3>2, <3>3
  <2>2. QED
    BY <1>10, <2>1 DEF EachOnce
<1>13. IsSeq(kept1)
  BY <1>8, SeqIs
<1>14. Dictionary(kept1)
  BY <1>10, <1>11, <1>12, <1>13 DEF Dictionary
<1>15. QED
  BY <1>2, <1>10, <1>11, <1>14 DEF ProjectionOf

\* A search of a projection goes through no more than was charged.
LEMMA ProjectionCosts ==
  ASSUME HashesAreNumbers, NEW idx, Usable(idx), NEW features \in Seq(Grams), Apart(features),
         NEW pq, PreparedOf(pq, idx, features), NEW R \in SUBSET pq.features,
         NEW proj, ProjectionOf(proj, idx, {f.fingerprint : f \in R}), NEW options
  PROVE  PairsIn(Light(KnownFeatures(proj, features), options)) =< Total("pairs", Prices(R))
<1>1. PICK known, light : known = KnownFeatures(proj, features) /\ light = Light(known, options)
  OBVIOUS
<1>2. /\ Surveyed(known) /\ Measured("pairs", known)
      /\ known = {Said(proj, features, e) : e \in Met(proj, features)}
  BY <1>1, KnownIs DEF ProjectionOf
<1>3. ASSUME NEW c \in known
      PROVE  \E f \in R : f.fingerprint = c.fingerprint /\ c.pairs =< PreparedCost(f)
  <2>1. PICK e \in Met(proj, features) : c = Said(proj, features, e)
    BY <1>2
  <2>2. PICK o \in Range(idx.entries) :
            /\ o.fingerprint = e.fingerprint /\ o.fingerprint \in {f.fingerprint : f \in R}
            /\ Len(e.postings) =< Len(o.postings)
    BY <2>1 DEF Met, ProjectionOf
  <2>3. PICK f \in R : f.fingerprint = o.fingerprint
    BY <2>2
  <2>4. PICK g \in Met(idx, features) :
            /\ f.fingerprint = g.fingerprint /\ f.postings = Len(g.postings)
            /\ Len(f.positions) = Occurrences(features, g.fingerprint)
    BY DEF PreparedOf
  <2>5. g = o
    BY <2>2, <2>3, <2>4 DEF Met, Usable, Dictionary, EachOnce
  <2>6. PICK x \in Nat, y \in Nat, k \in Nat :
            /\ x = Len(e.postings) /\ y = Len(o.postings)
            /\ k = Occurrences(features, e.fingerprint)
    <3>1. Len(e.postings) \in Nat
      BY <2>1 DEF Met, ProjectionOf, Dictionary
    <3>2. Len(o.postings) \in Nat
      BY DEF Usable, Dictionary
    <3>3. Occurrences(features, e.fingerprint) \in Nat
      BY PositionsAre
    <3>4. QED
      BY <3>1, <3>2, <3>3
  <2>7. c.pairs = x * k /\ c.fingerprint = e.fingerprint
    BY <2>1, <2>6 DEF Said, KnownFeature
  <2>8. PreparedCost(f) = y * k
    BY <2>2, <2>3, <2>4, <2>5, <2>6 DEF PreparedCost
  <2>9. x * k =< y * k
    BY <2>2, <2>6
  <2>10. QED
    BY <2>2, <2>3, <2>7, <2>8, <2>9
<1> DEFINE mate == [c \in known |-> Price(CHOOSE f \in R : /\ f.fingerprint = c.fingerprint
                                                            /\ c.pairs =< PreparedCost(f))]
<1>4. ASSUME NEW c \in known
      PROVE  /\ mate[c] \in Prices(R) /\ mate[c].fingerprint = c.fingerprint
             /\ c["pairs"] =< mate[c]["pairs"]
  <2>1. PICK f \in R : /\ f.fingerprint = c.fingerprint /\ c.pairs =< PreparedCost(f)
                       /\ mate[c] = Price(f)
    BY <1>3
  <2>2. mate[c] = [fingerprint |-> f.fingerprint, pairs |-> PreparedCost(f)]
    BY <2>1 DEF Price
  <2> HIDE DEF mate
  <2>3. mate[c] \in Prices(R)
    BY <2>1, Zenon DEF Prices
  <2>4. QED
    BY <2>1, <2>2, <2>3
<1>5. mate \in [known -> Prices(R)]
  BY <1>4
<1>6. \A c, d \in known : mate[c] = mate[d] => c = d
  <2> HIDE DEF mate
  <2>1. QED
    BY <1>2, <1>4 DEF Surveyed
<1>7. Measured("pairs", Prices(R))
  BY PricesAre DEF PreparedOf
<1>8. Total("pairs", known) =< Total("pairs", Prices(R))
  <2>1. \A c \in known : c["pairs"] =< mate[c]["pairs"]
    BY <1>4
  <2>2. PICK h : h = mate
    OBVIOUS
  <2> HIDE DEF mate
  <2>3. h \in [known -> Prices(R)] /\ (\A c, d \in known : h[c] = h[d] => c = d)
        /\ \A c \in known : c["pairs"] =< h[c]["pairs"]
    BY <1>5, <1>6, <2>1, <2>2
  <2>4. QED
    BY <1>2, <1>7, <2>3, TotalMatched
<1>9. light \in SUBSET known
  BY <1>1 DEF Light
<1>10. /\ Total("pairs", light) =< Total("pairs", known)
       /\ Total("pairs", light) \in Nat /\ Total("pairs", known) \in Nat
  BY <1>2, <1>9, TotalOfPart
<1>11. Total("pairs", Prices(R)) \in Nat
  BY <1>7, TotalWithout
<1>12. PairsIn(light) = Total("pairs", light)
  BY Zenon DEF PairsIn, Total
<1>13. QED
  BY <1>1, <1>8, <1>10, <1>11, <1>12

\* What a decision of this lane says and does.
FirstHolds(d, asked, budget, same) ==
    /\ d.counts.pairs =< budget
    /\ same /\ d.status = "filtered" => WorkOf(d, asked) =< d.counts.pairs

\* A search that chooses documents first keeps to its limits.
LEMMA DocumentFirstIs ==
  ASSUME HashesAreNumbers, NEW first, Usable(first), NEW asked, IsSeq(asked),
         NEW pq, PreparedOf(pq, first, Selection(asked, first.config)),
         NEW idx, Usable(idx), idx.entries \in Seq(Entries),
         NEW limits, limits.maxPairs \in Nat, NEW options,
         NEW d, d = SearchDocumentFirst(idx, pq, limits, options)
  PROVE  FirstHolds(d, asked, limits.maxPairs, idx = first)
<1>1. PICK budget \in Nat : budget = limits.maxPairs
  OBVIOUS
<1>2. CASE ~ValidFor(pq, idx)
  <2>1. d = SearchesNothing("refused", NothingChosen)
    BY <1>2, Zenon DEF SearchDocumentFirst
  <2>2. d.counts.pairs = 0 /\ d.status # "filtered"
    BY <2>1 DEF SearchesNothing, NothingChosen
  <2>3. QED
    BY <1>1, <2>2 DEF FirstHolds
<1>3. CASE ValidFor(pq, idx) /\ idx.documents = <<>>
  <2>1. d = SearchesNothing("no_candidates", FirstCounts(idx, NothingChosen, <<>>))
    BY <1>3, Zenon DEF SearchDocumentFirst
  <2>2. d.counts.pairs = 0 /\ d.status # "filtered"
    BY <2>1 DEF SearchesNothing, FirstCounts, NothingChosen
  <2>3. QED
    BY <1>1, <2>2 DEF FirstHolds
<1>4. CASE ValidFor(pq, idx) /\ idx.documents # <<>>
  <2>1. PICK chosen : chosen = ChooseFeatures(idx, pq, limits)
    OBVIOUS
  <2>2. chosen \in Spent(pq.features, budget)
    BY <1>1, <2>1, ChooseFeaturesIs DEF Usable, PreparedOf
  <2>3. PICK candidates : candidates = DocumentCandidates(idx, chosen.retained, limits)
    OBVIOUS
  <2>4. PICK ids, counts :
          /\ ids = Ordered({c.document : c \in Range(candidates)}, LAMBDA x : <<x>>)
          /\ counts = FirstCounts(idx, chosen, candidates)
    OBVIOUS
  <2>5. d = DecideCandidates(idx, limits, options, chosen, candidates, ids, counts)
    BY <1>4, <2>1, <2>3, <2>4, Zenon DEF SearchDocumentFirst, DecideScan, DecideChosen
  <2>6. PICK fps : fps = {f.fingerprint : f \in chosen.retained}
    OBVIOUS
  <2>7. PICK proj : proj = Projected(idx, ids, fps)
    OBVIOUS
  <2>8. \/ d = Searches("full_index_fallback_thin_evidence", counts, idx, options)
        \/ d = SearchesNothing("no_candidates", counts)
        \/ d = Searches("full_index_fallback_broad_candidate_set", counts, idx, options)
        \/ d = [Searches("filtered", counts, proj, options) EXCEPT !.ids = ids]
    BY <2>5, <2>6, <2>7, Zenon DEF DecideCandidates
  <2>9. counts.pairs = chosen.pairs /\ chosen.pairs =< budget
    BY <2>2, <2>4 DEF FirstCounts, Spent
  <2>10. CASE d = [Searches("filtered", counts, proj, options) EXCEPT !.ids = ids]
    <3>1. d.counts = counts /\ d.index = proj /\ d.options = options
      BY <2>10 DEF Searches
    <3>2. ASSUME idx = first
          PROVE  WorkOf(d, asked) =< counts.pairs
      <4>1. ProjectionOf(proj, idx, fps)
        BY <2>7, ProjectedIs
      <4>2. PICK features : features = Selection(asked, idx.config)
        OBVIOUS
      <4>3. features \in Seq(Grams) /\ Apart(features)
        BY <4>2, SelectionIs DEF Usable
      <4>4. PICK R \in SUBSET pq.features : R = chosen.retained
        BY <2>2 DEF Spent
      <4>5. PreparedOf(pq, idx, features)
        BY <3>2, <4>2
      <4>6. PairsIn(Light(KnownFeatures(proj, features), options)) =< Total("pairs", Prices(R))
        BY <2>6, <4>1, <4>3, <4>4, <4>5, ProjectionCosts
      <4>7. WorkOf(d, asked) = PairsIn(Light(KnownFeatures(proj, features), options))
        BY <3>1, <4>1, <4>2, Zenon DEF WorkOf, ProjectionOf
      <4>8. Total("pairs", Prices(R)) =< chosen.pairs
        BY <2>2, <4>4 DEF Spent
      <4>9. PICK w : w = PairsIn(Light(KnownFeatures(proj, features), options))
        OBVIOUS
      <4>10. w \in Int /\ Total("pairs", Prices(R)) \in Int /\ chosen.pairs \in Int
        <5>1. Total("pairs", Prices(R)) \in Nat
          BY <4>4, <4>5, PricesAre, TotalWithout DEF PreparedOf
        <5>2. chosen.pairs \in Nat
          BY <2>2 DEF Spent
        <5>3. PICK known, light : /\ known = KnownFeatures(proj, features)
                                  /\ light = Light(known, options)
          OBVIOUS
        <5>4. Measured("pairs", known)
          BY <4>1, <4>3, <5>3, KnownIs DEF ProjectionOf
        <5>5. Total("pairs", light) \in Nat
          BY <5>3, <5>4, MeasuredPart DEF Light
        <5>6. w = Total("pairs", light)
          BY <4>9, <5>3, Zenon DEF PairsIn, Total
        <5>7. QED
          BY <5>1, <5>2, <5>5, <5>6
      <4>11. QED
        BY <2>9, <4>6, <4>7, <4>8, <4>9, <4>10
    <3>3. QED
      BY <1>1, <2>9, <3>1, <3>2 DEF FirstHolds
  <2>11. CASE \/ d = Searches("full_index_fallback_thin_evidence", counts, idx, options)
              \/ d = SearchesNothing("no_candidates", counts)
              \/ d = Searches("full_index_fallback_broad_candidate_set", counts, idx, options)
    <3>1. d.counts = counts /\ d.status # "filtered"
      BY <2>11 DEF Searches, SearchesNothing
    <3>2. QED
      BY <1>1, <2>9, <3>1 DEF FirstHolds
  <2>12. QED
    BY <2>8, <2>10, <2>11
<1>5. QED
  BY <1>2, <1>3, <1>4

-----------------------------------------------------------------------------
(* Lanes keep their budgets *)

\* The index the query was prepared for, if it was.
First == IndexOf(call.texts, call.config)
LanesInv ==
    /\ call \in Requests
    /\ current = First \/ current = IndexOf(call.later, call.config)
    /\ prepared # Nothing => prepared = PrepareOverlapQuery(First, Query)
    /\ prepared = Nothing \/ fresh => current = First
    /\ phase = "ready" => decision = Nothing
    /\ BudgetsHold

\* It holds at first.
LEMMA LanesStart == LanesInit => LanesInv
<1> SUFFICES ASSUME LanesInit PROVE LanesInv
  OBVIOUS
<1>1. /\ call \in Requests /\ current = First /\ prepared = Nothing /\ decision = Nothing
  BY Zenon DEF LanesInit, First
<1>2. BudgetsHold
  BY <1>1, Zenon DEF BudgetsHold, Decided
<1>3. QED
  BY <1>1, <1>2, Zenon DEF LanesInv

\* What can be loaded can be searched.
LEMMA LoadedIs ==
  ASSUME HashesAreNumbers, call \in Requests
  PROVE  /\ IsSeq(Query) /\ Usable(First) /\ First.entries \in Seq(Entries)
         /\ Usable(IndexOf(call.later, call.config))
         /\ IndexOf(call.later, call.config).entries \in Seq(Entries)
<1>1. PICK texts, later, config : /\ texts = call.texts /\ later = call.later
                                  /\ config = call.config
  OBVIOUS
<1>2. /\ IsSeq(texts) /\ IsSeq(later) /\ ValidConfig(config) /\ IsSeq(call.specimen)
      /\ \A d \in DOMAIN texts : IsSeq(texts[d])
      /\ \A d \in DOMAIN later : IsSeq(later[d])
  <2>1. /\ IsCorpus(texts) /\ IsCorpus(later) /\ ValidConfig(config) /\ IsText(call.specimen)
    BY <1>1, RequestsAssumption
  <2>2. \A t : IsText(t) = IsSeq(t)
    BY DEF IsText, IsSeq
  <2>3. QED
    BY <2>1, <2>2 DEF IsCorpus
<1>3. config.window \in Nat \ {0} /\ config.q \in Nat \ {0}
  BY <1>2, ValidConfigIs
<1>4. PICK a, b : a = IndexOf(texts, config) /\ b = IndexOf(later, config)
  OBVIOUS
<1>5. Usable(a) /\ a.entries \in Seq(Entries)
  BY <1>2, <1>3, <1>4, IndexIs DEF Usable
<1>6. Usable(b) /\ b.entries \in Seq(Entries)
  BY <1>2, <1>3, <1>4, IndexIs DEF Usable
<1>7. IsSeq(Query)
  BY <1>2, NormalizeIs DEF Query
<1>8. QED
  BY <1>1, <1>4, <1>5, <1>6, <1>7 DEF First

\* The caps and budgets are numbers.
LEMMA LimitsOfLanes ==
  ASSUME call \in Requests
  PROVE  /\ call.options.maxPostings \in Nat /\ call.options.maxPairs \in Nat
         /\ {"maxPostings", "maxPairs"} \subseteq DOMAIN call.options
         /\ call.lane \in {"domain", "domain_adaptive", "document_first", "adaptive"} =>
                call.policy.maxPairs \in Nat /\ "maxPairs" \in DOMAIN call.policy
<1>1. HasNumbers(call.options, {"maxPostings", "maxPairs", "maxResults"})
  BY RequestsAssumption
<1>2. call.lane \in {"domain", "domain_adaptive", "document_first", "adaptive"} =>
          HasNumbers(call.policy, {"maxPairs"})
  BY RequestsAssumption
<1>3. QED
  BY <1>1, <1>2 DEF HasNumbers

\* What a decision has to keep to.
Keeps(lane, d) ==
    CASE lane \in {"domain", "domain_adaptive"} ->
            DomainHolds(d, Query, Smaller(call.policy.maxPairs, call.options.maxPairs))
      [] lane = "document_first" -> FirstHolds(d, Query, call.policy.maxPairs, fresh)
      [] lane = "adaptive" ->
            d.status # "composite" =>
                WorkOf(d, Query) =< Larger(call.policy.maxPairs, d.counts.retained)
      [] OTHER -> TRUE

\* A decision that keeps to its budget keeps the invariant.
LEMMA DecisionKeeps ==
  ASSUME LanesInv, phase = "ready", NEW choice, Decide(choice), Keeps(call.lane, choice)
  PROVE  LanesInv'
<1>1. /\ decision' = choice /\ call' = call /\ current' = current /\ prepared' = prepared
      /\ fresh' = fresh /\ (phase' = "searching" \/ phase' = "done")
  BY Zenon DEF Decide
<1>2. Query' = Query /\ First' = First
  BY <1>1 DEF Query, First
<1>3. Work(decision)' = WorkOf(choice, Query)
  BY <1>1, <1>2, Zenon DEF Work, WorkOf
<1>4. CASE call.lane \in {"domain", "domain_adaptive"}
  <2>1. DomainHolds(choice, Query, Smaller(call.policy.maxPairs, call.options.maxPairs))
    BY <1>4, Zenon DEF Keeps
  <2>2. DomainBudget' /\ DomainCountsOnce'
    BY <1>1, <1>3, <2>1 DEF DomainHolds, Balanced, DomainBudget, DomainCountsOnce
  <2>3. BudgetsHold'
    BY <1>1, <1>4, <2>2, Zenon DEF BudgetsHold
  <2>4. QED
    BY <1>1, <1>2, <2>3 DEF LanesInv
<1>5. CASE call.lane = "document_first"
  <2>1. FirstHolds(choice, Query, call.policy.maxPairs, fresh)
    BY <1>5, Zenon DEF Keeps
  <2>2. DocumentBudget'
    BY <1>1, <1>3, <2>1 DEF FirstHolds, DocumentBudget
  <2>3. BudgetsHold'
    BY <1>1, <1>5, <2>2 DEF BudgetsHold
  <2>4. QED
    BY <1>1, <1>2, <2>3 DEF LanesInv
<1>6. CASE call.lane = "adaptive"
  <2>1. choice.status # "composite" =>
            WorkOf(choice, Query) =< Larger(call.policy.maxPairs, choice.counts.retained)
    BY <1>6 DEF Keeps
  <2>2. PlannedBudget'
    BY <1>1, <1>3, <2>1 DEF PlannedBudget
  <2>3. BudgetsHold'
    BY <1>1, <1>6, <2>2 DEF BudgetsHold
  <2>4. QED
    BY <1>1, <1>2, <2>3 DEF LanesInv
<1>7. CASE call.lane \notin {"domain", "domain_adaptive", "document_first", "adaptive"}
  <2>1. BudgetsHold'
    BY <1>1, <1>7 DEF BudgetsHold
  <2>2. QED
    BY <1>1, <1>2, <2>1 DEF LanesInv
<1>8. QED
  BY <1>4, <1>5, <1>6, <1>7

\* Where the decision and what it was made from stay, so does what holds of it.
LEMMA DecisionStays ==
  ASSUME LanesInv, UNCHANGED <<call, current, prepared, fresh, decision>>,
         phase' # "ready" \/ phase' = phase
  PROVE  LanesInv'
<1>1. Query' = Query /\ First' = First
  BY DEF Query, First
<1>2. Work(decision)' = Work(decision)
  BY <1>1 DEF Work
<1>3. BudgetsHold' = BudgetsHold
  BY <1>2 DEF BudgetsHold, Decided, DomainBudget, DomainCountsOnce, DocumentBudget, PlannedBudget
<1>4. QED
  BY <1>1, <1>3 DEF LanesInv

\* Every step keeps the invariant.
LEMMA LanesStep ==
  ASSUME HashesAreNumbers, LanesInv, [LanesNext]_laneVars
  PROVE  LanesInv'
<1>1. CASE Prepare
  <2>1. /\ phase = "ready" /\ prepared = Nothing /\ fresh' = TRUE
        /\ prepared' = PrepareOverlapQuery(current, Query)
        /\ UNCHANGED <<call, phase, current, decision>>
    BY <1>1 DEF Prepare
  <2>2. current = First /\ decision = Nothing
    BY <2>1 DEF LanesInv
  <2>3. Query' = Query /\ First' = First
    BY <2>1 DEF Query, First
  <2>4. BudgetsHold'
    BY <2>1, <2>2 DEF BudgetsHold, Decided, Nothing
  <2>5. QED
    BY <2>1, <2>2, <2>3, <2>4 DEF LanesInv, Nothing
<1>2. CASE Rebuild
  <2>1. /\ phase = "ready" /\ prepared # Nothing /\ fresh' = FALSE
        /\ current' = IndexOf(call.later, call.config)
        /\ UNCHANGED <<call, phase, prepared, decision>>
    BY <1>2 DEF Rebuild
  <2>2. decision = Nothing
    BY <2>1 DEF LanesInv
  <2>3. Query' = Query /\ First' = First
    BY <2>1 DEF Query, First
  <2>4. BudgetsHold'
    BY <2>1, <2>2 DEF BudgetsHold, Decided, Nothing
  <2>5. QED
    BY <2>1, <2>2, <2>3, <2>4 DEF LanesInv, Nothing
<1>3. ASSUME NEW lane, Asked(lane)
      PROVE  /\ phase = "ready" /\ call.lane = lane /\ call \in Requests /\ IsSeq(Query)
             /\ Usable(First) /\ First.entries \in Seq(Entries)
             /\ Usable(current) /\ current.entries \in Seq(Entries)
  BY <1>3, LoadedIs DEF Asked, LanesInv
<1>4. CASE AskDomain
  <2>1. PICK d : d = SearchDomain(current, Query, call.policy, call.options)
    OBVIOUS
  <2>2. Asked("domain") /\ Decide(d)
    BY <1>4, <2>1 DEF AskDomain
  <2>3. DomainHolds(d, Query, Smaller(call.policy.maxPairs, call.options.maxPairs))
    BY <1>3, <2>1, <2>2, LimitsOfLanes, DomainIs
  <2>4. Keeps(call.lane, d)
    BY <1>3, <2>2, <2>3 DEF Keeps
  <2>5. QED
    BY <1>3, <2>2, <2>4, DecisionKeeps
<1>5. CASE AskDomainAdaptive
  <2>1. PICK d : d = SearchDomainAdaptive(current, Query, call.policy, call.options)
    OBVIOUS
  <2>2. Asked("domain_adaptive") /\ Decide(d)
    BY <1>5, <2>1 DEF AskDomainAdaptive
  <2>3. DomainHolds(d, Query, Smaller(call.policy.maxPairs, call.options.maxPairs))
    BY <1>3, <2>1, <2>2, LimitsOfLanes, DomainAdaptiveIs
  <2>4. Keeps(call.lane, d)
    BY <1>3, <2>2, <2>3 DEF Keeps
  <2>5. QED
    BY <1>3, <2>2, <2>4, DecisionKeeps
<1>6. CASE AskDocumentFirst
  <2>1. PICK d : d = SearchDocumentFirst(current, prepared, call.policy, call.options)
    OBVIOUS
  <2>2. Asked("document_first") /\ Decide(d) /\ prepared # Nothing
    BY <1>6, <2>1 DEF AskDocumentFirst
  <2>3. prepared = PrepareOverlapQuery(First, Query) /\ (fresh => current = First)
    BY <2>2 DEF LanesInv
  <2>4. PICK first, pq, idx, asked, limits :
            /\ first = First /\ pq = prepared /\ idx = current /\ asked = Query
            /\ limits = call.policy
    OBVIOUS
  <2>5. PreparedOf(pq, first, Selection(asked, first.config))
    BY <1>3, <2>2, <2>3, <2>4, PreparedIs
  <2>6. FirstHolds(d, asked, limits.maxPairs, idx = first)
    BY <1>3, <2>1, <2>2, <2>4, <2>5, LimitsOfLanes, DocumentFirstIs
  <2>7. FirstHolds(d, Query, call.policy.maxPairs, fresh)
    BY <2>3, <2>4, <2>6 DEF FirstHolds
  <2>8. Keeps(call.lane, d)
    BY <1>3, <2>2, <2>7 DEF Keeps
  <2>9. QED
    BY <1>3, <2>2, <2>8, DecisionKeeps
<1>7. CASE AskDirectly \/ AskComposite
  <2>1. PICK d : Decide(d) /\ (Asked("plain") \/ Asked("composite"))
    BY <1>7 DEF AskDirectly, AskComposite
  <2>2. Keeps(call.lane, d)
    BY <1>3, <2>1 DEF Keeps
  <2>3. QED
    BY <1>3, <2>1, <2>2, DecisionKeeps
<1>8. CASE AskAdaptive
  <2>1. PICK plan : plan = PlanQuery(current, Query, call.options, call.policy)
    OBVIOUS
  <2>2. Asked("adaptive") /\ DecidePlan(plan)
    BY <1>8, <2>1 DEF AskAdaptive
  <2>3. PICK o, d : /\ o = (IF plan.route = "composite"
                            THEN PassageOptions(WithPlan(plan, call.options), call.policy)
                            ELSE WithPlan(plan, call.options))
                    /\ d = Searches(plan.route, plan, current, o)
    OBVIOUS
  <2>4. Decide(d)
    BY <2>2, <2>3, Zenon DEF DecidePlan
  <2>5. d.status = plan.route /\ d.counts = plan /\ d.index = current /\ d.options = o
    BY <2>3 DEF Searches
  <2>6. ASSUME plan.route # "composite"
        PROVE  WorkOf(d, Query) =< Larger(call.policy.maxPairs, plan.retained)
    <3>1. PICK known : known = KnownFeatures(current, Selection(Query, current.config))
      OBVIOUS
    <3>2. PairsIn(Light(known, WithPlan(plan, call.options)))
              =< Larger(call.policy.maxPairs, plan.retained)
      BY <1>3, <2>1, <2>2, <3>1, LimitsOfLanes, PlannedIs
    <3>3. WorkOf(d, Query) = PairsIn(Light(known, WithPlan(plan, call.options)))
      BY <2>3, <2>5, <2>6, <3>1, Zenon DEF WorkOf
    <3>4. QED
      BY <3>2, <3>3
  <2>7. Keeps(call.lane, d)
    BY <1>3, <2>2, <2>5, <2>6 DEF Keeps
  <2>8. QED
    BY <1>3, <2>2, <2>4, <2>7, DecisionKeeps
<1>9. CASE Reject \/ Execute \/ AssembleComposites \/ UNCHANGED laneVars
  <2>1. /\ UNCHANGED <<call, current, prepared, fresh, decision>>
        /\ phase' # "ready" \/ phase' = phase
    <3>1. CASE Reject
      BY <3>1 DEF Reject
    <3>2. CASE Execute
      BY <3>2, Zenon DEF Execute
    <3>3. CASE AssembleComposites
      BY <3>3 DEF AssembleComposites
    <3>4. CASE UNCHANGED laneVars
      BY <3>4 DEF laneVars
    <3>5. QED
      BY <1>9, <3>1, <3>2, <3>3, <3>4
  <2>2. QED
    BY <2>1, DecisionStays
<1>10. QED
  BY <1>1, <1>2, <1>4, <1>5, <1>6, <1>7, <1>8, <1>9, Zenon DEF LanesNext

\* Whatever is searched through whichever lane, the search goes through no
\* more pairs than the lane's budget, and what is reported adds up.
THEOREM LanesKeepBudgets ==
  ASSUME HashesAreNumbers
  PROVE  LanesSpec => []BudgetsHold
<1>1. LanesInv /\ [LanesNext]_laneVars => LanesInv'
  BY LanesStep
<1>2. LanesInv => BudgetsHold
  BY DEF LanesInv
<1>3. QED
  BY <1>1, <1>2, LanesStart, PTL DEF LanesSpec

-----------------------------------------------------------------------------
(* The length of a union of intervals *)

\* What intervals <<start, end>> cover.
Intervals == Nat \X Nat
Points(S) == UNION {i[1]..(i[2] - 1) : i \in S}
States == [start : Int, end : Int, behind : Int]

\* The sweep stands at x when what it has met covers C and last began at low.
Reached(x, C, low) ==
    /\ x \in States /\ x.start < x.end /\ x.start =< low
    /\ x.start..(x.end - 1) \subseteq C /\ C \subseteq Int /\ \A c \in C : c < x.end
    /\ IsFiniteSet(C) /\ Cardinality(C) = x.behind + x.end - x.start

\* Numbers that lie beyond a finite set add to its size.
LEMMA BeyondAdds ==
  ASSUME NEW C, C \subseteq Int, IsFiniteSet(C), NEW a \in Int, NEW b \in Int, a =< b,
         \A c \in C : c < a
  PROVE  /\ IsFiniteSet(C \cup (a..(b - 1)))
         /\ Cardinality(C \cup (a..(b - 1))) = Cardinality(C) + b - a
<1>1. IsFiniteSet(a..(b - 1)) /\ Cardinality(a..(b - 1)) = b - a
  <2>1. b - 1 \in Int
    OBVIOUS
  <2>2. IsFiniteSet(a..(b - 1))
        /\ Cardinality(a..(b - 1)) = IF a > b - 1 THEN 0 ELSE (b - 1) - a + 1
    BY <2>1, FS_Interval
  <2>3. QED
    BY <2>2
<1>2. C \cap (a..(b - 1)) = {}
  OBVIOUS
<1>3. /\ IsFiniteSet(C \cup (a..(b - 1)))
      /\ Cardinality(C \cup (a..(b - 1)))
            = Cardinality(C) + Cardinality(a..(b - 1)) - Cardinality(C \cap (a..(b - 1)))
  BY <1>1, FS_Union
<1>4. PICK D : D = a..(b - 1)
  OBVIOUS
<1>5. Cardinality(C) \in Nat /\ Cardinality(C \cap D) = 0
  BY <1>2, <1>4, FS_CardinalityType, FS_EmptySet
<1>6. Cardinality(C \cup D) = Cardinality(C) + b - a
  BY <1>1, <1>3, <1>4, <1>5
<1>7. QED
  BY <1>3, <1>4, <1>6

\* One interval more.
LEMMA SweepStep ==
  ASSUME NEW x, NEW C, NEW low \in Int, Reached(x, C, low), NEW i \in Intervals, i[1] < i[2],
         low =< i[1]
  PROVE  Reached(Sweep(x, i), C \cup (i[1]..(i[2] - 1)), i[1])
<1>1. PICK s \in Int, e \in Int, h \in Int :
        x = [start |-> s, end |-> e, behind |-> h]
  BY DEF Reached, States
<1>2. PICK a \in Nat, b \in Nat : a = i[1] /\ b = i[2] /\ a < b
  BY DEF Intervals
<1>3. /\ s < e /\ s =< a /\ s..(e - 1) \subseteq C /\ C \subseteq Int /\ IsFiniteSet(C)
      /\ \A c \in C : c < e
      /\ Cardinality(C) = h + e - s
  BY <1>1, <1>2 DEF Reached
<1>4. Cardinality(C) \in Nat
  BY <1>3, FS_CardinalityType
<1>5. CASE a =< e
  <2>1. PICK f \in Int : f = Larger(e, b)
    BY DEF Larger
  <2>2. e =< f /\ b =< f /\ (f = e \/ f = b)
    BY <2>1 DEF Larger
  <2>3. Sweep(x, i) = [start |-> s, end |-> f, behind |-> h]
    BY <1>1, <1>2, <1>5, <2>1 DEF Sweep
  <2>4. C \cup (a..(b - 1)) = C \cup (e..(f - 1))
    <3>1. ASSUME NEW c \in a..(b - 1)
          PROVE  c \in C \cup (e..(f - 1))
      <4>1. c < e => c \in s..(e - 1)
        BY <1>3
      <4>2. QED
        BY <1>3, <2>2, <4>1
    <3>2. ASSUME NEW c \in e..(f - 1)
          PROVE  c \in a..(b - 1)
      BY <1>5, <2>2
    <3>3. QED
      BY <3>1, <3>2
  <2>5. /\ IsFiniteSet(C \cup (e..(f - 1)))
        /\ Cardinality(C \cup (e..(f - 1))) = Cardinality(C) + f - e
    BY <1>3, <2>2, BeyondAdds
  <2>6. s..(f - 1) \subseteq C \cup (e..(f - 1))
    <3>1. \A c \in s..(f - 1) : c \in s..(e - 1) \/ c \in e..(f - 1)
      OBVIOUS
    <3>2. QED
      BY <1>3, <3>1
  <2>7. C \cup (e..(f - 1)) \subseteq Int /\ \A c \in C \cup (e..(f - 1)) : c < f
    BY <1>3, <2>2
  <2>8. Cardinality(C \cup (e..(f - 1))) = h + f - s
    BY <1>3, <2>5
  <2>9. PICK y, D : y = Sweep(x, i) /\ D = C \cup (e..(f - 1))
    OBVIOUS
  <2>10. y \in States /\ y.start = s /\ y.end = f /\ y.behind = h
    BY <2>3, <2>9 DEF States
  <2>11. Reached(y, D, a)
    BY <1>3, <2>2, <2>5, <2>6, <2>7, <2>8, <2>9, <2>10 DEF Reached
  <2>12. QED
    BY <1>2, <2>4, <2>9, <2>11
<1>6. CASE e < a
  <2>1. Sweep(x, i) = [start |-> a, end |-> b, behind |-> h + e - s]
    BY <1>1, <1>2, <1>6 DEF Sweep
  <2>2. a \in Int /\ b \in Int /\ a =< b /\ \A c \in C : c < a
    BY <1>2, <1>3, <1>6
  <2>3. /\ IsFiniteSet(C \cup (a..(b - 1)))
        /\ Cardinality(C \cup (a..(b - 1))) = Cardinality(C) + b - a
    BY ONLY <1>3, <2>2, BeyondAdds
  <2>4. C \cup (a..(b - 1)) \subseteq Int /\ \A c \in C \cup (a..(b - 1)) : c < b
    <3>1. \A c \in C : c \in Int /\ c < b
      BY ONLY <1>2, <1>3, <2>2
    <3>2. \A c \in a..(b - 1) : c \in Int /\ c < b
      BY ONLY <2>2
    <3>3. QED
      BY ONLY <3>1, <3>2
  <2>5. PICK y, D, k : y = Sweep(x, i) /\ D = C \cup (a..(b - 1)) /\ k = h + e - s
    OBVIOUS
  <2>6. y \in States /\ y.start = a /\ y.end = b /\ y.behind = k /\ k \in Int
    BY <2>1, <2>5 DEF States
  <2>7. Cardinality(D) = k + b - a
    BY <1>3, <2>3, <2>5
  <2>8. Reached(y, D, a)
    BY <1>2, <2>3, <2>4, <2>5, <2>6, <2>7 DEF Reached
  <2>9. QED
    BY <1>2, <2>5, <2>8
<1>7. QED
  BY <1>2, <1>3, <1>5, <1>6

\* Intervals in the order of their starts: the sweep counts what they cover.
LEMMA SweepAllIs ==
  ASSUME NEW s \in Seq(Intervals), s # <<>>, \A i \in 1..Len(s) : s[i][1] < s[i][2],
         \A i, j \in 1..Len(s) : i < j => s[i][1] =< s[j][1]
  PROVE  SweepAll(s) = Cardinality(Points(Range(s)))
<1>1. PICK n \in Nat : Len(s) = n + 1 /\ DOMAIN s = 1..(n + 1)
  <2>1. Len(s) \in Nat /\ Len(s) # 0 /\ DOMAIN s = 1..Len(s)
    BY EmptySeq, LenProperties
  <2>2. Len(s) - 1 \in Nat /\ Len(s) = (Len(s) - 1) + 1
    BY <2>1
  <2>3. QED
    BY <2>1, <2>2
<1>2. \A i \in 1..(n + 1) : s[i] \in Intervals
  BY <1>1, ElementOfSeq
<1>3. PICK t : t = Tail(s)
  OBVIOUS
<1>4. t \in Seq(Intervals) /\ DOMAIN t = 1..n /\ \A i \in 1..n : t[i] = s[i + 1]
  <2>1. t \in Seq(Intervals) /\ Len(t) = n /\ \A i \in 1..Len(t) : t[i] = s[i + 1]
    BY <1>1, <1>3, HeadTailProperties
  <2>2. QED
    BY <2>1, LenProperties
<1> DEFINE base == [start |-> s[1][1], end |-> s[1][2], behind |-> 0]
           step == [i \in 1..n |-> [x \in States |-> Sweep(x, t[i])]]
           Body(g) == [T \in SUBSET (1..n) |->
                         IF T = {} THEN base ELSE Sweep(g[T \ {Max(T)}], t[Max(T)])]
           iter == CHOOSE g : g = Body(g)
<1>5. base \in States
  <2>1. 1 \in 1..(n + 1)
    OBVIOUS
  <2>2. s[1][1] \in Nat /\ s[1][2] \in Nat
    BY <1>2, <2>1 DEF Intervals
  <2>3. QED
    BY <2>2 DEF States
<1>6. ASSUME NEW x \in States, NEW i \in Intervals
      PROVE  Sweep(x, i) \in States
  <2>1. PICK a \in Int, b \in Int, h \in Int : x = [start |-> a, end |-> b, behind |-> h]
    BY DEF States
  <2>2. PICK c \in Int, d \in Int : c = i[1] /\ d = i[2]
    BY DEF Intervals
  <2>3. Larger(b, d) \in Int
    BY DEF Larger
  <2>4. Sweep(x, i) = IF c =< b THEN [start |-> a, end |-> Larger(b, d), behind |-> h]
                      ELSE [start |-> c, end |-> d, behind |-> h + b - a]
    BY <2>1, <2>2 DEF Sweep
  <2>5. QED
    BY <2>3, <2>4 DEF States
<1>7. step \in [1..n -> [States -> States]]
  <2>1. \A i \in 1..n : t[i] \in Intervals
    BY <1>2, <1>4
  <2>2. QED
    BY <1>6, <2>1
<1>8. ASSUME NEW g, NEW T \in SUBSET (1..n), T # {}, g[T \ {Max(T)}] \in States
      PROVE  Body(g)[T] = step[Max(T)][g[T \ {Max(T)}]]
  <2>1. Max(T) \in 1..n
    <3>1. T \in SUBSET (0..n)
      OBVIOUS
    <3>2. QED
      BY <1>8, <3>1, MaxIs
  <2>2. QED
    BY <1>8, <2>1
<1>9. PICK g \in [SUBSET (1..n) -> States] : FoldsUp(g, base, step, n)
  <2> HIDE DEF step, base
  <2>1. QED
    BY <1>5, <1>7, Folding
<1>10. g = Body(g)
  <2>1. ASSUME NEW T \in SUBSET (1..n)
        PROVE  g[T] = Body(g)[T]
    <3>1. CASE T = {}
      BY <1>9, <3>1 DEF FoldsUp
    <3>2. CASE T # {}
      <4>1. g[T] = step[Max(T)][g[T \ {Max(T)}]] /\ g[T \ {Max(T)}] \in States
        <5> HIDE DEF step, base
        <5>1. QED
          BY <1>9, <3>2 DEF FoldsUp
      <4> HIDE DEF Body, step
      <4>2. QED
        BY <1>8, <3>2, <4>1
    <3>3. QED
      BY <3>1, <3>2
  <2>2. DOMAIN g = SUBSET (1..n)
    BY <1>9
  <2> HIDE DEF base
  <2>3. QED
    BY <2>1, <2>2
<1>11. iter = Body(iter)
  BY <1>10, Zenon
<1>12. SweepAll(s) = Swept(iter[1..n])
  <2>1. FoldLeft(Sweep, base, t) = iter[1..n]
    <3> HIDE DEF base
    <3>1. QED
      BY <1>4, Zenon DEF FoldLeft, MapThenFoldSet
  <2>2. SweepAll(s) = Swept(FoldLeft(Sweep, base, t))
    BY <1>3, Zenon DEF SweepAll
  <2>3. QED
    BY <2>1, <2>2, Zenon
<1> HIDE DEF iter
<1>13. PICK P \in [0..n -> States] : Iterates(P, base, step, n) /\ iter[1..n] = P[n]
  <2>1. iter[{}] = base
    <3>1. {} \in SUBSET (1..n)
      OBVIOUS
    <3> HIDE DEF base
    <3>2. QED
      BY <1>11, <3>1
  <2>2. FoldsIn(iter, base, step, n, States)
    <3> HIDE DEF step, Body, base
    <3>1. QED
      BY <1>8, <1>11, <2>1 DEF FoldsIn
  <2> HIDE DEF step, Body, base
  <2>3. PICK p, h, b, X : p = step /\ h = iter /\ b = base /\ X = States
    OBVIOUS
  <2>4. p \in [1..n -> [X -> X]] /\ FoldsIn(h, b, p, n, X) /\ b \in X
    BY <1>5, <1>7, <2>2, <2>3
  <2>5. \E P \in [0..n -> X] : Iterates(P, b, p, n) /\ h[1..n] = P[n]
    BY <2>4, Folded, SMTT(60)
  <2>6. QED
    BY <2>3, <2>5
<1> DEFINE Behind(k) == UNION {s[i][1]..(s[i][2] - 1) : i \in 1..(k + 1)}
           K == {k \in 0..n : Reached(P[k], Behind(k), s[k + 1][1])}
<1>14. \A i \in 1..(n + 1) : s[i][1] \in Nat /\ s[i][2] \in Nat /\ s[i][1] < s[i][2]
  BY <1>1, <1>2 DEF Intervals
<1>15. 0 \in K
  <2>1. P[0] = base /\ 0 \in 0..n /\ 1 \in 1..(n + 1)
    BY <1>13 DEF Iterates
  <2>2. PICK a \in Nat, b \in Nat : a = s[1][1] /\ b = s[1][2] /\ a < b
    BY <1>14, <2>1
  <2>3. Behind(0) = a..(b - 1)
    <3>1. 1..(0 + 1) = {1}
      OBVIOUS
    <3>2. Behind(0) = UNION {s[i][1]..(s[i][2] - 1) : i \in {1}}
      BY <3>1
    <3>3. UNION {s[i][1]..(s[i][2] - 1) : i \in {1}} = s[1][1]..(s[1][2] - 1)
      BY Zenon
    <3>4. QED
      BY <2>2, <3>2, <3>3
  <2>4. PICK y, C : y = base /\ C = a..(b - 1)
    OBVIOUS
  <2>5. y.start = a /\ y.end = b /\ y.behind = 0 /\ y \in States
    BY <1>5, <2>2, <2>4
  <2>6. IsFiniteSet(C) /\ Cardinality(C) = b - a
    <3>1. b - 1 \in Int /\ a \in Int
      OBVIOUS
    <3>2. IsFiniteSet(a..(b - 1))
          /\ Cardinality(a..(b - 1)) = IF a > b - 1 THEN 0 ELSE (b - 1) - a + 1
      BY <3>1, FS_Interval
    <3>3. QED
      BY <2>2, <2>4, <3>2
  <2>7. Reached(y, C, a)
    BY <2>2, <2>4, <2>5, <2>6 DEF Reached
  <2> HIDE DEF base, Behind
  <2>8. QED
    BY <2>1, <2>2, <2>3, <2>4, <2>7
<1>16. ASSUME NEW k \in 0..n, k \in K, k < n
       PROVE  k + 1 \in K
  <2>1. k + 1 \in 1..n /\ k + 2 \in 1..(n + 1) /\ k + 1 \in 1..(n + 1) /\ (k + 1) - 1 = k
        /\ (k + 1) + 1 = k + 2
    BY <1>16
  <2>2. PICK i \in Intervals : i = s[k + 2]
    BY <1>2, <2>1
  <2>3. t[k + 1] = i
    BY <1>4, <2>1, <2>2
  <2>4. P[k + 1] = Sweep(P[k], i)
    <3>1. P[k + 1] = step[k + 1][P[k]]
      <4> HIDE DEF step
      <4>1. QED
        BY <1>13, <2>1 DEF Iterates
    <3>2. P[k] \in States
      BY <1>13
    <3>3. QED
      BY <2>1, <2>3, <3>1, <3>2
  <2>5. Behind(k + 1) = Behind(k) \cup (i[1]..(i[2] - 1))
    <3>1. 1..((k + 1) + 1) = 1..(k + 1) \cup {k + 2}
      BY <2>1
    <3>2. QED
      BY <2>2, <3>1
  <2>6. s[k + 1][1] =< i[1] /\ s[k + 1][1] \in Int /\ i[1] < i[2]
    BY <1>1, <1>14, <2>1, <2>2
  <2>7. PICK x, C, low : x = P[k] /\ C = Behind(k) /\ low = s[k + 1][1]
    OBVIOUS
  <2>8. Reached(x, C, low)
    BY <1>16, <2>7
  <2>9. Reached(Sweep(x, i), C \cup (i[1]..(i[2] - 1)), i[1])
    <3>1. low \in Int /\ low =< i[1]
      BY <2>6, <2>7
    <3>2. QED
      BY <2>6, <2>8, <3>1, SweepStep
  <2> HIDE DEF Behind
  <2>10. Reached(P[k + 1], Behind(k + 1), s[(k + 1) + 1][1])
    BY <2>1, <2>2, <2>4, <2>5, <2>7, <2>9
  <2>11. QED
    BY <2>1, <2>10
<1>17. n \in K
  <2> HIDE DEF K
  <2>1. \A k \in 0..n : k \in K
    BY <1>15, <1>16, UpTo
  <2>2. QED
    BY <2>1
<1>18. Behind(n) = Points(Range(s))
  BY <1>1 DEF Points, Range
<1>19. PICK x, C : x = P[n] /\ C = Behind(n)
  OBVIOUS
<1>20. Reached(x, C, s[n + 1][1])
  BY <1>17, <1>19
<1>21. Swept(x) = Cardinality(C)
  BY <1>20 DEF Reached, Swept, States
<1>22. QED
  BY <1>12, <1>13, <1>18, <1>19, <1>21

\* What finitely many intervals cover is finite.
LEMMA PointsAreFinite ==
  ASSUME NEW S, IsFiniteSet(S), S \subseteq Intervals
  PROVE  IsFiniteSet(Points(S)) /\ Cardinality(Points(S)) \in Nat
<1>1. ASSUME NEW i \in S
      PROVE  IsFiniteSet(i[1]..(i[2] - 1))
  <2>1. i[1] \in Int /\ i[2] - 1 \in Int
    BY DEF Intervals
  <2>2. QED
    BY <2>1, FS_Interval
<1>2. IsFiniteSet({i[1]..(i[2] - 1) : i \in S})
  <2>1. PICK f : f = [i \in S |-> i[1]..(i[2] - 1)]
    OBVIOUS
  <2>2. DOMAIN f = S /\ {f[i] : i \in S} = {i[1]..(i[2] - 1) : i \in S}
    BY <2>1
  <2>3. QED
    BY <2>2, ImageIsFinite
<1>3. IsFiniteSet(Points(S))
  BY <1>1, <1>2, FS_UNION, Zenon DEF Points
<1>4. QED
  BY <1>3, FS_CardinalityType

\* The length of a union of intervals is the number of tokens in it, each
\* counted once.
LEMMA UnionLengthIs ==
  ASSUME NEW S, IsFiniteSet(S), S \subseteq Intervals
  PROVE  IntervalUnionLength(S) = Cardinality(Points(S))
<1>1. PICK R : R = {i \in S : i[1] < i[2]}
  OBVIOUS
<1>2. R \subseteq Intervals /\ IsFiniteSet(R) /\ R \subseteq S
  <2>1. R \subseteq S
    BY <1>1
  <2>2. QED
    BY <2>1, FS_Subset
<1>3. \A i \in S : i[1] \in Nat /\ i[2] \in Nat
  BY DEF Intervals
<1>4. Points(S) = Points(R)
  <2>1. ASSUME NEW i \in S, NEW c \in i[1]..(i[2] - 1)
        PROVE  i \in R
    BY <1>1, <1>3
  <2>2. QED
    BY <1>2, <2>1 DEF Points
<1>5. CASE R = {}
  <2>1. ~(\E i \in S : i[1] < i[2])
    BY <1>1, <1>5
  <2>2. IntervalUnionLength(S) = 0
    BY <2>1, Zenon DEF IntervalUnionLength
  <2>3. Points(R) = {}
    BY <1>5 DEF Points
  <2>4. QED
    BY <1>4, <2>2, <2>3, FS_EmptySet
<1>6. CASE R # {}
  <2>1. PICK key, s : key = [i \in R |-> i] /\ s = OrderedBy(R, key)
    OBVIOUS
  <2>2. IntervalUnionLength(S) = SweepAll(s)
    <3>1. \E i \in S : i[1] < i[2]
      BY <1>1, <1>6
    <3>2. s = Ordered({i \in S : i[1] < i[2]}, LAMBDA i : i)
      BY <1>1, <2>1, Zenon DEF Ordered
    <3>3. QED
      BY <3>1, <3>2, Zenon DEF IntervalUnionLength
  <2>3. key \in [R -> Keys(2)]
    <3>1. ASSUME NEW i \in R
          PROVE  i \in Keys(2)
      <4>1. PICK a \in Nat, b \in Nat : i = <<a, b>>
        BY <1>2 DEF Intervals
      <4>2. <<a, b>> \in Keys(2)
        BY KeyOfTwo
      <4>3. QED
        BY <4>1, <4>2
    <3>2. QED
      BY <2>1, <3>1
  <2>4. Sorts(s, R, key)
    BY <1>2, <2>1, <2>3, OrderedByIs
  <2>5. s \in Seq(R) /\ Range(s) = R /\ s \in Seq(Intervals)
    <3>1. s \in Seq(R) /\ Range(s) = R
      BY <2>4 DEF Sorts
    <3>2. QED
      BY <1>2, <3>1
  <2>6. PICK n \in Nat : n = Len(s) /\ DOMAIN s = 1..n
    BY <2>5, LenProperties
  <2>7. \A i \in 1..n : s[i] \in R /\ s[i][1] \in Nat /\ s[i][2] \in Nat /\ s[i][1] < s[i][2]
    BY <1>1, <1>3, <2>5, <2>6, ElementOfSeq
  <2>8. s # <<>>
    <3>1. SUFFICES ASSUME s = <<>> PROVE FALSE
      OBVIOUS
    <3>2. DOMAIN s = {}
      BY <3>1
    <3>3. Range(s) = {}
      BY <3>2 DEF Range
    <3>4. QED
      BY <1>6, <2>5, <3>3
  <2>9. ASSUME NEW i \in 1..n, NEW j \in 1..n, i < j
        PROVE  s[i][1] =< s[j][1]
    <3>1. ~Precedes(key[s[j]], key[s[i]])
      BY <2>4, <2>6, <2>9 DEF Sorts
    <3>2. key[s[j]] = s[j] /\ key[s[i]] = s[i]
      BY <2>1, <2>7
    <3>3. 1 \in DOMAIN s[j] /\ \A k \in 1..(1 - 1) : s[j][k] = s[i][k]
      <4>1. PICK a \in Nat, b \in Nat : s[j] = <<a, b>>
        BY <1>2, <2>7 DEF Intervals
      <4>2. QED
        BY <4>1
    <3>4. s[j][1] < s[i][1] => Precedes(s[j], s[i])
      BY <3>3 DEF Precedes
    <3>5. QED
      BY <2>7, <3>1, <3>2, <3>4
  <2>10. SweepAll(s) = Cardinality(Points(Range(s)))
    BY <2>5, <2>6, <2>7, <2>8, <2>9, SweepAllIs
  <2>11. QED
    BY <1>4, <2>2, <2>5, <2>10
<1>7. QED
  BY <1>5, <1>6

-----------------------------------------------------------------------------
(* The blocks of a composite *)

\* A hit as composites are made of them.
IsBlock(h) ==
    /\ h.queryStart \in Nat /\ h.queryEnd \in Nat /\ h.queryStart < h.queryEnd
    /\ h.start \in Nat /\ h.end \in Nat /\ h.start < h.end
    /\ h.score \in Int /\ h.similarity \in Int /\ h.queryCoverage \in Int
IsComposing(c) ==
    /\ c.maxBlocks \in Nat \ {0} /\ c.minTokens \in Nat /\ c.minIncrement \in Nat
    /\ c.maxOverlap \in Nat

\* The part of the query, or of a document, that hits cover.
InQueries(B) == {InQuery(b) : b \in B}
InTexts(B) == {InCorpus(b) : b \in B}

\* Hits cover intervals, and as many of them as there are hits or fewer.
LEMMA BlocksCover ==
  ASSUME NEW B, IsFiniteSet(B), \A b \in B : IsBlock(b)
  PROVE  /\ IsFiniteSet(InQueries(B)) /\ InQueries(B) \subseteq Intervals
         /\ IsFiniteSet(InTexts(B)) /\ InTexts(B) \subseteq Intervals
         /\ IntervalUnionLength(InQueries(B)) = Cardinality(Tokens(B, InQuery))
         /\ IntervalUnionLength(InTexts(B)) = Cardinality(Tokens(B, InCorpus))
         /\ Cardinality(Tokens(B, InQuery)) \in Nat /\ Cardinality(Tokens(B, InCorpus)) \in Nat
<1>1. ASSUME NEW b \in B
      PROVE  InQuery(b) \in Intervals /\ InCorpus(b) \in Intervals
  BY DEF IsBlock, InQuery, InCorpus, Intervals
<1>2. IsFiniteSet(InQueries(B)) /\ IsFiniteSet(InTexts(B))
  <2>1. PICK f, g : f = [b \in B |-> InQuery(b)] /\ g = [b \in B |-> InCorpus(b)]
    OBVIOUS
  <2>2. DOMAIN f = B /\ {f[b] : b \in B} = InQueries(B)
    BY <2>1, Zenon DEF InQueries
  <2>3. DOMAIN g = B /\ {g[b] : b \in B} = InTexts(B)
    BY <2>1, Zenon DEF InTexts
  <2>4. QED
    BY <2>2, <2>3, ImageIsFinite
<1>3. InQueries(B) \subseteq Intervals /\ InTexts(B) \subseteq Intervals
  BY <1>1 DEF InQueries, InTexts
<1>4. Points(InQueries(B)) = Tokens(B, InQuery)
  BY DEF Points, InQueries, Tokens
<1>5. Points(InTexts(B)) = Tokens(B, InCorpus)
  BY DEF Points, InTexts, Tokens
<1>6. QED
  BY <1>2, <1>3, <1>4, <1>5, UnionLengthIs, PointsAreFinite

\* Two blocks overlap as much whichever comes first.
LEMMA OverlapIsMutual ==
  ASSUME NEW a, IsBlock(a), NEW b, IsBlock(b), NEW c
  PROVE  OverlapsTooMuch(a, b, c) <=> OverlapsTooMuch(b, a, c)
<1>1. ASSUME NEW x \in Intervals, NEW y \in Intervals
      PROVE  OverlapFraction(x, y) = OverlapFraction(y, x)
  <2>1. PICK p \in Nat, q \in Nat : p = x[1] /\ q = x[2]
    BY DEF Intervals
  <2>2. PICK r \in Nat, t \in Nat : r = y[1] /\ t = y[2]
    BY DEF Intervals
  <2>3. Smaller(q, t) = Smaller(t, q) /\ Larger(p, r) = Larger(r, p)
    BY DEF Smaller, Larger
  <2>4. Monus(q, p) \in Int /\ Monus(t, r) \in Int
    BY DEF Monus, Larger
  <2>5. Smaller(Monus(q, p), Monus(t, r)) = Smaller(Monus(t, r), Monus(q, p))
    BY <2>4 DEF Smaller
  <2>6. QED
    BY <2>1, <2>2, <2>3, <2>5, Zenon DEF OverlapFraction
<1>2. /\ InQuery(a) \in Intervals /\ InCorpus(a) \in Intervals
      /\ InQuery(b) \in Intervals /\ InCorpus(b) \in Intervals
  BY DEF IsBlock, InQuery, InCorpus, Intervals
<1>3. QED
  BY <1>1, <1>2, Zenon DEF OverlapsTooMuch

\* What selecting keeps true of the blocks selected so far.
GoodBlocks(t, H, c) ==
    /\ t \in Seq(H) /\ Len(t) =< c.maxBlocks
    /\ \A i, j \in 1..Len(t) : i < j => ~OverlapsTooMuch(t[j], t[i], c)
    /\ QueryUnion(t) >= (Len(t) - 1) * c.minIncrement

\* One hit more.
LEMMA SelectBlockIs ==
  ASSUME NEW H, IsFiniteSet(H), \A h \in H : IsBlock(h), NEW c, IsComposing(c),
         NEW t, GoodBlocks(t, H, c), NEW h \in H
  PROVE  GoodBlocks(SelectBlock(t, h, c), H, c) /\ SelectBlock(t, h, c) # <<>>
<1>1. PICK n \in Nat : n = Len(t) /\ DOMAIN t = 1..n
  BY LenProperties DEF GoodBlocks
<1>2. t \in Seq(H)
  BY DEF GoodBlocks
<1>3. PICK m \in Nat, w \in Nat : m = c.minIncrement /\ w = c.maxBlocks /\ w > 0
  BY DEF IsComposing
<1>4. CASE SelectBlock(t, h, c) = t
  <2>1. SUFFICES t # <<>>
    BY <1>4
  <2>2. SUFFICES ASSUME t = <<>> PROVE FALSE
    OBVIOUS
  <2>3. SelectBlock(t, h, c) = Append(t, h)
    <3>1. ~(Len(t) >= c.maxBlocks)
      BY <1>3, <2>2
    <3>2. ~(\E i \in DOMAIN t : OverlapsTooMuch(h, t[i], c))
      BY <2>2
    <3>3. QED
      BY <2>2, <3>1, <3>2, Zenon DEF SelectBlock
  <2>4. Len(Append(t, h)) = n + 1
    BY <1>1, <1>2, AppendProperties
  <2>5. QED
    BY <1>1, <1>4, <2>3, <2>4
<1>5. CASE SelectBlock(t, h, c) # t
  <2>1. PICK u : u = Append(t, h)
    OBVIOUS
  <2>2. /\ SelectBlock(t, h, c) = u
        /\ ~(Len(t) >= c.maxBlocks)
        /\ ~(\E i \in DOMAIN t : OverlapsTooMuch(h, t[i], c))
        /\ t # <<>> => ~(QueryUnion(u) - QueryUnion(t) < c.minIncrement)
    BY <1>5, <2>1, Zenon DEF SelectBlock
  <2>3. /\ u \in Seq(H) /\ Len(u) = n + 1 /\ DOMAIN u = 1..(n + 1) /\ u[n + 1] = h
        /\ \A i \in 1..n : u[i] = t[i]
    BY <1>1, <1>2, <2>1, AppendProperties, LenProperties
  <2>4. u # <<>>
    BY <2>3
  <2>5. QueryUnion(u) \in Nat /\ QueryUnion(t) \in Nat
    <3>1. ASSUME NEW v \in Seq(H)
          PROVE  QueryUnion(v) \in Nat
      <4>1. IsFiniteSet(Range(v)) /\ Range(v) \subseteq H
        <5>1. PICK k \in Nat : k = Len(v) /\ DOMAIN v = 1..k
          BY LenProperties
        <5>2. \A i \in 1..k : v[i] \in H
          BY <5>1, ElementOfSeq
        <5>3. QED
          BY <5>1, <5>2, RangeIsFinite DEF Range
      <4>2. QueryUnion(v) = IntervalUnionLength(InQueries(Range(v)))
        BY Zenon DEF QueryUnion, InQueries
      <4>3. QED
        BY <4>1, <4>2, BlocksCover
    <3>2. QED
      BY <1>2, <2>3, <3>1
  <2>6. QueryUnion(u) >= ((n + 1) - 1) * m
    <3>1. CASE t = <<>>
      <4>1. n = 0
        BY <1>1, <3>1
      <4>2. QED
        BY <2>5, <4>1
    <3>2. CASE t # <<>>
      <4>1. PICK a \in Nat, b \in Nat : a = QueryUnion(u) /\ b = QueryUnion(t)
        BY <2>5
      <4>2. a >= b + m
        BY <1>3, <2>2, <3>2, <4>1
      <4>3. b >= (n - 1) * m
        BY <1>1, <1>3, <4>1 DEF GoodBlocks
      <4>4. (n - 1) * m + m = ((n + 1) - 1) * m /\ (n - 1) * m \in Int
        BY ONLY n \in Nat, m \in Nat
      <4>5. QED
        BY <4>1, <4>2, <4>3, <4>4
    <3>3. QED
      BY <3>1, <3>2
  <2>7. ASSUME NEW i \in 1..(n + 1), NEW j \in 1..(n + 1), i < j
        PROVE  ~OverlapsTooMuch(u[j], u[i], c)
    <3>1. i \in 1..n /\ u[i] = t[i]
      BY <2>3, <2>7
    <3>2. CASE j = n + 1
      BY <1>1, <2>2, <2>3, <3>1, <3>2
    <3>3. CASE j \in 1..n
      BY <1>1, <2>3, <2>7, <3>1, <3>3 DEF GoodBlocks
    <3>4. QED
      BY <3>2, <3>3
  <2>8. n + 1 =< w
    BY <1>1, <1>3, <2>2
  <2>9. GoodBlocks(u, H, c)
    BY <1>3, <2>3, <2>6, <2>7, <2>8 DEF GoodBlocks
  <2>10. QED
    BY <2>2, <2>4, <2>9
<1>6. QED
  BY <1>4, <1>5

\* The numbers hits are ordered by.
LEMMA UtilityIs ==
  ASSUME NEW h, IsBlock(h)
  PROVE  Matched(h) \in Int /\ UtilitySquared(h) \in Int
<1>1. PICK a \in Nat, b \in Nat, p \in Nat, q \in Nat, s \in Int :
        /\ a = h.queryStart /\ b = h.queryEnd /\ p = h.start /\ q = h.end /\ s = h.score
  BY DEF IsBlock
<1>2. Matched(h) \in Int
  BY <1>1 DEF Matched, Smaller, Larger
<1>3. PICK l \in Int : l = Larger(Matched(h), 1)
  BY <1>2 DEF Larger
<1>4. s * s \in Int /\ (s * s) * l \in Int
  BY ONLY s \in Int, l \in Int
<1>5. QED
  BY <1>1, <1>2, <1>3, <1>4 DEF UtilitySquared

\* Some hits are selected, and they are good blocks.
LEMMA SelectedIs ==
  ASSUME NEW H, IsFiniteSet(H), \A h \in H : IsBlock(h), NEW c, IsComposing(c),
         \E h \in H : Matched(h) >= c.minTokens
  PROVE  GoodBlocks(ChosenBlocks(H, c), H, c) /\ ChosenBlocks(H, c) # <<>>
<1>1. PICK C, key, s :
        /\ C = {h \in H : Matched(h) >= c.minTokens}
        /\ key = [r \in C |-> <<-UtilitySquared(r), -r.queryCoverage, r.queryStart, r.start,
                                r.end>>]
        /\ s = OrderedBy(C, key)
  OBVIOUS
<1>2. IsFiniteSet(C) /\ C \subseteq H /\ C # {}
  <2>1. C \subseteq H /\ C # {}
    BY <1>1
  <2>2. QED
    BY <2>1, FS_Subset
<1>3. s \in Seq(C) /\ Range(s) = C
  <2>1. ASSUME NEW r \in C
        PROVE  <<-UtilitySquared(r), -r.queryCoverage, r.queryStart, r.start, r.end>> \in Keys(5)
    <3>1. IsBlock(r)
      BY <1>2
    <3>2. UtilitySquared(r) \in Int
      BY <3>1, UtilityIs
    <3>3. PICK a \in Int, b \in Int, d \in Int, e \in Int, f \in Int :
            /\ a = -UtilitySquared(r) /\ b = -r.queryCoverage /\ d = r.queryStart
            /\ e = r.start /\ f = r.end
      <4>1. /\ -UtilitySquared(r) \in Int /\ r.queryCoverage \in Int
            /\ r.queryStart \in Int /\ r.start \in Int /\ r.end \in Int
        BY <3>1, <3>2 DEF IsBlock
      <4>2. -r.queryCoverage \in Int
        BY <4>1
      <4>3. QED
        BY <4>1, <4>2
    <3>4. <<a, b, d, e, f>> \in Keys(5)
      BY KeyOfFive
    <3>5. QED
      BY <3>3, <3>4
  <2>2. key \in [C -> Keys(5)]
    BY <1>1, <2>1
  <2>3. Sorts(s, C, key)
    BY <1>1, <1>2, <2>2, OrderedByIs
  <2>4. QED
    BY <2>3 DEF Sorts
<1>4. PICK n \in Nat : n = Len(s) /\ DOMAIN s = 1..n
  BY <1>3, LenProperties
<1>5. \A i \in 1..n : s[i] \in H
  BY <1>2, <1>3, <1>4, ElementOfSeq
<1>6. n > 0
  <2>1. SUFFICES ASSUME n = 0 PROVE FALSE
    BY <1>4
  <2>2. Range(s) = {}
    BY <1>4, <2>1 DEF Range
  <2>3. QED
    BY <1>2, <1>3, <2>2
<1> DEFINE X == {t \in Seq(H) : GoodBlocks(t, H, c)}
           step == [i \in 1..n |-> [t \in X |-> SelectBlock(t, s[i], c)]]
           Body(g) == [T \in SUBSET (1..n) |->
                         IF T = {} THEN <<>> ELSE SelectBlock(g[T \ {Max(T)}], s[Max(T)], c)]
           iter == CHOOSE g : g = Body(g)
<1>7. <<>> \in X
  <2>1. /\ <<>> \in Seq(H) /\ Len(<<>>) = 0
    OBVIOUS
  <2>2. PICK m \in Nat, w \in Nat : m = c.minIncrement /\ w = c.maxBlocks
    BY DEF IsComposing
  <2>3. QueryUnion(<<>>) \in Nat
    <3>1. Range(<<>>) = {}
      BY DEF Range
    <3>2. IsFiniteSet({}) /\ \A b \in {} : IsBlock(b)
      BY FS_EmptySet
    <3>3. IntervalUnionLength(InQueries({})) \in Nat
      BY <3>2, BlocksCover
    <3>4. QueryUnion(<<>>) = IntervalUnionLength(InQueries({}))
      BY <3>1, Zenon DEF QueryUnion, InQueries
    <3>5. QED
      BY <3>3, <3>4
  <2>4. (0 - 1) * m =< 0
    BY ONLY m \in Nat
  <2>5. QueryUnion(<<>>) >= (Len(<<>>) - 1) * c.minIncrement
    BY <2>1, <2>2, <2>3, <2>4
  <2>6. QED
    BY <2>1, <2>2, <2>5 DEF GoodBlocks
<1>8. ASSUME NEW t \in X, NEW h \in H
      PROVE  SelectBlock(t, h, c) \in X /\ SelectBlock(t, h, c) # <<>>
  <2>1. GoodBlocks(t, H, c)
    OBVIOUS
  <2>2. GoodBlocks(SelectBlock(t, h, c), H, c) /\ SelectBlock(t, h, c) # <<>>
    BY <2>1, SelectBlockIs
  <2>3. QED
    BY <2>2 DEF GoodBlocks
<1>9. step \in [1..n -> [X -> X]]
  <2> HIDE DEF X
  <2>1. QED
    BY <1>5, <1>8
<1>10. ASSUME NEW g, NEW T \in SUBSET (1..n), T # {}, g[T \ {Max(T)}] \in X
       PROVE  Body(g)[T] = step[Max(T)][g[T \ {Max(T)}]]
  <2>1. Max(T) \in 1..n
    <3>1. T \in SUBSET (0..n)
      OBVIOUS
    <3>2. QED
      BY <1>10, <3>1, MaxIs
  <2> HIDE DEF X
  <2>2. QED
    BY <1>10, <2>1
<1>11. PICK g \in [SUBSET (1..n) -> X] : FoldsUp(g, <<>>, step, n)
  <2> HIDE DEF step, X
  <2>1. QED
    BY <1>7, <1>9, Folding
<1>12. g = Body(g)
  <2>1. ASSUME NEW T \in SUBSET (1..n)
        PROVE  g[T] = Body(g)[T]
    <3>1. CASE T = {}
      BY <1>11, <3>1 DEF FoldsUp
    <3>2. CASE T # {}
      <4>1. g[T] = step[Max(T)][g[T \ {Max(T)}]] /\ g[T \ {Max(T)}] \in X
        <5> HIDE DEF step, X
        <5>1. QED
          BY <1>11, <3>2 DEF FoldsUp
      <4> HIDE DEF Body, step, X
      <4>2. QED
        BY <1>10, <3>2, <4>1
    <3>3. QED
      BY <3>1, <3>2
  <2>2. DOMAIN g = SUBSET (1..n)
    BY <1>11
  <2> HIDE DEF X
  <2>3. QED
    BY <2>1, <2>2
<1>13. iter = Body(iter)
  BY <1>12, Zenon
<1>14. ChosenBlocks(H, c) = iter[1..n]
  BY <1>1, <1>4, Zenon DEF ChosenBlocks, Ordered, FoldLeft, MapThenFoldSet
<1> HIDE DEF iter
<1>15. PICK P \in [0..n -> X] : Iterates(P, <<>>, step, n) /\ iter[1..n] = P[n]
  <2>1. iter[{}] = <<>>
    <3>1. {} \in SUBSET (1..n)
      OBVIOUS
    <3>2. QED
      BY <1>13, <3>1
  <2>2. FoldsIn(iter, <<>>, step, n, X)
    <3> HIDE DEF step, Body, X
    <3>1. QED
      BY <1>10, <1>13, <2>1 DEF FoldsIn
  <2> HIDE DEF step, Body, X
  <2>3. PICK p, h, b : p = step /\ h = iter /\ b = <<>>
    OBVIOUS
  <2>4. p \in [1..n -> [X -> X]] /\ FoldsIn(h, b, p, n, X) /\ b \in X
    BY <1>7, <1>9, <2>2, <2>3
  <2>5. \E Q \in [0..n -> X] : Iterates(Q, b, p, n) /\ h[1..n] = Q[n]
    BY <2>4, Folded, SMTT(60)
  <2>6. QED
    BY <2>3, <2>5
<1>16. n \in 1..n /\ n - 1 \in 0..n /\ n \in 0..n
  BY <1>6
<1>17. P[n] = SelectBlock(P[n - 1], s[n], c) /\ P[n - 1] \in X /\ s[n] \in H
  <2>1. P[n - 1] \in X /\ s[n] \in H
    BY <1>5, <1>15, <1>16
  <2>2. P[n] = step[n][P[n - 1]]
    <3> HIDE DEF step, X
    <3>1. QED
      BY <1>15, <1>16 DEF Iterates
  <2>3. step[n][P[n - 1]] = SelectBlock(P[n - 1], s[n], c)
    <3> HIDE DEF X
    <3>1. QED
      BY <1>16, <2>1
  <2>4. QED
    BY <2>1, <2>2, <2>3
<1>18. P[n] \in X /\ P[n] # <<>>
  BY <1>8, <1>17
<1>19. QED
  BY <1>14, <1>15, <1>18

AreBlocks(H) == IsFiniteSet(H) /\ \A h \in H : IsBlock(h)

\* The blocks of one document, and what they cover.
WholeBlocks(B, H, c) ==
    /\ B \in Seq(H) /\ Len(B) \in 1..c.maxBlocks
    /\ \A i, j \in 1..Len(B) : i < j => ~OverlapsTooMuch(B[i], B[j], c)
    /\ QueryUnion(B) = Cardinality(Tokens(Range(B), InQuery)) /\ QueryUnion(B) \in Nat
    /\ CorpusUnion(B) = Cardinality(Tokens(Range(B), InCorpus)) /\ CorpusUnion(B) \in Nat
    /\ Cardinality(Tokens(Range(B), InQuery)) >= (Len(B) - 1) * c.minIncrement

\* One of the hits long enough, such blocks are selected.
LEMMA SelectBlocksIs ==
  ASSUME NEW H, IsFiniteSet(H), \A h \in H : IsBlock(h), NEW c, IsComposing(c),
         \E h \in H : Matched(h) >= c.minTokens
  PROVE  WholeBlocks(SelectBlocks(H, c), H, c)
<1>1. PICK t : t = ChosenBlocks(H, c)
  OBVIOUS
<1>2. GoodBlocks(t, H, c) /\ t # <<>>
  BY <1>1, SelectedIs
<1>3. t \in Seq(H)
  BY <1>2 DEF GoodBlocks
<1>4. PICK n \in Nat \ {0} : n = Len(t) /\ DOMAIN t = 1..n
  BY <1>2, <1>3, LenProperties, EmptySeq
<1>5. PICK R : R = Range(t)
  OBVIOUS
<1>6. R \subseteq H /\ R = {t[i] : i \in 1..n} /\ R # {}
  <2>1. \A i \in 1..n : t[i] \in H
    BY <1>3, <1>4, ElementOfSeq
  <2>2. 1 \in 1..n
    BY <1>4
  <2>3. QED
    BY <1>4, <1>5, <2>1, <2>2 DEF Range
<1>7. IsFiniteSet(R) /\ Cardinality(R) \in 1..n
  <2>1. IsFiniteSet(1..n) /\ Cardinality(1..n) = n
    BY FS_Interval
  <2>2. IsFiniteSet(R) /\ Cardinality(R) =< n
    BY <1>4, <1>6, <2>1, ImageIsFinite
  <2>3. Cardinality(R) \in Nat /\ Cardinality(R) # 0
    BY <1>6, <2>2, FS_CardinalityType, FS_EmptySet
  <2>4. QED
    BY <2>2, <2>3
<1>8. PICK key, B : /\ key = [r \in R |-> <<r.queryStart, r.queryEnd, r.start, r.end>>]
                    /\ B = OrderedBy(R, key)
  OBVIOUS
<1>9. B = SelectBlocks(H, c)
  BY <1>1, <1>5, <1>8, Zenon DEF SelectBlocks, Ordered
<1>10. Sorts(B, R, key)
  <2>1. ASSUME NEW r \in R
        PROVE  <<r.queryStart, r.queryEnd, r.start, r.end>> \in Keys(4)
    <3>1. PICK a \in Int, b \in Int, d \in Int, e \in Int :
            a = r.queryStart /\ b = r.queryEnd /\ d = r.start /\ e = r.end
      BY <1>6 DEF IsBlock
    <3>2. <<a, b, d, e>> \in Keys(4)
      BY KeyOfFour
    <3>3. QED
      BY <3>1, <3>2
  <2>2. key \in [R -> Keys(4)]
    BY <1>8, <2>1
  <2>3. QED
    BY <1>7, <1>8, <2>2, OrderedByIs
<1>11. PICK k \in Nat : k = Len(B) /\ DOMAIN B = 1..k /\ k = Cardinality(R)
  BY <1>10, LenProperties DEF Sorts
<1>12. B \in Seq(R) /\ Range(B) = R /\ B \in Seq(H)
  BY <1>6, <1>10 DEF Sorts
<1>13. PICK m \in Nat, w \in Nat : m = c.minIncrement /\ w = c.maxBlocks
  BY DEF IsComposing
<1>14. k \in 1..w
  <2>1. n =< w
    BY <1>2, <1>4, <1>13 DEF GoodBlocks
  <2>2. QED
    BY <1>7, <1>11, <2>1
<1>15. ASSUME NEW i \in 1..k, NEW j \in 1..k, i < j
       PROVE  ~OverlapsTooMuch(B[i], B[j], c)
  <2>1. B[i] # B[j]
    BY <1>10, <1>11, <1>15 DEF Sorts
  <2>2. B[i] \in R /\ B[j] \in R
    BY <1>11, <1>12, ElementOfSeq
  <2>3. PICK p \in 1..n, q \in 1..n : B[i] = t[p] /\ B[j] = t[q]
    BY <1>6, <2>2
  <2>4. p < q \/ q < p
    BY <2>1, <2>3
  <2>5. IsBlock(t[p]) /\ IsBlock(t[q])
    BY <1>6, <2>2, <2>3
  <2>6. ~OverlapsTooMuch(t[q], t[p], c) \/ ~OverlapsTooMuch(t[p], t[q], c)
    BY <1>2, <1>4, <2>4 DEF GoodBlocks
  <2>7. QED
    BY <2>3, <2>5, <2>6, OverlapIsMutual
<1>16. /\ QueryUnion(B) = Cardinality(Tokens(R, InQuery)) /\ QueryUnion(B) \in Nat
       /\ CorpusUnion(B) = Cardinality(Tokens(R, InCorpus)) /\ CorpusUnion(B) \in Nat
       /\ QueryUnion(t) = QueryUnion(B)
  <2>1. \A b \in R : IsBlock(b)
    BY <1>6
  <2>2. QueryUnion(B) = IntervalUnionLength(InQueries(R))
    BY <1>12, Zenon DEF QueryUnion, InQueries
  <2>3. CorpusUnion(B) = IntervalUnionLength(InTexts(R))
    BY <1>12, Zenon DEF CorpusUnion, InTexts
  <2>4. QueryUnion(t) = IntervalUnionLength(InQueries(R))
    BY <1>5, Zenon DEF QueryUnion, InQueries
  <2>5. QED
    BY <1>7, <2>1, <2>2, <2>3, <2>4, BlocksCover
<1>17. QueryUnion(B) >= (k - 1) * m
  <2>1. QueryUnion(t) >= (n - 1) * m
    BY <1>2, <1>4, <1>13 DEF GoodBlocks
  <2>2. PICK x \in Nat : n = k + x
    <3>1. n - k \in Nat /\ n = k + (n - k)
      BY <1>7, <1>11
    <3>2. QED
      BY <3>1
  <2>3. (n - 1) * m = (k - 1) * m + x * m /\ x * m \in Nat /\ (k - 1) * m \in Int
    BY ONLY <2>2, m \in Nat, k \in Nat, x \in Nat
  <2>4. QED
    BY <1>16, <2>1, <2>3
<1>18. QED
  BY <1>9, <1>11, <1>12, <1>13, <1>14, <1>15, <1>16, <1>17 DEF WholeBlocks

\* A percentage is one.
LEMMA PercentIs ==
  ASSUME NEW a \in Nat, NEW b \in Nat
  PROVE  Percent(a, b) \in 0..100
<1>1. PICK l \in Nat \ {0} : l = Larger(b, 1)
  BY DEF Larger
<1>2. PICK p \in Nat : p = 100 * a
  OBVIOUS
<1>3. p \div l \in Nat
  BY <1>1, <1>2
<1>4. QED
  BY <1>1, <1>2, <1>3 DEF Percent, Smaller

\* So is the square root of one.
LEMMA RootIs ==
  ASSUME NEW n \in Nat
  PROVE  Root(n) \in 0..100
<1>1. PICK S : S = {r \in 0..100 : r * r =< 100 * n}
  OBVIOUS
<1>2. S \in SUBSET (0..100) /\ 0 \in S
  <2>1. 0 * 0 =< 100 * n
    OBVIOUS
  <2>2. QED
    BY <1>1, <2>1
<1>3. Max(S) \in S
  BY <1>2, MaxIs
<1>4. QED
  BY <1>1, <1>2, <1>3 DEF Root

\* And the harmonic mean of two.
LEMMA HarmonicMeanIs ==
  ASSUME NEW a \in Nat, NEW b \in Nat
  PROVE  HarmonicMean(a, b) \in Nat
<1>1. CASE a + b = 0
  BY <1>1 DEF HarmonicMean
<1>2. CASE a + b # 0
  <2>1. PICK p \in Nat, q \in Nat \ {0} : p = (2 * a) * b /\ q = a + b
    <3>1. (2 * a) * b \in Nat
      OBVIOUS
    <3>2. QED
      BY <1>2, <3>1
  <2>2. p \div q \in Nat
    BY <2>1
  <2>3. HarmonicMean(a, b) = p \div q
    BY <1>2, <2>1 DEF HarmonicMean
  <2>4. QED
    BY <2>2, <2>3
<1>3. QED
  BY <1>1, <1>2

\* The score of a composite is a number.
LEMMA CompositeScoreIs ==
  ASSUME NEW intent \in {"any_passage", "source_attribution", "near_duplicate"},
         NEW e \in Int, NEW q \in Nat, NEW s \in Nat, NEW n \in Nat \ {0}, NEW r
  PROVE  CompositeScore(intent, e, q, s, n, r) \in Int
<1>1. PICK p \in Int : p = BlockSupport(n)
  <2>1. CASE n > 3
    BY <2>1 DEF BlockSupport
  <2>2. CASE n \in {1, 2, 3}
    BY <2>2 DEF BlockSupport
  <2>3. QED
    BY <2>1, <2>2
<1>2. \A x \in Int : Reordered(x, r) \in Int
  BY DEF Reordered
<1>3. PICK h \in Nat : h = HarmonicMean(q, s)
  BY HarmonicMeanIs
<1>4. PICK a \in Int, b \in Int, d \in Int : a = Root(s) /\ b = Root(q) /\ d = Root(h)
  <2>1. \A x \in 0..100 : x \in Int
    OBVIOUS
  <2>2. Root(s) \in Int /\ Root(q) \in Int /\ Root(h) \in Int
    BY <2>1, RootIs
  <2>3. QED
    BY <2>2, Zenon
<1>5. CASE intent = "any_passage"
  <2>1. CompositeScore(intent, e, q, s, n, r) = (72 * e + 13 * q + 800 + 7 * p) \div 100
    BY <1>1, <1>5 DEF CompositeScore
  <2>2. QED
    BY <2>1
<1>6. CASE intent = "source_attribution"
  <2>1. CompositeScore(intent, e, q, s, n, r)
            = Reordered(((54 * e + 25 * q + 8 * a + 800 + 5 * p) * b) \div 10000, r)
    BY <1>1, <1>4, <1>6 DEF CompositeScore
  <2>2. PICK x \in Int : x = 54 * e + 25 * q + 8 * a + 800 + 5 * p
    OBVIOUS
  <2>3. PICK y \in Int : y = x * b
    OBVIOUS
  <2>4. y \div 10000 \in Int
    OBVIOUS
  <2>5. QED
    BY <1>2, <2>1, <2>2, <2>3, <2>4
<1>7. CASE intent = "near_duplicate"
  <2>1. CompositeScore(intent, e, q, s, n, r)
            = Reordered(((65 * e + 20 * h + 1000 + 5 * p) * d) \div 10000, r)
    BY <1>1, <1>3, <1>4, <1>7 DEF CompositeScore
  <2>2. PICK x \in Int : x = 65 * e + 20 * h + 1000 + 5 * p
    OBVIOUS
  <2>3. PICK y \in Int : y = x * d
    OBVIOUS
  <2>4. y \div 10000 \in Int
    OBVIOUS
  <2>5. QED
    BY <1>2, <2>1, <2>2, <2>3, <2>4
<1>8. QED
  BY <1>5, <1>6, <1>7

\* So is how similar its blocks are.
LEMMA WeightedIs ==
  ASSUME NEW H, \A h \in H : IsBlock(h), NEW B \in Seq(H)
  PROVE  WeightedSimilarity(B) \in Int
<1>1. PICK n \in Nat : n = Len(B) /\ DOMAIN B = 1..n
  BY LenProperties
<1>2. PICK v, w : /\ v = [i \in 1..n |-> B[i].similarity * Larger(Matched(B[i]), 1)]
                  /\ w = [i \in 1..n |-> Larger(Matched(B[i]), 1)]
  OBVIOUS
<1>3. \A i \in 1..n : v[i] \in Int /\ w[i] \in Int
  <2>1. ASSUME NEW i \in 1..n
        PROVE  v[i] \in Int /\ w[i] \in Int
    <3>1. IsBlock(B[i])
      BY <1>1, ElementOfSeq
    <3>2. PICK x \in Int, y \in Int : x = B[i].similarity /\ y = Larger(Matched(B[i]), 1)
      BY <3>1, UtilityIs DEF IsBlock, Larger
    <3>3. x * y \in Int
      OBVIOUS
    <3>4. QED
      BY <1>2, <3>2, <3>3
  <2>2. QED
    BY <2>1
<1>4. v \in Seq(Int) /\ w \in Seq(Int)
  <2>1. v \in [1..n -> Int] /\ w \in [1..n -> Int]
    BY <1>2, <1>3
  <2>2. QED
    BY <2>1, SeqDef
<1>5. PICK a \in Int, b \in Int : a = Sum(v) /\ b = Sum(w)
  <2>1. ASSUME NEW x \in Seq(Int)
        PROVE  Sum(x) \in Int
    <3>1. PICK P \in [0..Len(x) -> Int] : Sum(x) = P[Len(x)]
      BY SumIs
    <3>2. Len(x) \in 0..Len(x)
      BY LenProperties
    <3>3. QED
      BY <3>1, <3>2
  <2>2. QED
    BY <1>4, <2>1
<1>6. WeightedSimilarity(B) = a \div Larger(b, 1)
  BY <1>1, <1>2, <1>5, Zenon DEF WeightedSimilarity, MappedSeq
<1>7. PICK l \in Nat \ {0} : l = Larger(b, 1)
  BY DEF Larger
<1>8. QED
  BY <1>6, <1>7

-----------------------------------------------------------------------------
(* Composites are whole *)

\* What is said of a composite (Covers), for any texts and any query.
CoversOf(r, texts, asked, c) ==
    /\ r.queryCoverage = Percent(Cardinality(Tokens(Range(r.blocks), InQuery)), Len(asked))
    /\ r.sourceCoverage = Percent(Cardinality(Tokens(Range(r.blocks), InCorpus)),
                                  Len(texts[r.document + 1]))
    /\ Len(r.blocks) \in 1..c.maxBlocks
    /\ \A i, j \in DOMAIN r.blocks : i < j => ~OverlapsTooMuch(r.blocks[i], r.blocks[j], c)
    /\ Cardinality(Tokens(Range(r.blocks), InQuery)) >= (Len(r.blocks) - 1) * c.minIncrement

Intents == {"any_passage", "source_attribution", "near_duplicate"}

\* A composite of a document, and the key it is ordered by.
KeyOf(r) == <<-r.score, -r.queryCoverage, -r.similarity, r.document>>
IsWhole(r, d, texts, asked, c) ==
    CoversOf(r, texts, asked, c) /\ r.document = d /\ KeyOf(r) \in Keys(4)

\* What is made of such blocks is one.
LEMMA CompositeIs ==
  ASSUME NEW idx, NEW asked, IsSeq(asked), NEW d \in Nat, IsSeq(idx.documents[d + 1]),
         NEW H, AreBlocks(H), NEW c, IsComposing(c),
         NEW B, WholeBlocks(B, H, c), NEW intent \in Intents
  PROVE  IsWhole(Composite(idx, asked, d, B, intent), d, idx.documents, asked, c)
<1>1. PICK m \in Nat, n \in Nat : m = Len(asked) /\ n = Len(idx.documents[d + 1])
  BY LenProperties DEF IsSeq
<1>2. PICK u \in Nat, v \in Nat : /\ u = QueryUnion(B) /\ v = CorpusUnion(B)
                                  /\ u = Cardinality(Tokens(Range(B), InQuery))
                                  /\ v = Cardinality(Tokens(Range(B), InCorpus))
  BY DEF WholeBlocks
<1>3. PICK p \in Nat, q \in Nat : p = Percent(u, m) /\ q = Percent(v, n)
  <2>1. \A x \in 0..100 : x \in Nat
    OBVIOUS
  <2>2. Percent(u, m) \in Nat /\ Percent(v, n) \in Nat
    BY <2>1, PercentIs
  <2>3. QED
    BY <2>2, Zenon
<1>4. PICK e \in Int : e = WeightedSimilarity(B)
  BY WeightedIs DEF WholeBlocks, AreBlocks
<1>5. PICK k \in Nat \ {0} : k = Len(B) /\ DOMAIN B = 1..k /\ k \in 1..c.maxBlocks
  BY LenProperties DEF WholeBlocks, IsComposing
<1>6. PICK t \in Int : t = CompositeScore(intent, e, p, q, k, OutOfOrder(B))
  BY CompositeScoreIs DEF Intents
<1>12. PICK r : r = Composite(idx, asked, d, B, intent)
  OBVIOUS
<1>7. /\ r.document = d /\ r.blocks = B /\ r.queryCoverage = p /\ r.sourceCoverage = q
      /\ r.similarity = e /\ r.score = t
  <2>1. r = ScoredComposite(d, B, intent, e, p, q)
    BY <1>1, <1>2, <1>3, <1>4, <1>12, Zenon DEF Composite
  <2>2. QED
    BY <1>5, <1>6, <2>1 DEF ScoredComposite
<1>8. CoversOf(r, idx.documents, asked, c)
  BY <1>1, <1>2, <1>3, <1>5, <1>7 DEF CoversOf, WholeBlocks
<1>9. -t \in Int /\ -p \in Int /\ -e \in Int /\ d \in Int
  OBVIOUS
<1>10. <<-t, -p, -e, d>> \in Keys(4)
  BY <1>9, KeyOfFour
<1>11. QED
  BY <1>7, <1>8, <1>10, <1>12 DEF IsWhole, KeyOf

\* Hits in some texts, and what is said of all the composites of a search.
BlocksIn(found, texts) ==
    /\ IsSeq(found)
    /\ \A h \in Range(found) :
            IsBlock(h) /\ h.document \in Nat /\ IsSeq(texts[h.document + 1])
AllCover(C, texts, asked, c) ==
    /\ \A i \in DOMAIN C : CoversOf(C[i], texts, asked, c)
    /\ \A i, j \in DOMAIN C : C[i].document = C[j].document => i = j

\* All that is assembled of some hits is whole.
LEMMA AssembledIs ==
  ASSUME NEW idx, NEW asked, IsSeq(asked), NEW found, BlocksIn(found, idx.documents),
         NEW c, IsComposing(c), NEW options, options.intent \in Intents,
         options.maxResults \in Nat
  PROVE  AllCover(Assemble(idx, asked, found, options, c), idx.documents, asked, c)
<1> DEFINE A == Range(found)
           D == {d \in {h.document : h \in A} :
                    \E h \in A : h.document = d /\ Matched(h) >= c.minTokens}
           Of(d) == {h \in A : h.document = d}
           Made(d) == Composite(idx, asked, d, SelectBlocks(Of(d), c), options.intent)
           S == {r \in {Made(d) : d \in D} : AcceptableComposite(r, asked, options, c)}
<1>1. IsFiniteSet(A)
  BY RangeIsFinite DEF BlocksIn, IsSeq
<1>2. \A h \in A : IsBlock(h) /\ h.document \in Nat /\ IsSeq(idx.documents[h.document + 1])
  BY DEF BlocksIn
<1>6. PICK C : C = Assemble(idx, asked, found, options, c)
  OBVIOUS
<1>3. PICK key, s :
        /\ key = [r \in S |-> <<-r.score, -r.queryCoverage, -r.similarity, r.document>>]
        /\ s = OrderedBy(S, key)
  OBVIOUS
<1>10. C = Truncate(s, options.maxResults)
  BY <1>3, <1>6, Zenon DEF Assemble, Ordered
<1> HIDE DEF A
<1>4. IsFiniteSet(D)
  <2>1. PICK f : f = [h \in A |-> h.document]
    OBVIOUS
  <2>2. DOMAIN f = A /\ {f[h] : h \in A} = {h.document : h \in A}
    BY <2>1
  <2>3. IsFiniteSet({h.document : h \in A})
    BY <1>1, <2>2, ImageIsFinite
  <2>4. D \subseteq {h.document : h \in A}
    OBVIOUS
  <2> HIDE DEF D
  <2>5. QED
    BY <2>3, <2>4, FS_Subset
<1>5. ASSUME NEW d \in D
      PROVE  IsWhole(Made(d), d, idx.documents, asked, c)
  <2>1. PICK g \in A : g.document = d /\ Matched(g) >= c.minTokens
    OBVIOUS
  <2>2. d \in Nat /\ IsSeq(idx.documents[d + 1])
    BY <1>2, <2>1
  <2>3. PICK H : H = Of(d)
    OBVIOUS
  <2>4. H \subseteq A /\ g \in H
    BY <2>1, <2>3
  <2>5. IsFiniteSet(H)
    BY <1>1, <2>4, FS_Subset
  <2>6. \A h \in H : IsBlock(h)
    BY <1>2, <2>4
  <2>7. PICK B : B = SelectBlocks(H, c)
    OBVIOUS
  <2>8. WholeBlocks(B, H, c)
    BY <2>1, <2>4, <2>5, <2>6, <2>7, SelectBlocksIs
  <2> HIDE DEF Of, D
  <2>9. AreBlocks(H)
    BY <2>5, <2>6 DEF AreBlocks
  <2>10. IsWhole(Composite(idx, asked, d, B, options.intent), d, idx.documents, asked, c)
    BY <2>2, <2>8, <2>9, CompositeIs
  <2>11. Made(d) = Composite(idx, asked, d, B, options.intent)
    BY <2>3, <2>7, Zenon DEF Of
  <2> HIDE DEF Made
  <2>12. QED
    BY <2>10, <2>11
<1> HIDE DEF D
<1>7. \A r \in S : r.document \in D /\ r = Made(r.document)
  <2> HIDE DEF Made
  <2>1. QED
    BY <1>5 DEF IsWhole
<1>8. IsFiniteSet(S)
  <2>1. PICK f : f = [d \in D |-> Made(d)]
    OBVIOUS
  <2> HIDE DEF Made
  <2>2. PICK M, N : M = {Made(d) : d \in D} /\ N = D
    OBVIOUS
  <2>3. IsFiniteSet(N) /\ DOMAIN f = N /\ M = {f[d] : d \in N}
    BY <1>4, <2>1, <2>2
  <2>6. IsFiniteSet(M)
    BY ONLY <2>3, ImageIsFinite
  <2>4. S \subseteq M
    BY <2>2
  <2> HIDE DEF S
  <2>5. QED
    BY <2>4, <2>6, FS_Subset
<1> HIDE DEF S
<1>11. Sorts(s, S, key)
  <2> HIDE DEF Made
  <2>1. \A r \in S : <<-r.score, -r.queryCoverage, -r.similarity, r.document>> \in Keys(4)
    BY <1>5, <1>7 DEF IsWhole, KeyOf
  <2>2. key \in [S -> Keys(4)]
    BY <1>3, <2>1
  <2>3. QED
    BY <1>3, <1>8, <2>2, OrderedByIs
<1>12. PICK n \in Nat : n = Len(s) /\ DOMAIN s = 1..n
  BY <1>11, LenProperties DEF Sorts
<1>13. DOMAIN C \subseteq 1..n /\ \A i \in DOMAIN C : C[i] = s[i] /\ s[i] \in S
  <2>1. PICK k \in 0..n : k = Smaller(options.maxResults, n)
    BY DEF Smaller
  <2>2. C = SubSeq(s, 1, k)
    BY <1>10, <1>12, <2>1 DEF Truncate, Take
  <2>3. s \in Seq(S)
    BY <1>11 DEF Sorts
  <2>4. SubSeq(s, 1, k) = [i \in 1..k |-> s[i]]
    BY <1>12, <2>1, <2>3, SMT
  <2>5. QED
    BY <1>12, <2>1, <2>2, <2>3, <2>4, ElementOfSeq
<1>14. ASSUME NEW i \in DOMAIN C
       PROVE  CoversOf(C[i], idx.documents, asked, c)
  <2> HIDE DEF Made
  <2>1. QED
    BY <1>5, <1>7, <1>13 DEF IsWhole
<1>15. ASSUME NEW i \in DOMAIN C, NEW j \in DOMAIN C, C[i].document = C[j].document
       PROVE  i = j
  <2> HIDE DEF Made
  <2>1. s[i] = s[j]
    BY <1>7, <1>13, <1>15
  <2>2. i \in 1..n /\ j \in 1..n
    BY <1>13
  <2>3. i < j => s[i] # s[j]
    BY <1>11, <1>12, <2>2 DEF Sorts
  <2>4. j < i => s[j] # s[i]
    BY <1>11, <1>12, <2>2 DEF Sorts
  <2>5. QED
    BY <2>1, <2>2, <2>3, <2>4
<1>16. QED
  BY <1>6, <1>14, <1>15 DEF AllCover

-----------------------------------------------------------------------------
(* What lanes assemble *)

\* Only two lanes end in composites: no domain's decision asks for them ...
LEMMA DomainAssemblesNothing ==
  ASSUME NEW idx, NEW asked, NEW policy, NEW options
  PROVE  SearchDomain(idx, asked, policy, options).status # "composite"
<1>1. ASSUME NEW status, NEW counts, status # "composite"
      PROVE  FallBack(idx, policy, options, status, counts).status # "composite"
  <2>1. Searches(status, counts, idx, options).status = status
    BY DEF Searches
  <2>2. SearchesNothing("insufficient_informative_evidence", counts).status # "composite"
    BY DEF SearchesNothing
  <2>3. QED
    BY <1>1, <2>1, <2>2 DEF FallBack
<1>2. ASSUME NEW limits, NEW retained, NEW counts
      PROVE  DecideRetained(idx, policy, options, limits, retained, counts).status # "composite"
  <2>1. PICK only : only = OnlyEntries(idx, {c.fingerprint : c \in retained})
    OBVIOUS
  <2>2. Searches("executed", counts, only, options).status # "composite"
    BY DEF Searches
  <2>3. FallBack(idx, policy, options, "thin_evidence_direct_fallback", counts).status
            # "composite"
    BY <1>1
  <2>4. QED
    BY <2>1, <2>2, <2>3, Zenon DEF DecideRetained
<1>3. FallBack(idx, policy, options, "short_query_direct_fallback", NoDomainCounts).status
          # "composite"
  BY <1>1
<1>4. QED
  BY <1>2, <1>3, Zenon DEF SearchDomain, DecideLimits, DecideKnown, DecideEligible

\* ... and none that chooses documents first.
LEMMA DocumentFirstAssemblesNothing ==
  ASSUME NEW idx, NEW pq, NEW limits, NEW options
  PROVE  SearchDocumentFirst(idx, pq, limits, options).status # "composite"
<1>1. ASSUME NEW status, NEW counts, status # "composite"
      PROVE  SearchesNothing(status, counts).status # "composite"
  BY <1>1 DEF SearchesNothing
<1>2. ASSUME NEW chosen, NEW found, NEW ids, NEW counts
      PROVE  DecideCandidates(idx, limits, options, chosen, found, ids, counts).status
                 # "composite"
  <2>1. PICK d, p : /\ p = Projected(idx, ids, {f.fingerprint : f \in chosen.retained})
                    /\ d = DecideCandidates(idx, limits, options, chosen, found, ids, counts)
    OBVIOUS
  <2>2. \/ d = Searches("full_index_fallback_thin_evidence", counts, idx, options)
        \/ d = SearchesNothing("no_candidates", counts)
        \/ d = Searches("full_index_fallback_broad_candidate_set", counts, idx, options)
        \/ d = [Searches("filtered", counts, p, options) EXCEPT !.ids = ids]
    BY <2>1, Zenon DEF DecideCandidates
  <2>3. ASSUME NEW status, NEW where, NEW what
        PROVE  /\ Searches(status, counts, where, what).status = status
               /\ [Searches(status, counts, where, what) EXCEPT !.ids = ids].status = status
    BY DEF Searches
  <2>4. SearchesNothing("no_candidates", counts).status = "no_candidates"
    BY DEF SearchesNothing
  <2>5. d.status \in {"full_index_fallback_thin_evidence", "no_candidates",
                      "full_index_fallback_broad_candidate_set", "filtered"}
    <3>1. CASE d = SearchesNothing("no_candidates", counts)
      BY <2>4, <3>1
    <3>2. CASE d = Searches("full_index_fallback_thin_evidence", counts, idx, options)
      BY <2>3, <3>2
    <3>3. CASE d = Searches("full_index_fallback_broad_candidate_set", counts, idx, options)
      BY <2>3, <3>3
    <3>4. CASE d = [Searches("filtered", counts, p, options) EXCEPT !.ids = ids]
      BY <2>3, <3>4
    <3>5. QED
      BY <2>2, <3>1, <3>2, <3>3, <3>4
  <2>6. QED
    BY <2>1, <2>5
<1>3. QED
  BY <1>1, <1>2, Zenon DEF SearchDocumentFirst, DecideScan, DecideChosen

\* The texts of the index that is loaded are sequences.
LEMMA TextsAreLoaded ==
  ASSUME LanesInv
  PROVE  IsSeq(Query) /\ \A d \in DOMAIN current.documents : IsSeq(current.documents[d])
<1>1. ASSUME NEW texts, IsCorpus(texts), NEW config
      PROVE  \A d \in DOMAIN IndexOf(texts, config).documents :
                 IsSeq(IndexOf(texts, config).documents[d])
  <2>1. PICK n \in Nat : n = Len(texts) /\ DOMAIN texts = 1..n
    BY <1>1, LenProperties DEF IsCorpus, IsText
  <2>2. IndexOf(texts, config).documents = [d \in 1..n |-> Normalize(texts[d], config.profile)]
    <3>1. IndexOf(texts, config).documents
              = MappedSeq(texts, LAMBDA t : Normalize(t, config.profile))
      BY DEF IndexOf
    <3>2. QED
      BY <2>1, <3>1, Zenon DEF MappedSeq
  <2>3. \A d \in 1..n : IsSeq(texts[d])
    BY <1>1, <2>1 DEF IsCorpus, IsText, IsSeq
  <2>4. \A d \in 1..n : IsSeq(Normalize(texts[d], config.profile))
    BY <2>3, NormalizeIs
  <2>5. QED
    BY <2>2, <2>4
<1>2. /\ IsCorpus(call.texts) /\ IsCorpus(call.later) /\ IsText(call.specimen)
      /\ current = IndexOf(call.texts, call.config) \/ current = IndexOf(call.later, call.config)
  BY RequestsAssumption DEF LanesInv, First
<1>3. IsSeq(Query)
  BY <1>2, NormalizeIs DEF Query, IsText, IsSeq
<1>4. QED
  BY <1>1, <1>2, <1>3

\* The composites are what is said of them, they are assembled last, and only
\* the lanes that have the options for it assemble any.
Composing(lane) == lane \in {"composite", "adaptive"}
WholeInv ==
    /\ CompositesAreWhole
    /\ phase # "done" => composites = <<>>
    /\ phase = "ready" => decision = Nothing
    /\ phase = "searching" /\ decision.status = "composite" => Composing(call.lane)
    /\ phase = "found" => Composing(call.lane)

\* It holds at first.
LEMMA WholeStart == LanesInit => WholeInv
<1> SUFFICES ASSUME LanesInit PROVE WholeInv
  OBVIOUS
<1>1. phase = "ready" /\ composites = <<>> /\ decision = Nothing
  BY Zenon DEF LanesInit
<1>2. QED
  BY <1>1 DEF WholeInv, CompositesAreWhole

\* It is about the call, the index, the query and the composites.
LEMMA WholeStays ==
  ASSUME WholeInv, UNCHANGED <<call, current, composites>>
  PROVE  CompositesAreWhole'
<1>1. Query' = Query
  BY DEF Query
<1>2. \A r : Covers(r)' = Covers(r)
  BY <1>1 DEF Covers
<1>3. QED
  BY <1>2 DEF WholeInv, CompositesAreWhole

\* A decision keeps it.
LEMMA DecisionAssembles ==
  ASSUME WholeInv, phase = "ready", NEW choice, Decide(choice),
         choice.status = "composite" => Composing(call.lane)
  PROVE  WholeInv'
<1>1. /\ decision' = choice /\ UNCHANGED <<call, current, composites>>
      /\ phase' = "searching" \/ phase' = "done"
  BY Zenon DEF Decide
<1>2. composites = <<>>
  BY DEF WholeInv
<1>3. CompositesAreWhole'
  BY <1>1, WholeStays
<1>4. QED
  BY <1>1, <1>2, <1>3 DEF WholeInv

\* What is assembled of spans is whole.
LEMMA AssemblingIsWhole ==
  ASSUME HitsAreSpans, LanesInv, WholeInv, AssembleComposites
  PROVE  WholeInv'
<1>1. /\ composites' = Assemble(current, Query, hits, call.options, call.policy)
      /\ phase = "found" /\ phase' = "done" /\ UNCHANGED <<call, current, hits>>
  BY DEF AssembleComposites
<1>2. PICK idx, asked, found, options, c :
        /\ idx = current /\ asked = Query /\ found = hits /\ options = call.options
        /\ c = call.policy
  OBVIOUS
<1>3. IsSeq(asked) /\ \A d \in DOMAIN idx.documents : IsSeq(idx.documents[d])
  BY <1>2, TextsAreLoaded
<1>4. PICK n \in Nat : n = Len(idx.documents) /\ DOMAIN idx.documents = 1..n
  <2>1. ASSUME NEW texts, IsCorpus(texts), NEW config
        PROVE  \E n \in Nat : /\ n = Len(IndexOf(texts, config).documents)
                              /\ DOMAIN IndexOf(texts, config).documents = 1..n
    <3>1. PICK n \in Nat : n = Len(texts) /\ DOMAIN texts = 1..n
      BY <2>1, LenProperties DEF IsCorpus, IsText
    <3>2. IndexOf(texts, config).documents = [d \in 1..n |-> Normalize(texts[d], config.profile)]
      <4>1. IndexOf(texts, config).documents
                = MappedSeq(texts, LAMBDA t : Normalize(t, config.profile))
        BY DEF IndexOf
      <4>2. QED
        BY <3>1, <4>1, Zenon DEF MappedSeq
    <3>3. QED
      BY <3>1, <3>2
  <2>2. /\ IsCorpus(call.texts) /\ IsCorpus(call.later)
        /\ current = IndexOf(call.texts, call.config) \/ current = IndexOf(call.later, call.config)
    BY RequestsAssumption DEF LanesInv, First
  <2>3. QED
    BY <1>2, <2>1, <2>2
<1>5. IsSeq(found) /\ \A h \in Range(found) : IsSpan(h)
  BY <1>2 DEF HitsAreSpans, IsSeq
<1>6. ASSUME NEW h \in Range(found)
      PROVE  IsBlock(h) /\ h.document \in Nat /\ IsSeq(idx.documents[h.document + 1])
  <2>1. PICK m : m = Len(Query)
    OBVIOUS
  <2>2. m \in Nat
    BY <1>2, <1>3, <2>1, LenProperties DEF IsSeq
  <2>3. /\ h.queryStart \in 0..m /\ h.queryEnd \in (h.queryStart + 1)..m
        /\ h.document \in 0..(n - 1)
        /\ {h.score, h.similarity, h.queryCoverage} \subseteq 0..100
    BY <1>2, <1>4, <1>5, <2>1 DEF IsSpan
  <2>4. h.document \in Nat /\ h.document + 1 \in 1..n
    BY <2>3
  <2>5. PICK k \in Nat : k = Len(idx.documents[h.document + 1])
    BY <1>3, <1>4, <2>4, LenProperties DEF IsSeq
  <2>6. h.start \in 0..k /\ h.end \in (h.start + 1)..k
    BY <1>2, <1>5, <2>5 DEF IsSpan
  <2>7. h.score \in 0..100 /\ h.similarity \in 0..100 /\ h.queryCoverage \in 0..100
    BY <2>3
  <2>8. IsBlock(h)
    BY <2>2, <2>3, <2>6, <2>7 DEF IsBlock
  <2>9. QED
    BY <1>3, <1>4, <2>4, <2>8
<1>7. /\ IsComposing(c) /\ options.intent \in Intents /\ options.maxResults \in Nat
  <2>1. call \in Requests /\ call.lane \in {"composite", "adaptive"}
    BY <1>1 DEF LanesInv, WholeInv, Composing
  <2>2. /\ HasNumbers(call.options, {"maxPostings", "maxPairs", "maxResults"})
        /\ call.options.intent \in Intents
        /\ HasNumbers(call.policy, {"maxBlocks", "minTokens", "minIncrement", "maxOverlap"})
        /\ call.policy.maxBlocks > 0
    BY <2>1, RequestsAssumption DEF Intents
  <2>3. QED
    BY <1>2, <2>2 DEF HasNumbers, IsComposing
<1>8. PICK C : C = Assemble(idx, asked, found, options, c)
  OBVIOUS
<1>9. AllCover(C, idx.documents, asked, c)
  <2>1. BlocksIn(found, idx.documents)
    BY <1>5, <1>6 DEF BlocksIn
  <2>2. QED
    BY <1>3, <1>7, <1>8, <2>1, AssembledIs
<1>10. composites' = C /\ Query' = Query /\ current' = idx /\ call'.policy = c
  BY <1>1, <1>2, <1>8 DEF Query
<1>11. \A r : Covers(r)' <=> CoversOf(r, idx.documents, asked, c)
  BY <1>2, <1>10 DEF Covers, CoversOf
<1>12. CompositesAreWhole'
  BY <1>9, <1>10, <1>11 DEF CompositesAreWhole, AllCover
<1>13. QED
  BY <1>1, <1>12 DEF WholeInv

\* Every step keeps it.
LEMMA WholeStep ==
  ASSUME HitsAreSpans, LanesInv, WholeInv, [LanesNext]_laneVars
  PROVE  WholeInv'
<1>1. CASE Prepare
  <2>1. UNCHANGED <<call, phase, current, decision, composites>>
    BY <1>1 DEF Prepare
  <2>2. CompositesAreWhole'
    BY <2>1, WholeStays
  <2>3. QED
    BY <2>1, <2>2 DEF WholeInv
<1>2. CASE Rebuild
  <2>1. phase = "ready" /\ UNCHANGED <<call, phase, decision, composites>>
    BY <1>2 DEF Rebuild
  <2>2. composites = <<>>
    BY <2>1 DEF WholeInv
  <2>3. CompositesAreWhole'
    BY <2>1, <2>2 DEF CompositesAreWhole
  <2>4. QED
    BY <2>1, <2>3 DEF WholeInv, Nothing
<1>3. CASE AskDomain \/ AskDomainAdaptive \/ AskDocumentFirst
  <2>1. PICK d : phase = "ready" /\ Decide(d) /\ d.status # "composite"
    <3>1. CASE AskDomain
      BY <3>1, DomainAssemblesNothing, Zenon DEF AskDomain, Asked
    <3>2. CASE AskDomainAdaptive
      <4>1. ASSUME NEW idx, NEW asked, NEW policy, NEW options
            PROVE  SearchDomainAdaptive(idx, asked, policy, options).status # "composite"
        BY DomainAssemblesNothing, Zenon DEF SearchDomainAdaptive
      <4>2. QED
        BY <3>2, <4>1, Zenon DEF AskDomainAdaptive, Asked
    <3>3. CASE AskDocumentFirst
      BY <3>3, DocumentFirstAssemblesNothing, Zenon DEF AskDocumentFirst, Asked
    <3>4. QED
      BY <1>3, <3>1, <3>2, <3>3
  <2>2. QED
    BY <2>1, DecisionAssembles
<1>4. CASE AskDirectly
  <2>1. PICK d : d = Searches("plain", Nothing, current, call.options)
    OBVIOUS
  <2>2. phase = "ready" /\ Decide(d)
    BY <1>4, <2>1, Zenon DEF AskDirectly, Asked
  <2>3. d.status = "plain"
    BY <2>1 DEF Searches
  <2>4. QED
    BY <2>2, <2>3, DecisionAssembles
<1>5. CASE AskComposite
  <2>1. phase = "ready" /\ call.lane = "composite" /\ \E d : Decide(d)
    BY <1>5, Zenon DEF AskComposite, Asked
  <2>2. QED
    BY <2>1, DecisionAssembles DEF Composing
<1>6. CASE AskAdaptive
  <2>1. phase = "ready" /\ call.lane = "adaptive" /\ \E d : Decide(d)
    BY <1>6, Zenon DEF AskAdaptive, DecidePlan, Asked
  <2>2. QED
    BY <2>1, DecisionAssembles DEF Composing
<1>7. CASE Reject
  <2>1. /\ phase = "ready" /\ phase' = "done"
        /\ UNCHANGED <<call, current, decision, composites>>
    BY <1>7 DEF Reject
  <2>2. CompositesAreWhole'
    BY <2>1, WholeStays
  <2>3. QED
    BY <2>1, <2>2 DEF WholeInv
<1>8. CASE Execute
  <2>1. /\ phase = "searching" /\ UNCHANGED <<call, current, decision, composites>>
        /\ phase' = IF decision.status = "composite" THEN "found" ELSE "done"
    BY <1>8, Zenon DEF Execute
  <2>2. CompositesAreWhole'
    BY <2>1, WholeStays
  <2>3. QED
    BY <2>1, <2>2 DEF WholeInv
<1>9. CASE AssembleComposites
  BY <1>9, AssemblingIsWhole
<1>10. CASE UNCHANGED laneVars
  <2>1. UNCHANGED <<call, phase, current, decision, composites>>
    BY <1>10 DEF laneVars
  <2>2. CompositesAreWhole'
    BY <2>1, WholeStays
  <2>3. QED
    BY <2>1, <2>2 DEF WholeInv
<1>11. QED
  BY <1>1, <1>2, <1>3, <1>4, <1>5, <1>6, <1>7, <1>8, <1>9, <1>10, Zenon DEF LanesNext

\* Where the hits are spans - of the query and of documents of the index -,
\* the composites cover what they say, none of their blocks repeats another,
\* and no document is two results.
THEOREM CompositesCover ==
  ASSUME HashesAreNumbers
  PROVE  LanesSpec /\ []HitsAreSpans => []CompositesAreWhole
<1>1. HitsAreSpans /\ LanesInv /\ WholeInv /\ [LanesNext]_laneVars => LanesInv' /\ WholeInv'
  BY LanesStep, WholeStep
<1>2. WholeInv => CompositesAreWhole
  BY DEF WholeInv
<1>3. QED
  BY <1>1, <1>2, LanesStart, WholeStart, PTL DEF LanesSpec

=============================================================================
