------------------------ MODULE ExperimentLedgerProofs ------------------------
(***************************************************************************)
(* Proofs about ExperimentLedger: run identifiers are unique, the lines of *)
(* two processes do not mix, and only records of the ledger are promoted,  *)
(* for any number of processes, corpora and records.                       *)
(*                                                                         *)
(* None of the three is inductive.  A record is appended in pieces, long   *)
(* after its identifier was looked up: what was found must still hold,     *)
(* because nobody else writes (OneHolder), and the last piece in the file  *)
(* must be the last that was written (WriterInv).  What a process selected *)
(* without the lock stays in the ledger (SelectedInv), which only grows.   *)
(***************************************************************************)
EXTENDS ExperimentLedger, SequenceTheorems, TLAPS

\* The lock file is there as long as one process believes it holds it.
OneHolder ==
  /\ \A p \in Processes : Locking(p) => lock_file
  /\ \A p, q \in Processes : Locking(p) /\ Locking(q) => p = q

\* A process that writes follows a whole line, or what it wrote itself.
WriterInv ==
  \A p \in Processes : pc[p] = "write" =>
    /\ record[p] \in Records /\ written[p] \in 0 .. 2
    /\ written[p] = 0 =>
         /\ \A r \in Records : Len(ledger) \notin Begun(r)
         /\ \A r \in Records : r.run_id = record[p].run_id => Begun(r) = {}
    /\ written[p] = 1 => Len(ledger) \in Begun(record[p])
    /\ written[p] = 2 => Len(ledger) > 0 /\ ledger[Len(ledger)] = Rest(record[p])

\* What is about to be promoted was admitted.
SelectedInv ==
  \A p \in Processes : pc[p] = "gate" =>
    /\ record[p] \in Whole /\ record[p].profile
    /\ record[p].corpus = asked[p].corpus

\* A process that records has a record, and one that installs has a registry.
LocalInv ==
  \A p \in Processes :
    /\ pc[p] \in {"idle", "check"} => written[p] = 0
    /\ pc[p] = "check" => record[p] \in Records
    /\ pc[p] \in {"stage", "remove", "rename"} => staged[p] # None

\* Each promotion is one of the records, of its corpus and with a profile.
Kept(promotions, records) ==
  \A c \in Corpora : promotions[c] # None =>
    promotions[c] \in records /\ promotions[c].corpus = c /\ promotions[c].profile
PromotionsInv ==
  /\ registry # None => Kept(registry, Whole)
  /\ \A p \in Processes : staged[p] # None => Kept(staged[p], Whole)

IndInv ==
  /\ TypeOK /\ OneHolder /\ LocalInv /\ WriterInv /\ SelectedInv
  /\ UniqueRuns /\ WritesDoNotMix /\ PromotionsInv

-----------------------------------------------------------------------------
(* Pieces and records                                                      *)

LEMMA PiecesDiffer ==
  ASSUME NEW q, NEW r
  PROVE  /\ Start(q) # Rest(r) /\ Start(q) # Newline /\ Rest(q) # Newline
         /\ Start(q) = Start(r) => q = r
         /\ Rest(q) = Rest(r) => q = r
BY DEF Start, Rest, Newline

LEMMA RecordIsValid ==
  ASSUME NEW r \in Records
  PROVE  r.corpus \in Corpora /\ ValidMetrics(r) /\ r # None
<1>1. r.corpus \in Corpora
  BY RecordsAssumption
<1>2. ValidMetrics(r)
  BY DEF Records
<1>3. r # None
  BY NoneAssumption
<1> QED
  BY <1>1, <1>2, <1>3

\* What a write adds to the ledger, piece by piece.
LEMMA WrittenPieces ==
  ASSUME NEW r \in Records, ledger \in Seq(Pieces), NEW w \in 0 .. 2, NEW n \in (w + 1) .. 3,
         ledger' = ledger \o SubSeq(Line(r), w + 1, n)
  PROVE  /\ ledger' \in Seq(Pieces)
         /\ Len(ledger') = Len(ledger) + (n - w)
         /\ \A i \in 1 .. Len(ledger) : ledger'[i] = ledger[i]
         /\ \A j \in (w + 1) .. n : ledger'[Len(ledger) + (j - w)] =
              (IF j = 1 THEN Start(r) ELSE IF j = 2 THEN Rest(r) ELSE Newline)
<1>1. \A j \in 1 .. 3 : /\ Line(r)[j] \in Pieces
                        /\ Line(r)[j] = (IF j = 1 THEN Start(r) ELSE IF j = 2 THEN Rest(r) ELSE Newline)
  BY DEF Line, Pieces
<1>2. /\ SubSeq(Line(r), w + 1, n) \in Seq(Pieces)
      /\ Len(SubSeq(Line(r), w + 1, n)) = n - w
      /\ \A j \in 1 .. (n - w) : SubSeq(Line(r), w + 1, n)[j] = Line(r)[w + j]
  <2>1. w + 1 \in Int /\ n \in Int /\ \A i \in (w + 1) .. n : Line(r)[i] \in Pieces
    BY <1>1
  <2>2. /\ SubSeq(Line(r), w + 1, n) \in Seq(Pieces)
        /\ Len(SubSeq(Line(r), w + 1, n)) = IF w + 1 <= n THEN n - (w + 1) + 1 ELSE 0
        /\ \A i \in 1 .. (n - (w + 1) + 1) : SubSeq(Line(r), w + 1, n)[i] = Line(r)[(w + 1) + i - 1]
    BY <2>1, SubSeqProperties
  <2> QED
    BY <2>2
<1>4. /\ ledger' \in Seq(Pieces)
      /\ Len(ledger') = Len(ledger) + (n - w)
      /\ \A i \in 1 .. Len(ledger) : ledger'[i] = ledger[i]
      /\ \A j \in 1 .. (n - w) : ledger'[Len(ledger) + j] = SubSeq(Line(r), w + 1, n)[j]
  BY <1>2, ConcatProperties
<1>5. ASSUME NEW j \in (w + 1) .. n
      PROVE  ledger'[Len(ledger) + (j - w)] =
               (IF j = 1 THEN Start(r) ELSE IF j = 2 THEN Rest(r) ELSE Newline)
  <2>1. (j - w) \in 1 .. (n - w) /\ w + (j - w) = j /\ j \in 1 .. 3
    OBVIOUS
  <2> QED
    BY <2>1, <1>1, <1>2, <1>4
<1> QED
  BY <1>4, <1>5

-----------------------------------------------------------------------------
(* Types and the lock                                                      *)

\* What a command that ends leaves of its locals.
LEMMA EndTypes ==
  ASSUME TypeOK, NEW p \in Processes, End(p)
  PROVE  /\ pc' \in [Processes -> Places]
         /\ record' \in [Processes -> Records \cup {None}]
         /\ written' \in [Processes -> 0 .. 3]
         /\ asked' \in [Processes -> Selections \cup {None}]
         /\ staged' \in [Processes -> Promotions \cup {None}]
         /\ \A q \in Processes \ {p} :
              /\ pc'[q] = pc[q] /\ record'[q] = record[q] /\ written'[q] = written[q]
              /\ asked'[q] = asked[q] /\ staged'[q] = staged[q]
         /\ pc'[p] = "idle" /\ written'[p] = 0 /\ staged'[p] = None
<1> USE DEF TypeOK, End
<1>1. pc' \in [Processes -> Places] /\ pc'[p] = "idle"
  BY DEF Places
<1>2. record' \in [Processes -> Records \cup {None}]
  OBVIOUS
<1>3. written' \in [Processes -> 0 .. 3] /\ written'[p] = 0
  OBVIOUS
<1>4. asked' \in [Processes -> Selections \cup {None}]
  OBVIOUS
<1>5. staged' \in [Processes -> Promotions \cup {None}] /\ staged'[p] = None
  OBVIOUS
<1>6. \A q \in Processes \ {p} :
        /\ pc'[q] = pc[q] /\ record'[q] = record[q] /\ written'[q] = written[q]
        /\ asked'[q] = asked[q] /\ staged'[q] = staged[q]
  OBVIOUS
<1> QED
  BY <1>1, <1>2, <1>3, <1>4, <1>5, <1>6

\* A step of p, or the removal of an orphaned lock, or a stutter.
Step(p) ==
  \/ Acquire(p) \/ Check(p) \/ Write(p) \/ WriteFails(p) \/ Unlock(p)
  \/ Select(p) \/ Gate(p) \/ Stage(p) \/ Remove(p) \/ Rename(p) \/ Stop(p)

LEMMA NextIsStep ==
  ASSUME [Next]_vars
  PROVE  (\E p \in Processes : Step(p)) \/ RemoveOrphanedLock \/ UNCHANGED vars
BY DEF Next, Step

LEMMA TypeStep ==
  ASSUME TypeOK, WriterInv, [Next]_vars
  PROVE  TypeOK'
<1> USE DEF TypeOK
<1>1. ASSUME NEW p \in Processes, Acquire(p) PROVE TypeOK'
  BY <1>1 DEF Acquire, Places
<1>2. ASSUME NEW p \in Processes, Check(p) PROVE TypeOK'
  BY <1>2 DEF Check, Places
<1>3. ASSUME NEW p \in Processes, Write(p) PROVE TypeOK'
  <2>1. pc[p] = "write" /\ record[p] \in Records /\ written[p] \in 0 .. 2
    BY <1>3 DEF Write, WriterInv
  <2>2. PICK n \in written[p] + 1 .. 3 :
          /\ ledger' = ledger \o SubSeq(Line(record[p]), written[p] + 1, n)
          /\ written' = [written EXCEPT ![p] = n]
          /\ pc' = [pc EXCEPT ![p] = IF n = 3 THEN "unlock" ELSE "write"]
    BY <1>3 DEF Write
  <2>3. ledger' \in Seq(Pieces)
    BY <2>1, <2>2, WrittenPieces
  <2>4. written' \in [Processes -> 0 .. 3] /\ pc' \in [Processes -> Places]
    BY <2>1, <2>2 DEF Places
  <2> QED
    BY <1>3, <2>3, <2>4 DEF Write
<1>4. ASSUME NEW p \in Processes, WriteFails(p) PROVE TypeOK'
  BY <1>4 DEF WriteFails, Places
<1>5. ASSUME NEW p \in Processes, Unlock(p) PROVE TypeOK'
  BY <1>5, EndTypes DEF Unlock
<1>6. ASSUME NEW p \in Processes, Select(p) PROVE TypeOK'
  <2>1. PICK s \in Selections : \E r \in Whole :
          asked' = [asked EXCEPT ![p] = s] /\ record' = [record EXCEPT ![p] = r]
    BY <1>6 DEF Select, Best
  <2>2. Whole \subseteq Records
    BY DEF Whole
  <2>3. asked' \in [Processes -> Selections \cup {None}]
    BY <2>1
  <2>4. record' \in [Processes -> Records \cup {None}]
    BY <2>1, <2>2
  <2>5. pc' \in [Processes -> Places]
    BY <1>6 DEF Select, Places
  <2> QED
    BY <1>6, <2>3, <2>4, <2>5 DEF Select
<1>7. ASSUME NEW p \in Processes, Gate(p) PROVE TypeOK'
  <2> DEFINE loaded == IF registry = None THEN [c \in Corpora |-> None] ELSE registry
  <2>1. loaded \in Promotions
    BY DEF Promotions
  <2>2. staged' = [staged EXCEPT ![p] = [loaded EXCEPT ![asked[p].corpus] = record[p]]]
    BY <1>7 DEF Gate
  <2>3. [loaded EXCEPT ![asked[p].corpus] = record[p]] \in Promotions
    BY <2>1 DEF Promotions
  <2>4. staged' \in [Processes -> Promotions \cup {None}]
    BY <2>2, <2>3
  <2>5. pc' \in [Processes -> Places]
    BY <1>7 DEF Gate, Places
  <2> QED
    BY <1>7, <2>4, <2>5 DEF Gate
<1>8. ASSUME NEW p \in Processes, Stage(p) PROVE TypeOK'
  BY <1>8 DEF Stage, Places
<1>9. ASSUME NEW p \in Processes, Remove(p) PROVE TypeOK'
  <2>1. CASE registry # None
    BY <1>9, <2>1 DEF Remove, Places
  <2>2. CASE registry = None
    BY <1>9, <2>2, EndTypes DEF Remove
  <2> QED
    BY <2>1, <2>2
<1>10. ASSUME NEW p \in Processes, Rename(p) PROVE TypeOK'
  BY <1>10, EndTypes DEF Rename
<1>11. ASSUME NEW p \in Processes, Stop(p) PROVE TypeOK'
  BY <1>11, EndTypes DEF Stop
<1>12. CASE RemoveOrphanedLock
  BY <1>12 DEF RemoveOrphanedLock
<1>13. CASE UNCHANGED vars
  BY <1>13 DEF vars
<1> QED
  BY <1>1, <1>2, <1>3, <1>4, <1>5, <1>6, <1>7, <1>8, <1>9, <1>10, <1>11, <1>12, <1>13,
     NextIsStep DEF Step

\* A step changes the locals of one process.
LEMMA OthersStay ==
  ASSUME TypeOK, NEW p \in Processes, Step(p)
  PROVE  \A q \in Processes \ {p} :
           /\ pc'[q] = pc[q] /\ record'[q] = record[q] /\ written'[q] = written[q]
           /\ asked'[q] = asked[q] /\ staged'[q] = staged[q]
<1>1. CASE Acquire(p)
  BY <1>1 DEF Acquire, TypeOK
<1>2. CASE Check(p)
  BY <1>2 DEF Check, TypeOK
<1>3. CASE Write(p)
  BY <1>3 DEF Write, TypeOK
<1>4. CASE WriteFails(p)
  BY <1>4 DEF WriteFails, TypeOK
<1>5. CASE Unlock(p)
  BY <1>5, EndTypes DEF Unlock
<1>6. CASE Select(p)
  BY <1>6 DEF Select, TypeOK
<1>7. CASE Gate(p)
  BY <1>7 DEF Gate, TypeOK
<1>8. CASE Stage(p)
  BY <1>8 DEF Stage, TypeOK
<1>9. CASE Remove(p)
  BY <1>9, EndTypes DEF Remove, TypeOK
<1>10. CASE Rename(p)
  BY <1>10, EndTypes DEF Rename
<1>11. CASE Stop(p)
  BY <1>11, EndTypes DEF Stop
<1> QED
  BY <1>1, <1>2, <1>3, <1>4, <1>5, <1>6, <1>7, <1>8, <1>9, <1>10, <1>11 DEF Step

\* Only Acquire, which finds no lock file, makes a process hold the lock.
LEMMA MutexStep ==
  ASSUME TypeOK, OneHolder, [Next]_vars
  PROVE  OneHolder'
<1>1. ASSUME NEW p \in Processes, Acquire(p) PROVE OneHolder'
  <2>1. /\ \A q \in Processes : ~Locking(q)
        /\ lock_file' /\ \A q \in Processes \ {p} : pc'[q] = pc[q]
    BY <1>1 DEF Acquire, OneHolder, TypeOK
  <2> QED
    BY <2>1 DEF OneHolder, Locking
<1>2. ASSUME NEW p \in Processes, Step(p), ~Acquire(p) PROVE OneHolder'
  <2>1. \A q \in Processes \ {p} : pc'[q] = pc[q]
    BY <1>2, OthersStay
  <2>2. CASE Check(p) \/ Write(p) \/ WriteFails(p)
    <3>1. Locking(p) /\ lock_file' = lock_file
      BY <2>2 DEF Check, Write, WriteFails, Locking
    <3> QED
      BY <2>1, <3>1 DEF OneHolder, Locking
  <2>3. CASE Unlock(p)
    <3>1. Locking(p) /\ ~Locking(p)'
      BY <2>3, EndTypes DEF Unlock, Locking
    <3>2. \A q \in Processes : ~Locking(q)'
      BY <2>1, <3>1 DEF OneHolder, Locking
    <3> QED
      BY <3>2 DEF OneHolder
  <2>4. CASE Select(p) \/ Gate(p) \/ Stage(p)
    <3>1. ~Locking(p)' /\ lock_file' = lock_file
      BY <2>4 DEF Select, Gate, Stage, Locking, TypeOK
    <3> QED
      BY <2>1, <3>1 DEF OneHolder, Locking
  <2>5. CASE Remove(p)
    <3>1. ~Locking(p)' /\ lock_file' = lock_file
      BY <2>5, EndTypes DEF Remove, Locking, TypeOK
    <3> QED
      BY <2>1, <3>1 DEF OneHolder, Locking
  <2>6. CASE Rename(p) \/ Stop(p)
    <3>1. ~Locking(p)' /\ lock_file' = lock_file
      BY <2>6, EndTypes DEF Rename, Stop, Locking
    <3> QED
      BY <2>1, <3>1 DEF OneHolder, Locking
  <2> QED
    BY <1>2, <2>2, <2>3, <2>4, <2>5, <2>6 DEF Step
<1>3. CASE RemoveOrphanedLock
  BY <1>3 DEF RemoveOrphanedLock, OneHolder, Locking
<1>4. CASE UNCHANGED vars
  BY <1>4 DEF vars, OneHolder, Locking
<1> QED
  BY <1>1, <1>2, <1>3, <1>4, NextIsStep

LEMMA LocalStep ==
  ASSUME TypeOK, LocalInv, [Next]_vars
  PROVE  LocalInv'
<1>1. ASSUME NEW p \in Processes, Step(p) PROVE LocalInv'
  <2> DEFINE Local(q) == /\ pc[q] \in {"idle", "check"} => written[q] = 0
                         /\ pc[q] = "check" => record[q] \in Records
                         /\ pc[q] \in {"stage", "remove", "rename"} => staged[q] # None
  <2>1. \A q \in Processes \ {p} : Local(q)'
    BY <1>1, OthersStay DEF LocalInv
  <2>2. Local(p)'
    <3>1. CASE Acquire(p)
      BY <3>1 DEF Acquire, LocalInv, TypeOK
    <3>2. CASE Check(p) \/ Write(p) \/ WriteFails(p)
      <4>1. pc'[p] \in {"write", "unlock"}
        BY <3>2 DEF Check, Write, WriteFails, TypeOK
      <4> QED
        BY <4>1
    <3>3. CASE Unlock(p) \/ Rename(p) \/ Stop(p)
      <4>1. pc'[p] = "idle" /\ written'[p] = 0
        BY <3>3, EndTypes DEF Unlock, Rename, Stop
      <4> QED
        BY <4>1
    <3>4. CASE Select(p)
      BY <3>4 DEF Select, TypeOK
    <3>5. CASE Gate(p)
      <4> DEFINE loaded == IF registry = None THEN [c \in Corpora |-> None] ELSE registry
                 new    == [loaded EXCEPT ![asked[p].corpus] = record[p]]
      <4>1. loaded \in Promotions
        BY DEF Promotions, TypeOK
      <4>2. new \in Promotions
        BY <4>1 DEF Promotions, TypeOK
      <4>3. new # None
        BY <4>2, NoneAssumption DEF Promotions
      <4>4. staged'[p] = new /\ pc'[p] = "stage"
        BY <3>5 DEF Gate, TypeOK
      <4> QED
        BY <4>3, <4>4
    <3>6. CASE Stage(p)
      BY <3>6 DEF Stage, LocalInv, TypeOK
    <3>7. CASE Remove(p)
      <4>1. CASE registry # None
        BY <3>7, <4>1 DEF Remove, LocalInv, TypeOK
      <4>2. CASE registry = None
        BY <3>7, <4>2, EndTypes DEF Remove
      <4> QED
        BY <4>1, <4>2
    <3> QED
      BY <1>1, <3>1, <3>2, <3>3, <3>4, <3>5, <3>6, <3>7 DEF Step
  <2> QED
    BY <2>1, <2>2 DEF LocalInv
<1>2. CASE RemoveOrphanedLock
  BY <1>2 DEF RemoveOrphanedLock, LocalInv
<1>3. CASE UNCHANGED vars
  BY <1>3 DEF vars, LocalInv
<1> QED
  BY <1>1, <1>2, <1>3, NextIsStep

-----------------------------------------------------------------------------
(* The ledger                                                              *)

\* A write begins at most one record, at the end.
LEMMA BegunGrows ==
  ASSUME NEW r \in Records, ledger \in Seq(Pieces), NEW w \in 0 .. 2, NEW n \in (w + 1) .. 3,
         ledger' = ledger \o SubSeq(Line(r), w + 1, n)
  PROVE  /\ \A q \in Records : Begun(q) \subseteq Begun(q)'
         /\ \A q \in Records : \A i \in Begun(q)' :
              i \in Begun(q) \/ (w = 0 /\ q = r /\ i = Len(ledger) + 1)
         /\ w = 0 => Len(ledger) + 1 \in Begun(r)'
<1> DEFINE L == Len(ledger)
           Piece(j) == IF j = 1 THEN Start(r) ELSE IF j = 2 THEN Rest(r) ELSE Newline
<1>0. L \in Nat
  BY LenProperties
<1>1. /\ ledger' \in Seq(Pieces) /\ Len(ledger') = L + (n - w) /\ L \in Nat
      /\ \A i \in 1 .. L : ledger'[i] = ledger[i]
      /\ \A j \in (w + 1) .. n : ledger'[L + (j - w)] = Piece(j)
  BY <1>0, WrittenPieces
<1>2. DOMAIN ledger = 1 .. L /\ DOMAIN ledger' = 1 .. L + (n - w)
  BY <1>1
<1>3. \A q \in Records : Begun(q) \subseteq Begun(q)'
  BY <1>1, <1>2 DEF Begun
<1>4. ASSUME NEW q \in Records, NEW i \in Begun(q)'
      PROVE  i \in Begun(q) \/ (w = 0 /\ q = r /\ i = L + 1)
  <2>1. i \in 1 .. L + (n - w) /\ ledger'[i] = Start(q)
    BY <1>2 DEF Begun
  <2>2. CASE i <= L
    BY <2>1, <2>2, <1>1, <1>2 DEF Begun
  <2>3. CASE i > L
    <3>1. i - L + w \in (w + 1) .. n /\ L + ((i - L + w) - w) = i
      BY <2>1, <2>3, <1>1
    <3>2. Piece(i - L + w) = Start(q)
      BY <3>1, <2>1, <1>1
    <3>3. i - L + w = 1 /\ q = r
      BY <3>1, <3>2, PiecesDiffer
    <3> QED
      BY <3>1, <3>3, <1>1, <2>3
  <2> QED
    BY <2>1, <2>2, <2>3, <1>1
<1>5. w = 0 => L + 1 \in Begun(r)'
  <2>1. w = 0 => 1 \in (w + 1) .. n /\ L + (1 - w) = L + 1 /\ L + 1 \in 1 .. L + (n - w)
    BY <1>1
  <2> QED
    BY <2>1, <1>1, <1>2 DEF Begun
<1> QED
  BY <1>3, <1>4, <1>5

\* The one process that writes finishes its own line.
LEMMA WriteKeeps ==
  ASSUME TypeOK, OneHolder, WriterInv, UniqueRuns, WritesDoNotMix,
         NEW p \in Processes, Write(p)
  PROVE  /\ UniqueRuns' /\ WritesDoNotMix' /\ WriterInv'
         /\ Whole \subseteq Whole'
<1> DEFINE L == Len(ledger)
<1>1. PICK r \in Records, w \in 0 .. 2 :
        /\ pc[p] = "write" /\ r = record[p] /\ w = written[p]
        /\ w = 0 => /\ \A q \in Records : L \notin Begun(q)
                    /\ \A q \in Records : q.run_id = r.run_id => Begun(q) = {}
        /\ w = 1 => L \in Begun(r)
        /\ w = 2 => L > 0 /\ ledger[L] = Rest(r)
  BY DEF Write, WriterInv
<1> DEFINE Piece(j) == IF j = 1 THEN Start(r) ELSE IF j = 2 THEN Rest(r) ELSE Newline
<1>2. PICK n \in w + 1 .. 3 :
        /\ ledger' = ledger \o SubSeq(Line(r), w + 1, n)
        /\ written' = [written EXCEPT ![p] = n]
        /\ pc' = [pc EXCEPT ![p] = IF n = 3 THEN "unlock" ELSE "write"]
  BY <1>1 DEF Write
<1>3. ledger \in Seq(Pieces) /\ L \in Nat /\ DOMAIN ledger = 1 .. L
  BY DEF TypeOK
<1>4. /\ ledger' \in Seq(Pieces) /\ Len(ledger') = L + (n - w)
      /\ \A i \in 1 .. L : ledger'[i] = ledger[i]
      /\ \A j \in (w + 1) .. n : ledger'[L + (j - w)] = Piece(j)
  <2>1. /\ ledger \in Seq(Pieces) /\ n \in (w + 1) .. 3
        /\ ledger' = ledger \o SubSeq(Line(r), w + 1, n)
    BY <1>2, <1>3
  <2>2. QED
    BY ONLY r \in Records, w \in 0 .. 2, <2>1, WrittenPieces
<1>5. /\ \A q \in Records : Begun(q) \subseteq Begun(q)'
      /\ \A q \in Records : \A i \in Begun(q)' :
              i \in Begun(q) \/ (w = 0 /\ q = r /\ i = L + 1)
      /\ w = 0 => L + 1 \in Begun(r)'
  <2>1. /\ ledger \in Seq(Pieces) /\ n \in (w + 1) .. 3
        /\ ledger' = ledger \o SubSeq(Line(r), w + 1, n)
    BY <1>2, <1>3
  <2>2. QED
    BY ONLY r \in Records, w \in 0 .. 2, <2>1, BegunGrows
<1>6. DOMAIN ledger' = 1 .. L + (n - w)
  BY <1>4
<1>7. ASSUME NEW q \in Records, NEW i \in Begun(q)', i < Len(ledger')
      PROVE  ledger'[i + 1] = Rest(q)
  <2>1. CASE i \in Begun(q)
    <3>1. i \in 1 .. L /\ ledger[i] = Start(q)
      BY <2>1, <1>3 DEF Begun
    <3>2. CASE i < L
      <4>1. ledger[i + 1] = Rest(q)
        BY <2>1, <3>2 DEF WritesDoNotMix
      <4>2. i + 1 \in 1 .. L
        BY <3>1, <3>2, <1>3
      <4> QED
        BY <4>1, <4>2, <1>4
    <3>3. CASE i = L
      <4>1. w # 0
        BY <2>1, <3>3, <1>1
      <4>2. w # 2
        BY <3>1, <3>3, <1>1, PiecesDiffer
      <4>3. w = 1 /\ q = r
        <5>1. w = 1
          BY <4>1, <4>2, <1>1
        <5>2. ledger[L] = Start(r)
          BY <5>1, <1>1 DEF Begun
        <5> QED
          BY <5>1, <5>2, <3>1, <3>3, PiecesDiffer
      <4>4. 2 \in (w + 1) .. n /\ L + (2 - w) = i + 1
        BY <4>3, <3>3, <1>3
      <4>5. ledger'[L + (2 - w)] = Rest(r)
        BY <4>4, <1>4
      <4> QED
        BY <4>3, <4>4, <4>5
    <3>4. i < L \/ i = L
      <4>1. L \in Nat /\ i \in 1 .. L
        BY <3>1, <1>3
      <4> HIDE DEF L
      <4> QED
        BY <4>1
    <3> QED
      BY <3>2, <3>3, <3>4
  <2>2. CASE w = 0 /\ q = r /\ i = L + 1
    <3>1. 2 \in (w + 1) .. n /\ L + (2 - w) = i + 1
      BY <2>2, <1>7, <1>4, <1>3
    <3>2. ledger'[L + (2 - w)] = Rest(r)
      BY <3>1, <1>4
    <3> QED
      BY <3>1, <3>2, <2>2
  <2> QED
    BY <2>1, <2>2, <1>5
<1>8. ASSUME NEW q \in Records, NEW i \in DOMAIN ledger', ledger'[i] = Rest(q)
      PROVE  i - 1 \in Begun(q)'
  <2>1. CASE i <= L
    <3>1. i \in DOMAIN ledger /\ ledger[i] = Rest(q)
      BY <2>1, <1>8, <1>3, <1>4, <1>6
    <3>2. i - 1 \in Begun(q)
      BY <3>1 DEF WritesDoNotMix
    <3> QED
      BY <3>2, <1>5
  <2>2. CASE i > L
    <3>1. i - L + w \in (w + 1) .. n /\ L + ((i - L + w) - w) = i
      BY <2>2, <1>6, <1>3, <1>1
    <3>2. Piece(i - L + w) = Rest(q)
      BY <3>1, <1>8, <1>4
    <3>3. i - L + w = 2 /\ q = r
      BY <3>1, <3>2, PiecesDiffer
    <3>4. CASE w = 0
      <4>1. i - 1 = L + 1
        BY <3>3, <3>4, <1>3, <1>6
      <4> QED
        BY <4>1, <3>3, <3>4, <1>5
    <3>5. CASE w = 1
      <4>1. i - 1 = L
        BY <3>3, <3>5, <1>3, <1>6
      <4> QED
        BY <4>1, <3>3, <3>5, <1>1, <1>5
    <3>6. w = 0 \/ w = 1
      BY <3>1, <3>3, <1>1
    <3> QED
      BY <3>4, <3>5, <3>6
  <2> QED
    BY <2>1, <2>2, <1>3, <1>6
<1>9. WritesDoNotMix'
  BY <1>7, <1>8 DEF WritesDoNotMix
<1>10. ASSUME NEW a \in Records, NEW b \in Records, a.run_id = b.run_id,
              NEW i \in Begun(a)', NEW j \in Begun(b)'
       PROVE  i = j
  <2>1. CASE i \in Begun(a) /\ j \in Begun(b)
    BY <2>1, <1>10 DEF UniqueRuns
  <2>2. CASE i \notin Begun(a) /\ j \notin Begun(b)
    BY <2>2, <1>5
  <2>3. CASE i \notin Begun(a) /\ j \in Begun(b)
    <3>1. w = 0 /\ a = r
      BY <2>3, <1>5
    <3>2. Begun(b) = {}
      BY <3>1, <1>1, <1>10
    <3> QED
      BY <3>2, <2>3
  <2>4. CASE i \in Begun(a) /\ j \notin Begun(b)
    <3>1. w = 0 /\ b = r
      BY <2>4, <1>5
    <3>2. Begun(a) = {}
      BY <3>1, <1>1, <1>10
    <3> QED
      BY <3>2, <2>4
  <2> QED
    BY <2>1, <2>2, <2>3, <2>4
<1>11. UniqueRuns'
  BY <1>10 DEF UniqueRuns
<1>12. ASSUME NEW q \in Whole
       PROVE  q \in Whole'
  <2>1. q \in Records
    BY DEF Whole
  <2>2. PICK i \in Begun(q) : i < L /\ ledger[i + 1] = Rest(q)
    BY DEF Whole
  <2>3. i \in 1 .. L /\ i + 1 \in 1 .. L
    BY <2>2, <1>3 DEF Begun
  <2>4. i \in Begun(q)' /\ i < Len(ledger') /\ ledger'[i + 1] = Rest(q)
    BY <2>1, <2>2, <2>3, <1>1, <1>3, <1>4, <1>5
  <2> QED
    BY <2>1, <2>4 DEF Whole
<1>13. ASSUME NEW q \in Processes, pc'[q] = "write"
       PROVE  /\ record'[q] = r /\ written'[q] = n /\ n \in 1 .. 2
  <2>1. q = p
    <3>1. ASSUME q # p PROVE FALSE
      <4>1. pc[q] = "write"
        BY <3>1, <1>13, <1>2 DEF TypeOK
      <4> QED
        BY <4>1, <3>1, <1>1 DEF OneHolder, Locking
    <3> QED
      BY <3>1
  <2>2. n # 3
    BY <2>1, <1>13, <1>2 DEF TypeOK
  <2>3. record'[p] = r
    BY <1>1 DEF Write
  <2>4. written'[p] = n
    BY <1>2 DEF TypeOK
  <2>5. n \in 1 .. 2
    BY <2>2, <1>1
  <2> QED
    BY <2>1, <2>3, <2>4, <2>5
<1>14. n = 1 => Len(ledger') \in Begun(r)'
  <2>1. n = 1 => w = 0 /\ Len(ledger') = L + 1
    BY <1>1, <1>3, <1>4
  <2> QED
    BY <2>1, <1>5
<1>15. n = 2 => Len(ledger') > 0 /\ ledger'[Len(ledger')] = Rest(r)
  <2>1. n = 2 => n \in (w + 1) .. n /\ Len(ledger') = L + (n - w) /\ L + (n - w) > 0
    BY <1>1, <1>3, <1>4
  <2>2. n = 2 => ledger'[L + (n - w)] = Rest(r)
    BY <2>1, <1>4
  <2> QED
    BY <2>1, <2>2
<1>16. WriterInv'
  BY <1>1, <1>13, <1>14, <1>15 DEF WriterInv
<1> QED
  BY <1>9, <1>11, <1>12, <1>16

\* What is said of the ledger holds while it stays.
LEMMA LedgerStays ==
  ASSUME ledger' = ledger, UniqueRuns, WritesDoNotMix
  PROVE  /\ UniqueRuns' /\ WritesDoNotMix' /\ Whole' = Whole
         /\ \A r \in Records : Begun(r)' = Begun(r)
<1>1. \A r \in Records : Begun(r)' = Begun(r)
  BY DEF Begun
<1>2. UniqueRuns'
  BY <1>1 DEF UniqueRuns
<1>3. WritesDoNotMix'
  BY <1>1 DEF WritesDoNotMix
<1>4. Whole' = Whole
  BY <1>1 DEF Whole
<1> QED
  BY <1>1, <1>2, <1>3, <1>4

\* Only Check, which has read the whole ledger, lets a process write.
LEMMA LedgerStep ==
  ASSUME TypeOK, OneHolder, LocalInv, WriterInv, UniqueRuns, WritesDoNotMix, [Next]_vars
  PROVE  /\ UniqueRuns' /\ WritesDoNotMix' /\ WriterInv'
         /\ Whole \subseteq Whole'
<1> DEFINE Writer(q) ==
      /\ record[q] \in Records /\ written[q] \in 0 .. 2
      /\ written[q] = 0 =>
           /\ \A r \in Records : Len(ledger) \notin Begun(r)
           /\ \A r \in Records : r.run_id = record[q].run_id => Begun(r) = {}
      /\ written[q] = 1 => Len(ledger) \in Begun(record[q])
      /\ written[q] = 2 => Len(ledger) > 0 /\ ledger[Len(ledger)] = Rest(record[q])
<1>1. ASSUME NEW q \in Processes, pc[q] = "write", ledger' = ledger,
             record'[q] = record[q], written'[q] = written[q]
      PROVE  Writer(q)'
  <2>1. Writer(q)
    BY <1>1 DEF WriterInv
  <2>2. \A r \in Records : Begun(r)' = Begun(r)
    BY <1>1, LedgerStays
  <2>3. Begun(record[q])' = Begun(record[q])
    BY <2>1, <1>1 DEF Begun
  <2> QED
    BY <2>1, <2>2, <2>3, <1>1
<1>2. ASSUME NEW p \in Processes, Step(p), ~Write(p), NEW q \in Processes, pc'[q] = "write"
      PROVE  Writer(q)'
  <2>1. CASE q # p
    <3>1. pc[q] = "write" /\ record'[q] = record[q] /\ written'[q] = written[q]
      BY <2>1, <1>2, OthersStay
    <3>2. ledger' = ledger
      BY <1>2 DEF Step, Acquire, Check, WriteFails, Unlock, Select, Gate, Stage, Remove,
         Rename, Stop
    <3> QED
      BY <3>1, <3>2, <1>1
  <2>2. CASE q = p
    <3>1. ~(Unlock(p) \/ Rename(p) \/ Stop(p))
      BY <2>2, <1>2, EndTypes DEF Unlock, Rename, Stop
    <3>2. ~(Acquire(p) \/ WriteFails(p) \/ Select(p) \/ Gate(p) \/ Stage(p))
      BY <2>2, <1>2 DEF Acquire, WriteFails, Select, Gate, Stage, TypeOK
    <3>3. ~Remove(p)
      BY <2>2, <1>2, EndTypes DEF Remove, TypeOK
    <3>4. Check(p)
      BY <1>2, <3>1, <3>2, <3>3 DEF Step
    <3>5. /\ pc[p] = "check" /\ Readable
          /\ \A r \in Records : r.run_id = record[p].run_id => Begun(r) = {}
          /\ ledger' = ledger /\ record' = record /\ written' = written
      BY <3>4, <2>2, <1>2 DEF Check, TypeOK
    <3>6. written[p] = 0 /\ record[p] \in Records
      BY <3>5 DEF LocalInv
    <3>7. \A r \in Records : Len(ledger) \notin Begun(r)
      <4>1. Len(ledger) \in Nat
        BY LenProperties DEF TypeOK
      <4> QED
        BY <4>1, <3>5 DEF Readable
    <3>8. \A r \in Records : Begun(r)' = Begun(r)
      BY <3>5, LedgerStays
    <3> QED
      BY <2>2, <3>5, <3>6, <3>7, <3>8
  <2> QED
    BY <2>1, <2>2
<1>3. ASSUME NEW p \in Processes, Step(p), ~Write(p)
      PROVE  ledger' = ledger /\ WriterInv'
  <2>1. ledger' = ledger
    BY <1>3 DEF Step, Acquire, Check, WriteFails, Unlock, Select, Gate, Stage, Remove,
       Rename, Stop
  <2> QED
    BY <2>1, <1>2, <1>3 DEF WriterInv
<1>4. ASSUME RemoveOrphanedLock \/ UNCHANGED vars
      PROVE  ledger' = ledger /\ WriterInv'
  <2>1. ledger' = ledger /\ pc' = pc /\ record' = record /\ written' = written
    BY <1>4 DEF RemoveOrphanedLock, vars
  <2>2. \A q \in Processes : pc'[q] = "write" => Writer(q)'
    BY <2>1, <1>1
  <2> QED
    BY <2>1, <2>2 DEF WriterInv
<1>5. CASE \E p \in Processes : Write(p)
  BY <1>5, WriteKeeps
<1>6. CASE ledger' = ledger /\ WriterInv'
  BY <1>6, LedgerStays
<1> QED
  BY <1>3, <1>4, <1>5, <1>6, NextIsStep

-----------------------------------------------------------------------------
(* The registry                                                            *)

\* What was selected stays in the ledger, which only grows.
LEMMA SelectedStep ==
  ASSUME TypeOK, SelectedInv, Whole \subseteq Whole', [Next]_vars
  PROVE  SelectedInv'
<1> DEFINE Selected(q) == /\ record[q] \in Whole /\ record[q].profile
                          /\ record[q].corpus = asked[q].corpus
<1>1. ASSUME NEW p \in Processes, Step(p), NEW q \in Processes, pc'[q] = "gate"
      PROVE  Selected(q)'
  <2>1. CASE q # p
    BY <2>1, <1>1, OthersStay DEF SelectedInv
  <2>2. CASE q = p
    <3>1. ~(Unlock(p) \/ Rename(p) \/ Stop(p))
      BY <2>2, <1>1, EndTypes DEF Unlock, Rename, Stop
    <3>2. ~(Acquire(p) \/ Check(p) \/ WriteFails(p) \/ Write(p) \/ Gate(p) \/ Stage(p))
      BY <2>2, <1>1 DEF Acquire, Check, WriteFails, Write, Gate, Stage, TypeOK
    <3>3. ~Remove(p)
      BY <2>2, <1>1, EndTypes DEF Remove, TypeOK
    <3>4. Select(p)
      BY <1>1, <3>1, <3>2, <3>3 DEF Step
    <3>5. PICK s \in Selections : \E r \in Best(s) :
            asked'[p] = s /\ record'[p] = r
      BY <3>4 DEF Select, TypeOK
    <3>6. PICK r \in Best(s) : asked'[p] = s /\ record'[p] = r
      BY <3>5
    <3>7. r \in Whole /\ r.profile /\ r.corpus = s.corpus
      BY DEF Best, Admits
    <3> QED
      BY <2>2, <3>6, <3>7
  <2> QED
    BY <2>1, <2>2
<1>2. ASSUME RemoveOrphanedLock \/ UNCHANGED vars PROVE SelectedInv'
  BY <1>2 DEF RemoveOrphanedLock, vars, SelectedInv
<1> QED
  BY <1>1, <1>2, NextIsStep DEF SelectedInv

\* A registry that is staged holds what the loaded one held, and what was
\* selected; one that is installed was staged.
LEMMA PromotionsStep ==
  ASSUME TypeOK, LocalInv, SelectedInv, PromotionsInv, Whole \subseteq Whole', [Next]_vars
  PROVE  PromotionsInv'
<1>1. \A x : Kept(x, Whole) => Kept(x, Whole')
  BY DEF Kept
<1>2. ASSUME NEW p \in Processes, Step(p)
      PROVE  staged'[p] # None => Kept(staged'[p], Whole')
  <2>1. CASE Gate(p)
    <3> DEFINE loaded == IF registry = None THEN [c \in Corpora |-> None] ELSE registry
               new    == [loaded EXCEPT ![asked[p].corpus] = record[p]]
    <3>1. loaded \in Promotions /\ Kept(loaded, Whole)
      BY DEF Promotions, TypeOK, PromotionsInv, Kept
    <3>2. /\ record[p] \in Whole /\ record[p].profile
          /\ record[p].corpus = asked[p].corpus
      BY <2>1 DEF Gate, SelectedInv
    <3> HIDE DEF loaded
    <3>3. Kept(new, Whole)
      BY <3>1, <3>2 DEF Kept, Promotions
    <3>4. staged'[p] = new
      BY <2>1 DEF Gate, TypeOK, loaded
    <3> QED
      BY <3>3, <3>4, <1>1
  <2>2. CASE Unlock(p) \/ Rename(p) \/ Stop(p)
    BY <2>2, EndTypes DEF Unlock, Rename, Stop
  <2>3. CASE Remove(p)
    <3>1. staged'[p] = staged[p] \/ staged'[p] = None
      BY <2>3, EndTypes DEF Remove
    <3> QED
      BY <3>1, <1>1 DEF PromotionsInv
  <2>4. CASE Acquire(p) \/ Check(p) \/ Write(p) \/ WriteFails(p) \/ Select(p) \/ Stage(p)
    <3>1. staged' = staged
      BY <2>4 DEF Acquire, Check, Write, WriteFails, Select, Stage
    <3> QED
      BY <3>1, <1>1 DEF PromotionsInv
  <2> QED
    BY <1>2, <2>1, <2>2, <2>3, <2>4 DEF Step
<1>3. ASSUME NEW p \in Processes, Step(p)
      PROVE  registry' # None => Kept(registry', Whole')
  <2>1. CASE Rename(p)
    <3>1. registry' = staged[p]
      BY <2>1 DEF Rename
    <3> QED
      BY <3>1, <1>1 DEF PromotionsInv
  <2>2. CASE Remove(p)
    <3>1. registry' = None \/ registry' = registry
      BY <2>2 DEF Remove
    <3> QED
      BY <3>1, <1>1 DEF PromotionsInv
  <2>3. CASE ~Rename(p) /\ ~Remove(p)
    <3>1. registry' = registry
      BY <1>3, <2>3 DEF Step, Acquire, Check, Write, WriteFails, Unlock, Select, Gate, Stage, Stop
    <3> QED
      BY <3>1, <1>1 DEF PromotionsInv
  <2> QED
    BY <2>1, <2>2, <2>3
<1>4. ASSUME NEW p \in Processes, Step(p) PROVE PromotionsInv'
  <2>1. \A q \in Processes : staged'[q] # None => Kept(staged'[q], Whole')
    <3> TAKE q \in Processes
    <3>1. CASE q = p
      BY <3>1, <1>2, <1>4
    <3>2. CASE q # p
      <4>1. staged'[q] = staged[q]
        BY <3>2, <1>4, OthersStay
      <4> QED
        BY <4>1, <1>1 DEF PromotionsInv
    <3> QED
      BY <3>1, <3>2
  <2> QED
    BY <2>1, <1>3, <1>4 DEF PromotionsInv
<1>5. ASSUME RemoveOrphanedLock \/ UNCHANGED vars PROVE PromotionsInv'
  <2>1. registry' = registry /\ staged' = staged
    BY <1>5 DEF RemoveOrphanedLock, vars
  <2> QED
    BY <2>1, <1>1 DEF PromotionsInv
<1> QED
  BY <1>4, <1>5, NextIsStep

-----------------------------------------------------------------------------
(* The invariant and what follows from it                                  *)

LEMMA Initially ==
  ASSUME Init
  PROVE  IndInv
<1> USE DEF Init
<1>1. TypeOK
  <2>1. ledger \in Seq(Pieces)
    BY EmptySeq
  <2>2. lock_file \in BOOLEAN /\ registry \in Promotions \cup {None}
    OBVIOUS
  <2>3. pc \in [Processes -> Places] /\ written \in [Processes -> 0 .. 3]
    BY DEF Places
  <2>4. /\ record \in [Processes -> Records \cup {None}]
        /\ asked \in [Processes -> Selections \cup {None}]
        /\ staged \in [Processes -> Promotions \cup {None}]
    OBVIOUS
  <2> QED
    BY <2>1, <2>2, <2>3, <2>4 DEF TypeOK
<1>2. OneHolder /\ LocalInv /\ WriterInv /\ SelectedInv
  BY DEF OneHolder, Locking, LocalInv, WriterInv, SelectedInv
<1>3. \A r \in Records : Begun(r) = {}
  BY DEF Begun
<1>4. UniqueRuns
  BY <1>3 DEF UniqueRuns
<1>5. WritesDoNotMix
  BY <1>3 DEF WritesDoNotMix
<1>6. PromotionsInv
  BY DEF PromotionsInv
<1> QED
  BY <1>1, <1>2, <1>4, <1>5, <1>6 DEF IndInv

LEMMA Inductive ==
  ASSUME IndInv, [Next]_vars
  PROVE  IndInv'
<1>1. TypeOK' /\ OneHolder' /\ LocalInv'
  BY TypeStep, MutexStep, LocalStep DEF IndInv
<1>2. /\ UniqueRuns' /\ WritesDoNotMix' /\ WriterInv'
      /\ Whole \subseteq Whole'
  BY LedgerStep DEF IndInv
<1>3. SelectedInv' /\ PromotionsInv'
  BY <1>2, SelectedStep, PromotionsStep DEF IndInv
<1> QED
  BY <1>1, <1>2, <1>3 DEF IndInv

THEOREM Invariant == Spec => []IndInv
<1>1. Init => IndInv
  BY Initially
<1>2. IndInv /\ [Next]_vars => IndInv'
  BY Inductive
<1> QED
  BY <1>1, <1>2, PTL DEF Spec

\* Every variable of the commands and every file stays what it is meant to be.
THEOREM TypeCorrect == Spec => []TypeOK
<1>1. IndInv => TypeOK
  BY DEF IndInv
<1> QED
  BY <1>1, Invariant, PTL

\* However many processes record, fail or die: no run identifier is begun twice.
THEOREM RunsAreUnique == Spec => []UniqueRuns
<1>1. IndInv => UniqueRuns
  BY DEF IndInv
<1> QED
  BY <1>1, Invariant, PTL

\* The records of two processes never mix in the ledger.
THEOREM LinesDoNotMix == Spec => []WritesDoNotMix
<1>1. IndInv => WritesDoNotMix
  BY DEF IndInv
<1> QED
  BY <1>1, Invariant, PTL

\* Whatever is promoted, or about to be, is a valid record of the ledger for its
\* corpus, although promotion takes no lock.
THEOREM OnlyRecordsArePromoted == Spec => []PromotedWasRecorded
<1>1. IndInv => PromotedWasRecorded
  <2> SUFFICES ASSUME IndInv,
                      NEW promotions \in ({registry} \cup {staged[p] : p \in Processes}) \ {None}
               PROVE  /\ ValidRegistry(promotions)
                      /\ \A r \in Shown(promotions) : r \in Listed(r.corpus, r.method) /\ r.profile
    BY DEF PromotedWasRecorded
  <2>1. Kept(promotions, Whole)
    BY DEF IndInv, PromotionsInv
  <2>2. \A r \in Whole : ValidMetrics(r)
    BY RecordIsValid DEF Whole
  <2>3. ValidRegistry(promotions)
    BY <2>1, <2>2 DEF Kept, ValidRegistry
  <2>4. \A r \in Shown(promotions) : r \in Whole /\ r.profile
    BY <2>1 DEF Kept, Shown
  <2> QED
    BY <2>3, <2>4 DEF Listed
<1> QED
  BY <1>1, Invariant, PTL

=============================================================================
