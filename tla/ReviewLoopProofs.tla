---------------------------- MODULE ReviewLoopProofs ----------------------------
(***************************************************************************)
(* Proofs about ReviewLoop: what a review command that came to its end     *)
(* wrote stays in the files, and the receipts are an audit of what was     *)
(* done, for all reviews, requests and additions, when the commands run    *)
(* one at a time.                                                          *)
(***************************************************************************)
EXTENDS ReviewLoop, BasicsProofs

\* The commands run one after another; nothing in the code sees to that.
OneAtATime == \A p, q \in Processes : p = q

-----------------------------------------------------------------------------
(* Sequences and files *)

\* Appending joins one element.
LEMMA AppendElements ==
  ASSUME NEW X, NEW s \in Seq(X), NEW x \in X
  PROVE  Append(s, x) \in Seq(X) /\ ToSet(Append(s, x)) = ToSet(s) \cup {x}
<1> DEFINE t == Append(s, x)
<1>1. t \in Seq(X) /\ Len(t) = Len(s) + 1 /\ Len(s) \in Nat
  OBVIOUS
<1>2. DOMAIN t = 1..(Len(s) + 1) /\ DOMAIN s = 1..Len(s)
  BY <1>1
<1>3. 1..(Len(s) + 1) = (1..Len(s)) \cup {Len(s) + 1}
  BY <1>1
<1>4. t[Len(s) + 1] = x /\ \A i \in 1..Len(s) : t[i] = s[i]
  BY <1>1
<1> HIDE DEF t
<1>5. ToSet(t) = ToSet(s) \cup {x}
  BY <1>2, <1>3, <1>4 DEF ToSet
<1>6. QED
  BY <1>1, <1>5 DEF t

\* Picking positions out of a sequence leaves a sequence of just the elements
\* at those positions.
LEMMA PickedElements ==
  ASSUME NEW X, NEW s \in Seq(X), NEW at
  PROVE  /\ Picked(s, at) \in Seq(X)
         /\ ToSet(Picked(s, at)) = {s[i] : i \in DOMAIN s \cap at}
<1> DEFINE body(f) == [i \in 0..Len(s) |->
                         IF i = 0 THEN << >>
                         ELSE IF i \in at THEN Append(f[i - 1], s[i]) ELSE f[i - 1]]
           upto == CHOOSE f : f = body(f)
           step == [i \in 1..Len(s) |->
                      [t \in Seq(X) |-> IF i \in at THEN Append(t, s[i]) ELSE t]]
           Good(i) == upto[i] \in Seq(X) /\ ToSet(upto[i]) = {s[j] : j \in (1..i) \cap at}
           S == {i \in 0..Len(s) : Good(i)}
<1>1. Picked(s, at) = upto[Len(s)]
  BY DEF Picked
<1>2. Len(s) \in Nat /\ DOMAIN s = 1..Len(s)
  OBVIOUS
<1>3. /\ upto[0] = << >>
      /\ \A i \in 1..Len(s) :
           upto[i] = IF i \in at THEN Append(upto[i - 1], s[i]) ELSE upto[i - 1]
  <2>1. step \in [1..Len(s) -> [Seq(X) -> Seq(X)]]
    <3>1. ASSUME NEW i \in 1..Len(s), NEW t \in Seq(X)
          PROVE  (IF i \in at THEN Append(t, s[i]) ELSE t) \in Seq(X)
      BY <1>2
    <3>2. QED
      BY <3>1
  <2>2. PICK g \in [0..Len(s) -> Seq(X)] : Iterates(g, << >>, step, Len(s))
    <3> DEFINE T == Seq(X)
    <3>1. << >> \in T /\ step \in [1..Len(s) -> [T -> T]]
      BY <2>1
    <3> HIDE DEF step, T
    <3>2. \E g \in [0..Len(s) -> T] : Iterates(g, << >>, step, Len(s))
      BY <3>1, <1>2, Recursion
    <3>3. QED
      BY <3>2 DEF T
  <2>3. g[0] = << >> /\ \A i \in 1..Len(s) : g[i] = step[i][g[i - 1]]
    <3> HIDE DEF step
    <3>1. QED
      BY <2>2 DEF Iterates
  <2>4. ASSUME NEW i \in 0..Len(s), i # 0
        PROVE  g[i] = IF i \in at THEN Append(g[i - 1], s[i]) ELSE g[i - 1]
    <3>1. i \in 1..Len(s) /\ g[i - 1] \in Seq(X)
      BY <2>4, <1>2
    <3>2. QED
      BY <2>3, <3>1
  <2>5. g = body(g)
    BY <2>3, <2>4
  <2>6. upto = body(upto)
    <3> HIDE DEF body
    <3>1. QED
      BY <2>5
  <2> HIDE DEF upto
  <2>7. upto[0] = body(upto)[0] /\ \A i \in 1..Len(s) : upto[i] = body(upto)[i]
    BY <2>6
  <2>8. 0 \in 0..Len(s) /\ \A i \in 1..Len(s) : i \in 0..Len(s) /\ i # 0
    BY <1>2
  <2>9. QED
    BY <2>7, <2>8
<1> HIDE DEF upto
<1>4. 0 \in S
  <2>1. 0 \in 0..Len(s)
    BY <1>2
  <2>2. ToSet(<< >>) = {} /\ (1..0) \cap at = {} /\ << >> \in Seq(X)
    BY DEF ToSet
  <2>3. QED
    BY <2>1, <2>2, <1>3
<1>5. ASSUME NEW i \in 0..Len(s), i \in S, i < Len(s)
      PROVE  i + 1 \in S
  <2>1. /\ i + 1 \in 0..Len(s) /\ i + 1 \in 1..Len(s) /\ i + 1 # 0 /\ (i + 1) - 1 = i
        /\ 1..(i + 1) = (1..i) \cup {i + 1} /\ s[i + 1] \in X
    BY <1>5, <1>2
  <2>2. upto[i + 1] = IF i + 1 \in at THEN Append(upto[i], s[i + 1]) ELSE upto[i]
    BY <2>1, <1>3
  <2>3. Good(i)
    BY <1>5
  <2>4. CASE i + 1 \in at
    <3>1. upto[i + 1] = Append(upto[i], s[i + 1])
      BY <2>2, <2>4
    <3>2. ToSet(Append(upto[i], s[i + 1])) = ToSet(upto[i]) \cup {s[i + 1]}
      BY <2>1, <2>3, AppendElements
    <3>3. {s[j] : j \in (1..(i + 1)) \cap at} = {s[j] : j \in (1..i) \cap at} \cup {s[i + 1]}
      BY <2>1, <2>4
    <3>4. Append(upto[i], s[i + 1]) \in Seq(X)
      BY <2>1, <2>3
    <3>5. QED
      BY <3>1, <3>2, <3>3, <3>4, <2>1, <2>3
  <2>5. CASE i + 1 \notin at
    <3>1. (1..(i + 1)) \cap at = (1..i) \cap at
      BY <2>1, <2>5
    <3>2. QED
      BY <3>1, <2>1, <2>2, <2>3, <2>5
  <2>6. QED
    BY <2>4, <2>5
<1>6. \A i \in 0..Len(s) : i \in S
  <2> HIDE DEF S
  <2>1. QED
    BY <1>2, <1>4, <1>5, UpTo
<1>7. Good(Len(s)) /\ (1..Len(s)) \cap at = DOMAIN s \cap at
  <2>1. Len(s) \in 0..Len(s)
    BY <1>2
  <2>2. QED
    BY <2>1, <1>2, <1>6
<1> HIDE DEF Good
<1>8. QED
  BY <1>1, <1>7 DEF Good

\* dedup_by loses no record: every run of equal records keeps its first.
LEMMA DedupKeeps ==
  ASSUME NEW X, NEW run \in Seq(X)
  PROVE  Dedup(run) \in Seq(X) /\ ToSet(Dedup(run)) = ToSet(run)
<1> DEFINE kept == {i \in DOMAIN run : i = 1 \/ run[i] # run[i - 1]}
           S == {i \in 0..Len(run) : i = 0 \/ \E j \in kept : run[j] = run[i]}
<1>1. Dedup(run) = Picked(run, kept)
  BY DEF Dedup
<1>2. Len(run) \in Nat /\ DOMAIN run = 1..Len(run)
  OBVIOUS
<1>3. 0 \in S
  BY <1>2
<1>4. ASSUME NEW i \in 0..Len(run), i \in S, i < Len(run)
      PROVE  i + 1 \in S
  <2>1. i + 1 \in 0..Len(run) /\ i + 1 \in DOMAIN run /\ (i + 1) - 1 = i
    BY <1>2, <1>4
  <2>2. CASE i = 0 \/ run[i + 1] # run[i]
    <3>1. i + 1 = 1 \/ run[i + 1] # run[(i + 1) - 1]
      BY <2>1, <2>2
    <3>2. i + 1 \in kept
      BY <2>1, <3>1
    <3>3. QED
      BY <2>1, <3>2
  <2>3. CASE i # 0 /\ run[i + 1] = run[i]
    BY <2>1, <2>3, <1>4
  <2>4. QED
    BY <2>2, <2>3
<1>5. \A i \in 0..Len(run) : i \in S
  <2> HIDE DEF S
  <2>1. QED
    BY <1>2, <1>3, <1>4, UpTo
<1>6. ASSUME NEW i \in DOMAIN run
      PROVE  \E j \in DOMAIN run \cap kept : run[j] = run[i]
  <2>1. i \in S /\ i # 0
    BY <1>2, <1>5
  <2>2. QED
    BY <2>1
<1>7. ToSet(run) = {run[i] : i \in DOMAIN run \cap kept}
  BY <1>6 DEF ToSet
<1>8. PICK at : at = kept
  OBVIOUS
<1>9. QED
  BY ONLY run \in Seq(X), <1>1, <1>7, <1>8, PickedElements

\* Concatenation joins the elements.
LEMMA ConcatElements ==
  ASSUME NEW X, NEW s \in Seq(X), NEW t \in Seq(X)
  PROVE  s \o t \in Seq(X) /\ ToSet(s \o t) = ToSet(s) \cup ToSet(t)
<1>1. s \o t \in Seq(X) /\ Len(s \o t) = Len(s) + Len(t)
  OBVIOUS
<1>2. Len(s) \in Nat /\ Len(t) \in Nat
  OBVIOUS
<1>3. \A i \in 1..Len(s) : (s \o t)[i] = s[i] /\ i \in DOMAIN (s \o t)
  BY <1>1, <1>2
<1>4. \A i \in 1..Len(t) : (s \o t)[Len(s) + i] = t[i] /\ Len(s) + i \in DOMAIN (s \o t)
  BY <1>1, <1>2
<1>5. \A i \in DOMAIN (s \o t) : i \in 1..Len(s) \/ (i - Len(s) \in 1..Len(t) /\ i = Len(s) + (i - Len(s)))
  BY <1>1, <1>2
<1>6. ToSet(s \o t) \subseteq ToSet(s) \cup ToSet(t)
  BY <1>3, <1>4, <1>5 DEF ToSet
<1>7. ToSet(s) \cup ToSet(t) \subseteq ToSet(s \o t)
  <2>1. ASSUME NEW i \in DOMAIN s
        PROVE  s[i] \in ToSet(s \o t)
    BY <1>2, <1>3 DEF ToSet
  <2>2. ASSUME NEW i \in DOMAIN t
        PROVE  t[i] \in ToSet(s \o t)
    <3>1. i \in 1..Len(t)
      BY <1>2
    <3>2. (s \o t)[Len(s) + i] = t[i] /\ Len(s) + i \in DOMAIN (s \o t)
      BY <3>1, <1>4
    <3> DEFINE u == s \o t
               k == Len(s) + i
    <3>3. u[k] = t[i] /\ k \in DOMAIN u
      BY <3>2
    <3> HIDE DEF u, k
    <3>4. t[i] \in ToSet(u)
      BY <3>3 DEF ToSet
    <3>5. QED
      BY <3>4 DEF u
  <2>3. QED
    BY <2>1, <2>2 DEF ToSet
<1>8. QED
  BY <1>1, <1>6, <1>7

\* A merged file of feedback keeps what it held and holds what is new.
LEMMA MergedHolds ==
  ASSUME NEW file, NEW new, NEW k \in DOMAIN file,
         file[k] \in Seq(Ends), new[k] \in Seq(Ends)
  PROVE  /\ Merged(file, new)[k] \in Seq(Ends)
         /\ ToSet(Merged(file, new)[k]) = ToSet(file[k]) \cup ToSet(new[k])
<1>1. Merged(file, new)[k] = Dedup(file[k] \o new[k])
  BY DEF Merged
<1>2. /\ file[k] \o new[k] \in Seq(Ends)
      /\ ToSet(file[k] \o new[k]) = ToSet(file[k]) \cup ToSet(new[k])
  BY ConcatElements
<1>3. QED
  BY <1>1, <1>2, DedupKeeps

-----------------------------------------------------------------------------
(* What a review adds *)

\* The records that a review adds end where some results end.
LEMMA NewRunType ==
  ASSUME NEW r \in Reviews, NEW path, NEW start, NEW label
  PROVE  NewRun(r, path, start, label) \in Seq(Ends)
<1> DEFINE ds == {d \in r.decisions : d.candidate = path /\ label \in Labels(d)}
           d == CHOOSE x \in ds : TRUE
           at == {i \in DOMAIN d.results : d.results[i].start = start}
           here == Picked(d.results, at)
<1>1. CASE ds = {}
  <2>1. NewRun(r, path, start, label) = << >>
    BY <1>1 DEF NewRun
  <2>2. << >> \in Seq(Ends)
    OBVIOUS
  <2>3. QED
    BY <2>1, <2>2
<1>2. CASE ds # {}
  <2>1. NewRun(r, path, start, label) = [i \in DOMAIN here |-> here[i].end]
    BY <1>2 DEF NewRun
  <2>2. d \in r.decisions
    BY <1>2
  <2>3. d \in Decision
    BY <2>2, ReviewsAssumption
  <2> HIDE DEF d, ds
  <2>4. d.results \in Seq(Result)
    BY <2>3 DEF Decision
  <2>5. here \in Seq(Result)
    BY <2>4, PickedElements
  <2> HIDE DEF here
  <2>6. Len(here) \in Nat /\ DOMAIN here = 1..Len(here)
    BY <2>5
  <2>7. \A i \in 1..Len(here) : here[i].end \in Ends
    <3>1. \A i \in 1..Len(here) : here[i] \in Result
      BY <2>5
    <3>2. QED
      BY <3>1 DEF Result
  <2>8. QED
    BY <2>1, <2>6, <2>7
<1>3. QED
  BY <1>1, <1>2

LEMMA NewFeedbackType ==
  ASSUME NEW r \in Reviews
  PROVE  NewFeedback(r) \in Feedbacks /\ NewCalibration(r) \in Calibrations
<1>1. ASSUME NEW k \in Feedback
      PROVE  (IF k.query = r.target THEN NewRun(r, k.path, k.start, k.label) ELSE << >>) \in Seq(Ends)
  BY NewRunType
<1>2. ASSUME NEW k \in Calibration
      PROVE  NewRun(r, k.path, k.start, k.label) \in Seq(Ends)
  BY NewRunType
<1>3. QED
  BY <1>1, <1>2 DEF NewFeedback, NewCalibration, Feedbacks, Calibrations

LEMMA ReceiptsType ==
  ASSUME NEW r \in Reviews
  PROVE  Receipts(r) \subseteq Reviews \X Documents
BY ReviewsAssumption DEF Receipts, Decision

\* The evidence that a review adds lies between its nodes.
LEMMA EvidenceType ==
  ASSUME NEW r \in Reviews
  PROVE  /\ {r.target} \cup {d.candidate : d \in AcceptedIn(r)} \subseteq Documents
         /\ \A e \in NewEvidence(r) :
              /\ e \in Evidence
              /\ {e.source, e.target} \subseteq {r.target} \cup {d.candidate : d \in AcceptedIn(r)}
<1>1. r.target \in Documents /\ r.time \in Nat
  BY ReviewsAssumption
<1>2. \A d \in AcceptedIn(r) : d \in Decision
  BY ReviewsAssumption DEF AcceptedIn
<1>3. \A d \in AcceptedIn(r) : d.candidate \in Documents
  BY <1>2 DEF Decision
<1>4. ASSUME NEW e \in NewEvidence(r)
      PROVE  e \in Evidence /\ {e.source, e.target} \subseteq {r.target} \cup {d.candidate : d \in AcceptedIn(r)}
  <2>1. PICK d \in AcceptedIn(r) : \E x \in ToSet(d.results) :
               e = [source |-> d.candidate, target |-> r.target, result |-> x, time |-> r.time]
    BY DEF NewEvidence
  <2>2. PICK x \in ToSet(d.results) :
               e = [source |-> d.candidate, target |-> r.target, result |-> x, time |-> r.time]
    BY <2>1
  <2>3. x \in Result
    <3>1. d.results \in Seq(Result)
      BY <1>2 DEF Decision
    <3>2. QED
      BY <3>1, <2>2 DEF ToSet
  <2>4. QED
    BY <1>1, <1>3, <2>2, <2>3 DEF Evidence
<1>5. QED
  BY <1>1, <1>3, <1>4

-----------------------------------------------------------------------------
(* The inductive invariant *)

\* The file f holds all that r adds to it.
Has(f, r) ==
  /\ f = "feedback"    => HasFeedback(r)
  /\ f = "calibration" => HasCalibration(r)
  /\ f = "receipts"    => HasReceipts(r)
  /\ f = "graph"       => NewEvidence(r) \subseteq store.graph.evidence

\* What a command that applies r will replace f with.
Pending(f, r) == IF f = "graph" THEN GraphWith(r) ELSE Contents(f, r)

\* A command that applies a review has written what it need not write any more,
\* and what it has read of the rest is still true.
Applying(p) ==
  job[p] # None =>
    LET r == job[p][1]
        o == job[p][2]
    IN  /\ todo[p] # {} /\ todo[p] \subseteq o
        /\ o # Outputs => r \in partial
        /\ \A f \in o \ todo[p] : Has(f, r)
        /\ \A f \in Outputs : staged[p][f] # None => staged[p][f] = Pending(f, r)

\* Any other command is idle or has grown the graph as it is now.
Enriching(p) ==
  job[p] = None =>
    /\ todo[p] \subseteq {"graph"}
    /\ "graph" \in todo[p] =>
         \E g \in Additions : staged[p]["graph"] = Grown(store.graph, g.nodes, g.evidence)

Staging(p) ==
  /\ \A f \in Outputs : staged[p][f] # None => f \in todo[p]
  /\ "graph" \in todo[p] => staged[p]["graph"] # None

CommandInv == \A p \in Processes : Applying(p) /\ Enriching(p) /\ Staging(p)

\* Of every completed application, everything is in the files asked for.
DoneInv == \A j \in done : \A f \in j[2] : Has(f, j[1])

IInv == TypeOK /\ CommandInv /\ DoneInv /\ AuditTrail

\* No file loses anything.
Grows ==
  /\ \A k \in Feedback : ToSet(store.feedback[k]) \subseteq ToSet(store'.feedback[k])
  /\ \A k \in Calibration : ToSet(store.calibration[k]) \subseteq ToSet(store'.calibration[k])
  /\ store.receipts \subseteq store'.receipts
  /\ store.graph.evidence \subseteq store'.graph.evidence

-----------------------------------------------------------------------------
(* The initial state, and the order of the files *)

\* The next file is one of those left; the graph comes last and the receipts
\* after the feedback.
LEMMA FirstOf ==
  ASSUME NEW files \in SUBSET Outputs, files # {}
  PROVE  /\ First(files) \in files
         /\ First(files) = "graph" => files = {"graph"}
         /\ First(files) = "receipts" => "feedback" \notin files /\ "calibration" \notin files
<1> DEFINE Least1(i) == Order[i] \in files /\ \A j \in DOMAIN Order : Order[j] \in files => i <= j
           n == CHOOSE i \in DOMAIN Order : Least1(i)
<1>1. /\ DOMAIN Order = 1..4
      /\ Order[1] = "feedback" /\ Order[2] = "calibration"
      /\ Order[3] = "receipts" /\ Order[4] = "graph"
  BY DEF Order
<1>2. \E i \in DOMAIN Order : Least1(i)
  <2>1. DOMAIN Order = {1, 2, 3, 4}
    BY <1>1
  <2>2. CASE "feedback" \in files
    <3>1. Least1(1)
      BY <1>1, <2>2
    <3>2. QED
      BY <2>1, <3>1
  <2>3. CASE "feedback" \notin files /\ "calibration" \in files
    <3>1. Least1(2)
      BY <1>1, <2>1, <2>3
    <3>2. QED
      BY <2>1, <3>1
  <2>4. CASE "feedback" \notin files /\ "calibration" \notin files /\ "receipts" \in files
    <3>1. Least1(3)
      BY <1>1, <2>1, <2>4
    <3>2. QED
      BY <2>1, <3>1
  <2>5. CASE files = {"graph"}
    <3>1. Least1(4)
      BY <1>1, <2>1, <2>5
    <3>2. QED
      BY <2>1, <3>1
  <2>6. QED
    BY <2>2, <2>3, <2>4, <2>5 DEF Outputs
<1>3. n \in DOMAIN Order /\ Least1(n)
  BY <1>2
<1>4. First(files) = Order[n]
  BY DEF First
<1> HIDE DEF n
<1>5. n \in {1, 2, 3, 4}
  BY <1>1, <1>3
<1>6. CASE n = 1
  BY <1>1, <1>3, <1>4, <1>6
<1>7. CASE n = 2
  BY <1>1, <1>3, <1>4, <1>7
<1>8. CASE n = 3
  <2>1. Order[1] \notin files /\ Order[2] \notin files
    BY <1>1, <1>3, <1>8
  <2>2. QED
    BY <1>1, <1>3, <1>4, <1>8, <2>1
<1>9. CASE n = 4
  <2>1. Order[1] \notin files /\ Order[2] \notin files /\ Order[3] \notin files
    BY <1>1, <1>3, <1>9
  <2>2. QED
    BY <1>1, <1>3, <1>4, <1>9, <2>1 DEF Outputs
<1>10. QED
  BY <1>5, <1>6, <1>7, <1>8, <1>9

LEMMA Initially == Init => IInv
<1> SUFFICES ASSUME Init
             PROVE  IInv
  OBVIOUS
<1>1. TypeOK
  <2>1. << >> \in Seq(Ends)
    OBVIOUS
  <2>2. [k \in Feedback |-> << >>] \in Feedbacks /\ [k \in Calibration |-> << >>] \in Calibrations
    BY <2>1 DEF Feedbacks, Calibrations
  <2>3. QED
    BY <2>2 DEF Init, TypeOK, Ledgers, Graph, EmptyGraph, Unknown
<1>2. CommandInv
  BY DEF Init, CommandInv, Applying, Enriching, Staging, Unknown
<1>3. DoneInv
  BY DEF Init, DoneInv
<1>4. AuditTrail
  BY DEF Init, AuditTrail, EmptyGraph
<1>5. QED
  BY <1>1, <1>2, <1>3, <1>4 DEF IInv

-----------------------------------------------------------------------------
(* Steps that leave the files alone *)

\* A file that holds what a review adds to it goes on to hold it.
LEMMA HasStays ==
  ASSUME TypeOK, TypeOK', Grows, NEW r, NEW f, Has(f, r)
  PROVE  Has(f, r)'
<1>1. DOMAIN store.feedback = Feedback /\ DOMAIN store'.feedback = Feedback
  BY DEF TypeOK, Feedbacks
<1>2. DOMAIN store.calibration = Calibration /\ DOMAIN store'.calibration = Calibration
  BY DEF TypeOK, Calibrations
<1>3. HasFeedback(r) => HasFeedback(r)'
  BY <1>1 DEF HasFeedback, Holds, Grows
<1>4. HasCalibration(r) => HasCalibration(r)'
  BY <1>2 DEF HasCalibration, Holds, Grows
<1>5. HasReceipts(r) => HasReceipts(r)'
  BY DEF HasReceipts, Grows
<1>6. QED
  BY <1>3, <1>4, <1>5 DEF Has, Grows

\* What holds of the files and of the completed applications is kept by a step
\* that changes neither.
LEMMA FilesAlone ==
  ASSUME IInv, UNCHANGED <<store, done>>, partial \subseteq partial'
  PROVE  DoneInv' /\ AuditTrail'
<1>1. \A f, r : Has(f, r)' = Has(f, r)
  BY DEF Has, HasFeedback, HasCalibration, HasReceipts
<1>2. DoneInv'
  BY <1>1 DEF IInv, DoneInv
<1>3. AuditTrail'
  BY DEF IInv, AuditTrail, HasFeedback, HasCalibration, HasReceipts
<1>4. QED
  BY <1>2, <1>3

\* A graph that is grown by what lies between its new nodes is a graph.
LEMMA GrownGraph ==
  ASSUME TypeOK, NEW nodes \in SUBSET Documents, NEW evidence,
         \A e \in evidence : e \in Evidence /\ {e.source, e.target} \subseteq nodes
  PROVE  /\ Grown(store.graph, nodes, evidence) \in Graph
         /\ Grown(store.graph, nodes, evidence) # None
         /\ \A e \in Grown(store.graph, nodes, evidence).evidence :
              {e.source, e.target} \subseteq Grown(store.graph, nodes, evidence).nodes
<1>1. /\ store.graph.nodes \subseteq Documents /\ store.graph.evidence \subseteq Evidence
      /\ \A e \in store.graph.evidence : {e.source, e.target} \subseteq store.graph.nodes
  BY DEF TypeOK, Graph
<1>2. Grown(store.graph, nodes, evidence) \in Graph
  BY <1>1 DEF Grown, Graph
<1>3. \A e \in Grown(store.graph, nodes, evidence).evidence :
        {e.source, e.target} \subseteq Grown(store.graph, nodes, evidence).nodes
  BY <1>1 DEF Grown
<1>4. QED
  BY <1>2, <1>3, NoneAssumption

LEMMA AddedGraph ==
  ASSUME TypeOK, NEW g \in Additions
  PROVE  /\ Grown(store.graph, g.nodes, g.evidence) \in Graph
         /\ Grown(store.graph, g.nodes, g.evidence) # None
         /\ \A e \in Grown(store.graph, g.nodes, g.evidence).evidence :
              {e.source, e.target} \subseteq Grown(store.graph, g.nodes, g.evidence).nodes
BY GrownGraph, RequestsAssumption

LEMMA ReviewedGraph ==
  ASSUME TypeOK, NEW r \in Reviews
  PROVE  /\ GraphWith(r) \in Graph
         /\ GraphWith(r) # None
         /\ \A e \in GraphWith(r).evidence :
              {e.source, e.target} \subseteq GraphWith(r).nodes
BY GrownGraph, EvidenceType DEF GraphWith

LEMMA BeginStep ==
  ASSUME IInv, NEW p \in Processes, Begin(p), OneAtATime
  PROVE  IInv'
<1>1. PICK r \in Reviews, o \in Requests :
             /\ job' = [job EXCEPT ![p] = <<r, o>>]
             /\ todo' = [todo EXCEPT ![p] = o]
             /\ staged' = [staged EXCEPT ![p].graph = IF "graph" \in o THEN GraphWith(r) ELSE None]
             /\ partial' = IF o = Outputs THEN partial ELSE partial \cup {r}
  BY DEF Begin
<1>2. todo[p] = {} /\ UNCHANGED <<store, done>>
  BY DEF Begin
<1>3. \A q \in Processes : q = p
  BY DEF OneAtATime
<1>4. TypeOK /\ o \subseteq Outputs /\ o # {}
  BY RequestsAssumption DEF IInv
<1>5. TypeOK'
  BY <1>1, <1>2, <1>4 DEF TypeOK
<1>6. CommandInv'
  <2>1. <<r, o>> # None
    BY NoneAssumption
  <2>2. job'[p] = <<r, o>> /\ todo'[p] = o
    BY <1>1, <1>4 DEF TypeOK
  <2>3. \A f \in Outputs : staged[p][f] = None
    BY <1>2 DEF IInv, CommandInv, Staging
  <2>4. \A f \in Outputs : staged'[p][f] = IF f = "graph" /\ "graph" \in o THEN GraphWith(r) ELSE None
    BY <1>1, <1>4, <2>3 DEF TypeOK, Outputs
  <2>5. GraphWith(r)' = GraphWith(r)
    BY <1>2 DEF GraphWith
  <2>6. GraphWith(r) # None
    BY <1>4, ReviewedGraph
  <2>7. Applying(p)'
    BY <1>1, <1>4, <2>2, <2>4, <2>5 DEF Applying, Pending
  <2>8. Enriching(p)' /\ Staging(p)'
    BY <1>4, <2>1, <2>2, <2>4, <2>6 DEF Enriching, Staging, Outputs
  <2>9. QED
    BY <1>3, <2>7, <2>8 DEF CommandInv
<1>7. DoneInv' /\ AuditTrail'
  BY <1>1, <1>2, FilesAlone
<1>8. QED
  BY <1>5, <1>6, <1>7 DEF IInv

LEMMA EnrichStep ==
  ASSUME IInv, NEW p \in Processes, Enrich(p), OneAtATime
  PROVE  IInv'
<1>1. PICK g \in Additions :
             staged' = [staged EXCEPT ![p].graph = Grown(store.graph, g.nodes, g.evidence)]
  BY DEF Enrich
<1>2. todo[p] = {} /\ todo' = [todo EXCEPT ![p] = {"graph"}] /\ UNCHANGED <<store, job, partial, done>>
  BY DEF Enrich
<1>3. \A q \in Processes : q = p
  BY DEF OneAtATime
<1>4. TypeOK
  BY DEF IInv
<1>5. TypeOK'
  BY <1>1, <1>2, <1>4 DEF TypeOK, Outputs
<1>6. CommandInv'
  <2>1. job[p] = None
    BY <1>2 DEF IInv, CommandInv, Applying
  <2>2. \A f \in Outputs : staged[p][f] = None
    BY <1>2 DEF IInv, CommandInv, Staging
  <2>3. todo'[p] = {"graph"} /\ job'[p] = None
    BY <1>2, <1>4, <2>1 DEF TypeOK
  <2>4. \A f \in Outputs :
          staged'[p][f] = IF f = "graph" THEN Grown(store.graph, g.nodes, g.evidence) ELSE None
    BY <1>1, <1>4, <2>2 DEF TypeOK, Outputs
  <2>5. Grown(store.graph, g.nodes, g.evidence) # None
    BY <1>4, AddedGraph
  <2>6. Applying(p)' /\ Enriching(p)' /\ Staging(p)'
    BY <1>2, <2>3, <2>4, <2>5 DEF Applying, Enriching, Staging, Outputs
  <2>7. QED
    BY <1>3, <2>6 DEF CommandInv
<1>7. DoneInv' /\ AuditTrail'
  BY <1>2, FilesAlone
<1>8. QED
  BY <1>5, <1>6, <1>7 DEF IInv

LEMMA ReadStep ==
  ASSUME IInv, NEW p \in Processes, Read(p), OneAtATime
  PROVE  IInv'
<1> DEFINE f == First(todo[p])
           r == job[p][1]
<1>1. /\ todo[p] # {} /\ staged[p][f] = None
      /\ staged' = [staged EXCEPT ![p][f] = Contents(f, r)]
      /\ UNCHANGED <<store, job, todo, partial, done>>
  BY DEF Read
<1>2. \A q \in Processes : q = p
  BY DEF OneAtATime
<1>3. TypeOK /\ Applying(p) /\ Enriching(p) /\ Staging(p)
  BY DEF IInv, CommandInv
<1>4. todo[p] \in SUBSET Outputs
  BY <1>3 DEF TypeOK
<1>5. f \in todo[p] /\ f \in Outputs
  BY <1>1, <1>4, FirstOf
<1> HIDE DEF f
<1>6. f # "graph" /\ job[p] # None
  BY <1>1, <1>3, <1>5 DEF Staging, Enriching
<1>7. TypeOK'
  BY <1>1, <1>3 DEF TypeOK
<1>8. \A g \in Outputs : staged'[p][g] = IF g = f THEN Contents(f, r) ELSE staged[p][g]
  BY <1>1, <1>3, <1>5 DEF TypeOK
<1>9. \A g : Pending(g, r)' = Pending(g, r)
  BY <1>1 DEF Pending, Contents, GraphWith
<1>10. \A g : Has(g, r)' = Has(g, r)
  BY <1>1 DEF Has, HasFeedback, HasCalibration, HasReceipts
<1>11. Pending(f, r) = Contents(f, r)
  BY <1>6 DEF Pending
<1>12. Applying(p)'
  BY <1>1, <1>3, <1>8, <1>9, <1>10, <1>11 DEF Applying
<1>13. Enriching(p)' /\ Staging(p)'
  BY <1>1, <1>3, <1>5, <1>6, <1>8 DEF Enriching, Staging, Outputs
<1>14. DoneInv' /\ AuditTrail'
  BY <1>1, FilesAlone
<1>15. QED
  BY <1>2, <1>7, <1>12, <1>13, <1>14 DEF IInv, CommandInv

LEMMA StopStep ==
  ASSUME IInv, NEW p \in Processes, Stop(p), OneAtATime
  PROVE  IInv'
<1>1. /\ job' = [job EXCEPT ![p] = None]
      /\ todo' = [todo EXCEPT ![p] = {}]
      /\ staged' = [staged EXCEPT ![p] = Unknown]
      /\ UNCHANGED <<store, partial, done>>
  BY DEF Stop
<1>2. \A q \in Processes : q = p
  BY DEF OneAtATime
<1>3. TypeOK
  BY DEF IInv
<1>4. TypeOK'
  BY <1>1, <1>3 DEF TypeOK, Unknown
<1>5. job'[p] = None /\ todo'[p] = {} /\ \A f \in Outputs : staged'[p][f] = None
  BY <1>1, <1>3 DEF TypeOK, Unknown
<1>6. Applying(p)' /\ Enriching(p)' /\ Staging(p)'
  BY <1>5 DEF Applying, Enriching, Staging
<1>7. DoneInv' /\ AuditTrail'
  BY <1>1, FilesAlone
<1>8. QED
  BY <1>2, <1>4, <1>6, <1>7 DEF IInv, CommandInv

-----------------------------------------------------------------------------
(* Replacing a file *)

\* The file that is replaced grows by what it should, and the others stay.
LEMMA Replaced ==
  ASSUME IInv, NEW p \in Processes, Replace(p),
         NEW f, f = First(todo[p]), NEW r, r = job[p][1]
  PROVE  /\ TypeOK' /\ Grows
         /\ job[p] # None => Has(f, r)'
<1> DEFINE o == job[p][2]
<1>1. /\ todo[p] # {} /\ staged[p][f] # None
      /\ store' = [store EXCEPT ![f] = staged[p][f]]
      /\ staged' = [staged EXCEPT ![p][f] = None]
      /\ todo' = [todo EXCEPT ![p] = @ \ {f}]
      /\ IF todo[p] = {f}
         THEN /\ job' = [job EXCEPT ![p] = None]
              /\ done' = done \cup ({job[p]} \ {None})
         ELSE UNCHANGED <<job, done>>
      /\ UNCHANGED partial
  BY DEF Replace
<1>2. TypeOK /\ Applying(p) /\ Enriching(p)
  BY DEF IInv, CommandInv
<1>3. f \in todo[p] /\ f \in Outputs
  <2>1. todo[p] \in SUBSET Outputs
    BY <1>2 DEF TypeOK
  <2>2. QED
    BY <1>1, <2>1, FirstOf
<1>4. job[p] # None => r \in Reviews /\ o \in Requests /\ job[p] \in Reviews \X Requests
  BY <1>2 DEF TypeOK
<1>5. /\ job' \in [Processes -> (Reviews \X Requests) \cup {None}]
      /\ todo' \in [Processes -> SUBSET Outputs]
      /\ staged' = [q \in Processes |-> [g \in Outputs |-> staged'[q][g]]]
      /\ partial' \subseteq Reviews /\ done' \subseteq Reviews \X Requests
  <2>1. job' \in [Processes -> (Reviews \X Requests) \cup {None}]
    BY <1>1, <1>2 DEF TypeOK
  <2>2. todo' \in [Processes -> SUBSET Outputs]
    BY <1>1, <1>2 DEF TypeOK
  <2>3. staged' = [q \in Processes |-> [g \in Outputs |-> staged'[q][g]]]
    BY <1>1, <1>2 DEF TypeOK
  <2>4. partial' \subseteq Reviews /\ done' \subseteq Reviews \X Requests
    BY <1>1, <1>2, <1>4 DEF TypeOK
  <2>5. QED
    BY <2>1, <2>2, <2>3, <2>4
<1>6. /\ store.feedback \in Feedbacks /\ store.calibration \in Calibrations
      /\ store.receipts \in Ledgers /\ store.graph \in Graph
      /\ store = [feedback |-> store.feedback, calibration |-> store.calibration,
                  receipts |-> store.receipts, graph |-> store.graph]
  BY <1>2 DEF TypeOK
<1>7. CASE f = "feedback"
  <2>1. job[p] # None /\ staged[p][f] = Merged(store.feedback, NewFeedback(r))
    BY <1>1, <1>2, <1>3, <1>7 DEF Applying, Enriching, Pending, Contents
  <2>2. store' = [store EXCEPT !.feedback = Merged(store.feedback, NewFeedback(r))]
    BY <1>1, <1>7, <2>1
  <2>3. store.feedback \in [Feedback -> Seq(Ends)] /\ NewFeedback(r) \in [Feedback -> Seq(Ends)]
    BY <1>4, <1>6, <2>1, NewFeedbackType DEF Feedbacks
  <2>4. /\ store'.feedback \in [Feedback -> Seq(Ends)]
        /\ \A k \in Feedback : ToSet(store'.feedback[k]) = ToSet(store.feedback[k]) \cup ToSet(NewFeedback(r)[k])
    <3>1. store'.feedback = Merged(store.feedback, NewFeedback(r))
      BY <1>6, <2>2
    <3>2. ASSUME NEW k \in Feedback
          PROVE  /\ store'.feedback[k] \in Seq(Ends)
                 /\ ToSet(store'.feedback[k]) = ToSet(store.feedback[k]) \cup ToSet(NewFeedback(r)[k])
      <4>1. PICK old, new : old = store.feedback /\ new = NewFeedback(r)
        OBVIOUS
      <4>2. k \in DOMAIN old /\ old[k] \in Seq(Ends) /\ new[k] \in Seq(Ends)
        BY <2>3, <4>1
      <4>3. /\ Merged(old, new)[k] \in Seq(Ends)
            /\ ToSet(Merged(old, new)[k]) = ToSet(old[k]) \cup ToSet(new[k])
        BY <4>2, MergedHolds
      <4>4. QED
        BY <3>1, <4>1, <4>3
    <3>3. store'.feedback = [k \in Feedback |-> store'.feedback[k]]
      BY <2>3, <3>1 DEF Merged
    <3>4. QED
      BY <3>2, <3>3
  <2>5. /\ store'.calibration = store.calibration /\ store'.receipts = store.receipts
        /\ store'.graph = store.graph
        /\ store' \in [feedback : Feedbacks, calibration : Calibrations,
                       receipts : Ledgers, graph : Graph]
    BY <1>6, <2>2, <2>4 DEF Feedbacks
  <2>6. TypeOK'
    BY <1>2, <1>5, <2>5 DEF TypeOK
  <2>7. Grows
    BY <2>4, <2>5 DEF Grows
  <2>8. Has(f, r)'
    <3>1. DOMAIN store'.feedback = Feedback
      BY <2>4
    <3>2. Holds(store'.feedback, NewFeedback(r))
      BY <2>4, <3>1 DEF Holds
    <3>3. QED
      BY <1>7, <3>2 DEF Has, HasFeedback
  <2>9. QED
    BY <2>6, <2>7, <2>8
<1>8. CASE f = "calibration"
  <2>1. job[p] # None /\ staged[p][f] = Merged(store.calibration, NewCalibration(r))
    BY <1>1, <1>2, <1>3, <1>8 DEF Applying, Enriching, Pending, Contents
  <2>2. store' = [store EXCEPT !.calibration = Merged(store.calibration, NewCalibration(r))]
    BY <1>1, <1>8, <2>1
  <2>3. store.calibration \in [Calibration -> Seq(Ends)] /\ NewCalibration(r) \in [Calibration -> Seq(Ends)]
    BY <1>4, <1>6, <2>1, NewFeedbackType DEF Calibrations
  <2>4. /\ store'.calibration \in [Calibration -> Seq(Ends)]
        /\ \A k \in Calibration :
             ToSet(store'.calibration[k]) = ToSet(store.calibration[k]) \cup ToSet(NewCalibration(r)[k])
    <3>1. store'.calibration = Merged(store.calibration, NewCalibration(r))
      BY <1>6, <2>2
    <3>2. ASSUME NEW k \in Calibration
          PROVE  /\ store'.calibration[k] \in Seq(Ends)
                 /\ ToSet(store'.calibration[k]) = ToSet(store.calibration[k]) \cup ToSet(NewCalibration(r)[k])
      <4>1. PICK old, new : old = store.calibration /\ new = NewCalibration(r)
        OBVIOUS
      <4>2. k \in DOMAIN old /\ old[k] \in Seq(Ends) /\ new[k] \in Seq(Ends)
        BY <2>3, <4>1
      <4>3. /\ Merged(old, new)[k] \in Seq(Ends)
            /\ ToSet(Merged(old, new)[k]) = ToSet(old[k]) \cup ToSet(new[k])
        BY <4>2, MergedHolds
      <4>4. QED
        BY <3>1, <4>1, <4>3
    <3>3. store'.calibration = [k \in Calibration |-> store'.calibration[k]]
      BY <2>3, <3>1 DEF Merged
    <3>4. QED
      BY <3>2, <3>3
  <2>5. /\ store'.feedback = store.feedback /\ store'.receipts = store.receipts
        /\ store'.graph = store.graph
        /\ store' \in [feedback : Feedbacks, calibration : Calibrations,
                       receipts : Ledgers, graph : Graph]
    BY <1>6, <2>2, <2>4 DEF Calibrations
  <2>6. TypeOK'
    BY <1>2, <1>5, <2>5 DEF TypeOK
  <2>7. Grows
    BY <2>4, <2>5 DEF Grows
  <2>8. Has(f, r)'
    <3>1. DOMAIN store'.calibration = Calibration
      BY <2>4
    <3>2. Holds(store'.calibration, NewCalibration(r))
      BY <2>4, <3>1 DEF Holds
    <3>3. QED
      BY <1>8, <3>2 DEF Has, HasCalibration
  <2>9. QED
    BY <2>6, <2>7, <2>8
<1>9. CASE f = "receipts"
  <2>1. job[p] # None /\ staged[p][f] = store.receipts \cup Receipts(r)
    BY <1>1, <1>2, <1>3, <1>9 DEF Applying, Enriching, Pending, Contents
  <2>2. store' = [store EXCEPT !.receipts = store.receipts \cup Receipts(r)]
    BY <1>1, <1>9, <2>1
  <2>3. store'.receipts \in Ledgers
    BY <1>4, <1>6, <2>1, <2>2, ReceiptsType DEF Ledgers
  <2>4. /\ store'.feedback = store.feedback /\ store'.calibration = store.calibration
        /\ store'.graph = store.graph /\ store'.receipts = store.receipts \cup Receipts(r)
        /\ store' \in [feedback : Feedbacks, calibration : Calibrations,
                       receipts : Ledgers, graph : Graph]
    BY <1>6, <2>2, <2>3
  <2>5. TypeOK'
    BY <1>2, <1>5, <2>4 DEF TypeOK
  <2>6. Grows
    BY <2>4 DEF Grows
  <2>7. Has(f, r)'
    BY <1>9, <2>4 DEF Has, HasReceipts
  <2>8. QED
    BY <2>5, <2>6, <2>7
<1>10. CASE f = "graph"
  <2>1. /\ staged[p][f] \in Graph
        /\ \A e \in staged[p][f].evidence : {e.source, e.target} \subseteq staged[p][f].nodes
        /\ store.graph.evidence \subseteq staged[p][f].evidence
        /\ job[p] # None => NewEvidence(r) \subseteq staged[p][f].evidence
    <3>1. CASE job[p] # None
      <4>1. staged[p][f] = GraphWith(r)
        BY <1>1, <1>2, <1>10, <3>1 DEF Applying, Pending, Outputs
      <4>2. store.graph.evidence \cup NewEvidence(r) = GraphWith(r).evidence
        BY DEF GraphWith, Grown
      <4>3. QED
        BY <1>2, <1>4, <3>1, <4>1, <4>2, ReviewedGraph
    <3>2. CASE job[p] = None
      <4>1. PICK g \in Additions : staged[p][f] = Grown(store.graph, g.nodes, g.evidence)
        BY <1>2, <1>3, <1>10, <3>2 DEF Enriching
      <4>2. store.graph.evidence \subseteq Grown(store.graph, g.nodes, g.evidence).evidence
        BY DEF Grown
      <4>3. QED
        BY <1>2, <3>2, <4>1, <4>2, AddedGraph
    <3>3. QED
      BY <3>1, <3>2
  <2>2. store' = [store EXCEPT !.graph = staged[p][f]]
    BY <1>1, <1>10
  <2>3. /\ store'.feedback = store.feedback /\ store'.calibration = store.calibration
        /\ store'.receipts = store.receipts /\ store'.graph = staged[p][f]
        /\ store' \in [feedback : Feedbacks, calibration : Calibrations,
                       receipts : Ledgers, graph : Graph]
    BY <1>6, <2>1, <2>2
  <2>4. TypeOK'
    BY <1>5, <2>1, <2>3 DEF TypeOK
  <2>5. Grows
    BY <2>1, <2>3 DEF Grows
  <2>6. job[p] # None => Has(f, r)'
    BY <1>10, <2>1, <2>3 DEF Has
  <2>7. QED
    BY <2>4, <2>5, <2>6
<1>11. QED
  BY <1>3, <1>7, <1>8, <1>9, <1>10 DEF Outputs

LEMMA ReplaceStep ==
  ASSUME IInv, NEW p \in Processes, Replace(p), OneAtATime
  PROVE  IInv'
<1>0. PICK f, r, o : f = First(todo[p]) /\ r = job[p][1] /\ o = job[p][2]
  OBVIOUS
<1>1. /\ todo[p] # {} /\ staged[p][f] # None
      /\ store' = [store EXCEPT ![f] = staged[p][f]]
      /\ staged' = [staged EXCEPT ![p][f] = None]
      /\ todo' = [todo EXCEPT ![p] = @ \ {f}]
      /\ todo[p] = {f} => job' = [job EXCEPT ![p] = None] /\ done' = done \cup ({job[p]} \ {None})
      /\ todo[p] # {f} => UNCHANGED <<job, done>>
      /\ UNCHANGED partial
  BY <1>0 DEF Replace
<1>2. TypeOK /\ Applying(p) /\ Enriching(p) /\ Staging(p) /\ DoneInv /\ AuditTrail
  BY DEF IInv, CommandInv
<1>3. /\ f \in todo[p] /\ f \in Outputs
      /\ f = "graph" => todo[p] = {"graph"}
      /\ f = "receipts" => "feedback" \notin todo[p] /\ "calibration" \notin todo[p]
  <2>1. todo[p] \in SUBSET Outputs
    BY <1>2 DEF TypeOK
  <2>2. QED
    BY <1>0, <1>1, <2>1, FirstOf
<1>4. TypeOK' /\ Grows /\ (job[p] # None => Has(f, r)')
  BY <1>0, Replaced
<1>5. \A g, q : Has(g, q) => Has(g, q)'
  BY <1>2, <1>4, HasStays
<1>6. \A q \in Processes : q = p
  BY DEF OneAtATime
<1>7. job[p] # None => r \in Reviews /\ o \in Requests /\ job[p] = <<r, o>>
  BY <1>0, <1>2 DEF TypeOK
<1>8. CommandInv'
  <2>1. /\ todo'[p] = todo[p] \ {f}
        /\ \A g \in Outputs : staged'[p][g] = IF g = f THEN None ELSE staged[p][g]
    BY <1>1, <1>2, <1>3 DEF TypeOK
  <2>2. CASE todo[p] = {f}
    <3>1. job'[p] = None /\ todo'[p] = {}
      BY <1>1, <1>2, <2>1, <2>2 DEF TypeOK
    <3>2. \A g \in Outputs : staged'[p][g] = None
      BY <1>2, <2>1, <2>2 DEF Staging
    <3>3. Applying(p)' /\ Enriching(p)' /\ Staging(p)'
      BY <1>0, <3>1, <3>2 DEF Applying, Enriching, Staging
    <3>4. QED
      BY <1>6, <3>3 DEF CommandInv
  <2>3. CASE todo[p] # {f}
    <3>1. job' = job /\ f # "graph" /\ todo'[p] # {} /\ job[p] # None
      BY <1>1, <1>2, <1>3, <2>1, <2>3 DEF Enriching
    <3>2. \A g \in Outputs : g # f => store'[g] = store[g]
      BY <1>1, <1>2 DEF TypeOK, Outputs
    <3>3. \A g \in Outputs : g # f => Pending(g, r)' = Pending(g, r)
      <4>1. GraphWith(r)' = GraphWith(r)
        BY <3>1, <3>2 DEF GraphWith, Outputs
      <4>2. \A g \in {"feedback", "calibration", "receipts"} : g # f => Contents(g, r)' = Contents(g, r)
        BY <3>2 DEF Contents, Outputs
      <4>3. QED
        BY <4>1, <4>2 DEF Pending, Outputs
    <3>4. Applying(p)'
      <4>1. todo'[p] # {} /\ todo'[p] \subseteq o
        BY <1>0, <1>2, <2>1, <3>1 DEF Applying
      <4>2. o # Outputs => r \in partial'
        BY <1>0, <1>1, <1>2, <3>1 DEF Applying
      <4>3. \A g \in o \ todo'[p] : Has(g, r)'
        BY <1>0, <1>2, <1>4, <1>5, <2>1, <3>1 DEF Applying
      <4>4. \A g \in Outputs : staged'[p][g] # None => staged'[p][g] = Pending(g, r)'
        BY <1>0, <1>2, <2>1, <3>1, <3>3 DEF Applying
      <4>5. QED
        BY <1>0, <3>1, <4>1, <4>2, <4>3, <4>4 DEF Applying
    <3>5. Enriching(p)' /\ Staging(p)'
      BY <1>2, <2>1, <3>1 DEF Enriching, Staging, Outputs
    <3>6. QED
      BY <1>6, <3>4, <3>5 DEF CommandInv
  <2>4. QED
    BY <2>2, <2>3
<1>9. DoneInv'
  <2>1. ASSUME NEW j \in done', NEW g \in j[2]
        PROVE  Has(g, j[1])'
    <3>1. CASE j \in done
      BY <1>2, <1>5, <3>1 DEF DoneInv
    <3>2. CASE j \notin done
      <4>1. todo[p] = {f} /\ j = job[p] /\ job[p] # None
        BY <1>1, <2>1, <3>2
      <4>2. g = f \/ Has(g, r)
        BY <1>0, <1>2, <4>1, <2>1 DEF Applying
      <4>3. QED
        BY <1>0, <1>4, <1>5, <4>1, <4>2
    <3>3. QED
      BY <3>1, <3>2
  <2>2. QED
    BY <2>1 DEF DoneInv
<1>10. AuditTrail'
  <2>1. ASSUME NEW e \in store'.graph.evidence
        PROVE  \/ \E g \in Additions : e \in g.evidence
               \/ \E q \in Reviews : e \in NewEvidence(q) /\ (q \in partial' \/ HasReceipts(q)')
    <3>1. CASE e \in store.graph.evidence
      <4>1. \A q : HasReceipts(q) => HasReceipts(q)'
        BY <1>4 DEF HasReceipts, Grows
      <4>2. QED
        BY <1>1, <1>2, <3>1, <4>1 DEF AuditTrail
    <3>2. CASE e \notin store.graph.evidence
      <4>1. f = "graph"
        BY <1>1, <1>2, <1>3, <2>1, <3>2 DEF TypeOK, Outputs
      <4>2. e \in staged[p]["graph"].evidence
        BY <1>1, <1>2, <2>1, <4>1 DEF TypeOK
      <4>3. CASE job[p] = None
        <5>1. PICK g \in Additions : staged[p]["graph"] = Grown(store.graph, g.nodes, g.evidence)
          BY <1>2, <1>3, <4>1, <4>3 DEF Enriching
        <5>2. e \in g.evidence
          BY <3>2, <4>2, <5>1 DEF Grown
        <5>3. QED
          BY <5>2
      <4>4. CASE job[p] # None
        <5>1. staged[p]["graph"] = GraphWith(r)
          BY <1>0, <1>1, <1>2, <1>3, <4>1, <4>4 DEF Applying, Pending
        <5>2. e \in NewEvidence(r)
          BY <3>2, <4>2, <5>1 DEF GraphWith, Grown
        <5>3. r \in partial \/ Has("receipts", r)
          <6>1. CASE o # Outputs
            BY <1>0, <1>2, <4>4, <6>1 DEF Applying
          <6>2. CASE o = Outputs
            <7>1. "receipts" \in o \ todo[p]
              BY <1>3, <4>1, <6>2 DEF Outputs
            <7>2. QED
              BY <1>0, <1>2, <4>4, <7>1 DEF Applying
          <6>3. QED
            BY <6>1, <6>2
        <5>4. r \in partial' \/ HasReceipts(r)'
          BY <1>1, <1>5, <5>3 DEF Has
        <5>5. QED
          BY <1>7, <4>4, <5>2, <5>4
      <4>5. QED
        BY <4>3, <4>4
    <3>3. QED
      BY <3>1, <3>2
  <2>2. ASSUME NEW q \in Reviews \ partial', Receipts(q) \cap store'.receipts # {}
        PROVE  HasFeedback(q)' /\ HasCalibration(q)'
    <3>1. \A s : HasFeedback(s) /\ HasCalibration(s) => HasFeedback(s)' /\ HasCalibration(s)'
      <4>1. ASSUME NEW s, HasFeedback(s), HasCalibration(s)
            PROVE  HasFeedback(s)' /\ HasCalibration(s)'
        <5>1. Has("feedback", s) /\ Has("calibration", s)
          BY <4>1 DEF Has
        <5>2. QED
          BY <1>5, <5>1 DEF Has
      <4>2. QED
        BY <4>1
    <3>2. CASE Receipts(q) \cap store.receipts # {}
      BY <1>1, <1>2, <2>2, <3>1, <3>2 DEF AuditTrail
    <3>3. CASE Receipts(q) \cap store.receipts = {}
      <4>1. PICK x \in Receipts(q) : x \in store'.receipts /\ x \notin store.receipts
        BY <2>2, <3>3
      <4>2. f = "receipts"
        BY <1>1, <1>2, <1>3, <4>1 DEF TypeOK, Outputs
      <4>3. job[p] # None
        BY <1>2, <1>3, <4>2 DEF Enriching
      <4>4. x \in store.receipts \cup Receipts(r)
        <5>1. staged[p][f] = store.receipts \cup Receipts(r)
          BY <1>0, <1>1, <1>2, <1>3, <4>2, <4>3 DEF Applying, Pending, Contents
        <5>2. QED
          BY <1>1, <1>2, <4>1, <4>2, <5>1 DEF TypeOK
      <4>5. q = r
        BY <4>1, <4>4 DEF Receipts
      <4>6. o = Outputs
        BY <1>0, <1>1, <1>2, <2>2, <4>3, <4>5 DEF Applying
      <4>7. "feedback" \in o \ todo[p] /\ "calibration" \in o \ todo[p]
        BY <1>3, <4>2, <4>6 DEF Outputs
      <4>8. Has("feedback", r) /\ Has("calibration", r)
        BY <1>0, <1>2, <4>3, <4>7 DEF Applying
      <4>9. QED
        BY <3>1, <4>5, <4>8 DEF Has
    <3>4. QED
      BY <3>2, <3>3
  <2>3. QED
    BY <2>1, <2>2 DEF AuditTrail
<1>11. QED
  BY <1>4, <1>8, <1>9, <1>10 DEF IInv

-----------------------------------------------------------------------------
(* The theorems *)

LEMMA Stutter == IInv /\ UNCHANGED vars => IInv'
<1> SUFFICES ASSUME IInv, UNCHANGED vars
             PROVE  IInv'
  OBVIOUS
<1>1. UNCHANGED <<store, job, todo, staged, partial, done>>
  BY DEF vars
<1>2. TypeOK'
  BY <1>1 DEF IInv, TypeOK
<1>3. DoneInv' /\ AuditTrail'
  BY <1>1, FilesAlone
<1>4. \A f, r : Has(f, r)' = Has(f, r) /\ Pending(f, r)' = Pending(f, r)
  BY <1>1 DEF Has, HasFeedback, HasCalibration, HasReceipts, Pending, Contents, GraphWith
<1>5. ASSUME NEW p \in Processes
      PROVE  Applying(p)' /\ Enriching(p)' /\ Staging(p)'
  <2>1. Applying(p) /\ Enriching(p) /\ Staging(p)
    BY DEF IInv, CommandInv
  <2>2. Applying(p)'
    BY <1>1, <1>4, <2>1 DEF Applying
  <2>3. Enriching(p)' /\ Staging(p)'
    BY <1>1, <2>1 DEF Enriching, Staging
  <2>4. QED
    BY <2>2, <2>3
<1>6. QED
  BY <1>2, <1>3, <1>5 DEF IInv, CommandInv

\* The inductive invariant: a command has written what it need not write any
\* more, and what it has read of the rest is still true.
THEOREM Inductive == OneAtATime => (Spec => []IInv)
<1> SUFFICES ASSUME OneAtATime
             PROVE  Spec => []IInv
  OBVIOUS
<1>1. IInv /\ [Next]_vars => IInv'
  BY BeginStep, EnrichStep, ReadStep, ReplaceStep, StopStep, Stutter DEF Next
<1>2. QED
  BY Initially, <1>1, PTL DEF Spec

\* Everything an application decided is in the files it was asked to update
\* once it has come to its end, and stays there.
THEOREM CompletedStays == OneAtATime => (Spec => []CompletedIsComplete)
<1> SUFFICES ASSUME OneAtATime
             PROVE  Spec => []CompletedIsComplete
  OBVIOUS
<1>1. IInv => CompletedIsComplete
  BY DEF IInv, DoneInv, Has, CompletedIsComplete
<1>2. QED
  BY Inductive, <1>1, PTL

\* The receipts are an audit of what was done, wherever an application died.
THEOREM ReceiptsAudit == OneAtATime => (Spec => []AuditTrail)
<1> SUFFICES ASSUME OneAtATime
             PROVE  Spec => []AuditTrail
  OBVIOUS
<1>1. IInv => AuditTrail
  BY DEF IInv
<1>2. QED
  BY Inductive, <1>1, PTL

=============================================================================
