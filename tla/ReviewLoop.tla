------------------------------ MODULE ReviewLoop ------------------------------
(***************************************************************************)
(* fo-review-apply: the decisions a reviewer made about the results of a   *)
(* search are merged into four files, ranking feedback, calibration        *)
(* feedback, a ledger of receipts and the lineage graph, which are read    *)
(* and replaced one after another without a lock.  fo-lineage adds to the  *)
(* graph as well.                                                          *)
(*                                                                         *)
(* Abstractions.  A review is a results file with a decisions file, which  *)
(* the receipts identify by their digests.  Of a localized result there    *)
(* remain where it starts, in corpus and query, where it ends, and whether *)
(* it meets the lineage thresholds; of a file of feedback, for each value  *)
(* of the sort key the run of records that share it, each given by its     *)
(* end.  Of the graph there remain its nodes, without the titles and       *)
(* metadata that the last command to name one sets, and the evidence on    *)
(* its edges; of a receipt, whose it is.  A missing file reads as an empty *)
(* one.  A result's path is the identifier of its candidate, as in raw and *)
(* composite reports.  Reviews the command refuses, and dry runs, change   *)
(* nothing; that fo-lineage init empties a graph on purpose is left out.   *)
(***************************************************************************)
EXTENDS Naturals, Sequences, SequencesExt

CONSTANTS Processes,  \* running commands
          Documents,  \* targets and candidates
          Starts,     \* where localized results start
          Ends,       \* where they end
          Reviews,    \* the reviews there may be
          Requests,   \* the sets of outputs a command is asked for
          Additions,  \* graphs fo-lineage ingests or merges
          MaxRun,     \* the length at which a run of records stops (bound)
          None        \* absent

Result    == [start : Starts, end : Ends, strong : BOOLEAN]
Kinds     == {"accept", "reject", "correct_source", "uncertain", "unreviewed"}
Decision  == [candidate : Documents, kind : Kinds, results : Seq(Result)]
Evidence  == [source : Documents, target : Documents, result : Result, time : Nat]
Graph     == [nodes : SUBSET Documents, evidence : SUBSET Evidence]
Outputs   == {"feedback", "calibration", "receipts", "graph"}

\* validate_review_decisions, of one target: candidates are distinct from it and
\* from each other.
ASSUME ReviewsAssumption ==
  \A r \in Reviews :
    /\ DOMAIN r = {"target", "time", "decisions"}
    /\ r.target \in Documents /\ r.time \in Nat
    /\ \A d \in r.decisions : d \in Decision /\ d.candidate # r.target
    /\ \A d, e \in r.decisions : d.candidate = e.candidate => d = e

ASSUME RequestsAssumption ==
  /\ \A o \in Requests : o \subseteq Outputs /\ o # {}
  /\ \A g \in Additions : /\ g.nodes \subseteq Documents
                          /\ \A e \in g.evidence : /\ e \in Evidence
                                                   /\ {e.source, e.target} \subseteq g.nodes
  /\ MaxRun \in Nat

\* None is neither a job nor a graph.
ASSUME NoneAssumption == None \notin Reviews \X Requests /\ None \notin Graph

VARIABLES
  store,   \* the four files
  job,     \* the review a process applies with the outputs asked for, or None
  todo,    \* the files it has still to replace
  staged,  \* what it will replace them with, as far as it knows
  partial, \* history: the reviews that were applied to fewer than all files
  done     \* history: the jobs whose process came to its end

vars == <<store, job, todo, staged, partial, done>>

-----------------------------------------------------------------------------
(* What a review adds to each file *)

Feedback     == [query : Documents, path : Documents, start : Starts, label : BOOLEAN]
Calibration  == [path : Documents, start : Starts, label : BOOLEAN]
EmptyGraph   == [nodes |-> {}, evidence |-> {}]

\* correct_source is negative feedback on the candidate; undecided is none.
Labels(d) ==
  CASE d.kind = "accept" -> {TRUE}
    [] d.kind \in {"reject", "correct_source"} -> {FALSE}
    [] OTHER -> {}

\* The elements of a sequence at some of its positions, in order.
Picked(s, at) ==
  LET upto[i \in 0..Len(s)] ==
        IF i = 0 THEN << >>
        ELSE IF i \in at THEN Append(upto[i - 1], s[i]) ELSE upto[i - 1]
  IN  upto[Len(s)]

\* The ends of the results of r that a record with this path, start and label
\* stands for, in the order of the results.
NewRun(r, path, start, label) ==
  LET ds == {d \in r.decisions : d.candidate = path /\ label \in Labels(d)}
  IN  IF ds = {} THEN << >>
      ELSE LET d    == CHOOSE d \in ds : TRUE
               here == Picked(d.results, {i \in DOMAIN d.results : d.results[i].start = start})
           IN  [i \in DOMAIN here |-> here[i].end]

NewFeedback(r) ==
  [k \in Feedback |-> IF k.query = r.target THEN NewRun(r, k.path, k.start, k.label)
                                            ELSE << >>]

NewCalibration(r) == [k \in Calibration |-> NewRun(r, k.path, k.start, k.label)]

Receipts(r) == {<<r, d.candidate>> : d \in r.decisions}

AcceptedIn(r) == {d \in r.decisions : d.kind = "accept"}

NewEvidence(r) ==
  UNION {{[source |-> d.candidate, target |-> r.target, result |-> x, time |-> r.time] :
            x \in {y \in ToSet(d.results) : y.strong}} : d \in AcceptedIn(r)}

\* dedup_by compares neighbours.
Dedup(run) == Picked(run, {i \in DOMAIN run : i = 1 \/ run[i] # run[i - 1]})

\* Mutation: of the records that sort alike the new ones are kept.
MergedByKey(file, new) ==
  [k \in DOMAIN file |-> IF new[k] = << >> THEN file[k] ELSE Dedup(new[k])]

\* merge_feedback, merge_calibration: extend, sort, dedup.  The sort leaves
\* records with the same key in their order, as sort_unstable_by does with up
\* to twenty records; longer files may end up in any order within a run.
Merged(file, new) == [k \in DOMAIN file |-> Dedup(file[k] \o new[k])]

Contents(f, r) ==
  CASE f = "feedback"    -> Merged(store.feedback, NewFeedback(r))
    [] f = "calibration" -> Merged(store.calibration, NewCalibration(r))
    [] f = "receipts"    -> store.receipts \cup Receipts(r)

\* upsert_node, upsert_edge and merge_evidence: a union by identity.
Grown(g, nodes, evidence) ==
  [nodes |-> g.nodes \cup nodes, evidence |-> g.evidence \cup evidence]

GraphWith(r) ==
  Grown(store.graph, {r.target} \cup {d.candidate : d \in AcceptedIn(r)}, NewEvidence(r))

-----------------------------------------------------------------------------
(* The commands *)

\* Mutation: the receipts come first.
ReceiptsFirst == <<"receipts", "feedback", "calibration", "graph">>

Order == <<"feedback", "calibration", "receipts", "graph">>

\* The first of some files in that order.
First(files) ==
  LET i == CHOOSE i \in DOMAIN Order :
             Order[i] \in files /\ \A j \in DOMAIN Order : Order[j] \in files => i <= j
  IN  Order[i]

Unknown == [f \in Outputs |-> None]

Init ==
  /\ store = [feedback    |-> [k \in Feedback |-> << >>],
              calibration |-> [k \in Calibration |-> << >>],
              receipts    |-> {},
              graph       |-> EmptyGraph]
  /\ job = [p \in Processes |-> None]
  /\ todo = [p \in Processes |-> {}]
  /\ staged = [p \in Processes |-> Unknown]
  /\ partial = {}
  /\ done = {}

\* Whether every run may still grow (bound).
Bounded ==
  /\ \A k \in Feedback : Len(store.feedback[k]) < MaxRun
  /\ \A k \in Calibration : Len(store.calibration[k]) < MaxRun

\* fo-review-apply: the graph is read before anything is written.
Begin(p) ==
  /\ todo[p] = {}
  /\ Bounded
  /\ \E r \in Reviews, o \in Requests :
       /\ job' = [job EXCEPT ![p] = <<r, o>>]
       /\ todo' = [todo EXCEPT ![p] = o]
       /\ staged' = [staged EXCEPT ![p].graph = IF "graph" \in o THEN GraphWith(r) ELSE None]
       /\ partial' = IF o = Outputs THEN partial ELSE partial \cup {r}
  /\ UNCHANGED <<store, done>>

\* fo-lineage node, ingest and merge.
Enrich(p) ==
  /\ todo[p] = {}
  /\ \E g \in Additions :
       staged' = [staged EXCEPT ![p].graph = Grown(store.graph, g.nodes, g.evidence)]
  /\ todo' = [todo EXCEPT ![p] = {"graph"}]
  /\ UNCHANGED <<store, job, partial, done>>

\* A file is read, and what the review adds merged into it.
Read(p) ==
  /\ todo[p] # {}
  /\ LET f == First(todo[p])
     IN  /\ staged[p][f] = None
         /\ staged' = [staged EXCEPT ![p][f] = Contents(f, job[p][1])]
  /\ UNCHANGED <<store, job, todo, partial, done>>

\* atomic_write: the file is replaced; with the last one the command ends.
Replace(p) ==
  /\ todo[p] # {}
  /\ LET f == First(todo[p])
     IN  /\ staged[p][f] # None
         /\ store' = [store EXCEPT ![f] = staged[p][f]]
         /\ staged' = [staged EXCEPT ![p][f] = None]
         /\ todo' = [todo EXCEPT ![p] = @ \ {f}]
         /\ IF todo[p] = {f}
            THEN /\ job' = [job EXCEPT ![p] = None]
                 /\ done' = done \cup ({job[p]} \ {None})
            ELSE UNCHANGED <<job, done>>
  /\ UNCHANGED partial

\* A file cannot be read or replaced, or the process dies: what was replaced
\* stays replaced.
Stop(p) ==
  /\ todo[p] # {}
  /\ job' = [job EXCEPT ![p] = None]
  /\ todo' = [todo EXCEPT ![p] = {}]
  /\ staged' = [staged EXCEPT ![p] = Unknown]
  /\ UNCHANGED <<store, partial, done>>

Next == \E p \in Processes : Begin(p) \/ Enrich(p) \/ Read(p) \/ Replace(p) \/ Stop(p)

Spec == Init /\ [][Next]_vars

-----------------------------------------------------------------------------
(* Properties *)

Feedbacks    == [Feedback -> Seq(Ends)]
Calibrations == [Calibration -> Seq(Ends)]
Ledgers      == SUBSET (Reviews \X Documents)

TypeOK ==
  /\ store \in [feedback : Feedbacks, calibration : Calibrations,
               receipts : Ledgers, graph : Graph]
  /\ \A e \in store.graph.evidence : {e.source, e.target} \subseteq store.graph.nodes
  /\ job \in [Processes -> (Reviews \X Requests) \cup {None}]
  /\ todo \in [Processes -> SUBSET Outputs]
  /\ staged = [p \in Processes |-> [f \in Outputs |-> staged[p][f]]]
  /\ partial \subseteq Reviews
  /\ done \subseteq Reviews \X Requests

\* The records of a file of feedback hold all that a review adds to it.
Holds(file, new) == \A k \in DOMAIN file : ToSet(new[k]) \subseteq ToSet(file[k])

HasFeedback(r)    == Holds(store.feedback, NewFeedback(r))
HasCalibration(r) == Holds(store.calibration, NewCalibration(r))
HasReceipts(r)    == Receipts(r) \subseteq store.receipts

\* "One completed review can update four durable stores": once an application
\* has come to its end, everything it decided is in the files it was asked to
\* update, whatever applications before it left half done, and whatever later
\* ones, which may contradict it, add or leave half done.
CompletedIsComplete ==
  \A j \in done :
    /\ "feedback"    \in j[2] => HasFeedback(j[1])
    /\ "calibration" \in j[2] => HasCalibration(j[1])
    /\ "receipts"    \in j[2] => HasReceipts(j[1])
    /\ "graph"       \in j[2] => NewEvidence(j[1]) \subseteq store.graph.evidence

\* The receipts are an audit of what was done, wherever an application died: the
\* evidence of the graph comes from fo-lineage, from a review whose receipts are
\* all there, or from one that was applied to fewer files than all; and a review
\* that was always applied to all has a receipt only with all its feedback.
AuditTrail ==
  /\ \A e \in store.graph.evidence :
       \/ \E g \in Additions : e \in g.evidence
       \/ \E r \in Reviews : e \in NewEvidence(r) /\ (r \in partial \/ HasReceipts(r))
  /\ \A r \in Reviews \ partial :
       Receipts(r) \cap store.receipts # {} => HasFeedback(r) /\ HasCalibration(r)

=============================================================================
