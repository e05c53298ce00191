-------------------------- MODULE MCExperimentLedger --------------------------
(***************************************************************************)
(* Small instances of ExperimentLedger for TLC.                            *)
(***************************************************************************)
EXTENDS ExperimentLedger, TLC

Method(name, macro, p95) ==
  [name |-> name, macro |-> macro, micro |-> macro, recall |-> macro, p95 |-> p95]
Report(corpus, methods) == [corpus |-> corpus, methods |-> methods]
Run(id, report, method, profile) ==
  [run_id |-> id, report |-> report, method |-> method, profile |-> profile]

\* Runs of two corpora; one run identifier is used twice, and the records of
\* the first corpus can improve, get slower, get worse and have no profile.
\* One method is not in the report, another has a score above 1.
Sec  == Report("sec", {Method("a", 1, 0), Method("b", 2, 10), [Method("c", 2, 5) EXCEPT !.micro = 1]})
Pan  == Report("pan", {Method("a", 2, 0), Method("b", 4, 0)})
SomeRecordings ==
  {Run(1, Sec, "a", TRUE), Run(1, Pan, "a", TRUE), Run(2, Sec, "b", TRUE), Run(3, Sec, "c", TRUE),
   Run(4, Pan, "b", TRUE), Run(5, Pan, "c", TRUE), Run(6, Sec, "b", FALSE)}
Asked(corpus, method, macro, p95) ==
  [corpus |-> corpus, method |-> method, macro |-> macro, micro |-> 0, recall |-> 0, p95 |-> p95]
SomeSelections ==
  {Asked("sec", None, 0, None), Asked("sec", "a", 1, None), Asked("sec", None, 2, 9),
   Asked("pan", None, 0, None), Asked("pan", None, 4, None)}
Losses == [delta |-> 0, micro |-> 1, recall |-> 1, p95 |-> 100]

Symmetry == Permutations(Processes)
=============================================================================
