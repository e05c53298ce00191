----------------------------- MODULE MCReviewLoop -----------------------------
(***************************************************************************)
(* Small instances of ReviewLoop for TLC.                                  *)
(***************************************************************************)
EXTENDS ReviewLoop

Hit(s, e, strong)     == [start |-> s, end |-> e, strong |-> strong]
Decide(c, kind, hits) == [candidate |-> c, kind |-> kind, results |-> hits]

\* The same candidate is accepted twice, from searches whose hits end in
\* different places, and rejected for another target, with a second candidate
\* that is corrected.
SomeReviews ==
  {[target |-> "t", time |-> 1, decisions |->
      {Decide("a", "accept", <<Hit(1, 1, TRUE), Hit(2, 1, FALSE)>>)}],
   [target |-> "t", time |-> 2, decisions |->
      {Decide("a", "accept", <<Hit(1, 2, TRUE)>>), Decide("b", "uncertain", <<Hit(1, 1, TRUE)>>)}],
   [target |-> "u", time |-> 3, decisions |->
      {Decide("a", "reject", <<Hit(1, 1, TRUE)>>), Decide("b", "correct_source", <<Hit(1, 1, TRUE)>>)}]}

\* All files, and two of them.
SomeRequests == {Outputs, {"feedback", "graph"}}

SomeAdditions ==
  {[nodes |-> {"a", "b"}, evidence |->
      {[source |-> "b", target |-> "a", result |-> Hit(1, 1, TRUE), time |-> 0]}]}
=============================================================================
