--------------------------- MODULE MCSegmentedIndex ---------------------------
(***************************************************************************)
(* Small instances of SegmentedIndex for TLC.                              *)
(***************************************************************************)
EXTENDS SegmentedIndex, TLC

\* Processes, paths and texts are interchangeable in every safety property.
Symmetry == Permutations(Handles) \cup Permutations(Paths) \cup Permutations(Texts)
=============================================================================
