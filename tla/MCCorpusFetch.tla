---------------------------- MODULE MCCorpusFetch ----------------------------
(***************************************************************************)
(* Small instances of CorpusFetch for TLC.                                 *)
(***************************************************************************)
EXTENDS CorpusFetch, TLC

\* Two texts of the same length.
SameLengths == [t \in Texts |-> 1]

\* All documents in order, and one of them.
SomeSelections == {<<"a", "b", "c">>, <<"b">>}
=============================================================================
