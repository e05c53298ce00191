---------------------------- MODULE DocumentStore ----------------------------
(***************************************************************************)
(* What a segmented index promises its users, with the segment files, the  *)
(* manifest, the lock and the processes left out: one history of documents *)
(* that is only ever changed by whole batches.  A document's identifier is *)
(* its position in the history.                                            *)
(*                                                                         *)
(* SegmentedIndex implements this specification: its refinement mapping    *)
(* computes the history from what is on disk.                              *)
(***************************************************************************)
EXTENDS Naturals, Sequences

CONSTANTS Paths,      \* document paths
          Texts,      \* normalized document contents
          MaxBatch,   \* largest batch one append may carry
          NoStore,    \* the store before it is created
          Gone        \* what is left of the contents of a deleted document

VARIABLE store        \* NoStore, or the history of documents

Stored(h) == [path : Paths, text : h]
LivePaths == {store[i].path : i \in {j \in DOMAIN store : store[j].text # Gone}}

Init == store = NoStore

Create ==
  /\ store = NoStore
  /\ store' = << >>

\* The batch becomes visible as a whole and at the end of the history; none of
\* its paths is the path of a live document, and none occurs in it twice.
Add ==
  /\ store # NoStore
  /\ \E n \in 1 .. MaxBatch : \E batch \in [1 .. n -> Stored(Texts)] :
       /\ \A i \in 1 .. n : batch[i].path \notin LivePaths
       /\ \A i, j \in 1 .. n : batch[i].path = batch[j].path => i = j
       /\ store' = store \o batch

\* All live documents under the requested paths go at once, and for good.
Remove ==
  /\ store # NoStore
  /\ \E requested \in SUBSET LivePaths :
       /\ requested # {}
       /\ store' = [i \in DOMAIN store |->
                      IF store[i].path \in requested
                      THEN [store[i] EXCEPT !.text = Gone]
                      ELSE store[i]]

Next == Create \/ Add \/ Remove

Spec == Init /\ [][Next]_store
=============================================================================
