---------------------------- MODULE LineageGraph ----------------------------
(***************************************************************************)
(* The lineage graph (lineage.rs): documents, edges from a source to what  *)
(* descends from it, the evidence on an edge, and what is asked of a       *)
(* graph.                                                                  *)
(*                                                                         *)
(* An edge is known by its ends and its relation.  Scores and confidences  *)
(* are exact fractions, where the code rounds to 32 bits; a time that may  *)
(* be missing is a set of at most one; of a node's title and metadata      *)
(* there remains one label, of an edge's metadata nothing.                 *)
(*                                                                         *)
(* A result of a search is [path, method, score, edit, query, source,      *)
(* tokens, chance, place]: place stands for its spans, chance for the      *)
(* false matches that are expected.                                        *)
(***************************************************************************)
EXTENDS Basics

CONSTANTS
    IdOf(_),       \* where the id of an edge, a hash, stands among the ids: a tuple
    MethodOrder    \* the methods of evidence in the order of the alphabet

Missing == 1000000
ObservedAt(node) == IF node.observed = {} THEN Missing ELSE CHOOSE t \in node.observed : TRUE
-----------------------------------------------------------------------------
(* Evidence and edges.                                                     *)

HarmonicMean(a, b) ==
    IF Zero \in {a, b} THEN Zero ELSE Over(Times(Exact(2), Times(a, b)), Plus(a, b))
Strength(e) ==
    Plus(Plus(Times(Ratio(45, 100), e.score), Times(Ratio(25, 100), e.edit)),
         Plus(Times(Ratio(20, 100), HarmonicMean(e.query, e.source)),
              Times(Ratio(10, 100), Ratio(1, 1 + e.chance))))
FromResult(result, time) ==
    [method |-> result.method, score |-> result.score, edit |-> result.edit,
     query |-> result.query, source |-> result.source, tokens |-> result.tokens,
     chance |-> result.chance, place |-> result.place, detected |-> time]
AggregateConfidence(evidence) ==
    Minus(One, FoldLeft(LAMBDA miss, e : Times(miss, Minus(One, Strength(e))), One, evidence))
NewEdge(e) == [evidence |-> <<e>>, confidence |-> Strength(e)]
ByTimeAndStrength(evidence) ==
    LET strengths == {Strength(e) : e \in evidence}
        method(e) == CHOOSE i \in DOMAIN MethodOrder : MethodOrder[i] = e.method
    IN  Ordered(evidence, LAMBDA e : <<e.detected, method(e), Above(Strength(e), strengths)>>)
\* Mutation: what is known already is added once more.
MergeAgain(edge, e) ==
    LET evidence == Append(edge.evidence, e)
    IN  [evidence |-> evidence, confidence |-> AggregateConfidence(evidence)]
MergeEvidence(edge, e) ==
    LET evidence == ByTimeAndStrength(Range(edge.evidence) \cup {e})
    IN  IF e \in Range(edge.evidence) THEN edge
        ELSE [evidence |-> evidence, confidence |-> AggregateConfidence(evidence)]
-----------------------------------------------------------------------------
(* Graphs.  The key of an edge is <<source, target, relation>>.            *)

EmptyGraph == [nodes |-> <<>>, edges |-> <<>>]
Keys(g) == DOMAIN g.edges
Holds(g, key) == {key[1], key[2]} \subseteq DOMAIN g.nodes /\ key[1] # key[2]
ValidGraph(g) == \A key \in Keys(g) : Holds(g, key) /\ g.edges[key].evidence # <<>>
UpsertNode(g, id, node) == [g EXCEPT !.nodes = (id :> node) @@ @]
UpsertEdge(g, key, edge) ==
    [g EXCEPT !.edges =
        IF key \in Keys(g)
        THEN [@ EXCEPT ![key] = FoldLeft(MergeEvidence, @, edge.evidence)]
        ELSE (key :> edge) @@ @]
MergeGraphs(g, other) ==
    FoldSet(LAMBDA key, graph : UpsertEdge(graph, key, other.edges[key]),
            [g EXCEPT !.nodes = other.nodes @@ @], Keys(other))
-----------------------------------------------------------------------------
(* Questions.                                                              *)

Confident(g, minimum) == {key \in Keys(g) : ~Less(g.edges[key].confidence, minimum)}
Neighbours(keys, members) ==
    {key[2] : key \in {k \in keys : k[1] \in members}}
    \cup {key[1] : key \in {k \in keys : k[2] \in members}}
RECURSIVE ConnectedWith(_, _)
ConnectedWith(keys, members) ==
    LET more == Neighbours(keys, members) \ members
    IN  IF more = {} THEN members ELSE ConnectedWith(keys, members \cup more)
ConnectedComponent(g, id, minimum) == ConnectedWith(Confident(g, minimum), {id})

Incoming(g, id, members) == {key \in Keys(g) : key[2] = id /\ key[1] \in members}
Outgoing(g, id, members) == {key \in Keys(g) : key[1] = id /\ key[2] \in members}
CanonicalOriginFrom(g, members) ==
    Ordered(members, LAMBDA id :
        <<Cardinality(Incoming(g, id, members)), ObservedAt(g.nodes[id]),
          -Cardinality(Outgoing(g, id, members)), id>>)[1]
CanonicalOrigin(g, id) == CanonicalOriginFrom(g, ConnectedComponent(g, id, Zero))
Families(g, minimum) ==
    LET of(members) ==
            [canonical |-> CanonicalOriginFrom(g, members), members |-> members,
             edges |-> Cardinality({key \in Confident(g, minimum) :
                                       {key[1], key[2]} \subseteq members})]
    IN  Ordered({of(ConnectedComponent(g, id, minimum)) : id \in DOMAIN g.nodes},
                LAMBDA f : <<-Cardinality(f.members), f.canonical>>)
Summary(g) ==
    [nodes |-> Cardinality(DOMAIN g.nodes), edges |-> Cardinality(Keys(g)),
     evidence |-> MapThenSumSet(LAMBDA key : Len(g.edges[key].evidence), Keys(g)),
     roots |-> Cardinality({id \in DOMAIN g.nodes : \A key \in Keys(g) : key[2] # id}),
     leaves |-> Cardinality({id \in DOMAIN g.nodes : \A key \in Keys(g) : key[1] # id})]

\* Breadth first; of the edges to a node the one with the smallest id counts.
From(key, direction) == IF direction = "ancestors" THEN key[2] ELSE key[1]
To(key, direction) == IF direction = "ancestors" THEN key[1] ELSE key[2]
Weaker(x, y) == IF Less(y, x) THEN y ELSE x
Steps(g, visit, seen, direction) ==
    LET fresh == {key \in Keys(g) : From(key, direction) = visit.node
                                       /\ To(key, direction) \notin seen}
        first == {key \in fresh : \A other \in fresh :
                     To(other, direction) = To(key, direction)
                        => ~Precedes(IdOf(other), IdOf(key))}
        step(key) == [node |-> To(key, direction), depth |-> visit.depth + 1,
                      confidence |-> Weaker(visit.confidence, g.edges[key].confidence),
                      via |-> key]
    IN  MappedSeq(Ordered(first, IdOf), step)
RECURSIVE Walk(_, _, _, _, _)
Walk(g, queue, visits, depth, direction) ==
    IF queue = <<>> THEN Tail(visits)
    ELSE LET seen == {v.node : v \in Range(visits)}
             more == IF Head(queue).depth >= depth THEN <<>>
                     ELSE Steps(g, Head(queue), seen, direction)
         IN  Walk(g, Tail(queue) \o more, visits \o more, depth, direction)
Traverse(g, id, depth, direction) ==
    LET start == <<[node |-> id, depth |-> 0, confidence |-> One, via |-> <<>>]>>
        visits == Range(Walk(g, start, start, depth, direction))
    IN  Ordered(visits, LAMBDA v :
            <<v.depth, Above(v.confidence, {x.confidence : x \in visits}), v.node>>)
=============================================================================
