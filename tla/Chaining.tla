------------------------------ MODULE Chaining ------------------------------
(***************************************************************************)
(* Chaining of anchors (fo-core/src/chain.rs): of the q-grams a query and  *)
(* a document share near one diagonal, the heaviest sequence that advances *)
(* in both texts.  Weights are integers in hundredths; the logarithm of    *)
(* the gap penalty is replaced by a fraction that grows with the gap as it *)
(* does.                                                                   *)
(***************************************************************************)
EXTENDS Alignment

\* An anchor is a record [q, c, span, weight].
HeaviestFirst(a, b) == Precedes(<<-a.weight, a.q, a.c>>, <<-b.weight, b.q, b.c>>)
ByPosition(a, b) ==
    Precedes(<<a.q, a.c, a.span, -a.weight>>, <<b.q, b.c, b.span, -b.weight>>)

\* The usable anchors, the heaviest of them when there are too many, in the
\* order of the query, one for every place.
SamePlace(a, b) == a.q = b.q /\ a.c = b.c /\ a.span = b.span
Heaviest(usable, maximum) ==
    IF Len(usable) > maximum THEN Take(SortSeq(usable, HeaviestFirst), maximum) ELSE usable
Prepared(anchors, maximum) ==
    FoldLeft(LAMBDA s, a : IF s # <<>> /\ SamePlace(s[Len(s)], a) THEN s ELSE Append(s, a),
             <<>>,
             SortSeq(Heaviest(SelectSeq(anchors, LAMBDA a : a.weight > 0 /\ a.span > 0), maximum),
                     ByPosition))

GapPenalty(left, right, options) ==
    LET queryGap == right.q - left.q
        corpusGap == right.c - left.c
        long == Monus(Larger(queryGap, corpusGap), left.span)
    IN  Abs(queryGap - corpusGap) * options.driftPenalty
            + (options.gapPenalty * long) \div (32 + long)

Follows(left, right, maximumGap) ==
    /\ left.q < right.q /\ left.c < right.c
    /\ right.q - left.q =< maximumGap /\ right.c - left.c =< maximumGap

\* The best chain that ends at anchor i, from those that end before it.  The
\* predecessors are tried in order and only a strictly better one is taken.
Better(chain, other) == IF other.score > chain.score THEN other ELSE chain
BestEnding(a, best, i, options) ==
    LET extended(p) ==
            [score |-> best[p].score + a[i].weight - GapPenalty(a[p], a[i], options),
             indices |-> Append(best[p].indices, i)]
        tried == SelectSeq(CountUp(i - 1), LAMBDA p : p >= i - options.lookback
                                               /\ Follows(a[p], a[i], options.maximumGap))
    IN  FoldLeft(LAMBDA sofar, p : Better(sofar, extended(p)),
                 [score |-> a[i].weight, indices |-> <<i>>], tried)

\* Query tokens under some anchor of the chain.
Covered(chain) ==
    Cardinality(UNION {chain[i].q..(chain[i].q + chain[i].span - 1) : i \in DOMAIN chain})

Middle(sorted) == sorted[(Len(sorted) \div 2) + 1]
Median(numbers) == Middle(SortSeq(numbers, LAMBDA x, y : x < y))

NoChain == [anchors |-> <<>>, score |-> 0]
Chain(score, anchors) ==
    [anchors |-> anchors, score |-> score,
     queryStart |-> Head(anchors).q, queryEnd |-> Last(anchors).q + Last(anchors).span,
     corpusStart |-> Head(anchors).c, corpusEnd |-> Last(anchors).c + Last(anchors).span,
     covered |-> Covered(anchors),
     medianDiagonal |-> Median([k \in DOMAIN anchors |-> anchors[k].c - anchors[k].q])]

\* The best of the chains, the first of equal ones.
Best(chains) == FoldLeft(Better, Head(chains), Tail(chains))
BestChain(a, top) == Chain(top.score, [k \in DOMAIN top.indices |-> a[top.indices[k]]])
Chained(a, options) ==
    IF a = <<>> THEN NoChain
    ELSE BestChain(a, Best(FoldLeft(LAMBDA done, i : Append(done, BestEnding(a, done, i, options)),
                                    <<>>, CountUp(Len(a)))))

ChainAnchors(anchors, options) ==
    IF options.maximumAnchors = 0 \/ options.lookback = 0 THEN NoChain
    ELSE Chained(Prepared(anchors, options.maximumAnchors), options)
=============================================================================
