------------------------------- MODULE Basics -------------------------------
(***************************************************************************)
(* Numbers, tuples and sequences as the other modules use them: arithmetic *)
(* that stops at zero, exact fractions, the lexicographic order, sets in   *)
(* the order of keys.                                                      *)
(***************************************************************************)
EXTENDS Integers, Sequences, FiniteSets, FiniteSetsExt, SequencesExt

Abs(n) == IF n < 0 THEN -n ELSE n
Larger(a, b) == IF a >= b THEN a ELSE b
Smaller(a, b) == IF a =< b THEN a ELSE b
Monus(a, b) == Larger(a - b, 0)
Percent(part, whole) == Smaller(100, (100 * part) \div Larger(whole, 1))

\* Fractions <<n, d>> in lowest terms, with d > 0.
Divisor(a, b) ==
    LET greatest[m \in Nat, n \in Nat] == IF n = 0 THEN m ELSE greatest[n, m % n] IN greatest[a, b]
Ratio(n, d) ==
    LET g == Divisor(Abs(n), Abs(d)) * (IF d < 0 THEN -1 ELSE 1) IN <<n \div g, d \div g>>
Exact(n) == <<n, 1>>
Zero == Exact(0)
One == Exact(1)
Plus(x, y) == Ratio(x[1] * y[2] + y[1] * x[2], x[2] * y[2])
Minus(x, y) == Plus(x, <<-y[1], y[2]>>)
Times(x, y) == Ratio(x[1] * y[1], x[2] * y[2])
Over(x, y) == Ratio(x[1] * y[2], x[2] * y[1])
Magnitude(x) == <<Abs(x[1]), x[2]>>
Less(x, y) == x[1] * y[2] < y[1] * x[2]
Clamped(x, low, high) == IF Less(x, low) THEN low ELSE IF Less(high, x) THEN high ELSE x
\* How many of some fractions are greater.
Above(x, S) == Cardinality({y \in S : Less(x, y)})

Refused == [accepted |-> FALSE]
Accepted(value) == [accepted |-> TRUE, value |-> value]

CountUp(n) == [i \in 1..n |-> i]
Take(s, n) == SubSeq(s, 1, Smaller(n, Len(s)))
Truncate(s, n) == Take(s, n)
MappedSeq(s, Op(_)) == [i \in DOMAIN s |-> Op(s[i])]
\* What is at some places of a sequence, and what passes a test: SelectSeq, for
\* the definitions that are proved about.
AtPlaces(s, places) ==
    LET out[i \in 0..Len(s)] ==
            IF i = 0 THEN <<>> ELSE IF i \in places THEN Append(out[i - 1], s[i]) ELSE out[i - 1]
    IN  out[Len(s)]
Filtered(s, Test(_)) == AtPlaces(s, {i \in DOMAIN s : Test(s[i])})
Ascending(S) == [k \in 1..Cardinality(S) |-> CHOOSE x \in S : Cardinality({y \in S : y < x}) = k - 1]
Concat(seqs) == FoldLeft(LAMBDA a, b : a \o b, <<>>, seqs)

\* a precedes b in the lexicographic order of integer tuples of one length.
Precedes(a, b) ==
    \E k \in DOMAIN a : a[k] < b[k] /\ \A j \in 1..(k - 1) : a[j] = b[j]
\* A set in the order of its elements' keys.
OrderedBy(S, key) ==
    LET first(T) == CHOOSE x \in T : \A y \in T : ~Precedes(key[y], key[x])
    IN  FoldLeft(LAMBDA s, i : Append(s, first(S \ Range(s))), <<>>, CountUp(Cardinality(S)))
Ordered(S, Key(_)) == OrderedBy(S, [x \in S |-> Key(x)])
=============================================================================
