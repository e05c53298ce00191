----------------------------- MODULE Alignment -----------------------------
(***************************************************************************)
(* Verification of a candidate span (fo-core/src/verify.rs): edit distance *)
(* of a pattern and the best matching stretch of a text, by Myers' bit     *)
(* vectors for patterns that fit a machine word and by a widening band for *)
(* longer ones.  Offsets of the text are 0..Len(text), as in the code.     *)
(***************************************************************************)
EXTENDS Basics

CONSTANTS WordBits,       \* width of a machine word (64)
          MinimumRadius   \* smallest half width of the band (8)

ASSUME AlignmentAssumption == WordBits \in Nat \ {0} /\ MinimumRadius \in Nat \ {0}

Infinite == 1000000

Cell(cost, start, touched) == [cost |-> cost, start |-> start, touched |-> touched]
InfiniteCell == Cell(Infinite, 0, TRUE)

AddCost(cell, amount, boundary) ==
    Cell(Smaller(cell.cost + amount, Infinite), cell.start, cell.touched \/ boundary)

\* Cheapest first, then nearest to the expected start, then of a length
\* nearest to the pattern's, then not pressed against the band.
AlignmentKey(cell, end, expected, m) ==
    <<cell.cost, Abs(cell.start - expected),
      Abs(Monus(end, cell.start) - m), IF cell.touched THEN 1 ELSE 0>>

BestCell(cells, expected, end, m) ==
    FoldLeft(LAMBDA best, cell :
                 IF Precedes(AlignmentKey(cell, end, expected, m),
                             AlignmentKey(best, end, expected, m))
                 THEN cell ELSE best,
             cells[1], Tail(cells))

Similarity(distance, m, matched) ==
    Monus(100, (100 * distance) \div Larger(Larger(m, matched), 1))

Aligned(cell, end, m) ==
    LET start == Smaller(cell.start, end)
    IN  [distance |-> cell.cost, start |-> start, end |-> end,
         similarity |-> Similarity(cell.cost, m, end - start)]

\* The columns of a row that lie within the radius of the expected diagonal.
BandBounds(row, expected, n, radius) ==
    <<Smaller(Monus(expected + row, radius), n), Smaller(expected + row + radius, n)>>

ArtificialBoundary(column, first, last, n) ==
    (first > 0 /\ column = first) \/ (last < n /\ column = last)

At(row, column) == IF column \in DOMAIN row THEN row[column] ELSE InfiniteCell

FirstRow(bounds, n) ==
    [c \in bounds[1]..bounds[2] |->
        Cell(0, c, ArtificialBoundary(c, bounds[1], bounds[2], n))]

\* One row of the table from the previous one: every cell is reached by a
\* match or substitution, a deletion or an insertion.
NextRow(pattern, text, expected, r, bounds, previous) ==
    LET m == Len(pattern)
        boundary(c) == ArtificialBoundary(c, bounds[1], bounds[2], Len(text))
        substitution(c) == IF pattern[r] = text[c] THEN 0 ELSE 1
        reached(current, c) ==
            IF c = 0 THEN Cell(r, 0, boundary(0))
            ELSE BestCell(<<AddCost(At(previous, c - 1), substitution(c), boundary(c)),
                            AddCost(At(previous, c), 1, boundary(c)),
                            AddCost(At(current, c - 1), 1, boundary(c))>>,
                          expected, c, m)
    IN  FoldLeft(LAMBDA current, c : (c :> reached(current, c)) @@ current,
                 <<>>, [i \in 1..(bounds[2] - bounds[1] + 1) |-> bounds[1] + i - 1])

\* The last row's best end; a later end must be strictly better.
BestEnd(row, expected, m) ==
    LET key(end) == AlignmentKey(row[end], end, expected, m)
    IN  CHOOSE end \in DOMAIN row : \A other \in DOMAIN row :
            /\ ~Precedes(key(other), key(end))
            /\ key(other) = key(end) => end =< other

Table(pattern, text, expected, Bounds(_)) ==
    FoldLeft(LAMBDA row, r : NextRow(pattern, text, expected, r, Bounds(r), row),
             FirstRow(Bounds(0), Len(text)), CountUp(Len(pattern)))

Outcome(row, end, m) ==
    [alignment |-> Aligned(row[end], end, m), touched |-> row[end].touched]
BestOutcome(row, expected, m) == Outcome(row, BestEnd(row, expected, m), m)

BandOutcome(pattern, text, expected, radius) ==
    BestOutcome(Table(pattern, text, expected,
                      LAMBDA r : BandBounds(r, expected, Len(text), radius)),
                expected, Len(pattern))

\* The table without a band: every column of the text, no artificial boundary.
SemiGlobalFull(pattern, text, expected) ==
    BestOutcome(Table(pattern, text, expected, LAMBDA r : <<0, Len(text)>>),
                expected, Len(pattern)).alignment
-----------------------------------------------------------------------------
(* Myers' algorithm.  A machine word is the set of its one bits.           *)

Word == 0..(WordBits - 1)
Value(w) == FoldLeft(LAMBDA sum, b : sum + (IF b - 1 \in w THEN 2^(b - 1) ELSE 0),
                     0, CountUp(WordBits))
WrappingAdd(v, w) ==
    LET sum == Value(v) + Value(w) IN {b \in Word : (sum \div 2^b) % 2 = 1}
Xor(v, w) == (v \ w) \cup (w \ v)
Complement(w) == Word \ w
\* Mutation: a match has to begin where the text begins.
ShiftInOne(w) == {0} \cup ({b + 1 : b \in w} \cap Word)
ShiftLeft(w) == {b + 1 : b \in w} \cap Word

\* One token of the text: the vertical differences of a column and the score
\* of its last cell, from the cells where pattern and token are equal.
Horizontal(equal, positive, mask) ==
    (Xor(WrappingAdd(equal \cap positive, positive), positive) \cup equal) \cap mask

NextColumn(state, vertical, positiveH, negativeH, mask, highest) ==
    LET raised == state.score + (IF highest \in positiveH THEN 1 ELSE 0)
        shiftedP == ShiftLeft(positiveH) \cap mask
    IN  [positive |-> ((ShiftLeft(negativeH) \cap mask)
                          \cup Complement(vertical \cup shiftedP)) \cap mask,
         negative |-> shiftedP \cap vertical,
         score |-> IF highest \in negativeH THEN Monus(raised, 1) ELSE raised]

Step(state, equal, horizontal, mask) ==
    NextColumn(state, equal \cup state.negative,
               (state.negative \cup Complement(horizontal \cup state.positive)) \cap mask,
               state.positive \cap horizontal, mask, Max(mask))

MyersStep(pattern, state, token) ==
    LET mask == 0..(Len(pattern) - 1)
        equal == {b \in mask : pattern[b + 1] = token}
    IN  Step(state, equal, Horizontal(equal, state.positive, mask), mask)

\* MyersScores[e]: the distance of the pattern to the best stretch ending at e.
RecordScore(acc, state) == [state |-> state, scores |-> Append(acc.scores, state.score)]
MyersScores(pattern, text) ==
    FoldLeft(LAMBDA acc, token : RecordScore(acc, MyersStep(pattern, acc.state, token)),
             [state |-> [positive |-> 0..(Len(pattern) - 1), negative |-> {},
                         score |-> Len(pattern)],
              scores |-> <<>>], text).scores

\* The first of the ends that are cheapest and nearest to the expected one.
NearestEnd(scores, expected, m, n) ==
    LET key(c) == <<c.distance, Abs(c.end - (expected + m))>>
        nearer(b, c) == IF Precedes(key(c), key(b)) THEN c ELSE b
    IN  FoldLeft(LAMBDA b, e : nearer(b, [distance |-> scores[e], end |-> e]),
                 [distance |-> m, end |-> Smaller(expected, n)], CountUp(n))

\* The alignment is recovered from the stretch that must contain it.
Shifted(alignment, from) == [alignment EXCEPT !.start = @ + from, !.end = @ + from]
Recovered(pattern, local, expected, from) ==
    Shifted(SemiGlobalFull(pattern, local, Smaller(Monus(expected, from), Len(local))), from)
Localized(pattern, text, expected, from, to) ==
    Recovered(pattern, SubSeq(text, from + 1, to), expected, from)
EndingAt(pattern, text, expected, best) ==
    Localized(pattern, text, expected, Monus(best.end, Len(pattern) + best.distance), best.end)

SemiGlobalMyers(pattern, text, expected) ==
    EndingAt(pattern, text, expected,
             NearestEnd(MyersScores(pattern, text), expected, Len(pattern), Len(text)))

\* Candidate ends, at most one within the suppression radius of another.
CheapestFirst(a, b) == Precedes(<<a.distance, a.end>>, <<b.distance, b.end>>)
Retained(candidates, c, near) ==
    IF near = {} THEN Append(candidates, c)
    ELSE IF CheapestFirst(c, candidates[Min(near)]) THEN [candidates EXCEPT ![Min(near)] = c]
    ELSE candidates

RetainCandidate(candidates, c, maximum, radius) ==
    Take(SortSeq(Retained(candidates, c,
                          {i \in DOMAIN candidates : Abs(candidates[i].end - c.end) =< radius}),
                 CheapestFirst),
         maximum)

InfixCandidates(scores, maximum, radius) ==
    FoldLeft(LAMBDA kept, e :
                 RetainCandidate(kept, [distance |-> scores[e], end |-> e], maximum, radius),
             <<>>, CountUp(Len(scores)))

MyersInfixCandidates(pattern, text, maximum) ==
    IF pattern = <<>> \/ Len(pattern) > WordBits \/ text = <<>> \/ maximum = 0 THEN <<>>
    ELSE InfixCandidates(MyersScores(pattern, text), maximum, Larger(Len(pattern) \div 4, 1))
-----------------------------------------------------------------------------
\* The band doubles until two widths agree on an alignment that does not
\* touch it, or until it covers the whole table.
FullRadius(m, n, expected) == Larger(Larger(expected + m, Monus(n, expected)), 1)
FirstRadius(m, n, expected, band) ==
    Smaller(Larger(Larger(band, Abs(m - n) + MinimumRadius), MinimumRadius),
            FullRadius(m, n, expected))

Agree(outcome, wider) == wider.alignment = outcome.alignment /\ ~wider.touched
WidenTo(pattern, text, expected, first, full) ==
    LET outcome(radius) == BandOutcome(pattern, text, expected, radius)
        widen[radius \in 1..full] ==
            IF radius >= full \/ Agree(outcome(radius), outcome(Smaller(2 * radius, full)))
            THEN outcome(radius).alignment
            ELSE widen[Smaller(2 * radius, full)]
    IN  widen[first]
Widened(pattern, text, expected, band) ==
    WidenTo(pattern, text, expected, FirstRadius(Len(pattern), Len(text), expected, band),
            FullRadius(Len(pattern), Len(text), expected))

SemiGlobalBanded(pattern, text, expected, band) ==
    IF pattern = <<>>
    THEN [distance |-> 0, start |-> Smaller(expected, Len(text)),
          end |-> Smaller(expected, Len(text)), similarity |-> 100]
    ELSE IF text = <<>>
    THEN [distance |-> Len(pattern), start |-> 0, end |-> 0, similarity |-> 0]
    ELSE IF Len(pattern) =< WordBits THEN SemiGlobalMyers(pattern, text, expected)
    ELSE Widened(pattern, text, expected, band)

\* Edit distance of two whole texts, over rows of the longer one.
NextDistances(previous, r, token, columns) ==
    FoldLeft(LAMBDA current, c :
                 (c :> Smaller(previous[c - 1] + (IF token = columns[c] THEN 0 ELSE 1),
                               1 + Smaller(previous[c], current[c - 1]))) @@ current,
             (0 :> r), CountUp(Len(columns)))
Distance(rows, columns) ==
    FoldLeft(LAMBDA previous, r : NextDistances(previous, r, rows[r], columns),
             [c \in 0..Len(columns) |-> c], CountUp(Len(rows)))[Len(columns)]

GlobalLevenshtein(left, right) ==
    IF left = <<>> THEN Len(right) ELSE IF right = <<>> THEN Len(left)
    ELSE IF Len(right) =< Len(left) THEN Distance(left, right)
    ELSE Distance(right, left)
=============================================================================
