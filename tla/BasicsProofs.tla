----------------------------- MODULE BasicsProofs -----------------------------
(***************************************************************************)
(* Lemmas the other proof modules cite.  Induction and recursion on the    *)
(* natural numbers and folds, as facts about sets and functions: the       *)
(* induction theorems of the library range over operators and cannot be    *)
(* instantiated by the provers; here the formula is given by the set of    *)
(* the numbers it holds of, and the step of a recursive function by a      *)
(* function.  The sets in order and the filtered sequences of Basics.      *)
(***************************************************************************)
EXTENDS Basics, WellFoundedInduction, FiniteSetTheorems, SequenceTheorems, TLAPS

-----------------------------------------------------------------------------
(* Induction *)

LessRel == {ss \in Nat \X Nat : ss[1] < ss[2]}

\* The order on the natural numbers is well founded.
LEMMA LessIsWellFounded == IsWellFoundedOn(LessRel, Nat)
<1>1. LessRel = OpToRel(<, Nat)
  BY DEF LessRel, OpToRel
<1>2. QED
  BY <1>1, NatLessThanWellFounded, Zenon

\* A set of natural numbers that is not empty has a least element.
LEMMA Least ==
  ASSUME NEW T \in SUBSET Nat, T # {}
  PROVE  \E x \in T : \A y \in T : x <= y
<1>1. PICK x \in T : \A y \in T : <<y, x>> \notin LessRel
  BY LessIsWellFounded, WFMin
<1>2. ASSUME NEW y \in T
      PROVE  x <= y
  <2>1. x \in Nat /\ y \in Nat
    OBVIOUS
  <2>2. y < x => <<y, x>> \in LessRel
    BY <2>1 DEF LessRel
  <2>3. QED
    BY <1>1, <2>1, <2>2
<1>3. QED
  BY <1>2

\* A set of numbers up to a bound that is not empty has a greatest element.
LEMMA Greatest ==
  ASSUME NEW n \in Nat, NEW T \in SUBSET (0..n), T # {}
  PROVE  \E x \in T : \A y \in T : y <= x
<1> DEFINE Flipped == {k \in Nat : k <= n /\ n - k \in T}
<1>1. PICK t \in T : TRUE
  OBVIOUS
<1>2. n - t \in Flipped
  <2>1. t \in Nat /\ t <= n
    OBVIOUS
  <2>2. n - (n - t) = t /\ n - t \in Nat /\ n - t <= n
    BY <2>1
  <2>3. QED
    BY <2>2
<1>3. PICK k \in Flipped : \A l \in Flipped : k <= l
  <2>1. Flipped \in SUBSET Nat /\ Flipped # {}
    BY <1>2
  <2>2. QED
    BY <2>1, Least
<1>4. n - k \in T
  OBVIOUS
<1>5. ASSUME NEW y \in T
      PROVE  y <= n - k
  <2>1. y \in Nat /\ y <= n
    OBVIOUS
  <2>2. n - (n - y) = y /\ n - y \in Nat /\ n - y <= n
    BY <2>1
  <2>3. k <= n - y
    BY <2>2, <1>3
  <2>4. QED
    BY <2>1, <2>3, <1>3
<1>6. QED
  BY <1>4, <1>5

\* Induction up to a bound.
LEMMA UpTo ==
  ASSUME NEW n \in Nat, NEW S, 0 \in S, \A i \in 0..n : i \in S /\ i < n => i + 1 \in S
  PROVE  \A i \in 0..n : i \in S
<1> SUFFICES ASSUME (0..n) \ S # {}
             PROVE  FALSE
  OBVIOUS
<1>1. PICK x \in (0..n) \ S : \A y \in (0..n) \ S : x <= y
  <2>1. (0..n) \ S \in SUBSET Nat
    OBVIOUS
  <2>2. QED
    BY <2>1, Least
<1>2. x # 0 /\ x \in Nat /\ x <= n
  BY <1>1
<1>3. x - 1 \in 0..n /\ x - 1 < n /\ ~(x <= x - 1) /\ (x - 1) + 1 = x
  BY <1>2
<1>4. x - 1 \in S
  BY <1>1, <1>3
<1>5. x \in S
  BY <1>3, <1>4
<1>6. QED
  BY <1>1, <1>5

\* g has the value base at 0, and at i the value that step gives for i and its
\* value at i - 1.
Iterates(g, base, step, n) ==
  /\ g[0] = base
  /\ \A i \in 1..n : g[i] = step[i][g[i - 1]]

\* Such a function exists on the numbers up to a bound.
LEMMA Recursion ==
  ASSUME NEW n \in Nat, NEW X, NEW base \in X, NEW step \in [1..n -> [X -> X]]
  PROVE  \E g \in [0..n -> X] : Iterates(g, base, step, n)
<1> DEFINE Upto(k, g) == g[0] = base /\ \A i \in 1..k : g[i] = step[i][g[i - 1]]
           S == {k \in 0..n : \E g \in [0..k -> X] : Upto(k, g)}
<1>1. 0 \in S
  <2> DEFINE g == [i \in 0..0 |-> base]
  <2>1. g \in [0..0 -> X] /\ Upto(0, g)
    OBVIOUS
  <2>2. 0 \in 0..n
    OBVIOUS
  <2> HIDE DEF g, Upto
  <2>3. QED
    BY <2>1, <2>2
<1>2. ASSUME NEW k \in 0..n, k \in S, k < n
      PROVE  k + 1 \in S
  <2>1. PICK g \in [0..k -> X] : Upto(k, g)
    BY <1>2
  <2> DEFINE h == [i \in 0..(k + 1) |-> IF i = k + 1 THEN step[k + 1][g[k]] ELSE g[i]]
  <2>2. k \in Nat /\ k + 1 \in 1..n /\ g[k] \in X
    BY <1>2
  <2>3. step[k + 1] \in [X -> X]
    BY <2>2
  <2>4. step[k + 1][g[k]] \in X
    BY <2>2, <2>3
  <2>5. h \in [0..(k + 1) -> X]
    BY <2>2, <2>4
  <2>6. h[0] = base
    BY <2>1, <2>2
  <2>7. ASSUME NEW i \in 1..(k + 1)
        PROVE  h[i] = step[i][h[i - 1]]
    <3>1. CASE i = k + 1
      <4>1. i - 1 = k /\ k \in 0..(k + 1) /\ k # k + 1
        BY <3>1, <2>2
      <4>2. h[i - 1] = g[k]
        BY <4>1
      <4>3. h[i] = step[k + 1][g[k]]
        BY <3>1, <2>2
      <4> HIDE DEF h
      <4>4. QED
        BY <3>1, <4>2, <4>3
    <3>2. CASE i # k + 1
      <4>1. i \in 1..k /\ i - 1 \in 0..k /\ i - 1 # k + 1
        BY <3>2, <2>2
      <4>2. h[i] = g[i] /\ h[i - 1] = g[i - 1]
        BY <3>2, <4>1
      <4>3. QED
        BY <4>1, <4>2, <2>1
    <3>3. QED
      BY <3>1, <3>2
  <2>8. Upto(k + 1, h)
    BY <2>6, <2>7
  <2>9. k + 1 \in 0..n
    BY <1>2
  <2> HIDE DEF h, Upto
  <2>10. QED
    BY <2>5, <2>8, <2>9
<1>3. \A i \in 0..n : i \in S
  <2> HIDE DEF S
  <2>1. QED
    BY <1>1, <1>2, UpTo
<1>4. n \in S
  BY <1>3
<1>5. QED
  BY <1>4 DEF Iterates

\* The greatest of a set of numbers.
LEMMA MaxIs ==
  ASSUME NEW n \in Nat, NEW s \in SUBSET (0..n), s # {}
  PROVE  Max(s) \in s /\ \A y \in s : y <= Max(s)
<1>1. PICK m \in s : \A y \in s : y <= m
  BY Greatest
<1>2. \A y \in s : m >= y
  BY <1>1
<1>3. Max(s) \in s /\ \A y \in s : Max(s) >= y
  BY <1>2, Zenon DEF Max
<1>4. QED
  BY <1>3

\* iter is the value of a fold over the numbers of a set in ascending order.
FoldsUp(iter, base, step, n) ==
  \A s \in SUBSET (1..n) :
    iter[s] = IF s = {} THEN base ELSE step[Max(s)][iter[s \ {Max(s)}]]

\* A fold over sets defines a function.
LEMMA Folding ==
  ASSUME NEW n \in Nat, NEW X, NEW base \in X, NEW step \in [1..n -> [X -> X]]
  PROVE  \E g \in [SUBSET (1..n) -> X] : FoldsUp(g, base, step, n)
<1> DEFINE same == [x \in X |-> x]
           part(s) == [i \in 1..n |-> IF i \in s THEN step[i] ELSE same]
           run(s) == CHOOSE r \in [0..n -> X] : Iterates(r, base, part(s), n)
           g == [s \in SUBSET (1..n) |-> run(s)[n]]
<1>1. ASSUME NEW s \in SUBSET (1..n)
      PROVE  run(s) \in [0..n -> X] /\ Iterates(run(s), base, part(s), n)
  <2>1. part(s) \in [1..n -> [X -> X]]
    OBVIOUS
  <2> HIDE DEF part
  <2>2. \E r \in [0..n -> X] : Iterates(r, base, part(s), n)
    BY <2>1, Recursion
  <2>3. QED
    BY <2>2, Zenon
<1> HIDE DEF run
<1>2. ASSUME NEW s \in SUBSET (1..n), NEW i \in 1..n
      PROVE  /\ run(s)[0] = base /\ run(s)[i - 1] \in X
             /\ i \in s => run(s)[i] = step[i][run(s)[i - 1]]
             /\ i \notin s => run(s)[i] = run(s)[i - 1]
  <2>1. i - 1 \in 0..n /\ i \in 0..n
    OBVIOUS
  <2>2. run(s)[i - 1] \in X
    BY <1>1, <2>1
  <2>3. run(s)[0] = base /\ run(s)[i] = part(s)[i][run(s)[i - 1]]
    BY <1>1 DEF Iterates
  <2>4. QED
    BY <2>2, <2>3
\* A run is still from a place on that the set has no number after.
<1>3. ASSUME NEW s \in SUBSET (1..n), NEW m \in 0..n, \A y \in s : y <= m
      PROVE  run(s)[n] = run(s)[m]
  <2> DEFINE S == {i \in 0..n : m <= i => run(s)[i] = run(s)[m]}
  <2>1. 0 \in S
    OBVIOUS
  <2>2. ASSUME NEW i \in 0..n, i \in S, i < n
        PROVE  i + 1 \in S
    <3>1. i + 1 \in 1..n /\ (i + 1) - 1 = i /\ i + 1 \in 0..n
      BY <2>2
    <3>2. CASE m <= i
      <4>1. i + 1 \notin s
        BY <3>2, <1>3
      <4>2. run(s)[i + 1] = run(s)[i]
        BY <3>1, <4>1, <1>2
      <4>3. QED
        BY <3>1, <3>2, <4>2, <2>2
    <3>3. CASE ~(m <= i)
      <4>1. m <= i + 1 => m = i + 1
        BY <3>3
      <4>2. QED
        BY <3>1, <4>1
    <3>4. QED
      BY <3>2, <3>3
  <2>3. \A i \in 0..n : i \in S
    <3> HIDE DEF S
    <3>1. QED
      BY <2>1, <2>2, UpTo
  <2>4. QED
    BY <2>3
<1>4. ASSUME NEW s \in SUBSET (1..n)
      PROVE  g[s] = IF s = {} THEN base ELSE step[Max(s)][g[s \ {Max(s)}]]
  <2>1. CASE s = {}
    <3>1. run(s)[n] = run(s)[0]
      BY <2>1, <1>3
    <3>2. run(s)[0] = base
      BY <1>1 DEF Iterates
    <3>3. QED
      BY <2>1, <3>1, <3>2
  <2>2. CASE s # {}
    <3>1. PICK m : m = Max(s) /\ m \in s /\ \A y \in s : y <= m
      <4>1. s \in SUBSET (0..n)
        OBVIOUS
      <4>2. QED
        BY <2>2, <4>1, MaxIs
    <3>2. PICK t \in SUBSET (1..n) : t = s \ {m}
      OBVIOUS
    <3>3. m \in 1..n /\ m - 1 \in 0..n /\ m \in 0..n
      BY <3>1
    <3>4. \A y \in t : y <= m - 1
      <4>1. TAKE y \in t
      <4>2. y \in 1..n /\ y <= m /\ y # m
        BY <3>1, <3>2
      <4>3. QED
        BY <3>3, <4>2
    <3>5. g[s] = run(s)[m] /\ g[t] = run(t)[m - 1]
      BY <1>3, <3>1, <3>3, <3>4
    <3>6. run(s)[m] = step[m][run(s)[m - 1]]
      BY <1>2, <3>1, <3>3
    <3> DEFINE S == {i \in 0..n : i < m => run(s)[i] = run(t)[i]}
    <3>7. 0 \in S
      BY <1>1 DEF Iterates
    <3>8. ASSUME NEW i \in 0..n, i \in S, i < n
          PROVE  i + 1 \in S
      <4>1. i + 1 \in 1..n /\ (i + 1) - 1 = i /\ i + 1 \in 0..n
        BY <3>8
      <4>2. CASE i + 1 < m
        <5>1. run(s)[i] = run(t)[i]
          BY <4>1, <4>2, <3>8, <3>3
        <5>2. (i + 1 \in s) <=> (i + 1 \in t)
          BY <4>1, <4>2, <3>2, <3>3
        <5>3. PICK j \in 1..n : j = i + 1 /\ j - 1 = i
          BY <4>1
        <5>4. /\ j \in s => run(s)[j] = step[j][run(s)[i]] /\ run(t)[j] = step[j][run(t)[i]]
              /\ j \notin s => run(s)[j] = run(s)[i] /\ run(t)[j] = run(t)[i]
          <6>1. s \in SUBSET (1..n) /\ t \in SUBSET (1..n) /\ (j \in s <=> j \in t)
            BY <5>2, <5>3
          <6>2. /\ run(s)[j] = IF j \in s THEN step[j][run(s)[j - 1]] ELSE run(s)[j - 1]
                /\ run(t)[j] = IF j \in t THEN step[j][run(t)[j - 1]] ELSE run(t)[j - 1]
            BY <6>1, <5>3, <1>2
          <6>3. QED
            BY ONLY <6>1, <6>2, <5>3
        <5>5. run(s)[j] = run(t)[j]
          BY <5>1, <5>4
        <5>6. QED
          BY <4>1, <5>3, <5>5
      <4>3. QED
        BY <4>1, <4>2
    <3>9. m - 1 \in S
      <4>1. \A i \in 0..n : i \in S
        <5> HIDE DEF S
        <5>1. QED
          BY <3>7, <3>8, UpTo
      <4>2. QED
        BY <3>3, <4>1
    <3>10. run(s)[m - 1] = run(t)[m - 1]
      BY <3>3, <3>9
    <3> HIDE DEF g
    <3>11. QED
      BY <2>2, <3>1, <3>2, <3>5, <3>6, <3>10
  <2>3. QED
    BY <2>1, <2>2
<1>5. g \in [SUBSET (1..n) -> X]
  <2>1. ASSUME NEW s \in SUBSET (1..n)
        PROVE  run(s)[n] \in X
    <3>1. run(s) \in [0..n -> X]
      BY <1>1, Zenon
    <3>2. n \in 0..n
      OBVIOUS
    <3>3. QED
      BY <3>1, <3>2, Zenon
  <2>2. QED
    BY <2>1
<1> HIDE DEF g
<1>6. QED
  BY <1>4, <1>5 DEF FoldsUp

\* The numbers up to k without the greatest are those up to k - 1.
LEMMA UpToMax ==
  ASSUME NEW n \in Nat, NEW k \in 1..n
  PROVE  /\ 1..k \in SUBSET (1..n) /\ 1..k # {} /\ Max(1..k) = k
         /\ (1..k) \ {k} = 1..(k - 1) /\ 1..0 = {}
<1>1. 1..k \in SUBSET (0..n) /\ k \in 1..k
  OBVIOUS
<1>2. Max(1..k) \in 1..k /\ \A y \in 1..k : y <= Max(1..k)
  BY <1>1, MaxIs
<1>3. k <= Max(1..k)
  BY <1>1, <1>2
<1>4. Max(1..k) = k
  BY <1>2, <1>3
<1>5. (1..k) \ {k} = 1..(k - 1)
  OBVIOUS
<1>6. QED
  BY <1>1, <1>4, <1>5

\* So does any function that steps so as long as its values are in X.
FoldsIn(iter, base, step, n, X) ==
  /\ iter[{}] = base
  /\ \A s \in SUBSET (1..n) : s # {} /\ iter[s \ {Max(s)}] \in X =>
         iter[s] = step[Max(s)][iter[s \ {Max(s)}]]

\* Whatever folds so, along the numbers up to n, iterates the steps.
LEMMA Folded ==
  ASSUME NEW n \in Nat, NEW X, NEW base \in X, NEW step \in [1..n -> [X -> X]], NEW iter,
         FoldsIn(iter, base, step, n, X)
  PROVE  \E g \in [0..n -> X] : Iterates(g, base, step, n) /\ iter[1..n] = g[n]
<1> DEFINE g == [k \in 0..n |-> iter[1..k]]
           S == {k \in 0..n : iter[1..k] \in X}
<1>1. iter[1..0] = base
  BY 1..0 = {} DEF FoldsIn
<1>2. ASSUME NEW k \in 1..n, iter[1..(k - 1)] \in X
      PROVE  iter[1..k] = step[k][iter[1..(k - 1)]] /\ iter[1..k] \in X
  <2>1. 1..k \in SUBSET (1..n) /\ 1..k # {} /\ Max(1..k) = k
    BY UpToMax
  <2>2. (1..k) \ {k} = 1..(k - 1)
    OBVIOUS
  <2>3. iter[1..k] = step[k][iter[1..(k - 1)]]
    BY <1>2, <2>1, <2>2 DEF FoldsIn
  <2>4. step[k] \in [X -> X]
    OBVIOUS
  <2>5. QED
    BY <1>2, <2>3, <2>4
<1>3. 0 \in S
  BY <1>1
<1>4. ASSUME NEW k \in 0..n, k \in S, k < n
      PROVE  k + 1 \in S
  <2>1. k + 1 \in 1..n /\ (k + 1) - 1 = k /\ k + 1 \in 0..n
    BY <1>4
  <2>2. iter[1..(k + 1)] \in X
    BY <1>2, <1>4, <2>1
  <2>3. QED
    BY <2>1, <2>2
<1>5. \A k \in 0..n : iter[1..k] \in X
  <2>1. \A k \in 0..n : k \in S
    <3> HIDE DEF S
    <3>1. QED
      BY <1>3, <1>4, UpTo
  <2>2. QED
    BY <2>1
<1>6. g \in [0..n -> X]
  BY <1>5
<1>7. Iterates(g, base, step, n)
  <2>1. g[0] = base
    BY <1>1
  <2>2. ASSUME NEW k \in 1..n
        PROVE  g[k] = step[k][g[k - 1]]
    <3>1. k \in 0..n /\ k - 1 \in 0..n
      OBVIOUS
    <3>2. g[k] = iter[1..k] /\ g[k - 1] = iter[1..(k - 1)] /\ iter[1..(k - 1)] \in X
      BY <3>1, <1>5
    <3> HIDE DEF g
    <3>3. QED
      BY <1>2, <3>2
  <2>3. QED
    BY <2>1, <2>2 DEF Iterates
<1>8. iter[1..n] = g[n]
  OBVIOUS
<1> HIDE DEF g
<1>9. QED
  BY <1>6, <1>7, <1>8

\* What a sequence holds after one more element.
LEMMA RangeAppend ==
  ASSUME NEW S, NEW s \in Seq(S), NEW x
  PROVE  Range(Append(s, x)) = Range(s) \cup {x}
<1>1. /\ Len(s) \in Nat /\ DOMAIN s = 1..Len(s)
      /\ DOMAIN Append(s, x) = 1..(Len(s) + 1)
      /\ Append(s, x)[Len(s) + 1] = x
      /\ \A i \in 1..Len(s) : Append(s, x)[i] = s[i]
  OBVIOUS
<1>2. ASSUME NEW v \in Range(Append(s, x))
      PROVE  v \in Range(s) \cup {x}
  <2>1. PICK i \in 1..(Len(s) + 1) : v = Append(s, x)[i]
    BY <1>1 DEF Range
  <2>2. i = Len(s) + 1 \/ i \in 1..Len(s)
    BY <1>1
  <2>3. QED
    BY <1>1, <2>1, <2>2 DEF Range
<1>3. ASSUME NEW v \in Range(s)
      PROVE  v \in Range(Append(s, x))
  <2>1. PICK i \in 1..Len(s) : v = s[i]
    BY <1>1 DEF Range
  <2>2. i \in 1..(Len(s) + 1) /\ v = Append(s, x)[i]
    BY <1>1, <2>1
  <2>3. QED
    BY <1>1, <2>2 DEF Range
<1>4. x \in Range(Append(s, x))
  <2>1. Len(s) + 1 \in 1..(Len(s) + 1)
    BY <1>1
  <2>2. QED
    BY <1>1, <2>1 DEF Range
<1>5. QED
  BY <1>2, <1>3, <1>4

-----------------------------------------------------------------------------
(* Sets in order *)

\* s takes the elements of S one after another, each the first of what is left.
Rest(S, s, i) == S \ {s[j] : j \in 1..(i - 1)}
IsPicked(s, S, first) ==
    /\ s \in Seq(S) /\ Len(s) = Cardinality(S) /\ Range(s) = S
    /\ \A i \in 1..Len(s) : s[i] \in Rest(S, s, i) /\ s[i] = first[Rest(S, s, i)]

\* A fold that appends the first of what is left.
Picks(iter, S, first) ==
    \A T \in SUBSET (1..Cardinality(S)) :
        iter[T] = IF T = {} THEN <<>>
                  ELSE Append(iter[T \ {Max(T)}], first[S \ Range(iter[T \ {Max(T)}])])

\* Taking the first of what is left defines a function.
LEMMA PickingExists ==
  ASSUME NEW S, IsFiniteSet(S), NEW X, NEW first \in [SUBSET S -> X]
  PROVE  \E g \in [SUBSET (1..Cardinality(S)) -> Seq(X)] : Picks(g, S, first)
<1>1. PICK n \in Nat : n = Cardinality(S)
  BY FS_CardinalityType
<1> DEFINE step == [i \in 1..n |-> [s \in Seq(X) |-> Append(s, first[S \ Range(s)])]]
<1>2. step \in [1..n -> [Seq(X) -> Seq(X)]] /\ <<>> \in Seq(X)
  <2>1. ASSUME NEW s \in Seq(X)
        PROVE  Append(s, first[S \ Range(s)]) \in Seq(X)
    <3>1. first[S \ Range(s)] \in X
      OBVIOUS
    <3>2. QED
      BY <3>1
  <2>2. QED
    BY <2>1
<1>3. PICK g \in [SUBSET (1..n) -> Seq(X)] : FoldsUp(g, <<>>, step, n)
  <2>1. PICK Y : Y = Seq(X)
    OBVIOUS
  <2>2. step \in [1..n -> [Y -> Y]] /\ <<>> \in Y
    BY <1>2, <2>1, Zenon
  <2> HIDE DEF step
  <2>3. \E g \in [SUBSET (1..n) -> Y] : FoldsUp(g, <<>>, step, n)
    BY <2>2, Folding
  <2>4. QED
    BY <2>1, <2>3, Zenon
<1>4. ASSUME NEW T \in SUBSET (1..n)
      PROVE  g[T] = IF T = {} THEN <<>>
                    ELSE Append(g[T \ {Max(T)}], first[S \ Range(g[T \ {Max(T)}])])
  <2>1. CASE T = {}
    BY <1>3, <2>1 DEF FoldsUp
  <2>2. CASE T # {}
    <3>1. Max(T) \in 1..n
      <4>1. T \in SUBSET (0..n)
        OBVIOUS
      <4>2. QED
        BY <2>2, <4>1, MaxIs
    <3>2. g[T \ {Max(T)}] \in Seq(X)
      <4>1. T \ {Max(T)} \in SUBSET (1..n)
        OBVIOUS
      <4>2. QED
        BY <4>1
    <3>3. g[T] = step[Max(T)][g[T \ {Max(T)}]]
      BY <1>3, <2>2 DEF FoldsUp
    <3>4. step[Max(T)] = [s \in Seq(X) |-> Append(s, first[S \ Range(s)])]
      BY <3>1
    <3>5. QED
      BY <2>2, <3>2, <3>3, <3>4
  <2>3. QED
    BY <2>1, <2>2
<1>5. QED
  BY <1>1, <1>3, <1>4 DEF Picks

\* It takes all of a set, each element once.
LEMMA PickingIs ==
  ASSUME NEW S, IsFiniteSet(S), NEW first, \A T \in SUBSET S : T # {} => first[T] \in T,
         NEW iter, Picks(iter, S, first)
  PROVE  IsPicked(iter[1..Cardinality(S)], S, first)
<1>1. PICK n \in Nat : n = Cardinality(S)
  BY FS_CardinalityType
<1> DEFINE g(k) == iter[1..k]
           Good(k) ==
             /\ g(k) \in Seq(S) /\ Len(g(k)) = k
             /\ Cardinality(S \ Range(g(k))) = n - k
             /\ \A i \in 1..k : g(k)[i] \in Rest(S, g(k), i) /\ g(k)[i] = first[Rest(S, g(k), i)]
           K == {k \in 0..n : Good(k)}
<1>2. 0 \in K
  <2>1. g(0) = <<>>
    <3>1. 1..0 = {} /\ {} \in SUBSET (1..n)
      OBVIOUS
    <3>2. QED
      BY <1>1, <3>1 DEF Picks
  <2>2. Range(<<>>) = {} /\ S \ {} = S
    BY DEF Range
  <2>3. Cardinality(S \ Range(g(0))) = n - 0
    <3>1. PICK e : e = g(0) /\ e = <<>>
      BY <2>1
    <3>2. Range(e) = {}
      BY <2>2, <3>1, Zenon
    <3>3. S \ Range(e) = S
      BY <3>2
    <3>4. Cardinality(S \ Range(e)) = n
      BY <1>1, <3>3, Zenon
    <3>5. n - 0 = n
      BY <1>1
    <3>6. QED
      BY <3>1, <3>4, <3>5, Zenon
  <2>4. g(0) \in Seq(S) /\ Len(g(0)) = 0
    BY <2>1
  <2> HIDE DEF g
  <2>5. QED
    BY <2>3, <2>4
<1>3. ASSUME NEW k \in 0..n, k \in K, k < n
      PROVE  k + 1 \in K
  <2>1. PICK m \in 1..n : m = k + 1 /\ m - 1 = k
    BY <1>3
  <2>2. PICK s, t : s = g(k) /\ t = g(m)
    OBVIOUS
  <2>3. PICK left \in SUBSET S : left = S \ Range(s)
    OBVIOUS
  <2>4. t = Append(s, first[left])
    <3>0. 1..m \in SUBSET (1..n) /\ 1..m # {} /\ Max(1..m) = m
      <4>1. 1..m \in SUBSET (0..n) /\ m \in 1..m /\ n \in Nat
        BY <1>1, <2>1
      <4>2. Max(1..m) \in 1..m /\ \A y \in 1..m : y <= Max(1..m)
        BY <4>1, MaxIs
      <4>3. QED
        BY <2>1, <4>1, <4>2
    <3>1. 1..m \in SUBSET (1..n) /\ 1..m # {} /\ Max(1..m) = m /\ (1..m) \ {m} = 1..(m - 1)
      BY <3>0
    <3>2. iter[1..m] = Append(iter[(1..m) \ {Max(1..m)}],
                              first[S \ Range(iter[(1..m) \ {Max(1..m)}])])
      BY <1>1, <3>1 DEF Picks
    <3>3. (1..m) \ {Max(1..m)} = 1..k
      BY <2>1, <3>1
    <3>4. iter[1..m] = Append(iter[1..k], first[S \ Range(iter[1..k])])
      BY <3>2, <3>3, Zenon
    <3>5. QED
      BY <2>2, <2>3, <3>4
  <2>5. /\ s \in Seq(S) /\ Len(s) = k /\ Cardinality(left) = n - k
        /\ \A i \in 1..k : s[i] \in Rest(S, s, i) /\ s[i] = first[Rest(S, s, i)]
    BY <1>3, <2>2, <2>3
  <2>6. IsFiniteSet(left) /\ left # {}
    <3>1. IsFiniteSet(left)
      BY FS_Subset
    <3>2. n - k # 0
      BY <1>3
    <3>3. QED
      BY <2>5, <3>1, <3>2, FS_EmptySet
  <2>7. PICK x \in left : x = first[left]
    BY <2>6
  <2>8. /\ t \in Seq(S) /\ Len(t) = m /\ t[m] = x /\ \A i \in 1..k : t[i] = s[i]
    <3>1. x \in S /\ t = Append(s, x)
      BY <2>4, <2>7
    <3>2. QED
      BY <2>1, <2>5, <3>1, AppendProperties
  <2>9. Range(s) = {s[j] : j \in 1..k}
    BY <2>5, RangeEquality
  <2>10. Range(t) = Range(s) \cup {x}
    BY <2>4, <2>5, <2>7, RangeAppend
  <2>11. Cardinality(S \ Range(t)) = n - m
    <3>1. S \ Range(t) = left \ {x}
      BY <2>3, <2>10
    <3>2. Cardinality(left \ {x}) = Cardinality(left) - 1
      BY <2>6, FS_RemoveElement
    <3>3. QED
      <4>1. PICK c \in Int : c = Cardinality(left) /\ c = n - k
        BY <1>1, <2>5
      <4>2. c - 1 = n - m
        BY <1>1, <2>1, <4>1
      <4>3. QED
        BY <3>1, <3>2, <4>1, <4>2
  <2>12. ASSUME NEW i \in 1..m
         PROVE  t[i] \in Rest(S, t, i) /\ t[i] = first[Rest(S, t, i)]
    <3>1. CASE i = m
      <4>1. {t[j] : j \in 1..(m - 1)} = {s[j] : j \in 1..k}
        BY <2>1, <2>8
      <4>2. Rest(S, t, m) = left
        BY <2>3, <2>9, <4>1 DEF Rest
      <4>3. QED
        BY <2>7, <2>8, <3>1, <4>2
    <3>2. CASE i # m
      <4>1. i \in 1..k /\ \A j \in 1..(i - 1) : j \in 1..k
        BY <2>1, <3>2
      <4>2. {t[j] : j \in 1..(i - 1)} = {s[j] : j \in 1..(i - 1)}
        BY <2>8, <4>1
      <4>3. Rest(S, t, i) = Rest(S, s, i)
        BY <4>2 DEF Rest
      <4>4. QED
        BY <2>5, <2>8, <4>1, <4>3
    <3>3. QED
      BY <3>1, <3>2
  <2>13. Good(m)
    BY <2>2, <2>8, <2>11, <2>12
  <2> HIDE DEF Good
  <2>14. m \in 0..n
    OBVIOUS
  <2>15. QED
    BY <2>1, <2>13, <2>14
<1>4. Good(n)
  <2>1. \A k \in 0..n : k \in K
    <3> HIDE DEF K
    <3>1. QED
      BY <1>2, <1>3, UpTo
  <2>2. n \in K
    <3> HIDE DEF K
    <3>1. QED
      BY <1>1, <2>1
  <2> HIDE DEF Good
  <2>3. QED
    BY <2>2
<1>5. PICK s : s = iter[1..n]
  OBVIOUS
<1>6. /\ s \in Seq(S) /\ Len(s) = n /\ Cardinality(S \ Range(s)) = 0
      /\ \A i \in 1..n : s[i] \in Rest(S, s, i) /\ s[i] = first[Rest(S, s, i)]
  BY <1>4, <1>5
<1>7. Range(s) = S
  <2>1. IsFiniteSet(S \ Range(s))
    BY FS_Subset
  <2>2. S \ Range(s) = {}
    BY <1>6, <2>1, FS_EmptySet
  <2>3. Range(s) \in SUBSET S
    BY <1>6, RangeOfSeq
  <2>4. QED
    BY <2>2, <2>3
<1>8. QED
  BY <1>1, <1>5, <1>6, <1>7 DEF IsPicked

\* Later elements differ from earlier ones, and were left when those were taken.
LEMMA PickedOrder ==
  ASSUME NEW S, NEW first, NEW s, IsPicked(s, S, first), NEW i \in 1..Len(s), NEW j \in 1..Len(s),
         i < j
  PROVE  s[j] \in Rest(S, s, i) /\ s[j] # s[i] /\ s[i] = first[Rest(S, s, i)]
<1>1. Len(s) \in Nat
  BY DEF IsPicked
<1>2. i \in 1..(j - 1) /\ \A k \in 1..(i - 1) : k \in 1..(j - 1)
  BY <1>1
<1>3. s[j] \in Rest(S, s, j)
  BY DEF IsPicked
<1>4. QED
  BY <1>2, <1>3 DEF Rest, IsPicked

\* Tuples of m numbers, as the keys of an order.
Keys(m) == [1..m -> Int]

\* The lexicographic order of tuples is strict.
LEMMA PrecedesIsStrict ==
  ASSUME NEW m \in Nat, NEW a \in Keys(m), NEW b \in Keys(m), NEW c \in Keys(m)
  PROVE  /\ ~Precedes(a, a)
         /\ Precedes(a, b) /\ Precedes(b, c) => Precedes(a, c)
<1>1. /\ DOMAIN a = 1..m /\ DOMAIN b = 1..m
      /\ \A k \in 1..m : a[k] \in Int /\ b[k] \in Int /\ c[k] \in Int
  BY DEF Keys
<1>2. ~Precedes(a, a)
  BY <1>1 DEF Precedes
<1>3. ASSUME Precedes(a, b), Precedes(b, c)
      PROVE  Precedes(a, c)
  <2>1. PICK i \in 1..m : a[i] < b[i] /\ \A l \in 1..(i - 1) : a[l] = b[l]
    BY <1>1, <1>3, Zenon DEF Precedes
  <2>2. PICK j \in 1..m : b[j] < c[j] /\ \A l \in 1..(j - 1) : b[l] = c[l]
    BY <1>1, <1>3, Zenon DEF Precedes
  <2>3. PICK k \in 1..m : k = IF i < j THEN i ELSE j
    OBVIOUS
  <2>4. \A l \in 1..(k - 1) : l \in 1..(i - 1) /\ l \in 1..(j - 1)
    BY <2>3
  <2>5. a[k] < c[k]
    <3>1. CASE i < j
      <4>1. k = i /\ i \in 1..(j - 1)
        BY <2>3, <3>1
      <4>2. QED
        BY <1>1, <2>1, <2>2, <4>1
    <3>2. CASE i = j
      BY <1>1, <2>1, <2>2, <2>3, <3>2
    <3>3. CASE j < i
      <4>1. k = j /\ j \in 1..(i - 1)
        BY <2>3, <3>3
      <4>2. QED
        BY <1>1, <2>1, <2>2, <4>1
    <3>4. QED
      BY <3>1, <3>2, <3>3
  <2>6. QED
    BY <1>1, <2>1, <2>2, <2>4, <2>5 DEF Precedes
<1>4. QED
  BY <1>2, <1>3

\* Of different tuples one precedes the other.
LEMMA PrecedesIsTotal ==
  ASSUME NEW m \in Nat, NEW a \in Keys(m), NEW b \in Keys(m), a # b
  PROVE  Precedes(a, b) \/ Precedes(b, a)
<1>1. /\ DOMAIN a = 1..m /\ DOMAIN b = 1..m
      /\ \A k \in 1..m : a[k] \in Int /\ b[k] \in Int
  BY DEF Keys
<1> DEFINE D == {k \in 1..m : a[k] # b[k]}
<1>2. PICK k \in D : \A l \in D : k <= l
  <2>1. D \in SUBSET Nat /\ D # {}
    BY DEF Keys
  <2>2. QED
    BY <2>1, Least
<1>3. \A l \in 1..(k - 1) : a[l] = b[l] /\ b[l] = a[l]
  <2>1. TAKE l \in 1..(k - 1)
  <2>2. l \in 1..m /\ ~(k <= l)
    OBVIOUS
  <2>3. QED
    BY <1>2, <2>2
<1>4. a[k] < b[k] \/ b[k] < a[k]
  BY <1>1
<1>5. QED
  BY <1>1, <1>3, <1>4 DEF Precedes

\* An element whose key no other one precedes.
IsFirstBy(T, key, x) == x \in T /\ \A y \in T : ~Precedes(key[y], key[x])
FirstBy(T, key) == CHOOSE x \in T : \A y \in T : ~Precedes(key[y], key[x])

LEMMA FirstByIs ==
  ASSUME NEW S, IsFiniteSet(S), NEW m \in Nat, NEW key \in [S -> Keys(m)],
         NEW T \in SUBSET S, T # {}
  PROVE  IsFirstBy(T, key, FirstBy(T, key))
<1>1. PICK n \in Nat : n = Cardinality(S)
  BY FS_CardinalityType
<1> DEFINE Good == {k \in 0..n : \A U \in SUBSET S :
                       U # {} /\ Cardinality(U) = k => \E x : IsFirstBy(U, key, x)}
<1>2. 0 \in Good
  <2>1. ASSUME NEW U \in SUBSET S, Cardinality(U) = 0
        PROVE  U = {}
    <3>1. IsFiniteSet(U)
      BY FS_Subset
    <3>2. QED
      BY <2>1, <3>1, FS_EmptySet
  <2>2. QED
    BY <1>1, <2>1
<1>3. ASSUME NEW k \in 0..n, k \in Good, k < n
      PROVE  k + 1 \in Good
  <2>1. ASSUME NEW U \in SUBSET S, U # {}, Cardinality(U) = k + 1
        PROVE  \E x : IsFirstBy(U, key, x)
    <3>1. PICK u \in U : TRUE
      BY <2>1
    <3>2. PICK V \in SUBSET S : V = U \ {u}
      OBVIOUS
    <3>3. Cardinality(V) = k
      <4>1. IsFiniteSet(U)
        BY FS_Subset
      <4>2. Cardinality(V) = Cardinality(U) - 1
        BY <3>2, <4>1, FS_RemoveElement
      <4>3. QED
        BY <2>1, <4>2
    <3>4. /\ u \in S /\ key[u] \in Keys(m) /\ \A x \in V : x \in S /\ key[x] \in Keys(m)
      OBVIOUS
    <3>5. CASE V = {}
      <4>1. \A y \in U : y = u
        BY <3>2, <3>5
      <4>2. ~Precedes(key[u], key[u])
        BY <3>4, PrecedesIsStrict
      <4>3. IsFirstBy(U, key, u)
        BY <4>1, <4>2 DEF IsFirstBy
      <4>4. QED
        BY <4>3
    <3>6. CASE V # {}
      <4>1. PICK v : IsFirstBy(V, key, v)
        BY <1>3, <3>3, <3>6
      <4>2. v \in V /\ \A y \in V : ~Precedes(key[y], key[v])
        BY <4>1 DEF IsFirstBy
      <4>3. CASE Precedes(key[u], key[v])
        <5>1. ASSUME NEW y \in U, Precedes(key[y], key[u])
              PROVE  FALSE
          <6>1. y # u
            BY <5>1, <3>4, PrecedesIsStrict
          <6>2. y \in V
            BY <6>1, <3>2
          <6>3. Precedes(key[y], key[v])
            BY <3>4, <4>2, <4>3, <5>1, <6>2, PrecedesIsStrict
          <6>4. QED
            BY <4>2, <6>2, <6>3
        <5>2. IsFirstBy(U, key, u)
          BY <5>1 DEF IsFirstBy
        <5>3. QED
          BY <5>2
      <4>4. CASE ~Precedes(key[u], key[v])
        <5>1. IsFirstBy(U, key, v)
          BY <3>2, <4>2, <4>4 DEF IsFirstBy
        <5>2. QED
          BY <5>1
      <4>5. QED
        BY <4>3, <4>4
    <3>7. QED
      BY <3>5, <3>6
  <2>2. k + 1 \in 0..n
    BY <1>3
  <2>3. QED
    BY <2>1, <2>2
<1>4. \A k \in 0..n : k \in Good
  <2> HIDE DEF Good
  <2>1. QED
    BY <1>2, <1>3, UpTo
<1>5. Cardinality(T) \in 0..n
  <2>1. Cardinality(T) \in Nat /\ Cardinality(T) <= Cardinality(S)
    BY FS_Subset, FS_CardinalityType
  <2>2. QED
    BY <1>1, <2>1
<1>6. PICK x : IsFirstBy(T, key, x)
  BY <1>4, <1>5
<1>7. x \in T /\ \A y \in T : ~Precedes(key[y], key[x])
  BY <1>6 DEF IsFirstBy
<1>8. QED
  BY <1>7, Zenon DEF FirstBy, IsFirstBy

\* s is a set in the order of keys: all of it, each element once.
Sorts(s, S, key) ==
  /\ s \in Seq(S) /\ Len(s) = Cardinality(S) /\ Range(s) = S
  /\ \A i, j \in 1..Len(s) : i < j => s[i] # s[j] /\ ~Precedes(key[s[j]], key[s[i]])

LEMMA OrderedByIs ==
  ASSUME NEW S, IsFiniteSet(S), NEW m \in Nat, NEW key \in [S -> Keys(m)]
  PROVE  Sorts(OrderedBy(S, key), S, key)
<1>1. PICK n \in Nat : n = Cardinality(S)
  BY FS_CardinalityType
<1>2. PICK s : s = OrderedBy(S, key)
  OBVIOUS
<1> DEFINE first == [T \in SUBSET S |-> FirstBy(T, key)]
           Body(g) == [T \in SUBSET (1..n) |->
                         IF T = {} THEN <<>>
                         ELSE Append(g[T \ {Max(T)}], FirstBy(S \ Range(g[T \ {Max(T)}]), key))]
           iter == CHOOSE g : g = Body(g)
           X == {first[T] : T \in SUBSET S}
<1>3. \A T \in SUBSET S : T # {} => first[T] \in T
  BY FirstByIs DEF IsFirstBy
<1>4. ASSUME NEW g, NEW T \in SUBSET (1..n)
      PROVE  Body(g)[T] = IF T = {} THEN <<>>
                          ELSE Append(g[T \ {Max(T)}], first[S \ Range(g[T \ {Max(T)}])])
  <2>1. S \ Range(g[T \ {Max(T)}]) \in SUBSET S
    OBVIOUS
  <2>2. first[S \ Range(g[T \ {Max(T)}])] = FirstBy(S \ Range(g[T \ {Max(T)}]), key)
    BY <2>1
  <2>3. QED
    BY <2>2
<1>5. PICK g \in [SUBSET (1..n) -> Seq(X)] : Picks(g, S, first)
  <2>1. first \in [SUBSET S -> X]
    OBVIOUS
  <2> HIDE DEF first, X
  <2>2. QED
    BY <1>1, <2>1, PickingExists
<1>6. g = Body(g)
  <2>1. \A T \in SUBSET (1..n) : g[T] = Body(g)[T]
    <3> HIDE DEF first, Body
    <3>1. QED
      BY <1>1, <1>4, <1>5 DEF Picks
  <2>2. DOMAIN g = SUBSET (1..n) /\ DOMAIN Body(g) = SUBSET (1..n)
    BY <1>5
  <2> HIDE DEF first
  <2>3. QED
    BY <1>5, <2>1
<1>7. iter = Body(iter)
  BY <1>6, Zenon
<1>8. s = iter[1..n]
  <2>1. DOMAIN CountUp(n) = 1..n
    BY DEF CountUp
  <2>2. QED
    BY <1>1, <1>2, <2>1, Zenon DEF OrderedBy, FoldLeft, MapThenFoldSet, FirstBy
<1> HIDE DEF iter
<1>9. Picks(iter, S, first)
  <2> HIDE DEF first, Body
  <2>1. QED
    BY <1>1, <1>4, <1>7 DEF Picks
<1>10. IsPicked(s, S, first)
  <2> HIDE DEF first
  <2>1. QED
    BY <1>1, <1>3, <1>8, <1>9, PickingIs
<1>11. ASSUME NEW i \in 1..Len(s), NEW j \in 1..Len(s), i < j
       PROVE  s[i] # s[j] /\ ~Precedes(key[s[j]], key[s[i]])
  <2>1. PICK T \in SUBSET S : T = Rest(S, s, i)
    BY DEF Rest
  <2>2. s[j] \in T /\ s[j] # s[i] /\ s[i] = first[T]
    <3> HIDE DEF first
    <3>1. QED
      BY <1>10, <1>11, <2>1, PickedOrder
  <2>3. s[i] = FirstBy(T, key)
    BY <2>2
  <2>4. IsFirstBy(T, key, s[i])
    BY <2>2, <2>3, FirstByIs
  <2>5. QED
    BY <2>2, <2>4 DEF IsFirstBy
<1>12. QED
  BY <1>2, <1>10, <1>11 DEF IsPicked, Sorts


\* Tuples as they are written are such tuples.
LEMMA KeyOfOne ==
  ASSUME NEW a \in Int
  PROVE  <<a>> \in Keys(1)
<1>1. 1..1 = {1} /\ <<a>> = [i \in {1} |-> a]
  OBVIOUS
<1>2. QED
  BY <1>1 DEF Keys

LEMMA KeyOfTwo ==
  ASSUME NEW a \in Int, NEW b \in Int
  PROVE  <<a, b>> \in Keys(2)
<1>1. <<a, b>> = [i \in 1..2 |-> IF i = 1 THEN a ELSE b]
  OBVIOUS
<1>2. QED
  BY <1>1 DEF Keys

LEMMA KeyOfFour ==
  ASSUME NEW a \in Int, NEW b \in Int, NEW c \in Int, NEW d \in Int
  PROVE  <<a, b, c, d>> \in Keys(4)
<1>1. <<a, b, c, d>> = [i \in 1..4 |-> IF i = 1 THEN a ELSE IF i = 2 THEN b
                                        ELSE IF i = 3 THEN c ELSE d]
  OBVIOUS
<1>2. QED
  BY <1>1 DEF Keys

LEMMA KeyOfFive ==
  ASSUME NEW a \in Int, NEW b \in Int, NEW c \in Int, NEW d \in Int, NEW e \in Int
  PROVE  <<a, b, c, d, e>> \in Keys(5)
<1>1. <<a, b, c, d, e>> = [i \in 1..5 |-> IF i = 1 THEN a ELSE IF i = 2 THEN b
                              ELSE IF i = 3 THEN c ELSE IF i = 4 THEN d ELSE e]
  OBVIOUS
<1>2. QED
  BY <1>1 DEF Keys

\* Keys one after another are a key.
LEMMA KeysJoin ==
  ASSUME NEW m \in Nat, NEW n \in Nat, NEW a \in Keys(m), NEW b \in Keys(n)
  PROVE  a \o b \in Keys(m + n)
<1>1. a \in Seq(Int) /\ Len(a) = m /\ b \in Seq(Int) /\ Len(b) = n
  BY LenProperties, SeqDef DEF Keys
<1>2. a \o b \in Seq(Int) /\ Len(a \o b) = m + n
  BY <1>1, ConcatProperties
<1>3. QED
  BY <1>2, LenProperties DEF Keys

\* A function on a finite set takes no more values than that.
LEMMA ImageIsFinite ==
  ASSUME NEW S, IsFiniteSet(S), NEW f, DOMAIN f = S, NEW T, T = {f[x] : x \in S}
  PROVE  IsFiniteSet(T) /\ Cardinality(T) <= Cardinality(S)
<1>1. PICK g : g = [x \in S |-> f[x]]
  OBVIOUS
<1>2. g \in [S -> T] /\ \A y \in T : \E x \in S : g[x] = y
  BY <1>1
<1>3. g \in Surjection(S, T)
  BY <1>2 DEF Surjection
<1>4. QED
  BY <1>3, FS_Surjection

-----------------------------------------------------------------------------
(* Sequences that are filtered *)

\* The elements at some places, after i of all the places.
Gathers(t, s, places, i) ==
    /\ t \in Seq(Range(s)) /\ Len(t) =< i
    /\ Range(t) = {s[j] : j \in {l \in 1..i : l \in places}}

\* What is at some places of a sequence.
LEMMA AtPlacesIs ==
  ASSUME NEW S, NEW s \in Seq(S), NEW places
  PROVE  Gathers(AtPlaces(s, places), s, places, Len(s))
<1>1. PICK n \in Nat : n = Len(s) /\ DOMAIN s = 1..n
  BY LenProperties
<1> DEFINE X == Seq(Range(s))
           one(t, i) == IF i \in places THEN Append(t, s[i]) ELSE t
           step == [i \in 1..n |-> [t \in X |-> one(t, i)]]
           Body(g) == [i \in 0..n |-> IF i = 0 THEN <<>> ELSE one(g[i - 1], i)]
           run == CHOOSE g : g = Body(g)
<1>2. AtPlaces(s, places) = run[n]
  BY <1>1, Zenon DEF AtPlaces
<1>3. \A i \in 1..n : s[i] \in Range(s)
  BY <1>1 DEF Range
<1>4. <<>> \in X
  OBVIOUS
<1>5. \A i \in 1..n, t \in X : one(t, i) \in X
  BY <1>3
<1>6. PICK g \in [0..n -> X] : Iterates(g, <<>>, step, n)
  <2>1. step \in [1..n -> [X -> X]]
    <3> HIDE DEF X, one
    <3>1. QED
      BY <1>5
  <2> HIDE DEF X, step
  <2>2. QED
    BY <1>4, <2>1, Recursion
<1>7. g[0] = <<>> /\ \A i \in 1..n : g[i - 1] \in X /\ g[i] = one(g[i - 1], i)
  <2>1. \A i \in 1..n : i - 1 \in 0..n
    OBVIOUS
  <2>2. \A i \in 1..n : g[i - 1] \in X
    BY <1>6, <2>1
  <2> HIDE DEF X, one
  <2>3. QED
    BY <1>6, <2>2 DEF Iterates
<1>8. g = Body(g)
  <2>1. \A i \in 0..n : i # 0 => i \in 1..n
    OBVIOUS
  <2>2. \A i \in 0..n : g[i] = IF i = 0 THEN <<>> ELSE one(g[i - 1], i)
    <3> HIDE DEF X, one
    <3>1. QED
      BY <1>7, <2>1
  <2>3. DOMAIN g = 0..n
    BY <1>6
  <2> HIDE DEF one, X
  <2>4. QED
    BY <1>6, <2>2, <2>3
<1>9. run = Body(run)
  BY <1>8, Zenon
<1>10. run[0] = <<>> /\ \A i \in 1..n : run[i] = one(run[i - 1], i)
  <2>1. \A i \in 1..n : i \in 0..n /\ i # 0
    OBVIOUS
  <2>2. 0 \in 0..n
    OBVIOUS
  <2> HIDE DEF run, one
  <2>3. QED
    BY <1>9, <2>1, <2>2
<1> HIDE DEF run
<1> DEFINE K == {i \in 0..n : Gathers(run[i], s, places, i)}
<1>11. 0 \in K
  <2>1. Range(<<>>) = {} /\ {l \in 1..0 : l \in places} = {} /\ Len(<<>>) =< 0
    BY DEF Range
  <2>2. Range(<<>>) = {s[j] : j \in {l \in 1..0 : l \in places}}
    BY <2>1
  <2>3. Gathers(run[0], s, places, 0)
    BY <1>4, <1>10, <2>1, <2>2, Zenon DEF Gathers
  <2>4. QED
    BY <2>3
<1>12. ASSUME NEW i \in 0..n, i \in K, i < n
       PROVE  i + 1 \in K
  <2>1. PICK k, t : k = i + 1 /\ t = run[i]
    OBVIOUS
  <2>2. k \in 1..n /\ k \in 0..n /\ k - 1 = i /\ run[k] = one(t, k)
    BY <1>10, <1>12, <2>1
  <2>3. /\ t \in X /\ Len(t) =< i /\ Len(t) \in Nat
        /\ Range(t) = {s[j] : j \in {l \in 1..i : l \in places}}
    BY <1>12, <2>1 DEF Gathers
  <2>4. CASE k \in places
    <3>1. run[k] = Append(t, s[k]) /\ s[k] \in Range(s)
      BY <1>3, <2>2, <2>4
    <3>2. Range(Append(t, s[k])) = Range(t) \cup {s[k]}
      BY <2>3, RangeAppend
    <3>3. {l \in 1..k : l \in places} = {l \in 1..i : l \in places} \cup {k}
      <4>1. i \in Nat /\ k = i + 1 /\ 1..k = (1..i) \cup {k}
        BY ONLY i \in 0..n, n \in Nat, <2>1, <2>2
      <4>2. QED
        BY ONLY <2>4, <4>1
    <3>4. Range(run[k]) = {s[j] : j \in {l \in 1..k : l \in places}}
      BY <2>3, <3>1, <3>2, <3>3
    <3>5. run[k] \in X /\ Len(run[k]) =< k
      <4>1. Append(t, s[k]) \in X /\ Len(Append(t, s[k])) = Len(t) + 1
        BY <2>3, <3>1
      <4>2. QED
        BY ONLY i \in 0..n, n \in Nat, <2>1, <2>3, <3>1, <4>1
    <3>6. QED
      BY <2>1, <2>2, <3>4, <3>5 DEF Gathers
  <2>5. CASE k \notin places
    <3>1. run[k] = t
      BY <2>2, <2>5
    <3>2. {l \in 1..k : l \in places} = {l \in 1..i : l \in places}
      <4>1. i \in Nat /\ k = i + 1 /\ 1..k = (1..i) \cup {k}
        BY ONLY i \in 0..n, n \in Nat, <2>1, <2>2
      <4>2. QED
        BY ONLY <2>5, <4>1
    <3>3. Range(t) = {s[j] : j \in {l \in 1..k : l \in places}}
      BY <2>3, <3>2, Zenon
    <3>3a. Len(t) =< k
      BY <2>1, <2>2, <2>3
    <3>4. Gathers(run[k], s, places, k)
      BY <2>3, <3>1, <3>3, <3>3a, Zenon DEF Gathers
    <3>5. QED
      BY <2>1, <2>2, <3>4
  <2>6. QED
    BY <2>4, <2>5
<1>13. \A i \in 0..n : i \in K
  <2> HIDE DEF K
  <2>1. QED
    BY <1>11, <1>12, UpTo
<1>14. Gathers(run[n], s, places, n)
  BY <1>13
<1>15. QED
  BY <1>1, <1>2, <1>14

\* A sequence holds finitely many things.
LEMMA RangeIsFinite ==
  ASSUME NEW S, NEW s \in Seq(S)
  PROVE  IsFiniteSet(Range(s))
<1>1. PICK n \in Nat : n = Len(s) /\ DOMAIN s = 1..n
  BY LenProperties
<1>2. IsFiniteSet(1..n)
  BY FS_Interval
<1>3. PICK T : T = Range(s)
  OBVIOUS
<1>4. s \in [1..n -> T] /\ \A y \in T : \E i \in 1..n : s[i] = y
  <2>1. s = [i \in 1..n |-> s[i]]
    BY <1>1, SeqDef
  <2>2. \A i \in 1..n : s[i] \in T
    BY <1>1, <1>3 DEF Range
  <2>3. \A y \in T : \E i \in 1..n : s[i] = y
    BY <1>1, <1>3 DEF Range
  <2>4. QED
    BY <2>1, <2>2, <2>3
<1>5. s \in Surjection(1..n, T)
  BY <1>4 DEF Surjection
<1>6. QED
  BY <1>2, <1>3, <1>5, FS_Surjection

\* Truncating leaves the first elements.
LEMMA TruncateIs ==
  ASSUME NEW S, NEW s \in Seq(S), NEW n \in Nat
  PROVE  Truncate(s, n) \in Seq(S) /\ Range(Truncate(s, n)) \subseteq Range(s)
<1>1. PICK m \in Nat : m = Len(s) /\ DOMAIN s = 1..m
  BY LenProperties
<1>2. PICK k \in 0..m : k = Smaller(n, m)
  BY DEF Smaller
<1>3. Truncate(s, n) = SubSeq(s, 1, k)
  BY <1>1, <1>2 DEF Truncate, Take
<1>4. SubSeq(s, 1, k) = [i \in 1..k |-> s[i]]
  BY <1>1, <1>2, SMT
<1>5. \A i \in 1..k : s[i] \in S
  BY <1>1, ElementOfSeq
<1>6. SubSeq(s, 1, k) \in Seq(S)
  BY <1>4, <1>5, SeqDef
<1>7. Range(SubSeq(s, 1, k)) \subseteq Range(s)
  BY <1>1, <1>4 DEF Range
<1>8. QED
  BY <1>3, <1>6, <1>7

\* What is left of a sequence, and what is taken from it.
LEMMA RestIs ==
  ASSUME NEW S, NEW s \in Seq(S), NEW k \in 0..Len(s)
  PROVE  /\ SubSeq(s, 1, Len(s)) = s
         /\ SubSeq(s, k + 1, Len(s)) # <<>> =>
                /\ k + 1 \in 1..Len(s) /\ SubSeq(s, k + 1, Len(s))[1] = s[k + 1]
                /\ Tail(SubSeq(s, k + 1, Len(s))) = SubSeq(s, (k + 1) + 1, Len(s))
         /\ SubSeq(s, k + 1, Len(s)) = <<>> => k = Len(s)
<1>1. PICK n \in Nat : n = Len(s) /\ DOMAIN s = 1..n
  BY LenProperties
<1>2. SubSeq(s, 1, n) = s
  BY <1>1, SMT
<1>3. k \in 0..n
  BY <1>1
<1>4. PICK r : r = SubSeq(s, k + 1, n)
  OBVIOUS
<1>5. r = [i \in 1..(n - k) |-> s[k + i]] /\ r \in Seq(S) /\ Len(r) = n - k
  BY <1>1, <1>3, <1>4, SMT
<1>6. r = <<>> => k = n
  BY <1>3, <1>5
<1>7. ASSUME r # <<>>
      PROVE  k + 1 \in 1..n /\ r[1] = s[k + 1] /\ Tail(r) = SubSeq(s, (k + 1) + 1, n)
  <2>1. k < n
    <3>1. Len(r) # 0
      BY <1>5, <1>7, EmptySeq
    <3>2. QED
      BY <1>3, <1>5, <3>1
  <2>2. k + 1 \in 1..n /\ r[1] = s[k + 1]
    BY <1>3, <1>5, <2>1
  <2>3. Tail(r) = [i \in 1..(n - k - 1) |-> s[k + 1 + i]]
    <3>1. /\ Tail(r) \in Seq(S) /\ Len(Tail(r)) = n - k - 1
          /\ \A i \in 1..(n - k - 1) : Tail(r)[i] = r[i + 1]
      BY <1>3, <1>5, <1>7, <2>1, HeadTailProperties
    <3>2. \A i \in 1..(n - k - 1) : i + 1 \in 1..(n - k) /\ k + (i + 1) = k + 1 + i
      BY <1>3
    <3>3. \A i \in 1..(n - k - 1) : Tail(r)[i] = s[k + 1 + i]
      BY <1>5, <3>1, <3>2
    <3>4. Tail(r) = [i \in 1..(n - k - 1) |-> Tail(r)[i]]
      BY <3>1, LenProperties
    <3>5. QED
      BY <3>3, <3>4
  <2>4. SubSeq(s, (k + 1) + 1, n) = [i \in 1..(n - k - 1) |-> s[k + 1 + i]]
    BY <1>1, <1>3, <2>1, SMT
  <2>5. QED
    BY <2>2, <2>3, <2>4
<1>8. QED
  BY <1>1, <1>2, <1>4, <1>6, <1>7
=============================================================================
