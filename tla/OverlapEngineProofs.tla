-------------------------- MODULE OverlapEngineProofs --------------------------
(***************************************************************************)
(* Proofs about building an index and searching a batch, for all texts,    *)
(* configurations, hash functions and batches: winnowing keeps exactly the *)
(* rightmost minimum of every window of fingerprints, so that a passage    *)
(* two texts share leaves a fingerprint in common; what is saved is loaded *)
(* as it was, and what loads is sound whatever happened to the file; and a *)
(* batch answers as its queries do one after another.                      *)
(***************************************************************************)
EXTENDS OverlapEngine, BasicsProofs

-----------------------------------------------------------------------------
(* Winnowing one sequence of fingerprints *)

Window(w, i) == Larger(i + 1 - w, 1)..i

\* The positions of the window that are smaller than all that follow.
Ladder(f, w, i) == {j \in Window(w, i) : \A k \in (j + 1)..i : f[j] < f[k]}

\* What RightmostMinimum chooses exists, and is one.
IsRightmostMinimum(f, S, i) ==
    i \in S /\ \A j \in S : f[i] < f[j] \/ (f[i] = f[j] /\ j =< i)

LEMMA RightmostMinimumIs ==
  ASSUME NEW n \in Nat, NEW f \in [1..n -> Nat], NEW S \in SUBSET (1..n), S # {}
  PROVE  /\ IsRightmostMinimum(f, S, RightmostMinimum(f, S))
         /\ \A i \in S : IsRightmostMinimum(f, S, i) => i = RightmostMinimum(f, S)
<1>1. PICK m \in {f[j] : j \in S} : \A v \in {f[j] : j \in S} : m =< v
  <2>1. {f[j] : j \in S} \in SUBSET Nat /\ {f[j] : j \in S} # {}
    OBVIOUS
  <2>2. QED
    BY <2>1, Least
<1>2. PICK r \in {j \in S : f[j] = m} : \A j \in {k \in S : f[k] = m} : j =< r
  <2>1. {j \in S : f[j] = m} # {}
    BY <1>1
  <2>2. \A j \in S : j \in 0..n
    OBVIOUS
  <2>3. {j \in S : f[j] = m} \in SUBSET (0..n)
    BY <2>2
  <2>4. QED
    BY <2>1, <2>3, Greatest
<1>3. IsRightmostMinimum(f, S, r)
  <2>1. ASSUME NEW j \in S
        PROVE  f[r] < f[j] \/ (f[r] = f[j] /\ j =< r)
    <3>1. f[r] = m /\ f[r] =< f[j] /\ f[j] \in Nat /\ f[r] \in Nat
      BY <1>1, <1>2
    <3>2. f[j] = m => j =< r
      BY <1>2
    <3>3. QED
      BY <3>1, <3>2
  <2>2. QED
    BY <2>1 DEF IsRightmostMinimum
<1>4. IsRightmostMinimum(f, S, RightmostMinimum(f, S))
  BY <1>3 DEF IsRightmostMinimum, RightmostMinimum
<1>5. ASSUME NEW i \in S, IsRightmostMinimum(f, S, i)
      PROVE  i = RightmostMinimum(f, S)
  <2>0. PICK c : c = RightmostMinimum(f, S)
    OBVIOUS
  <2>1. c \in S /\ i \in 1..n /\ c \in 1..n /\ f[i] \in Nat /\ f[c] \in Nat
    BY <2>0, <1>4 DEF IsRightmostMinimum
  <2>2. f[i] < f[c] \/ (f[i] = f[c] /\ c =< i)
    BY <1>5, <2>1 DEF IsRightmostMinimum
  <2>3. f[c] < f[i] \/ (f[i] = f[c] /\ i =< c)
    BY <2>0, <2>1, <1>4 DEF IsRightmostMinimum
  <2>4. QED
    BY <2>0, <2>1, <2>2, <2>3
<1>6. QED
  BY <1>4, <1>5

\* The least of a set of numbers is in it, and no other is less.
LEMMA MinIs ==
  ASSUME NEW T \in SUBSET Nat, NEW m \in T, \A y \in T : m =< y
  PROVE  Min(T) = m
<1>1. Min(T) \in T /\ \A y \in T : Min(T) =< y
  BY DEF Min
<1>2. Min(T) =< m /\ m =< Min(T) /\ Min(T) \in Nat /\ m \in Nat
  BY <1>1
<1>3. QED
  BY <1>2

\* Pushing the next position makes of a ladder the ladder of the next window.
LEMMA PushLadder ==
  ASSUME NEW n \in Nat, NEW f \in [1..n -> Nat], NEW w \in Nat \ {0}, NEW i \in 1..n
  PROVE  Push(f, w, Ladder(f, w, i - 1), i) = Ladder(f, w, i)
<1> DEFINE old == Ladder(f, w, i - 1)
<1>1. ASSUME NEW j \in old
      PROVE  /\ j \in Nat /\ 1 =< j /\ j =< i - 1 /\ j >= i - w
             /\ \A k \in (j + 1)..(i - 1) : f[j] < f[k]
  BY DEF Ladder, Window, Larger
<1>2. ASSUME NEW j
      PROVE  j \in PopBack(f, old, i) <=> j \in old /\ f[j] < f[i]
  <2>1. ASSUME j \in PopBack(f, old, i)
        PROVE  j \in old /\ f[j] < f[i]
    <3>1. j \in old
      BY <2>1 DEF PopBack
    <3>2. PICK k \in old : j =< k /\ f[k] < f[i]
      BY <2>1 DEF PopBack
    <3>3. j \in 1..n /\ k \in 1..n /\ k =< i - 1 /\ f[j] \in Nat /\ f[k] \in Nat /\ f[i] \in Nat
      BY <3>1, <1>1
    <3>4. j = k \/ k \in (j + 1)..(i - 1)
      BY <3>2, <3>3
    <3>5. f[j] =< f[k]
      BY <3>1, <3>3, <3>4, <1>1
    <3>6. QED
      BY <3>1, <3>2, <3>3, <3>5
  <2>2. ASSUME j \in old, f[j] < f[i]
        PROVE  j \in PopBack(f, old, i)
    <3>1. j =< j
      BY <2>2, <1>1
    <3>2. QED
      BY <2>2, <3>1 DEF PopBack
  <2>3. QED
    BY <2>1, <2>2
<1>3. ASSUME NEW j \in Push(f, w, old, i)
      PROVE  j \in Ladder(f, w, i)
  <2>1. j >= i + 1 - w /\ (j = i \/ (j \in old /\ f[j] < f[i]))
    BY <1>2 DEF Push
  <2>2. j \in Window(w, i)
    BY <2>1, <1>1 DEF Window, Larger
  <2>3. ASSUME NEW k \in (j + 1)..i
        PROVE  f[j] < f[k]
    <3>1. j # i
      BY <2>3
    <3>2. k = i \/ k \in (j + 1)..(i - 1)
      BY <2>2 DEF Window
    <3>3. QED
      BY <3>1, <3>2, <2>1, <1>1
  <2>4. QED
    BY <2>2, <2>3 DEF Ladder
<1>4. ASSUME NEW j \in Ladder(f, w, i)
      PROVE  j \in Push(f, w, old, i)
  <2>1. j \in Nat /\ 1 =< j /\ j =< i /\ j >= i + 1 - w /\ \A k \in (j + 1)..i : f[j] < f[k]
    BY DEF Ladder, Window, Larger
  <2>2. j # i => j \in old /\ f[j] < f[i]
    <3> SUFFICES ASSUME j # i
                 PROVE  j \in old /\ f[j] < f[i]
      OBVIOUS
    <3>1. j \in Window(w, i - 1)
      BY <2>1 DEF Window, Larger
    <3>2. i \in (j + 1)..i /\ \A k \in (j + 1)..(i - 1) : k \in (j + 1)..i
      BY <2>1
    <3>3. QED
      BY <3>1, <3>2, <2>1 DEF Ladder
  <2>3. QED
    BY <2>1, <2>2, <1>2 DEF Push
<1>5. QED
  BY <1>3, <1>4

\* The front of the ladder is the rightmost minimum of the window.
LEMMA LadderFront ==
  ASSUME NEW n \in Nat, NEW f \in [1..n -> Nat], NEW w \in Nat \ {0}, NEW i \in 1..n
  PROVE  /\ Min(Ladder(f, w, i)) = RightmostMinimum(f, Window(w, i))
         /\ RightmostMinimum(f, Window(w, i)) \in Window(w, i)
<1> DEFINE r == RightmostMinimum(f, Window(w, i))
<1>1. Window(w, i) \in SUBSET (1..n) /\ i \in Window(w, i)
  BY DEF Window, Larger
<1>2. IsRightmostMinimum(f, Window(w, i), r)
  BY <1>1, RightmostMinimumIs
<1> HIDE DEF r
<1>3. r \in Window(w, i) /\ r \in 1..n /\ f[r] \in Nat
  BY <1>1, <1>2 DEF IsRightmostMinimum
<1>4. r \in Ladder(f, w, i)
  <2>1. ASSUME NEW k \in (r + 1)..i
        PROVE  f[r] < f[k]
    <3>1. k \in Window(w, i) /\ ~(k =< r)
      BY <1>3 DEF Window, Larger
    <3>2. QED
      BY <3>1, <1>2 DEF IsRightmostMinimum
  <2>2. QED
    BY <1>3, <2>1 DEF Ladder
<1>5. ASSUME NEW j \in Ladder(f, w, i)
      PROVE  r =< j
  <2>1. j \in Window(w, i) /\ j \in 1..n /\ f[j] \in Nat
    BY <1>1 DEF Ladder
  <2>2. f[r] =< f[j]
    BY <2>1, <1>2, <1>3 DEF IsRightmostMinimum
  <2>3. j < r => f[j] < f[r]
    <3>1. j < r => r \in (j + 1)..i
      BY <2>1, <1>3 DEF Window
    <3>2. QED
      BY <3>1 DEF Ladder
  <2>4. QED
    BY <1>3, <2>1, <2>2, <2>3
<1>6. Ladder(f, w, i) \in SUBSET Nat
  BY <1>1 DEF Ladder
<1>7. QED
  BY <1>3, <1>4, <1>5, <1>6, MinIs DEF r

\* The windows of a text that a scan visits, one by one.
LEMMA MinimaGrow ==
  ASSUME NEW f \in Seq(Nat), NEW w \in Nat \ {0}, w =< Len(f), NEW i \in 1..Len(f)
  PROVE  /\ i < w => Minima(f, w, i) = {} /\ Minima(f, w, i - 1) = {}
         /\ i >= w => Minima(f, w, i) =
                         Minima(f, w, i - 1) \cup {RightmostMinimum(f, Window(w, i))}
<1>0. PICK n : n = Len(f) /\ n \in Nat
  OBVIOUS
<1>1. Larger(Smaller(w, n), 1) = w /\ Smaller(w, n) = w
  BY <1>0 DEF Larger, Smaller
<1>2. \A m : Minima(f, w, m) = {RightmostMinimum(f, (k + 1 - w)..k) : k \in w..m}
  BY <1>0, <1>1 DEF Minima
<1>3. CASE i < w
  <2>1. w..i = {} /\ w..(i - 1) = {}
    BY <1>0, <1>3
  <2>2. QED
    BY <1>2, <1>3, <2>1, <1>0
<1>4. CASE i >= w
  <2>1. w..i = (w..(i - 1)) \cup {i}
    BY <1>0, <1>4
  <2>2. Window(w, i) = (i + 1 - w)..i
    BY <1>0, <1>4 DEF Window, Larger
  <2>3. Minima(f, w, i) = {RightmostMinimum(f, (k + 1 - w)..k) : k \in (w..(i - 1)) \cup {i}}
    BY <1>2, <2>1
  <2>4. QED
    BY <1>0, <1>2, <1>4, <2>2, <2>3
<1>5. QED
  BY <1>0, <1>3, <1>4

\* Positions that are selected in increasing order.
Climbs(s) == \A j, k \in 1..Len(s) : j < k => s[j] < s[k]

\* One iteration: the deque stays the ladder, the selected positions stay the
\* minima of the windows seen so far, the last of them that of the last window.
Scans(f, w, s, i) ==
    /\ s.deque = Ladder(f, w, i)
    /\ s.selected \in Seq(Nat) /\ Range(s.selected) = Minima(f, w, i)
    /\ Climbs(s.selected)
    /\ s.selected # <<>> =>
        i > 0 /\ s.selected[Len(s.selected)] = RightmostMinimum(f, Window(w, i))

\* It climbs on with a greater one.
LEMMA ClimbsOn ==
  ASSUME NEW s \in Seq(Nat), Climbs(s), NEW x \in Nat, s # <<>> => s[Len(s)] < x
  PROVE  Climbs(Append(s, x)) /\ Append(s, x)[Len(Append(s, x))] = x
<1>1. PICK n \in Nat : n = Len(s)
  OBVIOUS
<1>2. PICK t : t = Append(s, x)
  OBVIOUS
<1>3. Len(t) = n + 1 /\ t[n + 1] = x /\ \A i \in 1..n : t[i] = s[i] /\ s[i] \in Nat
  BY <1>1, <1>2
<1>4. ASSUME NEW j \in 1..(n + 1), NEW k \in 1..(n + 1), j < k
      PROVE  t[j] < t[k]
  <2>1. j \in 1..n /\ j \in Nat /\ k \in Nat
    BY <1>1, <1>4
  <2>2. CASE k = n + 1
    <3>1. n \in 1..n /\ s # <<>>
      BY <1>1, <2>1
    <3>2. s[n] < x /\ (j = n \/ j < n)
      BY <1>1, <2>1, <3>1
    <3>3. s[j] =< s[n]
      BY <1>1, <1>3, <2>1, <3>1, <3>2 DEF Climbs
    <3>4. QED
      BY <1>3, <2>1, <2>2, <3>1, <3>2, <3>3
  <2>3. CASE k # n + 1
    <3>1. k \in 1..n
      BY <1>1, <2>1, <2>3
    <3>2. QED
      BY <1>1, <1>3, <1>4, <2>1, <3>1 DEF Climbs
  <2>4. QED
    BY <2>2, <2>3
<1>5. QED
  BY <1>2, <1>3, <1>4 DEF Climbs

\* The minima of the windows do not go back.
LEMMA FrontsAdvance ==
  ASSUME NEW n \in Nat, NEW f \in [1..n -> Nat], NEW w \in Nat \ {0}, NEW i \in 1..n, i > 1
  PROVE  RightmostMinimum(f, Window(w, i - 1)) =< RightmostMinimum(f, Window(w, i))
<1>1. PICK a, b : /\ a = RightmostMinimum(f, Window(w, i - 1))
                  /\ b = RightmostMinimum(f, Window(w, i))
  OBVIOUS
<1>2. i - 1 \in 1..n
  BY i > 1
<1>3. a = Min(Ladder(f, w, i - 1)) /\ a \in Window(w, i - 1)
      /\ b = Min(Ladder(f, w, i)) /\ b \in Window(w, i)
  BY <1>1, <1>2, LadderFront
<1>4. a \in Nat /\ b \in Nat /\ a =< i - 1
  BY <1>3 DEF Window, Larger
<1>5. PICK old, new : old = Ladder(f, w, i - 1) /\ new = Ladder(f, w, i)
  OBVIOUS
<1>6. old \in SUBSET Nat /\ new \in SUBSET Nat
  BY <1>5 DEF Ladder, Window, Larger
<1>7. \A y \in old : a =< y
  <2>1. ASSUME NEW y \in old
        PROVE  a =< y
    <3>1. PICK m \in old : \A z \in old : m =< z
      BY <1>6, Least
    <3>2. QED
      BY <1>3, <1>5, <1>6, <3>1, MinIs
  <2>2. QED
    BY <2>1
<1>8. b \in new
  <2>1. i \in new
    <3>1. i \in Window(w, i) /\ (i + 1)..i = {}
      BY DEF Window, Larger
    <3>2. QED
      BY <1>5, <3>1 DEF Ladder
  <2>2. PICK m \in new : \A z \in new : m =< z
    BY <1>6, <2>1, Least
  <2>3. QED
    BY <1>3, <1>5, <1>6, <2>2, MinIs
<1>9. b = i \/ b \in old
  <2>1. new = Push(f, w, old, i)
    BY <1>5, PushLadder
  <2>2. QED
    BY <1>8, <2>1 DEF Push, PopBack
<1>10. QED
  BY <1>1, <1>4, <1>7, <1>9

\* One more feature, one more window.
LEMMA AdvanceScans ==
  ASSUME NEW f \in Seq(Nat), NEW w \in Nat \ {0}, w =< Len(f), NEW i \in 1..Len(f),
         NEW s, Scans(f, w, s, i - 1)
  PROVE  Scans(f, w, Advance(f, w, s, i), i)
<1>0. PICK n, old, front : n = Len(f) /\ old = s.selected
                           /\ front = RightmostMinimum(f, Window(w, i))
  OBVIOUS
<1>1. n \in Nat /\ f \in [1..n -> Nat] /\ i \in 1..n /\ old \in Seq(Nat)
      /\ Range(old) = Minima(f, w, i - 1)
  BY <1>0 DEF Scans
<1>2. Push(f, w, s.deque, i) = Ladder(f, w, i)
  <2>1. s.deque = Ladder(f, w, i - 1)
    BY DEF Scans
  <2>2. Push(f, w, Ladder(f, w, i - 1), i) = Ladder(f, w, i)
    BY ONLY <1>1, w \in Nat \ {0}, PushLadder
  <2>3. QED
    BY ONLY <2>1, <2>2
<1>3. Min(Ladder(f, w, i)) = front /\ front \in Nat
  <2>1. /\ Min(Ladder(f, w, i)) = RightmostMinimum(f, Window(w, i))
        /\ RightmostMinimum(f, Window(w, i)) \in Window(w, i)
    BY ONLY <1>1, w \in Nat \ {0}, LadderFront
  <2>2. front \in Window(w, i) /\ Min(Ladder(f, w, i)) = front
    BY ONLY <1>0, <2>1
  <2>3. QED
    BY <2>2, <1>1 DEF Window, Larger
<1>4. /\ Advance(f, w, s, i).deque = Ladder(f, w, i)
      /\ Advance(f, w, s, i).selected = Emit(w, old, front, i)
  BY <1>0, <1>2, <1>3 DEF Advance
<1>5. Emit(w, old, front, i) \in Seq(Nat)
  BY <1>1, <1>3 DEF Emit
<1>6. Range(Emit(w, old, front, i)) = Minima(f, w, i)
  <2>1. CASE i < w
    <3>1. Emit(w, old, front, i) = old
      BY <2>1, <1>1 DEF Emit
    <3>2. QED
      BY <3>1, <2>1, <1>1, MinimaGrow
  <2>2. CASE i >= w /\ ~(old = <<>> \/ old[Len(old)] # front)
    <3>1. Emit(w, old, front, i) = old
      BY <2>2 DEF Emit
    <3>2. front \in Range(old)
      <4>1. Len(old) \in DOMAIN old
        BY <1>1, <2>2
      <4>2. QED
        BY <4>1, <2>2 DEF Range
    <3>3. Minima(f, w, i) = Minima(f, w, i - 1) \cup {front}
      BY <1>0, <2>2, MinimaGrow
    <3>4. QED
      BY <3>1, <3>2, <3>3, <1>1
  <2>3. CASE i >= w /\ (old = <<>> \/ old[Len(old)] # front)
    <3>1. Emit(w, old, front, i) = Append(old, front)
      BY <2>3 DEF Emit
    <3>2. Range(Append(old, front)) = Range(old) \cup {front}
      BY <1>1, RangeAppend
    <3>3. Minima(f, w, i) = Minima(f, w, i - 1) \cup {front}
      BY <1>0, <2>3, MinimaGrow
    <3>4. QED
      BY <3>1, <3>2, <3>3, <1>1
  <2>4. QED
    BY <1>1, <2>1, <2>2, <2>3
<1>7. /\ Climbs(old)
      /\ old # <<>> => i - 1 > 0 /\ old[Len(old)] = RightmostMinimum(f, Window(w, i - 1))
  BY <1>0 DEF Scans
<1>8. CASE i < w
  <2>1. Minima(f, w, i) = {} /\ Emit(w, old, front, i) = old
    BY <1>1, <1>8, MinimaGrow DEF Emit
  <2>2. old = <<>>
    <3>1. Range(old) = {}
      BY <1>6, <2>1
    <3>2. old # <<>> => Len(old) \in DOMAIN old
      BY <1>1
    <3>3. QED
      BY <3>1, <3>2 DEF Range
  <2>3. QED
    BY <1>4, <1>5, <1>6, <1>7, <2>1, <2>2 DEF Scans
<1>9. CASE i >= w /\ ~(old = <<>> \/ old[Len(old)] # front)
  <2>1. Emit(w, old, front, i) = old
    BY <1>9 DEF Emit
  <2>2. QED
    BY <1>0, <1>4, <1>5, <1>6, <1>7, <1>9, <2>1 DEF Scans
<1>10. CASE i >= w /\ (old = <<>> \/ old[Len(old)] # front)
  <2>1. Emit(w, old, front, i) = Append(old, front)
    BY <1>10 DEF Emit
  <2>2. old # <<>> => old[Len(old)] < front
    <3>1. HAVE old # <<>>
    <3>2. i > 1 /\ old[Len(old)] = RightmostMinimum(f, Window(w, i - 1))
      BY ONLY <1>1, <1>7, <3>1
    <3>3. RightmostMinimum(f, Window(w, i - 1)) =< RightmostMinimum(f, Window(w, i))
      BY ONLY <1>1, <3>2, w \in Nat \ {0}, FrontsAdvance
    <3>4. old[Len(old)] # front /\ old[Len(old)] \in Nat
      BY <1>1, <1>10, <3>1
    <3>5. QED
      BY ONLY <1>0, <1>3, <3>2, <3>3, <3>4
  <2>3. /\ Climbs(Append(old, front))
        /\ Append(old, front)[Len(Append(old, front))] = front
    BY <1>1, <1>3, <1>7, <2>2, ClimbsOn
  <2>4. QED
    BY <1>0, <1>1, <1>4, <1>5, <1>6, <2>1, <2>3 DEF Scans
<1>11. QED
  BY <1>1, <1>8, <1>9, <1>10

\* A scan that has not started has selected nothing.
LEMMA NotStartedScans ==
  ASSUME NEW f \in Seq(Nat), NEW w \in Nat \ {0}, w =< Len(f)
  PROVE  Scans(f, w, NotStarted, 0)
<1>1. Ladder(f, w, 0) = {}
  BY DEF Ladder, Window, Larger
<1>2. Minima(f, w, 0) = {}
  <2>1. 1 \in 1..Len(f) /\ 1 - 1 = 0
    OBVIOUS
  <2>2. Minima(f, w, 1 - 1) = {}
    <3>1. CASE w > 1
      BY <2>1, <3>1, MinimaGrow
    <3>2. CASE w = 1
      <4>1. Larger(Smaller(w, Len(f)), 1) = 1 /\ 1..0 = {}
        BY <3>2 DEF Larger, Smaller
      <4>2. QED
        BY <2>1, <4>1 DEF Minima
    <3>3. QED
      BY <3>1, <3>2
  <2>3. QED
    BY <2>1, <2>2
<1>3. Range(<<>>) = {}
  BY DEF Range
<1>4. NotStarted.deque = {} /\ NotStarted.selected = <<>> /\ <<>> \in Seq(Nat)
  BY DEF NotStarted
<1>5. Climbs(<<>>)
  BY DEF Climbs
<1>6. QED
  BY <1>1, <1>2, <1>3, <1>4, <1>5, Zenon DEF Scans

\* The texts that need no scan.
LEMMA WithoutScanCovers ==
  ASSUME NEW f \in Seq(Nat), NEW w \in Nat \ {0}, ~NeedsScan(f, w)
  PROVE  /\ WithoutScan(f, w) \in Seq(Nat) /\ Climbs(WithoutScan(f, w))
         /\ Range(WithoutScan(f, w)) = Minima(f, w, Len(f))
<1>0. PICK n : n = Len(f) /\ n \in Nat /\ f \in [1..n -> Nat]
  OBVIOUS
<1>1. CASE f = <<>>
  <2>1. Len(f) = 0 /\ WithoutScan(f, w) = <<>> /\ Larger(Smaller(w, 0), 1) = 1
    BY <1>1 DEF WithoutScan, Larger, Smaller
  <2>2. 1..0 = {} /\ Range(<<>>) = {}
    BY DEF Range
  <2>3. Minima(f, w, Len(f)) = {}
    BY <2>1, <2>2 DEF Minima
  <2>4. <<>> \in Seq(Nat) /\ Climbs(<<>>)
    BY DEF Climbs
  <2>5. QED
    BY <2>1, <2>2, <2>3, <2>4, Zenon
<1>2. CASE f # <<>> /\ w = 1
  <2>1. n > 0 /\ Larger(Smaller(w, n), 1) = 1 /\ Smaller(w, n) = 1
    BY <1>0, <1>2 DEF Larger, Smaller
  <2>2. WithoutScan(f, w) = [i \in 1..n |-> i]
    BY <1>0, <1>2 DEF WithoutScan
  <2>3. \A i \in 1..n : RightmostMinimum(f, (i + 1 - 1)..i) = i
    <3>1. TAKE i \in 1..n
    <3>2. (i + 1 - 1)..i = {i}
      OBVIOUS
    <3>3. QED
      BY <3>2 DEF RightmostMinimum
  <2>4. Minima(f, w, n) = {RightmostMinimum(f, (i + 1 - 1)..i) : i \in 1..n}
    BY <1>0, <2>1 DEF Minima
  <2>5. Range([i \in 1..n |-> i]) = 1..n
    BY DEF Range
  <2>6. Minima(f, w, n) = 1..n
    <3>1. ASSUME NEW v \in Minima(f, w, n)
          PROVE  v \in 1..n
      <4>1. PICK i \in 1..n : v = RightmostMinimum(f, (i + 1 - 1)..i)
        BY <2>4
      <4>2. QED
        BY <4>1, <2>3
    <3>2. ASSUME NEW i \in 1..n
          PROVE  i \in Minima(f, w, n)
      <4>1. RightmostMinimum(f, (i + 1 - 1)..i) \in Minima(f, w, n)
        BY <2>4
      <4>2. QED
        BY <4>1, <2>3
    <3>3. QED
      BY <3>1, <3>2
  <2>7. [i \in 1..n |-> i] \in Seq(Nat) /\ Climbs([i \in 1..n |-> i])
    <3>1. PICK s : s = [i \in 1..n |-> i]
      OBVIOUS
    <3>2. s \in Seq(Nat) /\ Len(s) = n /\ \A i \in 1..n : s[i] = i
      BY <1>0, <3>1
    <3>3. QED
      BY <3>1, <3>2 DEF Climbs
  <2>8. QED
    BY <1>0, <2>2, <2>5, <2>6, <2>7, Zenon
<1>3. CASE f # <<>> /\ w > 1
  <2>1. n > 0 /\ n < w /\ n \in Nat
    BY <1>0, <1>3 DEF NeedsScan
  <2>2. Larger(Smaller(w, n), 1) = n /\ Smaller(w, n) = n
    BY <2>1 DEF Larger, Smaller
  <2>3. PICK r : r = RightmostMinimum(f, 1..n)
    OBVIOUS
  <2>4. r \in Nat
    <3>1. 1..n \in SUBSET (1..n) /\ 1 \in 1..n
      BY <2>1
    <3>2. IsRightmostMinimum(f, 1..n, r)
      BY <3>1, <2>3, <1>0, RightmostMinimumIs
    <3>3. r \in 1..n
      BY <3>2 DEF IsRightmostMinimum
    <3>4. QED
      BY <3>3
  <2>5. WithoutScan(f, w) = <<r>>
    BY <1>0, <1>3, <2>3 DEF WithoutScan
  <2>6. Minima(f, w, n) = {RightmostMinimum(f, (i + 1 - n)..i) : i \in n..n}
    BY <1>0, <2>2 DEF Minima
  <2>7. n..n = {n} /\ (n + 1 - n)..n = 1..n
    BY <1>0
  <2>8. Minima(f, w, n) = {r}
    BY <2>3, <2>6, <2>7
  <2>9. Range(<<r>>) = {r} /\ Climbs(<<r>>)
    <3>1. Len(<<r>>) = 1 /\ 1..1 = {1} /\ DOMAIN <<r>> = {1}
      OBVIOUS
    <3>2. QED
      BY <3>1 DEF Range, Climbs
  <2>10. QED
    BY <1>0, <2>4, <2>5, <2>8, <2>9
<1>4. QED
  BY <1>1, <1>2, <1>3

\* The function that a search applies to its query selects what the scan of a
\* document does.
LEMMA WinnowedCovers ==
  ASSUME NEW f \in Seq(Nat), NEW w \in Nat \ {0}
  PROVE  /\ Winnowed(f, w) \in Seq(Nat) /\ Climbs(Winnowed(f, w))
         /\ Range(Winnowed(f, w)) = Minima(f, w, Len(f))
<1>1. CASE ~NeedsScan(f, w)
  BY <1>1, WithoutScanCovers DEF Winnowed
<1>2. CASE NeedsScan(f, w)
  <2>0. PICK n : n = Len(f) /\ n \in Nat
    OBVIOUS
  <2> DEFINE X == [deque : SUBSET Nat, selected : Seq(Nat)]
             step == [i \in 1..n |-> [s \in X |-> Advance(f, w, s, i)]]
             Body(g) == [i \in 0..n |-> IF i = 0 THEN NotStarted ELSE Advance(f, w, g[i - 1], i)]
             run == CHOOSE g : g = Body(g)
             S == {i \in 0..n : Scans(f, w, run[i], i)}
  <2>1. w =< n
    BY <2>0, <1>2 DEF NeedsScan
  <2>2. NotStarted \in X
    BY DEF NotStarted
  <2>3. ASSUME NEW i \in 1..n, NEW s \in X
        PROVE  Advance(f, w, s, i) \in X
    <3>0. s.deque \in SUBSET Nat /\ s.selected \in Seq(Nat) /\ i \in Nat
      BY <2>0
    <3>1. PICK deque \in SUBSET Nat : deque = Push(f, w, s.deque, i)
      <4>1. Push(f, w, s.deque, i) \in SUBSET Nat
        BY <3>0 DEF Push, PopBack
      <4>2. QED
        BY <4>1
    <3>2. i \in deque
      BY <3>1, <2>0 DEF Push
    <3>3. Min(deque) \in Nat
      <4>1. PICK m \in deque : \A y \in deque : m =< y
        BY <3>1, <3>2, Least
      <4>2. Min(deque) = m
        BY <4>1, MinIs
      <4>3. QED
        BY <4>2
    <3>4. Emit(w, s.selected, Min(deque), i) \in Seq(Nat)
      BY <3>0, <3>3 DEF Emit
    <3>5. QED
      BY <3>1, <3>4 DEF Advance
  <2>4. step \in [1..n -> [X -> X]]
    BY <2>3
  <2>5. \E g : g = Body(g)
    <3>1. PICK g \in [0..n -> X] : Iterates(g, NotStarted, step, n)
      <4> HIDE DEF X, step
      <4>1. QED
        BY <2>0, <2>2, <2>4, Recursion
    <3>2. ASSUME NEW i \in 0..n
          PROVE  g[i] = Body(g)[i]
      <4>1. CASE i = 0
        BY <3>1, <4>1 DEF Iterates
      <4>2. CASE i # 0
        <5>1. i \in 1..n /\ i - 1 \in 0..n
          BY <4>2, <2>0
        <5>2. g[i] = step[i][g[i - 1]] /\ g[i - 1] \in X
          BY <5>1, <3>1 DEF Iterates
        <5>3. step[i][g[i - 1]] = Advance(f, w, g[i - 1], i)
          BY <5>1, <5>2
        <5>4. QED
          BY <4>2, <5>2, <5>3
      <4>3. QED
        BY <4>1, <4>2
    <3>3. g = Body(g)
      <4> HIDE DEF X
      <4>1. QED
        BY <3>1, <3>2
    <3>4. QED
      BY <3>3
  <2>6. run = Body(run)
    BY <2>5
  <2>7. run[0] = NotStarted /\ \A i \in 1..n : run[i] = Advance(f, w, run[i - 1], i)
    <3> HIDE DEF run
    <3>1. run[0] = NotStarted
      BY <2>6, <2>0
    <3>2. ASSUME NEW i \in 1..n
          PROVE  run[i] = Advance(f, w, run[i - 1], i)
      <4>1. i \in 0..n /\ i # 0
        BY <2>0
      <4>2. QED
        BY <4>1, <2>6
    <3>3. QED
      BY <3>1, <3>2
  <2>8. Winnowed(f, w) = run[n].selected
    BY <1>2, <2>0 DEF Winnowed
  <2> HIDE DEF run, X, step, Body
  <2>9. 0 \in S
    BY <2>0, <2>1, <2>7, NotStartedScans
  <2>10. ASSUME NEW i \in 0..n, i \in S, i < n
         PROVE  i + 1 \in S
    <3>1. i + 1 \in 1..n /\ (i + 1) - 1 = i /\ i + 1 \in 0..n
      BY <2>10, <2>0
    <3>2. run[i + 1] = Advance(f, w, run[i], i + 1)
      BY <3>1, <2>7
    <3>3. Scans(f, w, run[i], (i + 1) - 1)
      BY <3>1, <2>10
    <3>4. Scans(f, w, run[i + 1], i + 1)
      BY <3>1, <3>2, <3>3, <2>0, <2>1, AdvanceScans
    <3>5. QED
      BY <3>1, <3>4
  <2>11. n \in S
    <3>1. \A i \in 0..n : i \in S
      <4> HIDE DEF S
      <4>1. QED
        BY <2>0, <2>9, <2>10, UpTo
    <3>2. QED
      BY <3>1, <2>0
  <2>12. Scans(f, w, run[n], n)
    BY <2>11
  <2>13. QED
    BY <2>0, <2>8, <2>12 DEF Scans
<1>3. QED
  BY <1>1, <1>2

\* A window that starts inside a text ends inside it.
LEMMA WindowFits ==
  ASSUME NEW w \in Nat \ {0}, NEW a \in Nat, NEW n \in Nat, a + w =< n
  PROVE  Larger(Smaller(w, n), 1) = w /\ Smaller(w, n) = w /\ a + w \in w..n
<1>1. Smaller(w, n) = w
  BY DEF Smaller
<1>2. Larger(w, 1) = w
  BY DEF Larger
<1>3. QED
  BY <1>1, <1>2

\* Two sequences of fingerprints with a window in common select the same place
\* of it.
LEMMA WindowsMeet ==
  ASSUME NEW f \in Seq(Nat), NEW g \in Seq(Nat), NEW w \in Nat \ {0},
         NEW a \in Nat, NEW b \in Nat, a + w =< Len(f), b + w =< Len(g),
         \A k \in 1..w : f[a + k] = g[b + k]
  PROVE  \E k \in 1..w : a + k \in Minima(f, w, Len(f)) /\ b + k \in Minima(g, w, Len(g))
<1>00. PICK m : m = Len(f) /\ m \in Nat /\ f \in [1..m -> Nat]
  BY LenProperties, Zenon
<1>01. PICK n : n = Len(g) /\ n \in Nat /\ g \in [1..n -> Nat]
  BY LenProperties, Zenon
<1>0. /\ m = Len(f) /\ m \in Nat /\ n = Len(g) /\ n \in Nat
      /\ f \in [1..m -> Nat] /\ g \in [1..n -> Nat] /\ a + w =< m /\ b + w =< n
  BY <1>00, <1>01
<1> DEFINE A == (a + 1)..(a + w)
           B == (b + 1)..(b + w)
<1>1. A \in SUBSET (1..m) /\ B \in SUBSET (1..n) /\ a + 1 \in A /\ b + 1 \in B
  BY <1>0
<1>2. PICK r : r = RightmostMinimum(f, A)
  OBVIOUS
<1>3. IsRightmostMinimum(f, A, r)
  <2> HIDE DEF A
  <2>1. m \in Nat /\ f \in [1..m -> Nat] /\ A \in SUBSET (1..m) /\ A # {}
    BY <1>0, <1>1
  <2>2. IsRightmostMinimum(f, A, RightmostMinimum(f, A))
    BY ONLY <2>1, RightmostMinimumIs
  <2>3. QED
    BY ONLY <1>2, <2>2
<1>4. PICK k \in 1..w : r = a + k
  <2>1. r \in A
    BY <1>3 DEF IsRightmostMinimum
  <2>2. r - a \in 1..w /\ r = a + (r - a)
    BY <2>1
  <2>3. QED
    BY <2>2
<1>5. IsRightmostMinimum(g, B, b + k)
  <2>1. b + k \in B
    OBVIOUS
  <2>2. ASSUME NEW j \in B
        PROVE  g[b + k] < g[j] \/ (g[b + k] = g[j] /\ j =< b + k)
    <3>1. PICK l \in 1..w : j = b + l
      <4>1. j - b \in 1..w /\ j = b + (j - b)
        OBVIOUS
      <4>2. QED
        BY <4>1
    <3>2. a + l \in A
      OBVIOUS
    <3>3. f[a + k] < f[a + l] \/ (f[a + k] = f[a + l] /\ a + l =< a + k)
      BY <3>2, <1>3, <1>4 DEF IsRightmostMinimum
    <3>4. QED
      BY <3>1, <3>3
  <2>3. QED
    BY <2>1, <2>2 DEF IsRightmostMinimum
<1>6. b + k = RightmostMinimum(g, B)
  <2>1. b + k \in B
    OBVIOUS
  <2> HIDE DEF B
  <2>2. QED
    BY <1>0, <1>1, <1>5, <2>1, RightmostMinimumIs
<1>7. a + k \in Minima(f, w, m)
  <2>1. Larger(Smaller(w, m), 1) = w /\ Smaller(w, m) = w /\ a + w \in w..m
    BY <1>0, WindowFits
  <2>2. (a + w + 1 - w)..(a + w) = A
    BY <1>0
  <2>3. QED
    BY <1>0, <1>2, <1>4, <2>1, <2>2 DEF Minima
<1>8. b + k \in Minima(g, w, n)
  <2>1. Larger(Smaller(w, n), 1) = w /\ Smaller(w, n) = w /\ b + w \in w..n
    BY <1>0, WindowFits
  <2>2. (b + w + 1 - w)..(b + w) = B
    BY <1>0
  <2>3. QED
    BY <1>0, <1>6, <2>1, <2>2 DEF Minima
<1>9. QED
  BY <1>0, <1>7, <1>8

-----------------------------------------------------------------------------
(* The features of a text *)

\* A hash is a number.
HashesAreNumbers == \A gram : Fingerprint(gram) \in Nat

GramHash(tokens, q, i) == Fingerprint(SubSeq(tokens, i, i + q - 1))

\* A function on the first numbers is a sequence.
LEMMA FunctionIsSeq ==
  ASSUME NEW S, NEW n \in Nat, NEW s \in [1..n -> S]
  PROVE  s \in Seq(S) /\ Len(s) = n /\ DOMAIN s = 1..n
  OBVIOUS

\* The features of a text.
LEMMA HashesOf ==
  ASSUME HashesAreNumbers, NEW T, NEW tokens \in Seq(T), NEW q \in Nat \ {0},
         NEW all, all = QGramHashes(tokens, q), NEW f, f = Fingerprints(all)
  PROVE  /\ f \in Seq(Nat) /\ Len(all) = Len(f) /\ DOMAIN all = 1..Len(f)
         /\ Len(tokens) >= q => Len(f) = Len(tokens) - q + 1
         /\ \A i \in 1..Len(f) : /\ f[i] = GramHash(tokens, q, i)
                                 /\ all[i] = [fingerprint |-> f[i], position |-> i - 1]
<1>0. PICK n : n = (IF Len(tokens) < q THEN 0 ELSE Len(tokens) - q + 1) /\ n \in Nat
  OBVIOUS
<1>1. all = [i \in 1..n |-> [fingerprint |-> GramHash(tokens, q, i),
                             position |-> i - 1]]
  <2>1. CASE Len(tokens) < q
    <3>1. 1..n = {}
      BY <1>0, <2>1
    <3>2. all = <<>>
      BY <2>1 DEF QGramHashes
    <3>3. QED
      BY <3>1, <3>2
  <2>2. CASE ~(Len(tokens) < q)
    BY <1>0, <2>2, Zenon DEF QGramHashes, GramHash
  <2>3. QED
    BY <2>1, <2>2
<1>2. f = [i \in 1..n |-> GramHash(tokens, q, i)]
  <2>1. f = [i \in DOMAIN all |-> all[i].fingerprint]
    BY DEF Fingerprints, MappedSeq
  <2>2. DOMAIN all = 1..n /\ \A i \in 1..n : all[i].fingerprint = GramHash(tokens, q, i)
    BY <1>1
  <2>3. QED
    BY <2>1, <2>2
<1>3. f \in [1..n -> Nat]
  BY <1>2 DEF HashesAreNumbers, GramHash
<1>4. f \in Seq(Nat) /\ Len(f) = n /\ Len(all) = n /\ DOMAIN all = 1..n
  <2>1. \A i \in 1..n : [fingerprint |-> GramHash(tokens, q, i),
                         position |-> i - 1] \in [fingerprint : Nat, position : Nat]
    BY DEF HashesAreNumbers, GramHash
  <2>2. all \in [1..n -> [fingerprint : Nat, position : Nat]]
    BY <1>1, <2>1
  <2>3. Len(all) = n /\ DOMAIN all = 1..n
    BY <2>2, <1>0, FunctionIsSeq
  <2>4. f \in Seq(Nat) /\ Len(f) = n
    BY <1>0, <1>3, FunctionIsSeq
  <2>5. QED
    BY <2>3, <2>4
<1>5. \A i \in 1..n : /\ f[i] = GramHash(tokens, q, i)
                      /\ all[i] = [fingerprint |-> f[i], position |-> i - 1]
  BY <1>1, <1>2
<1>6. QED
  BY <1>0, <1>4, <1>5

\* What positions select is what is at them.
LEMMA SelectedRange ==
  ASSUME NEW all, NEW positions
  PROVE  Range(Selected(all, positions)) = {all[i] : i \in Range(positions)}
  BY DEF Range, Selected

\* s after a and t after b have the next n tokens in common.
Common(s, a, t, b, n) ==
    a + n =< Len(s) /\ b + n =< Len(t) /\ \A k \in 1..n : s[a + k] = t[b + k]

\* So they have the hashes of the next w q-grams.
SameGrams(s, a, t, b, q, w) == \A k \in 1..w : GramHash(s, q, a + k) = GramHash(t, q, b + k)

\* A fingerprint is in both, as far from a in one as from b in the other.
Meet(X, a, Y, b) == \E x \in X, y \in Y :
    x.fingerprint = y.fingerprint /\ x.position - a = y.position - b

\* Two texts with a passage in common have its q-grams in common.
LEMMA GramsMeet ==
  ASSUME NEW T, NEW s \in Seq(T), NEW t \in Seq(T), NEW q \in Nat \ {0}, NEW w \in Nat \ {0},
         NEW a \in Nat, NEW b \in Nat, NEW length \in Nat, length = q + w - 1,
         Common(s, a, t, b, length)
  PROVE  SameGrams(s, a, t, b, q, w)
<1> SUFFICES ASSUME NEW k \in 1..w
             PROVE  GramHash(s, q, a + k) = GramHash(t, q, b + k)
  BY DEF SameGrams
<1>1. ASSUME NEW i \in 1..q
      PROVE  s[a + k + i - 1] = t[b + k + i - 1]
  <2>1. k + i - 1 \in 1..length
    OBVIOUS
  <2>2. s[a + (k + i - 1)] = t[b + (k + i - 1)]
    BY <2>1 DEF Common
  <2>3. a + (k + i - 1) = a + k + i - 1 /\ b + (k + i - 1) = b + k + i - 1
    OBVIOUS
  <2>4. QED
    BY <2>2, <2>3
<1>2. ASSUME NEW u \in Seq(T), NEW c \in Nat, c + length =< Len(u)
      PROVE  SubSeq(u, c + k, c + k + q - 1) = [i \in 1..q |-> u[c + k + i - 1]]
  <2>1. PICK n, first, last : n = Len(u) /\ first = c + k /\ last = c + k + q - 1
    OBVIOUS
  <2>2. n \in Nat /\ first \in Nat /\ last \in Nat /\ first >= 1 /\ last =< n
        /\ last - first + 1 = q
    BY <2>1, <1>2
  <2>3. \A i \in first..last : u[i] \in T
    BY <2>1, <2>2
  <2>4. SubSeq(u, first, last) \in Seq(T) /\ Len(SubSeq(u, first, last)) = q
        /\ \A i \in 1..q : SubSeq(u, first, last)[i] = u[first + i - 1]
    BY <2>2, <2>3, SubSeqProperties
  <2>5. SubSeq(u, first, last) \in [1..q -> T]
    BY <2>4, LenProperties
  <2>6. SubSeq(u, first, last) = [i \in 1..q |-> u[first + i - 1]]
    BY <2>4, <2>5
  <2>7. QED
    BY <2>1, <2>6
<1>3. /\ SubSeq(s, a + k, a + k + q - 1) = [i \in 1..q |-> s[a + k + i - 1]]
      /\ SubSeq(t, b + k, b + k + q - 1) = [i \in 1..q |-> t[b + k + i - 1]]
  BY <1>2 DEF Common
<1>4. [i \in 1..q |-> s[a + k + i - 1]] = [i \in 1..q |-> t[b + k + i - 1]]
  BY <1>1
<1>5. QED
  BY <1>3, <1>4, Zenon DEF GramHash

\* The fingerprints f of the features all of s, and w windows of them after a.
Seen(all, f, s, q, w, a) ==
    /\ f \in Seq(Nat) /\ Len(f) \in Nat /\ a + w =< Len(f)
    /\ \A i \in 1..w : /\ a + i \in 1..Len(f)
                       /\ f[a + i] = GramHash(s, q, a + i)
                       /\ all[a + i].fingerprint = f[a + i]
                       /\ all[a + i].position - a = i - 1

\* The q-grams of a passage are among the features of its text.
LEMMA PassageIsSeen ==
  ASSUME HashesAreNumbers, NEW T, NEW s \in Seq(T), NEW q \in Nat \ {0}, NEW w \in Nat \ {0},
         NEW a \in Nat, NEW length \in Nat, length = q + w - 1, a + length =< Len(s),
         NEW all, all = QGramHashes(s, q), NEW f, f = Fingerprints(all)
  PROVE  Seen(all, f, s, q, w, a)
<1>1. PICK m, n : m = Len(s) /\ m \in Nat /\ n = Len(f)
  BY LenProperties, Zenon
<1>2. f \in Seq(Nat) /\ (Len(s) >= q => Len(f) = Len(s) - q + 1)
  BY ONLY HashesAreNumbers, s \in Seq(T), q \in Nat \ {0}, all = QGramHashes(s, q),
          f = Fingerprints(all), HashesOf
<1>3. Len(s) >= q => Len(f) = Len(s) - q + 1
  BY ONLY <1>2
<1>4. n \in Nat /\ a + w =< n
  <2>1. m >= q
    BY <1>1
  <2>2. QED
    BY <1>1, <1>3, <2>1
<1>5. \A i \in 1..Len(f) : /\ f[i] = GramHash(s, q, i)
                           /\ all[i] = [fingerprint |-> f[i], position |-> i - 1]
  BY HashesOf
<1>6. ASSUME NEW i \in 1..w
      PROVE  /\ a + i \in 1..n
             /\ f[a + i] = GramHash(s, q, a + i)
             /\ all[a + i].fingerprint = f[a + i]
             /\ all[a + i].position - a = i - 1
  <2>1. a + i \in 1..n
    BY <1>4
  <2>2. all[a + i] = [fingerprint |-> f[a + i], position |-> (a + i) - 1]
        /\ f[a + i] = GramHash(s, q, a + i)
    BY <1>1, <1>5, <2>1
  <2>3. all[a + i].fingerprint = f[a + i] /\ all[a + i].position = (a + i) - 1
    BY <2>2
  <2>4. (a + i) - 1 - a = i - 1
    OBVIOUS
  <2>5. QED
    BY <2>1, <2>2, <2>3, <2>4
<1>7. QED
  BY <1>1, <1>2, <1>4, <1>6 DEF Seen

\* Of a passage two texts share, both keep one q-gram in common.
LEMMA PassageIsKept ==
  ASSUME HashesAreNumbers, NEW T, NEW s \in Seq(T), NEW t \in Seq(T),
         NEW q \in Nat \ {0}, NEW w \in Nat \ {0}, NEW a \in Nat, NEW b \in Nat,
         NEW length \in Nat, length = q + w - 1, Common(s, a, t, b, length)
  PROVE  Meet(Range(Winnow(QGramHashes(s, q), w)), a, Range(Winnow(QGramHashes(t, q), w)), b)
<1>1. PICK all, f : all = QGramHashes(s, q) /\ f = Fingerprints(all)
  OBVIOUS
<1>2. PICK other, g : other = QGramHashes(t, q) /\ g = Fingerprints(other)
  OBVIOUS
<1>3. Seen(all, f, s, q, w, a)
  <2>1. a + length =< Len(s)
    BY DEF Common
  <2>2. QED
    BY <1>1, <2>1, PassageIsSeen
<1>4. Seen(other, g, t, q, w, b)
  <2>1. b + length =< Len(t)
    BY DEF Common
  <2>2. QED
    BY <1>2, <2>1, PassageIsSeen
<1>5. \A k \in 1..w : f[a + k] = g[b + k]
  <2>1. SameGrams(s, a, t, b, q, w)
    BY GramsMeet
  <2>2. QED
    BY <1>3, <1>4, <2>1, Zenon DEF Seen, SameGrams
<1>6. PICK k \in 1..w : a + k \in Minima(f, w, Len(f)) /\ b + k \in Minima(g, w, Len(g))
  BY <1>3, <1>4, <1>5, WindowsMeet DEF Seen
<1>7. /\ Range(Winnow(all, w)) = {all[i] : i \in Minima(f, w, Len(f))}
      /\ Range(Winnow(other, w)) = {other[i] : i \in Minima(g, w, Len(g))}
  <2>1. Range(Winnowed(f, w)) = Minima(f, w, Len(f))
        /\ Range(Winnowed(g, w)) = Minima(g, w, Len(g))
    BY <1>3, <1>4, WinnowedCovers, Zenon DEF Seen
  <2>2. Winnow(all, w) = Selected(all, Winnowed(f, w))
        /\ Winnow(other, w) = Selected(other, Winnowed(g, w))
    BY <1>1, <1>2, Zenon DEF Winnow
  <2>3. QED
    BY <2>1, <2>2, SelectedRange, Zenon
<1>8. all[a + k] \in Range(Winnow(all, w)) /\ other[b + k] \in Range(Winnow(other, w))
  BY <1>6, <1>7, Zenon
<1>9. all[a + k].fingerprint = other[b + k].fingerprint
      /\ all[a + k].position - a = other[b + k].position - b
  <2>1. all[a + k].fingerprint = f[a + k] /\ other[b + k].fingerprint = g[b + k]
        /\ all[a + k].position - a = k - 1 /\ other[b + k].position - b = k - 1
    BY <1>3, <1>4, Zenon DEF Seen
  <2>2. QED
    BY <1>5, <2>1, Zenon
<1>10. Meet(Range(Winnow(all, w)), a, Range(Winnow(other, w)), b)
  BY <1>8, <1>9, Zenon DEF Meet
<1>11. QED
  BY <1>1, <1>2, <1>10

\* The guarantee of winnowing (winnow.rs, search.rs): whatever the hash, two
\* texts with a passage of q + w - 1 tokens in common keep the fingerprint of
\* one q-gram at the same place of it, so that the passage is a candidate.
THEOREM PassagesMeet ==
  ASSUME HashesAreNumbers, NEW T, NEW s \in Seq(T), NEW t \in Seq(T), NEW config,
         config.q \in Nat \ {0}, config.window \in Nat \ {0}, NEW a \in Nat, NEW b \in Nat,
         Common(s, a, t, b, config.q + config.window - 1)
  PROVE  Meet(Range(Features(s, config)), a, Range(Features(t, config)), b)
<1>1. PICK q \in Nat \ {0}, w \in Nat \ {0} : q = config.q /\ w = config.window
  OBVIOUS
<1>2. PICK length \in Nat : length = q + w - 1
  OBVIOUS
<1>3. Common(s, a, t, b, length)
  BY <1>1, <1>2
<1>4. Meet(Range(Winnow(QGramHashes(s, q), w)), a, Range(Winnow(QGramHashes(t, q), w)), b)
  BY <1>2, <1>3, PassageIsKept
<1>5. QED
  BY <1>1, <1>4 DEF Features

-----------------------------------------------------------------------------
(* Texts and documents are sequences *)

IsSeq(s) == s \in Seq(Range(s))

\* A sequence of anything is a sequence.
LEMMA SeqIs ==
  ASSUME NEW S, NEW s \in Seq(S)
  PROVE  IsSeq(s)
<1>1. Len(s) \in Nat /\ s \in [1..Len(s) -> S] /\ DOMAIN s = 1..Len(s)
  BY LenProperties
<1>2. s \in [1..Len(s) -> Range(s)]
  BY <1>1 DEF Range
<1>3. QED
  BY <1>1, <1>2 DEF IsSeq

\* It grows at its end.
LEMMA AppendIs ==
  ASSUME NEW s, IsSeq(s), NEW x
  PROVE  /\ IsSeq(Append(s, x)) /\ Len(s) \in Nat /\ DOMAIN s = 1..Len(s)
         /\ Len(Append(s, x)) = Len(s) + 1 /\ DOMAIN Append(s, x) = 1..(Len(s) + 1)
         /\ \A i \in 1..Len(s) : Append(s, x)[i] = s[i]
         /\ Append(s, x)[Len(s) + 1] = x
<1> DEFINE S == Range(s) \cup {x}
<1>1. s \in Seq(S)
  <2>1. s \in Seq(Range(s))
    BY DEF IsSeq
  <2>2. Range(s) \subseteq S
    OBVIOUS
  <2>3. QED
    BY <2>1, <2>2, SeqMonotonic
<1>2. x \in S
  OBVIOUS
<1> HIDE DEF S
<1>3. Append(s, x) \in Seq(S) /\ Len(s) \in Nat /\ DOMAIN s = 1..Len(s)
      /\ Len(Append(s, x)) = Len(s) + 1 /\ DOMAIN Append(s, x) = 1..(Len(s) + 1)
      /\ (\A i \in 1..Len(s) : Append(s, x)[i] = s[i])
      /\ Append(s, x)[Len(s) + 1] = x
  BY <1>1, <1>2
<1>4. QED
  BY <1>3, SeqIs

\* A text without its last spaces is a text of the same characters.
LEMMA Trimmed ==
  ASSUME NEW C, NEW text \in Seq(C)
  PROVE  WithoutTrailingSpaces(text) \in Seq(C)
<1>1. PICK n : n = Len(text) /\ n \in Nat /\ DOMAIN text = 1..n
  BY LenProperties
<1> DEFINE ends == {0} \cup {i \in DOMAIN text : text[i] # Space}
<1>2. PICK m \in ends : \A y \in ends : y =< m
  <2>1. ends \in SUBSET (0..n) /\ ends # {}
    BY <1>1
  <2>2. QED
    BY <1>1, <2>1, Greatest
<1>3. PICK last : last = Max(ends)
  OBVIOUS
<1>4. last \in 0..n
  <2>1. \A y \in ends : m >= y
    <3>1. TAKE y \in ends
    <3>2. y \in 0..n /\ m \in 0..n /\ y =< m
      BY <1>1, <1>2
    <3>3. QED
      BY <3>2
  <2>2. Max(ends) \in ends
    <3> HIDE DEF ends
    <3>1. QED
      BY <2>1, Zenon DEF Max
  <2>3. QED
    BY <1>1, <1>3, <2>2
<1>5. \A i \in 1..last : text[i] \in C
  <2>1. \A i \in 1..last : i \in 1..n
    BY <1>1, <1>4
  <2>2. QED
    BY <1>1, <2>1, ElementOfSeq
<1>6. SubSeq(text, 1, last) \in Seq(C)
  BY <1>1, <1>4, <1>5, SubSeqProperties
<1>7. QED
  BY <1>3, <1>6 DEF WithoutTrailingSpaces

\* So is one with a character more.
LEMMA EmitIn ==
  ASSUME NEW C, Space \in C, NEW ch \in C, NEW out \in [text : Seq(C), space : BOOLEAN],
         NEW profile
  PROVE  EmitCharacter(out, ch, profile) \in [text : Seq(C), space : BOOLEAN]
<1>1. out.text \in Seq(C) /\ Append(out.text, ch) \in Seq(C) /\ Append(out.text, Space) \in Seq(C)
  OBVIOUS
<1>2. \A b : \A c \in {ch, Space} :
          EmitSpace(out, b, c) \in [text : Seq(C), space : BOOLEAN]
  BY <1>1 DEF EmitSpace
<1>3. QED
  BY <1>1, <1>2 DEF EmitCharacter

\* A normalized text is a sequence.
LEMMA NormalizeIs ==
  ASSUME NEW input, IsSeq(input), NEW profile
  PROVE  IsSeq(Normalize(input, profile))
<1>1. PICK n : n = Len(input) /\ n \in Nat /\ DOMAIN input = 1..n
  BY LenProperties DEF IsSeq
<1>2. PICK C : C = {Lowered(input[i], profile) : i \in 1..n} \cup {Space}
  OBVIOUS
<1> DEFINE X == [text : Seq(C), space : BOOLEAN]
           first == [text |-> <<>>, space |-> TRUE]
           step == [i \in 1..n |-> [o \in X |-> EmitCharacter(o, Lowered(input[i], profile), profile)]]
           Body(g) == [i \in 0..n |-> IF i = 0 THEN first
                                      ELSE EmitCharacter(g[i - 1], Lowered(input[i], profile),
                                                         profile)]
           out == CHOOSE g : g = Body(g)
<1>3. first \in X
  OBVIOUS
<1>4. ASSUME NEW i \in 1..n, NEW o \in X
      PROVE  EmitCharacter(o, Lowered(input[i], profile), profile) \in X
  <2>1. Lowered(input[i], profile) \in C /\ Space \in C
    BY <1>2
  <2>2. QED
    BY <2>1, EmitIn
<1>5. step \in [1..n -> [X -> X]]
  <2> HIDE DEF X
  <2>1. QED
    BY <1>4
<1>6. PICK g \in [0..n -> X] : Iterates(g, first, step, n)
  <2> HIDE DEF X, step, first
  <2>1. QED
    BY <1>1, <1>3, <1>5, Recursion
<1>7. g = Body(g)
  <2>1. ASSUME NEW i \in 0..n
        PROVE  g[i] = Body(g)[i]
    <3>1. CASE i = 0
      BY <1>6, <3>1 DEF Iterates
    <3>2. CASE i # 0
      <4>1. i \in 1..n /\ i - 1 \in 0..n
        BY <3>2, <1>1
      <4>2. g[i] = step[i][g[i - 1]] /\ g[i - 1] \in X
        BY <4>1, <1>6 DEF Iterates
      <4>3. step[i][g[i - 1]] = EmitCharacter(g[i - 1], Lowered(input[i], profile), profile)
        <5> HIDE DEF X
        <5>1. QED
          BY <4>1, <4>2
      <4>4. QED
        BY <3>2, <4>2, <4>3
    <3>3. QED
      BY <3>1, <3>2
  <2>2. QED
    <3> HIDE DEF X
    <3>1. QED
      BY <1>6, <2>1
<1>8. out = Body(out)
  BY <1>7
<1>9. Normalize(input, profile) = WithoutTrailingSpaces(out[n].text)
  BY <1>1, Zenon DEF Normalize
<1> DEFINE S == {i \in 0..n : out[i] \in X}
<1> HIDE DEF out, X
<1>10. 0 \in S
  <2>1. 0 \in 0..n
    BY <1>1
  <2>2. out[0] = first
    BY <1>8, <2>1
  <2>3. QED
    BY <2>1, <2>2, <1>3
<1>11. ASSUME NEW i \in 0..n, i \in S, i < n
       PROVE  i + 1 \in S
  <2>1. i + 1 \in 0..n /\ i + 1 \in 1..n /\ i + 1 # 0 /\ (i + 1) - 1 = i
    BY <1>1, <1>11
  <2>2. out[i + 1] = EmitCharacter(out[i], Lowered(input[i + 1], profile), profile)
    BY <1>8, <2>1
  <2>3. QED
    BY <1>4, <1>11, <2>1, <2>2
<1>12. out[n] \in X
  <2>1. \A i \in 0..n : i \in S
    <3> HIDE DEF S
    <3>1. QED
      BY <1>1, <1>10, <1>11, UpTo
  <2>2. QED
    BY <1>1, <2>1
<1>13. out[n].text \in Seq(C)
  BY <1>12 DEF X
<1>14. Normalize(input, profile) \in Seq(C)
  BY <1>9, <1>13, Trimmed
<1>15. QED
  BY <1>14, SeqIs

-----------------------------------------------------------------------------
(* The scan of the documents *)

All(d) == QGramHashes(documents[d], case.config.q)
Prints(d) == Fingerprints(All(d))
KeptMinima(d) == Range(kept[d]) = {All(d)[i] : i \in Minima(Prints(d), case.config.window,
                                                         Len(Prints(d)))}

\* The document that is being scanned, after next - 1 of its features.
ScanInv ==
    /\ Scanned =< Len(documents) /\ NeedsScan(Prints(Scanned), case.config.window)
    /\ next =< Len(Prints(Scanned)) + 1
    /\ Scans(Prints(Scanned), case.config.window, scan, next - 1)

BuildInv ==
    /\ case \in Cases
    /\ IsSeq(documents)
    /\ \A d \in DOMAIN documents : IsSeq(documents[d]) /\ Len(documents[d]) =< NarrowMax
    /\ IsSeq(kept) /\ Len(kept) =< Len(documents)
    /\ \A d \in DOMAIN kept : KeptMinima(d)
    /\ next \in Nat \ {0} /\ (next = 1 => scan = NotStarted)
    /\ stage = "adding" => kept = <<>> /\ next = 1
    /\ stage = "scanning" /\ next > 1 => ScanInv

\* It holds at first.
LEMMA BuildInit == Init => BuildInv
<1>1. IsSeq(<<>>) /\ Len(<<>>) = 0 /\ DOMAIN <<>> = {}
  BY DEF IsSeq
<1>2. QED
  BY <1>1 DEF Init, BuildInv

\* The numbers of a configuration are positive.
LEMMA ValidConfigIs ==
  ASSUME NEW config, ValidConfig(config)
  PROVE  config.window \in Nat \ {0} /\ config.q \in Nat \ {0}
<1>1. PICK q, w : q = config.q /\ w = config.window
  OBVIOUS
<1>2. q \in 2..64
  BY <1>1, SMT DEF ValidConfig
<1>3. w \in 1..4096
  BY <1>1, SMT DEF ValidConfig
<1>4. q \in Nat \ {0} /\ w \in Nat \ {0}
  BY <1>2, <1>3, SMT
<1>5. QED
  BY <1>1, <1>4

\* The configuration and the fingerprints of a document.
LEMMA ScannedPrints ==
  ASSUME HashesAreNumbers, BuildInv, NEW d \in DOMAIN documents
  PROVE  /\ case.config.window \in Nat \ {0} /\ case.config.q \in Nat \ {0}
         /\ Prints(d) \in Seq(Nat) /\ Len(All(d)) = Len(Prints(d))
<1>1. case.config.window \in Nat \ {0} /\ case.config.q \in Nat \ {0}
  <2>1. ValidConfig(case.config)
    BY CasesAssumption, Zenon DEF BuildInv
  <2>2. QED
    BY <2>1, ValidConfigIs
<1>2. documents[d] \in Seq(Range(documents[d]))
  BY DEF BuildInv, IsSeq
<1>3. PICK q \in Nat \ {0} : q = case.config.q
  BY <1>1
<1>4. Prints(d) \in Seq(Nat) /\ Len(All(d)) = Len(Prints(d))
  BY <1>2, <1>3, HashesOf DEF Prints, All
<1>5. QED
  BY <1>1, <1>4

\* The document that is scanned is one of the documents.
LEMMA ScannedIn ==
  ASSUME BuildInv, Scanning
  PROVE  Scanned \in DOMAIN documents
<1>1. Len(kept) \in Nat /\ Len(documents) \in Nat /\ DOMAIN documents = 1..Len(documents)
  BY LenProperties DEF BuildInv, IsSeq
<1>2. QED
  BY <1>1 DEF Scanned, Scanning

\* What is kept of a document, once its positions are the minima.
LEMMA KeepCovers ==
  ASSUME BuildInv, Scanning, NEW positions,
         Range(positions) = Minima(Prints(Scanned), case.config.window, Len(Prints(Scanned))),
         Keep(positions), UNCHANGED <<case, stage, documents>>
  PROVE  BuildInv'
<1>1. PICK x, n : x = Selected(Hashes, positions) /\ n = Len(kept)
  OBVIOUS
<1>2. IsSeq(kept) /\ kept' = Append(kept, x) /\ scan' = NotStarted /\ next' = 1
  BY <1>1 DEF BuildInv, Keep
<1>3. /\ IsSeq(kept') /\ n \in Nat /\ DOMAIN kept = 1..n
      /\ Len(kept') = n + 1 /\ DOMAIN kept' = 1..(n + 1)
      /\ \A i \in 1..n : kept'[i] = kept[i]
      /\ kept'[n + 1] = x
  BY <1>1, <1>2, AppendIs
<1>4. Scanned = n + 1 /\ Hashes = All(n + 1)
  BY <1>1 DEF Scanned, Hashes, All
<1>5. Range(x) = {All(n + 1)[i] : i \in Minima(Prints(n + 1), case.config.window,
                                               Len(Prints(n + 1)))}
  BY <1>1, <1>4, SelectedRange
<1>6. ASSUME NEW d \in DOMAIN kept'
      PROVE  KeptMinima(d)'
  <2>1. /\ Prints(d)' = Prints(d) /\ All(d)' = All(d) /\ case' = case
    BY DEF Prints, All
  <2>2. CASE d = n + 1
    BY <1>3, <1>5, <2>1, <2>2, Zenon DEF KeptMinima
  <2>3. CASE d # n + 1
    <3>1. d \in DOMAIN kept /\ kept'[d] = kept[d]
      BY <1>3, <2>3
    <3>2. KeptMinima(d)
      BY <3>1 DEF BuildInv
    <3>3. QED
      BY <2>1, <3>1, <3>2, Zenon DEF KeptMinima
  <2>4. QED
    BY <2>2, <2>3
<1>7. Len(kept') =< Len(documents)
  BY <1>3, <1>4 DEF Scanning
<1>8. stage = "scanning"
  BY DEF Scanning
<1>9. QED
  BY <1>2, <1>3, <1>6, <1>7, <1>8 DEF BuildInv

\* What else happens leaves the documents and the features alone.
LEMMA BuildRests ==
  ASSUME BuildInv, UNCHANGED <<case, documents, scan, next, kept>>,
         stage' \in {"adding", "scanning"} => stage' = stage
  PROVE  BuildInv'
<1>1. \A d \in DOMAIN kept : KeptMinima(d)'
  BY Zenon DEF BuildInv, KeptMinima, All, Prints
<1>2. ScanInv' <=> ScanInv
  BY Zenon DEF ScanInv, Scanned, All, Prints
<1>3. QED
  BY <1>1, <1>2 DEF BuildInv

\* Every step keeps it.
LEMMA BuildNext == ASSUME HashesAreNumbers, BuildInv, [Next]_vars PROVE BuildInv'
<1>0. PICK x : x = Normalize(case.texts[Len(documents) + 1], case.config.profile)
  OBVIOUS
<1>1. CASE AddDocument /\ Fits(x)
  <2>1. UNCHANGED <<case, scan, next, kept>> /\ Len(documents) < Len(case.texts)
        /\ stage = "adding" /\ stage' = stage /\ documents' = Append(documents, x)
    BY <1>0, <1>1, Zenon DEF AddDocument
  <2>2. /\ IsSeq(documents) /\ documents' = Append(documents, x) /\ Len(documents) < Len(case.texts)
        /\ kept = <<>> /\ kept' = kept /\ next = 1 /\ next' = 1 /\ scan' = scan
        /\ scan = NotStarted /\ stage' = stage /\ stage = "adding" /\ case' = case
        /\ case \in Cases
    BY <2>1 DEF BuildInv
  <2>3. PICK n : n = Len(documents)
    OBVIOUS
  <2>4. /\ IsSeq(documents') /\ n \in Nat /\ DOMAIN documents = 1..n
        /\ Len(documents') = n + 1 /\ DOMAIN documents' = 1..(n + 1)
        /\ \A i \in 1..n : documents'[i] = documents[i]
        /\ documents'[n + 1] = x
    BY <2>2, <2>3, AppendIs
  <2>5. IsSeq(x) /\ Len(x) =< NarrowMax
    <3>1. case.texts \in Seq(Range(case.texts))
          /\ \A i \in DOMAIN case.texts : IsSeq(case.texts[i])
      BY <2>2, CasesAssumption DEF IsSeq
    <3>2. PICK m : m = Len(case.texts) /\ m \in Nat /\ DOMAIN case.texts = 1..m
      BY <3>1, LenProperties
    <3>3. n + 1 \in DOMAIN case.texts
      BY <2>2, <2>3, <2>4, <3>2
    <3>4. IsSeq(x)
      BY <1>0, <2>3, <3>1, <3>3, NormalizeIs
    <3>5. QED
      BY <1>1, <3>4 DEF Fits
  <2>6. \A d \in DOMAIN documents' : IsSeq(documents'[d]) /\ Len(documents'[d]) =< NarrowMax
    <3>1. TAKE d \in DOMAIN documents'
    <3>2. d = n + 1 \/ d \in 1..n
      BY <2>4
    <3>3. QED
      BY <2>4, <2>5, <3>2 DEF BuildInv
  <2>7. IsSeq(kept') /\ Len(kept') = 0 /\ DOMAIN kept' = {}
    BY <2>2 DEF IsSeq
  <2>8. QED
    BY <2>2, <2>4, <2>6, <2>7 DEF BuildInv
<1>1a. CASE AddDocument /\ ~Fits(x)
  <2>1. UNCHANGED <<case, documents, scan, next, kept>> /\ stage' = "refused"
    BY <1>0, <1>1a, Zenon DEF AddDocument
  <2>2. QED
    BY <2>1, BuildRests
<1>2. CASE Build
  <2>1. next = 1 /\ UNCHANGED <<case, documents, scan, next, kept>> /\ stage' = "scanning"
    BY <1>2 DEF Build, BuildInv
  <2>2. \A d \in DOMAIN kept : KeptMinima(d)'
    BY <2>1, Zenon DEF BuildInv, KeptMinima, All, Prints
  <2>3. QED
    BY <2>1, <2>2 DEF BuildInv
<1>3. CASE KeepWithoutScan
  <2>1. PICK f, w : f = Prints(Scanned) /\ w = case.config.window
    OBVIOUS
  <2>2. /\ Scanning /\ ~NeedsScan(f, w) /\ Keep(WithoutScan(f, w))
        /\ UNCHANGED <<case, stage, documents>>
    BY <1>3, <2>1 DEF KeepWithoutScan, Prints, All, Hashes
  <2>3. Scanned \in DOMAIN documents
    BY <2>2, ScannedIn
  <2>4. f \in Seq(Nat) /\ w \in Nat \ {0}
    BY <2>1, <2>3, ScannedPrints
  <2>5. Range(WithoutScan(f, w)) = Minima(f, w, Len(f))
    BY <2>2, <2>4, WithoutScanCovers
  <2>6. QED
    BY <2>1, <2>2, <2>5, KeepCovers
<1>4. CASE ScanFeature
  <2>1. PICK f, w : f = Prints(Scanned) /\ w = case.config.window
    OBVIOUS
  <2>2. /\ Scanning /\ NeedsScan(f, w) /\ next =< Len(All(Scanned))
        /\ scan' = Advance(f, w, scan, next) /\ next' = next + 1
        /\ UNCHANGED <<case, stage, documents, kept>>
    BY <1>4, <2>1 DEF ScanFeature, Prints, All, Hashes
  <2>3. Scanned \in DOMAIN documents /\ Scanned =< Len(documents) /\ stage = "scanning"
    BY <2>2, ScannedIn DEF Scanning
  <2>4. f \in Seq(Nat) /\ w \in Nat \ {0} /\ Len(All(Scanned)) = Len(f)
    BY <2>1, <2>3, ScannedPrints
  <2>5. w =< Len(f) /\ next \in 1..Len(f) /\ next \in Nat \ {0}
    BY <2>2, <2>4 DEF NeedsScan, BuildInv
  <2>6. Scans(f, w, scan, next - 1)
    <3>1. CASE next = 1
      <4>1. scan = NotStarted /\ next - 1 = 0
        BY <3>1 DEF BuildInv
      <4>2. QED
        BY <2>4, <2>5, <4>1, NotStartedScans
    <3>2. CASE next # 1
      <4>1. next > 1
        BY <2>5, <3>2
      <4>2. QED
        BY <2>1, <2>3, <4>1 DEF BuildInv, ScanInv
    <3>3. QED
      BY <3>1, <3>2
  <2>7. Scans(f, w, scan', next' - 1)
    <3>1. next' - 1 = next
      BY <2>2, <2>5
    <3>2. QED
      BY <2>2, <2>4, <2>5, <2>6, <3>1, AdvanceScans
  <2>8. Scanned' = Scanned /\ Prints(Scanned)' = f /\ case'.config.window = w
    BY <2>1, <2>2 DEF Scanned, Prints, All
  <2>9. next' =< Len(f) + 1 /\ next' > 1 /\ next' \in Nat \ {0}
    BY <2>2, <2>4, <2>5
  <2>10. ScanInv'
    BY <2>2, <2>3, <2>7, <2>8, <2>9 DEF ScanInv
  <2>11. \A d \in DOMAIN kept : KeptMinima(d)'
    BY <2>2, Zenon DEF BuildInv, KeptMinima, All, Prints
  <2>12. QED
    BY <2>2, <2>3, <2>9, <2>10, <2>11 DEF BuildInv
<1>5. CASE KeepSelected
  <2>1. PICK f, w : f = Prints(Scanned) /\ w = case.config.window
    OBVIOUS
  <2>2. /\ Scanning /\ NeedsScan(f, w) /\ next > Len(All(Scanned)) /\ Keep(scan.selected)
        /\ UNCHANGED <<case, stage, documents>>
    BY <1>5, <2>1 DEF KeepSelected, Prints, All, Hashes
  <2>3. Scanned \in DOMAIN documents /\ stage = "scanning"
    BY <2>2, ScannedIn DEF Scanning
  <2>4. f \in Seq(Nat) /\ w \in Nat \ {0} /\ Len(All(Scanned)) = Len(f)
    BY <2>1, <2>3, ScannedPrints
  <2>5. next > 1 /\ next \in Nat
    BY <2>2, <2>4 DEF NeedsScan, BuildInv
  <2>6. ScanInv
    BY <2>3, <2>5 DEF BuildInv
  <2>7. next - 1 = Len(f)
    BY <2>1, <2>2, <2>4, <2>5, <2>6 DEF ScanInv
  <2>8. Range(scan.selected) = Minima(f, w, Len(f))
    BY <2>1, <2>6, <2>7 DEF ScanInv, Scans
  <2>9. QED
    BY <2>1, <2>2, <2>8, KeepCovers
<1>6. CASE FinishBuild
  BY <1>6, BuildRests DEF FinishBuild
<1>7. CASE \E format \in Variants : Save(format)
  BY <1>7, BuildRests DEF Save, built
<1>8. CASE Damage
  BY <1>8, BuildRests DEF Damage, built
<1>9. CASE Load
  BY <1>9, BuildRests DEF Load, built
<1>10. CASE Submit
  BY <1>10, BuildRests DEF Submit, built
<1>11. CASE SearchOne
  BY <1>11, BuildRests DEF SearchOne, built
<1>12. CASE Collect
  BY <1>12, BuildRests DEF Collect, built
<1>13. CASE UNCHANGED vars
  BY <1>13, BuildRests DEF vars
<1>14. QED
  BY <1>1, <1>1a, <1>2, <1>3, <1>4, <1>5, <1>6, <1>7, <1>8, <1>9, <1>10, <1>11, <1>12, <1>13 DEF Next

\* It says that the windows are covered.
LEMMA BuildSafe ==
  ASSUME BuildInv
  PROVE  WindowsAreCovered
<1>1. \A d \in DOMAIN kept : KeptMinima(d)
  BY DEF BuildInv
<1>2. ASSUME stage = "scanning", next > 1
      PROVE  Range(scan.selected) = Minima(Prints(Scanned), case.config.window, next - 1)
  BY <1>2 DEF BuildInv, ScanInv, Scans
<1>3. QED
  BY <1>1, <1>2, Zenon DEF WindowsAreCovered, KeptMinima, All, Prints

-----------------------------------------------------------------------------
(* A batch *)

\* The first query that asks what query i asks.
IsFirst(b, i, j) ==
    /\ j \in DOMAIN b.queries /\ b.queries[j].specimen = b.queries[i].specimen
    /\ \A k \in 1..(j - 1) : b.queries[k].specimen # b.queries[i].specimen

\* A query is answered by the first that asks the same.
LEMMA CanonicalIs ==
  ASSUME NEW b, IsSeq(b.queries), NEW i \in DOMAIN b.queries
  PROVE  /\ Canonical(b, i) \in UniqueQueries(b)
         /\ b.queries[Canonical(b, i)].specimen = b.queries[i].specimen
         /\ b.deduplicate => IsFirst(b, i, Canonical(b, i))
<1>1. PICK n : n = Len(b.queries) /\ n \in Nat /\ DOMAIN b.queries = 1..n
  BY LenProperties DEF IsSeq
<1>2. CASE ~b.deduplicate
  BY <1>2 DEF Canonical, UniqueQueries
<1>3. CASE b.deduplicate
  <2>1. ASSUME NEW l \in DOMAIN b.queries
        PROVE  IsFirst(b, l, Canonical(b, l))
    <3> DEFINE T == {j \in 1..n : b.queries[j].specimen = b.queries[l].specimen}
    <3>1. PICK j \in T : \A y \in T : j =< y
      <4>1. l \in T /\ T \in SUBSET Nat
        BY <1>1
      <4>2. QED
        BY <4>1, Least
    <3>2. IsFirst(b, l, j)
      <4>1. ASSUME NEW k \in 1..(j - 1)
            PROVE  b.queries[k].specimen # b.queries[l].specimen
        <5>1. k \in 1..n /\ ~(j =< k)
          BY <1>1
        <5>2. QED
          BY <3>1, <5>1
      <4>2. QED
        BY <1>1, <4>1 DEF IsFirst
    <3>3. QED
      BY <1>3, <3>2, Zenon DEF Canonical, IsFirst
  <2>2. PICK c : c = Canonical(b, i) /\ IsFirst(b, i, c)
    BY <2>1
  <2>3. c \in DOMAIN b.queries /\ b.queries[c].specimen = b.queries[i].specimen
    BY <2>2 DEF IsFirst
  <2>4. PICK e : e = Canonical(b, c) /\ IsFirst(b, c, e)
    BY <2>1, <2>3
  <2>5. e = c
    <3>1. c \in 1..n /\ e \in 1..n
      BY <1>1, <2>3, <2>4 DEF IsFirst
    <3>2. ~(c < e)
      <4>1. c < e => c \in 1..(e - 1)
        BY <3>1
      <4>2. QED
        BY <4>1, <2>4 DEF IsFirst
    <3>3. ~(e < c)
      <4>1. e < c => e \in 1..(c - 1)
        BY <3>1
      <4>2. QED
        BY <4>1, <2>2, <2>3, <2>4 DEF IsFirst
    <3>4. QED
      BY <3>1, <3>2, <3>3
  <2>6. QED
    BY <2>2, <2>3, <2>4, <2>5 DEF UniqueQueries
<1>4. QED
  BY <1>2, <1>3

\* The queries an earlier one is alike are the others.
LEMMA Repeated ==
  ASSUME NEW b, IsSeq(b.queries)
  PROVE  /\ UniqueQueries(b) \in SUBSET (DOMAIN b.queries) /\ Len(b.queries) \in Nat
         /\ IsFiniteSet(UniqueQueries(b))
         /\ Cardinality(UniqueQueries(b)) \in 0..Len(b.queries)
         /\ Cardinality({i \in DOMAIN b.queries : b.deduplicate
                            /\ \E j \in 1..(i - 1) :
                                   b.queries[i].specimen = b.queries[j].specimen})
              = Len(b.queries) - Cardinality(UniqueQueries(b))
<1>1. PICK n : n = Len(b.queries) /\ n \in Nat /\ DOMAIN b.queries = 1..n
  BY LenProperties DEF IsSeq
<1> DEFINE U == UniqueQueries(b)
           R == {i \in DOMAIN b.queries : b.deduplicate
                    /\ \E j \in 1..(i - 1) : b.queries[i].specimen = b.queries[j].specimen}
<1>2. ASSUME NEW i \in 1..n
      PROVE  i \in R <=> i \notin U
  <2>1. CASE ~b.deduplicate
    BY <1>1, <2>1 DEF UniqueQueries, Canonical
  <2>2. CASE b.deduplicate
    <3>1. PICK c : c = Canonical(b, i) /\ IsFirst(b, i, c)
      BY <1>1, <2>2, CanonicalIs
    <3>2. c \in 1..n /\ b.queries[c].specimen = b.queries[i].specimen
      BY <1>1, <3>1 DEF IsFirst
    <3>3. i \in U <=> c = i
      BY <1>1, <3>1 DEF UniqueQueries
    <3>4. ASSUME i \in R
          PROVE  c # i
      BY <3>1, <3>4 DEF IsFirst
    <3>5. ASSUME c # i
          PROVE  i \in R
      <4>1. ~(i < c)
        <5>1. i < c => i \in 1..(c - 1)
          BY <3>2
        <5>2. QED
          BY <3>1, <5>1 DEF IsFirst
      <4>2. c \in 1..(i - 1)
        BY <3>2, <3>5, <4>1
      <4>3. QED
        BY <1>1, <2>2, <3>2, <4>2
    <3>6. QED
      BY <3>3, <3>4, <3>5
  <2>3. QED
    BY <2>1, <2>2
<1>3. U \in SUBSET (1..n) /\ R = (1..n) \ U
  BY <1>1, <1>2 DEF UniqueQueries
<1>4. IsFiniteSet(1..n) /\ Cardinality(1..n) = n
  BY <1>1, FS_Interval
<1> HIDE DEF U, R
<1>5. IsFiniteSet(U) /\ Cardinality(U) =< n /\ Cardinality(U) \in Nat
  BY <1>3, <1>4, FS_Subset, FS_CardinalityType
<1>6. Cardinality(R) = n - Cardinality(U)
  <2>1. Cardinality((1..n) \ U) = Cardinality(1..n) - Cardinality((1..n) \cap U)
    BY <1>4, FS_Difference
  <2>2. (1..n) \cap U = U
    BY <1>3
  <2>3. QED
    BY <1>3, <1>4, <2>1, <2>2
<1>7. U \in SUBSET (DOMAIN b.queries) /\ Cardinality(U) \in 0..n
  BY <1>1, <1>3, <1>5
<1>8. QED
  BY <1>1, <1>5, <1>6, <1>7, Zenon DEF U, R

Results == [i \in 1..Len(batch.queries) |-> Answer(i)]

\* The report tells the outcomes.
Told ==
    IF batch.failFast /\ \E i \in DOMAIN outcomes : ~outcomes[i].accepted
    THEN ~report.accepted
    ELSE /\ report.value.results = Results
         /\ report.value.unique = Cardinality(UniqueQueries(batch))
         /\ report.value.deduplicated =
                Len(batch.queries) - Cardinality(UniqueQueries(batch))
         /\ report.value.succeeded = Len(batch.queries) - Cardinality(Failed)
         /\ report.value.failed = Cardinality(Failed)

BatchInv ==
    /\ stage = "searching" => ValidBatch(batch)
    /\ stage \in {"searching", "answered"} /\ ValidBatch(batch) =>
        /\ IsSeq(batch.queries)
        /\ DOMAIN outcomes \subseteq UniqueQueries(batch)
        /\ \A i \in DOMAIN outcomes : outcomes[i] = Alone(i)
    /\ stage = "answered" /\ ValidBatch(batch) =>
        DOMAIN outcomes = UniqueQueries(batch) /\ Told

\* What is read off the batch and the outcomes stays with them.
LEMMA AnswersRest ==
  ASSUME UNCHANGED <<batch, outcomes>>
  PROVE  /\ UniqueQueries(batch)' = UniqueQueries(batch)
         /\ (ValidBatch(batch)' <=> ValidBatch(batch))
         /\ Results' = Results /\ Failed' = Failed
<1>1. UniqueQueries(batch)' = UniqueQueries(batch) /\ (ValidBatch(batch)' <=> ValidBatch(batch))
  BY DEF UniqueQueries, Canonical, ValidBatch
<1>2. \A i : Answer(i)' = Answer(i)
  BY DEF Answer, Canonical
<1>3. Results' = Results
  BY DEF Results, Answer, Canonical
<1>4. Failed' = Failed
  BY DEF Failed, Answer, Canonical
<1>5. QED
  BY <1>1, <1>3, <1>4

\* Every step keeps it.
LEMMA BatchNext == ASSUME BuildInv, BatchInv, [Next]_vars PROVE BatchInv'
<1>1. CASE Submit
  <2>1. PICK b \in case.batches :
            /\ batch' = b /\ outcomes' = <<>>
            /\ IF ValidBatch(b) THEN stage' = "searching" ELSE stage' = "answered"
    BY <1>1 DEF Submit
  <2>2. IsSeq(b.queries)
    BY CasesAssumption DEF BuildInv, IsSeq
  <2>3. DOMAIN outcomes' = {}
    BY <2>1
  <2>4. ValidBatch(batch)' <=> ValidBatch(b)
    BY <2>1 DEF ValidBatch
  <2>5. QED
    BY <2>1, <2>2, <2>3, <2>4 DEF BatchInv
<1>2. CASE SearchOne
  <2>1. PICK i \in UniqueQueries(batch) \ DOMAIN outcomes :
            outcomes' = [j \in DOMAIN outcomes \cup {i} |->
                            IF j = i THEN Alone(i) ELSE outcomes[j]]
    BY <1>2 DEF SearchOne, Alone
  <2>2. /\ stage = "searching" /\ UNCHANGED <<case, stage, loaded, batch, report>>
    BY <1>2 DEF SearchOne
  <2>3. ValidBatch(batch) /\ IsSeq(batch.queries) /\ DOMAIN outcomes \subseteq UniqueQueries(batch)
        /\ \A j \in DOMAIN outcomes : outcomes[j] = Alone(j)
    BY <2>2 DEF BatchInv
  <2>4. UniqueQueries(batch)' = UniqueQueries(batch) /\ (ValidBatch(batch)' <=> ValidBatch(batch))
    BY <2>2 DEF UniqueQueries, Canonical, ValidBatch
  <2>5. \A j : Alone(j)' = Alone(j)
    BY <2>2 DEF Alone
  <2>6. DOMAIN outcomes' = DOMAIN outcomes \cup {i}
    BY <2>1
  <2>7. \A j \in DOMAIN outcomes' : outcomes'[j] = Alone(j)
    BY <2>1, <2>3, <2>6
  <2>8. QED
    BY <2>2, <2>3, <2>4, <2>5, <2>6, <2>7 DEF BatchInv
<1>3. CASE Collect
  <2>1. /\ stage = "searching" /\ stage' = "answered" /\ DOMAIN outcomes = UniqueQueries(batch)
        /\ UNCHANGED <<case, loaded, batch, outcomes>>
    BY <1>3 DEF Collect
  <2>2. /\ UniqueQueries(batch)' = UniqueQueries(batch)
        /\ (ValidBatch(batch)' <=> ValidBatch(batch))
        /\ Results' = Results /\ Failed' = Failed
    BY <2>1, AnswersRest
  <2>3. Told'
    <3>1. CASE batch.failFast /\ \E i \in DOMAIN outcomes : ~outcomes[i].accepted
      <4>1. report' = Refused
        BY <1>3, <3>1, Zenon DEF Collect
      <4>2. QED
        BY <2>1, <3>1, <4>1 DEF Told, Refused
    <3>2. CASE ~(batch.failFast /\ \E i \in DOMAIN outcomes : ~outcomes[i].accepted)
      <4>1. report' = Accepted(BatchReport)
        BY <1>3, <3>2, Zenon DEF Collect
      <4>2. report'.value = BatchReport
        BY <4>1 DEF Accepted
      <4>3. MappedSeq(CountUp(Len(batch.queries)), Answer) = Results
        BY DEF MappedSeq, CountUp, Results
      <4>4. /\ report'.value.results = Results
            /\ report'.value.unique = Cardinality(UniqueQueries(batch))
            /\ report'.value.deduplicated =
                   Len(batch.queries) - Cardinality(UniqueQueries(batch))
            /\ report'.value.succeeded = Len(batch.queries) - Cardinality(Failed)
            /\ report'.value.failed = Cardinality(Failed)
        BY <4>2, <4>3 DEF BatchReport
      <4>5. QED
        BY <2>1, <2>2, <3>2, <4>4 DEF Told
    <3>3. QED
      BY <3>1, <3>2
  <2>4. \A j : Alone(j)' = Alone(j)
    BY <2>1 DEF Alone
  <2>5. QED
    BY <2>1, <2>2, <2>3, <2>4 DEF BatchInv
<1>4. CASE UNCHANGED vars
  <2>1. UNCHANGED <<case, stage, loaded, batch, outcomes, report>>
    BY <1>4 DEF vars
  <2>2. /\ UniqueQueries(batch)' = UniqueQueries(batch)
        /\ (ValidBatch(batch)' <=> ValidBatch(batch))
        /\ Results' = Results /\ Failed' = Failed
    BY <2>1, AnswersRest
  <2>3. Told' <=> Told
    BY <2>1, <2>2 DEF Told
  <2>4. \A j : Alone(j)' = Alone(j)
    BY <2>1 DEF Alone
  <2>5. QED
    BY <2>1, <2>2, <2>3, <2>4 DEF BatchInv
<1>5. ASSUME stage' \notin {"searching", "answered"}
      PROVE  BatchInv'
  BY <1>5 DEF BatchInv
<1>6. AddDocument \/ Build \/ KeepWithoutScan \/ ScanFeature \/ KeepSelected \/ FinishBuild
        => stage' \notin {"searching", "answered"}
  BY DEF AddDocument, Build, KeepWithoutScan, ScanFeature, KeepSelected, FinishBuild, Scanning
<1>7. (\E format \in Variants : Save(format)) \/ Damage \/ Load
        => stage' \notin {"searching", "answered"}
  BY DEF Save, Damage, Load
<1>8. QED
  BY <1>1, <1>2, <1>3, <1>4, <1>5, <1>6, <1>7 DEF Next

\* What it says of a batch that is answered.
LEMMA BatchSafe ==
  ASSUME BatchInv, stage = "answered", ValidBatch(batch)
  PROVE  BatchIsSequential
<1>1. PICK n, answers : /\ n = Len(batch.queries)
                        /\ answers = [i \in DOMAIN batch.queries |-> Alone(i)]
  OBVIOUS
<1>2. /\ IsSeq(batch.queries) /\ n \in Nat /\ DOMAIN batch.queries = 1..n
      /\ DOMAIN outcomes = UniqueQueries(batch) /\ Told
      /\ \A i \in DOMAIN outcomes : outcomes[i] = Alone(i)
  BY <1>1, LenProperties DEF BatchInv, IsSeq
<1>3. DOMAIN answers = 1..n /\ \A i \in 1..n : answers[i] = Alone(i)
  BY <1>1, <1>2
<1>4. ASSUME NEW i \in 1..n
      PROVE  /\ Canonical(batch, i) \in DOMAIN outcomes
             /\ outcomes[Canonical(batch, i)] = answers[i]
  <2>1. PICK c : c = Canonical(batch, i)
    OBVIOUS
  <2>2. c \in UniqueQueries(batch) /\ batch.queries[c].specimen = batch.queries[i].specimen
    BY <1>2, <2>1, CanonicalIs
  <2>3. Alone(c) = Alone(i)
    BY <2>2 DEF Alone
  <2>4. QED
    BY <1>2, <1>3, <2>1, <2>2, <2>3
<1>5. (\E i \in DOMAIN outcomes : ~outcomes[i].accepted)
        <=> (\E i \in DOMAIN answers : ~answers[i].accepted)
  <2>1. ASSUME NEW i \in DOMAIN outcomes
        PROVE  i \in DOMAIN answers /\ answers[i] = outcomes[i]
    <3>1. i \in 1..n
      BY <1>2, Repeated DEF UniqueQueries
    <3>2. QED
      BY <1>2, <1>3, <3>1
  <2>2. QED
    BY <1>3, <1>4, <2>1, Zenon
<1>6. CASE batch.failFast /\ \E i \in DOMAIN answers : ~answers[i].accepted
  <2>1. ~report.accepted
    BY <1>2, <1>5, <1>6, Zenon DEF Told
  <2>2. Reports(answers)
    BY <1>6, <2>1, Zenon DEF Reports
  <2>3. QED
    BY <1>1, <2>2, Zenon DEF BatchIsSequential
<1>7. CASE ~(batch.failFast /\ \E i \in DOMAIN answers : ~answers[i].accepted)
  <2>1. /\ report.value.results = Results
        /\ report.value.unique = Cardinality(UniqueQueries(batch))
        /\ report.value.deduplicated = n - Cardinality(UniqueQueries(batch))
        /\ report.value.succeeded = n - Cardinality(Failed)
        /\ report.value.failed = Cardinality(Failed)
    BY <1>1, <1>2, <1>5, <1>7, Zenon DEF Told
  <2>2. Len(answers) = n
    BY <1>2, <1>3, <1>1
  <2>3. \A i \in DOMAIN answers :
            report.value.results[i].query = i /\ report.value.results[i].outcome = answers[i]
    <3>1. TAKE i \in DOMAIN answers
    <3>2. i \in 1..n
      BY <1>3
    <3>3. report.value.results[i] = Answer(i)
      BY <1>1, <2>1, <3>2 DEF Results
    <3>4. QED
      BY <1>4, <3>2, <3>3 DEF Answer
  <2>4. Cardinality(Failed) \in Nat
    <3>1. IsFiniteSet(1..n) /\ Failed \in SUBSET (1..n)
      BY <1>2, FS_Interval DEF Failed
    <3>2. IsFiniteSet(Failed)
      BY <3>1, FS_Subset
    <3>3. QED
      BY <3>2, FS_CardinalityType
  <2>5. Cardinality(UniqueQueries(batch)) \in Nat
    BY <1>2, Repeated, FS_CardinalityType
  <2>6. report.value.succeeded + report.value.failed = Len(answers)
        /\ report.value.unique + report.value.deduplicated = Len(answers)
    BY <1>2, <2>1, <2>2, <2>4, <2>5
  <2>7. report.value.deduplicated =
            Cardinality({i \in DOMAIN answers : batch.deduplicate
                            /\ \E j \in 1..(i - 1) : Alike(i, j)})
    <3>1. {i \in DOMAIN answers : batch.deduplicate /\ \E j \in 1..(i - 1) : Alike(i, j)}
            = {i \in DOMAIN batch.queries : batch.deduplicate
                   /\ \E j \in 1..(i - 1) :
                          batch.queries[i].specimen = batch.queries[j].specimen}
      BY <1>2, <1>3, Zenon DEF Alike
    <3>2. QED
      BY <1>1, <1>2, <2>1, <3>1, Repeated, Zenon
  <2>8. Reports(answers)
    BY <1>7, <2>3, <2>6, <2>7, Zenon DEF Reports
  <2>9. QED
    BY <1>1, <2>8, Zenon DEF BatchIsSequential
<1>8. QED
  BY <1>6, <1>7

-----------------------------------------------------------------------------
(* Weights of bytes and sums of numbers *)

\* The weight of a byte is positive and grows by the radix.
LEMMA PowerIs ==
  /\ Power[0] = 1
  /\ \A k \in 0..WordBytes : Power[k] \in Nat \ {0}
  /\ \A k \in 1..WordBytes : Power[k] = Radix * Power[k - 1]
<1> DEFINE Body(g) == [k \in 0..WordBytes |-> IF k = 0 THEN 1 ELSE Radix * g[k - 1]]
           step == [i \in 1..WordBytes |-> [x \in Nat |-> Radix * x]]
<1>1. WordBytes \in Nat \ {0} /\ Radix \in Nat /\ Radix > 1
  BY IndexFileAssumption
<1>2. PICK g \in [0..WordBytes -> Nat] : Iterates(g, 1, step, WordBytes)
  <2>1. step \in [1..WordBytes -> [Nat -> Nat]]
    BY <1>1
  <2> HIDE DEF step
  <2>2. QED
    BY <1>1, <2>1, Recursion
<1>3. g = Body(g)
  <2>1. ASSUME NEW k \in 0..WordBytes
        PROVE  g[k] = Body(g)[k]
    <3>1. CASE k = 0
      BY <1>2, <3>1 DEF Iterates
    <3>2. CASE k # 0
      <4>1. k \in 1..WordBytes /\ k - 1 \in 0..WordBytes
        BY <3>2, <1>1
      <4>2. g[k] = step[k][g[k - 1]] /\ g[k - 1] \in Nat
        BY <4>1, <1>2 DEF Iterates
      <4>3. QED
        BY <3>2, <4>1, <4>2
    <3>3. QED
      BY <3>1, <3>2
  <2>2. QED
    BY <1>2, <2>1
<1>4. Power = Body(Power)
  BY <1>3, Zenon DEF Power
<1>5. Power[0] = 1 /\ \A k \in 1..WordBytes : Power[k] = Radix * Power[k - 1]
  <2>1. 0 \in 0..WordBytes
    BY <1>1
  <2>2. \A k \in 1..WordBytes : k \in 0..WordBytes /\ k # 0
    BY <1>1
  <2>3. QED
    BY <1>4, <2>1, <2>2
<1> DEFINE S == {k \in 0..WordBytes : Power[k] \in Nat \ {0}}
<1>6. 0 \in S
  BY <1>1, <1>5
<1>7. ASSUME NEW k \in 0..WordBytes, k \in S, k < WordBytes
      PROVE  k + 1 \in S
  <2>1. k + 1 \in 1..WordBytes /\ (k + 1) - 1 = k
    BY <1>1, <1>7
  <2>2. PICK x \in Nat \ {0} : x = Power[k]
    BY <1>7
  <2>3. Power[k + 1] = Radix * x
    BY <1>5, <2>1, <2>2
  <2>4. Radix * x \in Nat \ {0}
    BY <1>1
  <2>5. QED
    BY <2>1, <2>3, <2>4
<1>8. \A k \in 0..WordBytes : k \in S
  <2> HIDE DEF S
  <2>1. QED
    BY <1>1, <1>6, <1>7, UpTo
<1>9. QED
  BY <1>5, <1>8

\* The partial sums of some numbers.
PartialSums(P, numbers) ==
  /\ P[0] = 0
  /\ \A k \in 1..Len(numbers) : P[k] = P[k - 1] + numbers[k]

\* A sum is the last of the partial sums.
LEMMA SumIs ==
  ASSUME NEW numbers \in Seq(Int)
  PROVE  \E P \in [0..Len(numbers) -> Int] :
           PartialSums(P, numbers) /\ Sum(numbers) = P[Len(numbers)]
<1>1. PICK n : n = Len(numbers) /\ n \in Nat /\ DOMAIN numbers = 1..n
  BY LenProperties
<1> DEFINE step == [i \in 1..n |-> [x \in Int |-> x + numbers[i]]]
           Body(g) == [s \in SUBSET (1..n) |->
                         IF s = {} THEN 0 ELSE g[s \ {Max(s)}] + numbers[Max(s)]]
           iter == CHOOSE g : g = Body(g)
<1>2. \A i \in 1..n : numbers[i] \in Int
  BY <1>1, ElementOfSeq
<1>3. step \in [1..n -> [Int -> Int]]
  BY <1>2
<1>4. ASSUME NEW g, NEW s \in SUBSET (1..n), s # {}, g[s \ {Max(s)}] \in Int
      PROVE  Body(g)[s] = step[Max(s)][g[s \ {Max(s)}]]
  <2>1. Max(s) \in 1..n
    <3>1. s \in SUBSET (0..n)
      BY <1>1
    <3>2. QED
      BY <1>1, <1>4, <3>1, MaxIs
  <2>2. QED
    BY <1>4, <2>1
<1>5. PICK g \in [SUBSET (1..n) -> Int] : FoldsUp(g, 0, step, n)
  <2>1. n \in Nat /\ 0 \in Int
    BY <1>1
  <2> HIDE DEF step
  <2>2. QED
    BY <1>3, <2>1, Folding, Zenon
<1>6. g = Body(g)
  <2>1. ASSUME NEW s \in SUBSET (1..n)
        PROVE  g[s] = Body(g)[s]
    <3>1. CASE s = {}
      BY <1>5, <3>1 DEF FoldsUp
    <3>2. CASE s # {}
      <4>1. g[s] = step[Max(s)][g[s \ {Max(s)}]] /\ g[s \ {Max(s)}] \in Int
        BY <1>5, <3>2 DEF FoldsUp
      <4> HIDE DEF Body, step
      <4>2. QED
        BY <1>4, <3>2, <4>1
    <3>3. QED
      BY <3>1, <3>2
  <2>2. QED
    BY <1>5, <2>1
<1>7. iter = Body(iter)
  BY <1>6
<1>8. Sum(numbers) = iter[1..n]
  BY <1>1, Zenon DEF Sum, FoldLeft, MapThenFoldSet
<1> HIDE DEF iter
<1>9. PICK P \in [0..n -> Int] : Iterates(P, 0, step, n) /\ iter[1..n] = P[n]
  <2>1. iter[{}] = 0
    BY <1>7
  <2>2. FoldsIn(iter, 0, step, n, Int)
    <3> HIDE DEF step, Body
    <3>1. PICK ends : ends = SUBSET (1..n)
      OBVIOUS
    <3>2. ASSUME NEW s \in ends, s # {}, iter[s \ {Max(s)}] \in Int
          PROVE  iter[s] = step[Max(s)][iter[s \ {Max(s)}]]
      <4>1. Body(iter)[s] = step[Max(s)][iter[s \ {Max(s)}]]
        BY <1>4, <3>1, <3>2
      <4>2. QED
        BY ONLY <1>7, <4>1
    <3>3. QED
      BY ONLY <2>1, <3>1, <3>2 DEF FoldsIn
  <2>3. n \in Nat /\ 0 \in Int
    BY <1>1
  <2> HIDE DEF step, Body
  <2>4. QED
    <3>1. PICK X : X = Int
      OBVIOUS
    <3>2. n \in Nat /\ 0 \in X /\ step \in [1..n -> [X -> X]] /\ FoldsIn(iter, 0, step, n, X)
      BY <1>3, <2>2, <2>3, <3>1, Zenon
    <3>3. \E P \in [0..n -> X] : Iterates(P, 0, step, n) /\ iter[1..n] = P[n]
      BY ONLY <3>2, Folded, SMTT(30)
    <3>4. QED
      BY <3>1, <3>3, Zenon
<1>10. PartialSums(P, numbers)
  <2>1. ASSUME NEW k \in 1..n
        PROVE  P[k] = P[k - 1] + numbers[k]
    <3>1. k - 1 \in 0..n
      BY <1>1
    <3>2. P[k - 1] \in Int
      BY <1>9, <3>1
    <3>3. P[k] = step[k][P[k - 1]]
      BY <1>9 DEF Iterates
    <3>4. QED
      BY <3>2, <3>3
  <2>2. QED
    BY <1>1, <1>9, <2>1 DEF Iterates, PartialSums
<1>11. QED
  BY <1>1, <1>8, <1>9, <1>10

\* A number takes the least bytes that hold it.
LEMMA VarintLengthIs ==
  ASSUME NEW n \in Nat
  PROVE  /\ VarintLength(n) \in 1..WordBytes
         /\ VarintLength(n) = WordBytes \/ n < Power[VarintLength(n)]
         /\ \A j \in 1..(VarintLength(n) - 1) : n >= Power[j]
<1> DEFINE T == {k \in 1..WordBytes : k = WordBytes \/ n < Power[k]}
           Enough(k) == /\ k = WordBytes \/ n < Power[k]
                      /\ \A j \in 1..(k - 1) : n >= Power[j]
<1>1. WordBytes \in Nat \ {0}
  BY IndexFileAssumption
<1>2. PICK k \in T : \A y \in T : k <= y
  <2>1. T \in SUBSET Nat /\ WordBytes \in T
    BY <1>1
  <2>2. QED
    BY <2>1, Least
<1>3. ASSUME NEW j \in 1..(k - 1)
      PROVE  n >= Power[j]
  <2>1. j \in 1..WordBytes /\ j \in 0..WordBytes /\ j # WordBytes /\ ~(k <= j)
    BY <1>1, <1>2
  <2>2. ~(n < Power[j])
    BY <1>2, <2>1
  <2>3. Power[j] \in Nat
    BY <2>1, PowerIs
  <2>4. QED
    BY <2>2, <2>3
<1>4. k \in 1..WordBytes /\ Enough(k)
  BY <1>2, <1>3
<1>5. VarintLength(n) = CHOOSE l \in 1..WordBytes : Enough(l)
  BY Zenon DEF VarintLength
<1> HIDE DEF Enough
<1>6. VarintLength(n) \in 1..WordBytes /\ Enough(VarintLength(n))
  BY <1>4, <1>5, Zenon
<1>7. QED
  BY <1>6 DEF Enough

\* The digits of a number, and the marks that more of them follow.
Digit(n, i) == (n \div Power[i - 1]) % Radix

\* A digit is less than the radix.
LEMMA DigitIs ==
  ASSUME NEW n \in Nat, NEW i \in 1..WordBytes
  PROVE  Digit(n, i) \in 0..(Radix - 1)
<1>1. Radix \in Nat \ {0} /\ WordBytes \in Nat
  BY IndexFileAssumption
<1>2. PICK p \in Nat \ {0} : p = Power[i - 1]
  <2>1. i - 1 \in 0..WordBytes
    BY <1>1
  <2>2. QED
    BY <2>1, PowerIs
<1>3. PICK q \in Nat : q = n \div p
  OBVIOUS
<1>4. q % Radix \in 0..(Radix - 1)
  BY <1>1
<1>5. QED
  BY <1>2, <1>3, <1>4 DEF Digit

\* What is written of a number is its digits, all but the last marked.
LEMMA WriteVarintIs ==
  ASSUME NEW n \in Nat
  PROVE  /\ WriteVarint(n) \in Seq(Nat) /\ Len(WriteVarint(n)) = VarintLength(n)
         /\ \A i \in 1..VarintLength(n) :
              WriteVarint(n)[i] = Digit(n, i) + (IF i < VarintLength(n) THEN Radix ELSE 0)
<1>1. PICK l \in 1..WordBytes : l = VarintLength(n)
  BY VarintLengthIs
<1>2. l \in Nat /\ Radix \in Nat /\ WordBytes \in Nat
  BY <1>1, IndexFileAssumption
<1>3. WriteVarint(n) = [i \in 1..l |-> Digit(n, i) + (IF i < l THEN Radix ELSE 0)]
  BY <1>1, Zenon DEF WriteVarint, Digit
<1>4. ASSUME NEW i \in 1..l
      PROVE  Digit(n, i) + (IF i < l THEN Radix ELSE 0) \in Nat
  <2>1. i \in 1..WordBytes
    BY <1>1, <1>2
  <2>2. Digit(n, i) \in 0..(Radix - 1)
    BY <2>1, DigitIs
  <2>3. QED
    BY <1>2, <2>2
<1>5. WriteVarint(n) \in [1..l -> Nat]
  BY <1>3, <1>4
<1>6. WriteVarint(n) \in Seq(Nat) /\ Len(WriteVarint(n)) = l
  BY <1>2, <1>5, SeqDef, LenProperties
<1>7. QED
  BY <1>1, <1>3, <1>6

\* A number is its quotient and its remainder.
LEMMA DivIs ==
  ASSUME NEW n \in Nat, NEW d \in Nat \ {0}
  PROVE  /\ n \div d \in Nat /\ n % d \in 0..(d - 1)
         /\ n = (n \div d) * d + (n % d)
  OBVIOUS

\* Dividing twice is dividing by the product.
LEMMA DivTwice ==
  ASSUME NEW n \in Nat, NEW p \in Nat \ {0}, NEW r \in Nat \ {0}
  PROVE  n \div (r * p) = (n \div p) \div r
<1>1. PICK a \in Nat, b \in 0..(p - 1) : a = n \div p /\ n = a * p + b
  BY DivIs
<1>2. PICK c \in Nat, d \in 0..(r - 1) : c = a \div r /\ a = c * r + d
  BY DivIs
<1>3. PICK m \in Nat \ {0} : m = r * p
  OBVIOUS
<1>4. PICK x \in Nat : x = d * p + b
  <2>1. d * p \in Nat
    BY <1>2
  <2>2. QED
    BY <1>1, <2>1
<1>5. x < m
  <2>1. (d + 1) * p <= r * p
    BY <1>2
  <2>2. (d + 1) * p = d * p + p
    BY <1>2
  <2>3. PICK y \in Nat, z \in Nat : y = d * p /\ z = r * p
    BY <1>2
  <2>4. QED
    BY <1>1, <1>3, <1>4, <2>1, <2>2, <2>3
<1>6. n = c * m + x
  <2>1. a * p = (c * r) * p + d * p
    BY <1>2
  <2>2. (c * r) * p = c * (r * p)
    BY <1>2
  <2>3. PICK u \in Nat, v \in Nat, y \in Nat : u = c * m /\ v = d * p /\ y = a * p
    <3>1. c * m \in Nat
      BY <1>2
    <3>2. d * p \in Nat
      BY <1>2
    <3>3. a * p \in Nat
      BY <1>1
    <3>4. QED
      BY <3>1, <3>2, <3>3
  <2>4. y = u + v
    BY <1>3, <2>1, <2>2, <2>3
  <2>5. QED
    BY <1>1, <1>4, <2>3, <2>4
<1>7. PICK e \in Nat, f \in 0..(m - 1) : e = n \div m /\ n = e * m + f
  BY DivIs
<1>8. e = c
  <2>1. ASSUME NEW u \in Nat, NEW v \in Nat, NEW s \in 0..(m - 1), NEW t \in 0..(m - 1),
               u * m + s = v * m + t, u < v
        PROVE  FALSE
    <3>1. (u + 1) * m <= v * m
      BY <2>1
    <3>2. (u + 1) * m = u * m + m
      BY <2>1
    <3>3. QED
      BY <2>1, <3>1, <3>2
  <2>2. x \in 0..(m - 1)
    BY <1>5
  <2>3. e * m + f = c * m + x
    BY <1>6, <1>7
  <2>4. ~(e < c) /\ ~(c < e)
    BY <2>1, <2>2, <2>3, <1>2, <1>7
  <2>5. QED
    BY <2>4, <1>2, <1>7
<1>9. QED
  BY <1>1, <1>2, <1>3, <1>7, <1>8

\* Weights do not fall.
LEMMA PowersGrow ==
  ASSUME NEW k \in 0..WordBytes, NEW j \in 0..k
  PROVE  Power[j] <= Power[k]
<1>0. WordBytes \in Nat /\ Radix \in Nat /\ Radix > 1
  BY IndexFileAssumption
<1> DEFINE S == {i \in 0..WordBytes : j <= i => Power[j] <= Power[i]}
<1>1. j \in 0..WordBytes /\ Power[j] \in Nat
  BY <1>0, PowerIs
<1>2. 0 \in S
  BY <1>0, <1>1
<1>3. ASSUME NEW i \in 0..WordBytes, i \in S, i < WordBytes
      PROVE  i + 1 \in S
  <2>1. i + 1 \in 1..WordBytes /\ (i + 1) - 1 = i /\ i + 1 \in 0..WordBytes
    BY <1>0, <1>3
  <2>2. Power[i + 1] = Radix * Power[i] /\ Power[i] \in Nat \ {0}
    BY <2>1, PowerIs
  <2>3. Power[i + 1] >= Power[i]
    <3>1. PICK p \in Nat \ {0} : p = Power[i]
      BY <2>2
    <3>2. Radix * p >= p
      BY <1>0
    <3>3. QED
      BY <2>2, <3>1, <3>2
  <2>4. j <= i + 1 => j <= i \/ j = i + 1
    BY <1>1, <2>1
  <2>5. Power[i + 1] \in Nat
    BY <2>1, PowerIs
  <2>6. QED
    BY <1>1, <1>3, <2>1, <2>2, <2>3, <2>4, <2>5
<1>4. \A i \in 0..WordBytes : i \in S
  <2> HIDE DEF S
  <2>1. QED
    BY <1>0, <1>2, <1>3, UpTo
<1>5. QED
  BY <1>4

\* What the bounds on a word are.
LEMMA WordIs ==
  /\ WordBytes \in Nat \ {0} /\ Radix \in Nat /\ Radix > 1
  /\ LastByte \in Nat /\ LastByte < Radix
  /\ Power[WordBytes - 1] \in Nat \ {0}
  /\ WideMax = LastByte * Power[WordBytes - 1] + Power[WordBytes - 1] - 1
  /\ WideMax \in Nat /\ WideMax < Power[WordBytes]
<1>1. /\ WordBytes \in Nat \ {0} /\ Radix \in Nat /\ Radix > 1 /\ LastByte \in Nat
      /\ LastByte < Radix /\ WideMax = LastByte * Power[WordBytes - 1] + Power[WordBytes - 1] - 1
  BY IndexFileAssumption
<1>2. PICK p \in Nat \ {0} : p = Power[WordBytes - 1] /\ Power[WordBytes] = Radix * p
  <2>1. WordBytes - 1 \in 0..WordBytes /\ WordBytes \in 1..WordBytes
    BY <1>1
  <2>2. QED
    BY <2>1, PowerIs
<1>3. LastByte * p \in Nat /\ (LastByte + 1) * p = LastByte * p + p
  BY <1>1
<1>4. (LastByte + 1) * p <= Radix * p
  <2>1. LastByte + 1 <= Radix
    BY <1>1
  <2>2. QED
    BY <1>1, <2>1
<1>5. PICK y \in Nat, z \in Nat : y = LastByte * p /\ z = Radix * p
  BY <1>1
<1>6. WideMax = y + p - 1 /\ y + p <= z
  BY <1>1, <1>2, <1>3, <1>4, <1>5
<1>7. QED
  BY <1>1, <1>2, <1>5, <1>6

\* The digits of a number add up to it.
LEMMA DigitsAddUp ==
  ASSUME NEW n \in Nat, NEW l \in 1..WordBytes, n < Power[l]
  PROVE  Sum([i \in 1..l |-> Digit(n, i) * Power[i - 1]]) = n
<1> DEFINE parts == [i \in 1..l |-> Digit(n, i) * Power[i - 1]]
<1>0. l \in Nat /\ WordBytes \in Nat \ {0} /\ Radix \in Nat /\ Radix > 1
  BY WordIs
<1>1. ASSUME NEW i \in 1..l
      PROVE  i \in 1..WordBytes /\ i - 1 \in 0..WordBytes /\ parts[i] \in Nat
  <2>1. i \in 1..WordBytes /\ i - 1 \in 0..WordBytes
    BY <1>0
  <2>2. Digit(n, i) \in Nat /\ Power[i - 1] \in Nat
    BY <1>0, <2>1, DigitIs, PowerIs
  <2>3. QED
    BY <2>1, <2>2
<1>2. parts \in Seq(Int) /\ Len(parts) = l
  <2>1. parts \in [1..l -> Int]
    <3>1. \A i \in 1..l : parts[i] \in Int
      BY <1>1
    <3>2. QED
      BY <3>1
  <2> HIDE DEF parts
  <2>2. QED
    BY <1>0, <2>1, SeqDef, LenProperties
<1>3. PICK P \in [0..l -> Int] : PartialSums(P, parts) /\ Sum(parts) = P[l]
  <2> HIDE DEF parts
  <2>1. QED
    BY <1>2, SumIs
<1> DEFINE S == {k \in 0..l : n = P[k] + (n \div Power[k]) * Power[k]}
<1>4. 0 \in S
  <2>1. n \div 1 = n /\ n * 1 = n
    OBVIOUS
  <2>2. QED
    BY <1>0, <1>3, <2>1, PowerIs DEF PartialSums
<1>5. ASSUME NEW k \in 0..l, k \in S, k < l
      PROVE  k + 1 \in S
  <2>1. PICK j \in 1..l : j = k + 1 /\ j - 1 = k /\ j \in 0..l
    BY <1>0, <1>5
  <2>2. PICK p \in Nat \ {0} : p = Power[k] /\ Power[j] = Radix * p
    BY <1>1, <2>1, PowerIs
  <2>3. PICK a \in Nat : a = n \div p /\ n = P[k] + a * p
    <3>1. n \div p \in Nat
      BY <2>2, DivIs
    <3>2. n = P[k] + (n \div p) * p
      BY <1>5, <2>2
    <3>3. QED
      BY <3>1, <3>2
  <2>4. PICK c \in Nat, d \in Nat : c = a \div Radix /\ d = a % Radix /\ a = c * Radix + d
    <3>1. Radix \in Nat \ {0}
      BY <1>0
    <3>2. a \div Radix \in Nat /\ a % Radix \in 0..(Radix - 1)
          /\ a = (a \div Radix) * Radix + (a % Radix)
      BY <3>1, DivIs
    <3>3. a % Radix \in Nat
      BY <3>2
    <3>4. QED
      BY <3>2, <3>3
  <2>5. n \div Power[j] = c
    <3>1. Radix \in Nat \ {0}
      BY <1>0
    <3>2. n \div (Radix * p) = (n \div p) \div Radix
      BY <3>1, DivTwice
    <3>3. QED
      BY <2>2, <2>3, <2>4, <3>2
  <2>6. P[j] = P[k] + d * p
    <3>1. parts[j] = d * p
      BY <2>1, <2>2, <2>3, <2>4 DEF Digit
    <3>2. P[j] = P[j - 1] + parts[j]
      BY <1>2, <1>3, <2>1 DEF PartialSums
    <3>3. QED
      BY <2>1, <3>1, <3>2
  <2>7. P[k] \in Int
    OBVIOUS
  <2>8. a * p = d * p + c * (Radix * p)
    <3>1. a * p = (c * Radix) * p + d * p
      <4>1. PICK u \in Nat : u = c * Radix
        BY <1>0
      <4>2. a = u + d
        BY <2>4, <4>1
      <4>3. (u + d) * p = u * p + d * p
        OBVIOUS
      <4>4. QED
        BY <4>1, <4>2, <4>3
    <3>2. (c * Radix) * p = c * (Radix * p)
      BY <1>0
    <3>3. QED
      BY <1>0, <3>1, <3>2
  <2>9. n = P[j] + c * (Radix * p)
    <3>1. PICK x \in Int, y \in Int, z \in Int : x = a * p /\ y = d * p /\ z = c * (Radix * p)
      BY <1>0
    <3>2. QED
      BY <2>3, <2>6, <2>7, <2>8, <3>1
  <2>10. n = P[j] + (n \div Power[j]) * Power[j]
    BY <2>2, <2>5, <2>9
  <2>11. QED
    BY <2>1, <2>10
<1>6. l \in S
  <2>1. \A k \in 0..l : k \in S
    <3> HIDE DEF S
    <3>1. QED
      BY <1>0, <1>4, <1>5, UpTo
  <2>2. QED
    BY <1>0, <2>1
<1>7. n \div Power[l] = 0
  <2>1. PICK p \in Nat \ {0} : p = Power[l]
    BY <1>0, PowerIs
  <2>2. PICK a \in Nat, b \in Nat : a = n \div p /\ n = a * p + b
    <3>1. /\ n \div p \in Nat /\ n % p \in 0..(p - 1)
          /\ n = (n \div p) * p + (n % p)
      BY DivIs
    <3>2. n % p \in Nat
      BY <3>1
    <3>3. QED
      BY <3>1, <3>2
  <2>3. a >= 1 => a * p >= p
    OBVIOUS
  <2>4. QED
    BY <2>1, <2>2, <2>3
<1>8. n = P[l]
  <2>1. Power[l] \in Nat /\ P[l] \in Int
    BY <1>0, PowerIs
  <2>2. QED
    BY <1>6, <1>7, <2>1
<1>9. QED
  BY <1>3, <1>8

-----------------------------------------------------------------------------
(* Numbers as bytes *)

\* The mark of a byte is lost in its remainder.
LEMMA Remainders ==
  ASSUME NEW r \in Nat \ {0}, NEW d \in 0..(r - 1)
  PROVE  d % r = d /\ (d + r) % r = d
  OBVIOUS

\* The last byte of a number that fits a word.
LEMMA LastDigit ==
  ASSUME NEW n \in 0..WideMax
  PROVE  Digit(n, WordBytes) <= LastByte
<1>1. PICK p \in Nat \ {0} : p = Power[WordBytes - 1]
  BY WordIs
<1>2. /\ LastByte \in Nat /\ Radix \in Nat \ {0} /\ LastByte < Radix
      /\ WideMax = LastByte * p + p - 1 /\ n \in Nat /\ n <= WideMax /\ WideMax \in Nat
  BY <1>1, WordIs
<1>3. PICK a \in Nat, b \in 0..(p - 1) : a = n \div p /\ n = a * p + b
  <2>1. /\ n \div p \in Nat /\ n % p \in 0..(p - 1)
        /\ n = (n \div p) * p + (n % p)
    BY <1>2, DivIs
  <2>2. QED
    BY <2>1
<1>4. a <= LastByte
  <2>1. SUFFICES ASSUME a >= LastByte + 1 PROVE FALSE
    BY <1>2
  <2>2. a * p >= (LastByte + 1) * p
    BY <1>2, <2>1
  <2>3. (LastByte + 1) * p = LastByte * p + p
    BY <1>2
  <2>4. PICK x \in Nat, y \in Nat : x = a * p /\ y = LastByte * p
    BY <1>2
  <2>5. QED
    BY <1>2, <1>3, <2>2, <2>3, <2>4
<1>5. a % Radix = a
  BY <1>2, <1>4
<1>6. QED
  BY <1>1, <1>3, <1>4, <1>5 DEF Digit

\* A number is read as it was written, whatever follows it.
LEMMA ReadBack ==
  ASSUME NEW n \in 0..WideMax, NEW rest \in Seq(Nat)
  PROVE  ReadVarint(WriteVarint(n) \o rest)
             = Accepted([number |-> n, length |-> VarintLength(n)])
<1> DEFINE bytes == WriteVarint(n) \o rest
           ends == {k \in 1..Smaller(Len(bytes), WordBytes) : ~Follow(bytes[k])}
<1>0. WordBytes \in Nat \ {0} /\ Radix \in Nat \ {0} /\ n \in Nat
  BY WordIs
<1>1. PICK l \in 1..WordBytes : l = VarintLength(n) /\ l \in Nat
  BY <1>0, VarintLengthIs
<1>2. n < Power[l]
  <2>1. l = WordBytes \/ n < Power[l]
    BY <1>0, <1>1, VarintLengthIs
  <2>2. n < Power[WordBytes]
    <3>1. WideMax \in Nat /\ WideMax < Power[WordBytes] /\ Power[WordBytes] \in Nat
      BY <1>0, WordIs, PowerIs
    <3>2. QED
      BY <3>1
  <2>3. QED
    BY <2>1, <2>2
<1>3. /\ bytes \in Seq(Nat) /\ Len(bytes) \in Nat /\ l <= Len(bytes)
      /\ \A i \in 1..l : bytes[i] = Digit(n, i) + (IF i < l THEN Radix ELSE 0)
  <2>1. /\ WriteVarint(n) \in Seq(Nat) /\ Len(WriteVarint(n)) = l
        /\ \A i \in 1..l : WriteVarint(n)[i] = Digit(n, i) + (IF i < l THEN Radix ELSE 0)
    BY <1>0, <1>1, WriteVarintIs
  <2>2. /\ bytes \in Seq(Nat) /\ Len(bytes) = l + Len(rest)
        /\ \A i \in 1..l : bytes[i] = WriteVarint(n)[i]
    <3>1. PICK w \in Seq(Nat) : w = WriteVarint(n) /\ Len(w) = l
      BY <2>1
    <3>2. /\ w \o rest \in Seq(Nat) /\ Len(w \o rest) = l + Len(rest)
          /\ \A i \in 1..(l + Len(rest)) :
               (w \o rest)[i] = IF i <= l THEN w[i] ELSE rest[i - l]
      BY <3>1, ConcatProperties
    <3>3. \A i \in 1..l : i \in 1..(l + Len(rest)) /\ i <= l
      <4>1. Len(rest) \in Nat
        OBVIOUS
      <4>2. QED
        BY <1>1, <4>1
    <3>4. QED
      BY <3>1, <3>2, <3>3
  <2>3. Len(rest) \in Nat
    OBVIOUS
  <2>4. QED
    BY <1>1, <2>1, <2>2, <2>3
<1> HIDE DEF bytes
<1>4. \A i \in 1..l : Digit(n, i) \in 0..(Radix - 1)
  <2>1. \A i \in 1..l : i \in 1..WordBytes
    BY <1>0, <1>1
  <2>2. QED
    BY <1>0, <2>1, DigitIs
<1>5. l \in ends /\ \A k \in ends : l <= k
  <2>1. l \in 1..Smaller(Len(bytes), WordBytes)
    BY <1>0, <1>1, <1>3 DEF Smaller
  <2>2. ~Follow(bytes[l])
    <3>1. l \in 1..l
      BY <1>1
    <3>2. bytes[l] = Digit(n, l) + 0 /\ Digit(n, l) \in 0..(Radix - 1)
      BY <1>3, <1>4, <3>1
    <3>3. QED
      BY <1>0, <3>2 DEF Follow
  <2>3. ASSUME NEW k \in ends, ~(l <= k)
        PROVE  FALSE
    <3>1. k \in Nat /\ k \in 1..l /\ k < l
      BY <1>0, <1>1, <1>3, <2>3 DEF Smaller
    <3>2. bytes[k] = Digit(n, k) + Radix /\ Digit(n, k) \in 0..(Radix - 1)
      BY <1>3, <1>4, <3>1
    <3>3. Follow(bytes[k])
      BY <1>0, <3>2 DEF Follow
    <3>4. QED
      BY <2>3, <3>3
  <2>4. QED
    BY <2>1, <2>2, <2>3
<1>6. ends # {} /\ Min(ends) = l
  <2>1. ends \in SUBSET Nat
    OBVIOUS
  <2> HIDE DEF ends
  <2>2. QED
    BY <1>5, <2>1, MinIs
<1>7. ReadVarint(bytes) = ReadNumber(bytes, l)
  <2>1. ReadVarint(bytes) = IF ends = {} THEN Refused ELSE ReadNumber(bytes, Min(ends))
    BY DEF ReadVarint, ReadEnding
  <2> HIDE DEF ends
  <2>2. QED
    BY <1>6, <2>1
<1>8. ~(l = WordBytes /\ bytes[l] > LastByte)
  <2>1. l \in 1..l
    BY <1>1
  <2>2. bytes[l] = Digit(n, l) + 0 /\ Digit(n, l) \in 0..(Radix - 1)
    BY <1>3, <1>4, <2>1
  <2>3. Digit(n, WordBytes) <= LastByte /\ LastByte \in Nat
    BY LastDigit, WordIs
  <2>4. QED
    BY <1>0, <2>2, <2>3
<1>9. [i \in 1..l |-> (bytes[i] % Radix) * Power[i - 1]]
        = [i \in 1..l |-> Digit(n, i) * Power[i - 1]]
  <2>1. ASSUME NEW i \in 1..l
        PROVE  bytes[i] % Radix = Digit(n, i)
    <3>1. Digit(n, i) \in 0..(Radix - 1) /\ Radix \in Nat \ {0}
      BY <1>0, <1>4
    <3>2. bytes[i] = Digit(n, i) \/ bytes[i] = Digit(n, i) + Radix
      BY <1>3, <3>1
    <3>3. QED
      BY <3>1, <3>2, Remainders
  <2>2. QED
    BY <2>1
<1>10. Sum([i \in 1..l |-> (bytes[i] % Radix) * Power[i - 1]]) = n
  BY <1>0, <1>2, <1>9, DigitsAddUp
<1>11. QED
  BY <1>1, <1>7, <1>8, <1>10 DEF ReadNumber, bytes

\* The value of some bytes fits so many of them.
LEMMA ValueIs ==
  ASSUME NEW k \in 1..WordBytes, NEW bytes, \A i \in 1..k : bytes[i] \in Nat
  PROVE  \E m \in Nat :
           /\ m = Sum([i \in 1..k |-> (bytes[i] % Radix) * Power[i - 1]]) /\ m < Power[k]
           /\ k = WordBytes /\ bytes[k] <= LastByte => m <= WideMax
<1> DEFINE parts == [i \in 1..k |-> (bytes[i] % Radix) * Power[i - 1]]
<1>0. k \in Nat /\ WordBytes \in Nat \ {0} /\ Radix \in Nat \ {0} /\ Radix \in Nat
  BY WordIs
<1>1. ASSUME NEW i \in 1..k
      PROVE  /\ i \in 1..WordBytes /\ i - 1 \in 0..WordBytes
             /\ bytes[i] % Radix \in 0..(Radix - 1) /\ Power[i - 1] \in Nat \ {0}
             /\ parts[i] \in Nat
  <2>1. i \in 1..WordBytes /\ i - 1 \in 0..WordBytes
    BY <1>0
  <2>2. bytes[i] \in Nat
    OBVIOUS
  <2>3. bytes[i] % Radix \in 0..(Radix - 1)
    BY <1>0, <2>2
  <2>4. Power[i - 1] \in Nat \ {0}
    BY <2>1, PowerIs
  <2>5. PICK x \in Nat, y \in Nat : x = bytes[i] % Radix /\ y = Power[i - 1]
    BY <1>0, <2>3, <2>4
  <2>6. x * y \in Nat
    OBVIOUS
  <2>7. QED
    BY <2>1, <2>3, <2>4, <2>5, <2>6
<1>2. parts \in Seq(Int) /\ Len(parts) = k
  <2>1. parts \in [1..k -> Int]
    <3>1. \A i \in 1..k : parts[i] \in Int
      BY <1>1
    <3>2. QED
      BY <3>1
  <2> HIDE DEF parts
  <2>2. QED
    BY <1>0, <2>1, SeqDef, LenProperties
<1>3. PICK P \in [0..k -> Int] : PartialSums(P, parts) /\ Sum(parts) = P[k]
  <2> HIDE DEF parts
  <2>1. QED
    BY <1>2, SumIs
<1> DEFINE S == {j \in 0..k : P[j] \in Nat /\ P[j] < Power[j]}
<1>4. 0 \in S
  BY <1>0, <1>3, PowerIs DEF PartialSums
<1>5. ASSUME NEW j \in 0..k, j \in S, j < k
      PROVE  j + 1 \in S
  <2>1. PICK i \in 1..k : i = j + 1 /\ i - 1 = j /\ i \in 0..k
    BY <1>0, <1>5
  <2>2. PICK p \in Nat \ {0} : p = Power[j] /\ Power[i] = Radix * p
    BY <1>1, <2>1, PowerIs
  <2>3. PICK d \in 0..(Radix - 1) : d = bytes[i] % Radix
    BY <1>1
  <2>4. P[i] = P[j] + d * p
    <3>1. parts[i] = d * p
      BY <2>1, <2>2, <2>3
    <3>2. P[i] = P[i - 1] + parts[i]
      BY <1>2, <1>3, <2>1 DEF PartialSums
    <3>3. QED
      BY <2>1, <3>1, <3>2
  <2>5. (d + 1) * p <= Radix * p
    <3>1. d + 1 <= Radix /\ d + 1 \in Nat
      BY <1>0
    <3>2. QED
      BY <1>0, <3>1
  <2>6. (d + 1) * p = d * p + p
    OBVIOUS
  <2>7. PICK x \in Nat, y \in Nat : x = d * p /\ y = Radix * p
    <3>1. d \in Nat
      BY <1>0
    <3>2. QED
      BY <1>0, <3>1
  <2>8. P[j] \in Nat /\ P[j] < p
    BY <1>5, <2>2
  <2>9. P[i] \in Nat /\ P[i] < Power[i]
    <3>1. P[i] = P[j] + x /\ x + p <= y /\ Power[i] = y
      BY <2>2, <2>4, <2>5, <2>6, <2>7
    <3>2. QED
      BY <2>8, <3>1
  <2>10. QED
    BY <2>1, <2>9
<1>6. \A j \in 0..k : j \in S
  <2> HIDE DEF S
  <2>1. QED
    BY <1>0, <1>4, <1>5, UpTo
<1>7. P[k] \in Nat /\ P[k] < Power[k]
  BY <1>0, <1>6
<1>8. ASSUME k = WordBytes, bytes[k] <= LastByte
      PROVE  P[k] <= WideMax
  <2>1. k \in 1..k /\ k - 1 \in 0..k
    BY <1>0
  <2>2. PICK p \in Nat \ {0} : p = Power[k - 1]
    BY <1>1, <2>1
  <2>3. bytes[k] \in Nat /\ LastByte \in Nat /\ LastByte < Radix
        /\ WideMax = LastByte * p + p - 1
    BY <1>8, <2>1, <2>2, WordIs
  <2>4. bytes[k] % Radix = bytes[k]
    <3>1. bytes[k] \in 0..(Radix - 1)
      BY <1>0, <1>8, <2>3
    <3>2. QED
      BY <1>0, <3>1, Remainders
  <2>5. P[k] = P[k - 1] + bytes[k] * p
    <3>1. parts[k] = bytes[k] * p
      BY <2>1, <2>2, <2>4
    <3>2. P[k] = P[k - 1] + parts[k]
      BY <1>2, <1>3, <2>1 DEF PartialSums
    <3>3. QED
      BY <3>1, <3>2
  <2>6. P[k - 1] \in Nat /\ P[k - 1] < p
    BY <1>6, <2>1, <2>2
  <2>7. PICK b \in Nat : b = bytes[k] /\ b <= LastByte
    BY <1>8, <2>3
  <2>8. b * p <= LastByte * p
    BY <2>3, <2>7
  <2>9. PICK x \in Nat, y \in Nat : x = b * p /\ y = LastByte * p
    BY <2>3
  <2>10. PICK v \in Nat : v = P[k - 1] /\ v < p
    BY <2>6
  <2>11. P[k] = v + x /\ WideMax = y + p - 1 /\ x <= y
    BY ONLY <2>3, <2>5, <2>7, <2>8, <2>9, <2>10
  <2>12. QED
    BY ONLY <2>10, <2>11, p \in Nat \ {0}, x \in Nat, y \in Nat, v \in Nat
<1>9. QED
  BY <1>3, <1>7, <1>8

\* What is read is a number of a word that its own encoding would not have
\* made longer, or nothing.
LEMMA ReadIs ==
  ASSUME NEW bytes \in Seq(Nat)
  PROVE  \/ ReadVarint(bytes) = Refused
         \/ \E k \in 1..Len(bytes), m \in 0..WideMax :
              /\ ReadVarint(bytes) = Accepted([number |-> m, length |-> k])
              /\ VarintLength(m) <= k
<1>1. PICK n : n = Len(bytes) /\ n \in Nat /\ DOMAIN bytes = 1..n
  BY LenProperties
<1>2. WordBytes \in Nat \ {0} /\ Radix \in Nat \ {0} /\ WideMax \in Nat /\ LastByte \in Nat
  BY WordIs
<1>3. \A i \in 1..n : bytes[i] \in Nat
  BY <1>1, ElementOfSeq
<1> DEFINE ends == {k \in 1..Smaller(Len(bytes), WordBytes) : ~Follow(bytes[k])}
<1>4. \A k \in ends : k \in 1..n /\ k \in 1..WordBytes
  BY <1>1, <1>2 DEF Smaller
<1>5. ASSUME ends # {}
      PROVE  Min(ends) \in ends
  <2>1. ends \in SUBSET Nat
    OBVIOUS
  <2> HIDE DEF ends
  <2>2. PICK x \in ends : \A y \in ends : x <= y
    BY <1>5, <2>1, Least
  <2>3. QED
    BY <2>2, Zenon DEF Min
<1>6. ASSUME NEW k \in 1..n, k \in 1..WordBytes
      PROVE  \/ ReadNumber(bytes, k) = Refused
             \/ \E m \in 0..WideMax :
                   /\ ReadNumber(bytes, k) = Accepted([number |-> m, length |-> k])
                   /\ VarintLength(m) <= k
  <2>1. \A i \in 1..k : bytes[i] \in Nat
    BY <1>1, <1>3
  <2>2. PICK m \in Nat :
           /\ m = Sum([i \in 1..k |-> (bytes[i] % Radix) * Power[i - 1]]) /\ m < Power[k]
           /\ k = WordBytes /\ bytes[k] <= LastByte => m <= WideMax
    BY <1>6, <2>1, ValueIs
  <2>3. CASE k = WordBytes /\ bytes[k] > LastByte
    BY <2>3 DEF ReadNumber
  <2>4. CASE ~(k = WordBytes /\ bytes[k] > LastByte)
    <3>1. ReadNumber(bytes, k) = Accepted([number |-> m, length |-> k])
      BY <2>2, <2>4, Zenon DEF ReadNumber
    <3>2. m <= WideMax
      <4>1. CASE k = WordBytes
        <5>1. bytes[k] \in Nat
          BY <1>3
        <5>2. QED
          BY <1>2, <2>2, <2>4, <4>1, <5>1
      <4>2. CASE k # WordBytes
        <5>1. k \in 0..(WordBytes - 1) /\ WordBytes - 1 \in 0..WordBytes /\ k \in 0..WordBytes
          BY <1>2, <1>6, <4>2
        <5>2. Power[k] <= Power[WordBytes - 1] /\ Power[k] \in Nat
          BY <5>1, PowersGrow, PowerIs
        <5>3. PICK p \in Nat \ {0} : p = Power[WordBytes - 1] /\ WideMax = LastByte * p + p - 1
          BY WordIs
        <5>4. LastByte * p \in Nat
          BY <1>2
        <5>5. PICK y \in Nat : y = LastByte * p
          BY <5>4
        <5>6. PICK x \in Nat : x = Power[k] /\ x <= p /\ m < x /\ m \in Nat
          BY <2>2, <5>2, <5>3
        <5>7. QED
          BY ONLY <5>3, <5>5, <5>6
      <4>3. QED
        BY <4>1, <4>2
    <3>3. VarintLength(m) <= k
      <4>1. SUFFICES ASSUME k < VarintLength(m) PROVE FALSE
        <5>1. VarintLength(m) \in Nat
          <6>1. VarintLength(m) \in 1..WordBytes
            BY VarintLengthIs
          <6>2. QED
            BY <1>2, <6>1
        <5>2. QED
          BY <1>1, <5>1
      <4>2. k \in 1..(VarintLength(m) - 1)
        <5>1. VarintLength(m) \in Nat
          <6>1. VarintLength(m) \in 1..WordBytes
            BY VarintLengthIs
          <6>2. QED
            BY <1>2, <6>1
        <5>2. QED
          BY <1>1, <4>1, <5>1
      <4>3. m >= Power[k]
        BY <4>2, VarintLengthIs
      <4>4. Power[k] \in Nat
        <5>1. k \in 0..WordBytes
          BY <1>2, <1>6
        <5>2. QED
          BY <5>1, PowerIs
      <4>5. QED
        BY <2>2, <4>3, <4>4
    <3>4. m \in 0..WideMax
      BY <1>2, <3>2
    <3>5. QED
      BY <3>1, <3>3, <3>4
  <2>5. QED
    BY <2>3, <2>4
<1>7. ReadVarint(bytes) = IF ends = {} THEN Refused ELSE ReadNumber(bytes, Min(ends))
  BY DEF ReadVarint, ReadEnding
<1> HIDE DEF ends
<1>8. CASE ends = {}
  BY <1>7, <1>8
<1>9. CASE ends # {}
  <2>1. PICK k : k = Min(ends) /\ k \in 1..n /\ k \in 1..WordBytes
    BY <1>4, <1>5, <1>9
  <2>2. ReadVarint(bytes) = ReadNumber(bytes, k)
    BY <1>7, <1>9, <2>1
  <2>3. QED
    BY <1>1, <1>6, <2>1, <2>2
<1>10. QED
  BY <1>8, <1>9

\* The encoding of numbers is exact (storage_v2.rs).
LEMMA CodecExact == CodecIsExact
<1>0. Radix \in Nat \ {0} /\ WordBytes \in Nat /\ WideMax \in Nat
  BY WordIs
<1>1. ASSUME NEW n \in 0..WideMax, NEW b \in 0..(2 * Radix - 1)
      PROVE  ReadVarint(Append(WriteVarint(n), b))
                = Accepted([number |-> n, length |-> VarintLength(n)])
  <2>1. n \in Nat /\ b \in Nat
    BY <1>0
  <2>2. <<b>> \in Seq(Nat) /\ WriteVarint(n) \in Seq(Nat)
    BY <2>1, WriteVarintIs
  <2>3. Append(WriteVarint(n), b) = WriteVarint(n) \o <<b>>
    BY <2>1, <2>2, AppendIsConcat
  <2>4. QED
    BY <2>2, <2>3, ReadBack
<1>2. ASSUME NEW length \in 1..(WordBytes + 1), NEW bytes \in [1..length -> 0..(2 * Radix - 1)]
      PROVE  LET read == ReadVarint(bytes)
             IN  read.accepted => /\ read.value.number \in 0..WideMax
                                  /\ VarintLength(read.value.number) =< read.value.length
  <2>1. bytes \in Seq(Nat)
    <3>1. \A i \in 1..length : bytes[i] \in Nat
      BY <1>0
    <3>2. bytes \in [1..length -> Nat] /\ length \in Nat
      BY <1>0, <3>1
    <3>3. QED
      BY <3>2, SeqDef
  <2>2. CASE ReadVarint(bytes) = Refused
    BY <2>2 DEF Refused
  <2>3. CASE ReadVarint(bytes) # Refused
    <3>1. PICK k \in 1..Len(bytes), m \in 0..WideMax :
              /\ ReadVarint(bytes) = Accepted([number |-> m, length |-> k])
              /\ VarintLength(m) <= k
      BY <2>1, <2>3, ReadIs
    <3>2. ReadVarint(bytes).value.number = m /\ ReadVarint(bytes).value.length = k
      BY <3>1 DEF Accepted
    <3>3. QED
      BY <3>1, <3>2
  <2>4. QED
    BY <2>2, <2>3
<1>3. QED
  BY <1>1, <1>2 DEF CodecIsExact

-----------------------------------------------------------------------------
(* Postings in order *)

Postings == Nat \X Nat

\* The order of postings.
LEMMA PrecedesIs ==
  ASSUME NEW a \in Postings, NEW b \in Postings
  PROVE  Precedes(a, b) <=> a[1] < b[1] \/ (a[1] = b[1] /\ a[2] < b[2])
<1>1. a[1] \in Nat /\ a[2] \in Nat /\ b[1] \in Nat /\ b[2] \in Nat /\ DOMAIN a = {1, 2}
  BY DEF Postings
<1>2. 1..(1 - 1) = {} /\ 1..(2 - 1) = {1}
  OBVIOUS
<1>3. Precedes(a, b) <=> \/ a[1] < b[1] /\ \A j \in 1..(1 - 1) : a[j] = b[j]
                         \/ a[2] < b[2] /\ \A j \in 1..(2 - 1) : a[j] = b[j]
  BY <1>1, Zenon DEF Precedes
<1>4. QED
  BY <1>1, <1>2, <1>3

\* The order of keys of one number.
LEMMA NumbersPrecede ==
  ASSUME NEW m \in Nat, NEW n \in Nat
  PROVE  Precedes(<<m>>, <<n>>) <=> m < n
<1>1. DOMAIN <<m>> = {1} /\ <<m>>[1] = m /\ <<n>>[1] = n /\ 1..(1 - 1) = {}
  OBVIOUS
<1>2. Precedes(<<m>>, <<n>>) <=> <<m>>[1] < <<n>>[1] /\ \A j \in 1..(1 - 1) : <<m>>[j] = <<n>>[j]
  BY <1>1, Zenon DEF Precedes
<1>3. QED
  BY <1>1, <1>2

Ascends(postings) == \A i \in 1..(Len(postings) - 1) : Precedes(postings[i], postings[i + 1])

\* Increasing, for postings.
LEMMA AscendsIs ==
  ASSUME NEW s
  PROVE  Increasing(s, PostingKey) <=> Ascends(s)
  BY DEF Increasing, PostingKey, Ascends

\* A set of postings in order.
LEMMA PostingsOrdered ==
  ASSUME NEW S \in SUBSET Postings, IsFiniteSet(S), NEW s, s = Ordered(S, PostingKey)
  PROVE  s \in Seq(S) /\ Len(s) = Cardinality(S) /\ Range(s) = S /\ Ascends(s)
<1> DEFINE key == [p \in S |-> p]
<1>1. \A p \in Postings : p \in Keys(2)
  <2>1. TAKE p \in Postings
  <2>2. p = <<p[1], p[2]>> /\ p[1] \in Int /\ p[2] \in Int
    BY DEF Postings
  <2>3. QED
    BY <2>2, KeyOfTwo
<1>2. s = OrderedBy(S, key)
  BY Zenon DEF Ordered, PostingKey
<1>3. Sorts(s, S, key)
  <2>1. key \in [S -> Keys(2)]
    BY <1>1
  <2> HIDE DEF key
  <2>2. QED
    BY <1>2, <2>1, OrderedByIs
<1>4. ASSUME NEW i \in 1..(Len(s) - 1)
      PROVE  Precedes(s[i], s[i + 1])
  <2>1. i \in 1..Len(s) /\ i + 1 \in 1..Len(s) /\ i < i + 1 /\ s \in Seq(S)
    BY <1>3 DEF Sorts
  <2>2. s[i] # s[i + 1] /\ ~Precedes(key[s[i + 1]], key[s[i]])
    BY <1>3, <2>1 DEF Sorts
  <2>3. PICK a \in S, b \in S : a = s[i] /\ b = s[i + 1]
    BY <2>1, ElementOfSeq
  <2>4. a \in Keys(2) /\ b \in Keys(2) /\ a # b /\ ~Precedes(b, a)
    BY <1>1, <2>2, <2>3
  <2>5. QED
    BY <2>3, <2>4, PrecedesIsTotal
<1>5. QED
  BY <1>3, <1>4 DEF Sorts, Ascends

InOrder(S) == Ordered(S, LAMBDA fp : <<fp>>)

\* A set of numbers in order.
LEMMA NumbersOrdered ==
  ASSUME NEW S \in SUBSET Nat, IsFiniteSet(S), NEW s, s = InOrder(S)
  PROVE  /\ s \in Seq(S) /\ Len(s) = Cardinality(S) /\ Range(s) = S
         /\ \A i \in 1..Len(s), j \in 1..Len(s) : i < j => s[i] < s[j]
<1> DEFINE key == [x \in S |-> <<x>>]
<1>1. key \in [S -> Keys(1)]
  <2>1. ASSUME NEW x \in S
        PROVE  <<x>> \in Keys(1)
    BY KeyOfOne
  <2>2. QED
    BY <2>1
<1>2. s = OrderedBy(S, key)
  BY Zenon DEF Ordered, InOrder
<1>3. Sorts(s, S, key)
  <2> HIDE DEF key
  <2>1. QED
    BY <1>1, <1>2, OrderedByIs
<1>4. ASSUME NEW i \in 1..Len(s), NEW j \in 1..Len(s), i < j
      PROVE  s[i] < s[j]
  <2>1. s[i] # s[j] /\ ~Precedes(key[s[j]], key[s[i]]) /\ s \in Seq(S)
    BY <1>3, <1>4 DEF Sorts
  <2>2. PICK a \in S, b \in S : a = s[i] /\ b = s[j]
    BY <2>1, ElementOfSeq
  <2>3. ~Precedes(<<b>>, <<a>>)
    BY <2>1, <2>2
  <2>4. QED
    BY <2>1, <2>2, <2>3, NumbersPrecede
<1>5. QED
  BY <1>3, <1>4 DEF Sorts

\* The documents of increasing postings do not decrease.
LEMMA DocumentsGrow ==
  ASSUME NEW s \in Seq(Postings), Ascends(s), NEW j \in 1..Len(s), NEW i \in 1..j
  PROVE  s[i][1] <= s[j][1] /\ s[i][1] \in Nat /\ s[j][1] \in Nat
<1>1. PICK n \in Nat : n = Len(s)
  BY LenProperties
<1> DEFINE K == {k \in 0..n : k >= i => s[i][1] <= s[k][1]}
<1>2. \A k \in 1..n : s[k] \in Postings /\ s[k][1] \in Nat
  BY <1>1, ElementOfSeq DEF Postings
<1>3. 0 \in K
  BY <1>1
<1>4. ASSUME NEW k \in 0..n, k \in K, k < n
      PROVE  k + 1 \in K
  <2>1. PICK m \in 1..n : m = k + 1
    BY <1>1, <1>4
  <2>2. CASE m = i
    BY <1>2, <2>1, <2>2
  <2>3. CASE m > i
    <3>1. k \in 1..n /\ k >= i /\ k \in 1..(n - 1)
      BY <1>1, <2>1, <2>3
    <3>2. Precedes(s[k], s[m])
      BY <1>1, <2>1, <3>1 DEF Ascends
    <3>3. s[k][1] <= s[m][1]
      <4>1. PICK a, b : a = s[k] /\ b = s[m]
        OBVIOUS
      <4>2. a \in Postings /\ b \in Postings /\ a[1] \in Nat /\ b[1] \in Nat /\ Precedes(a, b)
        BY <1>2, <2>1, <3>1, <3>2, <4>1
      <4>3. a[1] < b[1] \/ a[1] = b[1]
        BY ONLY <4>2, PrecedesIs
      <4>4. QED
        BY ONLY <4>1, <4>2, <4>3
    <3>4. s[i][1] <= s[k][1]
      BY <1>4, <3>1
    <3>5. i \in 1..n
      BY <1>1
    <3>6. s[i][1] <= s[m][1]
      BY <1>2, <2>1, <3>1, <3>3, <3>4, <3>5
    <3>7. QED
      BY <1>1, <2>1, <3>6
  <2>4. CASE m < i
    BY <1>1, <2>1, <2>4
  <2>5. QED
    BY <1>1, <2>1, <2>2, <2>3, <2>4
<1>5. \A k \in 0..n : k \in K
  <2> HIDE DEF K
  <2>1. QED
    BY <1>1, <1>3, <1>4, UpTo
<1>6. j \in 0..n /\ j >= i /\ i \in 1..n /\ j \in 1..n
  BY <1>1
<1>7. QED
  BY <1>2, <1>5, <1>6

DocumentsOf(s) == {s[k][1] : k \in DOMAIN s}

\* Counting the places where the document changes counts the documents.
LEMMA ObservedIs ==
  ASSUME NEW s \in Seq(Postings), Ascends(s)
  PROVE  /\ ObservedDocuments(s) = Cardinality(DocumentsOf(s))
         /\ IsFiniteSet(DocumentsOf(s)) /\ Cardinality(DocumentsOf(s)) \in Nat
         /\ Cardinality(DocumentsOf(s)) <= Len(s)
         /\ s # <<>> => Cardinality(DocumentsOf(s)) >= 1
<1>1. PICK n \in Nat : n = Len(s) /\ DOMAIN s = 1..n
  BY LenProperties
<1> DEFINE A == {i \in 1..n : i = 1 \/ s[i][1] # s[i - 1][1]}
           D == {s[k][1] : k \in 1..n}
           f == [i \in A |-> s[i][1]]
<1>2. \A k \in 1..n : s[k][1] \in Nat
  BY <1>1, ElementOfSeq DEF Postings
<1>3. IsFiniteSet(1..n) /\ Cardinality(1..n) = n
  <2>1. 1 \in Int /\ n \in Int /\ n - 1 + 1 = n /\ (1 > n => n = 0)
    BY <1>1
  <2>2. IsFiniteSet(1..n) /\ Cardinality(1..n) = IF 1 > n THEN 0 ELSE n - 1 + 1
    BY <2>1, FS_Interval
  <2>3. QED
    BY <2>1, <2>2
<1>4. IsFiniteSet(A) /\ Cardinality(A) <= n
  <2>1. A \in SUBSET (1..n)
    OBVIOUS
  <2> HIDE DEF A
  <2>2. QED
    BY <1>3, <2>1, FS_Subset
<1>5. ASSUME NEW a \in A, NEW b \in A, a < b
      PROVE  s[a][1] # s[b][1]
  <2>1. b - 1 \in 1..Len(s) /\ a \in 1..(b - 1) /\ b \in 1..n /\ b # 1 /\ b - 1 \in 1..b
        /\ b \in 1..Len(s)
    BY <1>1, <1>5
  <2>2. s[a][1] <= s[b - 1][1]
    BY <2>1, DocumentsGrow
  <2>3. s[b - 1][1] <= s[b][1]
    BY <2>1, DocumentsGrow
  <2>4. s[b - 1][1] # s[b][1]
    BY <2>1
  <2>5. s[a][1] \in Nat /\ s[b - 1][1] \in Nat /\ s[b][1] \in Nat
    BY <1>1, <1>2, <2>1
  <2>6. QED
    BY <2>2, <2>3, <2>4, <2>5
<1>6. ASSUME NEW d \in D
      PROVE  \E i \in A : s[i][1] = d
  <2>1. {k \in 1..n : s[k][1] = d} \in SUBSET Nat /\ {k \in 1..n : s[k][1] = d} # {}
    OBVIOUS
  <2>2. PICK k \in {x \in 1..n : s[x][1] = d} : \A y \in {x \in 1..n : s[x][1] = d} : k <= y
    BY <2>1, Least
  <2>3. k # 1 => k - 1 \in 1..n /\ ~(k <= k - 1)
    BY <1>1
  <2>4. k # 1 => s[k - 1][1] # d
    BY <2>2, <2>3
  <2>5. QED
    BY <2>2, <2>4
<1>7. f \in Bijection(A, D)
  <2>1. f \in [A -> D]
    OBVIOUS
  <2>2. \A a, b \in A : f[a] = f[b] => a = b
    <3>1. \A a \in A : a \in Nat
      OBVIOUS
    <3>2. \A a, b \in A : a < b \/ b < a \/ a = b
      BY <3>1
    <3> HIDE DEF A
    <3>3. \A a \in A : f[a] = s[a][1]
      OBVIOUS
    <3> HIDE DEF f
    <3>4. QED
      BY <1>5, <3>2, <3>3
  <2>3. \A d \in D : \E a \in A : f[a] = d
    <3>1. \A a \in A : f[a] = s[a][1]
      OBVIOUS
    <3> HIDE DEF A, f, D
    <3>2. QED
      BY <1>6, <3>1
  <2> HIDE DEF A, f, D
  <2>4. QED
    BY <2>1, <2>2, <2>3, Zenon DEF Bijection, Injection, Surjection, IsInjective
<1>8. IsFiniteSet(D) /\ Cardinality(D) = Cardinality(A)
  <2>1. ExistsBijection(A, D)
    BY <1>7, Zenon DEF ExistsBijection
  <2> HIDE DEF A, D
  <2>2. QED
    BY <1>4, <2>1, FS_Bijection
<1>9. ObservedDocuments(s) = Cardinality(A) /\ DocumentsOf(s) = D
  BY <1>1, Zenon DEF ObservedDocuments, DocumentsOf
<1>10. Cardinality(D) \in Nat
  <2> HIDE DEF D
  <2>1. QED
    BY <1>8, FS_CardinalityType
<1>11. ASSUME s # <<>>
       PROVE  Cardinality(D) >= 1
  <2>1. n # 0
    BY <1>1, <1>11, EmptySeq
  <2>2. D # {}
    <3>1. 1 \in 1..n
      BY <1>1, <2>1
    <3>2. s[1][1] \in D
      BY <3>1
    <3>3. QED
      BY <3>2
  <2> HIDE DEF D
  <2>3. Cardinality(D) # 0
    BY <1>8, <2>2, FS_EmptySet
  <2>4. QED
    BY <1>10, <2>3
<1> HIDE DEF A, D
<1>12. QED
  BY <1>1, <1>4, <1>8, <1>9, <1>10, <1>11

-----------------------------------------------------------------------------
(* Reading postings *)

Inside(s, texts, q) == \A k \in DOMAIN s : InDocument(s[k], texts, q)
Reads(texts, q) ==
    {r \in [accepted : BOOLEAN, postings : Seq(Postings), rest : Seq(Nat)] :
        Ascends(r.postings) /\ Inside(r.postings, texts, q)}

\* One more posting, after those that were read.
LEMMA AscendsMore ==
  ASSUME NEW s \in Seq(Postings), Ascends(s), NEW p \in Postings,
         s = <<>> \/ Precedes(s[Len(s)], p), NEW texts, NEW q, Inside(s, texts, q),
         InDocument(p, texts, q)
  PROVE  /\ Append(s, p) \in Seq(Postings) /\ Ascends(Append(s, p))
         /\ Inside(Append(s, p), texts, q)
<1>1. PICK n \in Nat, t \in Seq(Postings) : n = Len(s) /\ DOMAIN s = 1..n /\ t = Append(s, p)
  BY LenProperties, AppendProperties
<1>2. /\ Len(t) = n + 1 /\ DOMAIN t = 1..(n + 1) /\ t[n + 1] = p
      /\ \A i \in 1..n : t[i] = s[i]
  BY <1>1, AppendProperties, LenProperties
<1>3. ASSUME NEW i \in 1..n
      PROVE  Precedes(t[i], t[i + 1])
  <2>1. CASE i = n
    <3>1. s # <<>>
      BY <1>1, <2>1, EmptySeq
    <3>2. QED
      BY <1>1, <1>2, <2>1, <3>1
  <2>2. CASE i # n
    <3>1. i \in 1..(n - 1) /\ i + 1 \in 1..n
      BY <1>1, <2>2
    <3>2. QED
      BY <1>1, <1>2, <3>1 DEF Ascends
  <2>3. QED
    BY <2>1, <2>2
<1>4. Ascends(t)
  <2>1. (n + 1) - 1 = n
    BY <1>1
  <2>2. QED
    BY <1>2, <1>3, <2>1 DEF Ascends
<1>5. Inside(t, texts, q)
  <2>1. \A i \in 1..(n + 1) : i \in 1..n \/ i = n + 1
    BY <1>1
  <2>2. QED
    BY <1>1, <1>2, <2>1 DEF Inside
<1>6. QED
  BY <1>1, <1>4, <1>5

\* Reading one more posting keeps what was read in order and inside.
LEMMA ReadPostingIn ==
  ASSUME NEW texts, NEW q, NEW r \in Reads(texts, q)
  PROVE  ReadPosting(r, texts, q) \in Reads(texts, q)
<1>1. /\ r.accepted \in BOOLEAN /\ r.postings \in Seq(Postings) /\ r.rest \in Seq(Nat)
      /\ Ascends(r.postings) /\ Inside(r.postings, texts, q)
      /\ r = [accepted |-> r.accepted, postings |-> r.postings, rest |-> r.rest]
  BY DEF Reads
<1>2. Unread(r) \in Reads(texts, q)
  BY <1>1 DEF Reads, Unread
<1> DEFINE before == IF r.postings = <<>> THEN <<0, 0>> ELSE Last(r.postings)
<1>3. before \in Postings /\ before[1] \in Nat /\ before[2] \in Nat
  <2>1. CASE r.postings = <<>>
    BY <2>1 DEF Postings
  <2>2. CASE r.postings # <<>>
    <3>1. Len(r.postings) \in 1..Len(r.postings)
      <4>1. Len(r.postings) \in Nat \ {0}
        BY <1>1, <2>2, EmptySeq
      <4>2. QED
        BY <4>1
    <3>2. Last(r.postings) \in Postings
      BY <1>1, <3>1, ElementOfSeq DEF Last
    <3>3. QED
      BY <2>2, <3>2 DEF Postings
  <2>3. QED
    BY <2>1, <2>2
<1> HIDE DEF before
<1>4. CASE ReadPosting(r, texts, q) \in {r, Unread(r)}
  BY <1>2, <1>4
<1>5. ASSUME ReadPosting(r, texts, q) \notin {r, Unread(r)}
      PROVE  ReadPosting(r, texts, q) \in Reads(texts, q)
  <2>1. ReadPosting(r, texts, q) = ReadDocument(r, before, ReadVarint(r.rest), texts, q)
    BY <1>5 DEF ReadPosting, before
  <2>2. ReadVarint(r.rest).accepted
    BY <1>5, <2>1 DEF ReadDocument
  <2>3. PICK k \in 1..Len(r.rest), m \in 0..WideMax :
           ReadVarint(r.rest) = Accepted([number |-> m, length |-> k])
    <3>1. PICK w \in Seq(Nat) : w = r.rest
      BY <1>1
    <3>2. ReadVarint(w).accepted
      BY <2>2, <3>1
    <3>3. \E k \in 1..Len(w), m \in 0..WideMax :
             ReadVarint(w) = Accepted([number |-> m, length |-> k])
      BY <3>2, ReadIs DEF Refused
    <3>4. QED
      BY <3>1, <3>3
  <2>4. PICK rest : rest = SubSeq(r.rest, k + 1, Len(r.rest))
    OBVIOUS
  <2>5. rest \in Seq(Nat)
    BY <1>1, <2>4
  <2>6. ReadPosting(r, texts, q) = ReadPosition(r, before, m, ReadVarint(rest), rest, texts, q)
    <3>1. ReadVarint(r.rest).value.number = m /\ ReadVarint(r.rest).value.length = k
      BY <2>3 DEF Accepted
    <3>2. QED
      BY <2>1, <2>2, <2>4, <3>1 DEF ReadDocument, ReadAfter
  <2>7. ReadVarint(rest).accepted
    BY <1>5, <2>6 DEF ReadPosition
  <2>8. PICK l \in 1..Len(rest), c \in 0..WideMax :
           ReadVarint(rest) = Accepted([number |-> c, length |-> l])
    BY <2>5, <2>7, ReadIs DEF Refused
  <2>9. PICK p : p = <<before[1] + m, c + (IF r.postings = <<>> \/ m > 0 THEN 0 ELSE before[2])>>
    OBVIOUS
  <2>10. p \in Postings
    <3>1. m \in Nat /\ c \in Nat
      BY WordIs
    <3>2. QED
      BY <1>3, <2>9, <3>1 DEF Postings
  <2>11. ReadPosting(r, texts, q)
            = AddPosting(r, before, p, SubSeq(rest, l + 1, Len(rest)), texts, q)
    <3>1. ReadVarint(rest).value.number = c /\ ReadVarint(rest).value.length = l
      BY <2>8 DEF Accepted
    <3>2. QED
      BY <2>6, <2>7, <2>9, <3>1 DEF ReadPosition
  <2>12. /\ r.postings = <<>> \/ Precedes(before, p)
         /\ InDocument(p, texts, q)
         /\ ReadPosting(r, texts, q) = [r EXCEPT !.postings = Append(@, p),
                                                 !.rest = SubSeq(rest, l + 1, Len(rest))]
    BY <1>5, <2>11 DEF AddPosting
  <2>13. /\ Append(r.postings, p) \in Seq(Postings) /\ Ascends(Append(r.postings, p))
         /\ Inside(Append(r.postings, p), texts, q)
    <3>1. r.postings = <<>> \/ Precedes(r.postings[Len(r.postings)], p)
      BY <2>12 DEF before, Last
    <3>2. QED
      BY <1>1, <2>10, <2>12, <3>1, AscendsMore
  <2>14. SubSeq(rest, l + 1, Len(rest)) \in Seq(Nat)
    BY <2>5
  <2>15. ReadPosting(r, texts, q) = [accepted |-> r.accepted, postings |-> Append(r.postings, p),
                                     rest |-> SubSeq(rest, l + 1, Len(rest))]
    BY <1>1, <2>12
  <2>16. PICK a \in Seq(Postings), b \in Seq(Nat) :
            /\ a = Append(r.postings, p) /\ b = SubSeq(rest, l + 1, Len(rest))
            /\ Ascends(a) /\ Inside(a, texts, q)
    BY <2>13, <2>14
  <2>17. ReadPosting(r, texts, q) = [accepted |-> r.accepted, postings |-> a, rest |-> b]
    BY <2>15, <2>16
  <2>18. PICK z : z = ReadPosting(r, texts, q)
    OBVIOUS
  <2>19. z \in [accepted : BOOLEAN, postings : Seq(Postings), rest : Seq(Nat)] /\ z.postings = a
    <3>1. PICK x \in BOOLEAN : x = r.accepted
      BY <1>1
    <3>2. z = [accepted |-> x, postings |-> a, rest |-> b]
      BY <2>17, <2>18, <3>1
    <3>3. a \in Seq(Postings) /\ b \in Seq(Nat)
      BY <2>16
    <3> HIDE <2>17, <2>18
    <3>4. QED
      BY <3>2, <3>3
  <2>20. Ascends(z.postings) /\ Inside(z.postings, texts, q)
    BY <2>16, <2>19
  <2>21. z \in Reads(texts, q)
    BY <2>19, <2>20 DEF Reads
  <2>22. QED
    BY <2>18, <2>21
<1>6. QED
  BY <1>4, <1>5

Opening(bytes) == [accepted |-> TRUE, postings |-> <<>>, rest |-> bytes]

\* The postings are read one after another.
Decodes(g, bytes, count, texts, q) ==
    /\ g[0] = Opening(bytes)
    /\ \A i \in 1..count : g[i] = ReadPosting(g[i - 1], texts, q)
    /\ ReadDeltaPostings(bytes, count, texts, q) = WholePayload(g[count])

\* Decoding is a run of such steps.
LEMMA DecodeIs ==
  ASSUME NEW bytes \in Seq(Nat), NEW count \in Nat, NEW texts, NEW q
  PROVE  \E g \in [0..count -> Reads(texts, q)] : Decodes(g, bytes, count, texts, q)
<1>1. PICK X : X = Reads(texts, q)
  OBVIOUS
<1> DEFINE base == Opening(bytes)
           step == [i \in 1..count |-> [r \in X |-> ReadPosting(r, texts, q)]]
           Body(g) == [T \in SUBSET (1..count) |->
                         IF T = {} THEN base ELSE ReadPosting(g[T \ {Max(T)}], texts, q)]
           iter == CHOOSE g : g = Body(g)
<1>2. base \in X
  <2>1. Ascends(<<>>) /\ Inside(<<>>, texts, q) /\ <<>> \in Seq(Postings)
    BY DEF Ascends, Inside
  <2>2. QED
    BY <1>1, <2>1 DEF Opening, Reads
<1>3. step \in [1..count -> [X -> X]]
  BY <1>1, ReadPostingIn
<1>4. ASSUME NEW g, NEW T \in SUBSET (1..count), T # {}, g[T \ {Max(T)}] \in X
      PROVE  Body(g)[T] = step[Max(T)][g[T \ {Max(T)}]]
  <2>1. Max(T) \in 1..count
    <3>1. T \in SUBSET (0..count)
      OBVIOUS
    <3>2. QED
      BY <1>4, <3>1, MaxIs
  <2>2. QED
    BY <1>4, <2>1
<1>5. PICK g \in [SUBSET (1..count) -> X] : FoldsUp(g, base, step, count)
  <2> HIDE DEF step, base
  <2>1. QED
    BY <1>2, <1>3, Folding
<1>6. g = Body(g)
  <2>1. ASSUME NEW T \in SUBSET (1..count)
        PROVE  g[T] = Body(g)[T]
    <3>1. CASE T = {}
      BY <1>5, <3>1 DEF FoldsUp
    <3>2. CASE T # {}
      <4>1. g[T] = step[Max(T)][g[T \ {Max(T)}]] /\ g[T \ {Max(T)}] \in X
        BY <1>5, <3>2 DEF FoldsUp
      <4> HIDE DEF Body, step
      <4>2. QED
        BY <1>4, <3>2, <4>1
    <3>3. QED
      BY <3>1, <3>2
  <2>2. QED
    BY <1>5, <2>1
<1>7. iter = Body(iter)
  BY <1>6, Zenon
<1>8. ReadDeltaPostings(bytes, count, texts, q) = WholePayload(iter[1..count])
  <2>1. DOMAIN CountUp(count) = 1..count
    BY DEF CountUp
  <2>2. QED
    BY <2>1, Zenon DEF ReadDeltaPostings, FoldLeft, MapThenFoldSet, Opening
<1> HIDE DEF iter
<1>9. PICK P \in [0..count -> X] : Iterates(P, base, step, count) /\ iter[1..count] = P[count]
  <2>1. iter[{}] = base
    <3>1. {} \in SUBSET (1..count)
      OBVIOUS
    <3> HIDE DEF base
    <3>2. QED
      BY <1>7, <3>1
  <2>2. FoldsIn(iter, base, step, count, X)
    <3> HIDE DEF step, Body, base
    <3>1. QED
      BY <1>4, <1>7, <2>1 DEF FoldsIn
  <2> HIDE DEF step, Body, base
  <2>3. /\ count \in Nat /\ base \in X /\ step \in [1..count -> [X -> X]]
        /\ FoldsIn(iter, base, step, count, X)
    BY <1>2, <1>3, <2>2
  <2>4. PICK b, s, h : b = base /\ s = step /\ h = iter
    OBVIOUS
  <2>5. /\ count \in Nat /\ b \in X /\ s \in [1..count -> [X -> X]]
        /\ FoldsIn(h, b, s, count, X)
    BY <2>3, <2>4
  <2>6. \E P \in [0..count -> X] : Iterates(P, b, s, count) /\ h[1..count] = P[count]
    BY <2>5, Folded
  <2>7. QED
    BY <2>4, <2>6
<1>10. ASSUME NEW i \in 1..count
       PROVE  P[i] = ReadPosting(P[i - 1], texts, q)
  <2>1. i - 1 \in 0..count
    OBVIOUS
  <2>2. P[i - 1] \in X
    BY <1>9, <2>1
  <2>3. P[i] = step[i][P[i - 1]]
    BY <1>9 DEF Iterates
  <2>4. QED
    BY <2>2, <2>3
<1>11. P[0] = base
  BY <1>9 DEF Iterates
<1>12. QED
  BY <1>1, <1>8, <1>9, <1>10, <1>11 DEF Decodes

\* What is read is in order and inside the documents, or nothing is.
LEMMA DecodedIs ==
  ASSUME NEW bytes \in Seq(Nat), NEW count \in Nat, NEW texts, NEW q,
         NEW decoded, decoded = ReadDeltaPostings(bytes, count, texts, q), decoded.accepted
  PROVE  /\ decoded.value \in Seq(Postings) /\ Ascends(decoded.value)
         /\ Inside(decoded.value, texts, q)
<1>1. PICK g \in [0..count -> Reads(texts, q)] : decoded = WholePayload(g[count])
  BY DecodeIs DEF Decodes
<1>2. PICK r \in Reads(texts, q) : r = g[count]
  OBVIOUS
<1>3. decoded = Accepted(r.postings)
  BY <1>1, <1>2 DEF WholePayload, Refused
<1>4. QED
  BY <1>3 DEF Accepted, Reads

-----------------------------------------------------------------------------
(* The entries of an index *)

Entries == [fingerprint : Nat, df : Nat, postings : Seq(Postings)]
SoundLists(e, texts, q) ==
    /\ e.postings # <<>> /\ Ascends(e.postings) /\ Inside(e.postings, texts, q)
    /\ e.df = Cardinality(DocumentsOf(e.postings))
IsSound(entries, texts, q) ==
    /\ entries \in Seq(Entries)
    /\ \A i \in 1..(Len(entries) - 1) : entries[i].fingerprint < entries[i + 1].fingerprint
    /\ \A i \in 1..Len(entries) : SoundLists(entries[i], texts, q)

\* The entry of a fingerprint is sound.
LEMMA EntryIs ==
  ASSUME NEW fp \in Nat, NEW P \in SUBSET Postings, IsFiniteSet(P), P # {}, NEW texts, NEW q,
         \A p \in P : InDocument(p, texts, q), NEW e, e = Entry(fp, P)
  PROVE  e \in Entries /\ e.fingerprint = fp /\ SoundLists(e, texts, q)
<1>1. PICK s : s = Ordered(P, PostingKey)
  OBVIOUS
<1>2. s \in Seq(P) /\ Len(s) = Cardinality(P) /\ Range(s) = P /\ Ascends(s)
  BY <1>1, PostingsOrdered
<1>3. s \in Seq(Postings) /\ DOMAIN s = 1..Len(s)
  BY <1>2, SeqMonotonic, LenProperties
<1>4. s # <<>>
  <2>1. Range(<<>>) = {}
    BY DEF Range
  <2>2. QED
    BY <1>2, <2>1
<1>5. \A k \in DOMAIN s : s[k] \in P
  BY <1>2 DEF Range
<1>6. Inside(s, texts, q)
  BY <1>5 DEF Inside
<1>7. {p[1] : p \in P} = DocumentsOf(s)
  <2>1. \A p \in P : \E k \in DOMAIN s : p = s[k]
    BY <1>2 DEF Range
  <2>2. QED
    BY <1>5, <2>1 DEF DocumentsOf
<1>8. Cardinality(DocumentsOf(s)) \in Nat
  BY <1>2, <1>3, ObservedIs
<1>9. e = [fingerprint |-> fp, df |-> Cardinality(DocumentsOf(s)), postings |-> s]
  BY <1>1, <1>7, Zenon DEF Entry
<1>10. QED
  BY <1>2, <1>3, <1>4, <1>6, <1>8, <1>9 DEF Entries, SoundLists

\* The postings of a fingerprint.
PostingsOf(found, fp) == {<<x[2], x[3]>> : x \in {y \in found : y[1] = fp}}

\* The entries of what was found are sound.
LEMMA EntriesAre ==
  ASSUME NEW found \in SUBSET (Nat \X Nat \X Nat), IsFiniteSet(found), NEW texts, NEW q,
         \A x \in found : InDocument(<<x[2], x[3]>>, texts, q)
  PROVE  IsSound(EntriesOf(found), texts, q)
<1> DEFINE fps == {x[1] : x \in found}
<1>1. PICK s : s = InOrder(fps)
  OBVIOUS
<1>2. fps \in SUBSET Nat /\ IsFiniteSet(fps)
  <2>1. fps \in SUBSET Nat
    OBVIOUS
  <2>2. [x \in found |-> x[1]] \in Surjection(found, fps)
    BY DEF Surjection
  <2> HIDE DEF fps
  <2>3. QED
    BY <2>1, <2>2, FS_Surjection
<1>3. /\ s \in Seq(fps) /\ Range(s) = fps
      /\ \A i \in 1..Len(s), j \in 1..Len(s) : i < j => s[i] < s[j]
  <2> HIDE DEF fps
  <2>1. QED
    BY <1>1, <1>2, NumbersOrdered
<1>4. PICK n \in Nat : n = Len(s) /\ DOMAIN s = 1..n
  BY <1>3, LenProperties
<1>5. PICK entries : entries = EntriesOf(found)
  OBVIOUS
<1>6. entries = [i \in 1..n |-> Entry(s[i], PostingsOf(found, s[i]))]
  <2>1. entries = [i \in DOMAIN s |-> Entry(s[i], PostingsOf(found, s[i]))]
    BY <1>1, <1>5, Zenon DEF EntriesOf, InOrder, MappedSeq, PostingsOf
  <2>2. QED
    BY <1>4, <2>1
<1>7. ASSUME NEW i \in 1..n
      PROVE  /\ entries[i] \in Entries /\ entries[i].fingerprint = s[i]
             /\ SoundLists(entries[i], texts, q)
  <2>1. PICK fp \in fps : fp = s[i]
    BY <1>3, <1>4, ElementOfSeq
  <2>2. fp \in Nat
    BY <1>2
  <2>3. PICK P : P = PostingsOf(found, fp)
    OBVIOUS
  <2>4. P \in SUBSET Postings /\ P # {}
    <3>1. \A x \in found : <<x[2], x[3]>> \in Postings
      BY DEF Postings
    <3>2. PICK x \in found : x[1] = fp
      BY <2>1
    <3>3. QED
      BY <2>3, <3>1, <3>2 DEF PostingsOf
  <2>5. IsFiniteSet(P)
    <3>1. PICK T : T = {y \in found : y[1] = fp}
      OBVIOUS
    <3>2. IsFiniteSet(T)
      <4>1. T \in SUBSET found
        BY <3>1
      <4>2. QED
        BY <4>1, FS_Subset
    <3>3. P = {<<x[2], x[3]>> : x \in T}
      BY <2>3, <3>1 DEF PostingsOf
    <3>4. [x \in T |-> <<x[2], x[3]>>] \in Surjection(T, P)
      BY <3>3 DEF Surjection
    <3>5. QED
      BY <3>2, <3>4, FS_Surjection
  <2>6. \A p \in P : InDocument(p, texts, q)
    BY <2>3 DEF PostingsOf
  <2>7. entries[i] = Entry(fp, P)
    BY <1>6, <2>1, <2>3
  <2>8. QED
    BY <2>1, <2>2, <2>4, <2>5, <2>6, <2>7, EntryIs
<1>8. entries \in Seq(Entries) /\ Len(entries) = n
  <2>1. DOMAIN entries = 1..n /\ entries = [i \in 1..n |-> entries[i]]
    BY <1>6
  <2>2. entries \in [1..n -> Entries]
    BY <1>7, <2>1
  <2>3. QED
    BY <1>4, <2>2, FunctionIsSeq
<1>9. \A i \in 1..(n - 1) : entries[i].fingerprint < entries[i + 1].fingerprint
  <2>1. TAKE i \in 1..(n - 1)
  <2>2. i \in 1..n /\ i + 1 \in 1..n /\ i < i + 1
    BY <1>4
  <2>3. s[i] < s[i + 1]
    BY <1>3, <1>4, <2>2
  <2>4. QED
    BY <1>7, <2>2, <2>3
<1>10. QED
  BY <1>4, <1>5, <1>7, <1>8, <1>9 DEF IsSound

\* The rightmost minima of windows are positions.
LEMMA MinimaIn ==
  ASSUME NEW f \in Seq(Nat), NEW w \in Nat \ {0}
  PROVE  Minima(f, w, Len(f)) \in SUBSET (1..Len(f))
<1>0. PICK n, v : n = Len(f) /\ n \in Nat /\ f \in [1..n -> Nat] /\ v = Smaller(w, n)
  OBVIOUS
<1>1. v \in Nat /\ v =< n /\ (n > 0 => v > 0)
  <2>1. v = w \/ v = n
    BY <1>0, Zenon DEF Smaller
  <2>2. w =< n \/ v = n
    BY <1>0, Zenon DEF Smaller
  <2>3. n \in Nat /\ (w =< n => v = w)
    BY <1>0, Zenon DEF Smaller
  <2>4. QED
    BY <2>1, <2>2, <2>3
<1>2. Minima(f, w, n) = {RightmostMinimum(f, (i + 1 - v)..i) : i \in Larger(v, 1)..n}
  BY <1>0, Zenon DEF Minima
<1>3. ASSUME NEW i \in Larger(v, 1)..n
      PROVE  RightmostMinimum(f, (i + 1 - v)..i) \in 1..n
  <2>1. i \in Nat /\ i >= v /\ i >= 1 /\ i =< n
    BY <1>0, <1>1 DEF Larger
  <2>2. v > 0
    BY <1>0, <1>1, <2>1
  <2>3. PICK S : S = (i + 1 - v)..i
    OBVIOUS
  <2>4. S \in SUBSET (1..n) /\ i \in S
    BY <1>0, <1>1, <2>1, <2>2, <2>3
  <2>5. PICK r : r = RightmostMinimum(f, S)
    OBVIOUS
  <2>6. IsRightmostMinimum(f, S, r)
    BY <1>0, <2>4, <2>5, RightmostMinimumIs
  <2>7. QED
    BY <2>3, <2>4, <2>5, <2>6 DEF IsRightmostMinimum
<1>4. QED
  BY <1>0, <1>2, <1>3

\* What is kept of the texts: of each the features at the minima.
GramsOf(text, q) == Fingerprints(QGramHashes(text, q))
KeepsMinima(features, text, q, w) ==
    Range(features) = {QGramHashes(text, q)[i] : i \in Minima(GramsOf(text, q), w,
                                                              Len(GramsOf(text, q)))}
IsKept(features, texts, q, w) ==
    /\ IsSeq(features) /\ IsSeq(texts) /\ Len(features) =< Len(texts)
    /\ \A d \in DOMAIN texts : IsSeq(texts[d])
    /\ \A d \in DOMAIN features : KeepsMinima(features[d], texts[d], q, w)

\* What is found in a document, and its place.
FoundIn(features, d) ==
    {<<features[d][k].fingerprint, d - 1, features[d][k].position>> : k \in DOMAIN features[d]}

\* What was found in a document lies inside it.
LEMMA FoundInIs ==
  ASSUME HashesAreNumbers, NEW q \in Nat \ {0}, NEW w \in Nat \ {0}, NEW features, NEW texts,
         IsKept(features, texts, q, w), NEW d \in DOMAIN features
  PROVE  /\ FoundIn(features, d) \in SUBSET (Nat \X Nat \X Nat)
         /\ IsFiniteSet(FoundIn(features, d))
         /\ \A x \in FoundIn(features, d) : InDocument(<<x[2], x[3]>>, texts, q)
<1>1. PICK m, n : m = Len(features) /\ n = Len(texts)
  OBVIOUS
<1>2. m \in Nat /\ n \in Nat /\ DOMAIN features = 1..m /\ DOMAIN texts = 1..n /\ m =< n
  BY <1>1, LenProperties DEF IsKept, IsSeq
<1>3. d \in 1..n /\ d \in DOMAIN texts
  BY <1>2
<1>4. PICK tokens, all, f, M :
        /\ tokens = texts[d] /\ all = QGramHashes(tokens, q) /\ f = Fingerprints(all)
        /\ M = Minima(f, w, Len(f))
  OBVIOUS
<1>5. PICK words : tokens \in Seq(words)
  BY <1>3, <1>4 DEF IsKept, IsSeq
<1>6. /\ f \in Seq(Nat) /\ Len(tokens) \in Nat /\ Len(all) = Len(f)
      /\ Len(tokens) >= q => Len(f) = Len(tokens) - q + 1
      /\ \A i \in 1..Len(f) : all[i] = [fingerprint |-> f[i], position |-> i - 1]
  <2>1. all = QGramHashes(tokens, q) /\ f = Fingerprints(all)
    BY <1>4
  <2>2. Len(tokens) \in Nat
    BY ONLY <1>5
  <2>3. /\ f \in Seq(Nat) /\ Len(all) = Len(f) /\ DOMAIN all = 1..Len(f)
        /\ Len(tokens) >= q => Len(f) = Len(tokens) - q + 1
        /\ \A i \in 1..Len(f) : /\ f[i] = GramHash(tokens, q, i)
                                /\ all[i] = [fingerprint |-> f[i], position |-> i - 1]
    BY ONLY HashesAreNumbers, q \in Nat \ {0}, <1>5, <2>1, HashesOf, SMTT(30)
  <2>4. QED
    BY ONLY <2>2, <2>3
<1>7. PICK z \in Nat : z = Len(f)
  BY <1>6
<1>8. Len(tokens) < q => z = 0
  <2>1. Len(tokens) < q => all = <<>>
    BY <1>4 DEF QGramHashes
  <2>2. Len(all) = z
    BY ONLY <1>6, <1>7
  <2>3. QED
    BY ONLY <2>1, <2>2
<1>9. M \in SUBSET (1..z) /\ IsFiniteSet(M)
  <2>1. M \in SUBSET (1..z)
    BY <1>4, <1>5, <1>6, <1>7, MinimaIn
  <2>2. IsFiniteSet(1..z)
    BY FS_Interval
  <2>3. QED
    BY <2>1, <2>2, FS_Subset
<1>10. Range(features[d]) = {all[i] : i \in M}
  BY <1>4, Zenon DEF IsKept, KeepsMinima, GramsOf
<1>11. FoundIn(features, d) = {<<x.fingerprint, d - 1, x.position>> : x \in Range(features[d])}
  BY Zenon DEF FoundIn, Range
<1>12. FoundIn(features, d) = {<<f[i], d - 1, i - 1>> : i \in M}
  <2>1. \A i \in M : all[i].fingerprint = f[i] /\ all[i].position = i - 1
    <3>1. TAKE i \in M
    <3>2. i \in 1..Len(f)
      BY <1>7, <1>9
    <3>3. all[i] = [fingerprint |-> f[i], position |-> i - 1]
      BY <1>6, <3>2
    <3>4. QED
      BY <3>3
  <2>2. FoundIn(features, d) = {<<x.fingerprint, d - 1, x.position>> : x \in {all[i] : i \in M}}
    BY <1>10, <1>11
  <2>3. {<<x.fingerprint, d - 1, x.position>> : x \in {all[i] : i \in M}}
            = {<<all[i].fingerprint, d - 1, all[i].position>> : i \in M}
    BY Zenon
  <2>4. QED
    BY <2>1, <2>2, <2>3
<1>13. \A i \in M : <<f[i], d - 1, i - 1>> \in Nat \X Nat \X Nat
  <2>1. TAKE i \in M
  <2>2. i \in 1..z /\ d \in 1..n
    BY <1>3, <1>9
  <2>3. f[i] \in Nat /\ i - 1 \in Nat /\ d - 1 \in Nat
    BY <1>2, <1>6, <1>7, <2>2
  <2>4. QED
    BY <2>3
<1>14. \A i \in M : InDocument(<<d - 1, i - 1>>, texts, q)
  <2>1. TAKE i \in M
  <2>2. i \in 1..z /\ i \in Nat
    BY <1>9
  <2>3. Len(tokens) >= q /\ z = Len(tokens) - q + 1
    BY <1>5, <1>6, <1>7, <1>8, <2>2
  <2>4. (i - 1) + q =< Len(tokens)
    BY <1>5, <1>6, <2>2, <2>3
  <2>5. d - 1 < n /\ (d - 1) + 1 = d
    BY <1>2, <1>3
  <2>6. QED
    BY <1>1, <1>4, <2>4, <2>5 DEF InDocument
<1>15. IsFiniteSet(FoundIn(features, d))
  <2>1. PICK T : T = FoundIn(features, d)
    OBVIOUS
  <2>2. [i \in M |-> <<f[i], d - 1, i - 1>>] \in Surjection(M, T)
    BY <1>12, <2>1 DEF Surjection
  <2>3. QED
    BY <1>9, <2>1, <2>2, FS_Surjection
<1>16. \A x \in FoundIn(features, d) : InDocument(<<x[2], x[3]>>, texts, q)
  BY <1>12, <1>14
<1>17. QED
  BY <1>4, <1>12, <1>13, <1>15, <1>16

\* The index that is built is sound.
LEMMA BuiltIs ==
  ASSUME HashesAreNumbers, NEW q \in Nat \ {0}, NEW w \in Nat \ {0}, NEW features, NEW texts,
         IsKept(features, texts, q, w)
  PROVE  IsSound(BuildEntries(features), texts, q)
<1>1. PICK sets : sets = {FoundIn(features, d) : d \in DOMAIN features}
  OBVIOUS
<1>2. BuildEntries(features) = EntriesOf(UNION sets)
  BY <1>1, Zenon DEF BuildEntries, FoundIn
<1>3. IsFiniteSet(sets)
  <2>1. IsFiniteSet(DOMAIN features)
    <3>1. Len(features) \in Nat /\ DOMAIN features = 1..Len(features)
      BY LenProperties DEF IsKept, IsSeq
    <3>2. QED
      BY <3>1, FS_Interval
  <2>2. [d \in DOMAIN features |-> FoundIn(features, d)] \in Surjection(DOMAIN features, sets)
    BY <1>1 DEF Surjection
  <2>3. QED
    BY <2>1, <2>2, FS_Surjection
<1>4. \A S \in sets : /\ S \in SUBSET (Nat \X Nat \X Nat) /\ IsFiniteSet(S)
                      /\ \A x \in S : InDocument(<<x[2], x[3]>>, texts, q)
  BY <1>1, FoundInIs
<1>5. PICK found : found = UNION sets
  OBVIOUS
<1>6. IsFiniteSet(found)
  BY <1>3, <1>4, <1>5, FS_UNION
<1>7. found \in SUBSET (Nat \X Nat \X Nat)
      /\ \A x \in found : InDocument(<<x[2], x[3]>>, texts, q)
  BY <1>4, <1>5
<1>8. QED
  BY <1>2, <1>5, <1>6, <1>7, EntriesAre

\* So is the index of the documents that were scanned.
LEMMA BuiltIsSound ==
  ASSUME HashesAreNumbers, BuildInv
  PROVE  IsSound(BuildEntries(kept), documents, case.config.q)
<1>1. PICK q, w : q = case.config.q /\ w = case.config.window
  OBVIOUS
<1>2. q \in Nat \ {0} /\ w \in Nat \ {0}
  BY <1>1, CasesAssumption, ValidConfigIs DEF BuildInv
<1>3. \A d \in DOMAIN kept : KeepsMinima(kept[d], documents[d], q, w)
  BY <1>1, Zenon DEF BuildInv, KeptMinima, All, Prints, KeepsMinima, GramsOf
<1>4. IsKept(kept, documents, q, w)
  BY <1>3 DEF BuildInv, IsKept
<1>5. QED
  BY <1>1, <1>2, <1>4, BuiltIs

-----------------------------------------------------------------------------
(* Writing postings *)

\* A 32-bit number takes one to five bytes.
LEMMA ShortNumbers ==
  ASSUME NEW n \in 0..NarrowMax
  PROVE  /\ n \in 0..WideMax /\ WriteVarint(n) \in Seq(Nat)
         /\ Len(WriteVarint(n)) = VarintLength(n) /\ VarintLength(n) \in 1..5
<1>1. WordBytes \in Nat \ {0} /\ WideMax \in Nat
  BY WordIs
<1>2. NarrowMax \in 1..WideMax /\ (WordBytes > 5 => NarrowMax < Power[5])
  BY IndexFileAssumption
<1>3. n \in Nat /\ n \in 0..WideMax
  BY <1>1, <1>2
<1>4. PICK k \in 1..WordBytes : k = VarintLength(n) /\ \A j \in 1..(k - 1) : n >= Power[j]
  BY <1>3, VarintLengthIs
<1>5. k =< 5
  <2> SUFFICES ASSUME ~(k =< 5)
               PROVE  FALSE
    OBVIOUS
  <2>1. 5 \in 1..(k - 1) /\ 5 \in 0..WordBytes /\ WordBytes > 5
    BY <1>1, <1>4
  <2>2. n >= Power[5] /\ NarrowMax < Power[5] /\ Power[5] \in Nat
    BY <1>2, <1>4, <2>1, PowerIs
  <2>3. QED
    BY <1>1, <1>2, <2>2
<1>6. WriteVarint(n) \in Seq(Nat) /\ Len(WriteVarint(n)) = VarintLength(n)
  BY <1>3, WriteVarintIs
<1>7. k \in 1..5
  BY <1>1, <1>4, <1>5
<1>8. QED
  BY <1>3, <1>4, <1>6, <1>7

\* What follows a part that has been read.
LEMMA Dropped ==
  ASSUME NEW a \in Seq(Nat), NEW b \in Seq(Nat)
  PROVE  SubSeq(a \o b, Len(a) + 1, Len(a \o b)) = b
<1>1. PICK m \in Nat, n \in Nat : m = Len(a) /\ n = Len(b)
  BY LenProperties
<1>2. PICK t \in Seq(Nat) : /\ t = a \o b /\ Len(t) = m + n
                            /\ \A i \in 1..(m + n) : t[i] = IF i <= m THEN a[i] ELSE b[i - m]
  <2>1. /\ a \o b \in Seq(Nat) /\ Len(a \o b) = Len(a) + Len(b)
        /\ \A i \in 1..Len(a) + Len(b) : (a \o b)[i] = IF i <= Len(a) THEN a[i]
                                                        ELSE b[i - Len(a)]
    BY ConcatProperties, Zenon
  <2>2. QED
    BY <1>1, <2>1
<1>3. \A i \in (m + 1)..(m + n) : t[i] \in Nat
  <2>1. TAKE i \in (m + 1)..(m + n)
  <2>2. i \in 1..Len(t)
    BY <1>1, <1>2
  <2>3. QED
    BY <2>2, ElementOfSeq
<1>4. PICK u \in Seq(Nat) :
         /\ u = SubSeq(t, m + 1, m + n)
         /\ Len(u) = IF m + 1 <= m + n THEN (m + n) - (m + 1) + 1 ELSE 0
         /\ \A i \in 1..((m + n) - (m + 1) + 1) : u[i] = t[m + 1 + i - 1]
  <2>1. PICK from \in Int, to \in Int : from = m + 1 /\ to = m + n
    OBVIOUS
  <2>2. /\ SubSeq(t, from, to) \in Seq(Nat)
        /\ Len(SubSeq(t, from, to)) = IF from <= to THEN to - from + 1 ELSE 0
        /\ \A i \in 1..(to - from + 1) : SubSeq(t, from, to)[i] = t[from + i - 1]
    <3>1. \A i \in from..to : t[i] \in Nat
      BY <1>3, <2>1
    <3>2. QED
      BY <3>1, SubSeqProperties
  <2>3. QED
    BY <2>1, <2>2
<1>5. Len(u) = n
  BY <1>1, <1>4
<1>6. \A i \in 1..n : u[i] = b[i]
  <2>1. TAKE i \in 1..n
  <2>2. i \in 1..((m + n) - (m + 1) + 1) /\ m + 1 + i - 1 = m + i /\ m + i \in 1..(m + n)
        /\ ~(m + i <= m) /\ (m + i) - m = i
    BY <1>1
  <2>3. u[i] = t[m + i]
    BY <1>4, <2>2
  <2>4. QED
    BY <1>2, <2>2, <2>3
<1>7. u = b
  BY <1>1, <1>5, <1>6, SeqEqual
<1>8. QED
  BY <1>1, <1>2, <1>4, <1>7

\* What has been read, and what is left.
HasRead(r, postings, rest) == r = [accepted |-> TRUE, postings |-> postings, rest |-> rest]

\* A posting is read from the bytes that were written for it.
LEMMA ReadOne ==
  ASSUME NEW texts, NEW q, NEW s \in Seq(Postings), NEW u \in Seq(Nat),
         NEW delta \in 0..NarrowMax, NEW code \in 0..NarrowMax,
         NEW before \in Postings, before = IF s = <<>> THEN <<0, 0>> ELSE Last(s),
         NEW x \in Postings,
         x = <<before[1] + delta, code + (IF s = <<>> \/ delta > 0 THEN 0 ELSE before[2])>>,
         x[1] =< NarrowMax, x[2] =< NarrowMax, s = <<>> \/ Precedes(before, x),
         InDocument(x, texts, q),
         NEW r, HasRead(r, s, WriteVarint(delta) \o (WriteVarint(code) \o u))
  PROVE  HasRead(ReadPosting(r, texts, q), Append(s, x), u)
<1>0. /\ r = [accepted |-> TRUE, postings |-> s,
               rest |-> WriteVarint(delta) \o (WriteVarint(code) \o u)]
      /\ r.postings = s /\ r.accepted /\ r.rest = WriteVarint(delta) \o (WriteVarint(code) \o u)
  BY DEF HasRead
<1>1. PICK a, b \in Seq(Nat) : a = WriteVarint(delta) /\ b = WriteVarint(code)
  BY ShortNumbers
<1>2. Len(a) = VarintLength(delta) /\ Len(b) = VarintLength(code)
      /\ delta \in 0..WideMax /\ code \in 0..WideMax
  BY <1>1, ShortNumbers
<1>3. b \o u \in Seq(Nat)
  BY ConcatProperties
<1>4. PICK first : first = ReadVarint(r.rest)
  OBVIOUS
<1>5. first = Accepted([number |-> delta, length |-> Len(a)])
  BY <1>0, <1>1, <1>2, <1>3, <1>4, ReadBack
<1>6. first.accepted /\ first.value.number = delta /\ first.value.length = Len(a)
  BY <1>5 DEF Accepted
<1>7. PICK t : t = SubSeq(r.rest, first.value.length + 1, Len(r.rest))
  OBVIOUS
<1>8. t = b \o u
  <2>1. PICK c \in Seq(Nat) : c = b \o u
    BY <1>3
  <2>2. r.rest = a \o c
    BY <1>0, <1>1, <2>1
  <2>3. SubSeq(a \o c, Len(a) + 1, Len(a \o c)) = c
    BY <1>1, Dropped
  <2>4. QED
    BY <1>6, <1>7, <2>1, <2>2, <2>3
<1>9. ReadPosting(r, texts, q) = ReadAfter(r, before, delta, t, texts, q)
  <2>1. ReadPosting(r, texts, q) = ReadDocument(r, before, first, texts, q)
    BY <1>0, <1>4 DEF ReadPosting
  <2>2. QED
    BY <1>6, <1>7, <2>1 DEF ReadDocument
<1>10. PICK second : second = ReadVarint(t)
  OBVIOUS
<1>11. second = Accepted([number |-> code, length |-> Len(b)])
  BY <1>1, <1>2, <1>8, <1>10, ReadBack
<1>12. second.accepted /\ second.value.number = code /\ second.value.length = Len(b)
  BY <1>11 DEF Accepted
<1>13. SubSeq(t, second.value.length + 1, Len(t)) = u
  BY <1>1, <1>8, <1>12, Dropped
<1>14. ReadAfter(r, before, delta, t, texts, q) = AddPosting(r, before, x, u, texts, q)
  <2>1. ReadAfter(r, before, delta, t, texts, q)
            = ReadPosition(r, before, delta, second, t, texts, q)
    BY <1>10 DEF ReadAfter
  <2>2. r.postings = s
    BY <1>0
  <2>3. ReadPosition(r, before, delta, second, t, texts, q)
           = AddPosting(r, before,
               <<before[1] + delta,
                 second.value.number + (IF r.postings = <<>> \/ delta > 0 THEN 0 ELSE before[2])>>,
               SubSeq(t, second.value.length + 1, Len(t)), texts, q)
    BY <1>12, Zenon DEF ReadPosition
  <2>4. QED
    BY <1>12, <1>13, <2>1, <2>2, <2>3
<1>15. PICK z : z = AddPosting(r, before, x, u, texts, q)
  OBVIOUS
<1>16. z = [r EXCEPT !.postings = Append(@, x), !.rest = u]
  BY <1>0, <1>15 DEF AddPosting
<1>17. z = [accepted |-> TRUE, postings |-> Append(s, x), rest |-> u]
  BY <1>0, <1>16
<1>18. QED
  BY <1>9, <1>14, <1>15, <1>17 DEF HasRead

\* Parts are put together one after another.
Together(h, parts, n) ==
    h[0] = <<>> /\ \A i \in 1..n : h[i] = h[i - 1] \o parts[i]

\* Flattening parts is putting them together.
LEMMA FlattenIs ==
  ASSUME NEW n \in Nat \ {0}, NEW parts \in [1..n -> Seq(Nat)]
  PROVE  \E h \in [0..n -> Seq(Nat)] : Together(h, parts, n) /\ FlattenSeq(parts) = h[n]
<1> DEFINE Body(g) == [i \in 1..n |-> IF i = 1 THEN parts[i] ELSE g[i - 1] \o parts[i]]
           iter == CHOOSE g : g = Body(g)
           step == [i \in 1..n |-> [x \in Seq(Nat) |-> x \o parts[i]]]
<1>1. PICK X : X = Seq(Nat)
  OBVIOUS
<1>2. PICK h \in [0..n -> X] : Iterates(h, <<>>, step, n)
  <2>1. \A i \in 1..n, x \in Seq(Nat) : x \o parts[i] \in Seq(Nat)
    BY ConcatProperties
  <2>2. step \in [1..n -> [X -> X]] /\ <<>> \in X
    BY <1>1, <2>1
  <2> HIDE DEF step
  <2>3. QED
    BY <2>2, Recursion
<1>3. Together(h, parts, n)
  <2>1. ASSUME NEW i \in 1..n
        PROVE  h[i] = h[i - 1] \o parts[i]
    <3>1. PICK k \in 0..n : k = i - 1
      OBVIOUS
    <3>2. h[i] = step[i][h[k]]
      BY <1>2, <3>1, Zenon DEF Iterates
    <3>3. h[k] \in Seq(Nat)
      BY <1>1, <1>2
    <3>4. QED
      BY <3>1, <3>2, <3>3
  <2>2. h[0] = <<>>
    BY <1>2 DEF Iterates
  <2>3. QED
    BY <2>1, <2>2 DEF Together
<1>4. \E g : g = Body(g)
  <2>1. PICK g : g = [i \in 1..n |-> h[i]]
    OBVIOUS
  <2>2. ASSUME NEW i \in 1..n
        PROVE  g[i] = IF i = 1 THEN parts[i] ELSE g[i - 1] \o parts[i]
    <3>1. CASE i = 1
      <4>0. 1 \in 1..n /\ 1 - 1 = 0
        OBVIOUS
      <4>1. h[1] = <<>> \o parts[1] /\ parts[1] \in Seq(Nat)
        BY <1>3, <4>0 DEF Together
      <4>2. QED
        BY <2>1, <3>1, <4>1, ConcatEmptySeq
    <3>2. CASE i # 1
      <4>1. i - 1 \in 1..n
        BY <3>2
      <4>2. QED
        BY <1>3, <2>1, <3>2, <4>1 DEF Together
    <3>3. QED
      BY <3>1, <3>2
  <2>3. g = Body(g)
    BY <2>1, <2>2
  <2>4. QED
    BY <2>3
<1>5. iter = Body(iter)
  BY <1>4
<1> DEFINE S == {i \in 0..n : i = 0 \/ iter[i] = h[i]}
<1>6. \A i \in 1..n : iter[i] = IF i = 1 THEN parts[i] ELSE iter[i - 1] \o parts[i]
  <2> HIDE DEF iter
  <2>1. QED
    BY <1>5
<1>7. \A i \in 0..n : i \in S
  <2> HIDE DEF iter
  <2>1. 0 \in S
    OBVIOUS
  <2>2. ASSUME NEW i \in 0..n, i \in S, i < n
        PROVE  i + 1 \in S
    <3>1. i + 1 \in 1..n /\ (i + 1) - 1 = i
      BY <2>2
    <3>2. h[i + 1] = h[i] \o parts[i + 1]
      BY <1>3, <3>1 DEF Together
    <3>3. CASE i = 0
      <4>1. parts[1] \in Seq(Nat) /\ h[0] = <<>>
        BY <1>3, <3>1, <3>3 DEF Together
      <4>2. h[i + 1] = parts[i + 1]
        BY <3>2, <3>3, <4>1, ConcatEmptySeq
      <4>3. QED
        BY <1>6, <3>1, <3>3, <4>2
    <3>4. CASE i # 0
      <4>1. iter[i] = h[i] /\ i + 1 # 1
        BY <2>2, <3>4
      <4>2. iter[i + 1] = iter[(i + 1) - 1] \o parts[i + 1]
        BY <1>6, <3>1, <4>1, Zenon
      <4>3. iter[i + 1] = h[i + 1]
        BY <3>1, <3>2, <4>1, <4>2, Zenon
      <4>4. QED
        BY <3>1, <4>3
    <3>5. QED
      BY <3>3, <3>4
  <2> HIDE DEF S
  <2>3. QED
    BY <2>1, <2>2, UpTo
<1>8. FlattenSeq(parts) = iter[n]
  <2>1. Len(parts) = n
    OBVIOUS
  <2>2. FlattenSeq(parts) =
           IF Len(parts) = 0 THEN parts
           ELSE (CHOOSE g : g = [i \in 1..Len(parts) |->
                                    IF i = 1 THEN parts[i] ELSE g[i - 1] \o parts[i]])[Len(parts)]
    BY Zenon DEF FlattenSeq
  <2>3. FlattenSeq(parts) = IF n = 0 THEN parts ELSE iter[n]
    BY <2>1, <2>2, Zenon
  <2>4. QED
    BY <2>3
<1>9. FlattenSeq(parts) = h[n]
  <2>0. n \in 0..n /\ n # 0
    OBVIOUS
  <2>1. n \in S /\ n # 0
    BY <1>7, <2>0, Zenon
  <2>2. iter[n] = h[n]
    BY <2>1
  <2>3. QED
    BY <1>8, <2>2
<1>10. QED
  BY <1>1, <1>2, <1>3, <1>9

\* Postings a 32-bit number each.
Short(p) == \A i \in DOMAIN p : p[i][1] =< NarrowMax /\ p[i][2] =< NarrowMax
Preceding(p, i) == IF i = 1 THEN <<0, 0>> ELSE p[i - 1]

\* What is written of a posting is small, and tells the posting.
LEMMA DeltasAre ==
  ASSUME NEW p \in Seq(Postings), Ascends(p), Short(p), NEW i \in 1..Len(p)
  PROVE  /\ DocumentDelta(p, i) \in 0..NarrowMax /\ PositionCode(p, i) \in 0..NarrowMax
         /\ Preceding(p, i) \in Postings
         /\ p[i] = <<Preceding(p, i)[1] + DocumentDelta(p, i),
                     PositionCode(p, i) + (IF i = 1 \/ DocumentDelta(p, i) > 0 THEN 0
                                           ELSE Preceding(p, i)[2])>>
         /\ i = 1 \/ Precedes(Preceding(p, i), p[i])
<1>1. Len(p) \in Nat /\ DOMAIN p = 1..Len(p) /\ i \in Nat
  BY LenProperties
<1>2. PICK a \in Nat, b \in Nat : p[i] = <<a, b>>
  BY ElementOfSeq DEF Postings
<1>3. a =< NarrowMax /\ b =< NarrowMax /\ NarrowMax \in Nat
  <2>1. p[i][1] = a /\ p[i][2] = b
    BY <1>2
  <2>2. NarrowMax \in Nat
    BY IndexFileAssumption, WordIs
  <2>3. QED
    BY <1>1, <2>1, <2>2 DEF Short
<1>4. CASE i = 1
  <2>1. Preceding(p, i) = <<0, 0>>
    BY <1>4 DEF Preceding
  <2>2. DocumentDelta(p, i) = a /\ PositionCode(p, i) = b
    BY <1>2, <1>4 DEF DocumentDelta, PositionCode
  <2>3. <<0, 0>> \in Postings /\ <<0, 0>>[1] = 0 /\ <<0, 0>>[2] = 0
    BY DEF Postings
  <2>4. QED
    BY <1>2, <1>3, <1>4, <2>1, <2>2, <2>3
<1>5. CASE i # 1
  <2>1. i - 1 \in 1..(Len(p) - 1) /\ i - 1 \in 1..Len(p) /\ (i - 1) + 1 = i
    BY <1>1, <1>5
  <2>2. PICK c \in Nat, d \in Nat : p[i - 1] = <<c, d>>
    <3>1. PICK k \in 1..Len(p) : k = i - 1
      BY <2>1
    <3>2. p[k] \in Nat \X Nat
      BY ElementOfSeq, Zenon DEF Postings
    <3>3. PICK c \in Nat, d \in Nat : p[k] = <<c, d>>
      BY <3>2
    <3>4. QED
      BY <3>1, <3>3
  <2>3. Precedes(p[i - 1], p[i])
    BY <2>1 DEF Ascends
  <2>4. c < a \/ (c = a /\ d < b)
    <3>1. <<c, d>> \in Postings /\ <<a, b>> \in Postings
      BY DEF Postings
    <3>2. Precedes(<<c, d>>, <<a, b>>)
      BY <1>2, <2>2, <2>3
    <3>3. <<c, d>>[1] = c /\ <<c, d>>[2] = d /\ <<a, b>>[1] = a /\ <<a, b>>[2] = b
      OBVIOUS
    <3>4. QED
      BY <3>1, <3>2, <3>3, PrecedesIs
  <2>5. Preceding(p, i) = <<c, d>> /\ <<c, d>> \in Postings
    BY <1>5, <2>2 DEF Preceding, Postings
  <2>6. DocumentDelta(p, i) = a - c
    BY <1>2, <1>5, <2>2 DEF DocumentDelta
  <2>7. PositionCode(p, i) = IF a - c > 0 THEN b ELSE b - d
    BY <1>2, <1>5, <2>2, <2>6 DEF PositionCode
  <2>8. a - c \in 0..NarrowMax /\ PositionCode(p, i) \in 0..NarrowMax
    BY <1>3, <2>4, <2>7
  <2>9. /\ c + (a - c) = a
        /\ PositionCode(p, i) + (IF a - c > 0 THEN 0 ELSE d) = b
    BY <2>7
  <2>10. <<c, d>>[1] = c /\ <<c, d>>[2] = d
    OBVIOUS
  <2>11. QED
    BY <1>2, <1>5, <2>2, <2>3, <2>5, <2>6, <2>8, <2>9, <2>10
<1>6. QED
  BY <1>4, <1>5

\* Concatenation, opaque.
Juxtaposed(a, b) == a \o b

\* Joining is associative.
LEMMA JoinedAssociates ==
  ASSUME NEW S, NEW a \in Seq(S), NEW b \in Seq(S), NEW c \in Seq(S)
  PROVE  Juxtaposed(Juxtaposed(a, b), c) = Juxtaposed(a, Juxtaposed(b, c))
  BY ConcatAssociative DEF Juxtaposed

\* So it is for bytes.
LEMMA BytesAssociate ==
  ASSUME NEW a \in Seq(Nat), NEW b \in Seq(Nat), NEW c \in Seq(Nat)
  PROVE  a \o (b \o c) = (a \o b) \o c
<1>1. \A x, y, z \in Seq(Nat) : Juxtaposed(Juxtaposed(x, y), z) = Juxtaposed(x, Juxtaposed(y, z))
  BY JoinedAssociates
<1>2. QED
  BY <1>1 DEF Juxtaposed

\* What is left of some parts from a place on.
LEMMA Leftovers ==
  ASSUME NEW n \in Nat, NEW parts \in [1..n -> Seq(Nat)], NEW h \in [0..n -> Seq(Nat)],
         Together(h, parts, n)
  PROVE  \E u \in [0..n -> Seq(Nat)] :
           /\ u[0] = h[n] /\ u[n] = <<>>
           /\ \A i \in 1..n : u[i - 1] = parts[i] \o u[i]
<1> DEFINE step == [k \in 1..n |-> [x \in Seq(Nat) |-> parts[n - k + 1] \o x]]
<1>1. PICK X : X = Seq(Nat)
  OBVIOUS
<1>2. PICK v \in [0..n -> X] : Iterates(v, <<>>, step, n)
  <2>1. \A k \in 1..n, x \in Seq(Nat) : parts[n - k + 1] \o x \in Seq(Nat)
    <3>1. TAKE k \in 1..n, x \in Seq(Nat)
    <3>2. n - k + 1 \in 1..n
      OBVIOUS
    <3>3. parts[n - k + 1] \in Seq(Nat)
      BY <3>2
    <3>4. QED
      BY <3>3, ConcatProperties
  <2>2. step \in [1..n -> [X -> X]] /\ <<>> \in X
    BY <1>1, <2>1
  <2> HIDE DEF step
  <2>3. QED
    BY <2>2, Recursion
<1>3. v[0] = <<>> /\ \A k \in 1..n : v[k] = parts[n - k + 1] \o v[k - 1]
  <2>1. ASSUME NEW k \in 1..n
        PROVE  v[k] = parts[n - k + 1] \o v[k - 1]
    <3>1. PICK j \in 0..n : j = k - 1
      OBVIOUS
    <3>2. v[k] = step[k][v[j]]
      BY <1>2, <3>1, Zenon DEF Iterates
    <3>3. v[j] \in Seq(Nat)
      BY <1>1, <1>2
    <3>4. QED
      BY <3>1, <3>2, <3>3
  <2>2. QED
    BY <1>2, <2>1 DEF Iterates
<1> DEFINE S == {k \in 0..n : h[n - k] \o v[k] = h[n]}
<1>4. 0 \in S
  <2>1. h[n] \in Seq(Nat) /\ n - 0 = n
    OBVIOUS
  <2>2. h[n] \o <<>> = h[n]
    BY <2>1, ConcatEmptySeq
  <2>3. QED
    BY <1>3, <2>1, <2>2
<1>5. ASSUME NEW k \in 0..n, k \in S, k < n
      PROVE  k + 1 \in S
  <2>1. PICK i \in 1..n, j \in 0..n : i = n - k /\ j = n - (k + 1) /\ j = i - 1
    BY <1>5
  <2>2. k + 1 \in 1..n /\ (k + 1) - 1 = k /\ n - (k + 1) + 1 = i
    BY <1>5, <2>1
  <2>3. v[k + 1] = parts[i] \o v[k]
    BY <1>3, <2>2
  <2>4. h[i] = h[j] \o parts[i]
    BY <2>1, Zenon DEF Together
  <2>5. h[j] \in Seq(Nat) /\ parts[i] \in Seq(Nat) /\ v[k] \in Seq(Nat)
    BY <1>1, <1>2
  <2>6. h[j] \o (parts[i] \o v[k]) = (h[j] \o parts[i]) \o v[k]
    BY <2>5, BytesAssociate
  <2>7. h[i] \o v[k] = h[n]
    BY <1>5, <2>1
  <2>8. h[j] \o v[k + 1] = h[n]
    BY <2>3, <2>4, <2>6, <2>7
  <2>9. h[n - (k + 1)] \o v[k + 1] = h[n]
    BY <2>1, <2>8, Zenon
  <2>10. k + 1 \in 0..n
    BY <2>2
  <2>11. QED
    BY <2>9, <2>10
<1>6. \A k \in 0..n : k \in S
  <2> HIDE DEF S
  <2>1. QED
    BY <1>4, <1>5, UpTo
<1>7. v[n] = h[n]
  <2>1. n \in 0..n /\ n - n = 0
    OBVIOUS
  <2>2. h[0] \o v[n] = h[n] /\ h[0] = <<>> /\ v[n] \in Seq(Nat)
    <3>1. n \in S
      BY <1>6, <2>1
    <3>2. v[n] \in Seq(Nat)
      BY <1>1, <1>2, <2>1
    <3>3. QED
      BY <2>1, <3>1, <3>2 DEF Together
  <2>3. QED
    BY <2>2, ConcatEmptySeq
<1>8. PICK u : u = [i \in 0..n |-> v[n - i]]
  OBVIOUS
<1>9. u \in [0..n -> Seq(Nat)]
  <2>1. \A i \in 0..n : n - i \in 0..n
    OBVIOUS
  <2>2. QED
    BY <1>1, <1>2, <1>8, <2>1
<1>10. u[0] = h[n] /\ u[n] = <<>>
  <2>1. 0 \in 0..n /\ n \in 0..n /\ n - 0 = n /\ n - n = 0
    OBVIOUS
  <2>2. QED
    BY <1>3, <1>7, <1>8, <2>1
<1>11. ASSUME NEW i \in 1..n
       PROVE  u[i - 1] = parts[i] \o u[i]
  <2>1. PICK k \in 1..n : k = n - i + 1 /\ n - k + 1 = i /\ k - 1 = n - i /\ n - (i - 1) = k
    OBVIOUS
  <2>2. i - 1 \in 0..n /\ i \in 0..n
    OBVIOUS
  <2>3. u[i - 1] = v[k] /\ u[i] = v[k - 1]
    BY <1>8, <2>1, <2>2
  <2>4. QED
    BY <1>3, <2>1, <2>3
<1>12. QED
  BY <1>9, <1>10, <1>11

\* The length of what parts of a few bytes make.
LEMMA LengthOf ==
  ASSUME NEW n \in Nat, NEW parts \in [1..n -> Seq(Nat)], NEW h \in [0..n -> Seq(Nat)],
         Together(h, parts, n), \A i \in 1..n : Len(parts[i]) \in 1..15
  PROVE  Len(h[n]) >= n /\ Len(h[n]) =< 15 * n
<1> DEFINE S == {i \in 0..n : Len(h[i]) >= i /\ Len(h[i]) =< 15 * i}
<1>1. 0 \in S
  BY DEF Together
<1>2. ASSUME NEW i \in 0..n, i \in S, i < n
      PROVE  i + 1 \in S
  <2>1. i + 1 \in 1..n /\ (i + 1) - 1 = i
    BY <1>2
  <2>2. h[i + 1] = h[i] \o parts[i + 1]
    BY <2>1 DEF Together
  <2>3. h[i] \in Seq(Nat) /\ parts[i + 1] \in Seq(Nat)
    BY <2>1
  <2>4. Len(h[i + 1]) = Len(h[i]) + Len(parts[i + 1])
    BY <2>2, <2>3, ConcatProperties
  <2>5. PICK a, b, c : a = Len(h[i]) /\ b = Len(parts[i + 1]) /\ c = Len(h[i + 1])
    OBVIOUS
  <2>6. a \in Nat /\ b \in 1..15 /\ c = a + b /\ a >= i /\ a =< 15 * i
    <3>1. a \in Nat
      BY <2>3, <2>5, LenProperties
    <3>2. b \in 1..15
      BY <2>1, <2>5
    <3>3. c = a + b
      BY <2>4, <2>5
    <3>4. a >= i /\ a =< 15 * i
      BY <1>2, <2>5
    <3>5. QED
      BY <3>1, <3>2, <3>3, <3>4
  <2>7. c >= i + 1 /\ c =< 15 * (i + 1)
    BY <2>6
  <2>8. i + 1 \in 0..n
    BY <2>1
  <2>9. QED
    BY <2>5, <2>7, <2>8
<1>3. n \in S
  <2> HIDE DEF S
  <2>1. \A i \in 0..n : i \in S
    BY <1>1, <1>2, UpTo
  <2>2. n \in 0..n
    OBVIOUS
  <2>3. QED
    BY <2>1, <2>2
<1>4. QED
  BY <1>3

\* The first of some postings.
LEMMA FirstOnes ==
  ASSUME NEW p \in Seq(Postings), NEW i \in 1..Len(p)
  PROVE  /\ SubSeq(p, 1, i - 1) \in Seq(Postings) /\ Len(SubSeq(p, 1, i - 1)) = i - 1
         /\ SubSeq(p, 1, i) = Append(SubSeq(p, 1, i - 1), p[i])
         /\ i = 1 => SubSeq(p, 1, i - 1) = <<>>
         /\ i # 1 => SubSeq(p, 1, i - 1) # <<>> /\ Last(SubSeq(p, 1, i - 1)) = p[i - 1]
<1>1. PICK n \in Nat : n = Len(p)
  BY LenProperties
<1>2. i \in 1..n /\ p \in [1..n -> Postings]
  BY <1>1, LenProperties
<1>3. PICK s : s = SubSeq(p, 1, i - 1)
  OBVIOUS
<1>4. s = [k \in 1..(i - 1) |-> p[k]]
  BY <1>2, <1>3
<1>5. \A k \in 1..(i - 1) : p[k] \in Postings
  BY <1>2
<1>6. s \in [1..(i - 1) -> Postings] /\ i - 1 \in Nat
  BY <1>2, <1>4, <1>5
<1>7. s \in Seq(Postings) /\ Len(s) = i - 1
  BY <1>6, FunctionIsSeq
<1>8. SubSeq(p, 1, i) = Append(s, p[i])
  <2>1. PICK t : t = SubSeq(p, 1, i)
    OBVIOUS
  <2>2. t = [k \in 1..i |-> p[k]]
    BY <1>2, <2>1
  <2>3. Append(s, p[i]) = [k \in 1..i |-> IF k =< i - 1 THEN s[k] ELSE p[i]]
    BY <1>2, <1>7
  <2>4. \A k \in 1..i : p[k] = IF k =< i - 1 THEN s[k] ELSE p[i]
    BY <1>2, <1>4
  <2>5. QED
    BY <2>1, <2>2, <2>3, <2>4
<1>9. i = 1 => s = <<>>
  BY <1>7, EmptySeq
<1>10. i # 1 => s # <<>> /\ Last(s) = p[i - 1]
  <2> SUFFICES ASSUME i # 1
               PROVE  s # <<>> /\ Last(s) = p[i - 1]
    OBVIOUS
  <2>1. i - 1 \in 1..(i - 1)
    BY <1>2
  <2>2. s[i - 1] = p[i - 1]
    BY <1>4, <2>1
  <2>3. s # <<>>
    BY <1>7, <2>1, EmptySeq
  <2>4. QED
    BY <1>7, <2>2, <2>3 DEF Last
<1>11. QED
  BY <1>3, <1>7, <1>8, <1>9, <1>10

\* The bytes of a posting.
Packed(p, i) == WriteVarint(DocumentDelta(p, i)) \o WriteVarint(PositionCode(p, i))

\* One posting takes one to fifteen bytes.
LEMMA PackedLength ==
  ASSUME NEW p \in Seq(Postings), Ascends(p), Short(p), NEW i \in 1..Len(p)
  PROVE  Packed(p, i) \in Seq(Nat) /\ Len(Packed(p, i)) \in 1..15
<1>1. PICK a \in Seq(Nat), b \in Seq(Nat) :
         /\ a = WriteVarint(DocumentDelta(p, i)) /\ b = WriteVarint(PositionCode(p, i))
         /\ Len(a) \in 1..5 /\ Len(b) \in 1..5
  <2>1. DocumentDelta(p, i) \in 0..NarrowMax /\ PositionCode(p, i) \in 0..NarrowMax
    BY DeltasAre
  <2>2. QED
    BY <2>1, ShortNumbers
<1>2. a \o b \in Seq(Nat) /\ Len(a \o b) = Len(a) + Len(b)
  BY ConcatProperties
<1>3. PICK m \in 1..5, n \in 1..5 : m = Len(a) /\ n = Len(b)
  BY <1>1
<1>4. Len(a \o b) \in 1..15
  <2>1. \A x \in 1..5, y \in 1..5 : x + y \in 1..15
    OBVIOUS
  <2>2. m + n \in 1..15
    BY <1>3, <2>1
  <2>3. QED
    BY <1>2, <1>3, <2>2
<1>5. Packed(p, i) = a \o b
  BY <1>1 DEF Packed
<1>6. QED
  BY <1>2, <1>4, <1>5

\* One posting after another is read from what was written.
LEMMA ReadsOn ==
  ASSUME NEW texts, NEW q, NEW p \in Seq(Postings), Ascends(p), Short(p), Inside(p, texts, q),
         NEW i \in 1..Len(p), NEW u \in Seq(Nat),
         NEW r, HasRead(r, SubSeq(p, 1, i - 1), Packed(p, i) \o u)
  PROVE  HasRead(ReadPosting(r, texts, q), SubSeq(p, 1, i), u)
<1>1. PICK s \in Seq(Postings) :
         /\ s = SubSeq(p, 1, i - 1) /\ SubSeq(p, 1, i) = Append(s, p[i])
         /\ i = 1 => s = <<>>
         /\ i # 1 => s # <<>> /\ Last(s) = p[i - 1]
  BY FirstOnes
<1>2. PICK delta \in 0..NarrowMax, code \in 0..NarrowMax, before \in Postings :
         /\ delta = DocumentDelta(p, i) /\ code = PositionCode(p, i) /\ before = Preceding(p, i)
  BY DeltasAre
<1>3. /\ p[i] = <<before[1] + delta, code + (IF i = 1 \/ delta > 0 THEN 0 ELSE before[2])>>
      /\ i = 1 \/ Precedes(before, p[i])
  BY <1>2, DeltasAre
<1>4. before = IF s = <<>> THEN <<0, 0>> ELSE Last(s)
  BY <1>1, <1>2 DEF Preceding
<1>5. s = <<>> <=> i = 1
  BY <1>1
<1>6. PICK x \in Postings : x = p[i] /\ x[1] =< NarrowMax /\ x[2] =< NarrowMax
                            /\ InDocument(x, texts, q)
  <2>1. i \in DOMAIN p
    BY LenProperties
  <2>2. p[i] \in Postings
    BY ElementOfSeq
  <2>3. QED
    BY <2>1, <2>2 DEF Short, Inside
<1>7. Packed(p, i) \o u = WriteVarint(delta) \o (WriteVarint(code) \o u)
  <2>1. PICK a \in Seq(Nat), b \in Seq(Nat) : a = WriteVarint(delta) /\ b = WriteVarint(code)
    BY ShortNumbers
  <2>2. Packed(p, i) = a \o b
    BY <1>2, <2>1 DEF Packed
  <2>3. a \o (b \o u) = (a \o b) \o u
    BY <2>1, BytesAssociate
  <2>4. QED
    BY <2>1, <2>2, <2>3
<1>8. HasRead(r, s, WriteVarint(delta) \o (WriteVarint(code) \o u))
  BY <1>1, <1>7
<1>9. x = <<before[1] + delta, code + (IF s = <<>> \/ delta > 0 THEN 0 ELSE before[2])>>
  BY <1>3, <1>5, <1>6
<1>10. s = <<>> \/ Precedes(before, x)
  BY <1>3, <1>5, <1>6
<1>11. HasRead(ReadPosting(r, texts, q), Append(s, x), u)
  <2>1. /\ x[1] =< NarrowMax /\ x[2] =< NarrowMax /\ InDocument(x, texts, q)
        /\ delta \in 0..NarrowMax /\ code \in 0..NarrowMax /\ before \in Postings
    BY <1>2, <1>6
  <2>2. QED
    BY <1>4, <1>8, <1>9, <1>10, <2>1, ReadOne
<1>12. QED
  BY <1>1, <1>6, <1>11

\* What is written of some postings, and how long it is.
LEMMA PackedIs ==
  ASSUME NEW p \in Seq(Postings), p # <<>>, Ascends(p), Short(p), NEW n, n = Len(p)
  PROVE  \E u \in [0..n -> Seq(Nat)] :
           /\ u[0] = WriteDeltaPostings(p) /\ u[n] = <<>>
           /\ \A i \in 1..n : u[i - 1] = Packed(p, i) \o u[i]
           /\ Len(u[0]) >= n /\ Len(u[0]) =< 15 * n
<1>1. n \in Nat \ {0} /\ DOMAIN p = 1..n
  BY LenProperties, EmptySeq
<1>2. PICK parts : parts = [i \in 1..n |-> Packed(p, i)]
  OBVIOUS
<1>3. parts \in [1..n -> Seq(Nat)] /\ \A i \in 1..n : Len(parts[i]) \in 1..15
  BY <1>2, PackedLength
<1>4. WriteDeltaPostings(p) = FlattenSeq(parts)
  <2>1. WriteDeltaPostings(p) = FlattenSeq([i \in DOMAIN p |-> Packed(p, i)])
    BY Zenon DEF WriteDeltaPostings, Packed
  <2>2. QED
    BY <1>1, <1>2, <2>1, Zenon
<1>5. PICK h \in [0..n -> Seq(Nat)] : Together(h, parts, n) /\ FlattenSeq(parts) = h[n]
  BY <1>1, <1>3, FlattenIs
<1>6. PICK u \in [0..n -> Seq(Nat)] :
         u[0] = h[n] /\ u[n] = <<>> /\ \A i \in 1..n : u[i - 1] = parts[i] \o u[i]
  <2>1. n \in Nat /\ parts \in [1..n -> Seq(Nat)] /\ h \in [0..n -> Seq(Nat)]
    BY <1>1, <1>3, <1>5
  <2>2. QED
    BY <1>5, <2>1, Leftovers
<1>7. Len(h[n]) >= n /\ Len(h[n]) =< 15 * n
  BY <1>1, <1>3, <1>5, LengthOf
<1>8. \A i \in 1..n : u[i - 1] = Packed(p, i) \o u[i]
  BY <1>2, <1>6
<1>9. u[0] = WriteDeltaPostings(p)
  BY <1>4, <1>5, <1>6
<1>10. Len(u[0]) >= n /\ Len(u[0]) =< 15 * n
  BY <1>6, <1>7
<1>11. QED
  BY <1>6, <1>8, <1>9, <1>10

\* What was written is read back.
LEMMA ReadsAll ==
  ASSUME NEW texts, NEW q, NEW p \in Seq(Postings), p # <<>>, Ascends(p), Short(p),
         Inside(p, texts, q)
  PROVE  /\ WriteDeltaPostings(p) \in Seq(Nat) /\ WriteDeltaPostings(p) # <<>>
         /\ Len(WriteDeltaPostings(p)) >= 1 /\ Len(WriteDeltaPostings(p)) =< 15 * Len(p)
         /\ ReadDeltaPostings(WriteDeltaPostings(p), Len(p), texts, q) = Accepted(p)
<1>1. PICK n \in Nat \ {0} : n = Len(p)
  BY EmptySeq
<1>2. PICK u \in [0..n -> Seq(Nat)] :
           /\ u[0] = WriteDeltaPostings(p) /\ u[n] = <<>>
           /\ \A i \in 1..n : u[i - 1] = Packed(p, i) \o u[i]
           /\ Len(u[0]) >= n /\ Len(u[0]) =< 15 * n
  BY <1>1, PackedIs
<1>3. PICK bytes \in Seq(Nat) : bytes = u[0] /\ bytes = WriteDeltaPostings(p)
  <2>1. 0 \in 0..n
    OBVIOUS
  <2>2. u[0] \in Seq(Nat)
    BY <1>2, <2>1
  <2>3. QED
    BY <1>2, <2>2
<1>4. PICK g :
           /\ g[0] = Opening(bytes)
           /\ \A i \in 1..n : g[i] = ReadPosting(g[i - 1], texts, q)
           /\ ReadDeltaPostings(bytes, n, texts, q) = WholePayload(g[n])
  <2>1. n \in Nat /\ bytes \in Seq(Nat)
    BY <1>3
  <2>2. \E g \in [0..n -> Reads(texts, q)] : Decodes(g, bytes, n, texts, q)
    BY <2>1, DecodeIs
  <2>3. QED
    BY <2>2, Zenon DEF Decodes
<1> DEFINE S == {i \in 0..n : HasRead(g[i], SubSeq(p, 1, i), u[i])}
<1>5. 0 \in S
  <2>1. 0 \in 0..n
    OBVIOUS
  <2>2. SubSeq(p, 1, 0) = <<>>
    BY SubSeqEmpty
  <2>3. QED
    BY <1>3, <1>4, <2>1, <2>2 DEF HasRead, Opening
<1>6. ASSUME NEW i \in 0..n, i \in S, i < n
      PROVE  i + 1 \in S
  <2>1. PICK k \in 1..n : k = i + 1 /\ i = k - 1 /\ k \in 0..n
    BY <1>6
  <2>2. u[k] \in Seq(Nat) /\ u[k - 1] = Packed(p, k) \o u[k]
    BY <1>2, <2>1
  <2>3. HasRead(g[k - 1], SubSeq(p, 1, k - 1), Packed(p, k) \o u[k])
    BY <1>6, <2>1, <2>2
  <2>4. k \in 1..Len(p)
    BY <1>1
  <2>5. HasRead(ReadPosting(g[k - 1], texts, q), SubSeq(p, 1, k), u[k])
    BY <2>2, <2>3, <2>4, ReadsOn
  <2>6. g[k] = ReadPosting(g[k - 1], texts, q)
    BY <1>4
  <2>7. QED
    BY <2>1, <2>5, <2>6
<1>7. n \in S
  <2> HIDE DEF S
  <2>1. \A i \in 0..n : i \in S
    BY <1>5, <1>6, UpTo
  <2>2. n \in 0..n
    OBVIOUS
  <2>3. QED
    BY <2>1, <2>2
<1>8. SubSeq(p, 1, n) = p
  BY <1>1, SubSeqFull
<1>9. HasRead(g[n], p, <<>>)
  BY <1>2, <1>7, <1>8
<1>10. g[n].accepted /\ g[n].rest = <<>> /\ g[n].postings = p
  BY <1>9 DEF HasRead
<1>11. WholePayload(g[n]) = Accepted(p)
  BY <1>10, Zenon DEF WholePayload
<1>12. bytes # <<>> /\ Len(bytes) >= 1 /\ Len(bytes) =< 15 * n
  <2>1. Len(bytes) >= n /\ Len(bytes) =< 15 * n /\ Len(bytes) \in Nat
    BY <1>2, <1>3
  <2>2. Len(<<>>) = 0
    OBVIOUS
  <2>3. QED
    BY <2>1, <2>2
<1>13. QED
  BY <1>1, <1>3, <1>4, <1>11, <1>12

-----------------------------------------------------------------------------
(* Files *)

FileFields == {"version", "config", "reserved", "documents", "entries", "checksum", "whole",
           "trailing"}
IsFile(f, version, config, stored, entries) ==
    /\ f = [k \in FileFields |-> f[k]]
    /\ f.version = version /\ f.config = config /\ f.reserved = 0
    /\ f.documents = stored /\ f.entries = entries /\ f.whole /\ ~f.trailing

\* The fields of a file of the first format.
LEMMA FileV1Is ==
  ASSUME NEW i
  PROVE  IsFile(FileV1(i), 1, i.config, StoredDocuments(i), i.entries)
<1>1. PICK f : f = FileV1(i)
  OBVIOUS
<1>2. /\ f.version = 1 /\ f.config = i.config /\ f.reserved = 0
      /\ f.documents = StoredDocuments(i) /\ f.entries = i.entries
  BY <1>1 DEF FileV1
<1>3. f.whole
  BY <1>1 DEF FileV1
<1>4. ~f.trailing
  BY <1>1 DEF FileV1
<1>5. f = [k \in FileFields |-> f[k]]
  BY <1>1 DEF FileV1, FileFields
<1>6. QED
  BY <1>1, <1>2, <1>3, <1>4, <1>5 DEF IsFile

\* A file with its checksum has the fields it had, and the checksum of them.
LEMMA Sealing ==
  ASSUME NEW v, NEW c, NEW r, NEW d, NEW e, NEW w, NEW t,
         NEW g, g = [version |-> v, config |-> c, reserved |-> r, documents |-> d, entries |-> e,
                     checksum |-> <<>>, whole |-> w, trailing |-> t],
         NEW f, f = [g EXCEPT !.checksum = Contents(g)]
  PROVE  /\ f.version = v /\ f.config = c /\ f.reserved = r /\ f.documents = d /\ f.entries = e
         /\ f.whole = w /\ f.trailing = t /\ f.checksum = Contents(f)
         /\ f = [k \in FileFields |-> f[k]]
<1>1. PICK s : s = Contents(g)
  OBVIOUS
<1>2. f = [version |-> v, config |-> c, reserved |-> r, documents |-> d, entries |-> e,
           checksum |-> s, whole |-> w, trailing |-> t]
  BY <1>1
<1>3. PICK z : z = Contents(f)
  OBVIOUS
<1>4. z = [version |-> v, config |-> c, reserved |-> r, documents |-> d, entries |-> e,
           checksum |-> <<>>, whole |-> w, trailing |-> t]
  BY <1>2, <1>3 DEF Contents
<1>5. s = [version |-> v, config |-> c, reserved |-> r, documents |-> d, entries |-> e,
           checksum |-> <<>>, whole |-> w, trailing |-> t]
  BY <1>1 DEF Contents
<1>6. f = [k \in FileFields |-> f[k]]
  BY <1>2 DEF FileFields
<1>7. QED
  BY <1>2, <1>3, <1>4, <1>5, <1>6

\* The fields of a file of the second format.
PackedOf(entries) == [i \in DOMAIN entries |-> EntryV2(entries[i])]

LEMMA FileV2Is ==
  ASSUME NEW i
  PROVE  /\ IsFile(FileV2(i), 2, i.config, StoredDocuments(i), PackedOf(i.entries))
         /\ FileV2(i).checksum = Contents(FileV2(i))
<1>1. PICK v, r, w, t : v = 2 /\ r = 0 /\ w = TRUE /\ t = FALSE
  OBVIOUS
<1>2. PICK e : e = PackedOf(i.entries)
  OBVIOUS
<1>3. PICK c, d : c = i.config /\ d = StoredDocuments(i)
  OBVIOUS
<1>4. PICK g : g = [version |-> v, config |-> c, reserved |-> r, documents |-> d, entries |-> e,
                    checksum |-> <<>>, whole |-> w, trailing |-> t]
  OBVIOUS
<1>5. PICK f : f = [g EXCEPT !.checksum = Contents(g)]
  OBVIOUS
<1>6. f = FileV2(i)
  BY <1>1, <1>2, <1>3, <1>4, <1>5, Zenon DEF FileV2, PackedOf
<1>7. /\ f.version = v /\ f.config = c /\ f.reserved = r /\ f.documents = d /\ f.entries = e
      /\ f.whole = w /\ f.trailing = t /\ f.checksum = Contents(f)
      /\ f = [k \in FileFields |-> f[k]]
  BY <1>4, <1>5, Sealing
<1>8. IsFile(f, 2, c, d, e)
  BY <1>1, <1>7 DEF IsFile
<1>9. QED
  BY <1>2, <1>3, <1>6, <1>7, <1>8

-----------------------------------------------------------------------------
(* What is saved is loaded *)

\* An index as it is built.
GoodIndex(i) ==
    /\ i = [config |-> i.config, documents |-> i.documents, entries |-> i.entries]
    /\ ValidConfig(i.config)
    /\ IsSeq(i.documents)
    /\ \A d \in DOMAIN i.documents : IsSeq(i.documents[d]) /\ Len(i.documents[d]) =< NarrowMax
    /\ IsSound(i.entries, i.documents, i.config.q)

\* The limits hold of the numbers.
LEMMA LimitsAre ==
  /\ NarrowMax \in Nat /\ MaxDocuments \in Nat /\ MaxEntries \in Nat /\ MaxPostings \in Nat
  /\ MaxDocuments =< NarrowMax
<1>1. WideMax \in Nat
  BY WordIs
<1>2. QED
  BY <1>1, IndexFileAssumption

\* An entry of a built index is one both readers accept.
LEMMA GoodEntry ==
  ASSUME NEW i, GoodIndex(i), WithinLimits(i), NEW k \in DOMAIN i.entries,
         NEW e, e = i.entries[k]
  PROVE  /\ e \in Entries /\ e.postings \in Seq(Postings)
         /\ SoundLists(e, i.documents, i.config.q)
         /\ Short(e.postings)
         /\ PossibleCounts(e.df, Len(e.postings), Len(i.documents))
         /\ ObservedDocuments(e.postings) = e.df
<1>1. /\ e \in Entries /\ SoundLists(e, i.documents, i.config.q)
      /\ e.postings \in Seq(Postings) /\ e.df \in Nat
  <2>1. PICK es \in Seq(Entries) : es = i.entries /\ IsSound(es, i.documents, i.config.q)
    BY DEF GoodIndex, IsSound
  <2>2. k \in 1..Len(es) /\ e = es[k]
    BY <2>1
  <2>3. e \in Entries
    BY <2>1, <2>2
  <2>4. SoundLists(e, i.documents, i.config.q)
    BY <2>1, <2>2 DEF IsSound
  <2>5. QED
    BY <2>3, <2>4 DEF Entries
<1>2. PICK p \in Seq(Postings) : p = e.postings
  BY <1>1
<1>3. /\ p # <<>> /\ Ascends(p) /\ Inside(p, i.documents, i.config.q)
      /\ e.df = Cardinality(DocumentsOf(p))
  BY <1>1, <1>2 DEF SoundLists
<1>4. PICK n \in Nat : n = Len(i.documents) /\ n =< MaxDocuments /\ n =< NarrowMax
  <2>1. Len(i.documents) \in Nat
    BY DEF GoodIndex, IsSeq
  <2>2. Len(i.documents) =< MaxDocuments
    BY DEF WithinLimits
  <2>3. QED
    BY <2>1, <2>2, LimitsAre
<1>5. ASSUME NEW j \in DOMAIN p
      PROVE  p[j][1] \in 0..(n - 1) /\ p[j][1] =< NarrowMax /\ p[j][2] =< NarrowMax
  <2>1. p[j] \in Postings /\ InDocument(p[j], i.documents, i.config.q)
    BY <1>3 DEF Inside
  <2>2. PICK a \in Nat, b \in Nat : a = p[j][1] /\ b = p[j][2]
    BY <2>1 DEF Postings
  <2>3. a < n /\ b + i.config.q =< Len(i.documents[a + 1])
    BY <1>4, <2>1, <2>2 DEF InDocument
  <2>4. a + 1 \in DOMAIN i.documents
    BY <1>4, <2>3 DEF GoodIndex, IsSeq
  <2>5. PICK l \in Nat : l = Len(i.documents[a + 1]) /\ l =< NarrowMax
    <3>1. PICK t : t = i.documents[a + 1] /\ IsSeq(t) /\ Len(t) =< NarrowMax
      BY <2>4 DEF GoodIndex
    <3>2. Len(t) \in Nat
      BY <3>1 DEF IsSeq
    <3>3. QED
      BY <3>1, <3>2
  <2>6. PICK q \in Nat : q = i.config.q
    BY ValidConfigIs DEF GoodIndex
  <2>7. b =< NarrowMax /\ a =< NarrowMax /\ a \in 0..(n - 1)
    <3>1. a < n /\ b + q =< l
      BY <2>3, <2>5, <2>6
    <3>2. QED
      BY <1>4, <2>5, <3>1, LimitsAre
  <2>8. QED
    BY <2>2, <2>7
<1>6. Short(p)
  BY <1>5 DEF Short
<1>7. /\ ObservedDocuments(p) = e.df /\ e.df =< Len(p) /\ e.df >= 1
      /\ Cardinality(DocumentsOf(p)) = e.df
  BY <1>3, ObservedIs
<1>8. e.df =< n
  <2>1. DocumentsOf(p) \subseteq 0..(n - 1)
    BY <1>5 DEF DocumentsOf
  <2>2. IsFiniteSet(0..(n - 1)) /\ Cardinality(0..(n - 1)) = n
    BY FS_Interval
  <2>3. QED
    BY <1>7, <2>1, <2>2, FS_Subset
<1>9. Len(p) >= 1 /\ Len(p) \in Nat
  BY <1>3, EmptySeq
<1>10. Len(p) =< MaxPostings
  BY <1>2 DEF WithinLimits
<1>11. QED
  BY <1>1, <1>2, <1>4, <1>6, <1>7, <1>8, <1>9, <1>10 DEF PossibleCounts

\* The documents of an index are those of its file.
LEMMA StoredIs ==
  ASSUME NEW i, GoodIndex(i), WithinLimits(i), NEW f, f.documents = StoredDocuments(i)
  PROVE  DocumentsInOrder(f) /\ Texts(f) = i.documents /\ Len(f.documents) = Len(i.documents)
<1>1. PICK d : d = i.documents /\ IsSeq(d) /\ \A k \in DOMAIN d : Len(d[k]) =< NarrowMax
  BY DEF GoodIndex
<1>2. PICK n \in Nat : n = Len(d) /\ DOMAIN d = 1..n /\ d = [k \in 1..n |-> d[k]]
  <2>1. d \in Seq(Range(d))
    BY <1>1 DEF IsSeq
  <2>2. QED
    BY <2>1, LenProperties
<1>3. PICK s : s = f.documents /\ s = [k \in 1..n |-> [id |-> k - 1, text |-> d[k]]]
  BY <1>1, <1>2 DEF StoredDocuments
<1>4. DOMAIN s = 1..n /\ Len(s) = n /\ \A k \in 1..n : s[k].id = k - 1 /\ s[k].text = d[k]
  <2>1. PICK X : X = {s[k] : k \in 1..n}
    OBVIOUS
  <2>2. s \in [1..n -> X]
    BY <1>3, <2>1
  <2>3. s \in Seq(X) /\ Len(s) = n
    BY <2>2, FunctionIsSeq
  <2>4. QED
    BY <1>3, <2>2, <2>3
<1>5. Texts(f) = [k \in 1..n |-> d[k]]
  BY <1>3, <1>4 DEF Texts
<1>6. n =< MaxDocuments
  BY <1>1, <1>2 DEF WithinLimits
<1>7. DocumentsInOrder(f)
  <2>1. \A k \in DOMAIN s : s[k].id = k - 1 /\ Len(s[k].text) =< NarrowMax
    BY <1>1, <1>2, <1>4
  <2>2. Len(s) =< MaxDocuments
    BY <1>4, <1>6
  <2>3. QED
    BY <1>3, <2>1, <2>2 DEF DocumentsInOrder
<1>8. QED
  BY <1>1, <1>2, <1>3, <1>4, <1>5, <1>7

\* What the dictionary of a built index is.
LEMMA Sorted ==
  ASSUME NEW S, NEW es \in Seq(S), \A k \in 1..Len(es) : es[k].fingerprint \in Nat
  PROVE  DictionarySorted(es)
             <=> \A k \in 1..(Len(es) - 1) : es[k].fingerprint < es[k + 1].fingerprint
<1>1. ASSUME NEW k \in 1..(Len(es) - 1)
      PROVE  Precedes(<<es[k].fingerprint>>, <<es[k + 1].fingerprint>>)
                 <=> es[k].fingerprint < es[k + 1].fingerprint
  <2>1. PICK a \in Nat, b \in Nat : a = es[k].fingerprint /\ b = es[k + 1].fingerprint
    <3>1. k \in 1..Len(es) /\ k + 1 \in 1..Len(es)
      OBVIOUS
    <3>2. QED
      BY <3>1
  <2>2. QED
    BY <2>1, NumbersPrecede
<1>2. DictionarySorted(es)
          <=> \A k \in 1..(Len(es) - 1) : Precedes(<<es[k].fingerprint>>, <<es[k + 1].fingerprint>>)
  BY Zenon DEF DictionarySorted, Increasing
<1>3. QED
  BY <1>1, <1>2

\* So is the dictionary of a built index.
LEMMA GoodEntries ==
  ASSUME NEW i, GoodIndex(i), WithinLimits(i)
  PROVE  /\ i.entries \in Seq(Entries) /\ Len(i.entries) =< MaxEntries
         /\ DictionarySorted(i.entries)
<1>1. PICK es \in Seq(Entries) : es = i.entries /\ IsSound(es, i.documents, i.config.q)
  BY DEF GoodIndex, IsSound
<1>2. \A k \in 1..Len(es) : es[k].fingerprint \in Nat
  <2>1. \A k \in 1..Len(es) : es[k] \in Entries
    OBVIOUS
  <2>2. \A e \in Entries : e.fingerprint \in Nat
    BY DEF Entries
  <2>3. QED
    BY <2>1, <2>2
<1>3. DictionarySorted(es)
  BY <1>1, <1>2, Sorted DEF IsSound
<1>4. QED
  BY <1>1, <1>3 DEF WithinLimits

\* Version 1: what is saved loads as the index it was made of.
LEMMA LoadsV1 ==
  ASSUME NEW i, GoodIndex(i), WithinLimits(i)
  PROVE  LoadAuto(FileV1(i)) = Accepted(i)
<1>1. PICK f : f = FileV1(i) /\ IsFile(f, 1, i.config, StoredDocuments(i), i.entries)
  BY FileV1Is
<1>2. DocumentsInOrder(f) /\ Texts(f) = i.documents /\ Len(f.documents) = Len(i.documents)
  BY <1>1, StoredIs DEF IsFile
<1>3. /\ Len(f.entries) =< MaxEntries /\ DictionarySorted(f.entries)
      /\ f.entries = i.entries /\ f.config = i.config
  BY <1>1, GoodEntries DEF IsFile
<1>4. ASSUME NEW k \in DOMAIN f.entries, NEW e, e = f.entries[k]
      PROVE  /\ PossibleCounts(e.df, Len(e.postings), Len(f.documents))
             /\ \A j \in DOMAIN e.postings : InDocument(e.postings[j], Texts(f), f.config.q)
             /\ Increasing(e.postings, PostingKey)
             /\ ObservedDocuments(e.postings) = e.df
  <2>1. /\ SoundLists(e, i.documents, i.config.q)
        /\ PossibleCounts(e.df, Len(e.postings), Len(i.documents))
        /\ ObservedDocuments(e.postings) = e.df
    BY <1>3, <1>4, GoodEntry
  <2>2. Increasing(e.postings, PostingKey)
    BY <2>1, AscendsIs DEF SoundLists
  <2>3. \A j \in DOMAIN e.postings : InDocument(e.postings[j], Texts(f), f.config.q)
    BY <1>2, <1>3, <2>1 DEF SoundLists, Inside
  <2>4. QED
    BY <1>2, <2>1, <2>2, <2>3
<1>5. ValidConfig(f.config)
  BY <1>3 DEF GoodIndex
<1>6. f.version = 1 /\ f.reserved = 0 /\ f.whole /\ ~f.trailing
  BY <1>1 DEF IsFile
<1>7. LoadV1(f) = Accepted([config |-> f.config, documents |-> Texts(f), entries |-> f.entries])
  BY <1>2, <1>3, <1>4, <1>5, <1>6, Zenon DEF LoadV1
<1>8. LoadAuto(f) = LoadV1(f)
  BY <1>6 DEF LoadAuto
<1>9. i = [config |-> f.config, documents |-> Texts(f), entries |-> f.entries]
  BY <1>2, <1>3 DEF GoodIndex
<1>10. QED
  BY <1>1, <1>7, <1>8, <1>9

PackedEntries == [fingerprint : Nat, df : Nat, count : Nat, payload : Seq(Nat)]

\* An entry of version 2: its payload is one a reader may be given, and is
\* read as the postings it was made of.
LEMMA PackedEntry ==
  ASSUME NEW i, GoodIndex(i), WithinLimits(i), NEW k \in DOMAIN i.entries,
         NEW e, e = i.entries[k], NEW x, x = EntryV2(e)
  PROVE  /\ x.fingerprint = e.fingerprint /\ x.df = e.df /\ x.count = Len(e.postings)
         /\ x.payload \in Seq(Nat) /\ x.payload # <<>>
         /\ x \in PackedEntries
         /\ PossibleLength(x)
         /\ ReadDeltaPostings(x.payload, x.count, i.documents, i.config.q) = Accepted(e.postings)
<1>1. PICK p \in Seq(Postings) : p = e.postings
  BY GoodEntry
<1>2. e \in Entries /\ p # <<>> /\ Ascends(p) /\ Short(p) /\ Inside(p, i.documents, i.config.q)
  BY <1>1, GoodEntry DEF SoundLists
<1>3. PICK payload \in Seq(Nat), count \in Nat : payload = WriteDeltaPostings(p) /\ count = Len(p)
  <2>1. WriteDeltaPostings(p) \in Seq(Nat)
    BY <1>2, ReadsAll
  <2>2. QED
    BY <2>1
<1>4. /\ payload # <<>> /\ Len(payload) >= 1 /\ Len(payload) =< 15 * count
      /\ ReadDeltaPostings(payload, count, i.documents, i.config.q) = Accepted(p)
  BY <1>2, <1>3, ReadsAll
<1>5. x = [fingerprint |-> e.fingerprint, df |-> e.df, count |-> count, payload |-> payload]
  BY <1>1, <1>3 DEF EntryV2
<1>6. PICK fp \in Nat, df \in Nat : fp = e.fingerprint /\ df = e.df
  BY <1>2 DEF Entries
<1>7. x \in PackedEntries
  BY <1>5, <1>6 DEF PackedEntries
<1>8. PossibleLength(x)
  BY <1>4, <1>5 DEF PossibleLength
<1>9. QED
  BY <1>1, <1>3, <1>4, <1>5, <1>7, <1>8

DecodedOf(f) ==
    [k \in DOMAIN f.entries |->
        ReadDeltaPostings(f.entries[k].payload, f.entries[k].count, Texts(f), f.config.q)]
LoadedOf(f, decoded) ==
    [k \in DOMAIN f.entries |->
        [fingerprint |-> f.entries[k].fingerprint, df |-> f.entries[k].df,
         postings |-> decoded[k].value]]

\* When a file of version 2 is accepted, and as what.
AcceptsV2(f) ==
    /\ f.version = 2 /\ f.reserved = 0 /\ f.whole /\ ~f.trailing
    /\ ValidConfig(f.config)
    /\ DocumentsInOrder(f) /\ Len(f.entries) =< MaxEntries
    /\ DictionarySorted(f.entries)
    /\ \A k \in DOMAIN f.entries :
            SoundEntry(f.entries[k], DecodedOf(f)[k], Len(f.documents))
    /\ f.checksum = Contents(f)

LEMMA LoadV2Is ==
  ASSUME NEW f
  PROVE  LoadV2(f) = IF AcceptsV2(f)
                     THEN Accepted([config |-> f.config, documents |-> Texts(f),
                                    entries |-> LoadedOf(f, DecodedOf(f))])
                     ELSE Refused
<1>1. PICK decoded : decoded = DecodedOf(f)
  OBVIOUS
<1>2. LoadV2(f) = LoadDecoded(f, decoded)
  BY <1>1, Zenon DEF LoadV2, DecodedOf
<1>3. QED
  BY <1>1, <1>2, Zenon DEF LoadDecoded, AcceptsV2, LoadedOf

\* Version 2: what is saved loads as the index it was made of.
LEMMA LoadsV2 ==
  ASSUME NEW i, GoodIndex(i), WithinLimits(i)
  PROVE  LoadAuto(FileV2(i)) = Accepted(i)
<1>1. PICK f : /\ f = FileV2(i) /\ f.checksum = Contents(f)
               /\ IsFile(f, 2, i.config, StoredDocuments(i), PackedOf(i.entries))
  BY FileV2Is
<1>2. DocumentsInOrder(f) /\ Texts(f) = i.documents /\ Len(f.documents) = Len(i.documents)
  BY <1>1, StoredIs DEF IsFile
<1>3. PICK es \in Seq(Entries) : /\ es = i.entries /\ Len(es) =< MaxEntries
                                 /\ DictionarySorted(es)
  BY GoodEntries
<1>4. PICK n \in Nat : n = Len(es) /\ DOMAIN es = 1..n /\ es = [k \in 1..n |-> es[k]]
  BY LenProperties
<1>5. f.entries = [k \in 1..n |-> EntryV2(es[k])] /\ f.config = i.config
  BY <1>1, <1>3, <1>4 DEF IsFile, PackedOf
<1>6. PICK xs : xs = f.entries
  OBVIOUS
<1>7. ASSUME NEW k \in 1..n
      PROVE  /\ xs[k].fingerprint = es[k].fingerprint /\ xs[k].df = es[k].df
             /\ xs[k].count = Len(es[k].postings) /\ xs[k] \in PackedEntries
             /\ PossibleLength(xs[k])
             /\ ReadDeltaPostings(xs[k].payload, xs[k].count, Texts(f), f.config.q)
                    = Accepted(es[k].postings)
             /\ es[k] \in Entries
             /\ PossibleCounts(es[k].df, Len(es[k].postings), Len(f.documents))
             /\ ObservedDocuments(es[k].postings) = es[k].df
  <2>1. PICK e, x : e = es[k] /\ x = xs[k] /\ x = EntryV2(e) /\ e = i.entries[k]
    BY <1>3, <1>5, <1>6
  <2>2. k \in DOMAIN i.entries
    BY <1>3, <1>4
  <2>3. /\ x.fingerprint = e.fingerprint /\ x.df = e.df /\ x.count = Len(e.postings)
        /\ x \in PackedEntries /\ PossibleLength(x)
        /\ ReadDeltaPostings(x.payload, x.count, i.documents, i.config.q) = Accepted(e.postings)
    BY <2>1, <2>2, PackedEntry
  <2>4. /\ e \in Entries
        /\ PossibleCounts(e.df, Len(e.postings), Len(i.documents))
        /\ ObservedDocuments(e.postings) = e.df
    BY <2>1, <2>2, GoodEntry
  <2>5. QED
    BY <1>2, <1>5, <2>1, <2>3, <2>4
<1>8. xs \in Seq(PackedEntries) /\ Len(xs) = n /\ DOMAIN xs = 1..n
  <2>1. xs \in [1..n -> PackedEntries]
    BY <1>5, <1>6, <1>7
  <2>2. QED
    BY <2>1, FunctionIsSeq
<1>9. DictionarySorted(xs)
  <2>1. \A k \in 1..n : xs[k].fingerprint \in Nat /\ es[k].fingerprint \in Nat
    <3>1. \A k \in 1..n : xs[k].fingerprint = es[k].fingerprint /\ es[k] \in Entries
      BY <1>7
    <3>2. \A e \in Entries : e.fingerprint \in Nat
      BY DEF Entries
    <3>3. QED
      BY <3>1, <3>2
  <2>2. \A k \in 1..(n - 1) : es[k].fingerprint < es[k + 1].fingerprint
    BY <1>3, <1>4, <2>1, Sorted
  <2>3. \A k \in 1..(n - 1) : xs[k].fingerprint < xs[k + 1].fingerprint
    <3>1. \A k \in 1..(n - 1) : k \in 1..n /\ k + 1 \in 1..n
      OBVIOUS
    <3>2. QED
      BY <1>7, <2>2, <3>1
  <2>4. QED
    BY <1>8, <2>1, <2>3, Sorted
<1>10. ASSUME NEW k \in 1..n
       PROVE  DecodedOf(f)[k] = Accepted(es[k].postings)
  <2>1. DecodedOf(f)[k] = ReadDeltaPostings(xs[k].payload, xs[k].count, Texts(f), f.config.q)
    BY <1>6, <1>8 DEF DecodedOf
  <2>2. QED
    BY <1>7, <2>1
<1>11. ASSUME NEW k \in 1..n
       PROVE  SoundEntry(xs[k], DecodedOf(f)[k], Len(f.documents))
  <2>1. PICK d : d = DecodedOf(f)[k] /\ d = Accepted(es[k].postings)
    BY <1>10
  <2>2. d.accepted /\ d.value = es[k].postings
    BY <2>1 DEF Accepted
  <2>3. QED
    BY <1>7, <2>1, <2>2 DEF SoundEntry
<1>12. AcceptsV2(f)
  <2>1. ValidConfig(f.config)
    BY <1>5 DEF GoodIndex
  <2>2. f.version = 2 /\ f.reserved = 0 /\ f.whole /\ ~f.trailing
    BY <1>1 DEF IsFile
  <2>3. Len(f.entries) =< MaxEntries /\ DictionarySorted(f.entries) /\ DOMAIN f.entries = 1..n
    BY <1>3, <1>4, <1>6, <1>8, <1>9
  <2>4. QED
    BY <1>1, <1>2, <1>6, <1>11, <2>1, <2>2, <2>3 DEF AcceptsV2
<1>13. LoadedOf(f, DecodedOf(f)) = es
  <2>1. ASSUME NEW k \in 1..n
        PROVE  [fingerprint |-> xs[k].fingerprint, df |-> xs[k].df,
                postings |-> DecodedOf(f)[k].value] = es[k]
    <3>1. PICK d : d = DecodedOf(f)[k] /\ d = Accepted(es[k].postings)
      BY <1>10
    <3>2. d.value = es[k].postings
      BY <3>1 DEF Accepted
    <3>3. \A e \in Entries : [fingerprint |-> e.fingerprint, df |-> e.df,
                              postings |-> e.postings] = e
      BY DEF Entries
    <3>4. QED
      BY <1>7, <3>1, <3>2, <3>3
  <2>2. LoadedOf(f, DecodedOf(f))
            = [k \in 1..n |-> [fingerprint |-> xs[k].fingerprint, df |-> xs[k].df,
                               postings |-> DecodedOf(f)[k].value]]
    BY <1>6, <1>8, Zenon DEF LoadedOf
  <2>3. QED
    BY <1>4, <2>1, <2>2
<1>14. i = [config |-> f.config, documents |-> Texts(f), entries |-> LoadedOf(f, DecodedOf(f))]
  BY <1>2, <1>3, <1>5, <1>13 DEF GoodIndex
<1>15. LoadAuto(f) = LoadV2(f)
  BY <1>1 DEF LoadAuto, IsFile
<1>16. QED
  BY <1>1, <1>12, <1>14, <1>15, LoadV2Is, Zenon

-----------------------------------------------------------------------------
(* What is loaded is sound *)

\* The entries of a file are typed, whatever happened to it.
TypedFile(f) ==
    /\ f.version = 1 => f.entries \in Seq(Entries)
    /\ f.version = 2 => f.entries \in Seq(PackedEntries)

SoundOne(e, texts, q) ==
    /\ e.postings # <<>> /\ Increasing(e.postings, PostingKey)
    /\ e.df = Cardinality({e.postings[k][1] : k \in DOMAIN e.postings})
    /\ \A k \in DOMAIN e.postings : InDocument(e.postings[k], texts, q)

\* An index of sound entries is sound.
LEMMA SoundIndexIs ==
  ASSUME NEW c, NEW d, NEW es, NEW i, i = [config |-> c, documents |-> d, entries |-> es],
         DictionarySorted(es), \A k \in DOMAIN es : SoundOne(es[k], d, c.q)
  PROVE  SoundIndex(i)
<1>1. i.config = c /\ i.documents = d /\ i.entries = es
  OBVIOUS
<1>2. \A k \in DOMAIN i.entries : SoundOne(i.entries[k], i.documents, i.config.q)
  BY <1>1
<1>3. DictionarySorted(i.entries)
  BY <1>1, Zenon
<1>4. QED
  BY <1>2, <1>3, Zenon DEF SoundIndex, SoundOne

\* Postings that were checked are those of a sound entry.
LEMMA CheckedPostings ==
  ASSUME NEW p \in Seq(Postings), Ascends(p), NEW texts, NEW q, Inside(p, texts, q),
         NEW df \in Nat, df >= 1, ObservedDocuments(p) = df, NEW e, e.postings = p, e.df = df
  PROVE  SoundOne(e, texts, q)
<1>1. p # <<>>
  <2>1. SUFFICES ASSUME p = <<>> PROVE FALSE
    OBVIOUS
  <2>2. DocumentsOf(p) = {}
    BY <2>1 DEF DocumentsOf
  <2>3. Cardinality(DocumentsOf(p)) = 0
    BY <2>2, FS_EmptySet
  <2>4. QED
    BY <2>3, ObservedIs
<1>2. df = Cardinality({p[k][1] : k \in DOMAIN p})
  BY ObservedIs DEF DocumentsOf
<1>3. Increasing(p, PostingKey)
  BY AscendsIs
<1>4. QED
  BY <1>1, <1>2, <1>3 DEF SoundOne, Inside

SoundFirst(f, e) ==
    /\ PossibleCounts(e.df, Len(e.postings), Len(f.documents))
    /\ \A k \in DOMAIN e.postings : InDocument(e.postings[k], Texts(f), f.config.q)
    /\ Increasing(e.postings, PostingKey)
    /\ ObservedDocuments(e.postings) = e.df

\* Version 1: what is accepted is sound.
LEMMA AcceptedV1 ==
  ASSUME NEW f, f.entries \in Seq(Entries), LoadV1(f).accepted
  PROVE  SoundIndex(LoadV1(f).value)
<1>1. PICK es \in Seq(Entries) : es = f.entries
  OBVIOUS
<1>2. /\ DictionarySorted(es)
      /\ \A k \in DOMAIN es : SoundFirst(f, es[k])
      /\ LoadV1(f) = Accepted([config |-> f.config, documents |-> Texts(f), entries |-> es])
  <2>1. ~Refused.accepted
    BY DEF Refused
  <2>2. LoadV1(f) # Refused
    BY <2>1
  <2>3. QED
    BY <1>1, <2>2, Zenon DEF LoadV1, SoundFirst
<1>3. ASSUME NEW k \in DOMAIN es
      PROVE  SoundOne(es[k], Texts(f), f.config.q)
  <2>1. PICK e \in Entries : e = es[k]
    OBVIOUS
  <2>2. PICK p \in Seq(Postings), df \in Nat : p = e.postings /\ df = e.df
    BY DEF Entries
  <2>3. SoundFirst(f, e)
    BY <1>2, <2>1
  <2>4. Ascends(p) /\ Inside(p, Texts(f), f.config.q) /\ df >= 1 /\ ObservedDocuments(p) = df
    BY <2>2, <2>3, AscendsIs DEF SoundFirst, Inside, PossibleCounts
  <2>5. QED
    BY <2>1, <2>2, <2>4, CheckedPostings
<1>4. PICK i : i = [config |-> f.config, documents |-> Texts(f), entries |-> es]
  OBVIOUS
<1>5. LoadV1(f).value = i
  BY <1>2, <1>4 DEF Accepted
<1>6. SoundIndex(i)
  BY <1>2, <1>3, <1>4, SoundIndexIs
<1>7. QED
  BY <1>5, <1>6

\* Version 2: what is accepted is sound, and has the checksum of its contents.
LEMMA AcceptedV2 ==
  ASSUME NEW f, f.entries \in Seq(PackedEntries), LoadV2(f).accepted
  PROVE  SoundIndex(LoadV2(f).value) /\ f.checksum = Contents(f)
<1>1. PICK xs \in Seq(PackedEntries) : xs = f.entries
  OBVIOUS
<1>2. PICK n \in Nat : n = Len(xs) /\ DOMAIN xs = 1..n
  OBVIOUS
<1>3. PICK es : es = LoadedOf(f, DecodedOf(f))
  OBVIOUS
<1>4. /\ AcceptsV2(f)
      /\ LoadV2(f) = Accepted([config |-> f.config, documents |-> Texts(f), entries |-> es])
  <2>1. ~Refused.accepted
    BY DEF Refused
  <2>2. LoadV2(f) # Refused
    BY <2>1
  <2>3. QED
    BY <1>3, <2>2, LoadV2Is, Zenon
<1>5. es = [k \in 1..n |-> [fingerprint |-> xs[k].fingerprint, df |-> xs[k].df,
                            postings |-> DecodedOf(f)[k].value]]
  BY <1>1, <1>2, <1>3 DEF LoadedOf
<1>6. ASSUME NEW k \in 1..n
      PROVE  /\ SoundOne(es[k], Texts(f), f.config.q)
             /\ es[k].fingerprint = xs[k].fingerprint /\ xs[k].fingerprint \in Nat
  <2>1. PICK x, e : x \in PackedEntries /\ x = xs[k] /\ e = es[k]
    BY <1>2
  <2>2. PICK payload \in Seq(Nat), count \in Nat, df \in Nat, fp \in Nat :
            payload = x.payload /\ count = x.count /\ df = x.df /\ fp = x.fingerprint
    BY <2>1 DEF PackedEntries
  <2>3. PICK d : d = DecodedOf(f)[k]
    OBVIOUS
  <2>4. d = ReadDeltaPostings(payload, count, Texts(f), f.config.q)
    BY <1>1, <1>2, <2>1, <2>2, <2>3 DEF DecodedOf
  <2>5. SoundEntry(x, d, Len(f.documents))
    BY <1>1, <1>2, <1>4, <2>1, <2>3 DEF AcceptsV2
  <2>6. d.accepted /\ df >= 1 /\ ObservedDocuments(d.value) = df
    BY <2>2, <2>5 DEF SoundEntry, PossibleCounts
  <2>7. PICK p \in Seq(Postings) : p = d.value /\ Ascends(p) /\ Inside(p, Texts(f), f.config.q)
    BY <2>4, <2>6, DecodedIs
  <2>8. e.postings = p /\ e.df = df /\ e.fingerprint = fp
    BY <1>5, <2>1, <2>2, <2>3, <2>7
  <2>9. SoundOne(e, Texts(f), f.config.q)
    BY <2>6, <2>7, <2>8, CheckedPostings
  <2>10. QED
    BY <2>1, <2>2, <2>8, <2>9
<1>7. DictionarySorted(es)
  <2>1. PICK X : X = {es[k] : k \in 1..n}
    OBVIOUS
  <2>2. es \in [1..n -> X]
    BY <1>5, <2>1
  <2>3. es \in Seq(X) /\ Len(es) = n
    BY <2>2, FunctionIsSeq
  <2>4. DictionarySorted(xs)
    BY <1>1, <1>4 DEF AcceptsV2
  <2>5. \A k \in 1..(n - 1) : xs[k].fingerprint < xs[k + 1].fingerprint
    BY <1>2, <1>6, <2>4, Sorted
  <2>6. \A k \in 1..(n - 1) : es[k].fingerprint < es[k + 1].fingerprint
    <3>1. \A k \in 1..(n - 1) : k \in 1..n /\ k + 1 \in 1..n
      OBVIOUS
    <3>2. QED
      BY <1>6, <2>5, <3>1
  <2>7. \A k \in 1..n : es[k].fingerprint \in Nat
    BY <1>6
  <2>8. QED
    BY <2>3, <2>6, <2>7, Sorted
<1>8. PICK i : i = [config |-> f.config, documents |-> Texts(f), entries |-> es]
  OBVIOUS
<1>9. LoadV2(f).value = i
  BY <1>4, <1>8 DEF Accepted
<1>10. SoundIndex(i)
  <2>1. \A k \in DOMAIN es : SoundOne(es[k], Texts(f), f.config.q)
    BY <1>5, <1>6
  <2>2. QED
    BY <1>7, <1>8, <2>1, SoundIndexIs
<1>11. f.checksum = Contents(f)
  BY <1>4 DEF AcceptsV2
<1>12. QED
  BY <1>9, <1>10, <1>11

\* Whatever the file is.
LEMMA AcceptedIsSound ==
  ASSUME NEW f, TypedFile(f), NEW l, l = LoadAuto(f), l.accepted
  PROVE  SoundIndex(l.value) /\ (f.version = 2 => f.checksum = Contents(f))
<1>1. CASE f.version = 1
  <2>1. l = LoadV1(f)
    BY <1>1 DEF LoadAuto
  <2>2. QED
    BY <1>1, <2>1, AcceptedV1 DEF TypedFile
<1>2. CASE f.version = 2
  <2>1. l = LoadV2(f)
    BY <1>2 DEF LoadAuto
  <2>2. QED
    BY <1>2, <2>1, AcceptedV2 DEF TypedFile
<1>3. CASE f.version # 1 /\ f.version # 2
  <2>1. l = Refused
    BY <1>3 DEF LoadAuto
  <2>2. QED
    BY <2>1 DEF Refused
<1>4. QED
  BY <1>1, <1>2, <1>3

-----------------------------------------------------------------------------
(* What happens to a file *)

\* The other way round it is a sequence of the same.
LEMMA ReverseIs ==
  ASSUME NEW S, NEW s \in Seq(S)
  PROVE  Reverse(s) \in Seq(S)
<1>1. PICK n \in Nat : n = Len(s)
  OBVIOUS
<1>2. Reverse(s) = [i \in 1..n |-> s[(n - i) + 1]]
  BY <1>1 DEF Reverse
<1>3. \A i \in 1..n : s[(n - i) + 1] \in S
  BY <1>1
<1>4. [i \in 1..n |-> s[(n - i) + 1]] \in [1..n -> S]
  BY <1>3
<1>5. QED
  BY <1>2, <1>4, FunctionIsSeq

\* So it is with another element at one place.
LEMMA PutIs ==
  ASSUME NEW S, NEW s \in Seq(S), NEW i \in DOMAIN s, NEW x \in S
  PROVE  [s EXCEPT ![i] = x] \in Seq(S)
OBVIOUS

\* An altered entry of version 1 is still of its type.
LEMMA AlteredEntry ==
  ASSUME NEW e \in Entries, e.postings # <<>>, NEW x \in Altered(e)
  PROVE  x \in Entries
<1>1. PICK fp \in Nat, df \in Nat, p \in Seq(Postings) :
          e = [fingerprint |-> fp, df |-> df, postings |-> p] /\ p # <<>>
  BY DEF Entries
<1>2. "payload" \notin DOMAIN e
  BY <1>1
<1>3. CASE x \in {[e EXCEPT !.df = n] : n \in 0..2}
  <2>1. PICK n \in 0..2 : x = [e EXCEPT !.df = n]
    BY <1>3
  <2>2. x = [fingerprint |-> fp, df |-> n, postings |-> p]
    BY <1>1, <2>1
  <2>3. QED
    BY <2>2 DEF Entries
<1>4. ASSUME NEW s \in Seq(Postings), x = [e EXCEPT !.postings = s]
      PROVE  x \in Entries
  <2>1. x = [fingerprint |-> fp, df |-> df, postings |-> s]
    BY <1>1, <1>4
  <2>2. QED
    BY <2>1 DEF Entries
<1>5. CASE x = [e EXCEPT !.postings = Reverse(@)]
  <2>1. x = [e EXCEPT !.postings = Reverse(p)]
    BY <1>1, <1>5
  <2>2. Reverse(p) \in Seq(Postings)
    BY ReverseIs
  <2>3. QED
    BY <1>4, <2>1, <2>2
<1>6. CASE x = [e EXCEPT !.postings = Tail(@)]
  <2>1. x = [e EXCEPT !.postings = Tail(p)]
    BY <1>1, <1>6
  <2>2. Tail(p) \in Seq(Postings)
    BY <1>1
  <2>3. QED
    BY <1>4, <2>1, <2>2
<1>7. CASE x \in {[e EXCEPT !.postings[i] = y] : i \in DOMAIN e.postings, y \in (0..2) \X (0..4)}
  <2>1. PICK i \in DOMAIN p, y \in (0..2) \X (0..4) : x = [e EXCEPT !.postings[i] = y]
    BY <1>1, <1>7
  <2>2. y \in Postings
    BY DEF Postings
  <2>3. [p EXCEPT ![i] = y] \in Seq(Postings)
    BY <2>2, PutIs
  <2>4. x = [e EXCEPT !.postings = [p EXCEPT ![i] = y]]
    BY <1>1, <2>1
  <2>5. QED
    BY <1>4, <2>3, <2>4
<1>8. QED
  BY <1>2, <1>3, <1>5, <1>6, <1>7 DEF Altered

\* So is one of version 2.
LEMMA AlteredPacked ==
  ASSUME NEW e \in PackedEntries, e.payload # <<>>, NEW x \in Altered(e)
  PROVE  x \in PackedEntries
<1>1. PICK fp \in Nat, df \in Nat, count \in Nat, s \in Seq(Nat) :
          e = [fingerprint |-> fp, df |-> df, count |-> count, payload |-> s] /\ s # <<>>
  BY DEF PackedEntries
<1>2. "payload" \in DOMAIN e
  BY <1>1
<1>3. CASE x \in {[e EXCEPT !.df = n] : n \in 0..2}
  <2>1. PICK n \in 0..2 : x = [e EXCEPT !.df = n]
    BY <1>3
  <2>2. x = [fingerprint |-> fp, df |-> n, count |-> count, payload |-> s]
    BY <1>1, <2>1
  <2>3. QED
    BY <2>2 DEF PackedEntries
<1>4. CASE x \in {[e EXCEPT !.count = n] : n \in 0..(e.count + 1)}
  <2>1. PICK n \in 0..(e.count + 1) : x = [e EXCEPT !.count = n]
    BY <1>4
  <2>2. x = [fingerprint |-> fp, df |-> df, count |-> n, payload |-> s]
    BY <1>1, <2>1
  <2>3. QED
    BY <2>2 DEF PackedEntries
<1>5. ASSUME NEW t \in Seq(Nat), x = [e EXCEPT !.payload = t]
      PROVE  x \in PackedEntries
  <2>1. x = [fingerprint |-> fp, df |-> df, count |-> count, payload |-> t]
    BY <1>1, <1>5
  <2>2. QED
    BY <2>1 DEF PackedEntries
<1>6. CASE x \in {[e EXCEPT !.payload[i] = b] : i \in DOMAIN e.payload, b \in 0..(2 * Radix - 1)}
  <2>0. PICK B : B = 0..(2 * Radix - 1) /\ B \subseteq Nat
    <3>1. \A b \in 0..(2 * Radix - 1) : b \in Nat
      BY WordIs
    <3>2. QED
      BY <3>1
  <2>1. PICK i \in DOMAIN s, b \in B : x = [e EXCEPT !.payload[i] = b]
    <3>1. x \in {[e EXCEPT !.payload[i] = b] : i \in DOMAIN e.payload, b \in B}
      BY <1>6, <2>0
    <3>2. e.payload = s
      BY <1>1
    <3>3. QED
      BY <3>1, <3>2
  <2>2. b \in Nat
    BY <2>0
  <2>3. [s EXCEPT ![i] = b] \in Seq(Nat)
    BY <2>2, PutIs
  <2>4. x = [e EXCEPT !.payload = [s EXCEPT ![i] = b]]
    BY <1>1, <2>1
  <2>5. QED
    BY <1>5, <2>3, <2>4
<1>7. CASE x = [e EXCEPT !.payload = Tail(@)]
  <2>1. x = [e EXCEPT !.payload = Tail(s)]
    BY <1>1, <1>7
  <2>2. Tail(s) \in Seq(Nat)
    BY <1>1
  <2>3. QED
    BY <1>5, <2>1, <2>2
<1>8. QED
  BY <1>2, <1>3, <1>4, <1>6, <1>7 DEF Altered

\* Damage keeps the entries typed, and makes no other format of a file.
LEMMA DamagedIs ==
  ASSUME NEW f, NEW v, NEW c, NEW d, NEW es, IsFile(f, v, c, d, es),
         NEW E, es \in Seq(E), \A k \in DOMAIN es : Altered(es[k]) \subseteq E,
         NEW g \in Damaged(f)
  PROVE  g.version \in {v, 3} /\ g.entries \in Seq(E) /\ g = [k \in FileFields |-> g[k]]
<1> DEFINE P(h) == h.version \in {v, 3} /\ h.entries \in Seq(E) /\ h = [k \in FileFields |-> h[k]]
<1> SUFFICES P(g)
  OBVIOUS
<1>1. ASSUME g = [f EXCEPT !.version = 3] PROVE P(g)
  BY <1>1 DEF IsFile, FileFields
<1>2. ASSUME g = [f EXCEPT !.reserved = 1] PROVE P(g)
  BY <1>2 DEF IsFile, FileFields
<1>3. ASSUME g = [f EXCEPT !.whole = FALSE] PROVE P(g)
  BY <1>3 DEF IsFile, FileFields
<1>4. ASSUME g = [f EXCEPT !.trailing = TRUE] PROVE P(g)
  BY <1>4 DEF IsFile, FileFields
<1>5. ASSUME NEW x, g = [f EXCEPT !.config = x] PROVE P(g)
  BY <1>5 DEF IsFile, FileFields
<1>6. ASSUME NEW x, g = [f EXCEPT !.documents = x] PROVE P(g)
  BY <1>6 DEF IsFile, FileFields
<1>7. ASSUME NEW x \in Seq(E), g = [f EXCEPT !.entries = x] PROVE P(g)
  BY <1>7 DEF IsFile, FileFields
<1>8. CASE g \in {[f EXCEPT !.config.q = @ + 1], [f EXCEPT !.config.q = 1],
                  [f EXCEPT !.config.window = 0]}
  BY <1>5, <1>8
<1>9. CASE g \in {[f EXCEPT !.documents = Reverse(@)], [f EXCEPT !.documents = Tail(@)]}
  BY <1>6, <1>9
<1>10. CASE g = [f EXCEPT !.entries = Reverse(@)]
  <2>1. g = [f EXCEPT !.entries = Reverse(es)]
    BY <1>10 DEF IsFile
  <2>2. QED
    BY <1>7, <2>1, ReverseIs
<1>11. CASE g = [f EXCEPT !.entries = @ \o @]
  <2>1. PICK x \in Seq(E) : x = es \o es
    BY ConcatProperties
  <2>2. g = [f EXCEPT !.entries = x]
    BY <1>11, <2>1 DEF IsFile
  <2>3. QED
    BY <1>7, <2>2
<1>12. CASE g \in {[f EXCEPT !.documents[i].text = Tail(@)] : i \in DOMAIN f.documents}
  <2>1. PICK i \in DOMAIN f.documents : g = [f EXCEPT !.documents[i].text = Tail(@)]
    BY <1>12
  <2>2. QED
    BY <1>6, <2>1
<1>13. CASE g \in UNION {{[f EXCEPT !.entries[i] = e] : e \in Altered(f.entries[i])} :
                            i \in DOMAIN f.entries}
  <2>1. PICK i \in DOMAIN es : g \in {[f EXCEPT !.entries[i] = e] : e \in Altered(es[i])}
    BY <1>13 DEF IsFile
  <2>2. PICK e \in Altered(es[i]) : g = [f EXCEPT !.entries[i] = e]
    BY <2>1
  <2>3. PICK x \in Seq(E) : x = [es EXCEPT ![i] = e]
    BY <2>2, PutIs
  <2>4. g = [f EXCEPT !.entries = x]
    BY <2>2, <2>3 DEF IsFile
  <2>5. QED
    BY <1>7, <2>4
<1> HIDE DEF P
<1>14. QED
  <2>1. \/ g \in {[f EXCEPT !.version = 3], [f EXCEPT !.reserved = 1],
                  [f EXCEPT !.whole = FALSE], [f EXCEPT !.trailing = TRUE]}
        \/ g \in {[f EXCEPT !.config.q = @ + 1], [f EXCEPT !.config.q = 1],
                  [f EXCEPT !.config.window = 0]}
        \/ g \in {[f EXCEPT !.documents = Reverse(@)], [f EXCEPT !.documents = Tail(@)]}
        \/ g = [f EXCEPT !.entries = Reverse(@)]
        \/ g = [f EXCEPT !.entries = @ \o @]
        \/ g \in {[f EXCEPT !.documents[i].text = Tail(@)] : i \in DOMAIN f.documents}
        \/ g \in UNION {{[f EXCEPT !.entries[i] = e] : e \in Altered(f.entries[i])} :
                            i \in DOMAIN f.entries}
    BY Zenon DEF Damaged
  <2>2. CASE g \in {[f EXCEPT !.version = 3], [f EXCEPT !.reserved = 1],
                    [f EXCEPT !.whole = FALSE], [f EXCEPT !.trailing = TRUE]}
    BY <1>1, <1>2, <1>3, <1>4, <2>2
  <2>3. QED
    BY <1>8, <1>9, <1>10, <1>11, <1>12, <1>13, <2>1, <2>2

-----------------------------------------------------------------------------
(* Files through the life of an index *)

\* Before it is loaded, a file comes of a sound index; then that index is what it
\* can be loaded as.
FileInv ==
    /\ stage \in {"adding", "scanning", "built", "saved", "altered"} => loaded = None
    /\ stage = "built" => GoodIndex(index)
    /\ stage = "saved" => file \in {FileV1(index), FileV2(index)}
    /\ stage \in {"saved", "altered"} \/ loaded # None =>
        GoodIndex(index) /\ WithinLimits(index) /\ TypedFile(file)
    /\ loaded # None => loaded = LoadAuto(file)

\* It holds at first.
LEMMA FileInit == Init => FileInv
BY DEF Init, FileInv

\* What the builder leaves is an index as readers expect it.
LEMMA BuildsGood ==
  ASSUME HashesAreNumbers, BuildInv, FinishBuild
  PROVE  GoodIndex(index')
<1>1. PICK c, d, es : c = case.config /\ d = documents /\ es = BuildEntries(kept)
  OBVIOUS
<1>2. PICK i : i = index' /\ i = [config |-> c, documents |-> d, entries |-> es]
  BY <1>1 DEF FinishBuild
<1>3. i.config = c /\ i.documents = d /\ i.entries = es
  BY <1>2
<1>4. ValidConfig(c)
  BY <1>1, CasesAssumption DEF BuildInv
<1>5. IsSeq(d) /\ \A k \in DOMAIN d : IsSeq(d[k]) /\ Len(d[k]) =< NarrowMax
  BY <1>1 DEF BuildInv
<1>6. IsSound(es, d, c.q)
  BY <1>1, BuiltIsSound
<1>7. QED
  BY <1>2, <1>3, <1>4, <1>5, <1>6 DEF GoodIndex

\* The files of a good index are typed, and stay so when they are damaged.
LEMMA SavedEntries ==
  ASSUME NEW i, GoodIndex(i), WithinLimits(i)
  PROVE  /\ i.entries \in Seq(Entries)
         /\ \A k \in DOMAIN i.entries : Altered(i.entries[k]) \subseteq Entries
         /\ PackedOf(i.entries) \in Seq(PackedEntries)
         /\ \A k \in DOMAIN PackedOf(i.entries) :
              Altered(PackedOf(i.entries)[k]) \subseteq PackedEntries
<1>1. PICK es \in Seq(Entries) : es = i.entries
  BY GoodEntries
<1>2. PICK n \in Nat : n = Len(es) /\ DOMAIN es = 1..n
  OBVIOUS
<1>3. ASSUME NEW k \in 1..n
      PROVE  Altered(es[k]) \subseteq Entries
  <2>1. PICK e \in Entries : e = es[k] /\ e = i.entries[k]
    BY <1>1, <1>2
  <2>2. SoundLists(e, i.documents, i.config.q)
    BY <1>1, <1>2, <2>1, GoodEntry
  <2>3. e.postings # <<>>
    BY <2>2 DEF SoundLists
  <2>4. QED
    BY <2>1, <2>3, AlteredEntry
<1>4. PICK xs : xs = PackedOf(es) /\ xs = [k \in 1..n |-> EntryV2(es[k])]
  BY <1>2 DEF PackedOf
<1>5. ASSUME NEW k \in 1..n
      PROVE  xs[k] \in PackedEntries /\ Altered(xs[k]) \subseteq PackedEntries
  <2>1. PICK e, x : e = i.entries[k] /\ x = EntryV2(e) /\ x = xs[k] /\ k \in DOMAIN i.entries
    BY <1>1, <1>2, <1>4
  <2>2. x \in PackedEntries /\ x.payload # <<>>
    <3>1. e = i.entries[k] /\ x = EntryV2(e) /\ k \in DOMAIN i.entries
      BY <2>1
    <3>2. QED
      BY <3>1, PackedEntry
  <2>3. QED
    BY <2>1, <2>2, AlteredPacked
<1>6. xs \in Seq(PackedEntries) /\ DOMAIN xs = 1..n
  <2>1. xs \in [1..n -> PackedEntries]
    BY <1>4, <1>5
  <2>2. QED
    BY <2>1, FunctionIsSeq
<1>7. QED
  BY <1>1, <1>2, <1>3, <1>4, <1>5, <1>6

\* What is saved is typed.
LEMMA SavedIsTyped ==
  ASSUME NEW i, GoodIndex(i), WithinLimits(i), NEW f \in {FileV1(i), FileV2(i)}
  PROVE  TypedFile(f)
<1>1. CASE f = FileV1(i)
  <2>1. IsFile(f, 1, i.config, StoredDocuments(i), i.entries)
    BY <1>1, FileV1Is
  <2>2. QED
    BY <2>1, SavedEntries DEF IsFile, TypedFile
<1>2. CASE f = FileV2(i)
  <2>1. IsFile(f, 2, i.config, StoredDocuments(i), PackedOf(i.entries))
    BY <1>2, FileV2Is
  <2>2. QED
    BY <2>1, SavedEntries DEF IsFile, TypedFile
<1>3. QED
  BY <1>1, <1>2

\* What becomes of it is typed, under any checksum.
LEMMA DamagedIsTyped ==
  ASSUME NEW i, GoodIndex(i), WithinLimits(i), NEW f \in {FileV1(i), FileV2(i)},
         NEW g \in Damaged(f), NEW x
  PROVE  TypedFile(g) /\ TypedFile([g EXCEPT !.checksum = x])
<1>1. ASSUME NEW E, g.version \in {1, 3}, E = Entries, g.entries \in Seq(E),
             g = [k \in FileFields |-> g[k]]
      PROVE  TypedFile(g) /\ TypedFile([g EXCEPT !.checksum = x])
  <2>1. PICK h : h = [g EXCEPT !.checksum = x]
    OBVIOUS
  <2>2. h.version = g.version /\ h.entries = g.entries
    BY <1>1, <2>1 DEF FileFields
  <2>3. QED
    BY <1>1, <2>1, <2>2 DEF TypedFile
<1>2. ASSUME NEW E, g.version \in {2, 3}, E = PackedEntries, g.entries \in Seq(E),
             g = [k \in FileFields |-> g[k]]
      PROVE  TypedFile(g) /\ TypedFile([g EXCEPT !.checksum = x])
  <2>1. PICK h : h = [g EXCEPT !.checksum = x]
    OBVIOUS
  <2>2. h.version = g.version /\ h.entries = g.entries
    BY <1>2, <2>1 DEF FileFields
  <2>3. QED
    BY <1>2, <2>1, <2>2 DEF TypedFile
<1>3. CASE f = FileV1(i)
  <2>1. IsFile(f, 1, i.config, StoredDocuments(i), i.entries)
    BY <1>3, FileV1Is
  <2>2. g.version \in {1, 3} /\ g.entries \in Seq(Entries) /\ g = [k \in FileFields |-> g[k]]
    BY <2>1, SavedEntries, DamagedIs
  <2>3. QED
    BY <1>1, <2>2
<1>4. CASE f = FileV2(i)
  <2>1. IsFile(f, 2, i.config, StoredDocuments(i), PackedOf(i.entries))
    BY <1>4, FileV2Is
  <2>2. g.version \in {2, 3} /\ g.entries \in Seq(PackedEntries) /\ g = [k \in FileFields |-> g[k]]
    <3>1. PICK es \in Seq(PackedEntries) :
              /\ es = PackedOf(i.entries)
              /\ \A k \in DOMAIN es : Altered(es[k]) \subseteq PackedEntries
      BY SavedEntries
    <3>2. IsFile(f, 2, i.config, StoredDocuments(i), es)
      BY <2>1, <3>1
    <3>3. QED
      BY <3>1, <3>2, DamagedIs
  <2>3. QED
    BY <1>2, <2>2
<1>5. QED
  BY <1>3, <1>4

\* An action that leaves the index and the files alone.
LEMMA FilesRest ==
  ASSUME FileInv, UNCHANGED <<index, file, loaded>>,
         \/ stage' = stage
         \/ stage' \in {"refused", "searching", "answered"} 
         \/ stage = "adding" /\ stage' = "scanning"
  PROVE  FileInv'
BY DEF FileInv

\* Every step keeps it.
LEMMA FileNext == ASSUME HashesAreNumbers, BuildInv, FileInv, [Next]_vars PROVE FileInv'
<1>1. CASE AddDocument
  <2>1. UNCHANGED <<index, file, loaded>> /\ (stage' = stage \/ stage' = "refused")
    BY <1>1, Zenon DEF AddDocument
  <2>2. QED
    BY <2>1, FilesRest
<1>2. CASE Build
  BY <1>2, FilesRest DEF Build
<1>3. CASE KeepWithoutScan
  BY <1>3, FilesRest DEF KeepWithoutScan
<1>4. CASE ScanFeature
  BY <1>4, FilesRest DEF ScanFeature
<1>5. CASE KeepSelected
  BY <1>5, FilesRest DEF KeepSelected
<1>6. CASE FinishBuild
  <2>1. stage = "scanning" /\ stage' = "built" /\ loaded' = loaded
    BY <1>6 DEF FinishBuild
  <2>2. GoodIndex(index')
    BY <1>6, BuildsGood
  <2>3. QED
    BY <2>1, <2>2 DEF FileInv
<1>7. ASSUME NEW format \in Variants, Save(format)
      PROVE  FileInv'
  <2>1. stage = "built" /\ index' = index /\ loaded' = loaded
    BY <1>7 DEF Save, built
  <2>2. GoodIndex(index) /\ loaded = None
    BY <2>1 DEF FileInv
  <2>3. CASE ~WithinLimits(index)
    <3>1. stage' = "refused"
      BY <1>7, <2>3 DEF Save
    <3>2. QED
      BY <2>1, <2>2, <3>1 DEF FileInv
  <2>4. CASE WithinLimits(index)
    <3>1. stage' = "saved" /\ file' \in {FileV1(index), FileV2(index)}
      BY <1>7, <2>4 DEF Save
    <3>2. TypedFile(file')
      BY <2>2, <2>4, <3>1, SavedIsTyped
    <3>3. QED
      BY <2>1, <2>2, <2>4, <3>1, <3>2 DEF FileInv
  <2>5. QED
    BY <2>3, <2>4
<1>8. CASE Damage
  <2>1. stage = "saved" /\ stage' = "altered" /\ index' = index /\ loaded' = loaded
    BY <1>8 DEF Damage, built
  <2>2. /\ GoodIndex(index) /\ WithinLimits(index) /\ loaded = None
        /\ file \in {FileV1(index), FileV2(index)}
    BY <2>1 DEF FileInv
  <2>3. PICK altered \in Damaged(file) :
            file' = altered \/ file' = [altered EXCEPT !.checksum = Contents(altered)]
    BY <1>8 DEF Damage
  <2>4. TypedFile(file')
    BY <2>2, <2>3, DamagedIsTyped
  <2>5. QED
    BY <2>1, <2>2, <2>4 DEF FileInv
<1>9. CASE Load
  <2>1. stage \in {"saved", "altered"} /\ stage' \in {"ready", "refused"}
        /\ UNCHANGED <<index, file>> /\ loaded' = LoadAuto(file)
    BY <1>9 DEF Load, built
  <2>2. GoodIndex(index) /\ WithinLimits(index) /\ TypedFile(file)
    BY <2>1 DEF FileInv
  <2>3. QED
    BY <2>1, <2>2 DEF FileInv
<1>10. CASE Submit
  <2>1. UNCHANGED <<index, file, loaded>> /\ stage' \in {"searching", "answered"}
    BY <1>10 DEF Submit, built
  <2>2. QED
    BY <2>1, FilesRest
<1>11. CASE SearchOne
  BY <1>11, FilesRest DEF SearchOne, built
<1>12. CASE Collect
  BY <1>12, FilesRest, Zenon DEF Collect, built
<1>13. CASE UNCHANGED vars
  BY <1>13, FilesRest DEF vars
<1>14. QED
  BY <1>1, <1>2, <1>3, <1>4, <1>5, <1>6, <1>7, <1>8, <1>9, <1>10, <1>11, <1>12, <1>13 DEF Next

\* What the files of a run can be loaded as.
LEMMA FileSafe ==
  ASSUME FileInv
  PROVE  OnlySoundFilesLoad
<1>1. ASSUME loaded # None
      PROVE  /\ loaded.accepted => SoundIndex(loaded.value)
             /\ file \in {FileV1(index), FileV2(index)} => loaded = Accepted(index)
             /\ file.version = 2 /\ file.checksum # Contents(file) => ~loaded.accepted
  <2>1. /\ GoodIndex(index) /\ WithinLimits(index) /\ TypedFile(file)
        /\ loaded = LoadAuto(file)
    BY <1>1 DEF FileInv
  <2>2. loaded.accepted =>
            SoundIndex(loaded.value) /\ (file.version = 2 => file.checksum = Contents(file))
    BY <2>1, AcceptedIsSound
  <2>3. file \in {FileV1(index), FileV2(index)} => loaded = Accepted(index)
    BY <2>1, LoadsV1, LoadsV2
  <2>4. QED
    BY <2>2, <2>3
<1>2. QED
  BY <1>1, CodecExact DEF OnlySoundFilesLoad

-----------------------------------------------------------------------------
(* The theorems *)

IInv == BuildInv /\ BatchInv /\ FileInv

\* What is kept of every document is sound while documents are scanned, and
\* what is collected of a batch is what its queries have for an answer.
THEOREM Inductive ==
  ASSUME HashesAreNumbers
  PROVE  Spec => []IInv
<1>1. Init => IInv
  <2>1. Init => BatchInv
    BY DEF Init, BatchInv
  <2>2. QED
    BY <2>1, BuildInit, FileInit DEF IInv
<1>2. IInv /\ [Next]_vars => IInv'
  BY BuildNext, BatchNext, FileNext DEF IInv
<1>3. QED
  BY <1>1, <1>2, PTL DEF Spec

\* Winnowing (winnow.rs): for all texts, all configurations and all hashes,
\* what is kept of a document are the rightmost minima of the windows of its
\* fingerprints, and the scan has selected those it has passed.
THEOREM WinnowingIsExact ==
  ASSUME HashesAreNumbers
  PROVE  Spec => []WindowsAreCovered
<1>1. IInv => WindowsAreCovered
  BY BuildSafe DEF IInv
<1>2. QED
  BY <1>1, Inductive, PTL

\* A batch (batch.rs): for all batches, in whatever order the workers take
\* the specimens, the report is what one query after another would give, and
\* its counts are right.
THEOREM BatchesAreSequential ==
  ASSUME HashesAreNumbers
  PROVE  Spec => []BatchIsSequential
<1>1. IInv => BatchIsSequential
  <2>1. ~(stage = "answered" /\ ValidBatch(batch)) => BatchIsSequential
    BY Zenon DEF BatchIsSequential
  <2>2. QED
    BY <2>1, BatchSafe DEF IInv
<1>2. QED
  BY <1>1, Inductive, PTL

\* Files (index.rs, storage_v2.rs): for all texts, all configurations and all
\* hashes, what is saved in either format loads as the index it was made of;
\* whatever the damage, what loads is sound, and carries the checksum of its
\* contents; and every number that fits a word is read as it was written.
THEOREM FilesAreSound ==
  ASSUME HashesAreNumbers
  PROVE  Spec => []OnlySoundFilesLoad
<1>1. IInv => OnlySoundFilesLoad
  BY FileSafe DEF IInv
<1>2. QED
  BY <1>1, Inductive, PTL
=============================================================================
