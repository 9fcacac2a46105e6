--------------------------- MODULE DecisionProofs ---------------------------
(***************************************************************************)
(* Proofs about Decision, for any rules, skills, limits and answers.       *)
(***************************************************************************)
EXTENDS Decision, SequenceTheorems, FiniteSetTheorems, WellFoundedInduction, TLAPS

(* Numbers: induction and recursion, for values. *)

LEMMA LeastExists ==
  ASSUME NEW S \in SUBSET Nat, S # {}
  PROVE  \E k \in S : \A m \in S : k <= m
<1> DEFINE less == OpToRel(<, Nat)
<1>1. \A x, y \in Nat : x < y => <<x, y>> \in less
  BY DEF OpToRel
<1>2. IsWellFoundedOn(less, Nat)
  BY NatLessThanWellFounded
<1> HIDE DEF less
<1>3. PICK k \in S : \A m \in S : <<m, k>> \notin less
  BY <1>2, WFMin
<1>4. ASSUME NEW m \in S PROVE k <= m
  <2>1. k \in Nat /\ m \in Nat /\ ~(m < k)
    BY <1>1, <1>3
  <2> QED
    BY <2>1
<1> QED
  BY <1>4

LEMMA Induction ==
  ASSUME NEW S, 0 \in S, \A n \in Nat : n \in S => n + 1 \in S
  PROVE  Nat \subseteq S
<1> SUFFICES ASSUME Nat \ S # {} PROVE FALSE
  OBVIOUS
<1>1. PICK k \in Nat \ S : \A m \in Nat \ S : k <= m
  BY LeastExists
<1>2. k # 0 /\ k \in Nat
  BY <1>1
<1>3. k - 1 \in Nat /\ k - 1 \in S
  BY <1>1, <1>2
<1>4. (k - 1) + 1 \in S
  BY <1>3
<1> QED
  BY <1>1, <1>2, <1>4

\* n steps, each from a value of X and its number to a value of X, and the values
\* they go through from a first one.
Steps(X, n) == [X \X (1..n) -> X]
Course(X, n, step, first) ==
  {g \in [0..n -> X] : g[0] = first /\ \A k \in 1..n : g[k] = step[<<g[k - 1], k>>]}

LEMMA Recursion ==
  ASSUME NEW X, NEW n \in Nat, NEW step \in Steps(X, n), NEW base \in X
  PROVE  Course(X, n, step, base) # {}
<1> USE DEF Steps
<1> SUFFICES \E g \in [0..n -> X] : g[0] = base /\ \A k \in 1..n : g[k] = step[<<g[k - 1], k>>]
  BY DEF Course
<1> DEFINE good(m, g) == g[0] = base /\ \A k \in 1..m : g[k] = step[<<g[k - 1], k>>]
           S == {m \in Nat : m <= n => \E g \in [0..m -> X] : good(m, g)}
<1>1. 0 \in S
  <2>1. [k \in 0..0 |-> base] \in [0..0 -> X] /\ good(0, [k \in 0..0 |-> base])
    OBVIOUS
  <2> QED
    BY <2>1
<1>2. ASSUME NEW m \in Nat, m \in S PROVE m + 1 \in S
  <2> SUFFICES ASSUME m + 1 <= n PROVE \E g \in [0..(m + 1) -> X] : good(m + 1, g)
    OBVIOUS
  <2>1. PICK g \in [0..m -> X] : good(m, g)
    BY <1>2
  <2> DEFINE h == [k \in 0..(m + 1) |-> IF k <= m THEN g[k] ELSE step[<<g[m], m + 1>>]]
  <2>2. g[m] \in X /\ m + 1 \in 1..n
    BY <2>1
  <2>3. step[<<g[m], m + 1>>] \in X
    BY <2>2
  <2>4. h \in [0..(m + 1) -> X]
    BY <2>1, <2>3
  <2>5. h[0] = base /\ \A k \in 1..m : h[k] = g[k] /\ h[k - 1] = g[k - 1]
    BY <2>1
  <2>6. h[m + 1] = step[<<h[m], m + 1>>] /\ (m + 1) - 1 = m
    BY <2>2
  <2>7. \A k \in 1..(m + 1) : h[k] = step[<<h[k - 1], k>>]
    <3> SUFFICES ASSUME NEW k \in 1..(m + 1) PROVE h[k] = step[<<h[k - 1], k>>]
      OBVIOUS
    <3>1. CASE k \in 1..m
      BY <3>1, <2>1, <2>5
    <3>2. CASE k = m + 1
      BY <3>2, <2>6
    <3> QED
      BY <3>1, <3>2
  <2> QED
    BY <2>4, <2>5, <2>7
<1> HIDE DEF good
<1>3. n \in S
  BY <1>1, <1>2, Induction
<1> QED
  BY <1>3 DEF good

-----------------------------------------------------------------------------
(* Sequences: parts of them, and sequences of sequences. *)

\* The sequence of the elements of s that stand at indices h, which run up.
Along(s, h, p) ==
  /\ DOMAIN h = 1..Len(p)
  /\ \A j \in 1..Len(p) : p[j] = s[h[j]]
  /\ \A i, j \in 1..Len(p) : i < j => h[i] < h[j]

LEMMA PickedAlong ==
  ASSUME NEW S, NEW s \in Seq(S), NEW I \in SUBSET (1..Len(s))
  PROVE  /\ Picked(s, I) \in Seq(S)
         /\ \E h \in [1..Len(Picked(s, I)) -> I] :
              Along(s, h, Picked(s, I)) /\ \A k \in I : \E j \in 1..Len(Picked(s, I)) : h[j] = k
<1> DEFINE n == Len(s)
           X == Seq(S)
           next(t, k) == IF k \in I THEN Append(t, s[k]) ELSE t
           step == [p \in X \X (1..n) |-> next(p[1], p[2])]
           law(f) == [k \in 0..n |-> IF k = 0 THEN << >>
                                     ELSE IF k \in I THEN Append(f[k - 1], s[k]) ELSE f[k - 1]]
           pick == CHOOSE f : f = law(f)
<1>0. n \in Nat /\ \A k \in 1..n : s[k] \in S
  OBVIOUS
<1>1. Picked(s, I) = pick[n]
  BY DEF Picked
<1> HIDE DEF n
<1>2. \A t \in X, k \in 1..n : next(t, k) \in X
  BY <1>0
<1> HIDE DEF next
<1>3. step \in [X \X (1..n) -> X] /\ \A t \in X, k \in 1..n : step[<<t, k>>] = next(t, k)
  BY <1>2
<1>4. << >> \in X
  OBVIOUS
<1> HIDE DEF step
<1>5. PICK g \in [0..n -> X] : g[0] = << >> /\ \A k \in 1..n : g[k] = step[<<g[k - 1], k>>]
  <2>1. step \in Steps(X, n)
    BY <1>3 DEF Steps
  <2>2. Course(X, n, step, << >>) # {}
    BY ONLY <2>1, <1>0, <1>4, Recursion
  <2> QED
    BY <2>2 DEF Course
<1>6. \A k \in 0..n : k # 0 => k \in 1..n /\ k - 1 \in 0..n
  BY <1>0
<1>7. \A k \in 1..n : g[k] = next(g[k - 1], k)
  <2>1. \A k \in 1..n : g[k - 1] \in X
    BY <1>5, <1>6
  <2> QED
    BY <2>1, <1>3, <1>5
<1>8. g = law(g)
  BY <1>5, <1>6, <1>7 DEF next
<1>9. pick = law(pick)
  BY <1>8
<1> HIDE DEF pick
<1>10. pick[0] = << >> /\ \A k \in 1..n : pick[k] = next(pick[k - 1], k)
  <2>1. 0 \in 0..n /\ \A k \in 1..n : k \in 0..n /\ k # 0
    BY <1>0
  <2> DEFINE f == law(pick)
  <2>2. f[0] = << >>
    BY <2>1
  <2>3. ASSUME NEW k \in 1..n PROVE f[k] = next(pick[k - 1], k)
    BY <2>1 DEF next
  <2> HIDE DEF f
  <2>4. pick = f
    BY <1>9 DEF f
  <2> QED
    BY <2>2, <2>3, <2>4
<1> HIDE DEF X
<1> DEFINE good(k) == /\ pick[k] \in Seq(S)
                      /\ \E h \in [1..Len(pick[k]) -> I \cap (1..k)] :
                           Along(s, h, pick[k])
                             /\ \A i \in I \cap (1..k) : \E j \in 1..Len(pick[k]) : h[j] = i
           T == {k \in Nat : k <= n => good(k)}
<1>11. 0 \in T
  <2>1. pick[0] = << >> /\ Len(<< >>) = 0
    BY <1>10
  <2> DEFINE h == [j \in 1..0 |-> 0]
  <2>2. 1..0 = {} /\ I \cap (1..0) = {} /\ DOMAIN h = 1..0
    OBVIOUS
  <2>3. h \in [1..0 -> I \cap (1..0)]
    BY <2>2
  <2> HIDE DEF h
  <2>4. Along(s, h, pick[0])
    BY <2>1, <2>2 DEF Along
  <2>6. \E x \in [1..Len(pick[0]) -> I \cap (1..0)] :
           Along(s, x, pick[0]) /\ \A i \in I \cap (1..0) : \E j \in 1..Len(pick[0]) : x[j] = i
    BY <2>1, <2>2, <2>3, <2>4
  <2>7. pick[0] \in Seq(S)
    BY <2>1
  <2>5. good(0)
    BY <2>6, <2>7, Zenon
  <2> HIDE DEF good
  <2> QED
    BY <2>5
<1>12. ASSUME NEW k \in Nat, k \in T PROVE k + 1 \in T
  <2> SUFFICES ASSUME k + 1 <= n PROVE good(k + 1)
    OBVIOUS
  <2>0. k + 1 \in 1..n /\ (k + 1) - 1 = k /\ k \in 0..n
    BY <1>0
  <2>1. pick[k] \in Seq(S)
    BY <1>12, <2>0
  <2>2. PICK h \in [1..Len(pick[k]) -> I \cap (1..k)] :
          Along(s, h, pick[k]) /\ \A i \in I \cap (1..k) : \E j \in 1..Len(pick[k]) : h[j] = i
    BY <1>12, <2>0
  <2>3. CASE k + 1 \notin I
    <3>1. pick[k + 1] = pick[k]
      BY <2>3, <2>0, <1>10 DEF next
    <3>2. I \cap (1..(k + 1)) = I \cap (1..k)
      BY <2>3, <1>0
    <3> QED
      BY <3>1, <3>2, <2>1, <2>2
  <2>4. CASE k + 1 \in I
    <3>1. pick[k + 1] = Append(pick[k], s[k + 1])
      BY <2>4, <2>0, <1>10 DEF next
    <3>2. s[k + 1] \in S
      BY <2>0, <1>0
    <3> DEFINE m == Len(pick[k])
               p == pick[k + 1]
               e == [j \in 1..(m + 1) |-> IF j <= m THEN h[j] ELSE k + 1]
    <3>3. m \in Nat /\ p \in Seq(S) /\ Len(p) = m + 1 /\ p[m + 1] = s[k + 1]
          /\ \A j \in 1..m : p[j] = pick[k][j]
      BY <2>1, <3>1, <3>2, AppendProperties
    <3>4. \A j \in 1..m : h[j] \in I /\ h[j] \in 1..k /\ pick[k][j] = s[h[j]]
      BY <2>2 DEF Along
    <3>5. \A i, j \in 1..m : i < j => h[i] < h[j]
      BY <2>2 DEF Along
    <3> HIDE DEF m, p
    <3>6. e \in [1..(m + 1) -> I \cap (1..(k + 1))]
      BY <3>3, <3>4, <2>4
    <3>7. \A j \in 1..(m + 1) : p[j] = s[e[j]]
      BY <3>3, <3>4
    <3>8. \A i, j \in 1..(m + 1) : i < j => e[i] < e[j]
      BY <3>3, <3>4, <3>5
    <3>9. ASSUME NEW i \in I \cap (1..(k + 1)) PROVE \E j \in 1..(m + 1) : e[j] = i
      <4>1. CASE i = k + 1
        <5>1. m + 1 \in 1..(m + 1) /\ e[m + 1] = k + 1
          BY <3>3
        <5> QED
          BY <4>1, <5>1
      <4>2. CASE i # k + 1
        <5>1. i \in I \cap (1..k)
          BY <4>2
        <5>2. PICK j \in 1..m : h[j] = i
          BY <5>1, <2>2 DEF m
        <5>3. j \in 1..(m + 1) /\ e[j] = i
          BY <5>2, <3>3
        <5> QED
          BY <5>3
      <4> QED
        BY <4>1, <4>2
    <3>10. Along(s, e, p)
      BY <3>3, <3>7, <3>8 DEF Along
    <3> HIDE DEF e
    <3>11. \E x \in [1..Len(p) -> I \cap (1..(k + 1))] :
             Along(s, x, p) /\ \A i \in I \cap (1..(k + 1)) : \E j \in 1..Len(p) : x[j] = i
      <4>1. Len(p) = m + 1
        BY <3>3
      <4>2. /\ e \in [1..Len(p) -> I \cap (1..(k + 1))]
            /\ \A i \in I \cap (1..(k + 1)) : \E j \in 1..Len(p) : e[j] = i
        BY ONLY <4>1, <3>6, <3>9
      <4> QED
        BY ONLY <4>2, <3>10
    <3> QED
      BY <3>3, <3>11 DEF p
  <2> QED
    BY <2>3, <2>4
<1> HIDE DEF good
<1>13. n \in T
  BY <1>0, <1>11, <1>12, Induction
<1>14. good(n)
  BY <1>13, <1>0
<1>15. I \cap (1..n) = I
  BY DEF n
<1> QED
  BY <1>14, <1>15, <1>1 DEF good

LEMMA UpTo ==
  ASSUME NEW n \in Nat, NEW T, 0 \in T, \A k \in 1..n : k - 1 \in T => k \in T
  PROVE  \A k \in 0..n : k \in T
<1> DEFINE S == {k \in Nat : k <= n => k \in T}
<1>1. 0 \in S
  OBVIOUS
<1>2. ASSUME NEW k \in Nat, k \in S PROVE k + 1 \in S
  <2> SUFFICES ASSUME k + 1 <= n PROVE k + 1 \in T
    OBVIOUS
  <2>1. k + 1 \in 1..n /\ (k + 1) - 1 = k /\ k \in T
    BY <1>2
  <2> QED
    BY <2>1
<1> HIDE DEF S
<1>3. Nat \subseteq S
  BY <1>1, <1>2, Induction
<1> QED
  BY <1>3 DEF S

LEMMA Listing ==
  ASSUME NEW s, Sequence(s)
  PROVE  /\ Len(s) \in Nat /\ DOMAIN s = 1..Len(s)
         /\ \A i \in 1..Len(s) : s[i] \in ToSet(s)
  BY DEF Sequence, ToSet

LEMMA ListingOf ==
  ASSUME NEW S, NEW s \in Seq(S)
  PROVE  /\ Sequence(s) /\ ToSet(s) \subseteq S
         /\ Len(s) \in Nat /\ DOMAIN s = 1..Len(s)
  BY DEF Sequence, ToSet

LEMMA PickedElements ==
  ASSUME NEW S, NEW s \in Seq(S), NEW I \in SUBSET (1..Len(s))
  PROVE  /\ Picked(s, I) \in Seq(S)
         /\ \A j \in 1..Len(Picked(s, I)) : \E k \in I : Picked(s, I)[j] = s[k]
         /\ \A k \in I : \E j \in 1..Len(Picked(s, I)) : Picked(s, I)[j] = s[k]
<1> DEFINE p == Picked(s, I)
<1>1. p \in Seq(S)
  BY PickedAlong
<1>2. PICK h \in [1..Len(p) -> I] :
        Along(s, h, p) /\ \A k \in I : \E j \in 1..Len(p) : h[j] = k
  BY PickedAlong
<1> HIDE DEF p
<1>3. \A j \in 1..Len(p) : h[j] \in I /\ p[j] = s[h[j]]
  BY <1>2 DEF Along
<1>4. \A j \in 1..Len(p) : \E k \in I : p[j] = s[k]
  BY <1>3
<1>5. \A k \in I : \E j \in 1..Len(p) : p[j] = s[k]
  BY <1>2, <1>3
<1> QED
  BY <1>1, <1>4, <1>5 DEF p

\* Places of s that are picked: those, each once.
LEMMA PickedPositions ==
  ASSUME NEW n \in Nat, NEW s, DOMAIN s = 1..n, NEW I \in SUBSET (1..n)
  PROVE  /\ Picked(Positions(s), I) \in Seq(I)
         /\ \A i, j \in 1..Len(Picked(Positions(s), I)) :
              Picked(Positions(s), I)[i] = Picked(Positions(s), I)[j] => i = j
         /\ \A k \in I : \E j \in 1..Len(Picked(Positions(s), I)) : Picked(Positions(s), I)[j] = k
<1> DEFINE t == Positions(s)
           p == Picked(t, I)
<1>1. t \in Seq(1..n) /\ Len(t) = n /\ \A k \in 1..n : t[k] = k
  BY DEF Positions
<1> HIDE DEF t
<1>2. p \in Seq(1..n)
  BY <1>1, PickedAlong
<1>3. PICK h \in [1..Len(p) -> I] :
        Along(t, h, p) /\ \A k \in I : \E j \in 1..Len(p) : h[j] = k
  BY <1>1, PickedAlong
<1> HIDE DEF p
<1>4. Len(p) \in Nat
  BY <1>2
<1>5. \A j \in 1..Len(p) : h[j] \in I /\ p[j] = h[j]
  BY <1>3, <1>1 DEF Along
<1>6. \A i, j \in 1..Len(p) : i < j => h[i] < h[j]
  BY <1>3 DEF Along
<1>7. p \in Seq(I)
  BY <1>2, <1>5
<1>8. ASSUME NEW i \in 1..Len(p), NEW j \in 1..Len(p), p[i] = p[j] PROVE i = j
  <2>1. h[i] = h[j] /\ h[i] \in 1..n /\ h[j] \in 1..n
    BY <1>5, <1>8
  <2> QED
    BY <2>1, <1>4, <1>6
<1>9. \A k \in I : \E j \in 1..Len(p) : p[j] = k
  BY <1>3, <1>5
<1> QED
  BY <1>7, <1>8, <1>9 DEF p, t

\* FlattenSeq: a sequence of sequences, one after the other.
LEMMA Flattened ==
  ASSUME NEW S, NEW ss \in Seq(Seq(S))
  PROVE  /\ FlattenSeq(ss) \in Seq(S)
         /\ \E F \in [0..Len(ss) -> Seq(S)] :
              /\ F[0] = << >> /\ F[Len(ss)] = FlattenSeq(ss)
              /\ \A k \in 1..Len(ss) : F[k] = F[k - 1] \o ss[k]
<1> DEFINE n == Len(ss)
           X == Seq(S)
           step == [p \in X \X (1..n) |-> p[1] \o ss[p[2]]]
           law(f) == [i \in 1..n |-> IF i = 1 THEN ss[i] ELSE f[i - 1] \o ss[i]]
           flatten == CHOOSE f : f = law(f)
<1>0. n \in Nat /\ \A k \in 1..n : ss[k] \in X
  OBVIOUS
<1>1. /\ n = 0 => FlattenSeq(ss) = ss /\ ss = << >>
      /\ n # 0 => FlattenSeq(ss) = flatten[n]
  BY DEF FlattenSeq
<1> HIDE DEF n
<1>2. \A t \in X, k \in 1..n : t \o ss[k] \in X
  BY <1>0
<1>3. step \in [X \X (1..n) -> X] /\ \A t \in X, k \in 1..n : step[<<t, k>>] = t \o ss[k]
  BY <1>2
<1> HIDE DEF step
<1>4. << >> \in X
  OBVIOUS
<1>5. PICK g \in [0..n -> X] : g[0] = << >> /\ \A k \in 1..n : g[k] = step[<<g[k - 1], k>>]
  <2>1. step \in Steps(X, n)
    BY <1>3 DEF Steps
  <2>2. Course(X, n, step, << >>) # {}
    BY ONLY <2>1, <1>0, <1>4, Recursion
  <2> QED
    BY <2>2 DEF Course
<1>6. \A k \in 1..n : k \in 0..n /\ k - 1 \in 0..n
  BY <1>0
<1>7. \A k \in 1..n : g[k] = g[k - 1] \o ss[k] /\ g[k - 1] \in X
  BY <1>3, <1>5, <1>6
<1>8. n # 0 => g[1] = ss[1]
  <2> HAVE n # 0
  <2>1. 1 \in 1..n /\ 1 - 1 = 0
    BY <1>0
  <2>2. g[1] = << >> \o ss[1] /\ ss[1] \in Seq(S)
    BY <2>1, <1>0, <1>5, <1>7
  <2> QED
    BY <2>2, ConcatEmptySeq
<1>9. [k \in 1..n |-> g[k]] = law([k \in 1..n |-> g[k]])
  <2> SUFFICES ASSUME NEW k \in 1..n
               PROVE  g[k] = IF k = 1 THEN ss[k] ELSE [i \in 1..n |-> g[i]][k - 1] \o ss[k]
    OBVIOUS
  <2>1. CASE k = 1
    BY <2>1, <1>8, <1>0
  <2>2. CASE k # 1
    <3>1. k - 1 \in 1..n
      BY <2>2, <1>0
    <3> QED
      BY <2>2, <3>1, <1>7
  <2> QED
    BY <2>1, <2>2
<1>10. flatten = law(flatten)
  BY <1>9
<1> HIDE DEF flatten
<1>11. \A k \in 1..n : flatten[k] = IF k = 1 THEN ss[k] ELSE flatten[k - 1] \o ss[k]
  <2> DEFINE f == law(flatten)
  <2>1. \A k \in 1..n : f[k] = IF k = 1 THEN ss[k] ELSE flatten[k - 1] \o ss[k]
    OBVIOUS
  <2> HIDE DEF f
  <2>2. flatten = f
    BY <1>10 DEF f
  <2> QED
    BY <2>1, <2>2
<1> HIDE DEF X
<1> DEFINE T == {k \in Nat : k # 0 => flatten[k] = g[k]}
<1>12. \A k \in 1..n : k - 1 \in T => k \in T
  <2> SUFFICES ASSUME NEW k \in 1..n, k - 1 \in T PROVE flatten[k] = g[k]
    BY <1>0
  <2>1. CASE k = 1
    BY <2>1, <1>0, <1>8, <1>11
  <2>2. CASE k # 1
    <3>1. flatten[k - 1] = g[k - 1]
      BY <2>2, <1>0
    <3>2. flatten[k] = flatten[k - 1] \o ss[k]
      BY <2>2, <1>11
    <3> QED
      BY <3>1, <3>2, <1>7
  <2> QED
    BY <2>1, <2>2
<1>13. 0 \in T
  OBVIOUS
<1> HIDE DEF T
<1>14. \A k \in 0..n : k \in T
  BY ONLY <1>0, <1>12, <1>13, UpTo
<1>15. g[n] = FlattenSeq(ss)
  BY <1>0, <1>1, <1>5, <1>14 DEF T
<1>16. g[n] \in Seq(S) /\ g \in [0..n -> Seq(S)]
  BY <1>0, <1>5 DEF X
<1>17. \E F \in [0..n -> Seq(S)] :
         /\ F[0] = << >> /\ F[n] = FlattenSeq(ss)
         /\ \A k \in 1..n : F[k] = F[k - 1] \o ss[k]
  BY <1>5, <1>7, <1>15, <1>16
<1> QED
  BY <1>15, <1>16, <1>17 DEF n

LEMMA FlattenedElements ==
  ASSUME NEW S, NEW ss \in Seq(Seq(S))
  PROVE  /\ FlattenSeq(ss) \in Seq(S)
         /\ \A j \in 1..Len(FlattenSeq(ss)) :
              \E k \in 1..Len(ss) : \E i \in 1..Len(ss[k]) : FlattenSeq(ss)[j] = ss[k][i]
         /\ \A k \in 1..Len(ss) : \A i \in 1..Len(ss[k]) :
              \E j \in 1..Len(FlattenSeq(ss)) : FlattenSeq(ss)[j] = ss[k][i]
<1> DEFINE n == Len(ss)
<1>0. n \in Nat /\ \A k \in 1..n : ss[k] \in Seq(S) /\ Len(ss[k]) \in Nat
  OBVIOUS
<1>1. PICK F \in [0..n -> Seq(S)] :
        /\ F[0] = << >> /\ F[n] = FlattenSeq(ss)
        /\ \A k \in 1..n : F[k] = F[k - 1] \o ss[k]
  BY Flattened
<1> HIDE DEF n
<1> DEFINE good(m) ==
             /\ \A j \in 1..Len(F[m]) : \E k \in 1..m : \E i \in 1..Len(ss[k]) : F[m][j] = ss[k][i]
             /\ \A k \in 1..m : \A i \in 1..Len(ss[k]) : \E j \in 1..Len(F[m]) : F[m][j] = ss[k][i]
           T == {m \in Nat : good(m)}
<1>2. 0 \in T
  BY <1>1
<1>3. ASSUME NEW m \in 1..n, m - 1 \in T PROVE m \in T
  <2>1. m \in Nat /\ m - 1 \in 0..n /\ F[m - 1] \in Seq(S) /\ ss[m] \in Seq(S)
    BY <1>0, <1>1
  <2> DEFINE a == F[m - 1]
             b == ss[m]
  <2>2. F[m] = a \o b /\ Len(a) \in Nat /\ Len(b) \in Nat /\ a \in Seq(S) /\ b \in Seq(S)
    <3>1. F[m] = a \o b
      BY <1>1
    <3>2. Len(a) \in Nat /\ Len(b) \in Nat /\ a \in Seq(S) /\ b \in Seq(S)
      BY <2>1
    <3> QED
      BY <3>1, <3>2
  <2>3. /\ \A j \in 1..Len(a) : \E k \in 1..(m - 1) : \E i \in 1..Len(ss[k]) : a[j] = ss[k][i]
        /\ \A k \in 1..(m - 1) : \A i \in 1..Len(ss[k]) : \E j \in 1..Len(a) : a[j] = ss[k][i]
    BY <1>3
  <2> HIDE DEF a
  <2>4. /\ Len(F[m]) = Len(a) + Len(b)
        /\ \A j \in 1..Len(a) : F[m][j] = a[j]
        /\ \A j \in 1..Len(b) : F[m][Len(a) + j] = b[j]
    BY <2>2
  <2>5. ASSUME NEW j \in 1..Len(F[m]) PROVE \E k \in 1..m : \E i \in 1..Len(ss[k]) : F[m][j] = ss[k][i]
    <3>1. CASE j \in 1..Len(a)
      <4>1. PICK k \in 1..(m - 1) : \E i \in 1..Len(ss[k]) : a[j] = ss[k][i]
        BY <3>1, <2>3
      <4>2. k \in 1..m /\ F[m][j] = a[j]
        BY <3>1, <2>4, <2>1
      <4> QED
        BY <4>1, <4>2
    <3>2. CASE j \notin 1..Len(a)
      <4> HIDE DEF b
      <4>1. j - Len(a) \in 1..Len(b) /\ Len(a) + (j - Len(a)) = j
        BY <3>2, <2>2, <2>4
      <4>2. F[m][j] = b[j - Len(a)] /\ m \in 1..m
        BY <4>1, <2>4, <2>1
      <4> QED
        BY <4>1, <4>2 DEF b
    <3> QED
      BY <3>1, <3>2
  <2>6. ASSUME NEW k \in 1..m, NEW i \in 1..Len(ss[k])
        PROVE  \E j \in 1..Len(F[m]) : F[m][j] = ss[k][i]
    <3>1. CASE k = m
      <4>1. i \in 1..Len(b) /\ Len(a) + i \in 1..Len(F[m]) /\ F[m][Len(a) + i] = b[i]
        BY <3>1, <2>2, <2>4
      <4> QED
        BY <4>1, <3>1
    <3>2. CASE k # m
      <4>1. k \in 1..(m - 1)
        BY <3>2, <2>1
      <4>2. PICK j \in 1..Len(a) : a[j] = ss[k][i]
        BY <4>1, <2>3
      <4>3. j \in 1..Len(F[m]) /\ F[m][j] = a[j]
        BY <4>2, <2>2, <2>4
      <4> QED
        BY <4>2, <4>3
    <3> QED
      BY <3>1, <3>2
  <2> QED
    BY <2>1, <2>5, <2>6
<1> HIDE DEF good
<1>4. \A k \in 0..n : k \in T
  BY ONLY <1>0, <1>2, <1>3, UpTo
<1>5. good(n)
  BY <1>4, <1>0
<1>6. FlattenSeq(ss) \in Seq(S)
  BY Flattened
<1> QED
  BY <1>1, <1>5, <1>6 DEF good, n

\* SetToSeq: every element of a finite set once.
LEMMA Listed ==
  ASSUME NEW F, IsFiniteSet(F)
  PROVE  /\ SetToSeq(F) \in Seq(F)
         /\ \A i, j \in 1..Len(SetToSeq(F)) : SetToSeq(F)[i] = SetToSeq(F)[j] => i = j
         /\ \A x \in F : \E i \in 1..Len(SetToSeq(F)) : SetToSeq(F)[i] = x
<1> DEFINE C == Cardinality(F)
           s == SetToSeq(F)
<1>1. C \in Nat /\ ExistsBijection(1..C, F)
  BY FS_CardinalityType
<1>2. \E f \in [1..C -> F] : IsInjective(f)
  BY <1>1 DEF ExistsBijection, Bijection, Injection
<1>3. s \in [1..C -> F] /\ IsInjective(s)
  BY <1>2 DEF SetToSeq
<1> HIDE DEF s
<1>4. s \in Injection(1..C, F)
  BY <1>3 DEF Injection
<1>5. Cardinality(1..C) = C
  BY <1>1, FS_Interval
<1>6. s \in Surjection(1..C, F)
  BY <1>4, <1>5, FS_Injection
<1>7. \A x \in F : \E i \in 1..C : s[i] = x
  BY <1>6 DEF Surjection
<1>8. s \in Seq(F) /\ Len(s) = C
  BY <1>1, <1>3
<1>9. \A i, j \in 1..C : s[i] = s[j] => i = j
  BY <1>3 DEF IsInjective
<1> QED
  BY <1>7, <1>8, <1>9 DEF s

-----------------------------------------------------------------------------
(* The rules a load leaves. *)

Fields == {"id", "layer", "category", "severity", "enabled", "interrupt", "judge", "decision",
           "scope", "usages"}

\* What the layer relies on in a rule and in its table.
SoundTable(d) ==
  /\ IsFiniteSet(DOMAIN d.questions)
  /\ \A n \in DOMAIN d.questions :
       d.questions[n].subject \in Subjects /\ d.questions[n].chars \in Nat
  /\ DOMAIN d.outcome.severity \subseteq Severities /\ OptionLists(d.outcome)

Sound(r) ==
  /\ Fields \subseteq DOMAIN r
  /\ r.severity \in Severities
  /\ r.judge.downgrade \in BOOLEAN /\ r.judge.floor \in Floors
  /\ \A d \in r.decision : SoundTable(d)

LEMMA UsageRows ==
  ASSUME NEW confirm, Sequence(confirm), NEW severity
  PROVE  OptionLists(UsageOutcome(confirm, severity))
<1> DEFINE o == UsageOutcome(confirm, severity)
           lists(row) == \A n \in DOMAIN row : Sequence(row[n])
<1>1. /\ o.confirm = <<[n \in {Usage} |-> confirm]>>
      /\ o.dismiss = <<[n \in {Usage} |-> <<"citation", "documentation">>]>>
      /\ o.misfire = << >>
      /\ \A s \in DOMAIN o.severity : o.severity[s] = <<[n \in {Usage} |-> <<"user-action">>]>>
  BY DEF UsageOutcome
<1>2. Sequence(<<"citation", "documentation">>) /\ Sequence(<<"user-action">>)
  <2>1. \A x, y : <<x, y>> \in Seq(ToSet(<<x, y>>)) /\ <<x>> \in Seq(ToSet(<<x>>))
    BY DEF ToSet
  <2> QED
    BY <2>1 DEF Sequence
<1> HIDE DEF o
<1>3. \A i \in DOMAIN o.confirm : lists(o.confirm[i])
  BY <1>1
<1>4. \A i \in DOMAIN o.dismiss : lists(o.dismiss[i])
  BY <1>1, <1>2
<1>5. \A i \in DOMAIN o.misfire : lists(o.misfire[i])
  BY <1>1
<1>6. \A s \in DOMAIN o.severity : \A i \in DOMAIN o.severity[s] : lists(o.severity[s][i])
  BY <1>1, <1>2
<1> HIDE DEF lists
<1>7. \A kind, rows : (\A i \in DOMAIN rows : lists(rows[i])) =>
                       \A a \in Kinded(kind, rows) : lists(a.row)
  BY DEF Kinded
<1>8. \A a \in Rows(o) : lists(a.row)
  BY <1>3, <1>4, <1>5, <1>6, <1>7 DEF Rows
<1> QED
  BY <1>8 DEF OptionLists, lists, o

LEMMA CompiledRule ==
  ASSUME NEW r, RuleFile(r), Compiles(r)
  PROVE  Sound(Compile(r))
<1> DEFINE w == WithDecision(r)
           c == Compile(r)
           solve(d) == [d EXCEPT !.questions = [n \in DOMAIN @ |-> Resolve1(@[n])]]
           own == DecisionOf(r)
<1>1. Fields \subseteq DOMAIN r
  BY DEF RuleFile, Fields
<1>2. /\ DOMAIN w = DOMAIN r
      /\ w.decision = {solve(d) : d \in own}
      /\ w.severity = r.severity /\ w.judge = r.judge
  BY <1>1 DEF WithDecision, Fields
<1> HIDE DEF w, solve
<1>3. c = [w EXCEPT !.scope = IF @ = "none" THEN "any" ELSE @]
  BY DEF Compile, w
<1> HIDE DEF c
<1>4. /\ DOMAIN c = DOMAIN r
      /\ c.decision = w.decision
      /\ c.severity = r.severity /\ c.judge = r.judge
  BY <1>1, <1>2, <1>3 DEF Fields
<1>5. Valid(w) /\ \A d \in own : \A n \in DOMAIN d.questions : Resolves(d.questions[n])
  BY DEF Compiles, Decides, w
<1>6. /\ w.severity \in Severities /\ w.judge.floor \in Floors
      /\ \A d \in w.decision : ValidDecision(d, w.severity)
  BY <1>5 DEF Valid
<1>7. r.judge.downgrade \in BOOLEAN
  BY DEF RuleFile
<1>8. ASSUME NEW d \in own
      PROVE  /\ DOMAIN d = {"questions", "outcome"}
             /\ IsFiniteSet(DOMAIN d.questions)
             /\ DOMAIN d.outcome.severity \subseteq Nat /\ OptionLists(d.outcome)
             /\ \A n \in DOMAIN d.questions :
                  /\ {"subject", "text", "options", "focus", "chars"} \subseteq DOMAIN d.questions[n]
                  /\ d.questions[n].chars \in Nat
  <2>1. CASE r.usages # << >>
    <3>1. d = Usages(r.usages, r.severity)
      BY <2>1 DEF DecisionOf
    <3>2. DOMAIN d.questions = {Usage} /\ DOMAIN d = {"questions", "outcome"}
      BY <3>1 DEF Usages
    <3>3. d.outcome.severity
            = [s \in {n \in {2} : n < r.severity} |-> <<[n \in {Usage} |-> <<"user-action">>]>>]
      BY <3>1 DEF Usages, UsageOutcome
    <3>4. DOMAIN d.outcome.severity \subseteq Nat
      BY <3>3
    <3>7. OptionLists(d.outcome)
      <4>1. Sequence(r.usages)
        BY DEF RuleFile
      <4>2. d.outcome = UsageOutcome(r.usages, r.severity)
        BY <3>1 DEF Usages
      <4> QED
        BY <4>1, <4>2, UsageRows
    <3>5. IsFiniteSet({Usage})
      BY FS_Singleton
    <3>6. \A n \in DOMAIN d.questions :
            /\ {"subject", "text", "options", "focus", "chars"} \subseteq DOMAIN d.questions[n]
            /\ d.questions[n].chars \in Nat
      BY <3>1 DEF Usages
    <3> QED
      BY <3>2, <3>4, <3>5, <3>6, <3>7
  <2>2. CASE r.usages = << >>
    <3>1. d \in r.decision
      BY <2>2 DEF DecisionOf
    <3> QED
      BY <3>1 DEF RuleFile
  <2> QED
    BY <2>1, <2>2
<1>9. ASSUME NEW e \in w.decision PROVE SoundTable(e)
  <2>1. PICK d \in own : e = solve(d)
    BY <1>9, <1>2
  <2> HIDE DEF own
  <2>2. DOMAIN e.questions = DOMAIN d.questions /\ e.outcome = d.outcome
    BY <2>1, <1>8 DEF solve
  <2>3. ValidDecision(e, w.severity)
    BY <1>6
  <2>4. \A n \in DOMAIN e.questions : e.questions[n].subject \in Subjects
    BY <2>3 DEF ValidDecision, ValidQuestion
  <2>5. \A s \in DOMAIN e.outcome.severity : s # 0 /\ s < w.severity
    BY <2>3 DEF ValidDecision, ValidOutcome, LevelsBelow
  <2>6. DOMAIN e.outcome.severity \subseteq Nat
    BY <2>2, <1>8
  <2>7. DOMAIN e.outcome.severity \subseteq Severities
    BY <2>5, <2>6, <1>6 DEF Severities
  <2>8. IsFiniteSet(DOMAIN e.questions)
    BY <2>2, <1>8
  <2>9. ASSUME NEW n \in DOMAIN e.questions PROVE e.questions[n].chars \in Nat
    <3>1. e.questions[n] = Resolve1(d.questions[n]) /\ n \in DOMAIN d.questions
      BY <2>1, <2>2, <1>8 DEF solve
    <3>2. /\ {"subject", "text", "options", "focus", "chars"} \subseteq DOMAIN d.questions[n]
          /\ d.questions[n].chars \in Nat
      BY <3>1, <1>8
    <3>3. Resolve1(d.questions[n]).chars = d.questions[n].chars
      BY <3>2 DEF Resolve1
    <3> QED
      BY <3>1, <3>2, <3>3
  <2>10. OptionLists(e.outcome)
    BY <2>2, <1>8
  <2> QED
    BY <2>4, <2>7, <2>8, <2>9, <2>10 DEF SoundTable
<1> HIDE DEF own
<1>10. Sound(c)
  BY <1>1, <1>2, <1>4, <1>6, <1>7, <1>9 DEF Sound
<1> QED
  BY <1>10 DEF c

\* Merge keeps what is compiled compiled, in any order of files.
LEMMA MergedRules ==
  ASSUME NEW c, CaseOK(c), Readable(c.files)
  PROVE  /\ Sequence(Merged(c.files))
         /\ \A i \in 1..Len(Merged(c.files)) : Sound(Merged(c.files)[i])
<1> DEFINE files == c.files
           R == UNION {ToSet(files[i].rules) : i \in 1..Len(files)}
           ss == [i \in DOMAIN files |-> files[i].rules]
           all == FlattenSeq(ss)
<1>1. Len(files) \in Nat /\ DOMAIN files = 1..Len(files)
  BY Listing DEF CaseOK
<1>2. ASSUME NEW i \in 1..Len(files)
      PROVE  /\ files[i].rules \in Seq(ToSet(files[i].rules))
             /\ \A r \in ToSet(files[i].rules) : RuleFile(r) /\ Compiles(r)
  <2>1. Sequence(files[i].rules) /\ \A r \in ToSet(files[i].rules) : RuleFile(r)
    BY <1>1 DEF CaseOK
  <2>2. \A j \in DOMAIN files[i].rules : Compiles(files[i].rules[j])
    BY <1>1 DEF Readable
  <2> QED
    BY <2>1, <2>2 DEF Sequence, ToSet
<1> HIDE DEF files
<1>3. \A i \in 1..Len(files) : files[i].rules \in Seq(R)
  <2> SUFFICES ASSUME NEW i \in 1..Len(files) PROVE files[i].rules \in Seq(R)
    OBVIOUS
  <2>1. ToSet(files[i].rules) \subseteq R
    OBVIOUS
  <2> QED
    BY <2>1, <1>2
<1>4. \A r \in R : RuleFile(r) /\ Compiles(r)
  BY <1>2
<1> HIDE DEF R
<1>5. ss \in Seq(Seq(R))
  BY <1>1, <1>3
<1> HIDE DEF ss
<1>6. all \in Seq(R)
  BY <1>5, Flattened
<1> HIDE DEF all
<1> DEFINE n == Len(all)
           P == {Compile(r) : r \in R}
           X == Seq(P)
           step == [p \in X \X (1..n) |-> Merge(p[1], all[p[2]])]
           law(f) == [k \in 0..n |-> IF k = 0 THEN << >> ELSE Merge(f[k - 1], all[k])]
           merged == CHOOSE f : f = law(f)
<1>7. n \in Nat /\ \A k \in 1..n : all[k] \in R
  BY <1>6
<1>8. Merged(files) = merged[n]
  BY DEF Merged, all, ss
<1> HIDE DEF n
<1>9. ASSUME NEW t \in X, NEW k \in 1..n PROVE Merge(t, all[k]) \in X
  <2> DEFINE e == Compile(all[k])
  <2>1. e \in P
    BY <1>7
  <2> HIDE DEF e, P
  <2>2. /\ Merge(t, all[k]) = IF e.id \in IdsOf(t)
                              THEN [i \in DOMAIN t |-> IF t[i].id = e.id THEN e ELSE t[i]]
                              ELSE Append(t, e)
    BY DEF Merge, e
  <2>3. Append(t, e) \in Seq(P)
    BY <2>1
  <2>4. Len(t) \in Nat /\ DOMAIN t = 1..Len(t) /\ \A i \in 1..Len(t) : t[i] \in P
    OBVIOUS
  <2>5. [i \in DOMAIN t |-> IF t[i].id = e.id THEN e ELSE t[i]] \in Seq(P)
    BY <2>1, <2>4
  <2> QED
    BY <2>2, <2>3, <2>5
<1> HIDE DEF P
<1>10. step \in [X \X (1..n) -> X] /\ \A t \in X, k \in 1..n : step[<<t, k>>] = Merge(t, all[k])
  BY <1>9
<1> HIDE DEF step
<1>11. << >> \in X
  OBVIOUS
<1>12. PICK g \in [0..n -> X] : g[0] = << >> /\ \A k \in 1..n : g[k] = step[<<g[k - 1], k>>]
  <2>1. step \in Steps(X, n)
    BY <1>10 DEF Steps
  <2>2. Course(X, n, step, << >>) # {}
    BY ONLY <2>1, <1>7, <1>11, Recursion
  <2> QED
    BY <2>2 DEF Course
<1>13. \A k \in 1..n : k \in 0..n /\ k - 1 \in 0..n
  BY <1>7
<1>14. \A k \in 1..n : g[k] = Merge(g[k - 1], all[k])
  BY <1>10, <1>12, <1>13
<1>15. g = law(g)
  BY <1>7, <1>12, <1>14
<1>16. merged = law(merged)
  BY <1>15
<1> HIDE DEF merged
<1>17. merged[0] = << >> /\ \A k \in 1..n : merged[k] = Merge(merged[k - 1], all[k])
  <2>1. 0 \in 0..n /\ \A k \in 1..n : k \in 0..n /\ k # 0
    BY <1>7
  <2> DEFINE f == law(merged)
  <2>2. f[0] = << >> /\ \A k \in 1..n : f[k] = Merge(merged[k - 1], all[k])
    BY <2>1
  <2> HIDE DEF f
  <2>3. merged = f
    BY <1>16 DEF f
  <2> QED
    BY <2>2, <2>3
<1> DEFINE T == {k \in Nat : merged[k] \in X}
<1>18. ASSUME NEW k \in 1..n, k - 1 \in T PROVE k \in T
  <2>1. merged[k - 1] \in X /\ k \in Nat
    BY <1>7, <1>18
  <2>2. Merge(merged[k - 1], all[k]) \in X
    BY <2>1, <1>9
  <2> QED
    BY <2>1, <2>2, <1>17
<1>19. 0 \in T
  BY <1>11, <1>17
<1> HIDE DEF T
<1>20. \A k \in 0..n : k \in T
  BY ONLY <1>7, <1>18, <1>19, UpTo
<1>21. merged[n] \in Seq(P)
  BY <1>20, <1>7 DEF T
<1>22. \A x \in P : Sound(x)
  BY <1>4, CompiledRule DEF P
<1>23. /\ Sequence(merged[n])
       /\ \A i \in 1..Len(merged[n]) : Sound(merged[n][i])
  BY <1>21, <1>22, ListingOf
<1> QED
  BY <1>8, <1>23 DEF files

LEMMA OverriddenRule ==
  ASSUME NEW r, Sound(r), NEW s, SettingFile(s)
  PROVE  Sound(Override(r, s)) /\ Override(r, s).id = r.id
<1> DEFINE o == Override(r, s)
<1>1. /\ DOMAIN o = DOMAIN r /\ o.id = r.id /\ o.decision = r.decision
      /\ o.severity = Set1(s.severity, r.severity)
      /\ o.judge = [downgrade |-> Set1(s.downgrade, r.judge.downgrade),
                    floor |-> Set1(s.floor, r.judge.floor)]
  BY DEF Override, Sound, Fields
<1> HIDE DEF o
<1>2. /\ s.severity \subseteq Severities /\ s.floor \subseteq Floors /\ s.downgrade \subseteq BOOLEAN
  BY DEF SettingFile
<1>3. ASSUME NEW S, NEW v \in SUBSET S, NEW own \in S PROVE Set1(v, own) \in S
  BY <1>3 DEF Set1
<1>4. o.severity \in Severities
  BY <1>1, <1>2, <1>3 DEF Sound
<1>5. o.judge.downgrade \in BOOLEAN /\ o.judge.floor \in Floors
  <2>1. Set1(s.downgrade, r.judge.downgrade) \in BOOLEAN
    BY <1>2, <1>3 DEF Sound
  <2>2. Set1(s.floor, r.judge.floor) \in Floors
    BY <1>2, <1>3 DEF Sound
  <2> QED
    BY <1>1, <2>1, <2>2
<1>6. Sound(o)
  BY <1>1, <1>4, <1>5 DEF Sound
<1> QED
  BY <1>1, <1>6 DEF o

\* rules.Load: every rule of the set has passed its checks.
LEMMA LoadedRules ==
  ASSUME NEW c \in Cases, Loads(c.files, c.byLayer)
  PROVE  \A id \in DOMAIN Load(c.files, c.byLayer).byID :
           /\ Sound(Load(c.files, c.byLayer).byID[id])
           /\ Load(c.files, c.byLayer).byID[id].id = id
<1> DEFINE rs == Merged(c.files)
           as == Applied(rs, c.byLayer)
           byID == Load(c.files, c.byLayer).byID
<1>1. CaseOK(c)
  BY DecisionAssumption
<1>2. Sequence(rs) /\ \A i \in 1..Len(rs) : Sound(rs[i])
  BY <1>1, MergedRules DEF Loads
<1>3. \A i \in DOMAIN rs : rs[i].layer \in DOMAIN c.byLayer
  BY DEF Loads, Applicable
<1>4. byID = [id \in IdsOf(as) |-> CHOOSE r \in ToSet(as) : r.id = id]
  BY DEF Load, RuleSet
<1> HIDE DEF rs, byID
<1>5. DOMAIN rs = 1..Len(rs)
  BY <1>2, Listing
<1>6. ASSUME NEW i \in DOMAIN rs PROVE Sound(as[i])
  <2>1. as[i] = IF rs[i].id \in DOMAIN c.byLayer[rs[i].layer]
                THEN Override(rs[i], c.byLayer[rs[i].layer][rs[i].id]) ELSE rs[i]
    BY DEF Applied
  <2>2. Sound(rs[i])
    BY <1>2, <1>5
  <2>3. rs[i].id \in DOMAIN c.byLayer[rs[i].layer]
          => SettingFile(c.byLayer[rs[i].layer][rs[i].id])
    BY <1>1, <1>3 DEF CaseOK
  <2> QED
    BY <2>1, <2>2, <2>3, OverriddenRule
<1>7. DOMAIN as = DOMAIN rs
  BY DEF Applied
<1> HIDE DEF as
<1>8. \A r \in ToSet(as) : Sound(r)
  BY <1>6, <1>7 DEF ToSet
<1>9. \A id \in IdsOf(as) : \E r \in ToSet(as) : r.id = id
  BY DEF IdsOf, ToSet
<1>10. \A id \in DOMAIN byID : Sound(byID[id]) /\ byID[id].id = id
  BY <1>4, <1>8, <1>9
<1> QED
  BY <1>10 DEF byID

-----------------------------------------------------------------------------
(* Listings: sequences of whatever they hold. *)

LEMMA Joining ==
  ASSUME NEW a, NEW b, Sequence(a), Sequence(b)
  PROVE  /\ Sequence(a \o b) /\ Len(a \o b) = Len(a) + Len(b)
         /\ \A i \in 1..Len(a) : (a \o b)[i] = a[i]
         /\ \A j \in 1..Len(b) : (a \o b)[Len(a) + j] = b[j]
         /\ \A i \in 1..(Len(a) + Len(b)) :
              i \in 1..Len(a) \/ \E j \in 1..Len(b) : i = Len(a) + j
<1> DEFINE S == ToSet(a) \cup ToSet(b)
<1>1. a \in Seq(S) /\ b \in Seq(S)
  BY DEF Sequence
<1> HIDE DEF S
<1>2. a \o b \in Seq(S) /\ Len(a \o b) = Len(a) + Len(b) /\ Len(a) \in Nat /\ Len(b) \in Nat
  BY <1>1
<1>3. \A i \in 1..Len(a) + Len(b) : (a \o b)[i] = IF i <= Len(a) THEN a[i] ELSE b[i - Len(a)]
  BY <1>1, ConcatProperties
<1>4. \A i \in 1..Len(a) : (a \o b)[i] = a[i]
  BY <1>2, <1>3
<1>5. ASSUME NEW j \in 1..Len(b) PROVE (a \o b)[Len(a) + j] = b[j]
  <2>1. Len(a) + j \in 1..Len(a) + Len(b) /\ ~(Len(a) + j <= Len(a)) /\ (Len(a) + j) - Len(a) = j
    BY <1>2
  <2> QED
    BY <2>1, <1>3
<1>6. ASSUME NEW i \in 1..(Len(a) + Len(b)), i \notin 1..Len(a)
      PROVE  \E j \in 1..Len(b) : i = Len(a) + j
  <2>1. i - Len(a) \in 1..Len(b) /\ i = Len(a) + (i - Len(a))
    BY <1>2, <1>6
  <2> QED
    BY <2>1
<1> QED
  BY <1>2, <1>4, <1>5, <1>6, ListingOf

LEMMA Indexed ==
  ASSUME NEW n \in Nat, NEW f, f = [k \in 1..n |-> f[k]]
  PROVE  Sequence(f) /\ Len(f) = n /\ DOMAIN f = 1..n
<1>1. DOMAIN f = 1..n
  OBVIOUS
<1>2. \A k \in 1..n : f[k] \in ToSet(f)
  BY <1>1 DEF ToSet
<1>3. [k \in 1..n |-> f[k]] \in Seq(ToSet(f))
  BY <1>2
<1>4. f \in Seq(ToSet(f))
  BY <1>3
<1> QED
  BY <1>1, <1>4 DEF Sequence

LEMMA PickedOf ==
  ASSUME NEW s, Sequence(s), NEW I \in SUBSET (1..Len(s))
  PROVE  /\ Sequence(Picked(s, I))
         /\ \A j \in 1..Len(Picked(s, I)) : \E k \in I : Picked(s, I)[j] = s[k]
         /\ \A k \in I : \E j \in 1..Len(Picked(s, I)) : Picked(s, I)[j] = s[k]
<1>1. s \in Seq(ToSet(s))
  BY DEF Sequence
<1>2. /\ Picked(s, I) \in Seq(ToSet(s))
      /\ \A j \in 1..Len(Picked(s, I)) : \E k \in I : Picked(s, I)[j] = s[k]
      /\ \A k \in I : \E j \in 1..Len(Picked(s, I)) : Picked(s, I)[j] = s[k]
  BY <1>1, PickedElements
<1> QED
  BY <1>2, ListingOf

LEMMA FlattenedOf ==
  ASSUME NEW ss, Sequence(ss), \A k \in 1..Len(ss) : Sequence(ss[k])
  PROVE  /\ Sequence(FlattenSeq(ss))
         /\ \A j \in 1..Len(FlattenSeq(ss)) :
              \E k \in 1..Len(ss) : \E i \in 1..Len(ss[k]) : FlattenSeq(ss)[j] = ss[k][i]
         /\ \A k \in 1..Len(ss) : \A i \in 1..Len(ss[k]) :
              \E j \in 1..Len(FlattenSeq(ss)) : FlattenSeq(ss)[j] = ss[k][i]
<1> DEFINE S == UNION {ToSet(ss[k]) : k \in 1..Len(ss)}
<1>1. ASSUME NEW k \in 1..Len(ss) PROVE ss[k] \in Seq(S)
  <2>1. ToSet(ss[k]) \subseteq S /\ ss[k] \in Seq(ToSet(ss[k]))
    BY DEF Sequence
  <2> QED
    BY <2>1
<1>2. Len(ss) \in Nat /\ DOMAIN ss = 1..Len(ss) /\ ss \in Seq(ToSet(ss))
  BY Listing DEF Sequence
<1> HIDE DEF S
<1>3. ss \in Seq(Seq(S))
  BY <1>1, <1>2
<1>4. /\ FlattenSeq(ss) \in Seq(S)
      /\ \A j \in 1..Len(FlattenSeq(ss)) :
           \E k \in 1..Len(ss) : \E i \in 1..Len(ss[k]) : FlattenSeq(ss)[j] = ss[k][i]
      /\ \A k \in 1..Len(ss) : \A i \in 1..Len(ss[k]) :
           \E j \in 1..Len(FlattenSeq(ss)) : FlattenSeq(ss)[j] = ss[k][i]
  BY <1>3, FlattenedElements
<1> QED
  BY <1>4, ListingOf

LEMMA ListedOf ==
  ASSUME NEW F, IsFiniteSet(F)
  PROVE  /\ Sequence(SetToSeq(F))
         /\ \A i, j \in 1..Len(SetToSeq(F)) : SetToSeq(F)[i] = SetToSeq(F)[j] => i = j
         /\ \A i \in 1..Len(SetToSeq(F)) : SetToSeq(F)[i] \in F
         /\ \A x \in F : \E i \in 1..Len(SetToSeq(F)) : SetToSeq(F)[i] = x
<1>1. /\ SetToSeq(F) \in Seq(F)
      /\ \A i, j \in 1..Len(SetToSeq(F)) : SetToSeq(F)[i] = SetToSeq(F)[j] => i = j
      /\ \A x \in F : \E i \in 1..Len(SetToSeq(F)) : SetToSeq(F)[i] = x
  BY Listed
<1>2. \A i \in 1..Len(SetToSeq(F)) : SetToSeq(F)[i] \in F
  BY <1>1
<1> QED
  BY <1>1, <1>2, ListingOf

LEMMA LeastOf ==
  ASSUME NEW n \in Nat, NEW I \in SUBSET (1..n), I # {}
  PROVE  Min(I) \in I /\ \A i \in I : Min(I) <= i
<1>1. I \in SUBSET Nat
  OBVIOUS
<1>2. \E k \in I : \A m \in I : k <= m
  BY <1>1, LeastExists
<1> QED
  BY <1>2 DEF Min

LEMMA GreatestOf ==
  ASSUME NEW n \in Nat, NEW I \in SUBSET (1..n), I # {}
  PROVE  Max(I) \in I /\ \A i \in I : i <= Max(I)
<1> DEFINE J == {n - i : i \in I}
<1>1. J \in SUBSET Nat /\ J # {}
  <2>1. \A i \in I : n - i \in Nat /\ n - i \in J
    OBVIOUS
  <2>2. PICK i \in I : TRUE
    OBVIOUS
  <2> QED
    BY <2>1, <2>2
<1>2. PICK k \in J : \A m \in J : k <= m
  BY <1>1, LeastExists
<1>3. PICK x \in I : k = n - x
  BY <1>2
<1>4. ASSUME NEW i \in I PROVE x >= i
  <2>1. n - i \in J
    OBVIOUS
  <2>2. n - x <= n - i
    BY <2>1, <1>2, <1>3
  <2> QED
    BY <2>2
<1>5. \E y \in I : \A i \in I : y >= i
  BY <1>4
<1>6. Max(I) \in I /\ \A i \in I : Max(I) >= i
  BY <1>5 DEF Max
<1> QED
  BY <1>6

-----------------------------------------------------------------------------
(* Groups. *)

GroupOK(g) ==
  /\ g = [subject |-> g.subject, questions |-> g.questions, replies |-> g.replies,
          places |-> g.places]
  /\ Sequence(g.questions) /\ Sequence(g.places)

\* h is g with more questions.
More(h, g) ==
  /\ GroupOK(h)
  /\ h.subject = g.subject /\ h.places = g.places /\ h.replies = g.replies
  /\ Len(g.questions) <= Len(h.questions)
  /\ \A i \in 1..Len(g.questions) : h.questions[i] = g.questions[i]

\* The ids of a group's questions tell them apart, and number those of one name.
OwnIds(g) ==
  /\ \A i, j \in 1..Len(g.questions) : g.questions[i].id = g.questions[j].id => i = j
  /\ \A i \in 1..Len(g.questions) :
       \E k \in 0..i : g.questions[i].id = <<g.questions[i].origin, k>>

Knows(g, name) == \E i \in 1..Len(g.questions) : Known(g.questions[i], name)

\* Every question of h that g has not asks for one of names.
AskedFor(h, g, names) ==
  \A i \in 1..Len(h.questions) :
    \/ i \in 1..Len(g.questions)
    \/ \E j \in 1..Len(names) : /\ h.questions[i].origin = names[j].name
                                /\ h.questions[i].question = names[j].question

LEMMA MoreReflexive ==
  ASSUME NEW g, GroupOK(g)
  PROVE  More(g, g)
<1>1. Sequence(g.questions)
  BY DEF GroupOK
<1>2. Len(g.questions) \in Nat
  BY <1>1, Listing
<1>3. Len(g.questions) <= Len(g.questions)
  BY <1>2
<1> QED
  BY <1>3 DEF More

LEMMA MoreTransitive ==
  ASSUME NEW a, NEW b, NEW c, GroupOK(a), GroupOK(b), More(c, b), More(b, a)
  PROVE  More(c, a)
<1>1. Len(a.questions) \in Nat /\ Len(b.questions) \in Nat /\ Len(c.questions) \in Nat
  BY Listing DEF GroupOK, More
<1>2. Len(a.questions) <= Len(c.questions)
  BY <1>1 DEF More
<1>3. \A i \in 1..Len(a.questions) : c.questions[i] = a.questions[i]
  <2> SUFFICES ASSUME NEW i \in 1..Len(a.questions) PROVE c.questions[i] = a.questions[i]
    OBVIOUS
  <2>1. i \in 1..Len(b.questions)
    BY <1>1 DEF More
  <2> QED
    BY <2>1 DEF More
<1> QED
  BY <1>2, <1>3 DEF More

LEMMA KnownStill ==
  ASSUME NEW g, NEW h, GroupOK(g), More(h, g), NEW name, Knows(g, name)
  PROVE  Knows(h, name)
<1>1. PICK i \in 1..Len(g.questions) : Known(g.questions[i], name)
  BY DEF Knows
<1>2. i \in 1..Len(h.questions) /\ h.questions[i] = g.questions[i]
  BY Listing DEF GroupOK, More
<1> QED
  BY <1>1, <1>2 DEF Knows

LEMMA WantsOne ==
  ASSUME NEW g, GroupOK(g), NEW name
  PROVE  /\ More(Want(g, name), g) /\ Knows(Want(g, name), name)
         /\ OwnIds(g) => OwnIds(Want(g, name))
         /\ \A i \in 1..Len(Want(g, name).questions) :
              \/ i \in 1..Len(g.questions)
              \/ /\ Want(g, name).questions[i].origin = name.name
                 /\ Want(g, name).questions[i].question = name.question
         /\ Knows(g, name) => Want(g, name) = g
<1> DEFINE qs == g.questions
           n == Len(qs)
           taken == \E k \in DOMAIN qs : qs[k].id = <<name.name, 0>>
           id == <<name.name, IF taken THEN n + 1 ELSE 0>>
           new == [id |-> id, origin |-> name.name, question |-> name.question]
           w == Want(g, name)
<1>1. n \in Nat /\ DOMAIN qs = 1..n /\ qs \in Seq(ToSet(qs))
  BY Listing DEF GroupOK, Sequence
<1>2. CASE \E k \in DOMAIN qs : Known(qs[k], name)
  <2>1. w = g
    BY <1>2 DEF Want
  <2>2. Knows(g, name)
    BY <1>1, <1>2 DEF Knows
  <2>3. More(g, g)
    BY MoreReflexive
  <2> HIDE DEF w
  <2> QED
    BY <2>1, <2>2, <2>3 DEF w
<1>3. CASE ~\E k \in DOMAIN qs : Known(qs[k], name)
  <2>1. w = [g EXCEPT !.questions = Append(@, new)]
    BY <1>3 DEF Want
  <2> HIDE DEF new, w
  <2>2. /\ w = [subject |-> w.subject, questions |-> w.questions, replies |-> w.replies,
                places |-> w.places]
        /\ w.questions = Append(qs, new)
        /\ w.subject = g.subject /\ w.places = g.places /\ w.replies = g.replies
    BY <2>1 DEF GroupOK
  <2> DEFINE S == ToSet(qs) \cup {new}
             ws == w.questions
  <2>3. qs \in Seq(S) /\ new \in S
    BY <1>1
  <2> HIDE DEF S, qs
  <2>4. /\ ws \in Seq(S) /\ Len(ws) = n + 1 /\ ws[n + 1] = new
        /\ \A i \in 1..n : ws[i] = qs[i]
    BY <2>2, <2>3, AppendProperties
  <2> HIDE DEF ws
  <2>5. Sequence(ws)
    BY <2>4, ListingOf
  <2>6. GroupOK(w)
    BY <2>2, <2>5 DEF GroupOK, ws
  <2>7. More(w, g)
    BY <1>1, <2>2, <2>4, <2>6 DEF More, ws, qs
  <2>8. Known(new, name)
    BY DEF Known, Same, new
  <2>9. Knows(w, name)
    <3>1. n + 1 \in 1..Len(ws)
      BY <1>1, <2>4
    <3> QED
      BY <3>1, <2>4, <2>8 DEF Knows, ws
  <2>10. ASSUME OwnIds(g) PROVE OwnIds(w)
    <3>1. /\ \A i, j \in 1..n : qs[i].id = qs[j].id => i = j
          /\ \A i \in 1..n : \E k \in 0..i : qs[i].id = <<qs[i].origin, k>>
      BY <2>10 DEF OwnIds, qs
    <3>2. new.origin = name.name /\ new.id = id
      BY DEF new
    <3>3. \A i \in 1..n : qs[i].id # id
      <4> SUFFICES ASSUME NEW i \in 1..n, qs[i].id = id PROVE FALSE
        OBVIOUS
      <4>1. PICK k \in 0..i : qs[i].id = <<qs[i].origin, k>>
        BY <3>1
      <4>2. CASE taken
        <5>1. k = n + 1
          BY <4>1, <4>2
        <5> QED
          BY <5>1, <1>1
      <4>3. CASE ~taken
        BY <4>3, <1>1
      <4> QED
        BY <4>2, <4>3
    <3> HIDE DEF taken
    <3>4. ASSUME NEW i \in 1..(n + 1), NEW j \in 1..(n + 1), ws[i].id = ws[j].id PROVE i = j
      <4>1. CASE i \in 1..n /\ j \in 1..n
        BY <4>1, <3>1, <3>4, <2>4
      <4>2. CASE i \in 1..n /\ j = n + 1
        BY <4>2, <3>2, <3>3, <3>4, <2>4
      <4>3. CASE i = n + 1 /\ j \in 1..n
        BY <4>3, <3>2, <3>3, <3>4, <2>4
      <4> QED
        BY <4>1, <4>2, <4>3, <1>1
    <3>5. ASSUME NEW i \in 1..(n + 1) PROVE \E k \in 0..i : ws[i].id = <<ws[i].origin, k>>
      <4>1. CASE i \in 1..n
        BY <4>1, <3>1, <2>4
      <4>2. CASE i = n + 1
        <5> DEFINE k == IF taken THEN n + 1 ELSE 0
        <5>1. k \in 0..i /\ ws[i].id = <<ws[i].origin, k>>
          BY <4>2, <3>2, <2>4, <1>1
        <5> QED
          BY <5>1
      <4> QED
        BY <4>1, <4>2, <1>1
    <3> QED
      BY <3>4, <3>5, <2>4 DEF OwnIds, ws
  <2>11. \A i \in 1..Len(ws) : i \in 1..n \/ (ws[i].origin = name.name /\ ws[i].question = name.question)
    BY <2>4, <1>1 DEF new
  <2>12. ~Knows(g, name)
    BY <1>1, <1>3 DEF Knows, qs
  <2> QED
    BY <2>7, <2>9, <2>10, <2>11, <2>12 DEF w, ws, qs
<1> QED
  BY <1>2, <1>3

LEMMA WantedAll ==
  ASSUME NEW g, GroupOK(g), NEW names, Sequence(names)
  PROVE  /\ More(WantAll(g, names), g)
         /\ \A j \in 1..Len(names) : Knows(WantAll(g, names), names[j])
         /\ OwnIds(g) => OwnIds(WantAll(g, names))
         /\ AskedFor(WantAll(g, names), g, names)
         /\ (\A j \in 1..Len(names) : Knows(g, names[j])) => WantAll(g, names) = g
<1> DEFINE n == Len(names)
           Q == ToSet(g.questions)
                  \cup {[id |-> <<names[p[1]].name, p[2]>>, origin |-> names[p[1]].name,
                         question |-> names[p[1]].question] : p \in (1..n) \X Nat}
           X == {[g EXCEPT !.questions = qs] : qs \in Seq(Q)}
           step == [p \in X \X (1..n) |-> Want(p[1], names[p[2]])]
           law(f) == [k \in 0..n |-> IF k = 0 THEN g ELSE Want(f[k - 1], names[k])]
           all == CHOOSE f : f = law(f)
<1>1. n \in Nat /\ DOMAIN names = 1..n
  BY Listing
<1>2. WantAll(g, names) = all[n]
  BY DEF WantAll
<1>3. /\ g = [subject |-> g.subject, questions |-> g.questions, replies |-> g.replies,
              places |-> g.places]
      /\ Sequence(g.questions)
  BY DEF GroupOK
<1> HIDE DEF n
<1>4. ASSUME NEW j \in 1..n, NEW i \in Nat
      PROVE  [id |-> <<names[j].name, i>>, origin |-> names[j].name,
              question |-> names[j].question] \in Q
  <2> DEFINE p == <<j, i>>
  <2>1. p \in (1..n) \X Nat /\ p[1] = j /\ p[2] = i
    OBVIOUS
  <2> HIDE DEF p
  <2>2. [id |-> <<names[p[1]].name, p[2]>>, origin |-> names[p[1]].name,
         question |-> names[p[1]].question] \in Q
    BY <2>1
  <2> QED
    BY <2>1, <2>2
<1>5. g.questions \in Seq(Q)
  BY <1>3 DEF Sequence
<1> HIDE DEF Q
<1>6. g \in X
  <2>1. g = [g EXCEPT !.questions = g.questions]
    BY <1>3
  <2> QED
    BY <2>1, <1>5
<1>7. ASSUME NEW h \in X, NEW k \in 1..n PROVE Want(h, names[k]) \in X
  <2>1. PICK qs \in Seq(Q) : h = [g EXCEPT !.questions = qs]
    OBVIOUS
  <2>2. h.questions = qs
    BY <2>1, <1>3
  <2> DEFINE i == IF \E m \in DOMAIN h.questions : h.questions[m].id = <<names[k].name, 0>>
                  THEN Len(h.questions) + 1 ELSE 0
             new == [id |-> <<names[k].name, i>>, origin |-> names[k].name,
                     question |-> names[k].question]
  <2>3. i \in Nat
    BY <2>1, <2>2
  <2>4. new \in Q
    BY <2>3, <1>4
  <2>5. Want(h, names[k]) = IF \E m \in DOMAIN h.questions : Known(h.questions[m], names[k]) THEN h
                            ELSE [h EXCEPT !.questions = Append(@, new)]
    BY DEF Want
  <2> HIDE DEF new
  <2>6. Append(qs, new) \in Seq(Q)
    BY <2>1, <2>4
  <2>7. [h EXCEPT !.questions = Append(@, new)] = [g EXCEPT !.questions = Append(qs, new)]
    BY <2>1, <2>2, <1>3
  <2> QED
    BY <2>5, <2>6, <2>7
<1> HIDE DEF X
<1>8. step \in [X \X (1..n) -> X] /\ \A h \in X, k \in 1..n : step[<<h, k>>] = Want(h, names[k])
  BY <1>7
<1> HIDE DEF step
<1>9. PICK f \in [0..n -> X] : f[0] = g /\ \A k \in 1..n : f[k] = step[<<f[k - 1], k>>]
  <2>1. step \in Steps(X, n)
    BY <1>8 DEF Steps
  <2>2. Course(X, n, step, g) # {}
    BY ONLY <2>1, <1>1, <1>6, Recursion
  <2> QED
    BY <2>2 DEF Course
<1>10. \A k \in 1..n : k \in 0..n /\ k - 1 \in 0..n
  BY <1>1
<1>11. \A k \in 1..n : f[k] = Want(f[k - 1], names[k])
  BY <1>8, <1>9, <1>10
<1>12. f = law(f)
  BY <1>1, <1>9, <1>11
<1>13. all = law(all)
  BY <1>12
<1> HIDE DEF all
<1>14. all[0] = g /\ \A k \in 1..n : all[k] = Want(all[k - 1], names[k])
  <2>1. 0 \in 0..n /\ \A k \in 1..n : k \in 0..n /\ k # 0
    BY <1>1
  <2> DEFINE e == law(all)
  <2>2. e[0] = g /\ \A k \in 1..n : e[k] = Want(all[k - 1], names[k])
    BY <2>1
  <2> HIDE DEF e
  <2>3. all = e
    BY <1>13 DEF e
  <2> QED
    BY <2>2, <2>3
<1> DEFINE good(k) == /\ More(all[k], g)
                      /\ \A j \in 1..k : Knows(all[k], names[j])
                      /\ OwnIds(g) => OwnIds(all[k])
                      /\ AskedFor(all[k], g, names)
                      /\ (\A j \in 1..n : Knows(g, names[j])) => all[k] = g
           T == {k \in Nat : good(k)}
<1>15. 0 \in T
  BY <1>14, MoreReflexive DEF AskedFor
<1>16. ASSUME NEW k \in 1..n, k - 1 \in T PROVE k \in T
  <2> DEFINE h == all[k - 1]
  <2>1. good(k - 1) /\ all[k] = Want(h, names[k])
    BY <1>14, <1>16
  <2> HIDE DEF h
  <2>2. More(h, g) /\ GroupOK(h)
    BY <2>1 DEF h, More
  <2>3. /\ More(all[k], h) /\ Knows(all[k], names[k])
        /\ OwnIds(h) => OwnIds(all[k])
        /\ \A i \in 1..Len(all[k].questions) :
             \/ i \in 1..Len(h.questions)
             \/ /\ all[k].questions[i].origin = names[k].name
                /\ all[k].questions[i].question = names[k].question
        /\ Knows(h, names[k]) => all[k] = h
    BY <2>1, <2>2, WantsOne
  <2>4. More(all[k], g)
    BY <2>2, <2>3, MoreTransitive
  <2>5. ASSUME NEW j \in 1..k PROVE Knows(all[k], names[j])
    <3>1. CASE j = k
      BY <3>1, <2>3
    <3>2. CASE j # k
      <4>1. j \in 1..(k - 1)
        BY <3>2, <1>1
      <4>2. Knows(h, names[j])
        BY <4>1, <2>1 DEF h
      <4> QED
        BY <4>2, <2>2, <2>3, KnownStill
    <3> QED
      BY <3>1, <3>2
  <2>6. OwnIds(g) => OwnIds(all[k])
    BY <2>1, <2>3 DEF h
  <2>7. k \in Nat
    BY <1>1
  <2>8. AskedFor(all[k], g, names)
    <3> SUFFICES ASSUME NEW i \in 1..Len(all[k].questions), i \notin 1..Len(g.questions)
                 PROVE  \E j \in 1..Len(names) : /\ all[k].questions[i].origin = names[j].name
                                                 /\ all[k].questions[i].question = names[j].question
      BY DEF AskedFor
    <3>1. CASE i \in 1..Len(h.questions)
      <4>1. all[k].questions[i] = h.questions[i]
        BY <3>1, <2>3 DEF More
      <4>2. AskedFor(h, g, names)
        BY <2>1 DEF h
      <4> QED
        BY <3>1, <4>1, <4>2 DEF AskedFor
    <3>2. CASE i \notin 1..Len(h.questions)
      <4>1. k \in 1..Len(names)
        BY DEF n
      <4> QED
        BY <4>1, <3>2, <2>3
    <3> QED
      BY <3>1, <3>2
  <2>9. ASSUME \A j \in 1..n : Knows(g, names[j]) PROVE all[k] = g
    BY <2>9, <2>1, <2>3 DEF h
  <2> QED
    BY <2>4, <2>5, <2>6, <2>7, <2>8, <2>9
<1> HIDE DEF T
<1>17. \A k \in 0..n : k \in T
  BY ONLY <1>1, <1>15, <1>16, UpTo
<1>18. good(n)
  BY <1>17, <1>1 DEF T
<1> QED
  BY <1>2, <1>18 DEF n

\* group.want returns the id of the question it stands for.
LEMMA WantedIs ==
  ASSUME NEW g, GroupOK(g), NEW name, Knows(g, name)
  PROVE  \E i \in 1..Len(g.questions) :
           Wanted(g, name) = g.questions[i].id /\ Known(g.questions[i], name)
<1> DEFINE I == {i \in 1..Len(g.questions) : Known(g.questions[i], name)}
<1>1. Len(g.questions) \in Nat /\ I # {}
  BY Listing DEF GroupOK, Knows
<1>2. Min(I) \in I
  BY <1>1, LeastOf
<1>3. Wanted(g, name) = g.questions[Min(I)].id
  BY <1>1 DEF Wanted, SelectInSeq
<1> QED
  BY <1>2, <1>3

-----------------------------------------------------------------------------
(* Sums. *)

LEMMA Summed ==
  ASSUME NEW s \in Seq(Nat)
  PROVE  /\ Sum(s) \in Nat
         /\ \E F \in [0..Len(s) -> Nat] :
              F[0] = 0 /\ F[Len(s)] = Sum(s) /\ \A k \in 1..Len(s) : F[k] = F[k - 1] + s[k]
<1> DEFINE n == Len(s)
           step == [p \in Nat \X (1..n) |-> p[1] + s[p[2]]]
           law(f) == [k \in 0..n |-> IF k = 0 THEN 0 ELSE f[k - 1] + s[k]]
           sum == CHOOSE f : f = law(f)
<1>1. n \in Nat /\ \A k \in 1..n : s[k] \in Nat
  OBVIOUS
<1>2. Sum(s) = sum[n]
  BY DEF Sum
<1> HIDE DEF n
<1>3. step \in [Nat \X (1..n) -> Nat] /\ \A t \in Nat, k \in 1..n : step[<<t, k>>] = t + s[k]
  BY <1>1
<1> HIDE DEF step
<1>4. PICK g \in [0..n -> Nat] : g[0] = 0 /\ \A k \in 1..n : g[k] = step[<<g[k - 1], k>>]
  <2>1. step \in Steps(Nat, n) /\ 0 \in Nat
    BY <1>3 DEF Steps
  <2>2. Course(Nat, n, step, 0) # {}
    BY ONLY <2>1, <1>1, Recursion
  <2> QED
    BY <2>2 DEF Course
<1>5. \A k \in 1..n : k \in 0..n /\ k - 1 \in 0..n
  BY <1>1
<1>6. \A k \in 1..n : g[k] = g[k - 1] + s[k]
  BY <1>3, <1>4, <1>5
<1>7. g = law(g)
  BY <1>1, <1>4, <1>6
<1>8. sum = law(sum)
  BY <1>7
<1> HIDE DEF sum
<1>9. sum[0] = 0 /\ \A k \in 1..n : sum[k] = sum[k - 1] + s[k]
  <2>1. 0 \in 0..n /\ \A k \in 1..n : k \in 0..n /\ k # 0
    BY <1>1
  <2> DEFINE f == law(sum)
  <2>2. f[0] = 0 /\ \A k \in 1..n : f[k] = sum[k - 1] + s[k]
    BY <2>1
  <2> HIDE DEF f
  <2>3. sum = f
    BY <1>8 DEF f
  <2> QED
    BY <2>2, <2>3
<1> DEFINE T == {k \in Nat : sum[k] = g[k]}
<1>10. 0 \in T /\ \A k \in 1..n : k - 1 \in T => k \in T
  BY <1>1, <1>4, <1>6, <1>9
<1> HIDE DEF T
<1>11. \A k \in 0..n : k \in T
  BY ONLY <1>1, <1>10, UpTo
<1>12. g[n] = Sum(s) /\ g[n] \in Nat
  BY <1>1, <1>2, <1>4, <1>11 DEF T
<1> QED
  BY <1>4, <1>6, <1>12 DEF n

\* One course of sums only.
LEMMA SummedAs ==
  ASSUME NEW s \in Seq(Nat), NEW G, G[0] = 0, \A k \in 1..Len(s) : G[k] = G[k - 1] + s[k]
  PROVE  G[Len(s)] = Sum(s)
<1> DEFINE n == Len(s)
<1>1. n \in Nat
  OBVIOUS
<1>2. PICK F \in [0..n -> Nat] :
        F[0] = 0 /\ F[n] = Sum(s) /\ \A k \in 1..n : F[k] = F[k - 1] + s[k]
  BY Summed
<1> DEFINE T == {k \in Nat : F[k] = G[k]}
<1>3. 0 \in T /\ \A k \in 1..n : k - 1 \in T => k \in T
  BY <1>1, <1>2
<1> HIDE DEF T, n
<1>4. \A k \in 0..n : k \in T
  BY ONLY <1>1, <1>3, UpTo
<1> QED
  BY <1>1, <1>2, <1>4 DEF T, n

LEMMA SumOfNone ==
  Sum(<< >>) = 0
<1>1. << >> \in Seq(Nat) /\ Len(<< >>) = 0
  OBVIOUS
<1> QED
  BY <1>1, Summed

LEMMA SumJoined ==
  ASSUME NEW a \in Seq(Nat), NEW b \in Seq(Nat)
  PROVE  Sum(a \o b) = Sum(a) + Sum(b)
<1> DEFINE n == Len(a)
           m == Len(b)
           c == a \o b
<1>1. n \in Nat /\ m \in Nat /\ c \in Seq(Nat) /\ Len(c) = n + m
  OBVIOUS
<1>2. \A i \in 1..n + m : c[i] = IF i <= n THEN a[i] ELSE b[i - n]
  BY ConcatProperties
<1>3. PICK F \in [0..n -> Nat] :
        F[0] = 0 /\ F[n] = Sum(a) /\ \A k \in 1..n : F[k] = F[k - 1] + a[k]
  BY Summed
<1>4. PICK H \in [0..m -> Nat] :
        H[0] = 0 /\ H[m] = Sum(b) /\ \A k \in 1..m : H[k] = H[k - 1] + b[k]
  BY Summed
<1> DEFINE G == [i \in 0..(n + m) |-> IF i <= n THEN F[i] ELSE Sum(a) + H[i - n]]
<1> HIDE DEF c
<1> HIDE DEF n, m
<1>10. Sum(a) \in Nat
  BY Summed
<1>5. \A i \in 0..n : G[i] = F[i]
  BY <1>1
<1>6. ASSUME NEW j \in 0..m PROVE G[n + j] = Sum(a) + H[j]
  <2>0. n + j \in 0..(n + m) /\ (n + j) - n = j
    BY <1>1
  <2>1. CASE j = 0
    BY <2>1, <1>1, <1>3, <1>4, <1>5, <1>10
  <2>2. CASE j # 0
    <3>1. ~(n + j <= n)
      BY <2>2, <1>1
    <3>2. G[n + j] = Sum(a) + H[(n + j) - n]
      BY <2>0, <3>1
    <3> QED
      BY <3>2, <2>0
  <2> QED
    BY <2>1, <2>2
<1> HIDE DEF G
<1>7. ASSUME NEW k \in 1..(n + m) PROVE G[k] = G[k - 1] + c[k]
  <2>0. k \in Nat
    BY <1>1
  <2>1. CASE k <= n
    <3>1. k \in 1..n /\ k \in 0..n /\ k - 1 \in 0..n /\ c[k] = a[k]
      BY <2>1, <1>1, <1>2
    <3> QED
      BY <3>1, <1>3, <1>5
  <2>2. CASE k > n
    <3> DEFINE j == k - n
    <3>1. j \in 1..m /\ j \in 0..m /\ j - 1 \in 0..m /\ n + j = k /\ n + (j - 1) = k - 1 /\ c[k] = b[j]
      BY <2>2, <1>1, <1>2
    <3> HIDE DEF j
    <3>2. G[k] = Sum(a) + H[j] /\ G[k - 1] = Sum(a) + H[j - 1]
      <4>1. G[n + j] = Sum(a) + H[j]
        BY <3>1, <1>6
      <4>2. G[n + (j - 1)] = Sum(a) + H[j - 1]
        BY <3>1, <1>6
      <4> QED
        BY <4>1, <4>2, <3>1
    <3>3. H[j] = H[j - 1] + b[j] /\ H[j - 1] \in Nat
      BY <3>1, <1>4
    <3>4. b[j] \in Nat
      BY <3>1 DEF m
    <3> QED
      BY <3>1, <3>2, <3>3, <3>4, <1>10
  <2> QED
    BY <2>0, <2>1, <2>2, <1>1
<1>9. G[n + m] = Sum(a) + Sum(b) /\ G[0] = 0
  <2>1. m \in 0..m /\ 0 \in 0..n
    BY <1>1
  <2>2. G[n + m] = Sum(a) + H[m]
    BY <2>1, <1>6
  <2> QED
    BY <2>1, <2>2, <1>3, <1>4, <1>5
<1>8. G[Len(c)] = Sum(c)
  BY <1>1, <1>7, <1>9, SummedAs
<1> QED
  BY <1>1, <1>8, <1>9 DEF c

LEMMA SumAppended ==
  ASSUME NEW s \in Seq(Nat), NEW x \in Nat
  PROVE  Sum(Append(s, x)) = Sum(s) + x
<1> DEFINE c == Append(s, x)
           n == Len(s)
<1>1. n \in Nat /\ c \in Seq(Nat) /\ Len(c) = n + 1 /\ c[n + 1] = x /\ \A i \in 1..n : c[i] = s[i]
  BY AppendProperties
<1>2. PICK F \in [0..n -> Nat] :
        F[0] = 0 /\ F[n] = Sum(s) /\ \A k \in 1..n : F[k] = F[k - 1] + s[k]
  BY Summed
<1> DEFINE G == [i \in 0..(n + 1) |-> IF i <= n THEN F[i] ELSE Sum(s) + x]
<1> HIDE DEF c, n
<1>3. G[0] = 0 /\ G[n + 1] = Sum(s) + x /\ G[n] = Sum(s)
  BY <1>1, <1>2
<1>4. ASSUME NEW k \in 1..(n + 1) PROVE G[k] = G[k - 1] + c[k]
  <2>1. CASE k = n + 1
    <3>1. k - 1 = n
      BY <2>1, <1>1
    <3> QED
      BY <2>1, <3>1, <1>1, <1>3
  <2>2. CASE k # n + 1
    <3>1. k \in 1..n /\ k - 1 \in 0..n
      BY <2>2, <1>1
    <3>2. G[k] = F[k] /\ G[k - 1] = F[k - 1]
      BY <3>1, <1>1
    <3> QED
      BY <3>1, <3>2, <1>1, <1>2
  <2> QED
    BY <2>1, <2>2
<1> HIDE DEF G
<1>5. G[Len(c)] = Sum(c)
  BY <1>1, <1>3, <1>4, SummedAs
<1> QED
  BY <1>1, <1>3, <1>5 DEF c

-----------------------------------------------------------------------------
(* The batches of a group, as askAll fills them. *)

Measured(g) ==
  /\ \A i \in 1..Len(g.questions) : g.questions[i].question.chars \in Nat
  /\ \A k \in 1..Len(g.places) : g.places[k].size \in Nat /\ g.places[k].size >= Trailing

SizeOf(g, b) == Sum([k \in DOMAIN b |-> g.places[b[k]].size])

\* What the loop has counted when the batch is b.
CountedText(g, b) == skill.fixed + SizeOf(g, b) + Len(b)
CountedTotal(g, b) == skill.fixed + SizeOf(g, b) + Len(b) + Len(b) * Cost(g)

\* A batch of several places got its last one only when that was not over.
Fitting(g, b) ==
  Len(b) > 1 => /\ CountedText(g, b) - 1 <= case.maxState
                /\ CountedTotal(g, b) - 1 <= case.maxRequest

LEMMA LimitsAre ==
  ASSUME case \in Cases
  PROVE  skill.fixed \in Nat /\ case.maxState \in Nat /\ case.maxRequest \in Nat
  BY DecisionAssumption DEF CaseOK, SkillOK, skill

LEMMA CostIs ==
  ASSUME NEW g, GroupOK(g), Measured(g)
  PROVE  Cost(g) \in Nat
<1> DEFINE s == [k \in DOMAIN g.questions |-> g.questions[k].question.chars]
<1>1. DOMAIN g.questions = 1..Len(g.questions) /\ Len(g.questions) \in Nat
  BY Listing DEF GroupOK
<1>2. s \in Seq(Nat)
  BY <1>1 DEF Measured
<1>3. Cost(g) = Sum(s)
  BY DEF Cost
<1> HIDE DEF s
<1> QED
  BY <1>2, <1>3, Summed

LEMMA SizeIs ==
  ASSUME NEW g, GroupOK(g), Measured(g), NEW b \in Seq(1..Len(g.places))
  PROVE  /\ SizeOf(g, b) \in Nat
         /\ \A k \in 1..Len(g.places) : SizeOf(g, Append(b, k)) = SizeOf(g, b) + g.places[k].size
<1> DEFINE N == Len(g.places)
           s(c) == [k \in DOMAIN c |-> g.places[c[k]].size]
<1>1. ASSUME NEW c \in Seq(1..N) PROVE s(c) \in Seq(Nat) /\ Len(s(c)) = Len(c)
  <2>1. Len(c) \in Nat /\ DOMAIN c = 1..Len(c) /\ \A i \in 1..Len(c) : c[i] \in 1..N
    OBVIOUS
  <2>2. \A i \in 1..Len(c) : g.places[c[i]].size \in Nat
    BY <2>1 DEF Measured
  <2>3. [i \in 1..Len(c) |-> g.places[c[i]].size] \in Seq(Nat)
    BY <2>1, <2>2
  <2> QED
    BY <2>1, <2>3
<1>2. SizeOf(g, b) \in Nat
  BY <1>1, Summed DEF SizeOf
<1>3. ASSUME NEW k \in 1..N PROVE SizeOf(g, Append(b, k)) = SizeOf(g, b) + g.places[k].size
  <2> DEFINE c == Append(b, k)
             x == g.places[k].size
  <2>1. /\ c \in Seq(1..N) /\ Len(c) = Len(b) + 1 /\ c[Len(b) + 1] = k
        /\ \A i \in 1..Len(b) : c[i] = b[i]
    BY AppendProperties
  <2>2. x \in Nat
    BY DEF Measured
  <2>3. Len(b) \in Nat /\ DOMAIN b = 1..Len(b)
    OBVIOUS
  <2> HIDE DEF c
  <2>4. /\ s(c) \in Seq(Nat) /\ Len(s(c)) = Len(b) + 1
        /\ s(b) \in Seq(Nat) /\ Len(s(b)) = Len(b)
    BY <1>1, <2>1
  <2>5. /\ Append(s(b), x) \in Seq(Nat) /\ Len(Append(s(b), x)) = Len(b) + 1
        /\ Append(s(b), x)[Len(b) + 1] = x
        /\ \A i \in 1..Len(b) : Append(s(b), x)[i] = s(b)[i]
    BY <2>2, <2>4, AppendProperties
  <2>6. DOMAIN c = 1..(Len(b) + 1)
    BY <2>1
  <2>7. \A i \in 1..(Len(b) + 1) : s(c)[i] = Append(s(b), x)[i]
    <3> SUFFICES ASSUME NEW i \in 1..(Len(b) + 1) PROVE g.places[c[i]].size = Append(s(b), x)[i]
      BY <2>6
    <3>1. CASE i = Len(b) + 1
      BY <3>1, <2>1, <2>5
    <3>2. CASE i \in 1..Len(b)
      BY <3>2, <2>1, <2>3, <2>5
    <3> QED
      BY <3>1, <3>2, <2>3
  <2>8. s(c) = Append(s(b), x)
    BY <2>3, <2>4, <2>5, <2>7, SeqEqual
  <2>9. Sum(s(c)) = Sum(s(b)) + x
    BY <2>2, <2>4, <2>8, SumAppended
  <2> QED
    BY <2>9 DEF SizeOf, c
<1> QED
  BY <1>2, <1>3

\* What a turn of the loop leaves: full batches that fit, and the counts of the
\* one it is filling; every place so far is in one of them.
Filled(g, acc, n) ==
  /\ \A b \in 1..Len(acc.full) : acc.full[b] # << >> /\ Fitting(g, acc.full[b])
  /\ Fitting(g, acc.batch)
  /\ acc.text = CountedText(g, acc.batch) /\ acc.total = CountedTotal(g, acc.batch)
  /\ \A k \in 1..n : \/ \E b \in 1..Len(acc.full) : \E j \in 1..Len(acc.full[b]) : acc.full[b][j] = k
                     \/ \E j \in 1..Len(acc.batch) : acc.batch[j] = k

Filling(g) ==
  [full : Seq(Seq(1..Len(g.places))), batch : Seq(1..Len(g.places)), text : Nat, total : Nat]

LEMMA Regrouped ==
  \A a, b, c, d \in Nat : (a + b + c) + d + 1 = a + (b + d) + (c + 1)
  OBVIOUS

LEMMA RegroupedCosts ==
  \A a, b, c, d \in Nat : (a + b) + c + 1 + d = (a + c + 1) + (b + d)
  OBVIOUS

LEMMA BatchStep ==
  ASSUME case \in Cases, NEW g, GroupOK(g), Measured(g), NEW acc \in Filling(g),
         NEW k \in 1..Len(g.places)
  PROVE  /\ Batch(g, acc, k) \in Filling(g)
         /\ Filled(g, acc, k - 1) => Filled(g, Batch(g, acc, k), k)
<1> DEFINE N == Len(g.places)
           size == g.places[k].size
           over == \/ acc.text + size > case.maxState
                   \/ acc.total + size + Cost(g) > case.maxRequest
           flush == over /\ acc.batch # << >>
           text == acc.text
           total == acc.total
           cost == Cost(g)
           new == Batch(g, acc, k)
<1>1. /\ acc.full \in Seq(Seq(1..N)) /\ acc.batch \in Seq(1..N)
      /\ acc.text \in Nat /\ acc.total \in Nat
  BY DEF Filling
<1>2. size \in Nat /\ Cost(g) \in Nat /\ skill.fixed \in Nat
      /\ case.maxState \in Nat /\ case.maxRequest \in Nat
  BY CostIs, LimitsAre DEF Measured
<1>3. <<k>> \in Seq(1..N) /\ Append(acc.batch, k) \in Seq(1..N)
      /\ Append(acc.full, acc.batch) \in Seq(Seq(1..N))
  BY <1>1
<1>4. CASE flush
  <2>1. new = [full |-> Append(acc.full, acc.batch), batch |-> <<k>>,
               text |-> skill.fixed + size + 1, total |-> skill.fixed + size + 1 + Cost(g)]
    BY <1>4 DEF Batch
  <2>2. new \in Filling(g)
    <3> HIDE DEF size, cost
    <3>1. skill.fixed + size + 1 \in Nat /\ skill.fixed + size + 1 + cost \in Nat
      BY <1>2 DEF cost
    <3> QED
      BY <2>1, <1>3, <3>1 DEF Filling, cost
  <2> HIDE DEF new, size
  <2>3. ASSUME Filled(g, acc, k - 1) PROVE Filled(g, new, k)
    <3> DEFINE f == acc.full
               h == new.full
    <3>1. /\ h = Append(f, acc.batch) /\ new.batch = <<k>> /\ Len(<<k>>) = 1 /\ <<k>>[1] = k
      BY <2>1
    <3>2. /\ Len(h) = Len(f) + 1 /\ h[Len(f) + 1] = acc.batch /\ \A b \in 1..Len(f) : h[b] = f[b]
          /\ Len(f) \in Nat
      BY <1>1, <3>1, AppendProperties
    <3> HIDE DEF f, h
    <3>3. \A b \in 1..Len(h) : h[b] # << >> /\ Fitting(g, h[b])
      <4> SUFFICES ASSUME NEW b \in 1..Len(h) PROVE h[b] # << >> /\ Fitting(g, h[b])
        OBVIOUS
      <4>1. CASE b \in 1..Len(f)
        BY <4>1, <2>3, <3>2 DEF Filled, f
      <4>2. CASE b = Len(f) + 1
        BY <4>2, <2>3, <3>2, <1>4 DEF Filled
      <4> QED
        BY <4>1, <4>2, <3>2
    <3>4. SizeOf(g, <<k>>) = size
      <4>1. << >> \in Seq(1..N) /\ Append(<< >>, k) = <<k>>
        OBVIOUS
      <4>2. SizeOf(g, <<k>>) = SizeOf(g, << >>) + g.places[k].size
        BY <4>1, SizeIs
      <4>3. [i \in DOMAIN << >> |-> g.places[<< >>[i]].size] = << >>
        OBVIOUS
      <4>4. SizeOf(g, << >>) = 0
        BY <4>3, SumOfNone DEF SizeOf
      <4> QED
        BY <4>2, <4>4, <1>2 DEF size
    <3>5. Fitting(g, new.batch)
      BY <3>1 DEF Fitting
    <3>6. new.text = CountedText(g, new.batch) /\ new.total = CountedTotal(g, new.batch)
      <4>1. CountedText(g, <<k>>) = skill.fixed + size + 1
        BY <3>1, <3>4 DEF CountedText
      <4>2. CountedTotal(g, <<k>>) = skill.fixed + size + 1 + Cost(g)
        BY <3>1, <3>4, <1>2 DEF CountedTotal
      <4> QED
        BY <4>1, <4>2, <2>1
    <3>7. ASSUME NEW i \in 1..k
          PROVE  \/ \E b \in 1..Len(h) : \E j \in 1..Len(h[b]) : h[b][j] = i
                 \/ \E j \in 1..Len(new.batch) : new.batch[j] = i
      <4>1. CASE i = k
        BY <4>1, <3>1
      <4>2. CASE i # k
        <5>1. i \in 1..(k - 1)
          BY <4>2
        <5>2. \/ \E b \in 1..Len(f) : \E j \in 1..Len(f[b]) : f[b][j] = i
              \/ \E j \in 1..Len(acc.batch) : acc.batch[j] = i
          BY <5>1, <2>3 DEF Filled, f
        <5>3. ASSUME NEW b \in 1..Len(f), NEW j \in 1..Len(f[b]), f[b][j] = i
              PROVE  \E c \in 1..Len(h) : \E m \in 1..Len(h[c]) : h[c][m] = i
          <6>1. b \in 1..Len(h) /\ h[b] = f[b]
            BY <3>2
          <6> QED
            BY <6>1, <5>3
        <5>4. ASSUME NEW j \in 1..Len(acc.batch), acc.batch[j] = i
              PROVE  \E c \in 1..Len(h) : \E m \in 1..Len(h[c]) : h[c][m] = i
          <6>1. Len(f) + 1 \in 1..Len(h) /\ h[Len(f) + 1] = acc.batch
            BY <3>2
          <6> QED
            BY <6>1, <5>4
        <5> QED
          BY <5>2, <5>3, <5>4
      <4> QED
        BY <4>1, <4>2
    <3> QED
      BY <3>3, <3>5, <3>6, <3>7 DEF Filled, h
  <2> QED
    BY <2>2, <2>3 DEF new
<1>5. CASE ~flush
  <2>1. new = [full |-> acc.full, batch |-> Append(acc.batch, k),
               text |-> acc.text + size + 1, total |-> acc.total + size + 1 + Cost(g)]
    BY <1>5 DEF Batch
  <2>4. text \in Nat /\ total \in Nat /\ size \in Nat /\ cost \in Nat
    BY <1>1, <1>2
  <2>5. new.text = text + size + 1 /\ new.total = total + size + 1 + cost
    BY <2>1
  <2>6. acc.batch # << >> => text + size <= case.maxState /\ total + size + cost <= case.maxRequest
    <3>1. ~(text + size > case.maxState) => text + size <= case.maxState
      <4> HIDE DEF text, size
      <4> QED
        BY <2>4, <1>2
    <3>2. ~(total + size + cost > case.maxRequest) => total + size + cost <= case.maxRequest
      <4> HIDE DEF total, size, cost
      <4> QED
        BY <2>4, <1>2
    <3> QED
      BY <1>5, <3>1, <3>2
  <2>2. new \in Filling(g)
    <3>1. text + size + 1 \in Nat /\ total + size + 1 + cost \in Nat
      <4> HIDE DEF text, total, size, cost
      <4> QED
        BY <2>4
    <3> QED
      BY <2>1, <1>1, <1>3, <3>1 DEF Filling
  <2> HIDE DEF new
  <2>3. ASSUME Filled(g, acc, k - 1) PROVE Filled(g, new, k)
    <3> DEFINE b == acc.batch
               h == new.batch
    <3>1. /\ h = Append(b, k) /\ Len(h) = Len(b) + 1 /\ h[Len(b) + 1] = k
          /\ Len(b) \in Nat /\ \A j \in 1..Len(b) : h[j] = b[j]
      BY <2>1, <1>1, AppendProperties
    <3>2. SizeOf(g, h) = SizeOf(g, b) + size /\ SizeOf(g, b) \in Nat
      BY <3>1, <1>1, SizeIs
    <3>3. acc.text = CountedText(g, b) /\ acc.total = CountedTotal(g, b)
      BY <2>3 DEF Filled
    <3> HIDE DEF h
    <3> DEFINE sized == SizeOf(g, b)
               n == Len(b)
    <3>9. sized \in Nat /\ n \in Nat /\ SizeOf(g, h) = sized + size /\ Len(h) = n + 1
      BY <3>1, <3>2
    <3>10. text = skill.fixed + sized + n
      BY <3>3 DEF CountedText
    <3>4. new.text = CountedText(g, h)
      <4> HIDE DEF text, size, sized, n
      <4>1. CountedText(g, h) = skill.fixed + (sized + size) + (n + 1)
        BY <3>9 DEF CountedText
      <4>2. (skill.fixed + sized + n) + size + 1 = skill.fixed + (sized + size) + (n + 1)
        <5>1. skill.fixed \in Nat /\ sized \in Nat /\ n \in Nat /\ size \in Nat
          BY <2>4, <3>9, <1>2
        <5> QED
          BY ONLY <5>1, Regrouped
      <4>3. new.text = text + size + 1
        BY <2>5
      <4> QED
        BY <4>1, <4>2, <4>3, <3>10, Zenon
    <3>5. new.total = CountedTotal(g, h)
      <4> DEFINE p == n * cost
      <4>1. CountedTotal(g, b) = CountedText(g, b) + p
        BY DEF CountedTotal, CountedText
      <4>2. CountedTotal(g, h) = CountedText(g, h) + (n + 1) * cost
        BY <3>9 DEF CountedTotal, CountedText
      <4>3. total = text + p
        BY <4>1, <3>3
      <4> HIDE DEF text, total, size, cost, sized, n
      <4>4. (n + 1) * cost = p + cost /\ p \in Nat
        BY <2>4, <3>9
      <4> HIDE DEF p
      <4>5. (text + p) + size + 1 + cost = (text + size + 1) + (p + cost)
        <5>1. text \in Nat /\ p \in Nat /\ size \in Nat /\ cost \in Nat
          BY <4>4, <2>4
        <5> QED
          BY ONLY <5>1, RegroupedCosts
      <4>6. new.total = total + size + 1 + cost /\ new.text = text + size + 1
        BY <2>5
      <4> QED
        BY <4>2, <4>3, <4>4, <4>5, <4>6, <3>4, Zenon
    <3>6. Fitting(g, h)
      <4> SUFFICES ASSUME Len(h) > 1
                   PROVE  /\ CountedText(g, h) - 1 <= case.maxState
                          /\ CountedTotal(g, h) - 1 <= case.maxRequest
        BY DEF Fitting
      <4>1. b # << >>
        BY <3>1
      <4>2. text + size <= case.maxState /\ total + size + cost <= case.maxRequest
        BY <4>1, <2>6
      <4> HIDE DEF text, total, size, cost
      <4> QED
        BY <4>2, <2>4, <2>5, <3>4, <3>5, <1>2
    <3>7. ASSUME NEW i \in 1..k
          PROVE  \/ \E c \in 1..Len(new.full) : \E j \in 1..Len(new.full[c]) : new.full[c][j] = i
                 \/ \E j \in 1..Len(h) : h[j] = i
      <4>1. CASE i = k
        <5>1. Len(b) + 1 \in 1..Len(h)
          BY <3>1
        <5> QED
          BY <4>1, <5>1, <3>1
      <4>2. CASE i # k
        <5>1. i \in 1..(k - 1)
          BY <4>2
        <5>2. \/ \E c \in 1..Len(acc.full) : \E j \in 1..Len(acc.full[c]) : acc.full[c][j] = i
              \/ \E j \in 1..Len(b) : b[j] = i
          BY <5>1, <2>3 DEF Filled
        <5>3. ASSUME NEW j \in 1..Len(b), b[j] = i PROVE \E m \in 1..Len(h) : h[m] = i
          <6>1. j \in 1..Len(h) /\ h[j] = b[j]
            BY <3>1
          <6> QED
            BY <6>1, <5>3
        <5>4. new.full = acc.full
          BY <2>1
        <5> QED
          BY <5>2, <5>3, <5>4
      <4> QED
        BY <4>1, <4>2
    <3>8. \A c \in 1..Len(new.full) : new.full[c] # << >> /\ Fitting(g, new.full[c])
      BY <2>1, <2>3 DEF Filled
    <3> QED
      BY <3>4, <3>5, <3>6, <3>7, <3>8 DEF Filled, h
  <2> QED
    BY <2>2, <2>3 DEF new
<1> QED
  BY <1>4, <1>5

\* askAll: every place of the group is in a batch, and every batch fits.
LEMMA Batched ==
  ASSUME case \in Cases, NEW g, GroupOK(g), Measured(g)
  PROVE  /\ Batches(g) \in Seq(Seq(1..Len(g.places)))
         /\ \A b \in 1..Len(Batches(g)) : Batches(g)[b] # << >> /\ Fitting(g, Batches(g)[b])
         /\ \A k \in 1..Len(g.places) :
              \E b \in 1..Len(Batches(g)) : \E j \in 1..Len(Batches(g)[b]) : Batches(g)[b][j] = k
<1> DEFINE n == Len(g.places)
           X == Filling(g)
           none == [full |-> << >>, batch |-> << >>, text |-> skill.fixed, total |-> skill.fixed]
           step == [p \in X \X (1..n) |-> Batch(g, p[1], p[2])]
           law(f) == [k \in 0..n |-> IF k = 0 THEN none ELSE Batch(g, f[k - 1], k)]
           filled == CHOOSE f : f = law(f)
           all == filled[n]
<1>1. n \in Nat
  BY Listing DEF GroupOK
<1>2. Batches(g) = IF all.batch = << >> THEN all.full ELSE Append(all.full, all.batch)
  BY DEF Batches
<1>3. none \in X
  <2>1. skill.fixed \in Nat /\ << >> \in Seq(1..n) /\ << >> \in Seq(Seq(1..n))
    BY LimitsAre
  <2> QED
    BY <2>1 DEF Filling
<1>4. Filled(g, none, 0)
  <2>1. [i \in DOMAIN << >> |-> g.places[<< >>[i]].size] = << >>
    OBVIOUS
  <2>2. SizeOf(g, << >>) = 0
    BY <2>1, SumOfNone DEF SizeOf
  <2>3. Len(<< >>) = 0 /\ 0 * Cost(g) = 0 /\ skill.fixed + 0 + 0 = skill.fixed
        /\ skill.fixed + 0 + 0 + 0 = skill.fixed
    BY LimitsAre, CostIs
  <2>4. CountedText(g, << >>) = skill.fixed
    BY <2>2, <2>3 DEF CountedText
  <2>5. CountedTotal(g, << >>) = skill.fixed
    BY <2>2, <2>3 DEF CountedTotal
  <2>6. Fitting(g, << >>)
    BY <2>3 DEF Fitting
  <2>7. none.full = << >> /\ none.batch = << >> /\ none.text = skill.fixed /\ none.total = skill.fixed
    OBVIOUS
  <2> HIDE DEF none
  <2> QED
    BY <2>3, <2>4, <2>5, <2>6, <2>7 DEF Filled
<1>5. \A t \in X, k \in 1..n : Batch(g, t, k) \in X
  BY BatchStep
<1> HIDE DEF n, X, none
<1>6. step \in [X \X (1..n) -> X] /\ \A t \in X, k \in 1..n : step[<<t, k>>] = Batch(g, t, k)
  BY <1>5
<1> HIDE DEF step
<1>7. PICK h \in [0..n -> X] : h[0] = none /\ \A k \in 1..n : h[k] = step[<<h[k - 1], k>>]
  <2>1. step \in Steps(X, n)
    BY <1>6 DEF Steps
  <2>2. Course(X, n, step, none) # {}
    BY ONLY <2>1, <1>1, <1>3, Recursion
  <2> QED
    BY <2>2 DEF Course
<1>8. \A k \in 1..n : k \in 0..n /\ k - 1 \in 0..n
  BY <1>1
<1>9. \A k \in 1..n : h[k] = Batch(g, h[k - 1], k)
  BY <1>6, <1>7, <1>8
<1>10. h = law(h)
  BY <1>1, <1>7, <1>9
<1>11. filled = law(filled)
  BY <1>10
<1> HIDE DEF filled
<1>12. filled[0] = none /\ \A k \in 1..n : filled[k] = Batch(g, filled[k - 1], k)
  <2>1. 0 \in 0..n /\ \A k \in 1..n : k \in 0..n /\ k # 0
    BY <1>1
  <2> DEFINE f == law(filled)
  <2>2. f[0] = none /\ \A k \in 1..n : f[k] = Batch(g, filled[k - 1], k)
    BY <2>1
  <2> HIDE DEF f
  <2>3. filled = f
    BY <1>11 DEF f
  <2> QED
    BY <2>2, <2>3
<1> DEFINE T == {k \in Nat : filled[k] \in X /\ Filled(g, filled[k], k)}
<1>13. 0 \in T
  BY <1>3, <1>4, <1>12
<1>14. ASSUME NEW k \in 1..n, k - 1 \in T PROVE k \in T
  <2>1. k \in Nat /\ filled[k - 1] \in X /\ Filled(g, filled[k - 1], k - 1)
    BY <1>1, <1>14
  <2>2. filled[k] = Batch(g, filled[k - 1], k)
    BY <1>12
  <2> USE DEF X, n
  <2> HIDE DEF T
  <2>3. filled[k] \in X /\ Filled(g, filled[k], k)
    BY <2>1, <2>2, BatchStep
  <2> QED
    BY <2>1, <2>3 DEF T
<1> HIDE DEF T
<1>15. \A k \in 0..n : k \in T
  BY ONLY <1>1, <1>13, <1>14, UpTo
<1>16. all \in X /\ Filled(g, all, n)
  BY <1>1, <1>15 DEF T
<1> HIDE DEF all
<1> DEFINE f == all.full
           l == all.batch
           bs == Batches(g)
<1>17. f \in Seq(Seq(1..n)) /\ l \in Seq(1..n)
  BY <1>16 DEF X, n, Filling
<1>18. /\ \A b \in 1..Len(f) : f[b] # << >> /\ Fitting(g, f[b])
       /\ Fitting(g, l)
       /\ \A k \in 1..n : \/ \E b \in 1..Len(f) : \E j \in 1..Len(f[b]) : f[b][j] = k
                          \/ \E j \in 1..Len(l) : l[j] = k
  BY <1>16 DEF Filled
<1>19. bs = IF l = << >> THEN f ELSE Append(f, l)
  BY <1>2
<1> HIDE DEF f, l, bs
<1>20. CASE l = << >>
  <2>1. bs = f /\ Len(l) = 0
    BY <1>19, <1>20
  <2> QED
    BY <2>1, <1>17, <1>18 DEF bs, n
<1>21. CASE l # << >>
  <2>1. /\ bs \in Seq(Seq(1..n)) /\ Len(bs) = Len(f) + 1 /\ bs[Len(f) + 1] = l
        /\ \A b \in 1..Len(f) : bs[b] = f[b]
    BY <1>17, <1>19, <1>21, AppendProperties
  <2>2. Len(f) \in Nat
    BY <1>17
  <2>3. ASSUME NEW b \in 1..Len(bs) PROVE bs[b] # << >> /\ Fitting(g, bs[b])
    <3>1. b \in 1..Len(f) \/ b = Len(f) + 1
      BY <2>1, <2>2
    <3> QED
      BY <3>1, <2>1, <1>18, <1>21
  <2>4. ASSUME NEW k \in 1..n PROVE \E b \in 1..Len(bs) : \E j \in 1..Len(bs[b]) : bs[b][j] = k
    <3>1. ASSUME NEW b \in 1..Len(f), NEW j \in 1..Len(f[b]), f[b][j] = k
          PROVE  \E c \in 1..Len(bs) : \E i \in 1..Len(bs[c]) : bs[c][i] = k
      <4>1. b \in 1..Len(bs) /\ bs[b] = f[b]
        BY <2>1, <2>2
      <4> QED
        BY <3>1, <4>1
    <3>2. ASSUME NEW j \in 1..Len(l), l[j] = k
          PROVE  \E c \in 1..Len(bs) : \E i \in 1..Len(bs[c]) : bs[c][i] = k
      <4>1. Len(f) + 1 \in 1..Len(bs) /\ bs[Len(f) + 1] = l
        BY <2>1, <2>2
      <4> QED
        BY <3>2, <4>1
    <3> QED
      BY <1>18, <3>1, <3>2
  <2> QED
    BY <2>1, <2>3, <2>4 DEF bs, n
<1> QED
  BY <1>20, <1>21

-----------------------------------------------------------------------------
(* The requests for the places of a group. *)

CharsOf(qs) == Sum([k \in DOMAIN qs |-> qs[k].chars])

LEMMA CharsJoined ==
  ASSUME NEW Q, \A q \in Q : q.chars \in Nat, NEW a \in Seq(Q), NEW b \in Seq(Q)
  PROVE  CharsOf(a) \in Nat /\ CharsOf(a \o b) = CharsOf(a) + CharsOf(b)
<1> DEFINE s(x) == [k \in DOMAIN x |-> x[k].chars]
<1>1. ASSUME NEW x \in Seq(Q) PROVE s(x) \in Seq(Nat) /\ Len(s(x)) = Len(x)
  <2>1. Len(x) \in Nat /\ DOMAIN x = 1..Len(x) /\ \A i \in 1..Len(x) : x[i] \in Q
    OBVIOUS
  <2>2. [i \in 1..Len(x) |-> x[i].chars] \in Seq(Nat)
    BY <2>1
  <2> QED
    BY <2>1, <2>2
<1>2. a \o b \in Seq(Q) /\ Len(a) \in Nat /\ Len(b) \in Nat
  OBVIOUS
<1>3. /\ Len(a \o b) = Len(a) + Len(b)
      /\ \A i \in 1..Len(a) + Len(b) : (a \o b)[i] = IF i <= Len(a) THEN a[i] ELSE b[i - Len(a)]
  BY ConcatProperties
<1> DEFINE c == a \o b
           p == s(a) \o s(b)
<1>4. /\ s(a) \in Seq(Nat) /\ s(b) \in Seq(Nat) /\ s(c) \in Seq(Nat)
      /\ Len(s(a)) = Len(a) /\ Len(s(b)) = Len(b) /\ Len(s(c)) = Len(a) + Len(b)
  BY <1>1, <1>2, <1>3
<1>5. /\ p \in Seq(Nat) /\ Len(p) = Len(a) + Len(b)
      /\ \A i \in 1..Len(a) + Len(b) : p[i] = IF i <= Len(a) THEN s(a)[i] ELSE s(b)[i - Len(a)]
  <2> DEFINE x == s(a)
             y == s(b)
  <2>1. x \in Seq(Nat) /\ y \in Seq(Nat) /\ Len(x) = Len(a) /\ Len(y) = Len(b)
    BY <1>4
  <2> HIDE DEF x, y
  <2>2. /\ x \o y \in Seq(Nat) /\ Len(x \o y) = Len(a) + Len(b)
        /\ \A i \in 1..Len(a) + Len(b) : (x \o y)[i] = IF i <= Len(a) THEN x[i] ELSE y[i - Len(a)]
    BY <2>1, ConcatProperties
  <2> QED
    BY <2>2 DEF x, y
<1>6. \A i \in 1..Len(a) : s(a)[i] = a[i].chars
  BY <1>2
<1>7. \A i \in 1..Len(b) : s(b)[i] = b[i].chars
  BY <1>2
<1> HIDE DEF c, p
<1>8. ASSUME NEW i \in 1..Len(a) + Len(b) PROVE s(c)[i] = p[i]
  <2>1. s(c)[i] = c[i].chars
    BY <1>2, <1>3 DEF c
  <2>2. CASE i <= Len(a)
    <3>1. i \in 1..Len(a)
      BY <2>2, <1>2
    <3> QED
      BY <2>1, <2>2, <3>1, <1>3, <1>5, <1>6 DEF c
  <2>3. CASE ~(i <= Len(a))
    <3>1. i - Len(a) \in 1..Len(b)
      BY <2>3, <1>2
    <3> QED
      BY <2>1, <2>3, <3>1, <1>3, <1>5, <1>7 DEF c
  <2> QED
    BY <2>2, <2>3
<1>9. s(c) = p
  BY <1>4, <1>5, <1>8, SeqEqual
<1>10. Sum(p) = Sum(s(a)) + Sum(s(b)) /\ Sum(s(a)) \in Nat
  BY <1>4, SumJoined, Summed DEF p
<1> QED
  BY <1>9, <1>10 DEF CharsOf, c

LEMMA FlattenedCosts ==
  ASSUME NEW Q, \A q \in Q : q.chars \in Nat, NEW ss \in Seq(Seq(Q)), NEW C \in Nat,
         \A k \in 1..Len(ss) : CharsOf(ss[k]) = C
  PROVE  CharsOf(FlattenSeq(ss)) = Len(ss) * C
<1> DEFINE n == Len(ss)
<1>1. n \in Nat /\ \A k \in 1..n : ss[k] \in Seq(Q)
  OBVIOUS
<1>2. PICK F \in [0..n -> Seq(Q)] :
        /\ F[0] = << >> /\ F[n] = FlattenSeq(ss)
        /\ \A k \in 1..n : F[k] = F[k - 1] \o ss[k]
  BY Flattened
<1> HIDE DEF n
<1> DEFINE T == {k \in Nat : CharsOf(F[k]) = k * C}
<1>3. 0 \in T
  <2>1. [k \in DOMAIN << >> |-> << >>[k].chars] = << >> /\ 0 * C = 0
    OBVIOUS
  <2>2. CharsOf(<< >>) = 0
    BY <2>1, SumOfNone DEF CharsOf
  <2> QED
    BY <2>1, <2>2, <1>2
<1>4. ASSUME NEW k \in 1..n, k - 1 \in T PROVE k \in T
  <2>1. k \in Nat /\ k - 1 \in 0..n /\ CharsOf(F[k - 1]) = (k - 1) * C
    BY <1>1, <1>4
  <2>2. F[k - 1] \in Seq(Q) /\ ss[k] \in Seq(Q) /\ F[k] = F[k - 1] \o ss[k]
    BY <2>1, <1>1, <1>2
  <2>3. CharsOf(F[k]) = CharsOf(F[k - 1]) + CharsOf(ss[k])
    BY <2>2, CharsJoined
  <2>4. CharsOf(ss[k]) = C
    BY DEF n
  <2>5. k * C = (k - 1) * C + C
    BY <2>1
  <2> QED
    BY <2>1, <2>3, <2>4, <2>5
<1> HIDE DEF T
<1>5. \A k \in 0..n : k \in T
  BY ONLY <1>1, <1>3, <1>4, UpTo
<1> QED
  BY <1>1, <1>2, <1>5 DEF T, n

LEMMA SumCut ==
  ASSUME NEW s \in Seq(Nat), NEW t \in Seq(Nat), Len(t) = Len(s), NEW d \in Nat,
         \A k \in 1..Len(s) : s[k] = t[k] + d
  PROVE  Sum(s) = Sum(t) + Len(s) * d
<1> DEFINE n == Len(s)
<1>1. n \in Nat /\ \A k \in 1..n : t[k] \in Nat
  OBVIOUS
<1>2. PICK F \in [0..n -> Nat] :
        F[0] = 0 /\ F[n] = Sum(t) /\ \A k \in 1..n : F[k] = F[k - 1] + t[k]
  BY Summed
<1> DEFINE G == [k \in 0..n |-> F[k] + k * d]
<1>3. ASSUME NEW k \in 1..n PROVE G[k] = G[k - 1] + s[k]
  <2>1. k \in 0..n /\ k - 1 \in 0..n /\ k \in Nat
    BY <1>1
  <2>2. G[k] = F[k] + k * d /\ G[k - 1] = F[k - 1] + (k - 1) * d
    BY <2>1
  <2>3. F[k] = F[k - 1] + t[k] /\ F[k - 1] \in Nat /\ t[k] \in Nat
    BY <2>1, <1>1, <1>2
  <2>4. k * d = (k - 1) * d + d /\ (k - 1) * d \in Nat
    BY <2>1
  <2> HIDE DEF G
  <2> QED
    BY <2>2, <2>3, <2>4
<1>4. G[0] = 0 /\ G[n] = Sum(t) + n * d
  <2>1. 0 \in 0..n /\ n \in 0..n /\ 0 * d = 0
    BY <1>1
  <2> QED
    BY <2>1, <1>2
<1> HIDE DEF G
<1>5. G[Len(s)] = Sum(s)
  BY <1>3, <1>4, SummedAs
<1> QED
  BY <1>4, <1>5

\* A query for question k of the group at place p.
QueryAt(g, p, k) ==
  Query(<<g.places[p].id, g.questions[k].id>>, g.questions[k].question, g.subject,
        <<"place", g.places[p].at>>)

PlaceQueries(g, batch) ==
  FlattenSeq([b \in DOMAIN batch |-> [k \in DOMAIN g.questions |-> QueryAt(g, batch[b], k)]])

LEMMA QueriesOfPlaces ==
  ASSUME NEW g, GroupOK(g), Measured(g), NEW batch \in Seq(1..Len(g.places))
  PROVE  /\ Sequence(PlaceQueries(g, batch))
         /\ CharsOf(PlaceQueries(g, batch)) = Len(batch) * Cost(g)
         /\ \A j \in 1..Len(PlaceQueries(g, batch)) :
              \E b \in 1..Len(batch), k \in 1..Len(g.questions) :
                PlaceQueries(g, batch)[j] = QueryAt(g, batch[b], k)
         /\ \A b \in 1..Len(batch), k \in 1..Len(g.questions) :
              \E j \in 1..Len(PlaceQueries(g, batch)) :
                PlaceQueries(g, batch)[j] = QueryAt(g, batch[b], k)
<1> DEFINE n == Len(g.questions)
           m == Len(g.places)
           row(b) == [k \in DOMAIN g.questions |-> QueryAt(g, batch[b], k)]
           ss == [b \in DOMAIN batch |-> row(b)]
           Q == {QueryAt(g, p[1], p[2]) : p \in (1..m) \X (1..n)}
<1>1. n \in Nat /\ DOMAIN g.questions = 1..n
  BY Listing DEF GroupOK
<1>2. Len(batch) \in Nat /\ DOMAIN batch = 1..Len(batch) /\ \A b \in 1..Len(batch) : batch[b] \in 1..m
  OBVIOUS
<1>3. \A p \in 1..m, k \in 1..n : QueryAt(g, p, k).chars = g.questions[k].question.chars
  BY DEF QueryAt, Query
<1>4. \A q \in Q : q.chars \in Nat
  BY <1>3 DEF Measured
<1>5. ASSUME NEW p \in 1..m, NEW k \in 1..n PROVE QueryAt(g, p, k) \in Q
  <2> DEFINE e == <<p, k>>
  <2>1. e \in (1..m) \X (1..n) /\ e[1] = p /\ e[2] = k
    OBVIOUS
  <2> HIDE DEF e
  <2>2. QueryAt(g, e[1], e[2]) \in Q
    BY <2>1
  <2> QED
    BY <2>1, <2>2
<1> HIDE DEF Q, m
<1>6. ASSUME NEW b \in 1..Len(batch)
      PROVE  /\ row(b) \in Seq(Q) /\ Len(row(b)) = n
             /\ \A k \in 1..n : row(b)[k] = QueryAt(g, batch[b], k)
  <2>1. \A k \in 1..n : QueryAt(g, batch[b], k) \in Q
    BY <1>2, <1>5
  <2>2. [k \in 1..n |-> QueryAt(g, batch[b], k)] \in Seq(Q)
    BY <1>1, <2>1
  <2> QED
    BY <1>1, <2>2
<1>7. ASSUME NEW b \in 1..Len(batch) PROVE CharsOf(row(b)) = Cost(g)
  <2>1. batch[b] \in 1..m
    BY <1>2
  <2>2. DOMAIN row(b) = 1..n /\ \A k \in 1..n : row(b)[k].chars = g.questions[k].question.chars
    BY <2>1, <1>1, <1>3, <1>6
  <2> HIDE DEF row
  <2>3. [k \in DOMAIN row(b) |-> row(b)[k].chars]
          = [k \in DOMAIN g.questions |-> g.questions[k].question.chars]
    BY <2>2, <1>1
  <2> QED
    BY <2>3 DEF CharsOf, Cost
<1> HIDE DEF row
<1>8. ss \in Seq(Seq(Q)) /\ Len(ss) = Len(batch) /\ \A b \in 1..Len(batch) : ss[b] = row(b)
  <2>1. [b \in 1..Len(batch) |-> row(b)] \in Seq(Seq(Q))
    BY <1>2, <1>6
  <2> QED
    BY <1>2, <2>1
<1>9. PlaceQueries(g, batch) = FlattenSeq(ss)
  BY DEF PlaceQueries, row
<1> HIDE DEF ss
<1>10. CharsOf(FlattenSeq(ss)) = Len(batch) * Cost(g)
  <2>1. \A b \in 1..Len(ss) : CharsOf(ss[b]) = Cost(g)
    BY <1>7, <1>8
  <2>2. Cost(g) \in Nat
    BY CostIs
  <2>3. CharsOf(FlattenSeq(ss)) = Len(ss) * Cost(g)
    BY <2>1, <2>2, <1>4, <1>8, FlattenedCosts
  <2> QED
    BY <2>3, <1>8
<1>11. /\ FlattenSeq(ss) \in Seq(Q)
       /\ \A j \in 1..Len(FlattenSeq(ss)) :
            \E b \in 1..Len(ss) : \E k \in 1..Len(ss[b]) : FlattenSeq(ss)[j] = ss[b][k]
       /\ \A b \in 1..Len(ss) : \A k \in 1..Len(ss[b]) :
            \E j \in 1..Len(FlattenSeq(ss)) : FlattenSeq(ss)[j] = ss[b][k]
  BY <1>8, FlattenedElements
<1>12. \A b \in 1..Len(ss) : Len(ss[b]) = n /\ \A k \in 1..n : ss[b][k] = QueryAt(g, batch[b], k)
  BY <1>6, <1>8
<1>13. ASSUME NEW j \in 1..Len(FlattenSeq(ss))
       PROVE  \E b \in 1..Len(batch), k \in 1..n : FlattenSeq(ss)[j] = QueryAt(g, batch[b], k)
  <2>1. PICK b \in 1..Len(ss) : \E k \in 1..Len(ss[b]) : FlattenSeq(ss)[j] = ss[b][k]
    BY <1>11
  <2>2. PICK k \in 1..Len(ss[b]) : FlattenSeq(ss)[j] = ss[b][k]
    BY <2>1
  <2>3. b \in 1..Len(batch) /\ k \in 1..n /\ ss[b][k] = QueryAt(g, batch[b], k)
    BY <2>1, <2>2, <1>8, <1>12
  <2> QED
    BY <2>2, <2>3
<1>14. ASSUME NEW b \in 1..Len(batch), NEW k \in 1..n
       PROVE  \E j \in 1..Len(FlattenSeq(ss)) : FlattenSeq(ss)[j] = QueryAt(g, batch[b], k)
  <2>1. b \in 1..Len(ss) /\ k \in 1..Len(ss[b]) /\ ss[b][k] = QueryAt(g, batch[b], k)
    BY <1>8, <1>12
  <2>2. PICK j \in 1..Len(FlattenSeq(ss)) : FlattenSeq(ss)[j] = ss[b][k]
    BY <2>1, <1>11
  <2> QED
    BY <2>1, <2>2
<1> QED
  BY <1>9, <1>10, <1>11, <1>13, <1>14, ListingOf

\* The text askPlaces sends is shorter than what askAll counted for it.
LEMMA BatchSizeIs ==
  ASSUME case \in Cases, NEW g, GroupOK(g), Measured(g), NEW batch \in Seq(1..Len(g.places)),
         batch # << >>
  PROVE  BatchSize(g, batch) \in Nat /\ BatchSize(g, batch) + Trailing = skill.fixed + SizeOf(g, batch)
<1> DEFINE n == Len(batch)
           s == [k \in DOMAIN batch |-> g.places[batch[k]].size]
           t == [k \in DOMAIN batch |-> g.places[batch[k]].size - Trailing]
           F == skill.fixed
<1>1. /\ n \in Nat /\ n >= 1 /\ DOMAIN batch = 1..n
      /\ \A k \in 1..n : batch[k] \in 1..Len(g.places)
  OBVIOUS
<1>2. Trailing = 2
  BY DEF Trailing
<1>3. \A k \in 1..n : /\ g.places[batch[k]].size \in Nat
                      /\ g.places[batch[k]].size - Trailing \in Nat
                      /\ g.places[batch[k]].size = (g.places[batch[k]].size - Trailing) + 2
  <2> SUFFICES ASSUME NEW k \in 1..n
               PROVE  /\ g.places[batch[k]].size \in Nat
                      /\ g.places[batch[k]].size - Trailing \in Nat
                      /\ g.places[batch[k]].size = (g.places[batch[k]].size - Trailing) + 2
    OBVIOUS
  <2> DEFINE x == g.places[batch[k]].size
  <2>1. x \in Nat /\ x >= Trailing
    BY <1>1 DEF Measured
  <2> HIDE DEF x
  <2>2. x - Trailing \in Nat /\ x = (x - Trailing) + 2
    BY <2>1, <1>2
  <2> QED
    BY <2>1, <2>2 DEF x
<1>4. s \in Seq(Nat) /\ Len(s) = n /\ \A k \in 1..n : s[k] = g.places[batch[k]].size
  <2>1. [k \in 1..n |-> g.places[batch[k]].size] \in Seq(Nat)
    BY <1>1, <1>3
  <2> QED
    BY <2>1, <1>1
<1>5. t \in Seq(Nat) /\ Len(t) = n /\ \A k \in 1..n : t[k] = g.places[batch[k]].size - Trailing
  <2>1. [k \in 1..n |-> g.places[batch[k]].size - Trailing] \in Seq(Nat)
    BY <1>1, <1>3
  <2> QED
    BY <2>1, <1>1
<1>6. BatchSize(g, batch) = F + Sum(t) + 2 * (n - 1) /\ SizeOf(g, batch) = Sum(s)
  BY DEF BatchSize, SizeOf
<1>7. F \in Nat
  BY LimitsAre
<1>8. \A k \in 1..n : s[k] = t[k] + 2
  BY <1>3, <1>4, <1>5
<1> HIDE DEF s, t, F, n
<1>9. Sum(t) \in Nat
  BY <1>5, Summed
<1>10. Sum(s) = Sum(t) + n * 2
  <2>1. 2 \in Nat /\ Len(t) = Len(s) /\ \A k \in 1..Len(s) : s[k] = t[k] + 2
    BY <1>4, <1>5, <1>8
  <2>2. Sum(s) = Sum(t) + Len(s) * 2
    BY <2>1, <1>4, <1>5, SumCut
  <2> QED
    BY <2>2, <1>4
<1>11. \A a, b, c \in Nat : c >= 1 => a + b + 2 * (c - 1) \in Nat /\ a + b + 2 * (c - 1) + 2 = a + (b + c * 2)
  OBVIOUS
<1>12. F + Sum(t) + 2 * (n - 1) \in Nat /\ F + Sum(t) + 2 * (n - 1) + 2 = F + (Sum(t) + n * 2)
  BY <1>1, <1>7, <1>9, <1>11
<1> QED
  BY <1>2, <1>6, <1>10, <1>12 DEF F

Fits(r) == r.places > 1 => ~r.cut /\ r.size <= case.maxRequest

LEMMA PlaceRequestIs ==
  ASSUME case \in Cases, NEW g, GroupOK(g), Measured(g), NEW batch \in Seq(1..Len(g.places)),
         batch # << >>, Fitting(g, batch)
  PROVE  /\ PlaceRequest(g, batch).queries = PlaceQueries(g, batch)
         /\ PlaceRequest(g, batch).subject = "places" /\ PlaceRequest(g, batch).skip = "none"
         /\ PlaceRequest(g, batch).places = Len(batch) /\ Len(batch) \in Nat \ {0}
         /\ Fits(PlaceRequest(g, batch))
<1> DEFINE r == PlaceRequest(g, batch)
           B == BatchSize(g, batch)
           Q == PlaceQueries(g, batch)
           n == Len(batch)
           M == case.maxState
           F == skill.fixed
           S == SizeOf(g, batch)
           C == Cost(g)
<1>1. /\ r.queries = Q /\ r.subject = "places" /\ r.skip = "none" /\ r.places = n
      /\ r.cut = (B > M) /\ r.size = Smaller(B, M) + CharsOf(Q)
  BY DEF PlaceRequest, Request, PlaceQueries, QueryAt, CharsOf
<1>2. n \in Nat \ {0}
  OBVIOUS
<1>3. M \in Nat /\ case.maxRequest \in Nat /\ F \in Nat /\ S \in Nat /\ C \in Nat
  BY LimitsAre, SizeIs, CostIs
<1>4. B \in Nat /\ B + 2 = F + S
  BY BatchSizeIs DEF Trailing
<1>5. CharsOf(Q) = n * C
  BY QueriesOfPlaces
<1>6. n > 1 => (F + S + n) - 1 <= M /\ (F + S + n + n * C) - 1 <= case.maxRequest
  BY DEF Fitting, CountedText, CountedTotal
<1> DEFINE K == n * C
           R == case.maxRequest
<1>7. K \in Nat
  BY <1>2, <1>3
<1> HIDE DEF B, Q, n, M, F, S, C, K, R
<1>8. ASSUME n > 1 PROVE ~(B > M) /\ Smaller(B, M) + K <= R
  <2>1. (F + S + n) - 1 <= M /\ (F + S + n + K) - 1 <= R
    BY <1>6, <1>8 DEF K, R
  <2>2. B < M
    BY <2>1, <1>2, <1>3, <1>4, <1>8
  <2>3. Smaller(B, M) = B
    BY <2>2 DEF Smaller
  <2>4. R \in Nat
    BY <1>3 DEF R
  <2>5. B + K <= R
    BY <2>1, <2>4, <1>2, <1>3, <1>4, <1>7, <1>8
  <2> QED
    BY <2>2, <2>3, <2>5, <1>3, <1>4
<1>9. Fits(r)
  BY <1>1, <1>5, <1>8 DEF Fits, K, R
<1> QED
  BY <1>1, <1>2, <1>9 DEF n, Q

LEMMA GroupRequestsAre ==
  ASSUME case \in Cases, NEW g, GroupOK(g), Measured(g)
  PROVE  /\ Sequence(GroupRequests(g))
         /\ Len(GroupRequests(g)) = Len(Batches(g)) /\ Len(Batches(g)) \in Nat
         /\ \A b \in 1..Len(Batches(g)) :
              /\ Batches(g)[b] \in Seq(1..Len(g.places))
              /\ GroupRequests(g)[b] = PlaceRequest(g, Batches(g)[b])
              /\ GroupRequests(g)[b].queries = PlaceQueries(g, Batches(g)[b])
              /\ GroupRequests(g)[b].subject = "places" /\ GroupRequests(g)[b].skip = "none"
              /\ GroupRequests(g)[b].places \in Nat \ {0} /\ Fits(GroupRequests(g)[b])
<1> DEFINE bs == Batches(g)
           n == Len(bs)
<1>1. bs \in Seq(Seq(1..Len(g.places))) /\ \A b \in 1..n : bs[b] # << >> /\ Fitting(g, bs[b])
  BY Batched
<1>2. GroupRequests(g) = [b \in DOMAIN bs |-> PlaceRequest(g, bs[b])]
  BY DEF GroupRequests
<1> HIDE DEF bs
<1>3. n \in Nat /\ DOMAIN bs = 1..n /\ \A b \in 1..n : bs[b] \in Seq(1..Len(g.places))
  BY <1>1
<1>4. GroupRequests(g) = [b \in 1..n |-> GroupRequests(g)[b]]
  BY <1>2, <1>3
<1>5. Sequence(GroupRequests(g)) /\ Len(GroupRequests(g)) = n
  BY <1>3, <1>4, Indexed
<1>6. ASSUME NEW b \in 1..n
      PROVE  /\ GroupRequests(g)[b] = PlaceRequest(g, bs[b])
             /\ GroupRequests(g)[b].queries = PlaceQueries(g, bs[b])
             /\ GroupRequests(g)[b].subject = "places" /\ GroupRequests(g)[b].skip = "none"
             /\ GroupRequests(g)[b].places \in Nat \ {0} /\ Fits(GroupRequests(g)[b])
  <2>1. GroupRequests(g)[b] = PlaceRequest(g, bs[b])
    BY <1>2, <1>3
  <2>2. bs[b] \in Seq(1..Len(g.places)) /\ bs[b] # << >> /\ Fitting(g, bs[b])
    BY <1>1, <1>3
  <2> QED
    BY <2>1, <2>2, PlaceRequestIs
<1> QED
  BY <1>3, <1>5, <1>6 DEF bs

-----------------------------------------------------------------------------
(* Questions of a rule and the groups they make. *)

FindingOK(f) ==
  /\ f = [rule |-> f.rule, severity |-> f.severity, state |-> f.state, at |-> f.at,
          about |-> f.about, reference |-> f.reference, linked |-> f.linked,
          decision |-> f.decision]
  /\ f.rule \in DOMAIN set /\ f.severity \in Severities /\ f.state \in States
  /\ f.decision = {} \/ \E e \in f.decision : f.decision = {e}
  /\ Sequence(f.linked)

SoundSet == \A id \in DOMAIN set : Sound(set[id])

FindingsOK == Sequence(findings) /\ \A k \in 1..Len(findings) : FindingOK(findings[k])

LEMMA TableIs ==
  ASSUME SoundSet, NEW f, f.rule \in DOMAIN set, RuleOf(f).decision # {}
  PROVE  TableOf(RuleOf(f)) \in RuleOf(f).decision /\ SoundTable(TableOf(RuleOf(f)))
<1>1. TableOf(RuleOf(f)) \in RuleOf(f).decision
  BY DEF TableOf
<1>2. Sound(RuleOf(f))
  BY DEF SoundSet, RuleOf
<1> QED
  BY <1>1, <1>2 DEF Sound

\* The questions of a table about a subject, each once.
NamesOf(d, s) == {n \in DOMAIN d.questions : d.questions[n].subject = s}

LEMMA NamedIs ==
  ASSUME NEW d, SoundTable(d), NEW s
  PROVE  /\ Sequence(Named(d, s))
         /\ \A i \in 1..Len(Named(d, s)) :
              /\ Named(d, s)[i].name \in NamesOf(d, s)
              /\ Named(d, s)[i].question = d.questions[Named(d, s)[i].name]
              /\ Named(d, s)[i].question.chars \in Nat
         /\ \A n \in NamesOf(d, s) : \E i \in 1..Len(Named(d, s)) : Named(d, s)[i].name = n
         /\ \A i, j \in 1..Len(Named(d, s)) : Named(d, s)[i].name = Named(d, s)[j].name => i = j
<1> DEFINE N == NamesOf(d, s)
           one(n) == [name |-> n, question |-> d.questions[n]]
           F == {one(n) : n \in N}
<1>1. Named(d, s) = SetToSeq(F)
  BY DEF Named, NamesOf
<1>2. IsFiniteSet(N)
  <2>1. IsFiniteSet(DOMAIN d.questions) /\ N \subseteq DOMAIN d.questions
    BY DEF SoundTable, NamesOf
  <2> QED
    BY <2>1, FS_Subset
<1>3. IsFiniteSet(F)
  <2> DEFINE h == [n \in N |-> one(n)]
  <2>1. h \in Surjection(N, F)
    BY DEF Surjection
  <2> HIDE DEF h
  <2> QED
    BY <2>1, <1>2, FS_Surjection
<1>4. /\ \A x \in F : x.name \in N /\ x.question = d.questions[x.name] /\ x.question.chars \in Nat
      /\ \A x, y \in F : x.name = y.name => x = y
      /\ \A n \in N : \E x \in F : x.name = n
  <2>1. \A n \in N : d.questions[n].chars \in Nat
    BY DEF SoundTable, NamesOf
  <2>2. \A n \in N : one(n).name = n /\ one(n).question = d.questions[n] /\ one(n) \in F
    OBVIOUS
  <2>3. \A x \in F : \E n \in N : x = one(n)
    OBVIOUS
  <2> HIDE DEF one, F, N
  <2>4. ASSUME NEW x \in F
        PROVE  x.name \in N /\ x.question = d.questions[x.name] /\ x.question.chars \in Nat /\ x = one(x.name)
    <3>1. PICK n \in N : x = one(n)
      BY <2>3
    <3> QED
      BY <3>1, <2>1, <2>2
  <2>5. \A x, y \in F : x.name = y.name => x = y
    BY <2>4
  <2>6. \A n \in N : \E x \in F : x.name = n
    BY <2>2
  <2> QED
    BY <2>4, <2>5, <2>6
<1> HIDE DEF F, N
<1> DEFINE q == SetToSeq(F)
<1>5. /\ Sequence(q)
      /\ \A i, j \in 1..Len(q) : q[i] = q[j] => i = j
      /\ \A i \in 1..Len(q) : q[i] \in F
      /\ \A x \in F : \E i \in 1..Len(q) : q[i] = x
  BY <1>3, ListedOf
<1> HIDE DEF q
<1>6. \A i \in 1..Len(q) : /\ q[i].name \in N /\ q[i].question = d.questions[q[i].name]
                           /\ q[i].question.chars \in Nat
  BY <1>4, <1>5
<1>7. ASSUME NEW n \in N PROVE \E i \in 1..Len(q) : q[i].name = n
  <2>1. PICK x \in F : x.name = n
    BY <1>4
  <2> QED
    BY <2>1, <1>5
<1>8. ASSUME NEW i \in 1..Len(q), NEW j \in 1..Len(q), q[i].name = q[j].name PROVE i = j
  <2>1. q[i] \in F /\ q[j] \in F
    BY <1>5
  <2>2. q[i] = q[j]
    BY <2>1, <1>4, <1>8
  <2> QED
    BY <2>2, <1>5
<1> QED
  BY <1>1, <1>5, <1>6, <1>7, <1>8 DEF q, N

\* The places of a group are told apart by their ids.
OwnPlaces(g) == \A i, j \in 1..Len(g.places) : g.places[i].id = g.places[j].id => i = j

LEMMA SizeOfFrame ==
  ASSUME case \in Cases, NEW loc, Frame(loc)
  PROVE  skill.size[Spot(loc)] \in Nat /\ skill.size[Spot(loc)] >= Trailing
<1>1. loc.file \in DOMAIN skill.lines /\ loc.line \in 1..skill.lines[loc.file]
  BY DEF Frame
<1>2. SkillOK(skill)
  BY DecisionAssumption DEF CaseOK, skill
<1>3. skill.size[<<loc.file, loc.line>>] \in {n \in Nat : n >= Trailing}
  BY <1>1, <1>2 DEF SkillOK
<1>4. skill.size[Spot(loc)] \in {n \in Nat : n >= Trailing}
  BY <1>3 DEF Spot
<1> QED
  BY <1>4

\* A group is asked only what it was asked for: its questions have a size.
LEMMA MeasuredStill ==
  ASSUME NEW g, GroupOK(g), Measured(g), NEW names, Sequence(names),
         \A j \in 1..Len(names) : names[j].question.chars \in Nat
  PROVE  Measured(WantAll(g, names))
<1> DEFINE h == WantAll(g, names)
<1>1. More(h, g) /\ AskedFor(h, g, names)
  BY WantedAll
<1> HIDE DEF h
<1>2. ASSUME NEW i \in 1..Len(h.questions) PROVE h.questions[i].question.chars \in Nat
  <2>1. CASE i \in 1..Len(g.questions)
    BY <2>1, <1>1 DEF More, Measured
  <2>2. CASE i \notin 1..Len(g.questions)
    BY <2>2, <1>1 DEF AskedFor
  <2> QED
    BY <2>1, <2>2
<1>3. h.places = g.places
  BY <1>1 DEF More
<1> QED
  BY <1>2, <1>3 DEF Measured, h

\* The findings of a rule about one thing, and the group of their places.
Alike(f) ==
  {k \in DOMAIN findings :
     /\ findings[k].rule = f.rule /\ Undecided(findings[k])
     /\ Target(RuleOf(f), findings[k]) = Target(RuleOf(f), f) /\ Frame(findings[k].at)}

AsksFor(g, d) ==
  /\ \A j \in 1..Len(Named(d, "places")) : Knows(g, Named(d, "places")[j])
  /\ \A i \in 1..Len(g.questions) : \E j \in 1..Len(Named(d, "places")) :
       /\ g.questions[i].origin = Named(d, "places")[j].name
       /\ g.questions[i].question = Named(d, "places")[j].question

LEMMA RuleGroupIs ==
  ASSUME case \in Cases, SoundSet, FindingsOK,
         NEW f, f.rule \in DOMAIN set, RuleOf(f).decision # {}
  PROVE  /\ GroupOK(RuleGroup(f)) /\ Measured(RuleGroup(f))
         /\ OwnIds(RuleGroup(f)) /\ OwnPlaces(RuleGroup(f)) /\ RuleGroup(f).replies = << >>
         /\ AsksFor(RuleGroup(f), TableOf(RuleOf(f)))
         /\ \A k \in Alike(f) : \E p \in 1..Len(RuleGroup(f).places) :
              RuleGroup(f).places[p].at = Spot(findings[k].at)
<1> DEFINE d == TableOf(RuleOf(f))
           names == Named(d, "places")
           I == Alike(f)
           others == Picked(findings, I)
           place(k) == [id |-> k, at |-> Spot(others[k].at), locations |-> {},
                        size |-> skill.size[Spot(others[k].at)]]
           places == [k \in DOMAIN others |-> place(k)]
           empty == [subject |-> Target(RuleOf(f), f), questions |-> << >>, replies |-> << >>,
                     places |-> places]
           g == RuleGroup(f)
<1>1. g = WantAll(empty, names)
  BY DEF RuleGroup, Alike
<1>2. /\ Sequence(names)
      /\ \A j \in 1..Len(names) : names[j].question.chars \in Nat
  BY TableIs, NamedIs
<1>3. Sequence(findings) /\ I \in SUBSET (1..Len(findings))
  BY Listing DEF FindingsOK, Alike
<1> HIDE DEF I, names
<1>4. /\ Sequence(others)
      /\ \A j \in 1..Len(others) : \E k \in I : others[j] = findings[k]
      /\ \A k \in I : \E j \in 1..Len(others) : others[j] = findings[k]
  BY <1>3, PickedOf
<1> HIDE DEF others
<1>5. Len(others) \in Nat /\ DOMAIN others = 1..Len(others)
  BY <1>4, Listing
<1>6. /\ Sequence(places) /\ Len(places) = Len(others)
      /\ \A k \in 1..Len(others) :
           /\ places[k].id = k /\ places[k].at = Spot(others[k].at)
           /\ places[k].size = skill.size[Spot(others[k].at)]
  <2>1. places = [k \in 1..Len(others) |-> places[k]]
    BY <1>5
  <2>2. \A k \in 1..Len(others) :
          /\ places[k].id = k /\ places[k].at = Spot(others[k].at)
          /\ places[k].size = skill.size[Spot(others[k].at)]
    BY <1>5
  <2> HIDE DEF places
  <2> QED
    BY <2>1, <2>2, <1>5, Indexed
<1>7. \A k \in 1..Len(others) : /\ skill.size[Spot(others[k].at)] \in Nat
                                 /\ skill.size[Spot(others[k].at)] >= Trailing
  <2>1. \A k \in I : Frame(findings[k].at)
    BY DEF I, Alike
  <2>2. \A k \in 1..Len(others) : Frame(others[k].at)
    BY <2>1, <1>4
  <2> QED
    BY <2>2, SizeOfFrame
<1> HIDE DEF places
<1>8. /\ empty = [subject |-> empty.subject, questions |-> empty.questions,
                  replies |-> empty.replies, places |-> empty.places]
      /\ empty.questions = << >> /\ empty.places = places /\ empty.replies = << >>
  OBVIOUS
<1>9. Sequence(<< >>) /\ Len(<< >>) = 0
  BY DEF Sequence
<1> HIDE DEF empty
<1>10. GroupOK(empty)
  BY <1>6, <1>8, <1>9 DEF GroupOK
<1>11. Measured(empty)
  <2>1. \A k \in 1..Len(places) : places[k].size \in Nat /\ places[k].size >= Trailing
    BY <1>6, <1>7
  <2>2. \A i \in 1..Len(empty.questions) : empty.questions[i].question.chars \in Nat
    BY <1>8, <1>9
  <2> QED
    BY <2>1, <2>2, <1>8 DEF Measured
<1>12. OwnIds(empty)
  BY <1>8, <1>9 DEF OwnIds
<1>13. Measured(g)
  BY <1>1, <1>2, <1>10, <1>11, MeasuredStill
<1>14. /\ More(g, empty) /\ OwnIds(g) /\ AskedFor(g, empty, names)
       /\ \A j \in 1..Len(names) : Knows(g, names[j])
  BY <1>1, <1>2, <1>10, <1>12, WantedAll
<1> HIDE DEF g
<1>15. GroupOK(g) /\ g.places = places /\ g.replies = << >>
  BY <1>8, <1>14 DEF More
<1>16. AsksFor(g, d)
  BY <1>8, <1>9, <1>14 DEF AskedFor, AsksFor, names
<1>17. OwnPlaces(g)
  BY <1>6, <1>15 DEF OwnPlaces
<1>18. ASSUME NEW k \in I PROVE \E p \in 1..Len(g.places) : g.places[p].at = Spot(findings[k].at)
  <2>1. PICK j \in 1..Len(others) : others[j] = findings[k]
    BY <1>4
  <2>2. j \in 1..Len(g.places) /\ g.places[j].at = Spot(findings[k].at)
    BY <2>1, <1>6, <1>15
  <2> QED
    BY <2>2
<1> QED
  BY <1>13, <1>14, <1>15, <1>16, <1>17, <1>18 DEF g, I

\* The places of a reference are some of those it is named at.
LEMMA RefPlacesAre ==
  ASSUME case \in Cases, NEW ref \in ToSet(skill.refs)
  PROVE  /\ Sequence(ref.at) /\ Sequence(RefPlaces(ref))
         /\ \A k \in 1..Len(RefPlaces(ref)) :
              /\ \E j \in 1..Len(ref.at) : RefPlaces(ref)[k].at = Spot(ref.at[j])
              /\ RefPlaces(ref)[k].size \in Nat /\ RefPlaces(ref)[k].size >= Trailing
         /\ \A i, j \in 1..Len(RefPlaces(ref)) :
              RefPlaces(ref)[i].id = RefPlaces(ref)[j].id => i = j
<1> DEFINE at == ref.at
           shown(j) == <<Spot(at[j]), skill.feeds[Spot(at[j])]>>
           I == {j \in DOMAIN at : Frame(at[j]) /\ \A k \in 1..(j - 1) : shown(k) # shown(j)}
           seen == Picked(Positions(at), I)
           place(k) == [id |-> seen[k], at |-> Spot(at[seen[k]]),
                        locations |-> {j \in DOMAIN at : shown(j) = shown(seen[k])},
                        size |-> skill.size[Spot(at[seen[k]])]]
           ps == RefPlaces(ref)
<1>1. SkillOK(skill)
  BY DecisionAssumption DEF CaseOK, skill
<1>2. Sequence(at)
  <2>1. PICK i \in DOMAIN skill.refs : ref = skill.refs[i]
    BY DEF ToSet
  <2> QED
    BY <2>1, <1>1 DEF SkillOK
<1>3. Len(at) \in Nat /\ DOMAIN at = 1..Len(at)
  BY <1>2, Listing
<1>4. ps = [k \in DOMAIN seen |-> place(k)]
  BY DEF RefPlaces
<1>5. I \in SUBSET (1..Len(at)) /\ \A j \in I : Frame(at[j])
  BY <1>3
<1> HIDE DEF I
<1>6. /\ seen \in Seq(I)
      /\ \A i, j \in 1..Len(seen) : seen[i] = seen[j] => i = j
  BY <1>3, <1>5, PickedPositions
<1> HIDE DEF seen
<1>7. /\ Len(seen) \in Nat /\ DOMAIN seen = 1..Len(seen)
      /\ \A k \in 1..Len(seen) : seen[k] \in 1..Len(at) /\ Frame(at[seen[k]])
  <2>1. Len(seen) \in Nat /\ DOMAIN seen = 1..Len(seen) /\ \A k \in 1..Len(seen) : seen[k] \in I
    BY <1>6
  <2> QED
    BY <2>1, <1>5
<1>8. \A k \in 1..Len(seen) : /\ ps[k].id = seen[k] /\ ps[k].at = Spot(at[seen[k]])
                              /\ ps[k].size = skill.size[Spot(at[seen[k]])]
  BY <1>4, <1>7
<1>9. ps = [k \in 1..Len(seen) |-> ps[k]]
  BY <1>4, <1>7
<1> HIDE DEF ps
<1>10. Sequence(ps) /\ Len(ps) = Len(seen)
  BY <1>7, <1>9, Indexed
<1>11. \A k \in 1..Len(seen) : skill.size[Spot(at[seen[k]])] \in Nat
                               /\ skill.size[Spot(at[seen[k]])] >= Trailing
  BY <1>7, SizeOfFrame
<1>12. ASSUME NEW k \in 1..Len(ps)
       PROVE  /\ \E j \in 1..Len(at) : ps[k].at = Spot(at[j])
              /\ ps[k].size \in Nat /\ ps[k].size >= Trailing
  BY <1>7, <1>8, <1>10, <1>11
<1>13. \A i, j \in 1..Len(ps) : ps[i].id = ps[j].id => i = j
  BY <1>6, <1>8, <1>10
<1> QED
  BY <1>2, <1>10, <1>12, <1>13 DEF ps

LEMMA RefQuestionsAre ==
  ASSUME SoundSet, FindingsOK, NEW ref
  PROVE  /\ Sequence(RefQuestions(ref))
         /\ \A j \in 1..Len(RefQuestions(ref)) : RefQuestions(ref)[j].question.chars \in Nat
<1> DEFINE I == {k \in DOMAIN findings :
                   LET f == findings[k]
                   IN  /\ f.reference = ref.value /\ RuleOf(f).layer = "references"
                       /\ RuleOf(f).decision # {} /\ Undecided(f)}
           mine == Picked(findings, I)
           named(k) == Named(TableOf(RuleOf(mine[k])), "places")
           ss == [k \in DOMAIN mine |-> named(k)]
           own == IF Categorized(ref) THEN <<UsageQuestion>> ELSE << >>
<1>1. RefQuestions(ref) = own \o FlattenSeq(ss)
  BY DEF RefQuestions
<1>2. Sequence(findings) /\ I \in SUBSET (1..Len(findings))
  BY Listing DEF FindingsOK
<1>3. \A k \in I : RuleOf(findings[k]).decision # {} /\ findings[k].rule \in DOMAIN set
  BY <1>2 DEF FindingsOK, FindingOK
<1> HIDE DEF I
<1>4. Sequence(mine) /\ \A j \in 1..Len(mine) : \E k \in I : mine[j] = findings[k]
  BY <1>2, PickedOf
<1> HIDE DEF mine
<1>5. Len(mine) \in Nat /\ DOMAIN mine = 1..Len(mine)
  BY <1>4, Listing
<1>6. ASSUME NEW k \in 1..Len(mine)
      PROVE  /\ Sequence(named(k))
             /\ \A i \in 1..Len(named(k)) : named(k)[i].question.chars \in Nat
  <2>1. RuleOf(mine[k]).decision # {} /\ mine[k].rule \in DOMAIN set
    BY <1>3, <1>4
  <2> QED
    BY <2>1, TableIs, NamedIs
<1> HIDE DEF named
<1>7. ss = [k \in 1..Len(mine) |-> ss[k]] /\ \A k \in 1..Len(mine) : ss[k] = named(k)
  BY <1>5
<1> HIDE DEF ss
<1>8. Sequence(ss) /\ Len(ss) = Len(mine)
  BY <1>5, <1>7, Indexed
<1>9. \A k \in 1..Len(ss) : Sequence(ss[k])
  BY <1>6, <1>7, <1>8
<1> DEFINE fl == FlattenSeq(ss)
<1>10. /\ Sequence(fl)
       /\ \A j \in 1..Len(fl) : \E k \in 1..Len(ss) : \E i \in 1..Len(ss[k]) : fl[j] = ss[k][i]
  BY <1>8, <1>9, FlattenedOf
<1> HIDE DEF fl
<1>11. \A k \in 1..Len(ss) : \A i \in 1..Len(ss[k]) : ss[k][i].question.chars \in Nat
  BY <1>6, <1>7, <1>8
<1>12. \A j \in 1..Len(fl) : fl[j].question.chars \in Nat
  BY <1>10, <1>11
<1>13. Sequence(own) /\ \A j \in 1..Len(own) : own[j].question.chars \in Nat
  <2>1. CASE Categorized(ref)
    <3>1. own = <<UsageQuestion>> /\ UsageQuestion.question.chars = 1
      BY <2>1 DEF UsageQuestion, Template
    <3> HIDE DEF own
    <3>2. own \in Seq({UsageQuestion}) /\ Len(own) = 1 /\ own[1] = UsageQuestion
      BY <3>1
    <3>3. Sequence(own)
      BY <3>2, ListingOf
    <3>4. \A j \in 1..Len(own) : j = 1
      BY <3>2
    <3> QED
      BY <3>1, <3>2, <3>3, <3>4
  <2>2. CASE ~Categorized(ref)
    BY <2>2 DEF Sequence
  <2> QED
    BY <2>1, <2>2
<1> HIDE DEF own
<1> DEFINE qs == own \o fl
<1>14. /\ Sequence(qs) /\ Len(qs) = Len(own) + Len(fl)
       /\ \A i \in 1..Len(own) : qs[i] = own[i]
       /\ \A j \in 1..Len(fl) : qs[Len(own) + j] = fl[j]
       /\ \A i \in 1..(Len(own) + Len(fl)) :
            i \in 1..Len(own) \/ \E j \in 1..Len(fl) : i = Len(own) + j
  BY <1>10, <1>13, Joining
<1> HIDE DEF qs
<1>15. ASSUME NEW i \in 1..Len(qs) PROVE qs[i].question.chars \in Nat
  <2>1. CASE i \in 1..Len(own)
    BY <2>1, <1>13, <1>14
  <2>2. CASE i \notin 1..Len(own)
    <3>1. PICK j \in 1..Len(fl) : i = Len(own) + j
      BY <2>2, <1>14
    <3> QED
      BY <3>1, <1>12, <1>14
  <2> QED
    BY <2>1, <2>2
<1> QED
  BY <1>1, <1>14, <1>15 DEF qs, fl

LEMMA RefGroupIs ==
  ASSUME case \in Cases, SoundSet, FindingsOK, NEW ref \in ToSet(skill.refs), RefGroup(ref) # {}
  PROVE  /\ RefGroup(ref) = {The(RefGroup(ref))}
         /\ GroupOK(The(RefGroup(ref))) /\ Measured(The(RefGroup(ref)))
         /\ OwnIds(The(RefGroup(ref))) /\ OwnPlaces(The(RefGroup(ref)))
         /\ The(RefGroup(ref)).replies = << >>
         /\ \A k \in 1..Len(The(RefGroup(ref)).places) : \E j \in 1..Len(ref.at) :
              The(RefGroup(ref)).places[k].at = Spot(ref.at[j])
<1> DEFINE ps == RefPlaces(ref)
           qs == RefQuestions(ref)
           empty == [subject |-> ref.value, questions |-> << >>, replies |-> << >>, places |-> ps]
           g == WantAll(empty, qs)
<1>1. RefGroup(ref) = {g}
  BY DEF RefGroup
<1>2. The(RefGroup(ref)) = g
  BY <1>1 DEF The
<1>3. /\ Sequence(ref.at) /\ Sequence(ps)
      /\ \A k \in 1..Len(ps) : /\ \E j \in 1..Len(ref.at) : ps[k].at = Spot(ref.at[j])
                               /\ ps[k].size \in Nat /\ ps[k].size >= Trailing
      /\ \A i, j \in 1..Len(ps) : ps[i].id = ps[j].id => i = j
  BY RefPlacesAre
<1>4. Sequence(qs) /\ \A j \in 1..Len(qs) : qs[j].question.chars \in Nat
  BY RefQuestionsAre
<1> HIDE DEF ps, qs
<1>5. /\ empty = [subject |-> empty.subject, questions |-> empty.questions,
                  replies |-> empty.replies, places |-> empty.places]
      /\ empty.questions = << >> /\ empty.places = ps /\ empty.replies = << >>
  OBVIOUS
<1>6. Sequence(<< >>) /\ Len(<< >>) = 0
  BY DEF Sequence
<1> HIDE DEF empty
<1>7. GroupOK(empty)
  BY <1>3, <1>5, <1>6 DEF GroupOK
<1>8. Measured(empty)
  <2>1. \A i \in 1..Len(empty.questions) : empty.questions[i].question.chars \in Nat
    BY <1>5, <1>6
  <2>2. \A k \in 1..Len(ps) : ps[k].size \in Nat /\ ps[k].size >= Trailing
    BY <1>3
  <2> QED
    BY <2>1, <2>2, <1>5 DEF Measured
<1>9. OwnIds(empty)
  BY <1>5, <1>6 DEF OwnIds
<1>10. Measured(g)
  BY <1>4, <1>7, <1>8, MeasuredStill
<1>11. More(g, empty) /\ OwnIds(g)
  BY <1>4, <1>7, <1>9, WantedAll
<1> HIDE DEF g
<1>12. GroupOK(g) /\ g.places = ps /\ g.replies = << >>
  BY <1>5, <1>11 DEF More
<1>13. OwnPlaces(g)
  BY <1>3, <1>12 DEF OwnPlaces
<1>14. \A k \in 1..Len(g.places) : \E j \in 1..Len(ref.at) : g.places[k].at = Spot(ref.at[j])
  BY <1>3, <1>12
<1> QED
  BY <1>1, <1>2, <1>10, <1>11, <1>12, <1>13, <1>14

-----------------------------------------------------------------------------
(* The requests about a finding. *)

\* A request for one text: every question of table d about the subject, and what
\* is shown is the finding's own.
TextsFor(f, s) ==
  CASE s = "trace" -> {<<"trace", f.linked[k]>> : k \in DOMAIN f.linked}
                        \cup {<<"frame", Spot(f.at)>>}
    [] s = "facts" -> {<<"facts", f.reference>>}
    [] OTHER -> {<<s, Spot(f.at)>>}

AboutRequest(r, d, f, s) ==
  /\ r.subject = s /\ r.places = 0
  /\ Sequence(r.queries)
  /\ \A j \in 1..Len(r.queries) :
       /\ r.queries[j].id \in NamesOf(d, s)
       /\ r.queries[j].asks[1] = Content(d.questions[r.queries[j].id])
       /\ r.skip = "none" => r.queries[j].asks[3] \in TextsFor(f, s)
  /\ \A n \in NamesOf(d, s) : \E j \in 1..Len(r.queries) : r.queries[j].id = n

LEMMA AsksAre ==
  ASSUME NEW d, SoundTable(d), NEW f,
         NEW s, NEW label, NEW skip, NEW size, NEW about, NEW shown,
         skip = "none" => shown \in TextsFor(f, s)
  PROVE  AboutRequest(Request(s, label, skip, size, Asks(Named(d, s), about, shown)), d, f, s)
<1> DEFINE names == Named(d, s)
           qs == Asks(names, about, shown)
           r == Request(s, label, skip, size, qs)
<1>2. /\ Sequence(names)
      /\ \A i \in 1..Len(names) :
           names[i].name \in NamesOf(d, s) /\ names[i].question = d.questions[names[i].name]
      /\ \A n \in NamesOf(d, s) : \E i \in 1..Len(names) : names[i].name = n
  BY NamedIs
<1> HIDE DEF names
<1>3. Len(names) \in Nat /\ DOMAIN names = 1..Len(names)
  BY <1>2, Listing
<1>4. /\ qs = [k \in 1..Len(names) |-> qs[k]]
      /\ \A k \in 1..Len(names) :
           /\ qs[k].id = names[k].name /\ qs[k].asks[1] = Content(names[k].question)
           /\ qs[k].asks[3] = shown
  BY <1>3 DEF Asks, Query
<1>5. r.subject = s /\ r.places = 0 /\ r.queries = qs /\ r.skip = skip
  BY DEF Request
<1> HIDE DEF qs, r
<1>6. Sequence(qs) /\ Len(qs) = Len(names)
  BY <1>3, <1>4, Indexed
<1>7. ASSUME NEW j \in 1..Len(qs)
      PROVE  /\ qs[j].id \in NamesOf(d, s) /\ qs[j].asks[1] = Content(d.questions[qs[j].id])
             /\ skip = "none" => qs[j].asks[3] \in TextsFor(f, s)
  BY <1>2, <1>4, <1>6
<1>8. ASSUME NEW n \in NamesOf(d, s) PROVE \E j \in 1..Len(qs) : qs[j].id = n
  <2>1. PICK i \in 1..Len(names) : names[i].name = n
    BY <1>2
  <2> QED
    BY <2>1, <1>4, <1>6
<1>9. AboutRequest(r, d, f, s)
  BY <1>5, <1>6, <1>7, <1>8 DEF AboutRequest
<1> QED
  BY <1>9 DEF r, qs, names

LEMMA OneOf ==
  ASSUME NEW x
  PROVE  Sequence(<<x>>) /\ Len(<<x>>) = 1 /\ \A k \in 1..Len(<<x>>) : <<x>>[k] = x
<1>1. <<x>> \in Seq({x}) /\ Len(<<x>>) = 1 /\ <<x>>[1] = x
  OBVIOUS
<1>2. \A k \in 1..1 : k = 1
  OBVIOUS
<1> QED
  BY <1>1, <1>2, ListingOf

LEMMA SingleIs ==
  ASSUME SoundSet, NEW f, f.rule \in DOMAIN set, RuleOf(f).decision # {},
         NEW s, NEW state, (s = "trace" /\ state = "frame") \/ (s \in {"frame", "entry", "facts"} /\ state = s)
  PROVE  /\ Sequence(Single(f, s, state))
         /\ \A k \in 1..Len(Single(f, s, state)) : AboutRequest(Single(f, s, state)[k], TableOf(RuleOf(f)), f, s)
<1> DEFINE d == TableOf(RuleOf(f))
           names == Named(d, s)
           one(skip, size, shown) == Request(s, "none", skip, size, Asks(names, f.about, shown))
           spot == Spot(f.at)
           t == Single(f, s, state)
<1>1. ASSUME NEW skip, NEW size, NEW shown, t = <<one(skip, size, shown)>>,
             skip = "none" => shown \in TextsFor(f, s)
      PROVE  Sequence(t) /\ \A k \in 1..Len(t) : AboutRequest(t[k], d, f, s)
  <2>1. AboutRequest(one(skip, size, shown), d, f, s)
    BY <1>1, TableIs, AsksAre
  <2> HIDE DEF one, t
  <2> QED
    BY <2>1, <1>1, OneOf
<1>2. CASE state = "frame"
  <2>1. <<"frame", spot>> \in TextsFor(f, s)
    BY <1>2 DEF TextsFor
  <2>2. t = IF Frame(f.at) THEN <<one("none", skill.size[spot], <<"frame", spot>>)>>
            ELSE <<one("no-line", 0, << >>)>>
    BY <1>2 DEF Single
  <2> HIDE DEF t, one
  <2>3. Sequence(t) /\ \A k \in 1..Len(t) : AboutRequest(t[k], d, f, s)
    BY ONLY <2>1, <2>2, <1>1, Zenon
  <2> QED
    BY <2>3 DEF t
<1>3. CASE state = "entry"
  <2>1. <<"entry", spot>> \in TextsFor(f, s)
    BY <1>3 DEF TextsFor
  <2>2. t = IF skill.entry > 0
            THEN <<one("none", Smaller(skill.entry, case.maxState), <<"entry", spot>>)>>
            ELSE <<one("no-entry", 0, << >>)>>
    BY <1>3 DEF Single
  <2> HIDE DEF t, one
  <2>3. Sequence(t) /\ \A k \in 1..Len(t) : AboutRequest(t[k], d, f, s)
    BY ONLY <2>1, <2>2, <1>1, Zenon
  <2> QED
    BY <2>3 DEF t
<1>4. CASE state = "facts"
  <2>1. <<"facts", f.reference>> \in TextsFor(f, s)
    BY <1>4 DEF TextsFor
  <2>2. t = IF f.reference # "none" /\ \E k \in DOMAIN skill.refs : skill.refs[k].value = f.reference
            THEN <<one("none", skill.facts, <<"facts", f.reference>>)>>
            ELSE <<one("no-reference", 0, << >>)>>
    BY <1>4 DEF Single
  <2> HIDE DEF t, one
  <2>3. Sequence(t) /\ \A k \in 1..Len(t) : AboutRequest(t[k], d, f, s)
    BY ONLY <2>1, <2>2, <1>1, Zenon
  <2> QED
    BY <2>3 DEF t
<1> QED
  BY <1>2, <1>3, <1>4

LEMMA TracedIs ==
  ASSUME SoundSet, NEW f, f.rule \in DOMAIN set, RuleOf(f).decision # {}, Sequence(f.linked)
  PROVE  /\ Sequence(Traced(f))
         /\ \A k \in 1..Len(Traced(f)) : AboutRequest(Traced(f)[k], TableOf(RuleOf(f)), f, "trace")
<1> DEFINE t == Traced(f)
           d == TableOf(RuleOf(f))
           names == Named(d, "trace")
           label(k) == IF Len(f.linked) > 1 THEN <<"T", k>> ELSE "none"
           skip(k) == IF skill.code.trace[f.linked[k]].calls # {} THEN "none" ELSE "no-call"
           one(k) == Request("trace", label(k), skip(k), skill.trace,
                             Asks(names, f.linked[k], <<"trace", f.linked[k]>>))
<1>1. CASE f.linked = << >>
  <2>1. t = Single(f, "trace", "frame")
    BY <1>1 DEF Traced
  <2> QED
    BY <2>1, SingleIs
<1>2. CASE f.linked # << >>
  <2>1. Len(f.linked) \in Nat /\ DOMAIN f.linked = 1..Len(f.linked)
    BY Listing
  <2>2. t = [k \in DOMAIN f.linked |-> one(k)]
    BY <1>2 DEF Traced
  <2>3. ASSUME NEW k \in DOMAIN f.linked PROVE AboutRequest(one(k), d, f, "trace")
    <3>1. <<"trace", f.linked[k]>> \in TextsFor(f, "trace")
      BY DEF TextsFor
    <3> HIDE DEF label, skip
    <3> QED
      BY <3>1, TableIs, AsksAre
  <2> HIDE DEF one, t
  <2>4. t = [k \in 1..Len(f.linked) |-> t[k]] /\ \A k \in 1..Len(f.linked) : t[k] = one(k)
    BY <2>1, <2>2
  <2>5. Sequence(t) /\ Len(t) = Len(f.linked)
    BY <2>1, <2>4, Indexed
  <2>6. \A k \in 1..Len(t) : AboutRequest(t[k], d, f, "trace")
    BY <2>1, <2>3, <2>4, <2>5
  <2> QED
    BY <2>5, <2>6 DEF t
<1> QED
  BY <1>1, <1>2

\* A request for places of group g: every query is one of its questions at one of its
\* places.
PlacesRequest(r, g) ==
  /\ r.subject = "places" /\ r.skip = "none" /\ r.places \in Nat \ {0}
  /\ Sequence(r.queries)
  /\ \A j \in 1..Len(r.queries) : \E p \in 1..Len(g.places), k \in 1..Len(g.questions) :
       r.queries[j] = QueryAt(g, p, k)

\* Every question of the group is asked at every place, in one of the requests.
Covers(t, g) ==
  \A p \in 1..Len(g.places) : \E b \in 1..Len(t) :
    /\ t[b].places \in Nat \ {0} /\ t[b].skip = "none"
    /\ \A k \in 1..Len(g.questions) : \E j \in 1..Len(t[b].queries) :
         t[b].queries[j].id = <<g.places[p].id, g.questions[k].id>>

AskedGroup(g) == g = {} \/ (g = {The(g)} /\ GroupOK(The(g)) /\ Measured(The(g)))

LEMMA GroupsRequestsAre ==
  ASSUME case \in Cases, NEW g, AskedGroup(g)
  PROVE  /\ Sequence(GroupsRequests(g))
         /\ \A b \in 1..Len(GroupsRequests(g)) :
              g # {} /\ PlacesRequest(GroupsRequests(g)[b], The(g)) /\ Fits(GroupsRequests(g)[b])
         /\ g # {} => Covers(GroupsRequests(g), The(g))
<1>1. CASE g = {}
  <2>1. GroupsRequests(g) = << >>
    BY <1>1 DEF GroupsRequests
  <2>2. Sequence(<< >>) /\ Len(<< >>) = 0
    BY DEF Sequence
  <2> QED
    BY <2>1, <2>2, <1>1
<1>2. CASE g # {}
  <2> DEFINE h == The(g)
             t == GroupRequests(h)
             bs == Batches(h)
             n == Len(bs)
  <2>1. GroupsRequests(g) = t /\ GroupOK(h) /\ Measured(h)
    BY <1>2 DEF GroupsRequests, AskedGroup
  <2> HIDE DEF h
  <2>2. /\ Sequence(t) /\ Len(t) = n /\ n \in Nat
        /\ \A b \in 1..n :
             /\ bs[b] \in Seq(1..Len(h.places)) /\ t[b].queries = PlaceQueries(h, bs[b])
             /\ t[b].subject = "places" /\ t[b].skip = "none"
             /\ t[b].places \in Nat \ {0} /\ Fits(t[b])
    BY <2>1, GroupRequestsAre
  <2>3. \A k \in 1..Len(h.places) : \E b \in 1..n : \E i \in 1..Len(bs[b]) : bs[b][i] = k
    BY <2>1, Batched
  <2> HIDE DEF t, bs
  <2>4. ASSUME NEW b \in 1..n
        PROVE  /\ PlacesRequest(t[b], h)
               /\ \A i \in 1..Len(bs[b]), k \in 1..Len(h.questions) :
                    \E j \in 1..Len(t[b].queries) : t[b].queries[j] = QueryAt(h, bs[b][i], k)
    <3> DEFINE qs == PlaceQueries(h, bs[b])
    <3>1. bs[b] \in Seq(1..Len(h.places))
      BY <2>2
    <3>2. /\ Sequence(qs)
          /\ \A j \in 1..Len(qs) : \E i \in 1..Len(bs[b]), k \in 1..Len(h.questions) :
               qs[j] = QueryAt(h, bs[b][i], k)
          /\ \A i \in 1..Len(bs[b]), k \in 1..Len(h.questions) :
               \E j \in 1..Len(qs) : qs[j] = QueryAt(h, bs[b][i], k)
      BY <2>1, <3>1, QueriesOfPlaces
    <3>3. \A i \in 1..Len(bs[b]) : bs[b][i] \in 1..Len(h.places)
      BY <3>1
    <3> HIDE DEF qs
    <3>4. t[b].queries = qs
      BY <2>2 DEF qs
    <3>5. \A j \in 1..Len(qs) : \E p \in 1..Len(h.places), k \in 1..Len(h.questions) :
            qs[j] = QueryAt(h, p, k)
      <4> SUFFICES ASSUME NEW j \in 1..Len(qs)
                   PROVE  \E p \in 1..Len(h.places), k \in 1..Len(h.questions) :
                            qs[j] = QueryAt(h, p, k)
        OBVIOUS
      <4>1. PICK i \in 1..Len(bs[b]), k \in 1..Len(h.questions) : qs[j] = QueryAt(h, bs[b][i], k)
        BY <3>2
      <4> QED
        BY <4>1, <3>3
    <3> QED
      BY <2>2, <3>2, <3>4, <3>5 DEF PlacesRequest
  <2>5. Covers(t, h)
    <3> SUFFICES ASSUME NEW p \in 1..Len(h.places)
                 PROVE  \E b \in 1..Len(t) :
                          /\ t[b].places \in Nat \ {0} /\ t[b].skip = "none"
                          /\ \A k \in 1..Len(h.questions) : \E j \in 1..Len(t[b].queries) :
                               t[b].queries[j].id = <<h.places[p].id, h.questions[k].id>>
      BY DEF Covers
    <3>1. PICK b \in 1..n : \E i \in 1..Len(bs[b]) : bs[b][i] = p
      BY <2>3
    <3>2. PICK i \in 1..Len(bs[b]) : bs[b][i] = p
      BY <3>1
    <3>3. ASSUME NEW k \in 1..Len(h.questions)
          PROVE  \E j \in 1..Len(t[b].queries) :
                   t[b].queries[j].id = <<h.places[p].id, h.questions[k].id>>
      <4>1. PICK j \in 1..Len(t[b].queries) : t[b].queries[j] = QueryAt(h, bs[b][i], k)
        BY <2>4
      <4>2. t[b].queries[j].id = <<h.places[p].id, h.questions[k].id>>
        BY <4>1, <3>2 DEF QueryAt, Query
      <4> QED
        BY <4>2
    <3> QED
      BY <2>2, <3>3
  <2> QED
    BY <2>1, <2>2, <2>4, <2>5, <1>2 DEF h
<1> QED
  BY <1>1, <1>2

\* What a request about finding f is, whose table is d; g is the group asked about for
\* it.
OwnRequest(r, d, f, g) ==
  \/ r.subject \in Subjects \ {"places"} /\ AboutRequest(r, d, f, r.subject)
  \/ g # {} /\ PlacesRequest(r, The(g))

OwnRequests(t, d, f, g) ==
  Sequence(t) /\ \A k \in 1..Len(t) : OwnRequest(t[k], d, f, g)

AllFit(t) == \A k \in 1..Len(t) : Fits(t[k])

LEMMA RequestsAboutAre ==
  ASSUME case \in Cases, SoundSet, NEW f, FindingOK(f), RuleOf(f).decision # {},
         NEW g, AskedGroup(g), NEW s \in Subjects
  PROVE  /\ OwnRequests(RequestsAbout(f, g, s), TableOf(RuleOf(f)), f, g)
         /\ AllFit(RequestsAbout(f, g, s))
<1> DEFINE t == RequestsAbout(f, g, s)
           d == TableOf(RuleOf(f))
<1>1. f.rule \in DOMAIN set /\ Sequence(f.linked)
  BY DEF FindingOK
<1> HIDE DEF d
<1>2. CASE s \notin SubjectsOf(d)
  <2>1. t = << >>
    BY <1>2 DEF RequestsAbout, d
  <2>2. Sequence(<< >>) /\ Len(<< >>) = 0
    BY DEF Sequence
  <2> QED
    BY <2>1, <2>2 DEF OwnRequests, AllFit, d
<1>3. ASSUME NEW u, Sequence(u), s # "places",
             \A k \in 1..Len(u) : AboutRequest(u[k], d, f, s), t = u
      PROVE  OwnRequests(t, d, f, g) /\ AllFit(t)
  <2>1. \A k \in 1..Len(u) : u[k].subject = s /\ u[k].places = 0
    BY <1>3 DEF AboutRequest
  <2> HIDE DEF t
  <2>2. \A k \in 1..Len(u) : Fits(u[k])
    BY <2>1 DEF Fits
  <2>3. \A k \in 1..Len(u) : OwnRequest(u[k], d, f, g)
    BY <2>1, <1>3 DEF OwnRequest
  <2> QED
    BY <2>2, <2>3, <1>3 DEF OwnRequests, AllFit
<1>4. CASE s \in SubjectsOf(d) /\ s = "places"
  <2>1. t = GroupsRequests(g)
    BY <1>4 DEF RequestsAbout, d
  <2> HIDE DEF t
  <2> QED
    BY <2>1, GroupsRequestsAre DEF OwnRequest, OwnRequests, AllFit, t, d
<1>5. CASE s \in SubjectsOf(d) /\ s = "trace"
  <2>1. t = Traced(f)
    BY <1>5 DEF RequestsAbout, d
  <2>2. Sequence(Traced(f)) /\ \A k \in 1..Len(Traced(f)) : AboutRequest(Traced(f)[k], d, f, s)
    BY <1>1, <1>5, TracedIs DEF d
  <2> HIDE DEF t
  <2> QED
    BY <2>1, <2>2, <1>3, <1>5 DEF t, d
<1>6. CASE s \in SubjectsOf(d) /\ s \in {"frame", "entry", "facts"}
  <2>1. t = Single(f, s, s)
    BY <1>6 DEF RequestsAbout, d
  <2>2. Sequence(Single(f, s, s)) /\ \A k \in 1..Len(Single(f, s, s)) : AboutRequest(Single(f, s, s)[k], d, f, s)
    BY <1>1, <1>6, SingleIs DEF d
  <2> HIDE DEF t
  <2> QED
    BY <2>1, <2>2, <1>3, <1>6 DEF t, d
<1> QED
  BY <1>2, <1>4, <1>5, <1>6 DEF Subjects

Within(a, c) == \A k \in 1..Len(a) : \E j \in 1..Len(c) : c[j] = a[k]

\* Two listings of requests, one after the other.
LEMMA OwnJoined ==
  ASSUME NEW d, NEW f, NEW g, NEW a, NEW b, OwnRequests(a, d, f, g), OwnRequests(b, d, f, g),
         AllFit(a), AllFit(b)
  PROVE  /\ OwnRequests(a \o b, d, f, g) /\ AllFit(a \o b)
         /\ Within(a, a \o b) /\ Within(b, a \o b)
<1> DEFINE c == a \o b
<1>1. /\ Sequence(c) /\ Len(c) = Len(a) + Len(b)
      /\ \A i \in 1..Len(a) : c[i] = a[i]
      /\ \A j \in 1..Len(b) : c[Len(a) + j] = b[j]
      /\ \A i \in 1..(Len(a) + Len(b)) :
           i \in 1..Len(a) \/ \E j \in 1..Len(b) : i = Len(a) + j
  BY Joining DEF OwnRequests
<1>2. Len(a) \in Nat /\ Len(b) \in Nat
  BY Listing DEF OwnRequests
<1> HIDE DEF c
<1>3. ASSUME NEW k \in 1..Len(c) PROVE OwnRequest(c[k], d, f, g) /\ Fits(c[k])
  <2>1. CASE k \in 1..Len(a)
    BY <2>1, <1>1 DEF OwnRequests, AllFit
  <2>2. CASE k \notin 1..Len(a)
    <3>1. PICK j \in 1..Len(b) : k = Len(a) + j
      BY <2>2, <1>1
    <3> QED
      BY <3>1, <1>1 DEF OwnRequests, AllFit
  <2> QED
    BY <2>1, <2>2
<1>4. ASSUME NEW k \in 1..Len(a) PROVE \E j \in 1..Len(c) : c[j] = a[k]
  <2>1. k \in 1..Len(c)
    BY <1>1, <1>2
  <2> QED
    BY <2>1, <1>1
<1>5. ASSUME NEW k \in 1..Len(b) PROVE \E j \in 1..Len(c) : c[j] = b[k]
  <2>1. Len(a) + k \in 1..Len(c)
    BY <1>1, <1>2
  <2> QED
    BY <2>1, <1>1
<1>6. OwnRequests(c, d, f, g) /\ AllFit(c) /\ Within(a, c) /\ Within(b, c)
  BY <1>1, <1>3, <1>4, <1>5 DEF OwnRequests, AllFit, Within
<1> QED
  BY <1>6 DEF c

\* evidence(): every request is for a text of the finding or for places of the group,
\* and none of the group's is left out.
LEMMA RequestsForAre ==
  ASSUME case \in Cases, SoundSet, NEW f, FindingOK(f), RuleOf(f).decision # {},
         NEW g, AskedGroup(g)
  PROVE  /\ OwnRequests(RequestsFor(f, g), TableOf(RuleOf(f)), f, g)
         /\ AllFit(RequestsFor(f, g))
         /\ (g # {} /\ "places" \in SubjectsOf(TableOf(RuleOf(f)))) =>
              Covers(RequestsFor(f, g), The(g))
<1> DEFINE R(s) == RequestsAbout(f, g, s)
           d == TableOf(RuleOf(f))
           OK(r) == OwnRequests(r, d, f, g) /\ AllFit(r)
           a == R("entry")
           b == R("facts")
           c == R("frame")
           p == R("places")
           t == R("trace")
<1>1. \A s \in Subjects : OK(R(s))
  BY RequestsAboutAre
<1>2. OK(a) /\ OK(b) /\ OK(c) /\ OK(p) /\ OK(t)
  BY <1>1 DEF Subjects
<1>3. RequestsFor(f, g) = a \o b \o c \o p \o t
  BY DEF RequestsFor
<1>4. (g # {} /\ "places" \in SubjectsOf(d)) => Covers(p, The(g))
  BY GroupsRequestsAre DEF RequestsAbout
<1> HIDE DEF R, a, b, c, p, t, d
<1> DEFINE ab == a \o b
           abc == ab \o c
           abcp == abc \o p
           all == abcp \o t
<1>5. OK(ab)
  BY <1>2, OwnJoined
<1> HIDE DEF ab
<1>6. OK(abc)
  BY <1>2, <1>5, OwnJoined
<1> HIDE DEF abc
<1>7. OK(abcp) /\ Within(p, abcp)
  BY <1>2, <1>6, OwnJoined
<1> HIDE DEF abcp
<1>8. OK(all) /\ Within(abcp, all)
  BY <1>2, <1>7, OwnJoined
<1> HIDE DEF all
<1>9. RequestsFor(f, g) = all
  BY <1>3 DEF all, abcp, abc, ab
<1>10. Within(p, all)
  BY <1>7, <1>8 DEF Within
<1>11. ASSUME g # {}, "places" \in SubjectsOf(d) PROVE Covers(all, The(g))
  <2>1. Covers(p, The(g))
    BY <1>4, <1>11
  <2> SUFFICES ASSUME NEW i \in 1..Len(The(g).places)
               PROVE  \E k \in 1..Len(all) :
                        /\ all[k].places \in Nat \ {0} /\ all[k].skip = "none"
                        /\ \A q \in 1..Len(The(g).questions) : \E j \in 1..Len(all[k].queries) :
                             all[k].queries[j].id = <<The(g).places[i].id, The(g).questions[q].id>>
    BY DEF Covers
  <2>2. PICK k \in 1..Len(p) :
          /\ p[k].places \in Nat \ {0} /\ p[k].skip = "none"
          /\ \A q \in 1..Len(The(g).questions) : \E j \in 1..Len(p[k].queries) :
               p[k].queries[j].id = <<The(g).places[i].id, The(g).questions[q].id>>
    BY <2>1 DEF Covers
  <2>3. PICK m \in 1..Len(all) : all[m] = p[k]
    BY <1>10 DEF Within
  <2> QED
    BY <2>2, <2>3
<1> QED
  BY <1>8, <1>9, <1>11 DEF d

-----------------------------------------------------------------------------
(* The engine. *)

Results == {"misfired", "dismissed", "lowered", "kept", "confirmed"}

OutcomeOK(o) ==
  o.result \in Results /\ (o.result = "lowered" => o.severity \in Severities)

LEMMA HighestIs ==
  ASSUME NEW hit \in SUBSET Severities, hit # {}
  PROVE  Highest(hit) \in hit /\ \A s \in hit : s <= Highest(hit)
<1>1. hit \in SUBSET (1..4) /\ 4 \in Nat
  BY DEF Severities
<1>2. PICK m \in hit : \A s \in hit : s <= m
  BY <1>1, GreatestOf
<1>3. m \in hit /\ \A s \in hit : m >= s
  BY <1>1, <1>2
<1>4. Highest(hit) \in hit /\ \A s \in hit : Highest(hit) >= s
  BY <1>3 DEF Highest
<1> QED
  BY <1>1, <1>4

\* The levels a combination asks for.
LevelsOf(c, table, bars) ==
  {s \in Severities : First(c, LevelRows(table, s), bars.dismiss) # {}}

\* combination.decide.
LEMMA DecidedOne ==
  ASSUME NEW c, NEW table, NEW bars, NEW lowering \in BOOLEAN
  PROVE  /\ OutcomeOK(DecideOne(c, table, bars, lowering))
         /\ DecideOne(c, table, bars, lowering).result = "misfired"
              <=> lowering /\ First(c, table.misfire, bars.dismiss) # {}
         /\ DecideOne(c, table, bars, lowering).result = "confirmed"
              <=> /\ ~(lowering /\ First(c, table.misfire, bars.dismiss) # {})
                  /\ First(c, table.confirm, bars.confirm) # {}
         /\ DecideOne(c, table, bars, lowering).result \in {"lowered", "dismissed"} => lowering
         /\ DecideOne(c, table, bars, lowering).result = "lowered" =>
              /\ LevelsOf(c, table, bars) # {}
              /\ \A s \in LevelsOf(c, table, bars) :
                   s <= DecideOne(c, table, bars, lowering).severity
         /\ DecideOne(c, table, bars, lowering).result = "dismissed" =>
              /\ LevelsOf(c, table, bars) = {}
              /\ First(c, table.dismiss, bars.dismiss) # {}
<1> DEFINE misfire == First(c, table.misfire, bars.dismiss)
           confirm == First(c, table.confirm, bars.confirm)
           hit     == LevelsOf(c, table, bars)
           dismiss == First(c, table.dismiss, bars.dismiss)
           the(m)  == CHOOSE w \in m : TRUE
           low     == the(First(c, LevelRows(table, Highest(hit)), bars.dismiss))
           o       == DecideOne(c, table, bars, lowering)
<1>1. o = IF misfire # {} /\ lowering THEN Outcome("misfired", NoFloor, the(misfire))
          ELSE IF confirm # {} THEN Outcome("confirmed", NoFloor, the(confirm))
          ELSE IF ~lowering THEN Kept
          ELSE IF hit # {} THEN Outcome("lowered", Highest(hit), low)
          ELSE IF dismiss # {} THEN Outcome("dismissed", NoFloor, the(dismiss))
          ELSE Kept
  BY DEF DecideOne, LevelsOf
<1>2. hit \in SUBSET Severities
  BY DEF LevelsOf
<1>3. hit # {} => Highest(hit) \in Severities /\ \A s \in hit : s <= Highest(hit)
  BY <1>2, HighestIs
<1> HIDE DEF misfire, confirm, hit, dismiss, the, low, o
<1>4. Kept.result = "kept"
  BY DEF Kept, Outcome
<1>5. \A r, s, w : Outcome(r, s, w).result = r /\ Outcome(r, s, w).severity = s
  BY DEF Outcome
<1>6. CASE misfire # {} /\ lowering
  <2>1. o.result = "misfired"
    BY <1>1, <1>5, <1>6
  <2> QED
    BY <2>1, <1>6 DEF OutcomeOK, Results, o, misfire
<1>7. CASE ~(misfire # {} /\ lowering) /\ confirm # {}
  <2>1. o.result = "confirmed"
    BY <1>1, <1>5, <1>7
  <2> QED
    BY <2>1, <1>7 DEF OutcomeOK, Results, o, misfire, confirm
<1>8. CASE ~(misfire # {} /\ lowering) /\ confirm = {} /\ ~lowering
  <2>1. o.result = "kept"
    BY <1>1, <1>4, <1>8
  <2> QED
    BY <2>1, <1>8 DEF OutcomeOK, Results, o, misfire, confirm
<1>9. CASE ~(misfire # {} /\ lowering) /\ confirm = {} /\ lowering /\ hit # {}
  <2>1. o.result = "lowered" /\ o.severity = Highest(hit)
    BY <1>1, <1>5, <1>9
  <2> QED
    BY <2>1, <1>3, <1>9 DEF OutcomeOK, Results, o, misfire, confirm, hit
<1>10. CASE ~(misfire # {} /\ lowering) /\ confirm = {} /\ lowering /\ hit = {} /\ dismiss # {}
  <2>1. o.result = "dismissed"
    BY <1>1, <1>5, <1>10
  <2> QED
    BY <2>1, <1>10 DEF OutcomeOK, Results, o, misfire, confirm, hit, dismiss
<1>11. CASE ~(misfire # {} /\ lowering) /\ confirm = {} /\ lowering /\ hit = {} /\ dismiss = {}
  <2>1. o.result = "kept"
    BY <1>1, <1>4, <1>11
  <2> QED
    BY <2>1, <1>11 DEF OutcomeOK, Results, o, misfire, confirm
<1> QED
  BY <1>6, <1>7, <1>8, <1>9, <1>10, <1>11

LEMMA Ranks ==
  ASSUME NEW o, OutcomeOK(o)
  PROVE  /\ Rank(o) \in Nat
         /\ o.result = "misfired" => Rank(o) = 0
         /\ o.result = "dismissed" => Rank(o) = 1
         /\ o.result = "lowered" => Rank(o) = 1 + o.severity
         /\ o.result = "kept" => Rank(o) = 7
         /\ o.result = "confirmed" => Rank(o) = 8
<1>1. CASE o.result = "misfired"
  BY <1>1 DEF Rank
<1>2. CASE o.result = "dismissed"
  BY <1>2 DEF Rank
<1>3. CASE o.result = "lowered"
  <2>1. o.severity \in Nat
    BY <1>3 DEF OutcomeOK, Severities
  <2> QED
    BY <2>1, <1>3 DEF Rank
<1>4. CASE o.result = "kept"
  BY <1>4 DEF Rank
<1>5. CASE o.result = "confirmed"
  BY <1>5 DEF Rank
<1> QED
  BY <1>1, <1>2, <1>3, <1>4, <1>5 DEF OutcomeOK, Results

LEMMA Worse ==
  ASSUME NEW a, NEW b, OutcomeOK(a), OutcomeOK(b)
  PROVE  /\ WorseOf(a, b) \in {a, b}
         /\ Rank(a) <= Rank(WorseOf(a, b)) /\ Rank(b) <= Rank(WorseOf(a, b))
<1> DEFINE tied == Rank(b) = Rank(a) /\ b.result # "confirmed" /\ b.weakest < a.weakest
<1>1. Rank(a) \in Nat /\ Rank(b) \in Nat
  BY Ranks
<1>2. WorseOf(a, b) = IF Rank(b) > Rank(a) \/ tied THEN b ELSE a
  BY DEF WorseOf
<1>3. tied => Rank(b) = Rank(a)
  OBVIOUS
<1> HIDE DEF tied
<1> DEFINE x == Rank(a)
           y == Rank(b)
<1> HIDE DEF x, y
<1>4. CASE y > x \/ tied
  <2>1. WorseOf(a, b) = b
    BY <1>2, <1>4 DEF x, y
  <2>2. x <= y /\ y <= y
    BY <1>1, <1>3, <1>4 DEF x, y
  <2> QED
    BY <2>1, <2>2 DEF x, y
<1>5. CASE ~(y > x \/ tied)
  <2>1. WorseOf(a, b) = a
    BY <1>2, <1>5 DEF x, y
  <2>2. y <= x /\ x <= x
    BY <1>1, <1>5 DEF x, y
  <2> QED
    BY <2>1, <2>2 DEF x, y
<1> QED
  BY <1>4, <1>5

\* The worst of the combinations wins.
LEMMA Decided ==
  ASSUME NEW e, Sequence(Combinations(e)), NEW table, NEW bars, NEW lowering \in BOOLEAN
  PROVE  LET all == Combinations(e)
             one(k) == DecideOne(all[k], table, bars, lowering)
             o == Decide(e, table, bars, lowering)
         IN  /\ Len(all) = 0 => o = Kept
             /\ Len(all) > 0 => /\ \E k \in 1..Len(all) : o = one(k)
                                /\ \A k \in 1..Len(all) : Rank(one(k)) <= Rank(o)
<1> DEFINE all == Combinations(e)
           n == Len(all)
           one(k) == DecideOne(all[k], table, bars, lowering)
           law(f) == [k \in 1..n |-> IF k = 1 THEN one(k) ELSE WorseOf(f[k - 1], one(k))]
           worst == CHOOSE f : f = law(f)
           X == {one(k) : k \in 1..n}
           m == n - 1
           step == [p \in X \X (1..m) |-> WorseOf(p[1], one(p[2] + 1))]
<1>1. Decide(e, table, bars, lowering) = IF all = << >> THEN Kept ELSE worst[n]
  BY DEF Decide
<1>2. n \in Nat /\ (n = 0 <=> all = << >>)
  <2>1. all \in Seq(ToSet(all))
    BY DEF Sequence
  <2> HIDE DEF all
  <2> QED
    BY <2>1
<1>3. \A k \in 1..n : OutcomeOK(one(k))
  BY DecidedOne
<1> HIDE DEF one, n, all
<1> SUFFICES ASSUME n > 0
             PROVE  /\ \E k \in 1..n : worst[n] = one(k)
                    /\ \A k \in 1..n : Rank(one(k)) <= Rank(worst[n])
  BY <1>1, <1>2 DEF n, all, one
<1>4. m \in Nat /\ 1 \in 1..n /\ m + 1 = n /\ \A k \in 1..m : k + 1 \in 1..n
  BY <1>2
<1>5. X # {} /\ one(1) \in X /\ (\A x \in X : OutcomeOK(x)) /\ \A k \in 1..n : one(k) \in X
  BY <1>3, <1>4
<1> HIDE DEF X, m
<1>6. \A x \in X, y \in X : WorseOf(x, y) \in X
  BY <1>5, Worse
<1>7. /\ step \in [X \X (1..m) -> X]
      /\ \A x \in X, k \in 1..m : step[<<x, k>>] = WorseOf(x, one(k + 1))
  BY <1>4, <1>5, <1>6
<1> HIDE DEF step
<1>8. PICK g \in [0..m -> X] : g[0] = one(1) /\ \A k \in 1..m : g[k] = step[<<g[k - 1], k>>]
  <2>1. step \in Steps(X, m) /\ one(1) \in X
    BY <1>5, <1>7 DEF Steps
  <2>2. Course(X, m, step, one(1)) # {}
    BY ONLY <2>1, <1>4, Recursion
  <2> QED
    BY <2>2 DEF Course
<1> DEFINE f == [k \in 1..n |-> g[k - 1]]
<1>9. \A k \in 1..n : k - 1 \in 0..m /\ f[k] = g[k - 1] /\ f[k] \in X
  BY <1>2, <1>4, <1>8
<1>10. ASSUME NEW k \in 1..n PROVE f[k] = IF k = 1 THEN one(k) ELSE WorseOf(f[k - 1], one(k))
  <2>1. CASE k = 1
    BY <2>1, <1>8, <1>9
  <2>2. CASE k # 1
    <3>1. k - 1 \in 1..m /\ k - 1 \in 1..n /\ (k - 1) + 1 = k /\ (k - 1) - 1 \in 0..m
      BY <2>2, <1>2, <1>4
    <3>2. g[k - 1] = step[<<g[(k - 1) - 1], k - 1>>] /\ g[(k - 1) - 1] \in X
      BY <3>1, <1>8
    <3>3. g[k - 1] = WorseOf(g[(k - 1) - 1], one((k - 1) + 1))
      BY <3>1, <3>2, <1>7
    <3>4. f[k] = g[k - 1] /\ f[k - 1] = g[(k - 1) - 1]
      BY <3>1, <1>9
    <3> QED
      BY <3>1, <3>3, <3>4, <2>2
  <2> QED
    BY <2>1, <2>2
<1>11. f = law(f)
  <2> HIDE DEF f
  <2>1. f = [k \in 1..n |-> f[k]]
    BY DEF f
  <2> QED
    BY <2>1, <1>10
<1>12. worst = law(worst)
  <2> HIDE DEF f
  <2> QED
    BY <1>11
<1> HIDE DEF worst
<1>13. /\ worst[1] = one(1)
       /\ \A k \in 1..n : k # 1 => worst[k] = WorseOf(worst[k - 1], one(k))
  <2> DEFINE w == law(worst)
  <2>1. w[1] = one(1) /\ \A k \in 1..n : k # 1 => w[k] = WorseOf(worst[k - 1], one(k))
    BY <1>4
  <2> HIDE DEF w
  <2>2. worst = w
    BY <1>12 DEF w
  <2> QED
    BY <2>1, <2>2
<1> DEFINE good(k) == /\ worst[k] \in X
                      /\ \A j \in 1..k : Rank(one(j)) <= Rank(worst[k])
           T == {k \in Nat : good(k + 1)}
<1>14. 0 \in T
  <2>1. Rank(one(1)) \in Nat
    BY <1>5, Ranks
  <2>2. Rank(one(1)) <= Rank(one(1))
    BY <2>1
  <2>3. good(1)
    BY <2>2, <1>5, <1>13
  <2> QED
    BY <2>3
<1>15. ASSUME NEW k \in 1..m, k - 1 \in T PROVE k \in T
  <2>1. k + 1 \in 1..n /\ k + 1 # 1 /\ (k + 1) - 1 = k /\ (k - 1) + 1 = k /\ k \in Nat
    BY <1>4
  <2>2. good(k)
    BY <2>1, <1>15
  <2>3. worst[k + 1] = WorseOf(worst[k], one(k + 1))
    BY <2>1, <1>13
  <2>4. OutcomeOK(worst[k]) /\ OutcomeOK(one(k + 1)) /\ one(k + 1) \in X /\ worst[k] \in X
    BY <2>1, <2>2, <1>5
  <2>5. /\ worst[k + 1] \in X
        /\ Rank(worst[k]) <= Rank(worst[k + 1]) /\ Rank(one(k + 1)) <= Rank(worst[k + 1])
    BY <2>3, <2>4, <1>6, Worse
  <2>6. OutcomeOK(worst[k + 1])
    BY <2>5, <1>5
  <2>7. Rank(worst[k]) \in Nat /\ Rank(worst[k + 1]) \in Nat
    BY <2>4, <2>6, Ranks
  <2>8. ASSUME NEW j \in 1..(k + 1) PROVE Rank(one(j)) <= Rank(worst[k + 1])
    <3>1. CASE j = k + 1
      BY <3>1, <2>5
    <3>2. CASE j # k + 1
      <4>1. j \in 1..k /\ j \in 1..n
        BY <3>2, <2>1, <1>2
      <4>2. Rank(one(j)) <= Rank(worst[k]) /\ Rank(one(j)) \in Nat
        BY <4>1, <2>2, <1>3, Ranks
      <4>3. \A a, b, c \in Nat : a <= b /\ b <= c => a <= c
        OBVIOUS
      <4> QED
        BY ONLY <4>2, <4>3, <2>5, <2>7
    <3> QED
      BY <3>1, <3>2
  <2>9. good(k + 1)
    BY <2>5, <2>8
  <2> QED
    BY <2>9, <2>1
<1> HIDE DEF T
<1>16. \A k \in 0..m : k \in T
  BY ONLY <1>4, <1>14, <1>15, UpTo
<1>17. good(n)
  <2>1. m \in T
    BY <1>4, <1>16
  <2> QED
    BY <2>1, <1>4 DEF T
<1> QED
  BY <1>17 DEF X

EvidenceOK(e) == \A s \in DOMAIN e : s \in Subjects /\ Sequence(e[s])

LEMMA JoinedListed ==
  ASSUME NEW e, EvidenceOK(e), NEW all, Sequence(all), NEW s
  PROVE  /\ Sequence(Joined(all, e, s))
         /\ s \in DOMAIN e =>
              /\ \A k \in 1..Len(Joined(all, e, s)) :
                   \E i \in 1..Len(all), j \in 1..Len(e[s]) :
                     Joined(all, e, s)[k] = With(all[i], e[s][j])
              /\ \A i \in 1..Len(all), j \in 1..Len(e[s]) :
                   \E k \in 1..Len(Joined(all, e, s)) :
                     Joined(all, e, s)[k] = With(all[i], e[s][j])
<1>1. CASE s \notin DOMAIN e
  BY <1>1 DEF Joined
<1>2. CASE s \in DOMAIN e
  <2> DEFINE row(i) == [j \in DOMAIN e[s] |-> With(all[i], e[s][j])]
             ss == [i \in DOMAIN all |-> row(i)]
             t == Joined(all, e, s)
  <2>1. t = FlattenSeq(ss)
    BY <1>2 DEF Joined
  <2>2. /\ Len(all) \in Nat /\ DOMAIN all = 1..Len(all)
        /\ Len(e[s]) \in Nat /\ DOMAIN e[s] = 1..Len(e[s])
    BY <1>2, Listing DEF EvidenceOK
  <2>3. ASSUME NEW i \in 1..Len(all)
        PROVE  /\ Sequence(row(i)) /\ Len(row(i)) = Len(e[s])
               /\ \A j \in 1..Len(e[s]) : row(i)[j] = With(all[i], e[s][j])
    <3>1. row(i) = [j \in 1..Len(e[s]) |-> row(i)[j]] /\ \A j \in 1..Len(e[s]) : row(i)[j] = With(all[i], e[s][j])
      BY <2>2
    <3> HIDE DEF row
    <3> QED
      BY <3>1, <2>2, Indexed
  <2> HIDE DEF row
  <2>4. ss = [i \in 1..Len(all) |-> ss[i]] /\ \A i \in 1..Len(all) : ss[i] = row(i)
    BY <2>2
  <2> HIDE DEF ss, t
  <2>5. Sequence(ss) /\ Len(ss) = Len(all)
    BY <2>2, <2>4, Indexed
  <2>6. /\ Sequence(t)
        /\ \A k \in 1..Len(t) : \E i \in 1..Len(ss) : \E j \in 1..Len(ss[i]) : t[k] = ss[i][j]
        /\ \A i \in 1..Len(ss) : \A j \in 1..Len(ss[i]) : \E k \in 1..Len(t) : t[k] = ss[i][j]
    <3>1. \A i \in 1..Len(ss) : Sequence(ss[i])
      BY <2>3, <2>4, <2>5
    <3>2. t = FlattenSeq(ss) /\ Sequence(ss)
      BY <2>1, <2>5
    <3> QED
      BY ONLY <3>1, <3>2, FlattenedOf
  <2>7. ASSUME NEW k \in 1..Len(t)
        PROVE  \E i \in 1..Len(all), j \in 1..Len(e[s]) : t[k] = With(all[i], e[s][j])
    <3>1. PICK i \in 1..Len(ss) : \E j \in 1..Len(ss[i]) : t[k] = ss[i][j]
      BY <2>6
    <3>2. PICK j \in 1..Len(ss[i]) : t[k] = ss[i][j]
      BY <3>1
    <3>3. i \in 1..Len(all) /\ j \in 1..Len(e[s]) /\ ss[i][j] = With(all[i], e[s][j])
      BY <3>1, <3>2, <2>3, <2>4, <2>5
    <3> QED
      BY <3>2, <3>3
  <2>8. ASSUME NEW i \in 1..Len(all), NEW j \in 1..Len(e[s])
        PROVE  \E k \in 1..Len(t) : t[k] = With(all[i], e[s][j])
    <3>1. i \in 1..Len(ss) /\ j \in 1..Len(ss[i]) /\ ss[i][j] = With(all[i], e[s][j])
      BY <2>3, <2>4, <2>5
    <3>2. PICK k \in 1..Len(t) : t[k] = ss[i][j]
      BY <3>1, <2>6
    <3> QED
      BY <3>1, <3>2
  <2> QED
    BY <2>6, <2>7, <2>8 DEF t
<1> QED
  BY <1>1, <1>2

LEMMA CombinationsListed ==
  ASSUME NEW e, EvidenceOK(e)
  PROVE  Sequence(Combinations(e))
<1> DEFINE a == Joined(<< << >> >>, e, "entry")
           b == Joined(a, e, "facts")
           c == Joined(b, e, "frame")
           d == Joined(c, e, "places")
           f == Joined(d, e, "trace")
<1>1. Sequence(a)
  BY OneOf, JoinedListed
<1> HIDE DEF a
<1>2. Sequence(b)
  BY <1>1, JoinedListed
<1> HIDE DEF b
<1>3. Sequence(c)
  BY <1>2, JoinedListed
<1> HIDE DEF c
<1>4. Sequence(d)
  BY <1>3, JoinedListed
<1> HIDE DEF d
<1>5. Sequence(f)
  BY <1>4, JoinedListed
<1> QED
  BY <1>5 DEF Combinations, f, d, c, b, a

\* What the engine makes of a finding.
JudgementOK(v) == v = NoVerdict \/ (v.severity \in Severities /\ v.state \in States)

LEMMA EngineJudges ==
  ASSUME NEW o, OutcomeOK(o), NEW current \in Severities, NEW floor \in Floors
  PROVE  LET v == EngineJudge(o, current, floor)
         IN  /\ JudgementOK(v)
             /\ o.result = "confirmed" <=> v.state = "confirmed"
             /\ o.result = "kept" => v = NoVerdict
             /\ o.result = "misfired" => v.state = "dismissed"
             /\ o.result = "lowered" => v.state # "dismissed" /\ (v.state = "downgraded" => o.severity <= v.severity)
             /\ o.result = "dismissed" /\ v.state = "dismissed" => floor = NoFloor
             /\ v.state \in {"none", "confirmed", "downgraded", "dismissed"}
             /\ v.state # "none" => v # NoVerdict /\ v.severity \in Severities
             /\ v.state = "none" => v = NoVerdict
<1> USE DEF JudgementOK, Severities, Floors, NoFloor, States, JudgedStates, NoVerdict, Judged
<1>1. \A t \in Severities : /\ LowerTo(t, current) = NoVerdict
                               \/ LowerTo(t, current) = Judged(t, "downgraded")
  BY DEF LowerTo
<1>2. CASE o.result = "confirmed"
  BY <1>2 DEF EngineJudge
<1>3. CASE o.result = "misfired"
  BY <1>3 DEF EngineJudge
<1>4. CASE o.result = "lowered"
  <2> DEFINE h == Higher(o.severity, floor)
  <2>1. o.severity \in Severities
    BY <1>4 DEF OutcomeOK
  <2>2. h \in Severities /\ o.severity <= h
    BY <2>1 DEF Higher
  <2>3. EngineJudge(o, current, floor) = LowerTo(h, current)
    BY <1>4 DEF EngineJudge
  <2> HIDE DEF h
  <2> QED
    BY <2>1, <2>2, <2>3, <1>1, <1>4
<1>5. CASE o.result = "kept"
  BY <1>5 DEF EngineJudge
<1>6. CASE o.result = "dismissed"
  <2>1. EngineJudge(o, current, floor)
          = IF floor = NoFloor THEN Judged(current, "dismissed") ELSE LowerTo(floor, current)
    BY <1>6 DEF EngineJudge
  <2>2. floor # NoFloor => floor \in Severities
    OBVIOUS
  <2> QED
    BY <2>1, <2>2, <1>1, <1>6
<1> QED
  BY <1>2, <1>3, <1>4, <1>5, <1>6 DEF OutcomeOK, Results


-----------------------------------------------------------------------------
(* The inductive invariant: what the variables hold, and what the layer    *)
(* has turned to.                                                          *)

\* A finding of a usage: it comes with evidence only when its rule has no table.
AsRaised(f) ==
  FindingOK(f) /\ f.state = "none" /\ (f.decision # {} => set[f.rule].decision = {})

RaisedAll(s) == Sequence(s) /\ \A k \in 1..Len(s) : AsRaised(s[k])

RaisedOK == RaisedAll(raised)

GroupsOK ==
  /\ group = {} \/ (group = {The(group)} /\ GroupOK(The(group)))
  /\ \A v \in DOMAIN refGroups : GroupOK(refGroups[v])
  /\ \A key \in DOMAIN ruleGroups : GroupOK(ruleGroups[key])

RequestsOK ==
  /\ Sequence(requests) /\ AllFit(requests)
  /\ Sequence(got) /\ Len(got) <= Len(requests)

Typed ==
  /\ case \in Cases /\ SoundSet
  /\ pc \in {"load", "usages", "findings", "done", "refused"}
  /\ turn \in Nat \ {0} /\ busy \in BOOLEAN
  /\ FindingsOK /\ RaisedOK /\ GroupsOK /\ RequestsOK

\* Before the rules are loaded there is nothing.
Unloaded ==
  pc = "load" => turn = 1 /\ set = << >> /\ findings = << >> /\ raised = << >>

\* The layer is idle, or busy with a reference, or with a finding that is pending.
Idle == group = {} /\ requests = << >> /\ got = << >>

AtReference == turn <= Len(skill.refs) /\ group # {}

\* A finding whose rule asks about places has a group, new or of an earlier finding.
Placed(f) == "places" \in SubjectsOf(TableOf(RuleOf(f))) /\ RuleOf(f).layer # "references"

AtFinding ==
  /\ turn <= Len(findings) /\ Pending(findings[turn])
  /\ Placed(findings[turn]) => group # {} \/ GroupKey(findings[turn]) \in DOMAIN ruleGroups

Turned ==
  /\ ~busy => Idle
  /\ busy => pc \in {"usages", "findings"}
  /\ busy /\ pc = "usages" => AtReference
  /\ busy /\ pc = "findings" => AtFinding

\* Findings are decided in their order.
InOrder == pc = "findings" => \A k \in DOMAIN findings : k < turn => ~Pending(findings[k])

Inv == Typed /\ Unloaded /\ Turned /\ InOrder

-----------------------------------------------------------------------------
(* The rules are loaded, and what the layers before this one found.        *)

LEMMA AsksFound ==
  ASSUME case \in Cases, NEW f, \E i \in DOMAIN skill.findings : f = skill.findings[i]
  PROVE  /\ Sequence(f.matches) /\ Sequence(AsksOf(f)) /\ Len(AsksOf(f)) = Len(f.matches)
         /\ \A k \in 1..Len(AsksOf(f)) : IsFiniteSet(skill.code.at[AsksOf(f)[k]])
<1> DEFINE ofCall == \E d \in set'[f.rule].decision : \E n \in DOMAIN d.questions :
                       d.questions[n].from = "call"
           one(k) == [path |-> f.at.file, match |-> f.matches[k], ofCall |-> ofCall]
           t == AsksOf(f)
<1>1. SkillOK(skill)
  BY DecisionAssumption DEF CaseOK, skill
<1>2. /\ Sequence(f.matches)
      /\ \A m \in ToSet(f.matches) : \A of \in BOOLEAN :
           IsFiniteSet(skill.code.at[[path |-> f.at.file, match |-> m, ofCall |-> of]])
  BY <1>1 DEF SkillOK
<1>3. /\ Len(f.matches) \in Nat /\ DOMAIN f.matches = 1..Len(f.matches)
      /\ \A k \in 1..Len(f.matches) : f.matches[k] \in ToSet(f.matches)
  BY <1>2, Listing DEF ToSet
<1>4. ofCall \in BOOLEAN
  OBVIOUS
<1>5. t = [k \in DOMAIN f.matches |-> one(k)]
  BY DEF AsksOf
<1> HIDE DEF ofCall
<1>6. t = [k \in 1..Len(f.matches) |-> t[k]] /\ \A k \in 1..Len(f.matches) : t[k] = one(k)
  BY <1>3, <1>5
<1> HIDE DEF t
<1>7. Sequence(t) /\ Len(t) = Len(f.matches)
  BY <1>3, <1>6, Indexed
<1>8. \A k \in 1..Len(t) : IsFiniteSet(skill.code.at[t[k]])
  BY <1>2, <1>3, <1>4, <1>6, <1>7
<1> QED
  BY <1>2, <1>7, <1>8 DEF t

LEMMA MadeFinite ==
  ASSUME NEW asks, Sequence(asks), \A k \in 1..Len(asks) : IsFiniteSet(skill.code.at[asks[k]])
  PROVE  IsFiniteSet(SubjectsMade(asks))
<1> DEFINE one(k) == SetToSeq(skill.code.at[asks[k]])
           ss == [k \in DOMAIN asks |-> one(k)]
           all == FlattenSeq(ss)
           I == {j \in DOMAIN all : \A i \in 1..(j - 1) : KeyOf(all[i]) # KeyOf(all[j])}
           S == {all[k] : k \in I}
<1>1. SubjectsMade(asks) = S
  BY DEF SubjectsMade
<1>2. Len(asks) \in Nat /\ DOMAIN asks = 1..Len(asks)
  BY Listing
<1>3. \A k \in 1..Len(asks) : Sequence(one(k))
  BY ListedOf
<1> HIDE DEF one
<1>4. ss = [k \in 1..Len(asks) |-> ss[k]] /\ \A k \in 1..Len(asks) : ss[k] = one(k)
  BY <1>2
<1> HIDE DEF ss
<1>5. Sequence(ss) /\ Len(ss) = Len(asks)
  BY <1>2, <1>4, Indexed
<1>6. \A k \in 1..Len(ss) : Sequence(ss[k])
  BY <1>3, <1>4, <1>5
<1>7. Sequence(all)
  BY <1>5, <1>6, FlattenedOf
<1> HIDE DEF all
<1>8. Len(all) \in Nat /\ I \subseteq 1..Len(all)
  BY <1>7, Listing
<1>9. IsFiniteSet(I)
  BY <1>8, FS_Interval, FS_Subset
<1> HIDE DEF I
<1>10. IsFiniteSet(S)
  <2> DEFINE h == [k \in I |-> all[k]]
  <2>1. h \in Surjection(I, S)
    BY DEF Surjection
  <2> HIDE DEF h
  <2> QED
    BY <2>1, <1>9, FS_Surjection
<1> QED
  BY <1>1, <1>10

LEMMA LinkedListed ==
  ASSUME case \in Cases, NEW f, \E i \in DOMAIN skill.findings : f = skill.findings[i],
         NEW made, IsFiniteSet(made)
  PROVE  Sequence(LinkedBy(f, made))
<1> DEFINE one(k) == SubjectOf(made, AsksOf(f)[k])
           found == [k \in DOMAIN f.matches |-> one(k)]
           ss == [k \in DOMAIN found |-> SetToSeq(found[k])]
           each == FlattenSeq(ss)
           I == {j \in DOMAIN each : \A i \in 1..(j - 1) : each[i] # each[j]}
<1>1. LinkedBy(f, made) = IF {} \in ToSet(found) THEN << >> ELSE Picked(each, I)
  BY DEF LinkedBy
<1>2. Len(f.matches) \in Nat /\ DOMAIN f.matches = 1..Len(f.matches)
  BY AsksFound, Listing
<1>3. \A k \in 1..Len(f.matches) : IsFiniteSet(one(k))
  <2>1. \A k : one(k) \subseteq made
    BY DEF SubjectOf
  <2> QED
    BY <2>1, FS_Subset
<1> HIDE DEF one
<1>4. DOMAIN found = 1..Len(f.matches) /\ \A k \in 1..Len(f.matches) : found[k] = one(k)
  BY <1>2
<1> HIDE DEF found
<1>5. /\ ss = [k \in 1..Len(f.matches) |-> ss[k]]
      /\ \A k \in 1..Len(f.matches) : ss[k] = SetToSeq(one(k))
  BY <1>4
<1> HIDE DEF ss
<1>6. Sequence(ss) /\ Len(ss) = Len(f.matches)
  BY <1>2, <1>5, Indexed
<1>7. \A k \in 1..Len(ss) : Sequence(ss[k])
  BY <1>3, <1>5, <1>6, ListedOf
<1>8. Sequence(each)
  BY <1>6, <1>7, FlattenedOf
<1> HIDE DEF each
<1>9. I \in SUBSET (1..Len(each))
  BY <1>8, Listing
<1>10. Sequence(Picked(each, I))
  BY <1>8, <1>9, PickedOf
<1>11. Sequence(<< >>)
  BY DEF Sequence
<1> QED
  BY <1>1, <1>10, <1>11

\* The findings a load leaves.
LEMMA LoadedFindings ==
  ASSUME case \in Cases, case' = case, SoundSet',
         NEW I \in SUBSET (DOMAIN skill.findings),
         \A k \in I : skill.findings[k].rule \in DOMAIN set',
         LET on == Picked(skill.findings, I)
             made == SubjectsMade(FlattenSeq([k \in DOMAIN on |-> AsksOf(on[k])]))
         IN  findings' = [k \in DOMAIN on |-> Fresh(on[k], made)]
  PROVE  FindingsOK'
<1> DEFINE on == Picked(skill.findings, I)
           asks(k) == AsksOf(on[k])
           ss == [k \in DOMAIN on |-> asks(k)]
           made == SubjectsMade(FlattenSeq(ss))
<1>1. findings' = [k \in DOMAIN on |-> Fresh(on[k], made)]
  OBVIOUS
<1>2. SkillOK(skill)
  BY DecisionAssumption DEF CaseOK, skill
<1>3. Sequence(skill.findings) /\ I \in SUBSET (1..Len(skill.findings))
  BY <1>2, Listing DEF SkillOK
<1>4. Sequence(on) /\ \A j \in 1..Len(on) : \E k \in I : on[j] = skill.findings[k]
  BY <1>3, PickedOf
<1> HIDE DEF on
<1>5. Len(on) \in Nat /\ DOMAIN on = 1..Len(on)
  BY <1>4, Listing
<1>6. \A j \in 1..Len(on) : \E i \in DOMAIN skill.findings : on[j] = skill.findings[i]
  BY <1>4
<1>7. \A k \in 1..Len(on) :
        Sequence(asks(k)) /\ \A i \in 1..Len(asks(k)) : IsFiniteSet(skill.code.at[asks(k)[i]])
  BY <1>6, AsksFound
<1> HIDE DEF asks
<1>8. ss = [k \in 1..Len(on) |-> ss[k]] /\ \A k \in 1..Len(on) : ss[k] = asks(k)
  BY <1>5
<1>9. Sequence(ss) /\ Len(ss) = Len(on)
  <2> HIDE DEF ss
  <2> QED
    BY <1>5, <1>8, Indexed
<1> DEFINE all == FlattenSeq(ss)
<1> HIDE DEF ss
<1>10. /\ Sequence(all)
       /\ \A j \in 1..Len(all) : \E k \in 1..Len(ss) : \E i \in 1..Len(ss[k]) : all[j] = ss[k][i]
  <2>1. \A k \in 1..Len(ss) : Sequence(ss[k])
    BY <1>7, <1>8, <1>9
  <2> QED
    BY <2>1, <1>9, FlattenedOf
<1> HIDE DEF all
<1>11. ASSUME NEW j \in 1..Len(all) PROVE IsFiniteSet(skill.code.at[all[j]])
  <2>1. PICK k \in 1..Len(ss) : \E i \in 1..Len(ss[k]) : all[j] = ss[k][i]
    BY <1>10
  <2>2. PICK i \in 1..Len(ss[k]) : all[j] = ss[k][i]
    BY <2>1
  <2> QED
    BY <2>1, <2>2, <1>7, <1>8, <1>9
<1>12. IsFiniteSet(made)
  BY <1>10, <1>11, MadeFinite DEF all
<1> HIDE DEF made
<1>13. ASSUME NEW k \in 1..Len(on)
       PROVE  LET x == Fresh(on[k], made)
              IN  /\ x = [rule |-> x.rule, severity |-> x.severity, state |-> x.state,
                          at |-> x.at, about |-> x.about, reference |-> x.reference,
                          linked |-> x.linked, decision |-> x.decision]
                  /\ x.rule \in DOMAIN set' /\ x.severity \in Severities /\ x.state \in States
                  /\ x.decision = {} \/ \E e \in x.decision : x.decision = {e}
                  /\ Sequence(x.linked)
  <2> DEFINE f == on[k]
             x == Fresh(f, made)
  <2>1. PICK i \in I : f = skill.findings[i]
    BY <1>4
  <2>2. f.rule \in DOMAIN set' /\ f.state \in States /\ f.decision \in {{}, {<< >>}}
    <3>1. skill.findings[i].state \in States /\ skill.findings[i].decision \in {{}, {<< >>}}
      BY <1>2 DEF SkillOK
    <3> QED
      BY <3>1, <2>1
  <2>3. Sequence(LinkedBy(f, made))
    BY <2>1, <1>12, LinkedListed
  <2>4. set'[f.rule].severity \in Severities
    BY <2>2 DEF SoundSet, Sound
  <2> HIDE DEF f
  <2>5. x = [rule |-> f.rule, severity |-> set'[f.rule].severity, state |-> f.state, at |-> f.at,
             about |-> f.about, reference |-> f.reference, linked |-> LinkedBy(f, made),
             decision |-> f.decision]
    BY DEF Fresh
  <2> HIDE DEF x
  <2>6. /\ x.rule = f.rule /\ x.severity = set'[f.rule].severity /\ x.state = f.state /\ x.at = f.at
        /\ x.about = f.about /\ x.reference = f.reference /\ x.linked = LinkedBy(f, made)
        /\ x.decision = f.decision
    BY <2>5
  <2>7. x = [rule |-> x.rule, severity |-> x.severity, state |-> x.state,
             at |-> x.at, about |-> x.about, reference |-> x.reference,
             linked |-> x.linked, decision |-> x.decision]
    BY <2>5, <2>6
  <2>8. x.decision = {} \/ \E e \in x.decision : x.decision = {e}
    BY <2>2, <2>6
  <2>9. /\ x.rule \in DOMAIN set' /\ x.severity \in Severities /\ x.state \in States
        /\ Sequence(x.linked)
    BY <2>2, <2>3, <2>4, <2>6
  <2>10. x = Fresh(on[k], made)
    BY DEF x, f
  <2> HIDE DEF x
  <2> QED
    BY <2>7, <2>8, <2>9, <2>10
<1>14. \A k \in 1..Len(on) : findings'[k] = Fresh(on[k], made)
  BY <1>1, <1>5
<1>15. findings' = [k \in 1..Len(on) |-> findings'[k]]
  BY <1>1, <1>5
<1>16. Sequence(findings') /\ Len(findings') = Len(on)
  BY <1>5, <1>15, Indexed
<1> QED
  BY <1>13, <1>14, <1>16 DEF FindingsOK, FindingOK

LEMMA NothingListed == Sequence(<< >>) /\ Len(<< >>) = 0
  BY DEF Sequence

LEMMA LoadKeeps ==
  ASSUME Inv, LoadRules
  PROVE  Inv'
<1> USE DEF LoadRules, work, memory
<1>1. /\ case \in Cases /\ case' = case /\ turn' = turn /\ turn \in Nat \ {0} /\ turn = 1
      /\ raised = << >> /\ raised' = raised /\ UNCHANGED <<refGroups, ruleGroups>>
      /\ set = << >> /\ findings = << >>
  BY DEF Inv, Typed, Unloaded
<1>2. SoundSet' /\ FindingsOK'
  <2>1. CASE Loads(case.files, case.byLayer)
    <3> DEFINE I == {k \in DOMAIN skill.findings : skill.findings[k].rule \in DOMAIN set'
                                                   /\ set'[skill.findings[k].rule].enabled}
    <3>1. set' = Load(case.files, case.byLayer).byID
      BY <2>1
    <3>2. SoundSet'
      BY <3>1, <2>1, <1>1, LoadedRules DEF SoundSet
    <3>3. LET on == Picked(skill.findings, I)
              made == SubjectsMade(FlattenSeq([k \in DOMAIN on |-> AsksOf(on[k])]))
          IN  findings' = [k \in DOMAIN on |-> Fresh(on[k], made)]
      BY <2>1
    <3>4. I \in SUBSET DOMAIN skill.findings /\ \A k \in I : skill.findings[k].rule \in DOMAIN set'
      OBVIOUS
    <3> HIDE DEF I, LoadRules
    <3>5. FindingsOK'
      BY <3>2, <3>3, <3>4, <1>1, LoadedFindings
    <3> QED
      BY <3>2, <3>5
  <2>2. CASE ~Loads(case.files, case.byLayer)
    BY <2>2, <1>1 DEF Inv, Typed, SoundSet, FindingsOK, FindingOK
  <2> QED
    BY <2>1, <2>2
<1>3. pc' \in {"usages", "findings", "refused"}
  OBVIOUS
<1>4. ~busy /\ Idle /\ ~busy' /\ Idle'
  BY DEF Inv, Typed, Turned, Idle
<1>5. RaisedOK' /\ GroupsOK' /\ RequestsOK'
  <2>1. RaisedOK'
    BY <1>1, NothingListed DEF RaisedOK, RaisedAll
  <2>2. GroupsOK'
    BY <1>1, <1>4 DEF Inv, Typed, GroupsOK, Idle
  <2>3. RequestsOK'
    BY <1>4, NothingListed DEF Idle, RequestsOK, AllFit
  <2> QED
    BY <2>1, <2>2, <2>3
<1>6. Typed'
  BY <1>1, <1>2, <1>3, <1>4, <1>5 DEF Inv, Typed
<1>7. Unloaded' /\ Turned'
  BY <1>3, <1>4 DEF Unloaded, Turned
<1>8. InOrder'
  <2>1. \A k \in DOMAIN findings' : ~(k < 1)
    BY <1>2, Listing DEF FindingsOK
  <2> QED
    BY <2>1, <1>1 DEF InOrder
<1> QED
  BY <1>6, <1>7, <1>8 DEF Inv

-----------------------------------------------------------------------------
(* The layer turns to a reference or to a finding, and is through with it. *)

LEMMA SoundStill ==
  ASSUME SoundSet, set' = set
  PROVE  SoundSet'
  BY DEF SoundSet

LEMMA FindingsStill ==
  ASSUME FindingsOK, set' = set, findings' = findings
  PROVE  FindingsOK'
  BY DEF FindingsOK, FindingOK

LEMMA RaisedStill ==
  ASSUME RaisedOK, set' = set, raised' = raised
  PROVE  RaisedOK'
  BY DEF RaisedOK, RaisedAll, AsRaised, FindingOK

LEMMA ThroughKeeps ==
  ASSUME Inv, Through, case' = case, set' = set, pc' = pc, pc \in {"usages", "findings"},
         FindingsOK', RaisedOK', InOrder',
         \A v \in DOMAIN refGroups' : GroupOK(refGroups'[v]),
         \A key \in DOMAIN ruleGroups' : GroupOK(ruleGroups'[key])
  PROVE  Inv'
<1>1. /\ busy' = FALSE /\ group' = {} /\ requests' = << >> /\ got' = << >>
      /\ turn' = turn + 1
  BY DEF Through
<1>2. case' \in Cases /\ SoundSet' /\ turn' \in Nat \ {0}
  BY <1>1, SoundStill DEF Inv, Typed
<1>3. RequestsOK' /\ GroupsOK'
  BY <1>1, NothingListed DEF RequestsOK, GroupsOK, AllFit
<1>4. Typed'
  BY <1>1, <1>2, <1>3 DEF Typed
<1>5. Turned' /\ Unloaded'
  BY <1>1 DEF Turned, Idle, Unloaded
<1> QED
  BY <1>4, <1>5 DEF Inv

LEMMA TurnKeeps ==
  ASSUME Inv, NEW g, NEW rs, TurnTo(g, rs), UNCHANGED <<case, set, pc, memory, findings>>,
         g = {} \/ (g = {The(g)} /\ GroupOK(The(g))), Sequence(rs), AllFit(rs),
         \/ pc = "usages" /\ AtReference'
         \/ pc = "findings" /\ AtFinding'
  PROVE  Inv'
<1>1. /\ busy' = TRUE /\ group' = g /\ requests' = rs /\ got' = << >> /\ turn' = turn
      /\ case' = case /\ set' = set /\ pc' = pc /\ refGroups' = refGroups
      /\ ruleGroups' = ruleGroups /\ raised' = raised /\ findings' = findings
  BY DEF TurnTo, memory
<1>2. case' \in Cases /\ SoundSet' /\ FindingsOK' /\ RaisedOK'
  BY <1>1, SoundStill, FindingsStill, RaisedStill DEF Inv, Typed
<1>3. GroupsOK'
  BY <1>1 DEF Inv, Typed, GroupsOK
<1>4. RequestsOK'
  <2>1. AllFit(rs)'
    BY <1>1 DEF AllFit, Fits
  <2>2. Len(rs) \in Nat
    BY Listing
  <2> QED
    BY <2>1, <2>2, <1>1, NothingListed DEF RequestsOK
<1>5. Typed'
  BY <1>1, <1>2, <1>3, <1>4 DEF Inv, Typed
<1>6. Turned' /\ Unloaded'
  BY <1>1 DEF Turned, Unloaded
<1>7. InOrder'
  BY <1>1 DEF Inv, InOrder, Pending, Undecided, RuleOf
<1> QED
  BY <1>5, <1>6, <1>7 DEF Inv

LEMMA AskReferenceKeeps ==
  ASSUME Inv, AskReference
  PROVE  Inv'
<1> DEFINE ref == skill.refs[turn]
           g == RefGroup(ref)
<1>1. /\ pc = "usages" /\ turn <= Len(skill.refs) /\ UNCHANGED <<case, set, pc, memory, findings>>
      /\ IF g = {} THEN Through ELSE TurnTo(g, GroupsRequests(g))
  BY DEF AskReference
<1>2. /\ case \in Cases /\ SoundSet /\ FindingsOK /\ RaisedOK /\ turn \in Nat \ {0}
      /\ refGroups' = refGroups /\ ruleGroups' = ruleGroups /\ raised' = raised
      /\ set' = set /\ case' = case /\ pc' = pc /\ findings' = findings
  BY <1>1 DEF Inv, Typed, memory
<1>3. CASE g = {}
  <2>1. Through
    BY <1>1, <1>3
  <2>2. FindingsOK' /\ RaisedOK' /\ InOrder'
    BY <1>1, <1>2, FindingsStill, RaisedStill DEF InOrder
  <2>3. /\ \A v \in DOMAIN refGroups' : GroupOK(refGroups'[v])
        /\ \A key \in DOMAIN ruleGroups' : GroupOK(ruleGroups'[key])
    BY <1>2 DEF Inv, Typed, GroupsOK
  <2> HIDE DEF g
  <2> QED
    BY <1>1, <1>2, <2>1, <2>2, <2>3, ThroughKeeps
<1>4. CASE g # {}
  <2>1. TurnTo(g, GroupsRequests(g))
    BY <1>1, <1>4
  <2>2. ref \in ToSet(skill.refs)
    <3>1. Sequence(skill.refs)
      BY <1>2, DecisionAssumption DEF CaseOK, SkillOK, skill
    <3> QED
      BY <3>1, <1>1, <1>2, Listing DEF ToSet
  <2>3. AskedGroup(g)
    BY <1>2, <1>4, <2>2, RefGroupIs DEF AskedGroup
  <2> HIDE DEF g
  <2>4. Sequence(GroupsRequests(g)) /\ AllFit(GroupsRequests(g))
    BY <1>2, <2>3, GroupsRequestsAre DEF AllFit
  <2>5. AtReference'
    BY <2>1, <1>1, <1>4 DEF AtReference, TurnTo, skill
  <2>6. g = {} \/ (g = {The(g)} /\ GroupOK(The(g)))
    BY <2>3 DEF AskedGroup
  <2> QED
    BY <1>1, <2>1, <2>4, <2>5, <2>6, TurnKeeps
<1> QED
  BY <1>3, <1>4

\* The group made for a finding that is pending.
LEMMA NewGroupIs ==
  ASSUME case \in Cases, SoundSet, FindingsOK, NEW k \in 1..Len(findings), Pending(findings[k])
  PROVE  /\ AskedGroup(NewGroup(findings[k]))
         /\ NewGroup(findings[k]) # {} =>
              /\ Placed(findings[k]) /\ The(NewGroup(findings[k])) = RuleGroup(findings[k])
         /\ Placed(findings[k]) =>
              NewGroup(findings[k]) # {} \/ GroupKey(findings[k]) \in DOMAIN ruleGroups
<1> DEFINE f == findings[k]
           g == RuleGroup(f)
<1>1. f.rule \in DOMAIN set /\ RuleOf(f).decision # {}
  BY DEF FindingsOK, FindingOK, Pending
<1>2. GroupOK(g) /\ Measured(g)
  BY <1>1, RuleGroupIs
<1>3. NewGroup(f) = IF Placed(f) /\ GroupKey(f) \notin DOMAIN ruleGroups THEN {g} ELSE {}
  BY DEF NewGroup, Placed
<1> HIDE DEF g
<1>4. \A x : The({x}) = x
  BY DEF The
<1> HIDE DEF f
<1>5. AskedGroup(NewGroup(f))
  BY <1>2, <1>3, <1>4 DEF AskedGroup
<1> QED
  BY <1>3, <1>4, <1>5 DEF f, g

LEMMA AskFindingKeeps ==
  ASSUME Inv, AskFinding
  PROVE  Inv'
<1> DEFINE f == findings[turn]
           g == NewGroup(f)
<1>1. /\ pc = "findings" /\ turn <= Len(findings) /\ UNCHANGED <<case, set, pc, memory, findings>>
      /\ IF Pending(f) THEN TurnTo(g, RequestsFor(f, g)) ELSE Through
  BY DEF AskFinding
<1>2. /\ case \in Cases /\ SoundSet /\ FindingsOK /\ RaisedOK /\ turn \in Nat \ {0}
      /\ refGroups' = refGroups /\ ruleGroups' = ruleGroups /\ raised' = raised
      /\ set' = set /\ case' = case /\ pc' = pc /\ findings' = findings
  BY <1>1 DEF Inv, Typed, memory
<1>3. turn \in 1..Len(findings) /\ DOMAIN findings = 1..Len(findings) /\ Len(findings) \in Nat
  BY <1>1, <1>2, Listing DEF FindingsOK
<1>4. CASE ~Pending(f)
  <2>1. Through /\ turn' = turn + 1
    BY <1>1, <1>4 DEF Through
  <2>2. FindingsOK' /\ RaisedOK'
    BY <1>1, <1>2, FindingsStill, RaisedStill
  <2>3. /\ \A v \in DOMAIN refGroups' : GroupOK(refGroups'[v])
        /\ \A key \in DOMAIN ruleGroups' : GroupOK(ruleGroups'[key])
    BY <1>2 DEF Inv, Typed, GroupsOK
  <2>4. ASSUME NEW k \in DOMAIN findings, k < turn + 1 PROVE ~Pending(findings[k])
    <3>1. k < turn \/ k = turn
      BY <2>4, <1>3
    <3> QED
      BY <3>1, <1>1, <1>4 DEF Inv, InOrder
  <2>5. InOrder'
    BY <2>1, <2>4, <1>2 DEF InOrder, Pending, Undecided, RuleOf
  <2> HIDE DEF f
  <2> QED
    BY <1>1, <1>2, <2>1, <2>2, <2>3, <2>5, ThroughKeeps
<1>5. CASE Pending(f)
  <2>1. TurnTo(g, RequestsFor(f, g))
    BY <1>1, <1>5
  <2>2. AskedGroup(g) /\ (Placed(f) => g # {} \/ GroupKey(f) \in DOMAIN ruleGroups)
    BY <1>2, <1>3, <1>5, NewGroupIs
  <2> HIDE DEF g
  <2>3. FindingOK(f) /\ RuleOf(f).decision # {}
    BY <1>2, <1>3, <1>5 DEF FindingsOK, Pending
  <2> HIDE DEF f
  <2>4. Sequence(RequestsFor(f, g)) /\ AllFit(RequestsFor(f, g))
    BY <1>2, <2>2, <2>3, RequestsForAre DEF OwnRequests
  <2>5. /\ group' = g /\ turn' = turn
    BY <2>1 DEF TurnTo
  <2>6. AtFinding'
    BY <2>2, <2>5, <1>1, <1>2, <1>5 DEF AtFinding, f, Placed, Pending, Undecided, GroupKey, Target, RuleOf, skill
  <2>7. g = {} \/ (g = {The(g)} /\ GroupOK(The(g)))
    BY <2>2 DEF AskedGroup
  <2> QED
    BY <1>1, <2>1, <2>4, <2>6, <2>7, TurnKeeps
<1> QED
  BY <1>4, <1>5

-----------------------------------------------------------------------------
(* The requests are answered, one after the other. *)

LEMMA Appending ==
  ASSUME NEW s, Sequence(s), NEW x
  PROVE  /\ Sequence(Append(s, x)) /\ Len(Append(s, x)) = Len(s) + 1
         /\ \A i \in 1..Len(s) : Append(s, x)[i] = s[i]
         /\ Append(s, x)[Len(s) + 1] = x
<1> DEFINE S == ToSet(s) \cup {x}
<1>1. s \in Seq(S) /\ x \in S
  BY DEF Sequence
<1> HIDE DEF S
<1> DEFINE t == Append(s, x)
<1>2. /\ t \in Seq(S) /\ Len(t) = Len(s) + 1 /\ Len(s) \in Nat
      /\ \A i \in 1..Len(s) : t[i] = s[i]
      /\ t[Len(s) + 1] = x
  BY <1>1
<1> HIDE DEF t
<1>3. Sequence(t)
  BY <1>2, ListingOf
<1> QED
  BY <1>2, <1>3 DEF t

\* What an attempt leaves alone, and what it may do to the replies.
Still == UNCHANGED <<case, set, pc, turn, busy, group, requests, memory, findings>>

ReplyAdded == got' = got \/ (Asking /\ \E m : got' = Append(got, m))

LEMMA StillKeeps ==
  ASSUME Inv, Still, ReplyAdded
  PROVE  Inv'
<1>1. /\ case' = case /\ set' = set /\ pc' = pc /\ turn' = turn /\ busy' = busy
      /\ group' = group /\ requests' = requests /\ refGroups' = refGroups
      /\ ruleGroups' = ruleGroups /\ raised' = raised /\ findings' = findings
  BY DEF Still, memory
<1>2. /\ case' \in Cases /\ SoundSet' /\ FindingsOK' /\ RaisedOK'
  BY <1>1, SoundStill, FindingsStill, RaisedStill DEF Inv, Typed
<1>3. GroupsOK'
  BY <1>1 DEF Inv, Typed, GroupsOK
<1>4. RequestsOK' /\ (~busy => got' = got)
  <2>1. Sequence(requests) /\ AllFit(requests)' /\ Sequence(got) /\ Len(got) <= Len(requests)
    BY <1>1 DEF Inv, Typed, RequestsOK, AllFit, Fits
  <2>2. Len(got) \in Nat /\ Len(requests) \in Nat
    BY <2>1, Listing
  <2>3. CASE got' = got
    BY <2>1, <2>3, <1>1 DEF RequestsOK
  <2>4. CASE got' # got
    <3>1. PICK m : got' = Append(got, m)
      BY <2>4 DEF ReplyAdded
    <3>2. busy /\ Len(got) < Len(requests)
      BY <2>4 DEF ReplyAdded, Asking
    <3>3. Sequence(got') /\ Len(got') = Len(got) + 1
      BY <2>1, <3>1, Appending
    <3>4. Len(got') <= Len(requests)
      BY <3>2, <3>3, <2>2
    <3> QED
      BY <2>1, <3>2, <3>3, <3>4, <1>1 DEF RequestsOK
  <2> QED
    BY <2>3, <2>4
<1>5. Typed'
  BY <1>1, <1>2, <1>3, <1>4 DEF Inv, Typed
<1>6. AtReference' = AtReference /\ AtFinding' = AtFinding
  BY <1>1 DEF AtReference, AtFinding, Placed, Pending, Undecided, GroupKey, Target, RuleOf, skill
<1>7. Turned'
  BY <1>1, <1>4, <1>6 DEF Inv, Turned, Idle
<1>8. Unloaded' /\ InOrder'
  BY <1>1 DEF Inv, Unloaded, InOrder, Pending, Undecided, RuleOf
<1> QED
  BY <1>5, <1>7, <1>8 DEF Inv

\* What an attempt of a request does.
LEMMA AttemptStill ==
  ASSUME SkipRequest \/ Answer \/ Unavailable \/ Refuse \/ GiveUp
  PROVE  Still /\ ReplyAdded
<1>1. Still
  BY DEF SkipRequest, Answer, Unavailable, Refuse, GiveUp, Waiting, Still
<1>2. Asking
  BY DEF SkipRequest, Answer, Unavailable, Refuse, GiveUp, Sending
<1>3. ReplyAdded
  <2>1. CASE SkipRequest
    BY <2>1, <1>2 DEF SkipRequest, ReplyAdded
  <2>2. CASE Answer
    BY <2>2, <1>2 DEF Answer, ReplyAdded
  <2>3. CASE Unavailable
    BY <2>3, <1>2 DEF Unavailable, Fail, ReplyAdded
  <2>4. CASE Refuse \/ GiveUp
    BY <2>4, <1>2 DEF Refuse, GiveUp, Fail, ReplyAdded
  <2> QED
    BY <2>1, <2>2, <2>3, <2>4
<1> QED
  BY <1>1, <1>3

LEMMA RestStill ==
  ASSUME ContextEnds \/ Over \/ UNCHANGED vars
  PROVE  Still /\ got' = got
  BY DEF ContextEnds, Over, vars, work, memory, Still

LEMMA ReturnKeeps ==
  ASSUME Inv, Return
  PROVE  Inv'
<1>1. /\ ~busy /\ pc' = "done" /\ case' = case /\ set' = set /\ turn' = turn /\ busy' = busy
      /\ group' = group /\ requests' = requests /\ got' = got /\ refGroups' = refGroups
      /\ ruleGroups' = ruleGroups /\ raised' = raised /\ findings' = findings
  BY DEF Return, work, memory
<1>2. case' \in Cases /\ SoundSet' /\ FindingsOK' /\ RaisedOK'
  BY <1>1, SoundStill, FindingsStill, RaisedStill DEF Inv, Typed
<1>3. GroupsOK' /\ RequestsOK'
  BY <1>1 DEF Inv, Typed, GroupsOK, RequestsOK, AllFit, Fits
<1>4. Typed'
  BY <1>1, <1>2, <1>3 DEF Inv, Typed
<1>5. Turned' /\ Unloaded' /\ InOrder'
  BY <1>1 DEF Inv, Turned, Idle, Unloaded, InOrder
<1> QED
  BY <1>4, <1>5 DEF Inv

-----------------------------------------------------------------------------
(* A reference is through: its group is kept, and its usages are told.     *)

LEMMA RepliesKept ==
  ASSUME NEW g, GroupOK(g)
  PROVE  /\ GroupOK(WithReplies(g)) /\ WithReplies(g).subject = g.subject
         /\ WithReplies(g).questions = g.questions /\ WithReplies(g).places = g.places
<1> DEFINE mine == {k \in DOMAIN got : requests[k].places > 0}
           from(x) == The({k \in mine : x \in DOMAIN got[k]})
           rs == [x \in UNION {DOMAIN got[k] : k \in mine} |-> got[from(x)][x]]
           w == WithReplies(g)
<1>1. w = [g EXCEPT !.replies = rs]
  BY DEF WithReplies
<1> HIDE DEF rs
<1>2. w = [subject |-> g.subject, questions |-> g.questions, replies |-> rs, places |-> g.places]
  BY <1>1 DEF GroupOK
<1> HIDE DEF w
<1>3. w.subject = g.subject /\ w.questions = g.questions /\ w.places = g.places /\ w.replies = rs
  BY <1>2
<1>4. Sequence(w.questions) /\ Sequence(w.places)
  BY <1>3 DEF GroupOK
<1>5. w = [subject |-> w.subject, questions |-> w.questions, replies |-> w.replies,
           places |-> w.places]
  BY <1>2, <1>3
<1>6. GroupOK(w)
  BY <1>4, <1>5 DEF GroupOK
<1> QED
  BY <1>3, <1>6 DEF w

LEMMA PutGroup ==
  ASSUME NEW gs, \A x \in DOMAIN gs : GroupOK(gs[x]), NEW v, NEW g, GroupOK(g)
  PROVE  \A x \in DOMAIN Put(gs, v, g) : GroupOK(Put(gs, v, g)[x])
  BY DEF Put

LEMMA RaisedOne ==
  ASSUME SoundSet, NEW id \in DOMAIN set, NEW loc, NEW ref, NEW how,
         how = {} \/ \E e \in how : how = {e}, how # {} => set[id].decision = {}
  PROVE  AsRaised(Raised(id, loc, ref, how))
<1> DEFINE x == Raised(id, loc, ref, how)
<1>1. x = [rule |-> id, severity |-> set[id].severity, state |-> "none", at |-> loc,
           about |-> <<"line", Spot(loc)>>, reference |-> ref.value, linked |-> << >>,
           decision |-> how]
  BY DEF Raised
<1> HIDE DEF x
<1>2. /\ x.rule = id /\ x.severity = set[id].severity /\ x.state = "none" /\ x.at = loc
      /\ x.about = <<"line", Spot(loc)>> /\ x.reference = ref.value /\ x.linked = << >>
      /\ x.decision = how
  BY <1>1
<1>3. x = [rule |-> x.rule, severity |-> x.severity, state |-> x.state, at |-> x.at,
           about |-> x.about, reference |-> x.reference, linked |-> x.linked,
           decision |-> x.decision]
  BY <1>1, <1>2
<1>4. x.severity \in Severities /\ x.state \in States /\ Sequence(x.linked)
  BY <1>2, NothingListed DEF SoundSet, Sound, States
<1>5. FindingOK(x)
  BY <1>2, <1>3, <1>4 DEF FindingOK
<1> QED
  BY <1>2, <1>5 DEF AsRaised, x

LEMMA RaisedByIs ==
  ASSUME case \in Cases, SoundSet, NEW ref, Sequence(ref.at), NEW answers, NEW found
  PROVE  RaisedAll(RaisedBy(ref, answers, found))
<1> DEFINE id(j) == UsageRules[answers[j].choice]
           told(j) == RaiseAt(ref, answers, j) /\ ~Silent(ref, id(j), ref.at[j], found)
           I == {j \in DOMAIN ref.at : told(j) /\ \A k \in 1..(j - 1) : told(k) => id(k) # id(j)}
           firsts == Picked(Positions(ref.at), I)
           how(j) == IF set[id(j)].decision # {} THEN {}
                     ELSE {[places |-> <<[label |-> j, replies |->
                                            [n \in {Usage} |-> answers[j].reply]]>>]}
           one(k) == Raised(id(firsts[k]), ref.at[firsts[k]], ref, how(firsts[k]))
           t == RaisedBy(ref, answers, found)
<1>1. t = [k \in DOMAIN firsts |-> one(k)]
  BY DEF RaisedBy
<1>2. \A j : told(j) => id(j) \in DOMAIN set
  BY DEF RaiseAt, On
<1>3. \A j : /\ how(j) = {} \/ \E e \in how(j) : how(j) = {e}
             /\ how(j) # {} => set[id(j)].decision = {}
  OBVIOUS
<1> HIDE DEF id, how
<1>4. Len(ref.at) \in Nat /\ DOMAIN ref.at = 1..Len(ref.at) /\ I \in SUBSET (1..Len(ref.at))
  BY Listing
<1>5. \A j \in I : told(j)
  OBVIOUS
<1> HIDE DEF I, told, t
<1>6. firsts \in Seq(I)
  BY <1>4, PickedPositions
<1> HIDE DEF firsts
<1>7. Sequence(firsts) /\ \A j \in 1..Len(firsts) : firsts[j] \in I
  BY <1>6, ListingOf
<1>8. Len(firsts) \in Nat /\ DOMAIN firsts = 1..Len(firsts)
  BY <1>7, Listing
<1>9. ASSUME NEW k \in 1..Len(firsts) PROVE AsRaised(one(k))
  <2>1. id(firsts[k]) \in DOMAIN set
    BY <1>2, <1>7, <1>5
  <2>2. /\ how(firsts[k]) = {} \/ \E e \in how(firsts[k]) : how(firsts[k]) = {e}
        /\ how(firsts[k]) # {} => set[id(firsts[k])].decision = {}
    BY <1>3
  <2> QED
    BY <2>1, <2>2, RaisedOne
<1> HIDE DEF one
<1>10. t = [k \in 1..Len(firsts) |-> t[k]] /\ \A k \in 1..Len(firsts) : t[k] = one(k)
  BY <1>1, <1>8
<1>11. Sequence(t) /\ Len(t) = Len(firsts)
  BY <1>8, <1>10, Indexed
<1> QED
  BY <1>9, <1>10, <1>11 DEF RaisedAll, t

LEMMA ServerIs ==
  ASSUME SoundSet, NEW ref, NEW answers
  PROVE  RaisedAll(Server(ref, answers))
<1> DEFINE at == SelectInSeq(answers, LAMBDA a : a.choice = "tool-server" /\ Sure(a))
           one == Raised(Untrusted, ref.at[at], ref, {})
<1>1. Server(ref, answers) = IF ~On(Untrusted) \/ at = 0 \/ Facts(ref) = {} THEN << >> ELSE <<one>>
  BY DEF Server
<1> HIDE DEF at
<1>2. CASE Server(ref, answers) = << >>
  BY <1>2, NothingListed DEF RaisedAll
<1>3. CASE Server(ref, answers) # << >>
  <2>1. Server(ref, answers) = <<one>> /\ Untrusted \in DOMAIN set
    BY <1>1, <1>3 DEF On
  <2>2. AsRaised(one)
    BY <2>1, RaisedOne
  <2> HIDE DEF one
  <2> QED
    BY <2>1, <2>2, OneOf DEF RaisedAll
<1> QED
  BY <1>2, <1>3

LEMMA RaisedJoined ==
  ASSUME NEW a, NEW b, RaisedAll(a), RaisedAll(b)
  PROVE  RaisedAll(a \o b)
<1> DEFINE c == a \o b
<1>1. /\ Sequence(c) /\ Len(c) = Len(a) + Len(b)
      /\ \A i \in 1..Len(a) : c[i] = a[i]
      /\ \A j \in 1..Len(b) : c[Len(a) + j] = b[j]
      /\ \A i \in 1..(Len(a) + Len(b)) :
           i \in 1..Len(a) \/ \E j \in 1..Len(b) : i = Len(a) + j
  BY Joining DEF RaisedAll
<1> HIDE DEF c
<1>2. ASSUME NEW k \in 1..Len(c) PROVE AsRaised(c[k])
  <2>1. CASE k \in 1..Len(a)
    BY <2>1, <1>1 DEF RaisedAll
  <2>2. CASE k \notin 1..Len(a)
    <3>1. PICK j \in 1..Len(b) : k = Len(a) + j
      BY <2>2, <1>1
    <3> QED
      BY <3>1, <1>1 DEF RaisedAll
  <2> QED
    BY <2>1, <2>2
<1> QED
  BY <1>1, <1>2 DEF RaisedAll, c

LEMMA ConcludeReferenceKeeps ==
  ASSUME Inv, ConcludeReference
  PROVE  Inv'
<1> DEFINE ref == skill.refs[turn]
           g == WithReplies(The(group))
           answers == Classify(ref, g)
           server == Server(ref, answers)
           told == RaisedBy(ref, answers, server # << >>)
<1>1. /\ pc = "usages" /\ busy /\ Through /\ UNCHANGED <<case, set, pc, ruleGroups, findings>>
      /\ refGroups' = Put(refGroups, ref.value, g)
      /\ IF ~Categorized(ref) THEN raised' = raised ELSE raised' = raised \o told \o server
  BY DEF ConcludeReference, Answered
<1>2. /\ case \in Cases /\ SoundSet /\ FindingsOK /\ RaisedOK /\ GroupsOK /\ turn \in Nat \ {0}
      /\ turn <= Len(skill.refs) /\ group # {}
  BY <1>1 DEF Inv, Typed, Turned, AtReference
<1>3. FindingsOK'
  BY <1>1, <1>2, FindingsStill
<1>4. RaisedOK'
  <2>1. SkillOK(skill)
    BY <1>2, DecisionAssumption DEF CaseOK, skill
  <2>2. turn \in DOMAIN skill.refs
    BY <1>2, <2>1, Listing DEF SkillOK
  <2>3. Sequence(ref.at)
    BY <2>1, <2>2 DEF SkillOK
  <2>4. RaisedAll(raised) /\ RaisedAll(told) /\ RaisedAll(server)
    BY <1>2, <2>3, RaisedByIs, ServerIs DEF RaisedOK
  <2> HIDE DEF told, server
  <2>5. RaisedAll(raised \o told)
    BY <2>4, RaisedJoined
  <2>6. RaisedAll((raised \o told) \o server)
    BY <2>4, <2>5, RaisedJoined
  <2>7. RaisedAll(raised')
    BY <2>4, <2>6, <1>1
  <2> QED
    BY <2>7, <1>1 DEF RaisedAll, AsRaised, RaisedOK, FindingOK
<1>5. \A v \in DOMAIN refGroups' : GroupOK(refGroups'[v])
  <2>1. GroupOK(g)
    BY <1>2, RepliesKept DEF GroupsOK
  <2> HIDE DEF g
  <2> QED
    BY <2>1, <1>1, <1>2, PutGroup DEF GroupsOK
<1>6. \A key \in DOMAIN ruleGroups' : GroupOK(ruleGroups'[key])
  BY <1>1, <1>2 DEF GroupsOK
<1>7. InOrder'
  BY <1>1 DEF InOrder
<1> HIDE DEF ref, g, answers, server, told
<1> QED
  BY <1>1, <1>3, <1>4, <1>5, <1>6, <1>7, ThroughKeeps

LEMMA UsagesDoneKeeps ==
  ASSUME Inv, UsagesDone
  PROVE  Inv'
<1> DEFINE more == Dedup(raised)
           I == {k \in DOMAIN raised : \A j \in 1..(k - 1) : Key(raised[j]) # Key(raised[k])}
<1>1. /\ ~busy /\ pc' = "findings" /\ turn' = 1 /\ case' = case /\ set' = set /\ busy' = busy
      /\ group' = group /\ requests' = requests /\ got' = got /\ refGroups' = refGroups
      /\ ruleGroups' = ruleGroups /\ raised' = raised /\ findings' = findings \o more
  BY DEF UsagesDone, work, memory
<1>2. /\ case \in Cases /\ SoundSet /\ FindingsOK /\ RaisedOK /\ GroupsOK /\ RequestsOK
  BY DEF Inv, Typed
<1>3. Sequence(more) /\ \A k \in 1..Len(more) : FindingOK(more[k])
  <2>1. Sequence(raised) /\ I \in SUBSET (1..Len(raised))
    BY <1>2, Listing DEF RaisedOK, RaisedAll
  <2>2. more = Picked(raised, I)
    BY DEF Dedup
  <2> HIDE DEF more, I
  <2>3. Sequence(more) /\ \A j \in 1..Len(more) : \E k \in I : more[j] = raised[k]
    BY <2>1, <2>2, PickedOf
  <2> QED
    BY <2>1, <2>3, <1>2 DEF RaisedOK, RaisedAll, AsRaised
<1> HIDE DEF more
<1>4. FindingsOK'
  <2> DEFINE c == findings \o more
  <2>1. /\ Sequence(c) /\ Len(c) = Len(findings) + Len(more)
        /\ \A i \in 1..Len(findings) : c[i] = findings[i]
        /\ \A j \in 1..Len(more) : c[Len(findings) + j] = more[j]
        /\ \A i \in 1..(Len(findings) + Len(more)) :
             i \in 1..Len(findings) \/ \E j \in 1..Len(more) : i = Len(findings) + j
    BY <1>2, <1>3, Joining DEF FindingsOK
  <2> HIDE DEF c
  <2>2. ASSUME NEW k \in 1..Len(c) PROVE FindingOK(c[k])
    <3>1. CASE k \in 1..Len(findings)
      BY <3>1, <2>1, <1>2 DEF FindingsOK
    <3>2. CASE k \notin 1..Len(findings)
      <4>1. PICK j \in 1..Len(more) : k = Len(findings) + j
        BY <3>2, <2>1
      <4> QED
        BY <4>1, <2>1, <1>3
    <3> QED
      BY <3>1, <3>2
  <2>3. findings' = c
    BY <1>1 DEF c
  <2> QED
    BY <2>1, <2>2, <2>3, <1>1 DEF FindingsOK, FindingOK
<1>5. SoundSet' /\ RaisedOK' /\ GroupsOK' /\ RequestsOK'
  BY <1>1, <1>2, SoundStill, RaisedStill DEF GroupsOK, RequestsOK, AllFit, Fits
<1>6. Typed'
  BY <1>1, <1>2, <1>4, <1>5 DEF Inv, Typed
<1>7. Turned' /\ Unloaded'
  BY <1>1 DEF Inv, Turned, Idle, Unloaded
<1>8. InOrder'
  <2>1. \A k \in DOMAIN findings' : ~(k < 1)
    BY <1>4, Listing DEF FindingsOK
  <2> QED
    BY <2>1, <1>1 DEF InOrder
<1> QED
  BY <1>6, <1>7, <1>8 DEF Inv

-----------------------------------------------------------------------------
(* A finding is judged by its evidence.                                    *)

\* The groups while a finding is concluded.
LEMMA GroupsNowAre ==
  ASSUME GroupsOK
  PROVE  /\ \A key \in DOMAIN GroupsNow : GroupOK(GroupsNow[key])
         /\ DOMAIN ruleGroups \subseteq DOMAIN GroupsNow
         /\ group # {} => GroupKey(findings[turn]) \in DOMAIN GroupsNow
<1> DEFINE key == GroupKey(findings[turn])
           g == WithReplies(The(group))
<1>1. CASE group = {}
  BY <1>1 DEF GroupsNow, GroupsOK
<1>2. CASE group # {}
  <2>1. GroupsNow = Put(ruleGroups, key, g)
    BY <1>2 DEF GroupsNow
  <2>2. GroupOK(g)
    BY <1>2, RepliesKept DEF GroupsOK
  <2> HIDE DEF key, g
  <2>3. \A x \in DOMAIN Put(ruleGroups, key, g) : GroupOK(Put(ruleGroups, key, g)[x])
    BY <2>2, PutGroup DEF GroupsOK
  <2>4. DOMAIN Put(ruleGroups, key, g) = DOMAIN ruleGroups \cup {key}
    BY DEF Put
  <2> QED
    BY <2>1, <2>3, <2>4 DEF key
<1> QED
  BY <1>1, <1>2

\* The group a finding at hand looks into.
LEMMA GroupOfIs ==
  ASSUME Inv, busy, pc = "findings", "places" \in SubjectsOf(TableOf(RuleOf(findings[turn]))),
         HasGroup(findings[turn])
  PROVE  /\ GroupOK(GroupOf(findings[turn]))
         /\ RuleOf(findings[turn]).layer = "references" =>
              findings[turn].reference \in DOMAIN refGroups
         /\ RuleOf(findings[turn]).layer # "references" =>
              GroupKey(findings[turn]) \in DOMAIN GroupsNow
<1> DEFINE f == findings[turn]
<1>1. GroupsOK /\ AtFinding
  BY DEF Inv, Typed, Turned
<1>2. CASE RuleOf(f).layer = "references"
  BY <1>1, <1>2 DEF GroupOf, HasGroup, GroupsOK
<1>3. CASE RuleOf(f).layer # "references"
  <2>1. group # {} \/ GroupKey(f) \in DOMAIN ruleGroups
    BY <1>1, <1>3 DEF AtFinding, Placed
  <2>2. GroupKey(f) \in DOMAIN GroupsNow /\ GroupOK(GroupsNow[GroupKey(f)])
    BY <1>1, <2>1, GroupsNowAre
  <2> QED
    BY <2>2, <1>3 DEF GroupOf
<1> QED
  BY <1>2, <1>3

LEMMA PlaceInstancesListed ==
  ASSUME NEW f, SoundTable(TableOf(RuleOf(f))), HasGroup(f) => GroupOK(GroupOf(f))
  PROVE  Sequence(PlaceInstances(f))
<1> DEFINE names == Named(TableOf(RuleOf(f)), "places")
           g == WantAll(GroupOf(f), names)
           none == [label |-> "none", replies |->
                     [n \in {names[k].name : k \in DOMAIN names} |->
                        [NoReply EXCEPT !.skipped = "no-line"]]]
           one(p) == [label |-> p.id, replies |->
                       [n \in {names[k].name : k \in DOMAIN names} |->
                          PlaceReply(g, p, Wanted(g, names[SelectInSeq(names, LAMBDA m : m.name = n)]))]]
           ps == PlacesOf(f, g)
           t == PlaceInstances(f)
<1>1. t = IF ~HasGroup(f) \/ PlacesOf(f, GroupOf(f)) = << >> THEN <<none>>
          ELSE [k \in DOMAIN ps |-> one(ps[k])]
  BY DEF PlaceInstances
<1>2. Sequence(names)
  BY NamedIs
<1> HIDE DEF names
<1>3. CASE t = <<none>>
  <2> HIDE DEF none
  <2> QED
    BY <1>3, OneOf
<1>4. CASE t # <<none>>
  <2>1. HasGroup(f) /\ t = [k \in DOMAIN ps |-> one(ps[k])]
    BY <1>1, <1>4
  <2>2. Sequence(g.places)
    BY <2>1, <1>2, WantedAll DEF More, GroupOK
  <2> HIDE DEF g, one, none, t
  <2>3. Sequence(ps)
    <3> DEFINE at == SelectLastInSeq(g.places, LAMBDA p : p.at = Spot(f.at))
    <3>1. ps = IF RuleOf(f).layer = "references" THEN g.places
               ELSE IF at = 0 THEN << >> ELSE <<g.places[at]>>
      BY DEF PlacesOf
    <3> HIDE DEF at, ps
    <3> QED
      BY <3>1, <2>2, NothingListed, OneOf
  <2> HIDE DEF ps
  <2>4. Len(ps) \in Nat /\ DOMAIN ps = 1..Len(ps)
    BY <2>3, Listing
  <2>5. t = [k \in 1..Len(ps) |-> t[k]]
    BY <2>1, <2>4
  <2> QED
    BY <2>4, <2>5, Indexed DEF t
<1> QED
  BY <1>3, <1>4

LEMMA SingleInstancesAre ==
  ASSUME Sequence(got), NEW s
  PROVE  /\ Sequence(SingleInstances(s))
         /\ \A j \in 1..Len(SingleInstances(s)) : \E k \in 1..Len(got) :
              requests[k].subject = s /\ SingleInstances(s)[j].replies = got[k]
<1> DEFINE I == {k \in DOMAIN got : requests[k].subject = s}
           mine == Picked(Positions(got), I)
           t == SingleInstances(s)
           one(k) == [label |-> requests[mine[k]].label, replies |-> got[mine[k]]]
<1>1. t = [k \in DOMAIN mine |-> one(k)]
  BY DEF SingleInstances
<1>2. Len(got) \in Nat /\ DOMAIN got = 1..Len(got) /\ I \in SUBSET (1..Len(got))
  BY Listing
<1>3. mine \in Seq(I)
  BY <1>2, PickedPositions
<1>4. \A k \in I : k \in 1..Len(got) /\ requests[k].subject = s
  BY <1>2
<1> HIDE DEF I, mine, t
<1>5. Len(mine) \in Nat /\ DOMAIN mine = 1..Len(mine) /\ \A k \in 1..Len(mine) : mine[k] \in I
  BY <1>3
<1>6. t = [k \in 1..Len(mine) |-> t[k]] /\ \A k \in 1..Len(mine) : t[k] = one(k)
  BY <1>1, <1>5
<1>7. Sequence(t) /\ Len(t) = Len(mine)
  BY <1>5, <1>6, Indexed
<1>8. \A j \in 1..Len(t) : t[j].replies = got[mine[j]] /\ mine[j] \in I
  BY <1>5, <1>6, <1>7
<1> QED
  BY <1>4, <1>7, <1>8 DEF t

LEMMA EvidenceIs ==
  ASSUME Inv, busy, pc = "findings"
  PROVE  EvidenceOK(Evidence(findings[turn]))
<1> DEFINE f == findings[turn]
           d == TableOf(RuleOf(f))
           e == Evidence(f)
<1>1. SoundSet /\ FindingsOK /\ AtFinding /\ RequestsOK /\ turn \in Nat \ {0}
  BY DEF Inv, Typed, Turned
<1>2. f.rule \in DOMAIN set /\ RuleOf(f).decision # {}
  <2>1. turn \in 1..Len(findings) /\ RuleOf(f).decision # {}
    BY <1>1, Listing DEF FindingsOK, AtFinding, Pending
  <2>2. FindingOK(f)
    BY <2>1, <1>1 DEF FindingsOK
  <2> QED
    BY <2>1, <2>2 DEF FindingOK
<1>3. SoundTable(d)
  BY <1>1, <1>2, TableIs
<1>4. e = [s \in SubjectsOf(d) |-> IF s = "places" THEN PlaceInstances(f) ELSE SingleInstances(s)]
  BY DEF Evidence
<1>5. ASSUME NEW s \in SubjectsOf(d) PROVE s \in Subjects /\ Sequence(e[s])
  <2>1. s \in Subjects
    BY <1>3 DEF SubjectsOf, SoundTable
  <2>2. CASE s = "places"
    <3>1. HasGroup(f) => GroupOK(GroupOf(f))
      BY <2>2, GroupOfIs
    <3>2. Sequence(PlaceInstances(f))
      BY <1>3, <3>1, PlaceInstancesListed
    <3> QED
      BY <2>1, <2>2, <3>2, <1>4
  <2>3. CASE s # "places"
    <3>1. Sequence(SingleInstances(s))
      BY <1>1, SingleInstancesAre DEF RequestsOK
    <3> QED
      BY <2>1, <2>3, <3>1, <1>4
  <2> QED
    BY <2>2, <2>3
<1> QED
  BY <1>4, <1>5 DEF EvidenceOK

\* A finding takes the judgement of the engine, and remembers what it was made from.
LEMMA Judges ==
  ASSUME SoundSet, NEW f, FindingOK(f), RuleOf(f).decision # {}, NEW e, EvidenceOK(e)
  PROVE  LET o == Decide(e, TableOf(RuleOf(f)).outcome, case.bars, RuleOf(f).judge.downgrade)
             v == EngineJudge(o, f.severity, RuleOf(f).judge.floor)
             j == Judge(f, e)
         IN  /\ FindingOK(j) /\ OutcomeOK(o) /\ JudgementOK(v)
             /\ j.decision = {e} /\ j.rule = f.rule /\ j.at = f.at /\ j.about = f.about
             /\ j.reference = f.reference /\ j.linked = f.linked
             /\ v = NoVerdict => j.severity = f.severity /\ j.state = f.state
             /\ v # NoVerdict => j.severity = v.severity /\ j.state = v.state
<1> DEFINE r == RuleOf(f)
           t == TableOf(r).outcome
           o == Decide(e, t, case.bars, r.judge.downgrade)
           v == EngineJudge(o, f.severity, r.judge.floor)
           j == Judge(f, e)
<1>1. Sound(r) /\ r.judge.downgrade \in BOOLEAN /\ r.judge.floor \in Floors
  BY DEF FindingOK, SoundSet, Sound, RuleOf
<1>2. OutcomeOK(o)
  <2> DEFINE all == Combinations(e)
             one(k) == DecideOne(all[k], t, case.bars, r.judge.downgrade)
  <2>1. Sequence(all)
    BY CombinationsListed
  <2>2. /\ Len(all) = 0 => o = Kept
        /\ Len(all) > 0 => \E k \in 1..Len(all) : o = one(k)
    <3> HIDE DEF t
    <3> QED
      BY <2>1, <1>1, Decided
  <2>3. Len(all) \in Nat
    BY <2>1, Listing
  <2> HIDE DEF all, o
  <2>4. \A k : OutcomeOK(one(k))
    BY <1>1, DecidedOne
  <2>5. OutcomeOK(Kept)
    BY DEF OutcomeOK, Kept, Outcome, Results
  <2> HIDE DEF one
  <2>6. CASE Len(all) = 0
    BY <2>2, <2>5, <2>6
  <2>7. CASE Len(all) > 0
    BY <2>2, <2>4, <2>7
  <2> QED
    BY <2>3, <2>6, <2>7
<1>3. JudgementOK(v)
  <2> HIDE DEF o
  <2> QED
    BY <1>1, <1>2, EngineJudges DEF FindingOK
<1>4. j = IF v = NoVerdict THEN [f EXCEPT !.decision = {e}]
          ELSE [f EXCEPT !.decision = {e}, !.severity = v.severity, !.state = v.state]
  BY DEF Judge, JudgeFinding, TableOf
<1> HIDE DEF o, v, j
<1> DEFINE sev == IF v = NoVerdict THEN f.severity ELSE v.severity
           st == IF v = NoVerdict THEN f.state ELSE v.state
<1>5. j = [rule |-> f.rule, severity |-> sev, state |-> st, at |-> f.at, about |-> f.about,
           reference |-> f.reference, linked |-> f.linked, decision |-> {e}]
  <2>1. f = [rule |-> f.rule, severity |-> f.severity, state |-> f.state, at |-> f.at,
             about |-> f.about, reference |-> f.reference, linked |-> f.linked,
             decision |-> f.decision]
    BY DEF FindingOK
  <2>2. CASE v = NoVerdict
    <3>1. j = [f EXCEPT !.decision = {e}] /\ sev = f.severity /\ st = f.state
      BY <2>2, <1>4
    <3> HIDE DEF sev, st
    <3> QED
      BY <2>1, <3>1
  <2>3. CASE v # NoVerdict
    <3>1. /\ j = [f EXCEPT !.decision = {e}, !.severity = v.severity, !.state = v.state]
          /\ sev = v.severity /\ st = v.state
      BY <2>3, <1>4
    <3> HIDE DEF sev, st
    <3> QED
      BY <2>1, <3>1
  <2> QED
    BY <2>2, <2>3
<1>6. sev \in Severities /\ st \in States
  BY <1>3 DEF JudgementOK, FindingOK
<1>7. /\ v = NoVerdict => sev = f.severity /\ st = f.state
      /\ v # NoVerdict => sev = v.severity /\ st = v.state
  OBVIOUS
<1> HIDE DEF sev, st
<1>8. /\ j.rule = f.rule /\ j.severity = sev /\ j.state = st /\ j.at = f.at /\ j.about = f.about
      /\ j.reference = f.reference /\ j.linked = f.linked /\ j.decision = {e}
  BY <1>5
<1>9. j = [rule |-> j.rule, severity |-> j.severity, state |-> j.state, at |-> j.at,
           about |-> j.about, reference |-> j.reference, linked |-> j.linked,
           decision |-> j.decision]
  BY <1>5, <1>8
<1>10. FindingOK(j)
  <2>1. \E x \in j.decision : j.decision = {x}
    BY <1>8
  <2> QED
    BY <2>1, <1>6, <1>8, <1>9 DEF FindingOK
<1> QED
  BY <1>2, <1>3, <1>7, <1>8, <1>10 DEF j, v, o, t, r

\* A finding adds its questions to its group.
LEMMA AskedGroups ==
  ASSUME NEW f, SoundTable(TableOf(RuleOf(f))), NEW key, NEW gs,
         \A x \in DOMAIN gs : GroupOK(gs[x])
  PROVE  /\ DOMAIN Asked(f, key, gs) = DOMAIN gs
         /\ \A x \in DOMAIN gs : More(Asked(f, key, gs)[x], gs[x])
         /\ \A x \in DOMAIN gs : x # key => Asked(f, key, gs)[x] = gs[x]
         /\ key \in DOMAIN gs => Asked(f, key, gs)[key]
                                   = WantAll(gs[key], Named(TableOf(RuleOf(f)), "places"))
<1> DEFINE names == Named(TableOf(RuleOf(f)), "places")
           as == Asked(f, key, gs)
<1>1. as = [gs EXCEPT ![key] = WantAll(gs[key], names)]
  BY DEF Asked
<1>2. Sequence(names)
  BY NamedIs
<1> HIDE DEF names
<1>3. /\ DOMAIN as = DOMAIN gs /\ \A x \in DOMAIN gs : x # key => as[x] = gs[x]
      /\ key \in DOMAIN gs => as[key] = WantAll(gs[key], names)
  BY <1>1
<1> HIDE DEF as
<1>4. ASSUME NEW x \in DOMAIN gs PROVE More(as[x], gs[x])
  <2>1. GroupOK(gs[x])
    OBVIOUS
  <2>2. CASE x = key
    BY <2>1, <2>2, <1>2, <1>3, WantedAll
  <2>3. CASE x # key
    BY <2>1, <2>3, <1>3, MoreReflexive
  <2> QED
    BY <2>2, <2>3
<1> QED
  BY <1>3, <1>4 DEF as, names

LEMMA ConcludeFindingKeeps ==
  ASSUME Inv, ConcludeFinding
  PROVE  Inv'
<1> DEFINE f == findings[turn]
           r == RuleOf(f)
           placed == "places" \in SubjectsOf(TableOf(RuleOf(f))) /\ HasGroup(f)
           j == Judge(f, Evidence(f))
<1>1. /\ pc = "findings" /\ busy /\ Through /\ UNCHANGED <<case, set, pc, raised>>
      /\ turn' = turn + 1
      /\ findings' = [findings EXCEPT ![turn] = j]
      /\ IF placed /\ r.layer = "references"
           THEN refGroups' = Asked(f, f.reference, refGroups) /\ ruleGroups' = ruleGroups
         ELSE IF placed
           THEN ruleGroups' = Asked(f, GroupKey(f), GroupsNow) /\ refGroups' = refGroups
         ELSE UNCHANGED <<refGroups, ruleGroups>>
  BY DEF ConcludeFinding, Answered, Through
<1>2. /\ case \in Cases /\ SoundSet /\ FindingsOK /\ RaisedOK /\ GroupsOK /\ turn \in Nat \ {0}
      /\ turn <= Len(findings) /\ Pending(f)
  BY <1>1 DEF Inv, Typed, Turned, AtFinding
<1>3. turn \in 1..Len(findings) /\ DOMAIN findings = 1..Len(findings) /\ Len(findings) \in Nat
  BY <1>2, Listing DEF FindingsOK
<1>4. FindingOK(f) /\ r.decision # {} /\ f.rule \in DOMAIN set
  BY <1>2, <1>3 DEF FindingsOK, FindingOK, Pending
<1>5. SoundTable(TableOf(r))
  BY <1>2, <1>4, TableIs
<1>6. EvidenceOK(Evidence(f))
  BY <1>1, EvidenceIs
<1>7. FindingOK(j) /\ j.decision = {Evidence(f)}
  <2> HIDE DEF f
  <2> QED
    BY <1>2, <1>4, <1>6, Judges DEF r
<1> HIDE DEF j, f, r, placed
<1>8. /\ findings'[turn] = j /\ DOMAIN findings' = 1..Len(findings)
      /\ \A k \in 1..Len(findings) : k # turn => findings'[k] = findings[k]
      /\ findings' = [k \in 1..Len(findings) |-> findings'[k]]
  BY <1>1, <1>3
<1>9. Sequence(findings') /\ Len(findings') = Len(findings)
  BY <1>3, <1>8, Indexed
<1>10. FindingsOK' /\ RaisedOK'
  <2>1. \A k \in 1..Len(findings) : FindingOK(findings'[k])
    BY <1>2, <1>7, <1>8 DEF FindingsOK
  <2>2. RaisedOK'
    BY <1>1, <1>2, RaisedStill
  <2>3. FindingsOK'
    BY <2>1, <1>1, <1>9 DEF FindingsOK, FindingOK
  <2> QED
    BY <2>2, <2>3
<1>11. InOrder'
  <2>1. ASSUME NEW k \in 1..Len(findings), k < turn + 1
        PROVE  ~(Undecided(findings'[k]) /\ set[findings'[k].rule].decision # {})
    <3>1. CASE k = turn
      BY <3>1, <1>7, <1>8 DEF Undecided
    <3>2. CASE k # turn
      <4>1. k < turn
        BY <3>2, <2>1, <1>2
      <4>2. ~Pending(findings[k])
        BY <4>1, <1>1, <1>3 DEF Inv, InOrder
      <4> QED
        BY <4>2, <3>2, <1>8 DEF Pending, RuleOf
    <3> QED
      BY <3>1, <3>2
  <2> QED
    BY <2>1, <1>1, <1>8 DEF InOrder, Pending, Undecided, RuleOf
<1>12. \A v \in DOMAIN refGroups' : GroupOK(refGroups'[v])
  <2>1. CASE placed /\ r.layer = "references"
    BY <2>1, <1>1, <1>2, <1>5, AskedGroups DEF GroupsOK, More, r
  <2>2. CASE ~(placed /\ r.layer = "references")
    BY <2>2, <1>1, <1>2 DEF GroupsOK
  <2> QED
    BY <2>1, <2>2
<1>13. \A key \in DOMAIN ruleGroups' : GroupOK(ruleGroups'[key])
  <2>1. CASE placed /\ r.layer # "references"
    <3>1. \A key \in DOMAIN GroupsNow : GroupOK(GroupsNow[key])
      BY <1>2, GroupsNowAre
    <3> QED
      BY <3>1, <2>1, <1>1, <1>5, AskedGroups DEF More, r
  <2>2. CASE ~(placed /\ r.layer # "references")
    BY <2>2, <1>1, <1>2 DEF GroupsOK
  <2> QED
    BY <2>1, <2>2
<1> QED
  BY <1>1, <1>10, <1>11, <1>12, <1>13, ThroughKeeps

\* The first invariant of the layer.
THEOREM LayerInvariant == Spec => []Inv
<1>1. Init => Inv
  <2> SUFFICES ASSUME Init PROVE Inv
    OBVIOUS
  <2> USE DEF Init
  <2>1. SoundSet /\ FindingsOK /\ RaisedOK /\ GroupsOK /\ RequestsOK
    BY NothingListed DEF SoundSet, FindingsOK, RaisedOK, RaisedAll, GroupsOK, RequestsOK, AllFit
  <2>2. Typed
    <3>1. case \in Cases /\ pc = "load" /\ turn = 1 /\ busy = FALSE
      OBVIOUS
    <3>2. busy \in BOOLEAN
      BY ONLY <3>1
    <3>3. pc \in {"load", "usages", "findings", "done", "refused"} /\ turn \in Nat \ {0}
      BY ONLY <3>1
    <3> QED
      BY ONLY <2>1, <3>1, <3>2, <3>3 DEF Typed
  <2>3. Unloaded /\ Turned /\ InOrder
    BY DEF Unloaded, Turned, Idle, InOrder
  <2> QED
    BY <2>2, <2>3 DEF Inv
<1>2. Inv /\ [Next]_vars => Inv'
  <2> SUFFICES ASSUME Inv, [Next]_vars PROVE Inv'
    OBVIOUS
  <2>1. CASE LoadRules
    BY <2>1, LoadKeeps
  <2>2. CASE AskReference
    BY <2>2, AskReferenceKeeps
  <2>3. CASE AskFinding
    BY <2>3, AskFindingKeeps
  <2>4. CASE SkipRequest \/ Answer \/ Unavailable \/ Refuse \/ GiveUp
    BY <2>4, AttemptStill, StillKeeps
  <2>5. CASE ConcludeReference
    BY <2>5, ConcludeReferenceKeeps
  <2>6. CASE UsagesDone
    BY <2>6, UsagesDoneKeeps
  <2>7. CASE ConcludeFinding
    BY <2>7, ConcludeFindingKeeps
  <2>8. CASE Return
    BY <2>8, ReturnKeeps
  <2>9. CASE ContextEnds \/ Over \/ UNCHANGED vars
    BY <2>9, RestStill, StillKeeps DEF ReplyAdded
  <2> QED
    BY <2>1, <2>2, <2>3, <2>4, <2>5, <2>6, <2>7, <2>8, <2>9 DEF Next, Step
<1> QED
  BY <1>1, <1>2, PTL DEF Spec

\* A request for several places is neither cut short nor refused for its size, whatever
\* the skill, its rules and the limits are (places.go, ask.go).
THEOREM RequestsFit == Spec => []BatchesFit
<1>1. Inv => BatchesFit
  BY Listing DEF Inv, Typed, RequestsOK, AllFit, Fits, BatchesFit
<1> QED
  BY <1>1, LayerInvariant, PTL

-----------------------------------------------------------------------------
(* What a reply is an answer to, and what the groups hold.                 *)

\* A reply that gives nothing to a row, of a question that was asked.
Silenced(a) == a.mass = << >> /\ a.skipped \notin {"no-line", "not-asked"}

ReplyTo(r, q, a) ==
  IF a.skipped = "none" THEN a.of = q.asks /\ r.skip = "none"
  ELSE a.mass = << >> /\ (r.skip = "none" => Silenced(a))

Replied(r, m) ==
  /\ \A j \in 1..Len(r.queries) : r.queries[j].id \in DOMAIN m
  /\ \A x \in DOMAIN m : \E j \in 1..Len(r.queries) :
       r.queries[j].id = x /\ ReplyTo(r, r.queries[j], m[x])

\* A reply of a group is about the question and the place it is kept under.
AnswersAt(g, x, a) ==
  \E p \in 1..Len(g.places), k \in 1..Len(g.questions) :
    /\ x = <<g.places[p].id, g.questions[k].id>>
    /\ a.of[1] = Content(g.questions[k].question)
    /\ a.of[3] = <<"place", g.places[p].at>>

Told(g) ==
  \A x \in DOMAIN g.replies :
    IF g.replies[x].skipped = "none" THEN AnswersAt(g, x, g.replies[x])
    ELSE Silenced(g.replies[x])

OwnGroup(g) == OwnIds(g) /\ OwnPlaces(g) /\ Told(g)

\* Every question was asked at every place.
AllTold(g) ==
  \A p \in 1..Len(g.places), k \in 1..Len(g.questions) :
    <<g.places[p].id, g.questions[k].id>> \in DOMAIN g.replies

SpotsOf(value) ==
  {Spot(l) : l \in UNION {ToSet(skill.refs[k].at) :
     k \in {m \in DOMAIN skill.refs : skill.refs[m].value = value}}}

OfReference(g, value) == \A p \in 1..Len(g.places) : g.places[p].at \in SpotsOf(value)

\* The place of every finding that is still to be decided is in the group of its key.
HasPlaces(g, key) ==
  \A k \in DOMAIN findings :
    (Pending(findings[k]) /\ GroupKey(findings[k]) = key /\ Frame(findings[k].at)) =>
      \E p \in 1..Len(g.places) : g.places[p].at = Spot(findings[k].at)

\* The group of a rule has the questions of its table.
OfRule(g, id) == id \in DOMAIN set /\ set[id].decision # {} /\ AsksFor(g, TableOf(set[id]))

GroupsTold ==
  /\ pc \in {"load", "usages"} => ruleGroups = << >>
  /\ \A v \in DOMAIN refGroups : OwnGroup(refGroups[v]) /\ OfReference(refGroups[v], v)
  /\ \A key \in DOMAIN ruleGroups :
       /\ OwnGroup(ruleGroups[key]) /\ AllTold(ruleGroups[key])
       /\ OfRule(ruleGroups[key], key[1]) /\ HasPlaces(ruleGroups[key], key)

\* What is asked for the reference or the finding at hand.
AskedOfReference ==
  /\ OfReference(The(group), skill.refs[turn].value)
  /\ \A k \in 1..Len(requests) : PlacesRequest(requests[k], The(group))

AskedOfFinding ==
  /\ OwnRequests(requests, TableOf(RuleOf(findings[turn])), findings[turn], group)
  /\ group # {} =>
       /\ Placed(findings[turn]) /\ OfRule(The(group), findings[turn].rule)
       /\ HasPlaces(The(group), GroupKey(findings[turn])) /\ Covers(requests, The(group))

AskedWell ==
  /\ group # {} => OwnGroup(The(group))
  /\ \A k \in 1..Len(got) : Replied(requests[k], got[k])
  /\ busy /\ pc = "usages" => AskedOfReference
  /\ busy /\ pc = "findings" => AskedOfFinding

AskedAndTold == GroupsTold /\ AskedWell

LEMMA HasPlacesStill ==
  ASSUME case' = case, set' = set, findings' = findings, NEW g, NEW key, HasPlaces(g, key)
  PROVE  HasPlaces(g, key)'
  BY DEF HasPlaces, Pending, Undecided, GroupKey, Target, RuleOf, Frame, skill

LEMMA OfReferenceStill ==
  ASSUME case' = case, NEW g, NEW v, OfReference(g, v)
  PROVE  OfReference(g, v)'
  BY DEF OfReference, SpotsOf, skill

\* Keys and groups of the next state, told from the same findings and rules.
LEMMA GroupsTellStill ==
  ASSUME AskedAndTold, case' = case, set' = set, findings' = findings, refGroups' = refGroups,
         ruleGroups' = ruleGroups, pc' = pc \/ pc' = "done"
  PROVE  GroupsTold'
<1>1. ASSUME NEW v \in DOMAIN refGroups PROVE OwnGroup(refGroups[v]) /\ OfReference(refGroups[v], v)'
  BY OfReferenceStill DEF AskedAndTold, GroupsTold
<1>2. ASSUME NEW key \in DOMAIN ruleGroups
      PROVE  /\ OwnGroup(ruleGroups[key]) /\ AllTold(ruleGroups[key])
             /\ OfRule(ruleGroups[key], key[1])' /\ HasPlaces(ruleGroups[key], key)'
  <2>1. /\ OwnGroup(ruleGroups[key]) /\ AllTold(ruleGroups[key])
        /\ OfRule(ruleGroups[key], key[1]) /\ HasPlaces(ruleGroups[key], key)
    BY DEF AskedAndTold, GroupsTold
  <2>2. HasPlaces(ruleGroups[key], key)'
    <3> DEFINE g == ruleGroups[key]
    <3>1. HasPlaces(g, key)
      BY <2>1
    <3> HIDE DEF g
    <3>2. g' = g
      BY DEF g
    <3> QED
      BY <3>1, <3>2, HasPlacesStill DEF g
  <2> QED
    BY <2>1, <2>2 DEF OfRule
<1>3. pc' \in {"load", "usages"} => ruleGroups = << >>
  BY DEF AskedAndTold, GroupsTold
<1> QED
  BY <1>1, <1>2, <1>3 DEF GroupsTold

\* A reply to the request at hand, if there is one.
ReplyHeard == got' = got \/ (Asking /\ \E m : Replied(Current, m) /\ got' = Append(got, m))

LEMMA StillTells ==
  ASSUME Inv, AskedAndTold, Still, ReplyHeard
  PROVE  AskedAndTold'
<1>1. /\ case' = case /\ set' = set /\ pc' = pc /\ turn' = turn /\ busy' = busy
      /\ group' = group /\ requests' = requests /\ refGroups' = refGroups
      /\ ruleGroups' = ruleGroups /\ raised' = raised /\ findings' = findings
  BY DEF Still, memory
<1>2. GroupsTold'
  BY <1>1, GroupsTellStill
<1>3. \A k \in 1..Len(got') : Replied(requests[k], got'[k])
  <2>1. \A k \in 1..Len(got) : Replied(requests[k], got[k])
    BY DEF AskedAndTold, AskedWell
  <2>2. CASE got' = got
    BY <2>1, <2>2
  <2>3. CASE got' # got
    <3>1. PICK m : Replied(requests[Len(got) + 1], m) /\ got' = Append(got, m)
      BY <2>3 DEF ReplyHeard, Current
    <3>2. Sequence(got)
      BY DEF Inv, Typed, RequestsOK
    <3>3. /\ Len(got') = Len(got) + 1 /\ \A i \in 1..Len(got) : got'[i] = got[i]
          /\ got'[Len(got) + 1] = m /\ Len(got) \in Nat
      BY <3>1, <3>2, Appending, Listing
    <3>4. ASSUME NEW k \in 1..Len(got') PROVE Replied(requests[k], got'[k])
      <4>1. k \in 1..Len(got) \/ k = Len(got) + 1
        BY <3>3
      <4> QED
        BY <4>1, <3>1, <3>3, <2>1
    <3> QED
      BY <3>4
  <2> QED
    BY <2>2, <2>3
<1>4. AskedOfReference => AskedOfReference'
  BY <1>1 DEF AskedOfReference, OfReference, SpotsOf, skill
<1>5. AskedOfFinding => AskedOfFinding'
  BY <1>1 DEF AskedOfFinding, Placed, OfRule, HasPlaces, Pending, Undecided, GroupKey, Target,
              RuleOf, Frame, skill
<1>6. AskedWell'
  BY <1>1, <1>3, <1>4, <1>5 DEF AskedAndTold, AskedWell
<1> QED
  BY <1>2, <1>6 DEF AskedAndTold

LEMMA QueriesListed ==
  ASSUME Inv, AskedAndTold, busy, NEW k \in 1..Len(requests)
  PROVE  Sequence(requests[k].queries)
<1>1. pc \in {"usages", "findings"}
  BY DEF Inv, Turned
<1>2. CASE pc = "usages"
  BY <1>2 DEF AskedAndTold, AskedWell, AskedOfReference, PlacesRequest
<1>3. CASE pc = "findings"
  <2>1. OwnRequest(requests[k], TableOf(RuleOf(findings[turn])), findings[turn], group)
    BY <1>3 DEF AskedAndTold, AskedWell, AskedOfFinding, OwnRequests
  <2> QED
    BY <2>1 DEF OwnRequest, AboutRequest, PlacesRequest
<1> QED
  BY <1>1, <1>2, <1>3

\* A request that is not answered: why, for each of its queries.
LEMMA SkippedReplies ==
  ASSUME NEW r, Sequence(r.queries), NEW reason, reason # "none",
         r.skip = "none" => reason \notin {"no-line", "not-asked"}
  PROVE  Replied(r, Skipped(r.queries, reason))
<1> DEFINE ids == {r.queries[k].id : k \in DOMAIN r.queries}
           none == [NoReply EXCEPT !.skipped = reason]
           m == Skipped(r.queries, reason)
<1>1. m = [id \in ids |-> none]
  BY DEF Skipped
<1>2. none.skipped = reason /\ none.mass = << >>
  BY DEF NoReply
<1>3. DOMAIN r.queries = 1..Len(r.queries)
  BY Listing
<1> HIDE DEF none, m
<1>4. \A q : ReplyTo(r, q, none)
  BY <1>2 DEF ReplyTo, Silenced
<1>5. DOMAIN m = ids /\ \A x \in ids : m[x] = none
  BY <1>1
<1>6. \A j \in 1..Len(r.queries) : r.queries[j].id \in DOMAIN m
  BY <1>3, <1>5
<1>7. ASSUME NEW x \in DOMAIN m
      PROVE  \E j \in 1..Len(r.queries) : r.queries[j].id = x /\ ReplyTo(r, r.queries[j], m[x])
  <2>1. PICK j \in 1..Len(r.queries) : r.queries[j].id = x
    BY <1>3, <1>5
  <2> QED
    BY <2>1, <1>4, <1>5
<1> QED
  BY <1>6, <1>7 DEF Replied, m

\* The query an id stands for.
LEMMA QueryIs ==
  ASSUME NEW r, Sequence(r.queries), NEW id, \E k \in 1..Len(r.queries) : r.queries[k].id = id
  PROVE  \E j \in 1..Len(r.queries) : r.queries[j].id = id /\ QueryOf(r, id) = r.queries[j]
<1> DEFINE I == {k \in 1..Len(r.queries) : r.queries[k].id = id}
<1>1. Len(r.queries) \in Nat /\ DOMAIN r.queries = 1..Len(r.queries) /\ I # {}
  BY Listing
<1>2. Max(I) \in I
  BY <1>1, GreatestOf
<1>3. QueryOf(r, id) = r.queries[Max(I)]
  BY <1>1 DEF QueryOf, SelectLastInSeq
<1> QED
  BY <1>2, <1>3

LEMMA AnsweredReplies ==
  ASSUME NEW r, Sequence(r.queries), r.skip = "none",
         NEW m, DOMAIN m = {q.id : q \in ToSet(r.queries)},
         \A id \in DOMAIN m : m[id] \in Answers(QueryOf(r, id))
  PROVE  Replied(r, m)
<1>1. DOMAIN r.queries = 1..Len(r.queries)
  BY Listing
<1>2. ToSet(r.queries) = {r.queries[k] : k \in 1..Len(r.queries)}
  BY <1>1 DEF ToSet
<1>3. \A j \in 1..Len(r.queries) : r.queries[j].id \in DOMAIN m
  BY <1>2
<1>4. ASSUME NEW x \in DOMAIN m
      PROVE  \E j \in 1..Len(r.queries) : r.queries[j].id = x /\ ReplyTo(r, r.queries[j], m[x])
  <2>1. \E k \in 1..Len(r.queries) : r.queries[k].id = x
    BY <1>2
  <2>2. PICK j \in 1..Len(r.queries) : r.queries[j].id = x /\ QueryOf(r, x) = r.queries[j]
    BY <2>1, QueryIs
  <2> DEFINE q == r.queries[j]
             a == m[x]
  <2>3. a \in Answers(q)
    BY <2>2
  <2> HIDE DEF q, a
  <2>4. (a.skipped = "none" /\ a.of = q.asks) \/ a = [NoReply EXCEPT !.skipped = "unanswered"]
    BY <2>3 DEF Answers
  <2>5. a.skipped # "none" => Silenced(a) /\ a.mass = << >>
    BY <2>4 DEF Silenced, NoReply
  <2>6. a.skipped = "none" => a.of = q.asks
    BY <2>4 DEF NoReply
  <2>7. ReplyTo(r, q, a)
    BY <2>5, <2>6 DEF ReplyTo
  <2> QED
    BY <2>2, <2>7 DEF q, a
<1> QED
  BY <1>3, <1>4 DEF Replied

LEMMA AttemptReplies ==
  ASSUME Inv, AskedAndTold, SkipRequest \/ Answer \/ Unavailable \/ Refuse \/ GiveUp
  PROVE  ReplyHeard
<1> DEFINE r == Current
<1>1. Asking
  BY DEF SkipRequest, Answer, Unavailable, Refuse, GiveUp, Sending
<1>2. Sequence(r.queries)
  <2>1. busy /\ Len(got) < Len(requests) /\ Len(got) \in Nat /\ Len(requests) \in Nat
    BY <1>1, Listing DEF Asking, Inv, Typed, RequestsOK
  <2>2. Len(got) + 1 \in 1..Len(requests)
    BY <2>1
  <2> QED
    BY <2>1, <2>2, QueriesListed DEF Current
<1> HIDE DEF r
<1>3. Unsent(r) = "none" => r.skip = "none"
  BY DEF Unsent
<1>4. r.skip = "none" => Unsent(r) \in {"none", "oversized", "failed"}
  BY DEF Unsent
<1>5. ASSUME NEW m, Replied(r, m), got' = Append(got, m) PROVE ReplyHeard
  BY <1>1, <1>5 DEF ReplyHeard, r
<1>6. CASE SkipRequest
  <2>1. got' = Append(got, Skipped(r.queries, Unsent(r))) /\ Unsent(r) # "none"
    BY <1>6 DEF SkipRequest, r
  <2>2. Replied(r, Skipped(r.queries, Unsent(r)))
    BY <2>1, <1>2, <1>4, SkippedReplies
  <2> QED
    BY <2>1, <2>2, <1>5
<1>7. ASSUME Fail, Unsent(r) = "none" PROVE ReplyHeard
  <2>1. got' = Append(got, Skipped(r.queries, "request-failed"))
    BY <1>7 DEF Fail, r
  <2>2. Replied(r, Skipped(r.queries, "request-failed"))
    BY <1>2, SkippedReplies
  <2> QED
    BY <2>1, <2>2, <1>5
<1>8. CASE Unavailable
  <2>1. Unsent(r) = "none"
    BY <1>8 DEF Unavailable, Sending, r
  <2>2. got' = got \/ Fail
    BY <1>8 DEF Unavailable
  <2> QED
    BY <2>1, <2>2, <1>7 DEF ReplyHeard
<1>9. CASE Refuse \/ GiveUp
  BY <1>9, <1>7 DEF Refuse, GiveUp, Sending, r
<1>10. CASE Answer
  <2> DEFINE ids == {q.id : q \in ToSet(r.queries)}
  <2>1. /\ Unsent(r) = "none"
        /\ \E replies \in [ids -> UNION {Answers(q) : q \in ToSet(r.queries)}] :
             /\ \A id \in ids : replies[id] \in Answers(QueryOf(r, id))
             /\ got' = Append(got, replies)
    BY <1>10 DEF Answer, Sending, r
  <2>2. PICK m \in [ids -> UNION {Answers(q) : q \in ToSet(r.queries)}] :
             /\ \A id \in ids : m[id] \in Answers(QueryOf(r, id))
             /\ got' = Append(got, m)
    BY <2>1
  <2>3. DOMAIN m = ids
    OBVIOUS
  <2> HIDE DEF ids
  <2>4. \A id \in DOMAIN m : m[id] \in Answers(QueryOf(r, id))
    BY <2>2, <2>3
  <2>5. Replied(r, m)
    BY <2>1, <2>3, <2>4, <1>2, <1>3, AnsweredReplies DEF ids
  <2> QED
    BY <2>2, <2>5, <1>5
<1> QED
  BY <1>6, <1>8, <1>9, <1>10

LEMMA ThroughTells ==
  ASSUME Through, GroupsTold'
  PROVE  AskedAndTold'
  BY NothingListed DEF Through, AskedWell, AskedAndTold

LEMMA LoadTells ==
  ASSUME Inv, AskedAndTold, LoadRules
  PROVE  AskedAndTold'
<1>1. /\ ruleGroups = << >> /\ ruleGroups' = ruleGroups /\ refGroups' = refGroups /\ case' = case
      /\ group' = group /\ requests' = requests /\ got' = got /\ raised' = raised /\ busy' = busy
      /\ raised = << >> /\ ~busy
  BY DEF LoadRules, work, memory, Inv, Unloaded, AskedAndTold, GroupsTold, Turned
<1>2. group = {} /\ got = << >>
  BY <1>1 DEF Inv, Turned, Idle
<1>3. GroupsTold'
  <2>1. ASSUME NEW v \in DOMAIN refGroups PROVE OwnGroup(refGroups[v]) /\ OfReference(refGroups[v], v)'
    BY <1>1, OfReferenceStill DEF AskedAndTold, GroupsTold
  <2> QED
    BY <2>1, <1>1 DEF GroupsTold
<1>4. AskedWell'
  BY <1>1, <1>2, NothingListed DEF AskedWell
<1> QED
  BY <1>3, <1>4 DEF AskedAndTold

LEMMA NothingTold ==
  ASSUME NEW g, OwnIds(g), OwnPlaces(g), g.replies = << >>
  PROVE  OwnGroup(g)
  BY DEF OwnGroup, Told

LEMMA AskReferenceTells ==
  ASSUME Inv, AskedAndTold, AskReference
  PROVE  AskedAndTold'
<1> DEFINE ref == skill.refs[turn]
           g == RefGroup(ref)
<1>1. /\ pc = "usages" /\ turn <= Len(skill.refs) /\ UNCHANGED <<case, set, pc, memory, findings>>
      /\ IF g = {} THEN Through ELSE TurnTo(g, GroupsRequests(g))
  BY DEF AskReference
<1>2. /\ case \in Cases /\ SoundSet /\ FindingsOK /\ turn \in Nat \ {0}
      /\ refGroups' = refGroups /\ ruleGroups' = ruleGroups /\ raised' = raised
      /\ set' = set /\ case' = case /\ pc' = pc /\ findings' = findings
  BY <1>1 DEF Inv, Typed, memory
<1>3. GroupsTold'
  BY <1>2, GroupsTellStill
<1>4. CASE g = {}
  BY <1>1, <1>3, <1>4, ThroughTells
<1>5. CASE g # {}
  <2>1. group' = g /\ requests' = GroupsRequests(g) /\ got' = << >> /\ turn' = turn
    BY <1>1, <1>5 DEF TurnTo
  <2>2. turn \in DOMAIN skill.refs /\ ref \in ToSet(skill.refs)
    <3>1. Sequence(skill.refs)
      BY <1>2, DecisionAssumption DEF CaseOK, SkillOK, skill
    <3> QED
      BY <3>1, <1>1, <1>2, Listing DEF ToSet
  <2>3. /\ AskedGroup(g) /\ OwnIds(The(g)) /\ OwnPlaces(The(g)) /\ The(g).replies = << >>
        /\ Sequence(ref.at)
        /\ \A k \in 1..Len(The(g).places) : \E j \in 1..Len(ref.at) :
             The(g).places[k].at = Spot(ref.at[j])
    BY <1>2, <1>5, <2>2, RefGroupIs, RefPlacesAre DEF AskedGroup
  <2> HIDE DEF g
  <2>4. \A k \in 1..Len(GroupsRequests(g)) : PlacesRequest(GroupsRequests(g)[k], The(g))
    BY <1>2, <2>3, GroupsRequestsAre
  <2>5. \A j \in 1..Len(ref.at) : Spot(ref.at[j]) \in SpotsOf(ref.value)
    BY <2>2, <2>3, Listing DEF SpotsOf
  <2>6. OfReference(The(g), ref.value)
    BY <2>3, <2>5 DEF OfReference
  <2>7. OwnGroup(The(g))
    BY <2>3, NothingTold
  <2>8. AskedOfReference'
    BY <2>1, <2>4, <2>6, <1>2 DEF AskedOfReference, OfReference, SpotsOf, skill
  <2>9. AskedWell'
    BY <2>1, <2>7, <2>8, <1>1, <1>2, NothingListed DEF AskedWell
  <2> QED
    BY <1>3, <2>9 DEF AskedAndTold
<1> QED
  BY <1>4, <1>5

LEMMA AskFindingTells ==
  ASSUME Inv, AskedAndTold, AskFinding
  PROVE  AskedAndTold'
<1> DEFINE f == findings[turn]
           g == NewGroup(f)
<1>1. /\ pc = "findings" /\ turn <= Len(findings) /\ UNCHANGED <<case, set, pc, memory, findings>>
      /\ IF Pending(f) THEN TurnTo(g, RequestsFor(f, g)) ELSE Through
  BY DEF AskFinding
<1>2. /\ case \in Cases /\ SoundSet /\ FindingsOK /\ turn \in Nat \ {0}
      /\ refGroups' = refGroups /\ ruleGroups' = ruleGroups /\ raised' = raised
      /\ set' = set /\ case' = case /\ pc' = pc /\ findings' = findings
  BY <1>1 DEF Inv, Typed, memory
<1>3. GroupsTold'
  BY <1>2, GroupsTellStill
<1>4. turn \in 1..Len(findings) /\ DOMAIN findings = 1..Len(findings) /\ Len(findings) \in Nat
  BY <1>1, <1>2, Listing DEF FindingsOK
<1>5. CASE ~Pending(f)
  BY <1>1, <1>3, <1>5, ThroughTells
<1>6. CASE Pending(f)
  <2> DEFINE d == TableOf(RuleOf(f))
             rs == RequestsFor(f, g)
             h == RuleGroup(f)
             key == GroupKey(f)
  <2>1. group' = g /\ requests' = rs /\ got' = << >> /\ turn' = turn
    BY <1>1, <1>6 DEF TurnTo
  <2>2. AskedGroup(g) /\ (g # {} => Placed(f) /\ The(g) = h)
    BY <1>2, <1>4, <1>6, NewGroupIs
  <2> HIDE DEF g
  <2>3. FindingOK(f) /\ f.rule \in DOMAIN set /\ RuleOf(f).decision # {}
    BY <1>2, <1>4, <1>6 DEF FindingsOK, FindingOK, Pending
  <2>4. /\ OwnRequests(rs, d, f, g)
        /\ (g # {} /\ "places" \in SubjectsOf(d)) => Covers(rs, The(g))
    <3> HIDE DEF f
    <3> QED
      BY <1>2, <2>2, <2>3, RequestsForAre
  <2>5. /\ OwnIds(h) /\ OwnPlaces(h) /\ h.replies = << >> /\ AsksFor(h, d)
        /\ \A k \in Alike(f) : \E p \in 1..Len(h.places) : h.places[p].at = Spot(findings[k].at)
    <3> HIDE DEF f
    <3> QED
      BY <1>2, <2>3, RuleGroupIs
  <2> HIDE DEF h, rs
  <2>6. HasPlaces(h, key)
    <3> SUFFICES ASSUME NEW k \in DOMAIN findings, Pending(findings[k]),
                        GroupKey(findings[k]) = key, Frame(findings[k].at)
                 PROVE  \E p \in 1..Len(h.places) : h.places[p].at = Spot(findings[k].at)
      BY DEF HasPlaces
    <3>1. /\ findings[k].rule = f.rule
          /\ Target(RuleOf(findings[k]), findings[k]) = Target(RuleOf(f), f)
      BY DEF GroupKey
    <3>2. RuleOf(findings[k]) = RuleOf(f)
      BY <3>1 DEF RuleOf
    <3>3. k \in Alike(f)
      BY <3>1, <3>2 DEF Alike, Pending
    <3> QED
      BY <3>3, <2>5
  <2>7. OfRule(h, f.rule)
    BY <2>3, <2>5 DEF OfRule, RuleOf
  <2>8. g # {} => OwnGroup(The(g))
    BY <2>2, <2>5, NothingTold
  <2>9. AskedOfFinding'
    <3>1. g # {} => /\ Placed(f) /\ OfRule(The(g), f.rule) /\ HasPlaces(The(g), key)
                    /\ Covers(rs, The(g))
      BY <2>2, <2>4, <2>6, <2>7 DEF Placed
    <3> QED
      BY <3>1, <2>1, <2>4, <1>2 DEF AskedOfFinding, Placed, OfRule, HasPlaces, Pending, Undecided,
                                    GroupKey, Target, RuleOf, Frame, skill
  <2>10. AskedWell'
    BY <2>1, <2>8, <2>9, <1>1, <1>2, NothingListed DEF AskedWell
  <2> QED
    BY <1>3, <2>10 DEF AskedAndTold
<1> QED
  BY <1>5, <1>6

LEMMA ReturnTells ==
  ASSUME Inv, AskedAndTold, Return
  PROVE  AskedAndTold'
<1>1. /\ ~busy /\ pc' = "done" /\ case' = case /\ set' = set /\ turn' = turn /\ busy' = busy
      /\ group' = group /\ requests' = requests /\ got' = got /\ refGroups' = refGroups
      /\ ruleGroups' = ruleGroups /\ raised' = raised /\ findings' = findings
  BY DEF Return, work, memory
<1>2. GroupsTold'
  BY <1>1, GroupsTellStill
<1>3. AskedWell'
  BY <1>1 DEF AskedAndTold, AskedWell
<1> QED
  BY <1>2, <1>3 DEF AskedAndTold

-----------------------------------------------------------------------------
(* A group that has been asked about: its replies are its own, and whole.  *)

LEMMA RepliesTell ==
  ASSUME Sequence(got), NEW g, GroupOK(g), OwnIds(g), OwnPlaces(g),
         \A k \in 1..Len(got) : Replied(requests[k], got[k]),
         \A k \in 1..Len(got) : requests[k].places = 0 \/ PlacesRequest(requests[k], g)
  PROVE  /\ OwnGroup(WithReplies(g))
         /\ (Len(got) = Len(requests) /\ Covers(requests, g)) => AllTold(WithReplies(g))
<1> DEFINE mine == {k \in DOMAIN got : requests[k].places > 0}
           those(x) == {k \in mine : x \in DOMAIN got[k]}
           from(x) == The(those(x))
           ids == UNION {DOMAIN got[k] : k \in mine}
           rs == [x \in ids |-> got[from(x)][x]]
           w == WithReplies(g)
<1>1. w = [g EXCEPT !.replies = rs]
  BY DEF WithReplies
<1>2. Len(got) \in Nat /\ DOMAIN got = 1..Len(got)
  BY Listing
<1>3. \A k \in mine : k \in 1..Len(got) /\ PlacesRequest(requests[k], g)
  BY <1>2
<1>4. \A x \in ids : from(x) \in mine /\ x \in DOMAIN got[from(x)]
  <2>1. \A x \in ids : those(x) # {}
    OBVIOUS
  <2> HIDE DEF those
  <2>2. \A x \in ids : from(x) \in those(x)
    BY <2>1 DEF The
  <2> QED
    BY <2>2 DEF those
<1>5. DOMAIN rs = ids /\ \A x \in ids : rs[x] = got[from(x)][x]
  OBVIOUS
<1>6. \A k \in mine : DOMAIN got[k] \subseteq ids
  OBVIOUS
<1>7. \A k \in 1..Len(got) : requests[k].places \in Nat \ {0} => k \in mine
  BY <1>2
<1> HIDE DEF mine, those, from, ids, rs
<1>8. /\ w.questions = g.questions /\ w.places = g.places /\ w.replies = rs
  <2>1. w = [subject |-> g.subject, questions |-> g.questions, replies |-> rs, places |-> g.places]
    BY <1>1 DEF GroupOK
  <2> HIDE DEF w
  <2> QED
    BY <2>1
<1> HIDE DEF w
<1>9. ASSUME NEW x \in ids
      PROVE  IF rs[x].skipped = "none" THEN AnswersAt(w, x, rs[x]) ELSE Silenced(rs[x])
  <2>1. PICK k \in 1..Len(got) : PlacesRequest(requests[k], g) /\ x \in DOMAIN got[k] /\ rs[x] = got[k][x]
    BY <1>3, <1>4, <1>5
  <2> DEFINE r == requests[k]
             a == got[k][x]
  <2>2. PICK j \in 1..Len(r.queries) : r.queries[j].id = x /\ ReplyTo(r, r.queries[j], a)
    BY <2>1 DEF Replied
  <2>3. PICK p \in 1..Len(g.places), q \in 1..Len(g.questions) : r.queries[j] = QueryAt(g, p, q)
    BY <2>1, <2>2 DEF PlacesRequest
  <2>4. r.skip = "none"
    BY <2>1 DEF PlacesRequest
  <2> HIDE DEF r, a
  <2>5. /\ QueryAt(g, p, q).id = <<g.places[p].id, g.questions[q].id>>
        /\ QueryAt(g, p, q).asks[1] = Content(g.questions[q].question)
        /\ QueryAt(g, p, q).asks[3] = <<"place", g.places[p].at>>
    BY DEF QueryAt, Query
  <2>6. CASE a.skipped = "none"
    <3>1. a.of = QueryAt(g, p, q).asks
      BY <2>2, <2>3, <2>6 DEF ReplyTo
    <3>2. AnswersAt(g, x, a)
      BY <3>1, <2>2, <2>3, <2>5 DEF AnswersAt
    <3>3. AnswersAt(w, x, a)
      BY <3>2, <1>8 DEF AnswersAt
    <3> QED
      BY <3>3, <2>6, <2>1 DEF a
  <2>7. CASE a.skipped # "none"
    BY <2>7, <2>1, <2>2, <2>4 DEF ReplyTo, a
  <2> QED
    BY <2>6, <2>7
<1>10. OwnGroup(w)
  <2>1. Told(w)
    BY <1>5, <1>8, <1>9 DEF Told
  <2>2. OwnIds(w) /\ OwnPlaces(w)
    BY <1>8 DEF OwnIds, OwnPlaces
  <2> QED
    BY <2>1, <2>2 DEF OwnGroup
<1>11. ASSUME Len(got) = Len(requests), Covers(requests, g) PROVE AllTold(w)
  <2>1. ASSUME NEW p \in 1..Len(g.places), NEW q \in 1..Len(g.questions)
        PROVE  <<g.places[p].id, g.questions[q].id>> \in ids
    <3>1. PICK b \in 1..Len(requests) :
            /\ requests[b].places \in Nat \ {0}
            /\ \A k \in 1..Len(g.questions) : \E j \in 1..Len(requests[b].queries) :
                 requests[b].queries[j].id = <<g.places[p].id, g.questions[k].id>>
      BY <1>11 DEF Covers
    <3>2. PICK j \in 1..Len(requests[b].queries) :
            requests[b].queries[j].id = <<g.places[p].id, g.questions[q].id>>
      BY <3>1
    <3>3. b \in 1..Len(got) /\ b \in mine
      BY <3>1, <1>7, <1>11
    <3>4. requests[b].queries[j].id \in DOMAIN got[b]
      BY <3>2, <3>3 DEF Replied
    <3> QED
      BY <3>2, <3>3, <3>4, <1>6
  <2> QED
    BY <2>1, <1>5, <1>8 DEF AllTold
<1> QED
  BY <1>10, <1>11 DEF w

\* More questions leave what is told.
LEMMA MoreTell ==
  ASSUME NEW g, GroupOK(g), NEW h, More(h, g), OwnIds(h), OwnGroup(g)
  PROVE  OwnGroup(h) /\ \A v : OfReference(g, v) => OfReference(h, v)
<1>1. /\ h.places = g.places /\ h.replies = g.replies
      /\ \A i \in 1..Len(g.questions) : h.questions[i] = g.questions[i]
      /\ Len(g.questions) <= Len(h.questions) /\ Len(g.questions) \in Nat /\ Len(h.questions) \in Nat
  BY Listing DEF More, GroupOK
<1>2. \A i \in 1..Len(g.questions) : i \in 1..Len(h.questions)
  BY <1>1
<1>3. \A x, a : AnswersAt(g, x, a) => AnswersAt(h, x, a)
  <2> SUFFICES ASSUME NEW x, NEW a, AnswersAt(g, x, a) PROVE AnswersAt(h, x, a)
    OBVIOUS
  <2>1. PICK p \in 1..Len(g.places), k \in 1..Len(g.questions) :
          /\ x = <<g.places[p].id, g.questions[k].id>>
          /\ a.of[1] = Content(g.questions[k].question)
          /\ a.of[3] = <<"place", g.places[p].at>>
    BY DEF AnswersAt
  <2>2. k \in 1..Len(h.questions) /\ h.questions[k] = g.questions[k]
    BY <1>1, <1>2
  <2>3. p \in 1..Len(h.places) /\ h.places[p] = g.places[p]
    BY <1>1
  <2>4. /\ x = <<h.places[p].id, h.questions[k].id>>
        /\ a.of[1] = Content(h.questions[k].question)
        /\ a.of[3] = <<"place", h.places[p].at>>
    BY ONLY <2>1, <2>2, <2>3
  <2> QED
    BY ONLY <2>2, <2>3, <2>4 DEF AnswersAt
<1>4. Told(h)
  BY <1>1, <1>3 DEF OwnGroup, Told
<1> QED
  BY <1>1, <1>4 DEF OwnGroup, OwnPlaces, OfReference

\* The groups of the next state, given as values.
LEMMA GroupsTellNext ==
  ASSUME case' = case, NEW A, NEW B, refGroups' = A, ruleGroups' = B,
         pc' \in {"load", "usages"} => B = << >>,
         \A v \in DOMAIN A : OwnGroup(A[v]) /\ OfReference(A[v], v),
         \A key \in DOMAIN B : /\ OwnGroup(B[key]) /\ AllTold(B[key])
                              /\ OfRule(B[key], key[1])' /\ HasPlaces(B[key], key)'
  PROVE  GroupsTold'
<1>1. \A v \in DOMAIN A : OwnGroup(A[v]) /\ OfReference(A[v], v)'
  BY DEF OfReference, SpotsOf, skill
<1> QED
  BY <1>1 DEF GroupsTold

LEMMA ConcludeReferenceTells ==
  ASSUME Inv, AskedAndTold, ConcludeReference
  PROVE  AskedAndTold'
<1> DEFINE ref == skill.refs[turn]
           g == The(group)
           w == WithReplies(g)
<1>1. /\ pc = "usages" /\ busy /\ Through /\ case' = case /\ set' = set /\ pc' = pc
      /\ ruleGroups' = ruleGroups /\ refGroups' = Put(refGroups, ref.value, w)
  BY DEF ConcludeReference, Answered
<1>2. /\ GroupOK(g) /\ OwnGroup(g) /\ AskedOfReference /\ ruleGroups = << >>
      /\ Sequence(got) /\ Len(got) <= Len(requests)
  BY <1>1 DEF Inv, Typed, Turned, AtReference, GroupsOK, RequestsOK, AskedAndTold, AskedWell, GroupsTold
<1>3. Len(got) \in Nat /\ Len(requests) \in Nat
  BY Listing DEF Inv, Typed, RequestsOK
<1>4. /\ \A k \in 1..Len(got) : Replied(requests[k], got[k])
      /\ \A k \in 1..Len(got) : requests[k].places = 0 \/ PlacesRequest(requests[k], g)
  BY <1>2, <1>3 DEF AskedAndTold, AskedWell, AskedOfReference
<1> HIDE DEF g
<1>5. OwnGroup(w) /\ w.places = g.places
  BY <1>2, <1>4, RepliesTell, RepliesKept DEF OwnGroup
<1>6. OfReference(w, ref.value)
  BY <1>2, <1>5 DEF AskedOfReference, OfReference, g
<1> HIDE DEF w, ref
<1>7. ASSUME NEW v \in DOMAIN refGroups' PROVE OwnGroup(refGroups'[v]) /\ OfReference(refGroups'[v], v)
  <2>1. CASE v = ref.value
    BY <2>1, <1>1, <1>5, <1>6 DEF Put
  <2>2. CASE v # ref.value
    <3>1. v \in DOMAIN refGroups /\ refGroups'[v] = refGroups[v]
      BY <2>2, <1>1 DEF Put
    <3> QED
      BY <3>1 DEF AskedAndTold, GroupsTold
  <2> QED
    BY <2>1, <2>2
<1>8. GroupsTold'
  <2>1. PICK A : A = refGroups'
    OBVIOUS
  <2>2. PICK B : B = ruleGroups'
    OBVIOUS
  <2>3. B = << >>
    BY <2>2, <1>1, <1>2
  <2>4. \A v \in DOMAIN A : OwnGroup(A[v]) /\ OfReference(A[v], v)
    BY <2>1, <1>7
  <2> QED
    BY <2>1, <2>2, <2>3, <2>4, <1>1, GroupsTellNext
<1> QED
  BY <1>1, <1>8, ThroughTells

LEMMA UsagesDoneTells ==
  ASSUME Inv, AskedAndTold, UsagesDone
  PROVE  AskedAndTold'
<1>1. /\ pc = "usages" /\ ~busy /\ pc' = "findings" /\ case' = case /\ busy' = busy
      /\ group' = group /\ requests' = requests /\ got' = got /\ refGroups' = refGroups
      /\ ruleGroups' = ruleGroups
  BY DEF UsagesDone, work, memory
<1>2. group = {} /\ got = << >> /\ ruleGroups = << >>
  BY <1>1 DEF Inv, Turned, Idle, AskedAndTold, GroupsTold
<1>3. GroupsTold'
  <2>1. ASSUME NEW v \in DOMAIN refGroups PROVE OwnGroup(refGroups[v]) /\ OfReference(refGroups[v], v)'
    BY <1>1, OfReferenceStill DEF AskedAndTold, GroupsTold
  <2> QED
    BY <2>1, <1>1, <1>2 DEF GroupsTold
<1>4. AskedWell'
  BY <1>1, <1>2, NothingListed DEF AskedWell
<1> QED
  BY <1>3, <1>4 DEF AskedAndTold

\* The groups a finding is judged by: those there were, and the one just asked about.
LEMMA GroupsNowTell ==
  ASSUME Inv, AskedAndTold, pc = "findings", Answered, NEW key \in DOMAIN GroupsNow
  PROVE  /\ OwnGroup(GroupsNow[key]) /\ AllTold(GroupsNow[key])
         /\ OfRule(GroupsNow[key], key[1]) /\ HasPlaces(GroupsNow[key], key)
<1> DEFINE f == findings[turn]
           own == GroupKey(f)
           g == The(group)
           w == WithReplies(g)
<1>1. busy /\ Len(got) = Len(requests)
  BY DEF Answered
<1>2. ASSUME key \in DOMAIN ruleGroups, GroupsNow[key] = ruleGroups[key]
      PROVE  /\ OwnGroup(GroupsNow[key]) /\ AllTold(GroupsNow[key])
             /\ OfRule(GroupsNow[key], key[1]) /\ HasPlaces(GroupsNow[key], key)
  BY <1>2 DEF AskedAndTold, GroupsTold
<1>3. CASE group = {}
  BY <1>2, <1>3 DEF GroupsNow
<1>4. CASE group # {}
  <2>1. GroupsNow = Put(ruleGroups, own, w)
    BY <1>4 DEF GroupsNow
  <2>2. CASE key # own
    <3> HIDE DEF own, w
    <3>1. key \in DOMAIN ruleGroups /\ GroupsNow[key] = ruleGroups[key]
      BY <2>1, <2>2 DEF Put
    <3> QED
      BY <3>1, <1>2
  <2>3. CASE key = own
    <3>1. GroupsNow[key] = w
      <4> HIDE DEF own, w
      <4> QED
        BY <2>1, <2>3 DEF Put
    <3>2. /\ GroupOK(g) /\ OwnGroup(g) /\ OfRule(g, f.rule) /\ HasPlaces(g, own)
          /\ Covers(requests, g) /\ Sequence(got) /\ Sequence(requests)
          /\ OwnRequests(requests, TableOf(RuleOf(f)), f, group)
          /\ \A k \in 1..Len(got) : Replied(requests[k], got[k])
      BY <1>1, <1>4 DEF Inv, Typed, GroupsOK, RequestsOK, AskedAndTold, AskedWell, AskedOfFinding
    <3>3. \A k \in 1..Len(got) : requests[k].places = 0 \/ PlacesRequest(requests[k], g)
      BY <3>2, <1>1 DEF OwnRequests, OwnRequest, AboutRequest
    <3> HIDE DEF g
    <3>4. OwnGroup(w) /\ AllTold(w) /\ w.places = g.places /\ w.questions = g.questions
      BY <1>1, <3>2, <3>3, RepliesTell, RepliesKept DEF OwnGroup
    <3>5. key[1] = f.rule
      BY <2>3 DEF GroupKey
    <3> HIDE DEF w
    <3>6. OfRule(w, key[1])
      BY <3>2, <3>4, <3>5 DEF OfRule, AsksFor, Knows
    <3>7. HasPlaces(w, key)
      BY <3>2, <3>4, <2>3 DEF HasPlaces
    <3> QED
      BY <3>1, <3>4, <3>6, <3>7
  <2> QED
    BY <2>2, <2>3
<1> QED
  BY <1>3, <1>4

\* A finding that is judged is not looked for any more.
LEMMA HasPlacesLess ==
  ASSUME case' = case, set' = set, NEW j, j.decision # {}, turn \in DOMAIN findings,
         findings' = [findings EXCEPT ![turn] = j], NEW g, NEW key, HasPlaces(g, key)
  PROVE  HasPlaces(g, key)'
<1>1. DOMAIN findings' = DOMAIN findings /\ findings'[turn] = j
  OBVIOUS
<1>2. \A k \in DOMAIN findings : k # turn => findings'[k] = findings[k]
  OBVIOUS
<1> DEFINE pending(f) == f.state = "none" /\ f.decision = {} /\ set[f.rule].decision # {}
<1>3. \A k \in DOMAIN findings' : pending(findings'[k]) => findings'[k] = findings[k] /\ k \in DOMAIN findings
  BY <1>1, <1>2
<1>4. \A k \in DOMAIN findings :
        (pending(findings[k]) /\ GroupKey(findings[k]) = key /\ Frame(findings[k].at)) =>
          \E p \in 1..Len(g.places) : g.places[p].at = Spot(findings[k].at)
  BY DEF HasPlaces, Pending, Undecided, RuleOf
<1>5. \A k \in DOMAIN findings' :
        (pending(findings'[k]) /\ GroupKey(findings'[k]) = key /\ Frame(findings'[k].at)) =>
          \E p \in 1..Len(g.places) : g.places[p].at = Spot(findings'[k].at)
  BY <1>3, <1>4
<1> QED
  BY <1>5 DEF HasPlaces, Pending, Undecided, RuleOf, GroupKey, Target, Frame, skill

\* What a finding that is concluded does to the findings and the groups.
LEMMA Concludes ==
  ASSUME Inv, ConcludeFinding
  PROVE  LET f == findings[turn] IN
         /\ pc = "findings" /\ Answered /\ busy /\ Through /\ UNCHANGED <<case, set, pc, raised>>
         /\ turn \in DOMAIN findings /\ DOMAIN findings = 1..Len(findings)
         /\ FindingOK(f) /\ Pending(f) /\ f.rule \in DOMAIN set /\ RuleOf(f).decision # {}
         /\ SoundTable(TableOf(RuleOf(f))) /\ EvidenceOK(Evidence(f))
         /\ findings' = [findings EXCEPT ![turn] = Judge(f, Evidence(f))]
         /\ Judge(f, Evidence(f)).decision = {Evidence(f)}
<1> DEFINE f == findings[turn]
           e == Evidence(f)
<1>1. /\ pc = "findings" /\ Answered /\ busy /\ Through /\ UNCHANGED <<case, set, pc, raised>>
      /\ findings' = [findings EXCEPT ![turn] = Judge(f, e)]
  BY DEF ConcludeFinding, Answered
<1>2. /\ SoundSet /\ FindingsOK /\ turn \in Nat \ {0} /\ turn <= Len(findings) /\ Pending(f)
  BY <1>1 DEF Inv, Typed, Turned, AtFinding
<1>3. turn \in DOMAIN findings /\ DOMAIN findings = 1..Len(findings)
  BY <1>2, Listing DEF FindingsOK
<1>4. FindingOK(f) /\ RuleOf(f).decision # {} /\ f.rule \in DOMAIN set
  BY <1>2, <1>3 DEF FindingsOK, FindingOK, Pending
<1>5. SoundTable(TableOf(RuleOf(f)))
  BY <1>2, <1>4, TableIs
<1>6. EvidenceOK(e)
  BY <1>1, EvidenceIs
<1> HIDE DEF e
<1>7. Judge(f, e).decision = {e}
  <2> HIDE DEF f
  <2> QED
    BY <1>2, <1>4, <1>6, Judges
<1> QED
  BY <1>1, <1>2, <1>3, <1>4, <1>5, <1>6, <1>7 DEF e

LEMMA ConcludeFindingTells ==
  ASSUME Inv, AskedAndTold, ConcludeFinding
  PROVE  AskedAndTold'
<1> DEFINE f == findings[turn]
           r == RuleOf(f)
           d == TableOf(r)
           names == Named(d, "places")
           placed == "places" \in SubjectsOf(d) /\ HasGroup(f)
           key == GroupKey(f)
           j == Judge(f, Evidence(f))
<1>1. /\ pc = "findings" /\ busy /\ Answered /\ Through /\ case' = case /\ set' = set /\ pc' = pc
      /\ turn \in DOMAIN findings /\ findings' = [findings EXCEPT ![turn] = j]
      /\ j.decision # {} /\ SoundTable(d) /\ f.rule \in DOMAIN set /\ r.decision # {}
  <2>1. \A x : {x} # {}
    OBVIOUS
  <2> QED
    BY <2>1, Concludes
<1>2. IF placed /\ r.layer = "references"
        THEN refGroups' = Asked(f, f.reference, refGroups) /\ ruleGroups' = ruleGroups
      ELSE IF placed
        THEN ruleGroups' = Asked(f, key, GroupsNow) /\ refGroups' = refGroups
      ELSE UNCHANGED <<refGroups, ruleGroups>>
  BY DEF ConcludeFinding
<1>3. GroupsOK /\ AtFinding /\ AskedOfFinding
  BY <1>1 DEF Inv, Typed, Turned, AskedAndTold, AskedWell
<1>4. Sequence(names)
  BY <1>1, NamedIs
<1>5. \A v \in DOMAIN refGroups : OwnGroup(refGroups[v]) /\ OfReference(refGroups[v], v)
  BY DEF AskedAndTold, GroupsTold
<1>6. PICK A : A = refGroups'
  OBVIOUS
<1>7. PICK B : B = ruleGroups'
  OBVIOUS
<1>8. \A x \in DOMAIN ruleGroups : /\ OwnGroup(ruleGroups[x]) /\ AllTold(ruleGroups[x])
                                   /\ OfRule(ruleGroups[x], x[1]) /\ HasPlaces(ruleGroups[x], x)
  BY DEF AskedAndTold, GroupsTold
<1>9. ASSUME NEW v \in DOMAIN A PROVE OwnGroup(A[v]) /\ OfReference(A[v], v)
  <2>1. CASE placed /\ r.layer = "references"
    <3>1. A = Asked(f, f.reference, refGroups)
      BY <2>1, <1>2, <1>6
    <3>2. /\ v \in DOMAIN refGroups /\ More(A[v], refGroups[v])
          /\ v # f.reference => A[v] = refGroups[v]
          /\ v = f.reference => A[v] = WantAll(refGroups[v], names)
      BY <3>1, <1>1, <1>3, AskedGroups DEF GroupsOK
    <3>3. GroupOK(refGroups[v]) /\ OwnGroup(refGroups[v]) /\ OfReference(refGroups[v], v)
      BY <3>2, <1>3, <1>5 DEF GroupsOK
    <3>4. OwnIds(A[v])
      <4> HIDE DEF f, names
      <4>1. OwnIds(WantAll(refGroups[v], names))
        BY <3>3, <1>4, WantedAll DEF OwnGroup
      <4> QED
        BY <4>1, <3>2, <3>3 DEF OwnGroup
    <3> QED
      BY <3>2, <3>3, <3>4, MoreTell
  <2>2. CASE ~(placed /\ r.layer = "references")
    BY <2>2, <1>2, <1>5, <1>6
  <2> QED
    BY <2>1, <2>2
<1>10. \/ B = ruleGroups
       \/ DOMAIN B = DOMAIN GroupsNow /\ \A x \in DOMAIN B : B[x] = GroupsNow[x]
  <2>1. CASE placed /\ r.layer # "references"
    <3>1. B = Asked(f, key, GroupsNow)
      BY <2>1, <1>2, <1>7
    <3>2. \A x \in DOMAIN GroupsNow : GroupOK(GroupsNow[x])
      BY <1>3, GroupsNowAre
    <3>3. /\ DOMAIN B = DOMAIN GroupsNow
          /\ \A x \in DOMAIN GroupsNow : x # key => B[x] = GroupsNow[x]
          /\ key \in DOMAIN GroupsNow => B[key] = WantAll(GroupsNow[key], names)
      BY <3>1, <3>2, <1>1, AskedGroups
    <3>4. ASSUME key \in DOMAIN GroupsNow PROVE WantAll(GroupsNow[key], names) = GroupsNow[key]
      <4>1. OfRule(GroupsNow[key], key[1])
        BY <3>4, <1>1, GroupsNowTell
      <4>2. key[1] = f.rule
        BY DEF GroupKey
      <4>3. \A k \in 1..Len(names) : Knows(GroupsNow[key], names[k])
        BY <4>1, <4>2 DEF OfRule, AsksFor, RuleOf
      <4> HIDE DEF key, names
      <4> QED
        BY <4>3, <3>2, <3>4, <1>4, WantedAll
    <3> QED
      BY <3>3, <3>4
  <2>2. CASE ~(placed /\ r.layer # "references")
    BY <2>2, <1>2, <1>7
  <2> QED
    BY <2>1, <2>2
<1>11. ASSUME NEW x \in DOMAIN B
       PROVE  OwnGroup(B[x]) /\ AllTold(B[x]) /\ OfRule(B[x], x[1]) /\ HasPlaces(B[x], x)
  BY <1>1, <1>8, <1>10, GroupsNowTell
<1>12. ASSUME NEW x \in DOMAIN B PROVE OfRule(B[x], x[1])' /\ HasPlaces(B[x], x)'
  <2>1. PICK b : b = B[x]
    OBVIOUS
  <2>2. OfRule(b, x[1]) /\ HasPlaces(b, x)
    BY <2>1, <1>11
  <2>3. PICK i : i = j
    OBVIOUS
  <2>4. i.decision # {} /\ findings' = [findings EXCEPT ![turn] = i]
    BY <2>3, <1>1
  <2> HIDE DEF f, r, d, names, placed, key, j
  <2>5. HasPlaces(b, x)'
    BY <2>2, <2>4, <1>1, HasPlacesLess
  <2>6. OfRule(b, x[1])'
    BY <2>2, <1>1 DEF OfRule
  <2> QED
    BY <2>1, <2>5, <2>6
<1>13. GroupsTold'
  <2> HIDE DEF f, r, d, names, placed, key, j
  <2>1. pc' \notin {"load", "usages"}
    BY <1>1
  <2> QED
    BY <2>1, <1>1, <1>6, <1>7, <1>9, <1>11, <1>12, GroupsTellNext
<1> QED
  BY <1>1, <1>13, ThroughTells

\* What the groups hold and what is asked, in every state.
THEOREM GroupsAreTold == Spec => []AskedAndTold
<1>1. Init => AskedAndTold
  BY NothingListed DEF Init, AskedAndTold, GroupsTold, AskedWell
<1>2. Inv /\ AskedAndTold /\ [Next]_vars => AskedAndTold'
  <2> SUFFICES ASSUME Inv, AskedAndTold, [Next]_vars PROVE AskedAndTold'
    OBVIOUS
  <2>1. CASE LoadRules
    BY <2>1, LoadTells
  <2>2. CASE AskReference
    BY <2>2, AskReferenceTells
  <2>3. CASE AskFinding
    BY <2>3, AskFindingTells
  <2>4. CASE SkipRequest \/ Answer \/ Unavailable \/ Refuse \/ GiveUp
    BY <2>4, AttemptReplies, AttemptStill, StillTells
  <2>5. CASE ConcludeReference
    BY <2>5, ConcludeReferenceTells
  <2>6. CASE UsagesDone
    BY <2>6, UsagesDoneTells
  <2>7. CASE ConcludeFinding
    BY <2>7, ConcludeFindingTells
  <2>8. CASE Return
    BY <2>8, ReturnTells
  <2>9. CASE ContextEnds \/ Over \/ UNCHANGED vars
    BY <2>9, RestStill, StillTells DEF ReplyHeard
  <2> QED
    BY <2>1, <2>2, <2>3, <2>4, <2>5, <2>6, <2>7, <2>8, <2>9 DEF Next, Step
<1> QED
  BY <1>1, <1>2, LayerInvariant, PTL DEF Spec

-----------------------------------------------------------------------------
(* What the evidence of a finding is made of.                              *)

\* An instance of a subject: the questions of the table about it, and for each an
\* answer to it at what the finding is about, or nothing.
InstanceOK(f, s, in) ==
  /\ DOMAIN in.replies = NamesOf(TableOf(RuleOf(f)), s)
  /\ \A n \in DOMAIN in.replies :
       IF in.replies[n].skipped = "none"
       THEN /\ in.replies[n].of[1] = Content(TableOf(RuleOf(f)).questions[n])
            /\ in.replies[n].of[3] \in ShownFor(f, s)
       ELSE in.replies[n].mass = << >>

InstancesOK(f, s, t) == Sequence(t) /\ \A k \in 1..Len(t) : InstanceOK(f, s, t[k])

\* The answer at a place to a question of a table, as run.places finds it.
NameAt(d, n) == SelectInSeq(Named(d, "places"), LAMBDA m : m.name = n)

ReplyAt(h, p, d, n) == PlaceReply(h, p, Wanted(h, Named(d, "places")[NameAt(d, n)]))

LEMMA ReplyAtIs ==
  ASSUME NEW d, SoundTable(d), NEW h, GroupOK(h), OwnGroup(h),
         \A j \in 1..Len(Named(d, "places")) : Knows(h, Named(d, "places")[j]),
         NEW p \in 1..Len(h.places), NEW n \in NamesOf(d, "places")
  PROVE  /\ IF ReplyAt(h, h.places[p], d, n).skipped = "none"
            THEN /\ ReplyAt(h, h.places[p], d, n).of[1] = Content(d.questions[n])
                 /\ ReplyAt(h, h.places[p], d, n).of[3] = <<"place", h.places[p].at>>
            ELSE ReplyAt(h, h.places[p], d, n).mass = << >>
         /\ AllTold(h) => ReplyAt(h, h.places[p], d, n).skipped \notin {"no-line", "not-asked"}
<1> DEFINE names == Named(d, "places")
           I == {i \in 1..Len(names) : names[i].name = n}
           i == NameAt(d, n)
           id == Wanted(h, names[i])
           a == ReplyAt(h, h.places[p], d, n)
<1>1. /\ Sequence(names) /\ \A k \in 1..Len(names) : names[k].question = d.questions[names[k].name]
      /\ \E k \in 1..Len(names) : names[k].name = n
  BY NamedIs
<1>2. a = PlaceReply(h, h.places[p], id)
  BY DEF ReplyAt
<1>3. i = IF I = {} THEN 0 ELSE Min(I)
  BY DEF NameAt, SelectInSeq
<1> HIDE DEF names, i, a
<1>4. i \in I
  <2>1. Len(names) \in Nat /\ I # {}
    BY <1>1, Listing
  <2>2. Min(I) \in I
    BY <2>1, LeastOf
  <2> QED
    BY <2>1, <2>2, <1>3
<1>5. names[i].question = d.questions[n] /\ Knows(h, names[i])
  BY <1>1, <1>4 DEF names
<1>6. PICK q \in 1..Len(h.questions) : id = h.questions[q].id /\ Known(h.questions[q], names[i])
  BY <1>5, WantedIs
<1>7. Content(h.questions[q].question) = Content(d.questions[n])
  BY <1>5, <1>6 DEF Known, Same
<1> DEFINE x == <<h.places[p].id, h.questions[q].id>>
<1>8. a = IF x \in DOMAIN h.replies THEN h.replies[x] ELSE [NoReply EXCEPT !.skipped = "not-asked"]
  BY <1>2, <1>6 DEF PlaceReply
<1>9. CASE x \in DOMAIN h.replies
  <2>1. a = h.replies[x]
    BY <1>8, <1>9
  <2>2. IF a.skipped = "none" THEN AnswersAt(h, x, a) ELSE Silenced(a)
    BY <1>9, <2>1 DEF OwnGroup, Told
  <2>3. CASE a.skipped = "none"
    <3>1. PICK p1 \in 1..Len(h.places), k \in 1..Len(h.questions) :
            /\ x = <<h.places[p1].id, h.questions[k].id>>
            /\ a.of[1] = Content(h.questions[k].question)
            /\ a.of[3] = <<"place", h.places[p1].at>>
      BY <2>2, <2>3 DEF AnswersAt
    <3>2. p1 = p /\ k = q
      BY <3>1 DEF OwnGroup, OwnIds, OwnPlaces
    <3> QED
      BY <3>1, <3>2, <1>7, <2>3 DEF a
  <2>4. CASE a.skipped # "none"
    BY <2>2, <2>4 DEF Silenced, a
  <2> QED
    BY <2>3, <2>4
<1>10. CASE x \notin DOMAIN h.replies
  <2>1. a.skipped = "not-asked" /\ a.mass = << >>
    BY <1>8, <1>10 DEF NoReply
  <2>2. ~AllTold(h)
    BY <1>10 DEF AllTold
  <2> QED
    BY <2>1, <2>2 DEF a
<1> QED
  BY <1>9, <1>10

\* The group run.places looks into: a group of the places, with every question of the table.
LEMMA AskedOf ==
  ASSUME NEW d, SoundTable(d), NEW g, GroupOK(g), OwnGroup(g)
  PROVE  LET h == WantAll(g, Named(d, "places"))
         IN  /\ GroupOK(h) /\ OwnGroup(h) /\ h.places = g.places
             /\ \A j \in 1..Len(Named(d, "places")) : Knows(h, Named(d, "places")[j])
             /\ AsksFor(g, d) => h = g
<1> DEFINE names == Named(d, "places")
           h == WantAll(g, names)
<1>1. Sequence(names)
  BY NamedIs
<1>2. AsksFor(g, d) => \A j \in 1..Len(names) : Knows(g, names[j])
  BY DEF AsksFor
<1> HIDE DEF names
<1>3. /\ More(h, g) /\ \A j \in 1..Len(names) : Knows(h, names[j])
      /\ OwnIds(h)
      /\ AsksFor(g, d) => h = g
  BY <1>1, <1>2, WantedAll DEF OwnGroup
<1> HIDE DEF h
<1>4. OwnGroup(h)
  BY <1>3, MoreTell
<1> QED
  BY <1>3, <1>4 DEF More, h, names

\* What a group says of the places of a finding.
GroupFor(f, g) ==
  /\ GroupOK(g) /\ OwnGroup(g)
  /\ RuleOf(f).layer = "references" => OfReference(g, f.reference)

LEMMA PlacesOfIs ==
  ASSUME NEW f, NEW g, GroupFor(f, g)
  PROVE  /\ Sequence(PlacesOf(f, g))
         /\ \A k \in 1..Len(PlacesOf(f, g)) :
              /\ \E p \in 1..Len(g.places) : PlacesOf(f, g)[k] = g.places[p]
              /\ <<"place", PlacesOf(f, g)[k].at>> \in ShownFor(f, "places")
         /\ (RuleOf(f).layer # "references" /\ \E p \in 1..Len(g.places) : g.places[p].at = Spot(f.at)) =>
              PlacesOf(f, g) # << >> /\ Len(PlacesOf(f, g)) = 1
<1> DEFINE at == SelectLastInSeq(g.places, LAMBDA p : p.at = Spot(f.at))
           I == {p \in 1..Len(g.places) : g.places[p].at = Spot(f.at)}
           ps == PlacesOf(f, g)
<1>1. Sequence(g.places) /\ Len(g.places) \in Nat /\ DOMAIN g.places = 1..Len(g.places)
  BY Listing DEF GroupFor, GroupOK
<1>2. ps = IF RuleOf(f).layer = "references" THEN g.places
           ELSE IF at = 0 THEN << >> ELSE <<g.places[at]>>
  BY DEF PlacesOf
<1>3. at = IF I = {} THEN 0 ELSE Max(I)
  BY <1>1 DEF SelectLastInSeq
<1> HIDE DEF at, ps
<1>4. CASE RuleOf(f).layer = "references"
  <2>1. ps = g.places
    BY <1>2, <1>4
  <2>2. \A p \in 1..Len(g.places) : g.places[p].at \in SpotsOf(f.reference)
    BY <1>4 DEF GroupFor, OfReference
  <2>3. \A x \in SpotsOf(f.reference) : <<"place", x>> \in ShownFor(f, "places")
    BY <1>4 DEF SpotsOf, ShownFor
  <2> QED
    BY <2>1, <2>2, <2>3, <1>1, <1>4 DEF ps
<1>5. CASE RuleOf(f).layer # "references" /\ I = {}
  <2>1. ps = << >>
    BY <1>2, <1>3, <1>5
  <2> QED
    BY <2>1, <1>5, NothingListed DEF ps
<1>6. CASE RuleOf(f).layer # "references" /\ I # {}
  <2>1. at \in I
    BY <1>1, <1>3, <1>6, GreatestOf
  <2>2. ps = <<g.places[at]>>
    BY <1>2, <1>6, <2>1
  <2>3. g.places[at].at = Spot(f.at) /\ at \in 1..Len(g.places)
    BY <2>1
  <2>4. <<"place", Spot(f.at)>> \in ShownFor(f, "places")
    BY <1>6 DEF ShownFor
  <2> DEFINE x == g.places[at]
  <2>5. Sequence(<<x>>) /\ Len(<<x>>) = 1 /\ \A k \in 1..Len(<<x>>) : <<x>>[k] = x
    BY OneOf
  <2>6. x.at = Spot(f.at) /\ \E p \in 1..Len(g.places) : x = g.places[p]
    BY <2>3
  <2> HIDE DEF x
  <2>7. ps = <<x>>
    BY <2>2 DEF x
  <2>8. ps # << >>
    BY <2>5, <2>7, NothingListed
  <2> QED
    BY <2>4, <2>5, <2>6, <2>7, <2>8 DEF ps
<1> QED
  BY <1>4, <1>5, <1>6

LEMMA PlaceInstancesAre ==
  ASSUME NEW f, SoundTable(TableOf(RuleOf(f))), HasGroup(f) => GroupFor(f, GroupOf(f))
  PROVE  /\ InstancesOK(f, "places", PlaceInstances(f))
         /\ (/\ HasGroup(f) /\ RuleOf(f).layer # "references"
             /\ AllTold(GroupOf(f)) /\ AsksFor(GroupOf(f), TableOf(RuleOf(f)))
             /\ \E p \in 1..Len(GroupOf(f).places) : GroupOf(f).places[p].at = Spot(f.at)) =>
              \A n \in DOMAIN PlaceInstances(f)[1].replies :
                PlaceInstances(f)[1].replies[n].skipped \notin {"no-line", "not-asked"}
<1> DEFINE d == TableOf(RuleOf(f))
           names == Named(d, "places")
           ids == {names[k].name : k \in DOMAIN names}
           g == GroupOf(f)
           h == WantAll(g, names)
           none == [label |-> "none", replies |->
                     [n \in ids |-> [NoReply EXCEPT !.skipped = "no-line"]]]
           one(p) == [label |-> p.id, replies |-> [n \in ids |-> ReplyAt(h, p, d, n)]]
           ps == PlacesOf(f, h)
           t == PlaceInstances(f)
           whole == /\ HasGroup(f) /\ RuleOf(f).layer # "references"
                    /\ AllTold(g) /\ AsksFor(g, d)
                    /\ \E p \in 1..Len(g.places) : g.places[p].at = Spot(f.at)
<1>1. t = IF ~HasGroup(f) \/ PlacesOf(f, g) = << >> THEN <<none>>
          ELSE [k \in DOMAIN ps |-> one(ps[k])]
  BY DEF PlaceInstances, ReplyAt, NameAt
<1>2. ids = NamesOf(d, "places")
  <2>1. /\ Sequence(names)
        /\ \A i \in 1..Len(names) : names[i].name \in NamesOf(d, "places")
        /\ \A n \in NamesOf(d, "places") : \E i \in 1..Len(names) : names[i].name = n
    BY NamedIs
  <2>2. DOMAIN names = 1..Len(names)
    BY <2>1, Listing
  <2> HIDE DEF names
  <2> QED
    BY <2>1, <2>2
<1>3. PlacesOf(f, g) = << >> \/ ~HasGroup(f) => InstancesOK(f, "places", t)
  <2> SUFFICES ASSUME PlacesOf(f, g) = << >> \/ ~HasGroup(f) PROVE InstancesOK(f, "places", t)
    OBVIOUS
  <2>1. t = <<none>>
    BY <1>1
  <2>2. /\ DOMAIN none.replies = ids
        /\ \A n \in ids : none.replies[n] = [NoReply EXCEPT !.skipped = "no-line"]
    OBVIOUS
  <2>3. \A x : x = [NoReply EXCEPT !.skipped = "no-line"] => x.skipped = "no-line" /\ x.mass = << >>
    BY DEF NoReply
  <2> HIDE DEF none, ids
  <2>4. InstanceOK(f, "places", none)
    BY <2>2, <2>3, <1>2 DEF InstanceOK
  <2> HIDE DEF t
  <2> QED
    BY <2>1, <2>4, OneOf DEF InstancesOK
<1> HIDE DEF none
<1>4. CASE ~HasGroup(f) \/ PlacesOf(f, g) = << >>
  <2>1. ~whole
    BY <1>4, PlacesOfIs
  <2> HIDE DEF t, g
  <2> QED
    BY <2>1, <1>3, <1>4 DEF t, g
<1>5. CASE HasGroup(f) /\ PlacesOf(f, g) # << >>
  <2>1. GroupFor(f, g)
    BY <1>5
  <2> HIDE DEF g
  <2>2. /\ GroupOK(h) /\ OwnGroup(h) /\ h.places = g.places
        /\ \A j \in 1..Len(names) : Knows(h, names[j])
        /\ AsksFor(g, d) => h = g
    BY <2>1, AskedOf DEF GroupFor
  <2>3. GroupFor(f, h)
    BY <2>1, <2>2 DEF GroupFor, OfReference
  <2>4. ASSUME NEW p \in 1..Len(h.places), NEW n \in ids
        PROVE  /\ IF ReplyAt(h, h.places[p], d, n).skipped = "none"
                  THEN /\ ReplyAt(h, h.places[p], d, n).of[1] = Content(d.questions[n])
                       /\ ReplyAt(h, h.places[p], d, n).of[3] = <<"place", h.places[p].at>>
                  ELSE ReplyAt(h, h.places[p], d, n).mass = << >>
               /\ AllTold(h) => ReplyAt(h, h.places[p], d, n).skipped \notin {"no-line", "not-asked"}
    <3> HIDE DEF h, d
    <3> QED
      BY <2>2, <1>2, ReplyAtIs DEF d
  <2> HIDE DEF h, names
  <2>5. /\ Sequence(ps)
        /\ \A k \in 1..Len(ps) : /\ \E p \in 1..Len(h.places) : ps[k] = h.places[p]
                                 /\ <<"place", ps[k].at>> \in ShownFor(f, "places")
        /\ whole => Len(ps) = 1
    <3>1. whole => /\ RuleOf(f).layer # "references"
                   /\ \E p \in 1..Len(h.places) : h.places[p].at = Spot(f.at)
      BY <2>2
    <3> HIDE DEF whole
    <3> QED
      BY <3>1, <2>3, PlacesOfIs
  <2>6. t = [k \in DOMAIN ps |-> one(ps[k])]
    BY <1>1, <1>5
  <2>7. Len(ps) \in Nat /\ DOMAIN ps = 1..Len(ps)
    BY <2>5, Listing
  <2>8. \A p : /\ DOMAIN one(p).replies = ids
               /\ \A n \in ids : one(p).replies[n] = ReplyAt(h, p, d, n)
    OBVIOUS
  <2>9. /\ t = [k \in 1..Len(ps) |-> t[k]]
        /\ \A k \in 1..Len(ps) : t[k] = one(ps[k])
    BY <2>6, <2>7
  <2> HIDE DEF one, ids, t, ps, d
  <2>10. Sequence(t) /\ Len(t) = Len(ps)
    BY <2>7, <2>9, Indexed
  <2>11. ASSUME NEW k \in 1..Len(ps) PROVE InstanceOK(f, "places", t[k])
    <3>1. PICK p \in 1..Len(h.places) : ps[k] = h.places[p]
      BY <2>5
    <3>2. DOMAIN t[k].replies = NamesOf(d, "places")
      BY <2>8, <2>9, <1>2
    <3>3. ASSUME NEW n \in NamesOf(d, "places")
          PROVE  IF t[k].replies[n].skipped = "none"
                 THEN /\ t[k].replies[n].of[1] = Content(d.questions[n])
                      /\ t[k].replies[n].of[3] \in ShownFor(f, "places")
                 ELSE t[k].replies[n].mass = << >>
      <4>1. t[k].replies[n] = ReplyAt(h, h.places[p], d, n)
        BY <3>1, <2>8, <2>9, <1>2
      <4>2. <<"place", h.places[p].at>> \in ShownFor(f, "places")
        BY <3>1, <2>5
      <4>3. n \in ids
        BY <1>2
      <4> HIDE DEF h
      <4> QED
        BY <4>1, <4>2, <4>3, <2>4
    <3> QED
      BY <3>2, <3>3 DEF InstanceOK, d
  <2>12. ASSUME whole, NEW n \in DOMAIN t[1].replies
         PROVE  t[1].replies[n].skipped \notin {"no-line", "not-asked"}
    <3>1. 1 \in 1..Len(ps) /\ AllTold(h)
      <4>1. Len(ps) = 1 /\ AllTold(g) /\ AsksFor(g, d)
        BY <2>5, <2>12
      <4>2. h = g
        BY <4>1, <2>2
      <4> QED
        BY <4>1, <4>2
    <3>2. PICK p \in 1..Len(h.places) : ps[1] = h.places[p]
      BY <3>1, <2>5
    <3>3. n \in ids /\ t[1].replies[n] = ReplyAt(h, h.places[p], d, n)
      BY <3>1, <3>2, <2>8, <2>9
    <3> QED
      BY <3>1, <3>3, <2>4
  <2> QED
    BY <2>10, <2>11, <2>12 DEF InstancesOK, t, g, d
<1> QED
  BY <1>4, <1>5

LEMMA SingleInstancesOwn ==
  ASSUME Inv, AskedAndTold, pc = "findings", busy, NEW s, s # "places"
  PROVE  InstancesOK(findings[turn], s, SingleInstances(s))
<1> DEFINE f == findings[turn]
           d == TableOf(RuleOf(f))
           t == SingleInstances(s)
<1>1. /\ Sequence(got) /\ Len(got) <= Len(requests) /\ Len(got) \in Nat /\ Len(requests) \in Nat
      /\ OwnRequests(requests, d, f, group)
      /\ \A k \in 1..Len(got) : Replied(requests[k], got[k])
  BY Listing DEF Inv, Typed, RequestsOK, AskedAndTold, AskedWell, AskedOfFinding
<1>2. /\ Sequence(t)
      /\ \A j \in 1..Len(t) : \E k \in 1..Len(got) :
           requests[k].subject = s /\ t[j].replies = got[k]
  BY <1>1, SingleInstancesAre
<1> HIDE DEF t
<1>3. ASSUME NEW j \in 1..Len(t) PROVE InstanceOK(f, s, t[j])
  <2>1. PICK k \in 1..Len(got) : requests[k].subject = s /\ t[j].replies = got[k]
    BY <1>2
  <2> DEFINE r == requests[k]
             m == got[k]
  <2>2. AboutRequest(r, d, f, s)
    <3>1. k \in 1..Len(requests)
      BY <1>1
    <3>2. OwnRequest(r, d, f, group) /\ r.subject = s
      BY <2>1, <3>1, <1>1 DEF OwnRequests
    <3> QED
      BY <3>2 DEF OwnRequest, PlacesRequest
  <2>3. Replied(r, m)
    BY <1>1
  <2> HIDE DEF r, m, f, d
  <2>4. DOMAIN m = NamesOf(d, s)
    <3>1. ASSUME NEW n \in NamesOf(d, s) PROVE n \in DOMAIN m
      <4>1. PICK i \in 1..Len(r.queries) : r.queries[i].id = n
        BY <2>2 DEF AboutRequest
      <4>2. r.queries[i].id \in DOMAIN m
        BY <2>3 DEF Replied
      <4> QED
        BY <4>1, <4>2
    <3>2. ASSUME NEW n \in DOMAIN m PROVE n \in NamesOf(d, s)
      <4>1. PICK i \in 1..Len(r.queries) : r.queries[i].id = n
        BY <2>3 DEF Replied
      <4>2. r.queries[i].id \in NamesOf(d, s)
        BY <2>2 DEF AboutRequest
      <4> QED
        BY <4>1, <4>2
    <3> QED
      BY <3>1, <3>2
  <2>5. ASSUME NEW n \in DOMAIN m
        PROVE  IF m[n].skipped = "none"
               THEN m[n].of[1] = Content(d.questions[n]) /\ m[n].of[3] \in ShownFor(f, s)
               ELSE m[n].mass = << >>
    <3>1. PICK i \in 1..Len(r.queries) : r.queries[i].id = n /\ ReplyTo(r, r.queries[i], m[n])
      BY <2>3 DEF Replied
    <3>2. /\ r.queries[i].asks[1] = Content(d.questions[n])
          /\ r.skip = "none" => r.queries[i].asks[3] \in TextsFor(f, s)
      BY <2>2, <3>1 DEF AboutRequest
    <3>3. TextsFor(f, s) = ShownFor(f, s)
      BY DEF TextsFor, ShownFor
    <3> QED
      BY <3>1, <3>2, <3>3 DEF ReplyTo
  <2> QED
    BY <2>1, <2>4, <2>5 DEF InstanceOK, m, d
<1> QED
  BY <1>2, <1>3 DEF InstancesOK, t, f

\* The evidence is the finding's own, and its place is asked about.
OwnEvidence(f, e) ==
  DOMAIN e = SubjectsOf(TableOf(RuleOf(f))) /\ \A s \in DOMAIN e : InstancesOK(f, s, e[s])

PlaceAsked(f, e) ==
  (RuleOf(f).layer # "references" /\ Frame(f.at)) =>
    \A s \in DOMAIN e : s = "places" =>
      \A n \in DOMAIN e[s][1].replies : e[s][1].replies[n].skipped \notin {"no-line", "not-asked"}

LEMMA EvidenceIsOwn ==
  ASSUME Inv, AskedAndTold, ConcludeFinding
  PROVE  LET f == findings[turn] IN OwnEvidence(f, Evidence(f)) /\ PlaceAsked(f, Evidence(f))
<1> DEFINE f == findings[turn]
           d == TableOf(RuleOf(f))
           e == Evidence(f)
           g == GroupOf(f)
           key == GroupKey(f)
           place == \E p \in 1..Len(g.places) : g.places[p].at = Spot(f.at)
<1>1. /\ pc = "findings" /\ Answered /\ busy /\ turn \in DOMAIN findings
      /\ SoundTable(d) /\ Pending(f)
  BY Concludes
<1>2. e = [s \in SubjectsOf(d) |-> IF s = "places" THEN PlaceInstances(f) ELSE SingleInstances(s)]
  BY DEF Evidence
<1>3. ASSUME "places" \in SubjectsOf(d), HasGroup(f)
      PROVE  /\ GroupFor(f, g)
             /\ RuleOf(f).layer # "references" =>
                  AllTold(g) /\ AsksFor(g, d) /\ (Frame(f.at) => place)
  <2>1. /\ GroupOK(g)
        /\ RuleOf(f).layer = "references" => f.reference \in DOMAIN refGroups
        /\ RuleOf(f).layer # "references" => key \in DOMAIN GroupsNow
    BY <1>1, <1>3, GroupOfIs
  <2>2. CASE RuleOf(f).layer = "references"
    <3>1. g = refGroups[f.reference]
      BY <2>2 DEF GroupOf
    <3>2. OwnGroup(g) /\ OfReference(g, f.reference)
      BY <2>1, <2>2, <3>1 DEF AskedAndTold, GroupsTold
    <3> QED
      BY <2>1, <2>2, <3>2 DEF GroupFor
  <2>3. CASE RuleOf(f).layer # "references"
    <3>1. g = GroupsNow[key]
      BY <2>3 DEF GroupOf
    <3>2. OwnGroup(g) /\ AllTold(g) /\ OfRule(g, key[1]) /\ HasPlaces(g, key)
      BY <1>1, <2>1, <2>3, <3>1, GroupsNowTell
    <3>3. key[1] = f.rule
      BY DEF GroupKey
    <3>4. AsksFor(g, d)
      BY <3>2, <3>3 DEF OfRule, RuleOf
    <3>5. Frame(f.at) => place
      <4> HIDE DEF g
      <4> QED
        BY <1>1, <3>2 DEF HasPlaces
    <3> HIDE DEF g
    <3> QED
      BY <2>1, <2>3, <3>2, <3>4, <3>5 DEF GroupFor
  <2> QED
    BY <2>2, <2>3
<1>4. ASSUME "places" \in SubjectsOf(d)
      PROVE  /\ InstancesOK(f, "places", PlaceInstances(f))
             /\ (RuleOf(f).layer # "references" /\ Frame(f.at)) =>
                  \A n \in DOMAIN PlaceInstances(f)[1].replies :
                    PlaceInstances(f)[1].replies[n].skipped \notin {"no-line", "not-asked"}
  <2>1. HasGroup(f) => GroupFor(f, g)
    BY <1>3, <1>4
  <2>2. RuleOf(f).layer # "references" => HasGroup(f)
    BY DEF HasGroup
  <2>3. (RuleOf(f).layer # "references" /\ Frame(f.at)) => AllTold(g) /\ AsksFor(g, d) /\ place
    BY <1>3, <1>4, <2>2
  <2> QED
    BY <2>1, <2>2, <2>3, <1>1, PlaceInstancesAre
<1>5. OwnEvidence(f, e)
  <2>1. ASSUME NEW s \in SubjectsOf(d) PROVE InstancesOK(f, s, e[s])
    <3>1. CASE s = "places"
      BY <3>1, <1>2, <1>4
    <3>2. CASE s # "places"
      BY <3>2, <1>1, <1>2, SingleInstancesOwn
    <3> QED
      BY <3>1, <3>2
  <2> QED
    BY <2>1, <1>2 DEF OwnEvidence
<1>6. PlaceAsked(f, e)
  BY <1>2, <1>4 DEF PlaceAsked
<1> QED
  BY <1>5, <1>6

\* The judgement is the engine's, of this evidence and the severity the finding came with.
Ruled(f, e) ==
  \E sev \in Severities :
    LET o == Decide(e, TableOf(RuleOf(f)).outcome, case.bars, RuleOf(f).judge.downgrade)
        v == EngineJudge(o, sev, RuleOf(f).judge.floor)
    IN  IF v = NoVerdict THEN f.state = "none" /\ f.severity = sev
        ELSE f.state = v.state /\ f.severity = v.severity

JudgedBy(f, e) == EvidenceOK(e) /\ OwnEvidence(f, e) /\ PlaceAsked(f, e) /\ Ruled(f, e)

\* What every finding of a rule with a table that was judged in this run is judged by.
Witnessed(f) ==
  \A e \in f.decision : (e # << >> /\ RuleOf(f).decision # {}) => JudgedBy(f, e)

Evidenced == \A k \in DOMAIN findings : Witnessed(findings[k])

LEMMA WitnessedStill ==
  ASSUME case' = case, set' = set, NEW f, Witnessed(f)
  PROVE  Witnessed(f)'
<1>1. \A e : JudgedBy(f, e) => JudgedBy(f, e)'
  <2> SUFFICES ASSUME NEW e, JudgedBy(f, e) PROVE JudgedBy(f, e)'
    OBVIOUS
  <2>1. RuleOf(f)' = RuleOf(f) /\ case.bars' = case.bars
    BY DEF RuleOf
  <2>2. Ruled(f, e)'
    BY <2>1 DEF JudgedBy, Ruled
  <2>3. PlaceAsked(f, e)'
    BY <2>1 DEF JudgedBy, PlaceAsked, Frame, skill
  <2>4. \A s : ShownFor(f, s)' = ShownFor(f, s)
    BY <2>1 DEF ShownFor, skill
  <2>5. \A s, in : InstanceOK(f, s, in) => InstanceOK(f, s, in)'
    BY <2>1, <2>4 DEF InstanceOK
  <2>6. OwnEvidence(f, e)'
    BY <2>1, <2>5 DEF JudgedBy, OwnEvidence, InstancesOK
  <2> QED
    BY <2>2, <2>3, <2>6 DEF JudgedBy
<1> QED
  BY <1>1 DEF Witnessed, RuleOf

LEMMA EvidencedStill ==
  ASSUME Evidenced, case' = case, set' = set, findings' = findings
  PROVE  Evidenced'
<1>1. ASSUME NEW k \in DOMAIN findings PROVE Witnessed(findings[k])'
  <2>1. PICK f : f = findings[k]
    OBVIOUS
  <2>2. Witnessed(f)
    BY <2>1 DEF Evidenced
  <2>3. Witnessed(f)'
    BY <2>2, WitnessedStill
  <2>4. f = findings'[k]
    BY <2>1
  <2> QED
    BY <2>3, <2>4 DEF Witnessed
<1> QED
  BY <1>1 DEF Evidenced

\* The findings of the layers before come with no evidence of this run.
LEMMA LoadEvidences ==
  ASSUME Inv, Evidenced, LoadRules
  PROVE  Evidenced'
<1>1. case \in Cases /\ case' = case /\ findings = << >>
  BY DEF LoadRules, Inv, Typed, Unloaded
<1>2. CASE ~Loads(case.files, case.byLayer)
  <2>1. findings' = << >>
    BY <1>1, <1>2 DEF LoadRules
  <2> QED
    BY <2>1 DEF Evidenced
<1>3. CASE Loads(case.files, case.byLayer)
  <2> DEFINE I == {k \in DOMAIN skill.findings : skill.findings[k].rule \in DOMAIN set'
                                                 /\ set'[skill.findings[k].rule].enabled}
             on == Picked(skill.findings, I)
             made == SubjectsMade(FlattenSeq([k \in DOMAIN on |-> AsksOf(on[k])]))
  <2>1. findings' = [k \in DOMAIN on |-> Fresh(on[k], made)]
    BY <1>3 DEF LoadRules
  <2>2. SkillOK(skill)
    BY <1>1, DecisionAssumption DEF CaseOK, skill
  <2>3. Sequence(skill.findings) /\ I \in SUBSET (1..Len(skill.findings))
    BY <2>2, Listing DEF SkillOK
  <2>4. \A i \in 1..Len(skill.findings) : skill.findings[i].decision \in {{}, {<< >>}}
    BY <2>2, <2>3, Listing DEF SkillOK
  <2> HIDE DEF I
  <2>5. Sequence(on) /\ \A j \in 1..Len(on) : \E k \in I : on[j] = skill.findings[k]
    BY <2>3, PickedOf
  <2> HIDE DEF on, made
  <2>6. DOMAIN on = 1..Len(on)
    BY <2>5, Listing
  <2>7. ASSUME NEW k \in DOMAIN findings' PROVE findings'[k].decision \in {{}, {<< >>}}
    <3>1. k \in 1..Len(on) /\ findings'[k] = Fresh(on[k], made)
      BY <2>1, <2>6
    <3>2. findings'[k].decision = on[k].decision
      BY <3>1 DEF Fresh
    <3>3. PICK i \in 1..Len(skill.findings) : on[k] = skill.findings[i]
      BY <3>1, <2>3, <2>5
    <3> QED
      BY <3>2, <3>3, <2>4
  <2>8. \A k \in DOMAIN findings' : \A e \in findings'[k].decision : e = << >>
    BY <2>7
  <2> QED
    BY <2>8 DEF Evidenced, Witnessed
<1> QED
  BY <1>2, <1>3

\* The findings of usages come without evidence, or of a rule that has no table.
LEMMA UsagesDoneEvidences ==
  ASSUME Inv, Evidenced, UsagesDone
  PROVE  Evidenced'
<1> DEFINE more == Dedup(raised)
           I == {k \in DOMAIN raised : \A j \in 1..(k - 1) : Key(raised[j]) # Key(raised[k])}
           c == findings \o more
<1>1. case' = case /\ set' = set /\ findings' = c
  BY DEF UsagesDone
<1>2. Sequence(findings) /\ Sequence(raised) /\ \A k \in 1..Len(raised) : AsRaised(raised[k])
  BY DEF Inv, Typed, FindingsOK, RaisedOK, RaisedAll
<1>3. Sequence(more) /\ \A k \in 1..Len(more) : AsRaised(more[k])
  <2>1. I \in SUBSET (1..Len(raised))
    BY <1>2, Listing
  <2>2. more = Picked(raised, I)
    BY DEF Dedup
  <2> HIDE DEF more, I
  <2>3. Sequence(more) /\ \A j \in 1..Len(more) : \E k \in I : more[j] = raised[k]
    BY <1>2, <2>1, <2>2, PickedOf
  <2> QED
    BY <2>1, <2>3, <1>2
<1> HIDE DEF more
<1>4. /\ Sequence(c) /\ Len(c) = Len(findings) + Len(more)
      /\ \A i \in 1..Len(findings) : c[i] = findings[i]
      /\ \A j \in 1..Len(more) : c[Len(findings) + j] = more[j]
      /\ \A i \in 1..(Len(findings) + Len(more)) :
           i \in 1..Len(findings) \/ \E j \in 1..Len(more) : i = Len(findings) + j
  BY <1>2, <1>3, Joining
<1>5. DOMAIN c = 1..Len(c) /\ DOMAIN findings = 1..Len(findings)
  BY <1>2, <1>4, Listing
<1> HIDE DEF c
<1>6. ASSUME NEW k \in DOMAIN c PROVE Witnessed(c[k])
  <2>1. CASE k \in 1..Len(findings)
    BY <2>1, <1>4, <1>5 DEF Evidenced
  <2>2. CASE k \notin 1..Len(findings)
    <3>1. PICK j \in 1..Len(more) : k = Len(findings) + j
      BY <2>2, <1>4, <1>5
    <3>2. AsRaised(c[k])
      BY <3>1, <1>3, <1>4
    <3> QED
      BY <3>2 DEF AsRaised, Witnessed, RuleOf
  <2> QED
    BY <2>1, <2>2
<1>7. ASSUME NEW k \in DOMAIN findings' PROVE Witnessed(findings[k])'
  <2>1. PICK f : f = findings'[k]
    OBVIOUS
  <2>2. Witnessed(f)
    BY <2>1, <1>1, <1>6
  <2>3. Witnessed(f)'
    BY <2>2, <1>1, WitnessedStill
  <2> QED
    BY <2>1, <2>3 DEF Witnessed
<1> QED
  BY <1>7 DEF Evidenced

LEMMA JudgementIsWitnessed ==
  ASSUME Inv, AskedAndTold, ConcludeFinding
  PROVE  Witnessed(Judge(findings[turn], Evidence(findings[turn])))
<1> DEFINE f == findings[turn]
           r == RuleOf(f)
           e == Evidence(f)
           j == Judge(f, e)
           o == Decide(e, TableOf(r).outcome, case.bars, r.judge.downgrade)
           v == EngineJudge(o, f.severity, r.judge.floor)
<1>1. /\ FindingOK(f) /\ Pending(f) /\ r.decision # {} /\ EvidenceOK(e) /\ SoundSet
  BY Concludes DEF Inv, Typed
<1>2. OwnEvidence(f, e) /\ PlaceAsked(f, e)
  BY EvidenceIsOwn
<1>3. f.state = "none" /\ f.severity \in Severities
  BY <1>1 DEF Pending, Undecided, FindingOK
<1> HIDE DEF e, f
<1>4. /\ j.decision = {e} /\ j.rule = f.rule /\ j.at = f.at
      /\ j.reference = f.reference /\ j.linked = f.linked
      /\ v = NoVerdict => j.severity = f.severity /\ j.state = f.state
      /\ v # NoVerdict => j.severity = v.severity /\ j.state = v.state
  BY <1>1, Judges
<1>5. RuleOf(j) = r
  BY <1>4 DEF RuleOf
<1> HIDE DEF j
<1>6. \A s : ShownFor(j, s) = ShownFor(f, s)
  BY <1>4, <1>5 DEF ShownFor
<1>7. OwnEvidence(j, e)
  <2>1. \A s, in : InstanceOK(f, s, in) => InstanceOK(j, s, in)
    BY <1>5, <1>6 DEF InstanceOK
  <2> QED
    BY <2>1, <1>2, <1>5 DEF OwnEvidence, InstancesOK
<1>8. PlaceAsked(j, e)
  BY <1>2, <1>4, <1>5 DEF PlaceAsked
<1>9. Ruled(j, e)
  <2>1. o = Decide(e, TableOf(RuleOf(j)).outcome, case.bars, RuleOf(j).judge.downgrade)
    BY <1>5
  <2>2. v = EngineJudge(o, f.severity, RuleOf(j).judge.floor)
    BY <1>5
  <2>3. IF v = NoVerdict THEN j.state = "none" /\ j.severity = f.severity
        ELSE j.state = v.state /\ j.severity = v.severity
    BY <1>3, <1>4
  <2> HIDE DEF o, v
  <2> QED
    BY <2>1, <2>2, <2>3, <1>3 DEF Ruled
<1>10. JudgedBy(j, e)
  BY <1>1, <1>7, <1>8, <1>9 DEF JudgedBy
<1>11. Witnessed(j)
  BY <1>4, <1>10 DEF Witnessed
<1> QED
  BY <1>11 DEF j, e, f

LEMMA ConcludeFindingEvidences ==
  ASSUME Inv, AskedAndTold, Evidenced, ConcludeFinding
  PROVE  Evidenced'
<1> DEFINE j == Judge(findings[turn], Evidence(findings[turn]))
<1>1. /\ case' = case /\ set' = set /\ turn \in DOMAIN findings
      /\ findings' = [findings EXCEPT ![turn] = j]
  BY Concludes
<1>2. Witnessed(j)
  BY JudgementIsWitnessed
<1> HIDE DEF j
<1>3. /\ DOMAIN findings' = DOMAIN findings /\ findings'[turn] = j
      /\ \A k \in DOMAIN findings : k # turn => findings'[k] = findings[k]
  BY <1>1
<1>4. ASSUME NEW k \in DOMAIN findings' PROVE Witnessed(findings[k])'
  <2>1. PICK f : f = findings'[k]
    OBVIOUS
  <2>2. Witnessed(f)
    BY <2>1, <1>2, <1>3 DEF Evidenced
  <2>3. Witnessed(f)'
    BY <2>2, <1>1, WitnessedStill
  <2> QED
    BY <2>1, <2>3 DEF Witnessed
<1> QED
  BY <1>4 DEF Evidenced

\* Every finding judged in this run has evidence of its own.
THEOREM EvidenceWitnesses == Spec => []Evidenced
<1>1. Init => Evidenced
  BY DEF Init, Evidenced
<1>2. Inv /\ AskedAndTold /\ Evidenced /\ [Next]_vars => Evidenced'
  <2> SUFFICES ASSUME Inv, AskedAndTold, Evidenced, [Next]_vars PROVE Evidenced'
    OBVIOUS
  <2>1. CASE LoadRules
    BY <2>1, LoadEvidences
  <2>2. CASE AskReference
    BY <2>2, EvidencedStill DEF AskReference
  <2>3. CASE AskFinding
    BY <2>3, EvidencedStill DEF AskFinding
  <2>4. CASE SkipRequest \/ Answer \/ Unavailable \/ Refuse \/ GiveUp
    BY <2>4, AttemptStill, EvidencedStill DEF Still
  <2>5. CASE ConcludeReference
    BY <2>5, EvidencedStill DEF ConcludeReference
  <2>6. CASE UsagesDone
    BY <2>6, UsagesDoneEvidences
  <2>7. CASE ConcludeFinding
    BY <2>7, ConcludeFindingEvidences
  <2>8. CASE Return
    BY <2>8, EvidencedStill DEF Return
  <2>9. CASE ContextEnds \/ Over \/ UNCHANGED vars
    BY <2>9, RestStill, EvidencedStill DEF Still
  <2> QED
    BY <2>1, <2>2, <2>3, <2>4, <2>5, <2>6, <2>7, <2>8, <2>9 DEF Next, Step
<1> QED
  BY <1>1, <1>2, LayerInvariant, GroupsAreTold, PTL DEF Spec

LEMMA JudgedIs ==
  ASSUME Inv, Evidenced, NEW k \in JudgedHere, RuleOf(findings[k]).decision # {}
  PROVE  JudgedBy(findings[k], EvidenceOf(findings[k]))
<1> DEFINE f == findings[k]
<1>1. k \in DOMAIN findings /\ \E e \in f.decision : e # << >>
  BY DEF JudgedHere
<1>2. FindingOK(f) /\ Witnessed(f)
  BY <1>1, Listing DEF Inv, Typed, FindingsOK, Evidenced
<1> HIDE DEF f
<1>3. PICK e : f.decision = {e}
  BY <1>1, <1>2 DEF FindingOK
<1>4. EvidenceOf(f) = e
  BY <1>3 DEF EvidenceOf
<1>5. e # << >> /\ e \in f.decision
  BY <1>1, <1>3
<1>6. RuleOf(f).decision # {}
  BY DEF f
<1> QED
  BY <1>2, <1>4, <1>5, <1>6 DEF Witnessed, f

\* Whatever groups, batches and renamed questions are in between, a finding is judged by the
\* model's answers to the questions of its own rule, at what it is about (places.go, usage.go,
\* ask.go).
THEOREM AnswersOwn == Spec => []AnswersAreOwn
<1>1. Inv /\ Evidenced => AnswersAreOwn
  <2> SUFFICES ASSUME Inv, Evidenced, NEW k \in JudgedHere, RuleOf(findings[k]).decision # {},
                      NEW s \in DOMAIN EvidenceOf(findings[k]),
                      NEW i \in DOMAIN EvidenceOf(findings[k])[s],
                      NEW n \in DOMAIN EvidenceOf(findings[k])[s][i].replies,
                      EvidenceOf(findings[k])[s][i].replies[n].skipped = "none"
               PROVE  /\ EvidenceOf(findings[k])[s][i].replies[n].of[1]
                           = Content(TableOf(RuleOf(findings[k])).questions[n])
                      /\ EvidenceOf(findings[k])[s][i].replies[n].of[3] \in ShownFor(findings[k], s)
    BY DEF AnswersAreOwn
  <2> DEFINE f == findings[k]
             e == EvidenceOf(f)
  <2>1. OwnEvidence(f, e)
    BY JudgedIs DEF JudgedBy
  <2> HIDE DEF f, e
  <2>2. InstancesOK(f, s, e[s])
    BY <2>1 DEF OwnEvidence, e, f
  <2>3. i \in 1..Len(e[s])
    BY <2>2, Listing DEF InstancesOK, e, f
  <2>4. InstanceOK(f, s, e[s][i])
    BY <2>2, <2>3 DEF InstancesOK
  <2> QED
    BY <2>4 DEF InstanceOK, e, f
<1> QED
  BY <1>1, LayerInvariant, EvidenceWitnesses, PTL

\* A finding in a place that can be shown is never judged without it having been asked about
\* (places.go).
THEOREM PlacesAsked == Spec => []EveryPlaceIsAsked
<1>1. Inv /\ Evidenced => EveryPlaceIsAsked
  <2> SUFFICES ASSUME Inv, Evidenced, NEW k \in JudgedHere,
                      RuleOf(findings[k]).layer # "references", RuleOf(findings[k]).decision # {},
                      Frame(findings[k].at), NEW s \in DOMAIN EvidenceOf(findings[k]), s = "places",
                      NEW n \in DOMAIN EvidenceOf(findings[k])[s][1].replies
               PROVE  EvidenceOf(findings[k])[s][1].replies[n].skipped \notin {"no-line", "not-asked"}
    BY DEF EveryPlaceIsAsked
  <2>1. PlaceAsked(findings[k], EvidenceOf(findings[k]))
    BY JudgedIs DEF JudgedBy
  <2> QED
    BY <2>1 DEF PlaceAsked
<1> QED
  BY <1>1, LayerInvariant, EvidenceWitnesses, PTL

-----------------------------------------------------------------------------
(* The run implements Deciding. *)

\* A finding, the findings and the rules as Deciding sees them.
AsDecided(f) ==
  [rule |-> f.rule, severity |-> f.severity, state |-> f.state, decided |-> f.decision # {}]

SeenFindings == [k \in DOMAIN findings |-> AsDecided(findings[k])]

SeenRules == [id \in DOMAIN set |-> [judge |-> set[id].judge, table |-> set[id].decision # {}]]

SeenStage ==
  CASE pc = "load" -> "load" [] pc = "usages" -> "raise"
    [] pc = "findings" -> "decide" [] OTHER -> "over"

LEMMA SeenAsIs ==
  Abstract!vars = <<SeenFindings, SeenRules, SeenStage>>
<1> QED
  BY DEF Abstract!vars, SeenFindings, SeenRules, SeenStage, AsDecided

\* Both engines are the same function of the result and the severity.
LEMMA SameEngine ==
  ASSUME NEW o, OutcomeOK(o), NEW current, NEW floor
  PROVE  /\ Abstract!NoVerdict = NoVerdict
         /\ Abstract!Severities = Severities
         /\ \E s \in Severities :
              Abstract!EngineJudge([result |-> o.result, severity |-> s], current, floor)
                = EngineJudge(o, current, floor)
<1> USE DEF Abstract!NoVerdict, NoVerdict, Abstract!Severities, Severities,
            Abstract!EngineJudge, EngineJudge, Abstract!Judged, Judged, Abstract!NoFloor, NoFloor,
            Abstract!LowerTo, LowerTo, Abstract!Higher, Higher
<1>1. CASE o.result = "lowered"
  <2>1. o.severity \in Severities
    BY <1>1 DEF OutcomeOK
  <2> QED
    BY <2>1, <1>1
<1>2. CASE o.result # "lowered"
  <2>1. Abstract!EngineJudge([result |-> o.result, severity |-> 1], current, floor)
          = EngineJudge(o, current, floor)
    BY <1>2
  <2> QED
    BY <2>1
<1> QED
  BY <1>1, <1>2

\* A rule without downgrade gets only its confirm rows.
LEMMA PolicyKept ==
  ASSUME NEW e, EvidenceOK(e), NEW table, NEW bars, NEW lowering \in BOOLEAN, ~lowering
  PROVE  Decide(e, table, bars, lowering).result \in {"kept", "confirmed"}
<1> DEFINE all == Combinations(e)
           one(k) == DecideOne(all[k], table, bars, lowering)
           o == Decide(e, table, bars, lowering)
<1>1. Sequence(all)
  BY CombinationsListed
<1>2. /\ Len(all) = 0 => o = Kept
      /\ Len(all) > 0 => \E k \in 1..Len(all) : o = one(k)
  BY <1>1, Decided
<1>3. Len(all) \in Nat
  BY <1>1, Listing
<1> HIDE DEF all, o
<1>4. \A k : one(k).result \in {"kept", "confirmed"}
  BY DecidedOne DEF OutcomeOK, Results
<1>5. Kept.result = "kept"
  BY DEF Kept, Outcome
<1> HIDE DEF one
<1>6. o.result \in {"kept", "confirmed"}
  <2>1. CASE Len(all) = 0
    BY <2>1, <1>2, <1>5
  <2>2. CASE Len(all) > 0
    BY <2>2, <1>2, <1>4
  <2> QED
    BY <2>1, <2>2, <1>3
<1> QED
  BY <1>6 DEF o

LEMMA ConcludeDecides ==
  ASSUME Inv, ConcludeFinding
  PROVE  Abstract!DecideFinding
<1> DEFINE f == findings[turn]
           r == RuleOf(f)
           e == Evidence(f)
           j == Judge(f, e)
           o == Decide(e, TableOf(r).outcome, case.bars, r.judge.downgrade)
           v == EngineJudge(o, f.severity, r.judge.floor)
           a == AsDecided(f)
<1>1. /\ pc = "findings" /\ set' = set /\ pc' = pc /\ turn \in DOMAIN findings
      /\ FindingOK(f) /\ Pending(f) /\ f.rule \in DOMAIN set /\ r.decision # {}
      /\ EvidenceOK(e) /\ SoundSet /\ findings' = [findings EXCEPT ![turn] = j]
  BY Concludes DEF Inv, Typed
<1>2. r.judge.downgrade \in BOOLEAN
  BY <1>1 DEF SoundSet, Sound, RuleOf
<1> HIDE DEF f
<1>3. /\ OutcomeOK(o) /\ j.decision = {e} /\ j.rule = f.rule
      /\ v = NoVerdict => j.severity = f.severity /\ j.state = f.state
      /\ v # NoVerdict => j.severity = v.severity /\ j.state = v.state
  BY <1>1, Judges
<1>4. ~r.judge.downgrade => o.result \in {"kept", "confirmed"}
  BY <1>1, <1>2, PolicyKept
<1>5. SeenRules[f.rule].judge = r.judge /\ SeenRules[f.rule].table
  BY <1>1 DEF SeenRules, RuleOf
<1> HIDE DEF e, j, o
<1>6. PICK s \in Severities :
        Abstract!EngineJudge([result |-> o.result, severity |-> s], f.severity, r.judge.floor) = v
  BY <1>3, SameEngine
<1> HIDE DEF v
<1>7. o.result \in IF r.judge.downgrade THEN Abstract!Results ELSE {"kept", "confirmed"}
  BY <1>3, <1>4 DEF OutcomeOK, Results, Abstract!Results
<1>8. a = [rule |-> f.rule, severity |-> f.severity, state |-> f.state, decided |-> FALSE]
  BY <1>1 DEF AsDecided, Pending, Undecided
<1>9. AsDecided(j) = Abstract!Judged1(a, v)
  <2>1. AsDecided(j) = [rule |-> f.rule, severity |-> j.severity, state |-> j.state, decided |-> TRUE]
    BY <1>3 DEF AsDecided
  <2>2. Abstract!Judged1(a, v) = IF v = NoVerdict THEN [a EXCEPT !.decided = TRUE]
          ELSE [a EXCEPT !.decided = TRUE, !.severity = v.severity, !.state = v.state]
    BY DEF Abstract!Judged1, Abstract!NoVerdict, NoVerdict
  <2> HIDE DEF a
  <2>3. CASE v = NoVerdict
    BY <2>1, <2>2, <2>3, <1>3, <1>8
  <2>4. CASE v # NoVerdict
    BY <2>1, <2>2, <2>4, <1>3, <1>8
  <2> QED
    BY <2>3, <2>4
<1>10. SeenFindings' = [SeenFindings EXCEPT ![turn] = Abstract!Judged1(@, v)]
  <2>1. SeenFindings[turn] = a
    BY <1>1 DEF SeenFindings, f
  <2>2. \A k \in DOMAIN findings : findings'[k] = IF k = turn THEN j ELSE findings[k]
    BY <1>1
  <2>3. DOMAIN findings' = DOMAIN findings
    BY <1>1
  <2>4. SeenFindings' = [k \in DOMAIN findings' |-> AsDecided(findings'[k])]
    BY DEF SeenFindings, AsDecided
  <2> DEFINE b == Abstract!Judged1(a, v)
  <2>5. \A k \in DOMAIN findings : AsDecided(findings'[k]) = IF k = turn THEN b ELSE AsDecided(findings[k])
    BY <2>2, <1>9
  <2> HIDE DEF b, a
  <2>6. SeenFindings' = [SeenFindings EXCEPT ![turn] = b]
    BY <2>3, <2>4, <2>5 DEF SeenFindings
  <2> QED
    BY <2>1, <2>6 DEF b
<1>11. Abstract!Open(SeenFindings[turn]) /\ v \in Abstract!Verdict(SeenFindings[turn])
  <2>1. SeenFindings[turn] = a
    BY <1>1 DEF SeenFindings, f
  <2>2. Abstract!Open(a) <=> a.state = "none" /\ ~a.decided /\ SeenRules[a.rule].table
    BY DEF Abstract!Open, SeenRules
  <2>3. a.state = "none" /\ ~a.decided /\ a.rule = f.rule /\ a.severity = f.severity
    BY <1>1, <1>8 DEF Pending, Undecided
  <2>4. Abstract!Verdict(a) =
          {Abstract!EngineJudge([result |-> res, severity |-> x], a.severity,
                                SeenRules[a.rule].judge.floor) :
             res \in IF SeenRules[a.rule].judge.downgrade THEN Abstract!Results ELSE {"kept", "confirmed"},
             x \in Severities}
    BY DEF Abstract!Verdict, Abstract!Allowed, SeenRules, Abstract!Severities, Severities
  <2> HIDE DEF a
  <2>5. v \in Abstract!Verdict(a)
    BY <2>3, <2>4, <1>5, <1>6, <1>7
  <2> QED
    BY <2>1, <2>2, <2>3, <2>5, <1>5
<1>12. turn \in DOMAIN SeenFindings /\ SeenStage = "decide" /\ SeenStage' = SeenStage
       /\ SeenRules' = SeenRules
  BY <1>1 DEF SeenFindings, SeenStage, SeenRules
<1> QED
  BY <1>10, <1>11, <1>12
  DEF Abstract!DecideFinding, SeenFindings, SeenRules, SeenStage, AsDecided

LEMMA UsagesDoneRaises ==
  ASSUME Inv, UsagesDone
  PROVE  Abstract!Raise
<1> DEFINE more == Dedup(raised)
           I == {k \in DOMAIN raised : \A j \in 1..(k - 1) : Key(raised[j]) # Key(raised[k])}
           c == findings \o more
           old == SeenFindings
           new == SeenFindings'
<1>1. pc = "usages" /\ pc' = "findings" /\ set' = set /\ findings' = c
  BY DEF UsagesDone
<1>2. Sequence(findings) /\ Sequence(raised) /\ \A k \in 1..Len(raised) : AsRaised(raised[k])
  BY DEF Inv, Typed, FindingsOK, RaisedOK, RaisedAll
<1>3. Sequence(more) /\ \A k \in 1..Len(more) : AsRaised(more[k])
  <2>1. I \in SUBSET (1..Len(raised))
    BY <1>2, Listing
  <2>2. more = Picked(raised, I)
    BY DEF Dedup
  <2> HIDE DEF more, I
  <2>3. Sequence(more) /\ \A j \in 1..Len(more) : \E k \in I : more[j] = raised[k]
    BY <1>2, <2>1, <2>2, PickedOf
  <2> QED
    BY <2>1, <2>3, <1>2
<1> HIDE DEF more
<1>4. /\ Sequence(c) /\ Len(c) = Len(findings) + Len(more)
      /\ \A i \in 1..Len(findings) : c[i] = findings[i]
      /\ \A j \in 1..Len(more) : c[Len(findings) + j] = more[j]
      /\ \A i \in 1..(Len(findings) + Len(more)) :
           i \in 1..Len(findings) \/ \E j \in 1..Len(more) : i = Len(findings) + j
  BY <1>2, <1>3, Joining
<1>5. /\ DOMAIN c = 1..Len(c) /\ DOMAIN findings = 1..Len(findings)
      /\ Len(findings) \in Nat /\ Len(more) \in Nat /\ Len(c) \in Nat
  BY <1>2, <1>3, <1>4, Listing
<1> HIDE DEF c
<1>6. /\ old = [k \in 1..Len(findings) |-> AsDecided(findings[k])]
      /\ new = [k \in 1..Len(c) |-> AsDecided(c[k])]
  BY <1>1, <1>5 DEF SeenFindings, AsDecided
<1> HIDE DEF old, new
<1>7. /\ Sequence(old) /\ Len(old) = Len(findings) /\ Sequence(new) /\ Len(new) = Len(c)
      /\ DOMAIN old = 1..Len(findings) /\ DOMAIN new = 1..Len(c)
  BY <1>5, <1>6, Indexed
<1>8. \A k \in 1..Len(findings) : new[k] = old[k]
  BY <1>4, <1>5, <1>6
<1>9. Abstract!IsPrefix(old, new)
  <2>1. Len(old) <= Len(new)
    BY <1>4, <1>5, <1>7
  <2>2. SubSeq(old, 1, Len(old)) = SubSeq(new, 1, Len(old))
    <3>1. old \in Seq(ToSet(old)) /\ new \in Seq(ToSet(new))
      BY <1>7 DEF Sequence
    <3>2. \A k \in 1..Len(old) : new[k] = old[k]
      BY <1>7, <1>8
    <3> QED
      BY <3>1, <3>2, <2>1
  <2> QED
    BY <2>1, <2>2 DEF Abstract!IsPrefix
<1>10. ASSUME NEW i \in DOMAIN new \ DOMAIN old PROVE new[i].state = "none"
  <2>1. i \in 1..Len(c) /\ i \notin 1..Len(findings)
    BY <1>7
  <2>2. PICK j \in 1..Len(more) : i = Len(findings) + j
    BY <2>1, <1>4
  <2>3. AsRaised(c[i])
    BY <2>2, <1>3, <1>4
  <2> QED
    BY <2>1, <2>3, <1>6 DEF AsRaised, AsDecided
<1>11. SeenStage = "raise" /\ SeenStage' = "decide" /\ SeenRules' = SeenRules
  BY <1>1 DEF SeenStage, SeenRules
<1> QED
  BY <1>9, <1>10, <1>11
  DEF Abstract!Raise, old, new, SeenFindings, SeenRules, SeenStage, AsDecided

LEMMA ReturnReturns ==
  ASSUME Inv, Return
  PROVE  Abstract!Return
<1>1. /\ pc = "findings" /\ pc' = "done" /\ set' = set /\ findings' = findings
      /\ turn > Len(findings) /\ turn \in Nat
  BY DEF Return, Inv, Typed
<1>2. DOMAIN findings = 1..Len(findings) /\ Len(findings) \in Nat
  BY Listing DEF Inv, Typed, FindingsOK
<1>3. ASSUME NEW k \in DOMAIN findings PROVE ~Abstract!Open(SeenFindings[k])
  <2>1. k < turn
    BY <1>1, <1>2
  <2>2. ~Pending(findings[k]) /\ findings[k].rule \in DOMAIN set
    BY <2>1, <1>1, <1>2 DEF Inv, InOrder, Typed, FindingsOK, FindingOK
  <2> DEFINE f == findings[k]
             a == SeenFindings[k]
  <2>3. /\ a.state = f.state /\ a.rule = f.rule
        /\ a.decided <=> f.decision # {}
    BY DEF SeenFindings, AsDecided
  <2>4. SeenRules[f.rule].table <=> RuleOf(f).decision # {}
    BY <2>2 DEF SeenRules, RuleOf
  <2>5. Abstract!Open(a) <=> a.state = "none" /\ ~a.decided /\ SeenRules[a.rule].table
    BY DEF Abstract!Open, SeenRules
  <2> HIDE DEF a, f
  <2>6. ~Abstract!Open(a)
    BY <2>2, <2>3, <2>4, <2>5 DEF Pending, Undecided, f
  <2> QED
    BY <2>6 DEF a
<1>4. DOMAIN SeenFindings = DOMAIN findings
  BY DEF SeenFindings
<1>5. /\ SeenStage = "decide" /\ SeenStage' = "over" /\ SeenRules' = SeenRules
      /\ SeenFindings' = SeenFindings
  BY <1>1 DEF SeenStage, SeenRules, SeenFindings, AsDecided
<1> QED
  BY <1>3, <1>4, <1>5
  DEF Abstract!Return, SeenFindings, SeenRules, SeenStage, AsDecided

LEMMA LoadLoads ==
  ASSUME LoadRules
  PROVE  Abstract!Load
<1>1. pc = "load" /\ pc' \in {"findings", "usages", "refused"}
  BY DEF LoadRules
<1> QED
  BY <1>1 DEF Abstract!Load

LEMMA StillDeciding ==
  ASSUME findings' = findings, set' = set, pc' = pc
  PROVE  UNCHANGED Abstract!vars
<1> QED
  BY DEF Abstract!vars

\* The layer with its groups, requests, retries and usages is one that raises findings once,
\* decides each at most once, in one step, within the policy of its rule, and returns when none
\* is left.
THEOREM LayerImplementsDeciding == Spec => ImplementsDeciding
<1>1. Init => Abstract!Init
  BY DEF Init, Abstract!Init
<1>2. Inv /\ [Next]_vars => [Abstract!Next]_(Abstract!vars)
  <2> SUFFICES ASSUME Inv, [Next]_vars PROVE [Abstract!Next]_(Abstract!vars)
    OBVIOUS
  <2>1. CASE LoadRules
    BY <2>1, LoadLoads DEF Abstract!Next
  <2>2. CASE AskReference
    BY <2>2, StillDeciding DEF AskReference
  <2>3. CASE AskFinding
    BY <2>3, StillDeciding DEF AskFinding
  <2>4. CASE SkipRequest \/ Answer \/ Unavailable \/ Refuse \/ GiveUp
    BY <2>4, AttemptStill, StillDeciding DEF Still
  <2>5. CASE ConcludeReference
    BY <2>5, StillDeciding DEF ConcludeReference
  <2>6. CASE UsagesDone
    BY <2>6, UsagesDoneRaises DEF Abstract!Next
  <2>7. CASE ConcludeFinding
    BY <2>7, ConcludeDecides DEF Abstract!Next
  <2>8. CASE Return
    BY <2>8, ReturnReturns DEF Abstract!Next
  <2>9. CASE ContextEnds \/ Over \/ UNCHANGED vars
    BY <2>9, RestStill, StillDeciding DEF Still
  <2> QED
    BY <2>1, <2>2, <2>3, <2>4, <2>5, <2>6, <2>7, <2>8, <2>9 DEF Next, Step
<1> QED
  BY <1>1, <1>2, LayerInvariant, PTL DEF Spec, ImplementsDeciding, Abstract!Spec

-----------------------------------------------------------------------------
(* The combinations of the engine are the picks of an instance of every    *)
(* subject.                                                                *)

\* No question is asked about two subjects.
Apart(e) ==
  \A s, t \in DOMAIN e : s # t =>
    \A i \in DOMAIN e[s], j \in DOMAIN e[t] :
      DOMAIN e[s][i].replies \cap DOMAIN e[t][j].replies = {}

\* An instance of every subject in T, and what it combines to.
Ways(e, T) == {c \in [Subjects -> Nat] : \A s \in T \cap DOMAIN e : c[s] \in DOMAIN e[s]}

Combines(m, e, c, T) ==
  /\ DOMAIN m = UNION {DOMAIN e[s][c[s]].replies : s \in T \cap DOMAIN e}
  /\ \A s \in T \cap DOMAIN e : \A q \in DOMAIN e[s][c[s]].replies :
       m[q] = e[s][c[s]].replies[q]

AllWays(a, e, T) ==
  /\ Sequence(a)
  /\ \A k \in 1..Len(a) : \E c \in Ways(e, T) : Combines(a[k], e, c, T)
  /\ \A c \in Ways(e, T) : \E k \in 1..Len(a) : Combines(a[k], e, c, T)

LEMMA CombinesOne ==
  ASSUME NEW e, Apart(e), NEW T \in SUBSET Subjects, NEW s \in DOMAIN e, s \notin T,
         NEW c \in Ways(e, T), c[s] \in DOMAIN e[s], NEW m, Combines(m, e, c, T)
  PROVE  Combines(With(m, e[s][c[s]]), e, c, T \cup {s})
<1> DEFINE new == e[s][c[s]].replies
           w == With(m, e[s][c[s]])
<1>1. w = [x \in DOMAIN new \cup DOMAIN m |-> IF x \in DOMAIN new THEN new[x] ELSE m[x]]
  BY DEF With, Overlay
<1>2. ASSUME NEW t \in T \cap DOMAIN e PROVE DOMAIN e[t][c[t]].replies \cap DOMAIN new = {}
  <2>1. t # s /\ c[t] \in DOMAIN e[t]
    BY DEF Ways
  <2> QED
    BY <2>1 DEF Apart
<1> HIDE DEF new, w
<1>3. (T \cup {s}) \cap DOMAIN e = (T \cap DOMAIN e) \cup {s}
  OBVIOUS
<1>4. DOMAIN w = UNION {DOMAIN e[t][c[t]].replies : t \in (T \cup {s}) \cap DOMAIN e}
  <2>1. DOMAIN w = DOMAIN new \cup UNION {DOMAIN e[t][c[t]].replies : t \in T \cap DOMAIN e}
    BY <1>1 DEF Combines
  <2> QED
    BY <2>1, <1>3 DEF new
<1>5. ASSUME NEW t \in (T \cup {s}) \cap DOMAIN e, NEW q \in DOMAIN e[t][c[t]].replies
      PROVE  w[q] = e[t][c[t]].replies[q]
  <2>1. CASE t = s
    BY <2>1, <1>1 DEF new
  <2>2. CASE t # s
    <3>1. t \in T \cap DOMAIN e
      BY <2>2
    <3>2. q \notin DOMAIN new
      BY <3>1, <1>2
    <3>3. q \in DOMAIN m /\ m[q] = e[t][c[t]].replies[q]
      BY <3>1 DEF Combines
    <3> QED
      BY <3>2, <3>3, <1>1
  <2> QED
    BY <2>1, <2>2
<1> QED
  BY <1>4, <1>5 DEF Combines, w

LEMMA CombinesAlike ==
  ASSUME NEW e, NEW T, NEW c, NEW d, \A s \in T : c[s] = d[s], NEW m, Combines(m, e, c, T)
  PROVE  Combines(m, e, d, T)
<1>1. \A s \in T \cap DOMAIN e : e[s][c[s]] = e[s][d[s]]
  OBVIOUS
<1>2. {DOMAIN e[s][c[s]].replies : s \in T \cap DOMAIN e}
        = {DOMAIN e[s][d[s]].replies : s \in T \cap DOMAIN e}
  BY <1>1
<1> QED
  BY <1>1, <1>2 DEF Combines

LEMMA JoinedWays ==
  ASSUME NEW e, EvidenceOK(e), Apart(e), NEW T \in SUBSET Subjects, NEW s \in Subjects, s \notin T,
         NEW all, AllWays(all, e, T)
  PROVE  AllWays(Joined(all, e, s), e, T \cup {s})
<1> DEFINE a == Joined(all, e, s)
           U == T \cup {s}
<1>1. Sequence(all)
  BY DEF AllWays
<1>2. CASE s \notin DOMAIN e
  <2>1. a = all
    BY <1>2 DEF Joined
  <2>2. U \cap DOMAIN e = T \cap DOMAIN e
    BY <1>2
  <2> HIDE DEF a, U
  <2>3. Ways(e, U) = Ways(e, T)
    BY <2>2 DEF Ways
  <2>4. \A m, c : Combines(m, e, c, U) <=> Combines(m, e, c, T)
    BY <2>2 DEF Combines
  <2> QED
    BY <2>1, <2>3, <2>4 DEF AllWays, a, U
<1>3. CASE s \in DOMAIN e
  <2>1. /\ Sequence(a)
        /\ \A k \in 1..Len(a) : \E i \in 1..Len(all), j \in 1..Len(e[s]) : a[k] = With(all[i], e[s][j])
        /\ \A i \in 1..Len(all), j \in 1..Len(e[s]) : \E k \in 1..Len(a) : a[k] = With(all[i], e[s][j])
    BY <1>1, <1>3, JoinedListed
  <2>2. DOMAIN e[s] = 1..Len(e[s]) /\ Len(e[s]) \in Nat
    BY <1>3, Listing DEF EvidenceOK
  <2> HIDE DEF a
  <2>3. ASSUME NEW k \in 1..Len(a) PROVE \E c \in Ways(e, U) : Combines(a[k], e, c, U)
    <3>1. PICK i \in 1..Len(all) : \E j \in 1..Len(e[s]) : a[k] = With(all[i], e[s][j])
      BY <2>1
    <3>2. PICK j \in 1..Len(e[s]) : a[k] = With(all[i], e[s][j])
      BY <3>1
    <3>3. PICK c \in Ways(e, T) : Combines(all[i], e, c, T)
      BY DEF AllWays
    <3> DEFINE d == [c EXCEPT ![s] = j]
    <3>4. c \in [Subjects -> Nat] /\ j \in Nat
      BY <3>3 DEF Ways
    <3>5. d \in [Subjects -> Nat] /\ d[s] = j /\ \A t \in T : d[t] = c[t]
      BY <3>4
    <3> HIDE DEF d
    <3>6. d \in Ways(e, T) /\ d \in Ways(e, U)
      BY <3>3, <3>5, <2>2 DEF Ways
    <3>7. Combines(all[i], e, d, T)
      BY <3>3, <3>5, CombinesAlike
    <3>8. d[s] \in DOMAIN e[s]
      BY <3>5, <2>2
    <3>9. Combines(With(all[i], e[s][d[s]]), e, d, U)
      BY <3>6, <3>7, <3>8, <1>3, CombinesOne
    <3> QED
      BY <3>2, <3>5, <3>6, <3>9
  <2>4. ASSUME NEW c \in Ways(e, U) PROVE \E k \in 1..Len(a) : Combines(a[k], e, c, U)
    <3>1. c \in Ways(e, T) /\ c[s] \in DOMAIN e[s]
      BY <1>3 DEF Ways
    <3>2. PICK i \in 1..Len(all) : Combines(all[i], e, c, T)
      BY <3>1 DEF AllWays
    <3>3. c[s] \in 1..Len(e[s])
      BY <3>1, <2>2
    <3>4. PICK k \in 1..Len(a) : a[k] = With(all[i], e[s][c[s]])
      BY <3>3, <2>1
    <3>5. Combines(With(all[i], e[s][c[s]]), e, c, U)
      BY <3>1, <3>2, <1>3, CombinesOne
    <3> QED
      BY <3>4, <3>5
  <2> QED
    BY <2>1, <2>3, <2>4 DEF AllWays, a
<1> QED
  BY <1>2, <1>3

LEMMA CombinationsAre ==
  ASSUME NEW e, EvidenceOK(e), Apart(e)
  PROVE  AllWays(Combinations(e), e, Subjects)
<1> DEFINE none == << << >> >>
           a == Joined(none, e, "entry")
           b == Joined(a, e, "facts")
           c == Joined(b, e, "frame")
           d == Joined(c, e, "places")
           f == Joined(d, e, "trace")
<1>1. AllWays(none, e, {})
  <2>1. Sequence(none) /\ Len(none) = 1 /\ none[1] = << >>
    BY OneOf
  <2>2. \A g : Combines(<< >>, e, g, {})
    BY DEF Combines
  <2>3. [s \in Subjects |-> 0] \in Ways(e, {})
    BY DEF Ways
  <2> QED
    BY <2>1, <2>2, <2>3 DEF AllWays
<1> HIDE DEF none
<1>2. AllWays(a, e, {"entry"})
  <2>1. AllWays(a, e, {} \cup {"entry"})
    BY <1>1, JoinedWays DEF Subjects
  <2>2. {} \cup {"entry"} = {"entry"}
    OBVIOUS
  <2> QED
    BY <2>1, <2>2
<1> HIDE DEF a
<1>3. AllWays(b, e, {"entry", "facts"})
  <2>1. AllWays(b, e, {"entry"} \cup {"facts"})
    BY <1>2, JoinedWays DEF Subjects
  <2>2. {"entry"} \cup {"facts"} = {"entry", "facts"}
    OBVIOUS
  <2> QED
    BY <2>1, <2>2
<1> HIDE DEF b
<1>4. AllWays(c, e, {"entry", "facts", "frame"})
  <2>1. AllWays(c, e, {"entry", "facts"} \cup {"frame"})
    BY <1>3, JoinedWays DEF Subjects
  <2>2. {"entry", "facts"} \cup {"frame"} = {"entry", "facts", "frame"}
    OBVIOUS
  <2> QED
    BY <2>1, <2>2
<1> HIDE DEF c
<1>5. AllWays(d, e, {"entry", "facts", "frame", "places"})
  <2>1. AllWays(d, e, {"entry", "facts", "frame"} \cup {"places"})
    BY <1>4, JoinedWays DEF Subjects
  <2>2. {"entry", "facts", "frame"} \cup {"places"} = {"entry", "facts", "frame", "places"}
    OBVIOUS
  <2> QED
    BY <2>1, <2>2
<1> HIDE DEF d
<1>6. AllWays(f, e, Subjects)
  <2>1. AllWays(f, e, {"entry", "facts", "frame", "places"} \cup {"trace"})
    BY <1>5, JoinedWays DEF Subjects
  <2>2. {"entry", "facts", "frame", "places"} \cup {"trace"} = Subjects
    BY DEF Subjects
  <2> QED
    BY <2>1, <2>2
<1> QED
  BY <1>6 DEF Combinations, f, d, c, b, a, none

\* What the combination of a pick answers to a question.
Matched(m, e, c) == \A q : Reply(m, q) = Seen(e, c, q)

LEMMA SeenInCombination ==
  ASSUME NEW e, Apart(e), DOMAIN e \subseteq Subjects, NEW w, NEW m, Combines(m, e, w, Subjects),
         NEW c, \A s \in DOMAIN e : c[s] = w[s] /\ c[s] \in DOMAIN e[s]
  PROVE  Matched(m, e, c)
<1> SUFFICES ASSUME NEW q PROVE Reply(m, q) = Seen(e, c, q)
  BY DEF Matched
<1> DEFINE at == {t \in DOMAIN e : q \in DOMAIN e[t][c[t]].replies}
           t0 == CHOOSE t \in at : TRUE
<1>1. Subjects \cap DOMAIN e = DOMAIN e
  OBVIOUS
<1>2. /\ DOMAIN m = UNION {DOMAIN e[s][w[s]].replies : s \in DOMAIN e}
      /\ \A s \in DOMAIN e : \A x \in DOMAIN e[s][w[s]].replies : m[x] = e[s][w[s]].replies[x]
  BY <1>1 DEF Combines
<1>3. Seen(e, c, q) = IF at = {} THEN NoReply ELSE e[t0][c[t0]].replies[q]
  BY DEF Seen
<1>4. q \in DOMAIN m <=> at # {}
  BY <1>2
<1>5. CASE at = {}
  BY <1>3, <1>4, <1>5 DEF Reply
<1>6. CASE at # {}
  <2>1. t0 \in at
    BY <1>6
  <2>2. m[q] = e[t0][c[t0]].replies[q]
    <3> HIDE DEF t0
    <3> QED
      BY <2>1, <1>2
  <2> QED
    BY <2>2, <1>3, <1>4, <1>6 DEF Reply
<1> QED
  BY <1>5, <1>6

LEMMA CombinationsArePicks ==
  ASSUME NEW e, EvidenceOK(e), Apart(e)
  PROVE  /\ \A k \in 1..Len(Combinations(e)) : \E c \in Picks(e) : Matched(Combinations(e)[k], e, c)
         /\ \A c \in Picks(e) : \E k \in 1..Len(Combinations(e)) : Matched(Combinations(e)[k], e, c)
<1> DEFINE all == Combinations(e)
           U == UNION {DOMAIN e[s] : s \in DOMAIN e}
<1>1. AllWays(all, e, Subjects) /\ DOMAIN e \subseteq Subjects
  BY CombinationsAre DEF EvidenceOK
<1>2. \A s \in DOMAIN e : DOMAIN e[s] \subseteq Nat /\ DOMAIN e[s] \subseteq U
  <2>1. ASSUME NEW s \in DOMAIN e PROVE DOMAIN e[s] \subseteq Nat
    <3>1. DOMAIN e[s] = 1..Len(e[s])
      BY Listing DEF EvidenceOK
    <3> QED
      BY <3>1
  <2> QED
    BY <2>1
<1>3. Picks(e) = {c \in [DOMAIN e -> U] : \A s \in DOMAIN e : c[s] \in DOMAIN e[s]}
  BY DEF Picks
<1> HIDE DEF all, U
<1>4. ASSUME NEW k \in 1..Len(all) PROVE \E c \in Picks(e) : Matched(all[k], e, c)
  <2>1. PICK w \in Ways(e, Subjects) : Combines(all[k], e, w, Subjects)
    BY <1>1 DEF AllWays
  <2> DEFINE c == [s \in DOMAIN e |-> w[s]]
  <2>2. \A s \in DOMAIN e : w[s] \in DOMAIN e[s]
    BY <2>1, <1>1 DEF Ways
  <2>3. c \in [DOMAIN e -> U] /\ \A s \in DOMAIN e : c[s] = w[s] /\ c[s] \in DOMAIN e[s]
    BY <2>2, <1>2
  <2> HIDE DEF c
  <2>4. c \in Picks(e)
    BY <2>3, <1>3
  <2>5. Matched(all[k], e, c)
    BY <2>1, <2>3, <1>1, SeenInCombination
  <2> QED
    BY <2>4, <2>5
<1>5. ASSUME NEW c \in Picks(e) PROVE \E k \in 1..Len(all) : Matched(all[k], e, c)
  <2> DEFINE w == [s \in Subjects |-> IF s \in DOMAIN e THEN c[s] ELSE 0]
  <2>1. \A s \in DOMAIN e : c[s] \in DOMAIN e[s] /\ c[s] \in Nat
    BY <1>2, <1>3
  <2>2. w \in [Subjects -> Nat] /\ \A s \in DOMAIN e : w[s] = c[s]
    BY <2>1, <1>1
  <2> HIDE DEF w
  <2>3. w \in Ways(e, Subjects)
    BY <2>1, <2>2 DEF Ways
  <2>4. PICK k \in 1..Len(all) : Combines(all[k], e, w, Subjects)
    BY <2>3, <1>1 DEF AllWays
  <2>5. Matched(all[k], e, c)
    BY <2>1, <2>2, <2>4, <1>1, SeenInCombination
  <2> QED
    BY <2>5
<1> QED
  BY <1>4, <1>5 DEF all

\* An answer that was skipped has no mass, and no row asks for none.
LEMMA NoMass ==
  ASSUME NEW reply, reply.mass = << >>, NEW options, Sequence(options)
  PROVE  Mass(reply, options) = 0
<1> DEFINE s == [o \in DOMAIN options |->
                   IF options[o] \in DOMAIN reply.mass THEN reply.mass[options[o]] ELSE 0]
           G == [k \in 0..Len(options) |-> 0]
<1>1. DOMAIN options = 1..Len(options) /\ Len(options) \in Nat
  BY Listing
<1>2. s = [o \in 1..Len(options) |-> 0]
  BY <1>1
<1>3. Mass(reply, options) = Sum(s)
  BY DEF Mass
<1> HIDE DEF s
<1>4. s \in Seq(Nat) /\ Len(s) = Len(options) /\ \A k \in 1..Len(options) : s[k] = 0
  BY <1>1, <1>2
<1>5. G[0] = 0 /\ G[Len(options)] = 0 /\ \A k \in 1..Len(s) : G[k] = G[k - 1] + s[k]
  BY <1>1, <1>4
<1> HIDE DEF G
<1>6. G[Len(s)] = Sum(s)
  BY <1>4, <1>5, SummedAs
<1> QED
  BY <1>3, <1>4, <1>5, <1>6

\* Whatever is skipped in the evidence has no mass.
Weightless(e) ==
  \A s \in DOMAIN e : \A i \in DOMAIN e[s] : \A q \in DOMAIN e[s][i].replies :
    e[s][i].replies[q].skipped # "none" => e[s][i].replies[q].mass = << >>

LEMMA SeenWeightless ==
  ASSUME NEW e, Weightless(e), NEW c \in Picks(e), NEW q, Seen(e, c, q).skipped # "none"
  PROVE  Seen(e, c, q).mass = << >>
<1> DEFINE at == {t \in DOMAIN e : q \in DOMAIN e[t][c[t]].replies}
           t0 == CHOOSE t \in at : TRUE
<1>1. Seen(e, c, q) = IF at = {} THEN NoReply ELSE e[t0][c[t0]].replies[q]
  BY DEF Seen
<1>2. CASE at = {}
  <2>1. NoReply.skipped = "none"
    BY DEF NoReply
  <2>2. Seen(e, c, q) = NoReply
    BY <1>1, <1>2
  <2> QED
    BY ONLY <2>1, <2>2, Seen(e, c, q).skipped # "none"
<1>3. CASE at # {}
  <2>1. t0 \in at
    BY <1>3
  <2> HIDE DEF t0
  <2>2. t0 \in DOMAIN e /\ c[t0] \in DOMAIN e[t0] /\ q \in DOMAIN e[t0][c[t0]].replies
    BY <2>1 DEF Picks
  <2>3. Seen(e, c, q) = e[t0][c[t0]].replies[q]
    BY <1>1, <1>3
  <2> QED
    BY <2>2, <2>3 DEF Weightless
<1> QED
  BY <1>2, <1>3

LEMMA MatchesHolds ==
  ASSUME NEW e, Weightless(e), NEW c \in Picks(e), NEW m, Matched(m, e, c),
         NEW row, \A q \in DOMAIN row : Sequence(row[q]), NEW bar \in Nat \ {0}
  PROVE  Matches(m, row, bar) <=> Holds(e, c, row, bar)
<1> DEFINE r(q) == Seen(e, c, q)
<1>1. \A q : Reply(m, q) = r(q)
  BY DEF Matched
<1>2. Holds(e, c, row, bar) <=>
        \A q \in DOMAIN row : r(q).skipped = "none" /\ Mass(r(q), row[q]) >= bar
  BY DEF Holds, Mass
<1>3. Matches(m, row, bar) <=> \A q \in DOMAIN row : Mass(r(q), row[q]) >= bar
  BY <1>1 DEF Matches
<1>4. ASSUME NEW q \in DOMAIN row, r(q).skipped # "none" PROVE ~(Mass(r(q), row[q]) >= bar)
  <2>1. r(q).mass = << >>
    BY <1>4, SeenWeightless
  <2>2. Mass(r(q), row[q]) = 0
    <3> HIDE DEF r
    <3> QED
      BY <2>1, NoMass
  <2> QED
    BY <2>2
<1> HIDE DEF r
<1> QED
  BY <1>2, <1>3, <1>4

LEMMA FirstSome ==
  ASSUME NEW e, Weightless(e), NEW c \in Picks(e), NEW m, Matched(m, e, c),
         NEW rows, \A i \in DOMAIN rows : \A q \in DOMAIN rows[i] : Sequence(rows[i][q]),
         NEW bar \in Nat \ {0}
  PROVE  First(m, rows, bar) # {} <=> Some(e, c, rows, bar)
<1> DEFINE hits == {i \in DOMAIN rows : Matches(m, rows[i], bar)}
<1>1. First(m, rows, bar) = IF hits = {} THEN {}
        ELSE {Weakest(m, rows[CHOOSE i \in hits : \A j \in hits : i <= j])}
  BY DEF First
<1>2. First(m, rows, bar) # {} <=> hits # {}
  <2> HIDE DEF hits
  <2> QED
    BY <1>1
<1>3. \A i \in DOMAIN rows : Matches(m, rows[i], bar) <=> Holds(e, c, rows[i], bar)
  BY MatchesHolds
<1> QED
  BY <1>2, <1>3 DEF Some

\* What docs/user/detection.md says of one pick, as WorstPlaceWins puts it.
Misfires(e, c, t, bars, lowering) == lowering /\ Some(e, c, t.misfire, bars.dismiss)

Confirms(e, c, t, bars, lowering) ==
  ~Misfires(e, c, t, bars, lowering) /\ Some(e, c, t.confirm, bars.confirm)

Levels(e, c, t, bars) == {s \in DOMAIN t.severity : Some(e, c, t.severity[s], bars.dismiss)}

\* combination.decide, as the rows of the table say it of the pick.
LEMMA DecidedPick ==
  ASSUME NEW e, Weightless(e), NEW c \in Picks(e), NEW m, Matched(m, e, c),
         NEW t, OptionLists(t), DOMAIN t.severity \subseteq Severities,
         NEW bars, bars.confirm \in Nat \ {0}, bars.dismiss \in Nat \ {0},
         NEW lowering \in BOOLEAN
  PROVE  LET o == DecideOne(m, t, bars, lowering) IN
         /\ OutcomeOK(o)
         /\ o.result = "misfired" <=> Misfires(e, c, t, bars, lowering)
         /\ o.result = "confirmed" <=> Confirms(e, c, t, bars, lowering)
         /\ o.result \in {"lowered", "dismissed"} => lowering
         /\ o.result = "lowered" => /\ Levels(e, c, t, bars) # {}
                                    /\ \A s \in Levels(e, c, t, bars) : s <= o.severity
         /\ o.result = "dismissed" => /\ Levels(e, c, t, bars) = {}
                                      /\ Some(e, c, t.dismiss, bars.dismiss)
<1> DEFINE o == DecideOne(m, t, bars, lowering)
           lists(rows) == \A i \in DOMAIN rows : \A q \in DOMAIN rows[i] : Sequence(rows[i][q])
<1>1. /\ lists(t.confirm) /\ lists(t.dismiss) /\ lists(t.misfire)
      /\ \A s \in DOMAIN t.severity : lists(t.severity[s])
  <2>1. \A kind, rows : Kinded(kind, rows) \subseteq Rows(t) => lists(rows)
    <3> SUFFICES ASSUME NEW kind, NEW rows, Kinded(kind, rows) \subseteq Rows(t),
                        NEW i \in DOMAIN rows
                 PROVE  \A q \in DOMAIN rows[i] : Sequence(rows[i][q])
      OBVIOUS
    <3> DEFINE a == [kind |-> kind, row |-> rows[i]]
    <3>1. a \in Rows(t) /\ a.row = rows[i]
      BY DEF Kinded
    <3> HIDE DEF a
    <3> QED
      BY <3>1 DEF OptionLists
  <2> HIDE DEF lists
  <2>2. /\ Kinded("confirm", t.confirm) \subseteq Rows(t)
        /\ Kinded("dismiss", t.dismiss) \subseteq Rows(t)
        /\ Kinded("misfire", t.misfire) \subseteq Rows(t)
        /\ \A s \in DOMAIN t.severity : Kinded("severity", t.severity[s]) \subseteq Rows(t)
    BY DEF Rows
  <2> QED
    BY <2>1, <2>2
<1>2. /\ First(m, t.misfire, bars.dismiss) # {} <=> Some(e, c, t.misfire, bars.dismiss)
      /\ First(m, t.confirm, bars.confirm) # {} <=> Some(e, c, t.confirm, bars.confirm)
      /\ First(m, t.dismiss, bars.dismiss) # {} <=> Some(e, c, t.dismiss, bars.dismiss)
  BY <1>1, FirstSome
<1>3. ASSUME NEW s \in DOMAIN t.severity
      PROVE  First(m, LevelRows(t, s), bars.dismiss) # {} <=> Some(e, c, t.severity[s], bars.dismiss)
  <2>1. LevelRows(t, s) = t.severity[s]
    BY DEF LevelRows
  <2> QED
    BY <2>1, <1>1, <1>3, FirstSome
<1>4. ASSUME NEW s, s \notin DOMAIN t.severity
      PROVE  First(m, LevelRows(t, s), bars.dismiss) = {}
  <2>1. LevelRows(t, s) = << >>
    BY <1>4 DEF LevelRows
  <2>2. DOMAIN LevelRows(t, s) = {}
    BY <2>1
  <2> QED
    BY <2>2 DEF First
<1>5. LevelsOf(m, t, bars) = Levels(e, c, t, bars)
  BY <1>3, <1>4 DEF LevelsOf, Levels
<1>6. /\ OutcomeOK(o)
      /\ o.result = "misfired" <=> lowering /\ First(m, t.misfire, bars.dismiss) # {}
      /\ o.result = "confirmed" <=> /\ ~(lowering /\ First(m, t.misfire, bars.dismiss) # {})
                                    /\ First(m, t.confirm, bars.confirm) # {}
      /\ o.result \in {"lowered", "dismissed"} => lowering
      /\ o.result = "lowered" => /\ LevelsOf(m, t, bars) # {}
                                 /\ \A s \in LevelsOf(m, t, bars) : s <= o.severity
      /\ o.result = "dismissed" => /\ LevelsOf(m, t, bars) = {}
                                   /\ First(m, t.dismiss, bars.dismiss) # {}
  BY DecidedOne
<1> HIDE DEF o
<1> QED
  BY <1>2, <1>5, <1>6 DEF Misfires, Confirms, o

Softens(e, c, t, bars, lowering, v) ==
  \/ Misfires(e, c, t, bars, lowering)
  \/ /\ ~Confirms(e, c, t, bars, lowering)
     /\ Levels(e, c, t, bars) # {} \/ Some(e, c, t.dismiss, bars.dismiss)
     /\ \A s \in Levels(e, c, t, bars) : v.state = "downgraded" /\ s <= v.severity

\* The worst outcome of the picks is what the engine judges by.
LEMMA WorstWins ==
  ASSUME NEW e, EvidenceOK(e), Apart(e), Weightless(e),
         NEW t, OptionLists(t), DOMAIN t.severity \subseteq Severities,
         NEW bars, bars.confirm \in Nat \ {0}, bars.dismiss \in Nat \ {0},
         NEW lowering \in BOOLEAN, NEW sev \in Severities, NEW floor \in Floors
  PROVE  LET v == EngineJudge(Decide(e, t, bars, lowering), sev, floor) IN
         /\ v.state = "confirmed" <=> \E c \in Picks(e) : Confirms(e, c, t, bars, lowering)
         /\ v.state \in {"downgraded", "dismissed"} =>
              lowering /\ \A c \in Picks(e) : Softens(e, c, t, bars, lowering, v)
         /\ v.state = "dismissed" =>
              floor = NoFloor \/ \A c \in Picks(e) : Misfires(e, c, t, bars, lowering)
<1> DEFINE all == Combinations(e)
           one(k) == DecideOne(all[k], t, bars, lowering)
           o == Decide(e, t, bars, lowering)
           v == EngineJudge(o, sev, floor)
<1>1. /\ \A k \in 1..Len(all) : \E c \in Picks(e) : Matched(all[k], e, c)
      /\ \A c \in Picks(e) : \E k \in 1..Len(all) : Matched(all[k], e, c)
  BY CombinationsArePicks
<1>2. /\ Len(all) \in Nat
      /\ Len(all) = 0 => o = Kept
      /\ Len(all) > 0 => /\ \E k \in 1..Len(all) : o = one(k)
                         /\ \A k \in 1..Len(all) : Rank(one(k)) <= Rank(o)
  <2>1. Sequence(all)
    BY CombinationsListed
  <2>2. Len(all) \in Nat
    BY <2>1, Listing
  <2> QED
    BY <2>1, <2>2, Decided
<1>3. ASSUME NEW k \in 1..Len(all), NEW c \in Picks(e), Matched(all[k], e, c)
      PROVE  /\ OutcomeOK(one(k))
             /\ one(k).result = "misfired" <=> Misfires(e, c, t, bars, lowering)
             /\ one(k).result = "confirmed" <=> Confirms(e, c, t, bars, lowering)
             /\ one(k).result \in {"lowered", "dismissed"} => lowering
             /\ one(k).result = "lowered" => /\ Levels(e, c, t, bars) # {}
                                             /\ \A s \in Levels(e, c, t, bars) : s <= one(k).severity
             /\ one(k).result = "dismissed" => /\ Levels(e, c, t, bars) = {}
                                               /\ Some(e, c, t.dismiss, bars.dismiss)
  <2>1. PICK m : m = all[k]
    OBVIOUS
  <2> HIDE DEF all
  <2> QED
    BY <2>1, <1>3, DecidedPick
<1> HIDE DEF all, one, o
<1>4. Kept.result = "kept" /\ OutcomeOK(Kept)
  BY DEF Kept, Outcome, OutcomeOK, Results
<1>5. CASE Len(all) = 0
  <2>1. o.result = "kept" /\ OutcomeOK(o)
    BY <1>2, <1>4, <1>5
  <2>2. v = NoVerdict
    BY <2>1, EngineJudges
  <2>3. v.state = "none"
    BY <2>2 DEF NoVerdict
  <2>4. Picks(e) = {}
    BY <1>1, <1>5
  <2> HIDE DEF v
  <2> QED
    BY <2>3, <2>4 DEF v, o
<1>6. CASE Len(all) > 0
  <2>1. PICK w \in 1..Len(all) : o = one(w)
    BY <1>2, <1>6
  <2>2. \A k \in 1..Len(all) : Rank(one(k)) <= Rank(one(w))
    BY <1>2, <1>6, <2>1
  <2>3. PICK p \in Picks(e) : Matched(all[w], e, p)
    BY <1>1
  <2>4. \A k \in 1..Len(all) : OutcomeOK(one(k))
    BY <1>1, <1>3
  <2>5. OutcomeOK(o)
    BY <2>1, <2>4
  <2>6. /\ o.result = "confirmed" <=> v.state = "confirmed"
        /\ o.result = "kept" => v.state = "none"
        /\ o.result = "misfired" => v.state = "dismissed"
        /\ o.result = "lowered" => v.state # "dismissed"
        /\ o.result = "lowered" /\ v.state = "downgraded" => o.severity <= v.severity
        /\ o.result = "dismissed" /\ v.state = "dismissed" => floor = NoFloor
        /\ v.state = "downgraded" => v.severity \in Severities
    BY <2>5, EngineJudges DEF NoVerdict
  <2> HIDE DEF v
  <2>7. o.result \in Results /\ (o.result = "lowered" => o.severity \in 1..4)
    BY <2>5 DEF OutcomeOK, Severities
  <2>8. \A k \in 1..Len(all) :
          /\ one(k).result \in Results
          /\ one(k).result = "lowered" => one(k).severity \in 1..4
          /\ Rank(one(k)) \in Nat
          /\ one(k).result = "misfired" => Rank(one(k)) = 0
          /\ one(k).result = "dismissed" => Rank(one(k)) = 1
          /\ one(k).result = "lowered" => Rank(one(k)) = 1 + one(k).severity
          /\ one(k).result = "kept" => Rank(one(k)) = 7
          /\ one(k).result = "confirmed" => Rank(one(k)) = 8
    BY <2>4, Ranks DEF OutcomeOK, Severities
  <2>9. v.state = "confirmed" <=> \E c \in Picks(e) : Confirms(e, c, t, bars, lowering)
    <3>1. v.state = "confirmed" => Confirms(e, p, t, bars, lowering)
      BY <2>1, <2>3, <2>6, <1>3
    <3>2. ASSUME NEW c \in Picks(e), Confirms(e, c, t, bars, lowering) PROVE v.state = "confirmed"
      <4>1. PICK k \in 1..Len(all) : Matched(all[k], e, c)
        BY <1>1
      <4>2. one(k).result = "confirmed"
        BY <4>1, <3>2, <1>3
      <4>3. 8 <= Rank(one(w))
        BY <4>2, <2>2, <2>8
      <4>4. one(w).result = "confirmed"
        BY <4>3, <2>8 DEF Results
      <4> QED
        BY <4>4, <2>1, <2>6
    <3> QED
      BY <3>1, <3>2
  <2>10. ASSUME v.state \in {"downgraded", "dismissed"}
         PROVE  lowering /\ \A c \in Picks(e) : Softens(e, c, t, bars, lowering, v)
    <3>1. one(w).result \in {"misfired", "lowered", "dismissed"}
      BY <2>1, <2>6, <2>7, <2>10 DEF Results
    <3>2. lowering
      BY <3>1, <2>3, <1>3 DEF Misfires
    <3>3. ASSUME NEW c \in Picks(e) PROVE Softens(e, c, t, bars, lowering, v)
      <4>1. PICK k \in 1..Len(all) : Matched(all[k], e, c)
        BY <1>1
      <4>2. Rank(one(k)) <= 5
        BY <3>1, <2>2, <2>8
      <4>3. one(k).result \in {"misfired", "lowered", "dismissed"}
        BY <4>2, <2>8 DEF Results
      <4>4. CASE one(k).result = "misfired"
        BY <4>1, <4>4, <1>3 DEF Softens
      <4>5. CASE one(k).result = "dismissed"
        <5>1. /\ ~Confirms(e, c, t, bars, lowering)
              /\ Levels(e, c, t, bars) = {} /\ Some(e, c, t.dismiss, bars.dismiss)
          BY <4>1, <4>5, <1>3
        <5> QED
          BY <5>1 DEF Softens
      <4>6. CASE one(k).result = "lowered"
        <5>1. /\ ~Confirms(e, c, t, bars, lowering)
              /\ Levels(e, c, t, bars) # {}
              /\ \A s \in Levels(e, c, t, bars) : s <= one(k).severity
          BY <4>1, <4>6, <1>3
        <5>2. one(w).result = "lowered" /\ one(k).severity <= one(w).severity
          BY <3>1, <4>6, <2>2, <2>8
        <5>3. v.state = "downgraded" /\ one(k).severity <= v.severity
          <6>1. v.state = "downgraded" /\ one(w).severity <= v.severity
            BY <5>2, <2>1, <2>6, <2>10
          <6>2. one(k).severity \in 1..4 /\ one(w).severity \in 1..4 /\ v.severity \in 1..4
            BY <6>1, <4>6, <5>2, <2>6, <2>8 DEF Severities
          <6> QED
            BY <6>1, <6>2, <5>2
        <5>4. Levels(e, c, t, bars) \subseteq 1..4
          BY DEF Levels, Severities
        <5>5. \A s \in Levels(e, c, t, bars) : s <= v.severity
          <6>1. one(k).severity \in 1..4 /\ v.severity \in 1..4
            BY <5>3, <4>6, <2>6, <2>8 DEF Severities
          <6> QED
            BY <6>1, <5>1, <5>3, <5>4
        <5> QED
          BY <5>1, <5>3, <5>5 DEF Softens
      <4> QED
        BY <4>3, <4>4, <4>5, <4>6
    <3> QED
      BY <3>2, <3>3
  <2>11. ASSUME v.state = "dismissed"
         PROVE  floor = NoFloor \/ \A c \in Picks(e) : Misfires(e, c, t, bars, lowering)
    <3>1. one(w).result \in {"misfired", "dismissed"}
      BY <2>1, <2>6, <2>7, <2>11 DEF Results
    <3>2. CASE one(w).result = "dismissed"
      BY <3>2, <2>1, <2>6, <2>11
    <3>3. CASE one(w).result = "misfired"
      <4>1. ASSUME NEW c \in Picks(e) PROVE Misfires(e, c, t, bars, lowering)
        <5>1. PICK k \in 1..Len(all) : Matched(all[k], e, c)
          BY <1>1
        <5>2. Rank(one(k)) <= 0
          BY <3>3, <2>2, <2>8
        <5>3. one(k).result = "misfired"
          BY <5>2, <2>8 DEF Results
        <5> QED
          BY <5>1, <5>3, <1>3
      <4> QED
        BY <4>1
    <3> QED
      BY <3>1, <3>2, <3>3
  <2> QED
    BY <2>9, <2>10, <2>11 DEF v, o
<1> QED
  BY <1>2, <1>5, <1>6

LEMMA OwnEvidenceIs ==
  ASSUME NEW f, NEW e, OwnEvidence(f, e)
  PROVE  Apart(e) /\ Weightless(e)
<1> DEFINE d == TableOf(RuleOf(f))
<1>1. ASSUME NEW s \in DOMAIN e, NEW i \in DOMAIN e[s]
      PROVE  InstanceOK(f, s, e[s][i])
  <2>1. InstancesOK(f, s, e[s])
    BY DEF OwnEvidence
  <2>2. i \in 1..Len(e[s])
    BY <2>1, Listing DEF InstancesOK
  <2> QED
    BY <2>1, <2>2 DEF InstancesOK
<1>2. ASSUME NEW s \in DOMAIN e, NEW i \in DOMAIN e[s]
      PROVE  DOMAIN e[s][i].replies = NamesOf(d, s)
  BY <1>1 DEF InstanceOK
<1>3. \A s, t : s # t => NamesOf(d, s) \cap NamesOf(d, t) = {}
  BY DEF NamesOf
<1> HIDE DEF d
<1>4. Apart(e)
  BY <1>2, <1>3 DEF Apart
<1>5. Weightless(e)
  BY <1>1 DEF Weightless, InstanceOK
<1> QED
  BY <1>4, <1>5

\* Whatever the model answers where, a finding takes the worst outcome of its places
\* (engine.go).
THEOREM WorstPlace == Spec => []WorstPlaceWins
<1>1. Inv /\ Evidenced => WorstPlaceWins
  <2> SUFFICES ASSUME Inv, Evidenced, NEW k \in JudgedHere, RuleOf(findings[k]).decision # {}
               PROVE
        LET f == findings[k]
            e == EvidenceOf(f)
            t == TableOf(RuleOf(f)).outcome
            misfired(c) == RuleOf(f).judge.downgrade /\ Some(e, c, t.misfire, case.bars.dismiss)
            confirmed(c) == ~misfired(c) /\ Some(e, c, t.confirm, case.bars.confirm)
            levels(c) == {s \in DOMAIN t.severity : Some(e, c, t.severity[s], case.bars.dismiss)}
            softened(c) ==
              \/ misfired(c)
              \/ /\ ~confirmed(c)
                 /\ levels(c) # {} \/ Some(e, c, t.dismiss, case.bars.dismiss)
                 /\ \A s \in levels(c) : f.state = "downgraded" /\ s <= f.severity
        IN  /\ (f.state = "confirmed") <=> \E c \in Picks(e) : confirmed(c)
            /\ f.state \in {"downgraded", "dismissed"} =>
                 RuleOf(f).judge.downgrade /\ \A c \in Picks(e) : softened(c)
            /\ f.state = "dismissed" =>
                 RuleOf(f).judge.floor = NoFloor \/ \A c \in Picks(e) : misfired(c)
    BY DEF WorstPlaceWins
  <2> DEFINE f == findings[k]
             e == EvidenceOf(f)
             r == RuleOf(f)
             t == TableOf(r).outcome
             bars == case.bars
             low == r.judge.downgrade
  <2>1. EvidenceOK(e) /\ OwnEvidence(f, e) /\ Ruled(f, e)
    BY JudgedIs DEF JudgedBy
  <2>2. Apart(e) /\ Weightless(e)
    <3> HIDE DEF e, f
    <3> QED
      BY <2>1, OwnEvidenceIs
  <2>3. SoundSet /\ f.rule \in DOMAIN set
    <3>1. k \in 1..Len(findings)
      BY Listing DEF Inv, Typed, FindingsOK, JudgedHere
    <3> QED
      BY <3>1 DEF Inv, Typed, FindingsOK, FindingOK
  <2>4. /\ OptionLists(t) /\ DOMAIN t.severity \subseteq Severities
    <3>1. SoundTable(TableOf(r))
      BY <2>3, TableIs
    <3> QED
      BY <3>1 DEF SoundTable
  <2>5. low \in BOOLEAN /\ r.judge.floor \in Floors
    BY <2>3 DEF SoundSet, Sound, RuleOf
  <2>6. bars.confirm \in Nat \ {0} /\ bars.dismiss \in Nat \ {0}
    <3>1. CaseOK(case)
      BY DecisionAssumption DEF Inv, Typed
    <3> QED
      BY <3>1 DEF CaseOK
  <2>7. PICK sev \in Severities :
          LET v == EngineJudge(Decide(e, t, bars, low), sev, r.judge.floor)
          IN  IF v = NoVerdict THEN f.state = "none" /\ f.severity = sev
              ELSE f.state = v.state /\ f.severity = v.severity
    BY <2>1 DEF Ruled
  <2> HIDE DEF e, f, r, t, bars, low
  <2> DEFINE v == EngineJudge(Decide(e, t, bars, low), sev, r.judge.floor)
  <2>8. /\ v.state = "confirmed" <=> \E c \in Picks(e) : Confirms(e, c, t, bars, low)
        /\ v.state \in {"downgraded", "dismissed"} =>
             low /\ \A c \in Picks(e) : Softens(e, c, t, bars, low, v)
        /\ v.state = "dismissed" =>
             r.judge.floor = NoFloor \/ \A c \in Picks(e) : Misfires(e, c, t, bars, low)
    BY <2>1, <2>2, <2>4, <2>5, <2>6, WorstWins
  <2>9. f.state = v.state /\ (v.state # "none" => f.severity = v.severity)
    BY <2>7 DEF NoVerdict
  <2> HIDE DEF v
  <2>10. /\ f.state = "confirmed" <=> \E c \in Picks(e) : Confirms(e, c, t, bars, low)
         /\ f.state \in {"downgraded", "dismissed"} =>
              low /\ \A c \in Picks(e) : Softens(e, c, t, bars, low, f)
         /\ f.state = "dismissed" =>
              r.judge.floor = NoFloor \/ \A c \in Picks(e) : Misfires(e, c, t, bars, low)
    <3>1. ASSUME f.state \in {"downgraded", "dismissed"}, NEW c \in Picks(e)
          PROVE  Softens(e, c, t, bars, low, f)
      <4>1. f.state = v.state /\ f.severity = v.severity
        BY <2>9, <3>1
      <4>2. Softens(e, c, t, bars, low, v)
        BY <2>8, <2>9, <3>1
      <4> QED
        BY <4>1, <4>2 DEF Softens
    <3> QED
      BY <2>8, <2>9, <3>1
  <2> QED
    BY <2>10 DEF Softens, Confirms, Misfires, Levels, e, f, r, t, bars, low
<1> QED
  BY <1>1, LayerInvariant, EvidenceWitnesses, PTL

-----------------------------------------------------------------------------
(* A use that means a rule is told.                                        *)

\* A finding at a place of the reference that tells of a use that means the rule.
Says(f, ref, id) == Tells(f, id) /\ \E l \in ToSet(ref.at) : Spot(f.at) = Spot(l)

Quiet(ref, j, id) ==
  \E c \in covers : c.rule = id /\ c.file = ref.at[j].file
                    /\ ref.at[j].line \in c.first..c.last

ToldIn(s, ref, j, id) ==
  NothingToTell(ref, j, id) \/ \E k \in 1..Len(s) : Says(s[k], ref, id)

UsagesTold(s) ==
  \A i \in DOMAIN skill.refs : \A j \in DOMAIN skill.refs[i].at :
    \A id \in Means(skill.refs[i], j) :
      Quiet(skill.refs[i], j, id) /\ ToldIn(s, skill.refs[i], j, id)

\* While the references are asked about, what is raised tells; then the findings do.
UsesTold ==
  /\ pc = "load" => usages = << >>
  /\ pc = "usages" => UsagesTold(raised)
  /\ pc \in {"findings", "done"} => UsagesTold(findings)

\* Of every finding of s there is one in t, of its rule and at its place.
KeptIn(s, t) ==
  \A k \in 1..Len(s) : \E m \in 1..Len(t) :
    t[m].rule = s[k].rule /\ Spot(t[m].at) = Spot(s[k].at)

Growing ==
  \A k \in DOMAIN findings :
    k \in DOMAIN findings' /\ findings'[k].rule = findings[k].rule
                           /\ findings'[k].at = findings[k].at

LEMMA SaysKept ==
  ASSUME NEW s, NEW t, KeptIn(s, t), NEW ref, NEW id, NEW k \in 1..Len(s), Says(s[k], ref, id)
  PROVE  \E m \in 1..Len(t) : Says(t[m], ref, id)
<1>1. PICK m \in 1..Len(t) : t[m].rule = s[k].rule /\ Spot(t[m].at) = Spot(s[k].at)
  BY DEF KeptIn
<1>2. Tells(t[m], id)
  BY <1>1 DEF Says, Tells
<1>3. \E l \in ToSet(ref.at) : Spot(t[m].at) = Spot(l)
  BY <1>1 DEF Says
<1> QED
  BY <1>2, <1>3 DEF Says

\* What need not be told before need not be told later.
LEMMA NothingStill ==
  ASSUME case' = case, set' = set, Growing, NEW ref, NEW j, NEW id, NothingToTell(ref, j, id)
  PROVE  NothingToTell(ref, j, id)'
<1>1. CASE Restated(id, ref.at[j])
  <2>1. PICK loc : loc = ref.at[j]
    OBVIOUS
  <2>2. PICK k \in DOMAIN findings :
          /\ findings[k].rule = case.twins[id] /\ findings[k].at.file = loc.file
          /\ loc.line \in findings[k].at.line..findings[k].at.end
    BY <1>1, <2>1 DEF Restated
  <2>3. /\ k \in DOMAIN findings' /\ findings'[k].rule = case.twins[id]
        /\ findings'[k].at.file = loc.file
        /\ loc.line \in findings'[k].at.line..findings'[k].at.end
    BY <2>2 DEF Growing
  <2>4. Restated(id, loc)'
    BY <2>3, <1>1, <2>1 DEF Restated
  <2> QED
    BY <2>1, <2>4 DEF NothingToTell
<1>2. CASE id = UsageRules["tool-server"] /\ ref.kind \notin {"domain", "address"}
  BY <1>2 DEF NothingToTell
<1> QED
  BY <1>1, <1>2 DEF NothingToTell

LEMMA ToldStill ==
  ASSUME case' = case, set' = set, usages' = usages, covers \subseteq covers', Growing,
         NEW s, UsagesTold(s), NEW t, KeptIn(s, t)
  PROVE  UsagesTold(t)'
<1>1. skill' = skill
  BY DEF skill
<1>2. ASSUME NEW i \in DOMAIN skill.refs, NEW j \in DOMAIN skill.refs[i].at,
             NEW id \in Means(skill.refs[i], j)'
      PROVE  Quiet(skill.refs[i], j, id)' /\ ToldIn(t, skill.refs[i], j, id)'
  <2>1. PICK ref : ref = skill.refs[i]
    OBVIOUS
  <2>2. id \in Means(ref, j)'
    BY <2>1, <1>1
  <2>3. id \in Means(ref, j)
    BY <2>2 DEF Means, On
  <2>4. Quiet(ref, j, id) /\ ToldIn(s, ref, j, id)
    BY <2>1, <2>3 DEF UsagesTold
  <2>5. Quiet(ref, j, id)'
    BY <2>4 DEF Quiet
  <2>6. ToldIn(t, ref, j, id)'
    BY <2>4, NothingStill, SaysKept DEF ToldIn
  <2> QED
    BY <2>1, <2>5, <2>6, <1>1
<1> QED
  BY <1>1, <1>2 DEF UsagesTold

\* Who serves the tools is told of the reference that serves them.
LEMMA ServerSays ==
  ASSUME NEW ref, NEW answers, Sequence(ref.at), Sequence(answers), Len(answers) = Len(ref.at),
         Server(ref, answers) # << >>
  PROVE  /\ 1 \in 1..Len(Server(ref, answers))
         /\ Says(Server(ref, answers)[1], ref, UsageRules["tool-server"])
<1> DEFINE at == SelectInSeq(answers, LAMBDA a : a.choice = "tool-server" /\ Sure(a))
           I == {i \in 1..Len(answers) : answers[i].choice = "tool-server" /\ Sure(answers[i])}
           one == Raised(Untrusted, ref.at[at], ref, {})
<1>1. at = IF I # {} THEN Min(I) ELSE 0
  BY DEF SelectInSeq
<1>2. Server(ref, answers) = IF ~On(Untrusted) \/ at = 0 \/ Facts(ref) = {} THEN << >> ELSE <<one>>
  BY DEF Server
<1>3. Len(answers) \in Nat /\ I \in SUBSET (1..Len(answers))
  BY Listing
<1> HIDE DEF at, I
<1>4. Server(ref, answers) = <<one>> /\ at # 0
  BY <1>2
<1>5. at \in 1..Len(answers)
  BY <1>1, <1>3, <1>4, LeastOf
<1>6. ref.at[at] \in ToSet(ref.at)
  BY <1>5, Listing
<1>7. one.rule = Untrusted /\ one.at = ref.at[at]
  BY DEF Raised
<1> HIDE DEF one
<1>8. Says(one, ref, UsageRules["tool-server"])
  BY <1>6, <1>7 DEF Says, Tells
<1>9. Len(<<one>>) = 1 /\ <<one>>[1] = one
  OBVIOUS
<1> QED
  BY <1>4, <1>8, <1>9

\* A use that means a rule is raised at the first place where that is not silent.
LEMMA RaisedSays ==
  ASSUME NEW ref, NEW answers, NEW found, Sequence(ref.at), NEW j \in DOMAIN ref.at,
         RaiseAt(ref, answers, j), ~Silent(ref, UsageRules[answers[j].choice], ref.at[j], found)
  PROVE  \E k \in 1..Len(RaisedBy(ref, answers, found)) :
           Says(RaisedBy(ref, answers, found)[k], ref, UsageRules[answers[j].choice])
<1> DEFINE id(i) == UsageRules[answers[i].choice]
           told(i) == RaiseAt(ref, answers, i) /\ ~Silent(ref, id(i), ref.at[i], found)
           I == {i \in DOMAIN ref.at : told(i) /\ \A k \in 1..(i - 1) : told(k) => id(k) # id(i)}
           firsts == Picked(Positions(ref.at), I)
           how(i) == IF set[id(i)].decision # {} THEN {}
                     ELSE {[places |-> <<[label |-> i, replies |->
                                            [n \in {Usage} |-> answers[i].reply]]>>]}
           one(k) == Raised(id(firsts[k]), ref.at[firsts[k]], ref, how(firsts[k]))
           t == RaisedBy(ref, answers, found)
           S == {i \in 1..Len(ref.at) : told(i) /\ id(i) = id(j)}
           m == Min(S)
<1>1. t = [k \in DOMAIN firsts |-> one(k)]
  BY DEF RaisedBy
<1>2. told(j)
  OBVIOUS
<1>3. Len(ref.at) \in Nat /\ DOMAIN ref.at = 1..Len(ref.at) /\ I \in SUBSET (1..Len(ref.at))
  BY Listing
<1>4. \A k : one(k).rule = id(firsts[k]) /\ one(k).at = ref.at[firsts[k]]
  BY DEF Raised
<1> HIDE DEF id, how, told, t, one
<1>5. S \in SUBSET (1..Len(ref.at)) /\ j \in S
  BY <1>2, <1>3
<1>6. m \in S /\ \A i \in S : m <= i
  BY <1>3, <1>5, LeastOf
<1> HIDE DEF m
<1>7. m \in 1..Len(ref.at) /\ told(m) /\ id(m) = id(j)
  BY <1>6
<1>8. \A k \in 1..(m - 1) : k \in 1..Len(ref.at) /\ ~(m <= k)
  BY <1>3, <1>7
<1>9. \A k \in 1..(m - 1) : told(k) => id(k) # id(m)
  BY <1>6, <1>7, <1>8
<1>10. m \in I
  BY <1>3, <1>7, <1>9
<1> HIDE DEF I, S
<1>11. firsts \in Seq(I) /\ \E k \in 1..Len(firsts) : firsts[k] = m
  <2>1. /\ firsts \in Seq(I)
        /\ \A i \in I : \E k \in 1..Len(firsts) : firsts[k] = i
    BY <1>3, PickedPositions
  <2> HIDE DEF firsts
  <2> QED
    BY <2>1, <1>10
<1> HIDE DEF firsts
<1>12. PICK k \in 1..Len(firsts) : firsts[k] = m
  BY <1>11
<1>13. Len(firsts) \in Nat /\ DOMAIN firsts = 1..Len(firsts)
  BY <1>11, ListingOf
<1>14. t = [i \in 1..Len(firsts) |-> t[i]] /\ \A i \in 1..Len(firsts) : t[i] = one(i)
  BY <1>1, <1>13
<1>15. Len(t) = Len(firsts)
  BY <1>13, <1>14, Indexed
<1>16. k \in 1..Len(t) /\ t[k].rule = id(j) /\ t[k].at = ref.at[m]
  BY <1>4, <1>7, <1>12, <1>14, <1>15
<1>17. ref.at[m] \in ToSet(ref.at)
  BY <1>7, Listing
<1>18. Says(t[k], ref, id(j))
  BY <1>16, <1>17 DEF Says, Tells
<1> QED
  BY <1>16, <1>18 DEF t, id

\* The findings a reference raises tell every rule its uses mean.
LEMMA AllSaid ==
  ASSUME NEW ref, NEW answers, Sequence(ref.at), Sequence(answers), Len(answers) = Len(ref.at),
         NEW j \in DOMAIN ref.at, RaiseAt(ref, answers, j), NEW s
  PROVE  LET server == Server(ref, answers)
             told == RaisedBy(ref, answers, server # << >>)
             id == UsageRules[answers[j].choice]
         IN  \/ NothingToTell(ref, j, id)
             \/ \E k \in 1..Len(told) : Says(told[k], ref, id)
             \/ \E k \in 1..Len(server) : Says(server[k], ref, id)
<1> DEFINE server == Server(ref, answers)
           told == RaisedBy(ref, answers, server # << >>)
           id == UsageRules[answers[j].choice]
<1>1. CASE ~Silent(ref, id, ref.at[j], server # << >>)
  BY <1>1, RaisedSays
<1>2. CASE Restated(id, ref.at[j])
  BY <1>2 DEF NothingToTell
<1>3. CASE id = UsageRules["tool-server"] /\ ref.kind \notin {"domain", "address"}
  BY <1>3 DEF NothingToTell
<1>4. CASE id = UsageRules["tool-server"] /\ server # << >>
  BY <1>4, ServerSays
<1> QED
  BY <1>1, <1>2, <1>3, <1>4 DEF Silent

LEMMA BlockHolds ==
  ASSUME case \in Cases, NEW loc, loc.line \in Nat
  PROVE  loc.line \in Block(loc)[1]..Block(loc)[2]
<1>1. CASE Frame(loc)
  <2>1. loc.file \in DOMAIN skill.lines /\ loc.line \in 1..skill.lines[loc.file]
    BY <1>1 DEF Frame
  <2>2. SkillOK(skill)
    BY DecisionAssumption DEF CaseOK, skill
  <2>3. loc.line \in skill.block[<<loc.file, loc.line>>][1]..skill.block[<<loc.file, loc.line>>][2]
    BY <2>1, <2>2 DEF SkillOK
  <2> QED
    BY <2>3, <1>1 DEF Block, Spot
<1>2. CASE ~Frame(loc)
  BY <1>2 DEF Block
<1> QED
  BY <1>1, <1>2

\* A use that means a rule covers its block.
LEMMA CoversPlace ==
  ASSUME case \in Cases, NEW ref, NEW answers, NEW j \in DOMAIN ref.at, ref.at[j].line \in Nat,
         RaiseAt(ref, answers, j)
  PROVE  \E c \in CoveredBy(ref, answers) :
           /\ c.rule = UsageRules[answers[j].choice] /\ c.file = ref.at[j].file
           /\ ref.at[j].line \in c.first..c.last
<1> DEFINE c == [rule |-> UsageRules[answers[j].choice], file |-> ref.at[j].file,
                 first |-> Block(ref.at[j])[1], last |-> Block(ref.at[j])[2]]
<1>1. c \in CoveredBy(ref, answers)
  BY DEF CoveredBy
<1>2. ref.at[j].line \in Block(ref.at[j])[1]..Block(ref.at[j])[2]
  BY BlockHolds
<1> QED
  BY <1>1, <1>2

\* What the usages of a reference that is through mean is what its answers mean.
LEMMA MeantBy ==
  ASSUME set' = set, NEW ref, NEW answers, DOMAIN answers = DOMAIN ref.at,
         usages' = Put(usages, ref.value, [j \in DOMAIN answers |->
                      IF answers[j].choice # "unknown" /\ Sure(answers[j])
                      THEN answers[j].choice ELSE "none"]),
         NEW j \in DOMAIN ref.at, NEW id \in Means(ref, j)'
  PROVE  RaiseAt(ref, answers, j) /\ id = UsageRules[answers[j].choice]
<1> DEFINE u == [i \in DOMAIN answers |->
                   IF answers[i].choice # "unknown" /\ Sure(answers[i])
                   THEN answers[i].choice ELSE "none"]
<1>1. usages' = Put(usages, ref.value, u)
  OBVIOUS
<1>2. u[j] = IF answers[j].choice # "unknown" /\ Sure(answers[j])
             THEN answers[j].choice ELSE "none"
  OBVIOUS
<1> HIDE DEF u
<1>3. usages'[ref.value] = u
  BY <1>1 DEF Put
<1>4. /\ usages'[ref.value][j] \in DOMAIN UsageRules
      /\ id = UsageRules[usages'[ref.value][j]]
      /\ id \in DOMAIN set' /\ set'[id].enabled
  BY DEF Means, On
<1>5. u[j] \in DOMAIN UsageRules /\ id = UsageRules[u[j]] /\ On(id)
  BY <1>3, <1>4 DEF On
<1>6. "none" \notin DOMAIN UsageRules
  BY DEF UsageRules
<1>7. u[j] = answers[j].choice /\ Sure(answers[j])
  BY <1>2, <1>5, <1>6
<1> QED
  BY <1>5, <1>7 DEF RaiseAt

\* Another value means what it meant.
LEMMA MeansStill ==
  ASSUME set' = set, NEW ref, NEW v, NEW u, usages' = Put(usages, v, u), v # ref.value,
         NEW j, NEW id \in Means(ref, j)'
  PROVE  id \in Means(ref, j)
<1>1. ref.value \in DOMAIN usages' => ref.value \in DOMAIN usages
                                      /\ usages'[ref.value] = usages[ref.value]
  BY DEF Put
<1> QED
  BY <1>1 DEF Means, On

\* What one conclusion adds to what is raised and covered.
LEMMA JoinedTells ==
  ASSUME NEW a, NEW b, NEW c, Sequence(a), Sequence(b), Sequence(c)
  PROVE  /\ Within(a, (a \o b) \o c) /\ Within(b, (a \o b) \o c)
         /\ Within(c, (a \o b) \o c)
<1> DEFINE s == a \o b
           t == s \o c
<1>1. /\ Sequence(s) /\ Len(s) = Len(a) + Len(b)
      /\ \A i \in 1..Len(a) : s[i] = a[i]
      /\ \A i \in 1..Len(b) : s[Len(a) + i] = b[i]
  BY Joining
<1> HIDE DEF s
<1>2. /\ Sequence(t) /\ Len(t) = Len(s) + Len(c)
      /\ \A i \in 1..Len(s) : t[i] = s[i]
      /\ \A i \in 1..Len(c) : t[Len(s) + i] = c[i]
  BY ONLY <1>1, Sequence(c), Joining
<1> HIDE DEF t
<1>3. Len(a) \in Nat /\ Len(b) \in Nat /\ Len(c) \in Nat /\ Len(s) \in Nat
  BY <1>1, Listing
<1>4. ASSUME NEW k \in 1..Len(a) PROVE k \in 1..Len(t) /\ t[k] = a[k]
  BY <1>1, <1>2, <1>3
<1>5. ASSUME NEW k \in 1..Len(b) PROVE Len(a) + k \in 1..Len(t) /\ t[Len(a) + k] = b[k]
  BY <1>1, <1>2, <1>3
<1>6. ASSUME NEW k \in 1..Len(c) PROVE Len(s) + k \in 1..Len(t) /\ t[Len(s) + k] = c[k]
  BY <1>2, <1>3
<1>7. Within(a, t) /\ Within(b, t) /\ Within(c, t)
  BY ONLY <1>4, <1>5, <1>6 DEF Within
<1> QED
  BY <1>7 DEF t, s

LEMMA ClassifiedAlong ==
  ASSUME NEW ref, NEW g, Sequence(ref.at)
  PROVE  /\ Sequence(Classify(ref, g)) /\ Len(Classify(ref, g)) = Len(ref.at)
         /\ DOMAIN Classify(ref, g) = DOMAIN ref.at
<1> DEFINE answers == Classify(ref, g)
<1>1. Len(ref.at) \in Nat /\ DOMAIN ref.at = 1..Len(ref.at)
  BY Listing
<1>2. answers = [j \in DOMAIN ref.at |-> answers[j]]
  BY DEF Classify
<1> HIDE DEF answers
<1>3. answers = [j \in 1..Len(ref.at) |-> answers[j]]
  BY <1>1, <1>2
<1>4. Sequence(answers) /\ Len(answers) = Len(ref.at) /\ DOMAIN answers = 1..Len(ref.at)
  BY <1>1, <1>3, Indexed
<1> QED
  BY <1>1, <1>4 DEF answers

LEMMA ReferenceSays ==
  ASSUME Inv, UsesTold, ConcludeReference
  PROVE  UsesTold'
<1>1. PICK ref : ref = skill.refs[turn]
  OBVIOUS
<1>2. PICK answers : answers = Classify(ref, WithReplies(The(group)))
  OBVIOUS
<1>3. PICK server : server = Server(ref, answers)
  OBVIOUS
<1>4. PICK told : told = RaisedBy(ref, answers, server # << >>)
  OBVIOUS
<1>5. PICK old : old = raised
  OBVIOUS
<1>6. PICK new : new = raised'
  OBVIOUS
<1>7. /\ pc = "usages" /\ pc' = "usages" /\ case' = case /\ set' = set /\ findings' = findings
      /\ IF ~Categorized(ref) THEN UNCHANGED <<raised, usages, covers>>
         ELSE /\ raised' = raised \o told \o server
              /\ covers' = covers \cup CoveredBy(ref, answers)
              /\ usages' = Put(usages, ref.value, [j \in DOMAIN answers |->
                   IF answers[j].choice # "unknown" /\ Sure(answers[j])
                   THEN answers[j].choice ELSE "none"])
  BY <1>1, <1>2, <1>3, <1>4 DEF ConcludeReference
<1>8. /\ case \in Cases /\ SoundSet /\ RaisedAll(old) /\ turn \in Nat \ {0}
      /\ turn <= Len(skill.refs) /\ UsagesTold(old)
  BY <1>5, <1>7 DEF Inv, Typed, RaisedOK, Turned, AtReference, UsesTold,
     ConcludeReference, Answered
<1>9. SkillOK(skill) /\ skill' = skill /\ Growing
  BY <1>7, <1>8, DecisionAssumption DEF CaseOK, skill, Growing
<1>10. turn \in DOMAIN skill.refs
  BY <1>8, <1>9, Listing DEF SkillOK
<1>11. /\ Sequence(ref.at) /\ \A l \in ToSet(ref.at) : l.line \in Nat
       /\ \A i \in DOMAIN skill.refs : skill.refs[i].value = ref.value => i = turn
  BY <1>1, <1>9, <1>10 DEF SkillOK
<1>12. CASE ~Categorized(ref)
  <2>1. KeptIn(old, new)
    BY <1>5, <1>6, <1>7, <1>12 DEF KeptIn
  <2>2. UsagesTold(new)'
    BY <2>1, <1>7, <1>8, <1>9, <1>12, ToldStill
  <2> QED
    BY <2>2, <1>6, <1>7 DEF UsesTold
<1>13. CASE Categorized(ref)
  <2>1. /\ Sequence(answers) /\ Len(answers) = Len(ref.at) /\ DOMAIN answers = DOMAIN ref.at
    BY <1>2, <1>11, ClassifiedAlong
  <2>2. Sequence(old) /\ Sequence(told) /\ Sequence(server)
    BY <1>3, <1>4, <1>8, <1>11, RaisedByIs, ServerIs DEF RaisedAll
  <2>3. new = (old \o told) \o server
    BY <1>5, <1>6, <1>7, <1>13
  <2>4. Within(old, new) /\ Within(told, new) /\ Within(server, new)
    BY ONLY <2>2, <2>3, JoinedTells
  <2>5. covers' = covers \cup CoveredBy(ref, answers)
    BY <1>7, <1>13
  <2>6. KeptIn(old, new)
    BY <2>4 DEF KeptIn, Within
  <2>7. PICK u : u = [j \in DOMAIN answers |->
                        IF answers[j].choice # "unknown" /\ Sure(answers[j])
                        THEN answers[j].choice ELSE "none"]
    OBVIOUS
  <2>8. usages' = Put(usages, ref.value, u)
    BY <2>7, <1>7, <1>13
  <2>9. ASSUME NEW j \in DOMAIN ref.at, NEW id \in Means(ref, j)'
        PROVE  Quiet(ref, j, id)' /\ ToldIn(new, ref, j, id)'
    <3>1. usages' = Put(usages, ref.value, [i \in DOMAIN answers |->
                          IF answers[i].choice # "unknown" /\ Sure(answers[i])
                          THEN answers[i].choice ELSE "none"])
      BY <1>7, <1>13
    <3>2. RaiseAt(ref, answers, j) /\ id = UsageRules[answers[j].choice]
      BY <3>1, <2>1, <1>7, MeantBy
    <3>3. ref.at[j].line \in Nat
      BY <1>11 DEF ToSet
    <3>4. \E c \in CoveredBy(ref, answers) :
            c.rule = id /\ c.file = ref.at[j].file /\ ref.at[j].line \in c.first..c.last
      BY <3>2, <3>3, <1>8, CoversPlace
    <3>5. Quiet(ref, j, id)'
      BY <3>4, <2>5 DEF Quiet
    <3>6. \/ NothingToTell(ref, j, id)
          \/ \E k \in 1..Len(told) : Says(told[k], ref, id)
          \/ \E k \in 1..Len(server) : Says(server[k], ref, id)
      BY <3>2, <2>1, <1>3, <1>4, <1>11, AllSaid
    <3>7. ToldIn(new, ref, j, id)'
      BY <3>6, <2>4, <1>7, <1>9, NothingStill DEF ToldIn, Within
    <3> QED
      BY <3>5, <3>7
  <2>10. ASSUME NEW other, ref.value # other.value, NEW j, NEW id \in Means(other, j)',
                Quiet(other, j, id) /\ ToldIn(old, other, j, id)
         PROVE  Quiet(other, j, id)' /\ ToldIn(new, other, j, id)'
    <3>1. Quiet(other, j, id)'
      BY <2>5, <2>10 DEF Quiet
    <3>2. ToldIn(new, other, j, id)'
      BY <2>6, <2>10, <1>7, <1>9, NothingStill, SaysKept DEF ToldIn
    <3> QED
      BY <3>1, <3>2
  <2>11. ASSUME NEW i \in DOMAIN skill.refs, NEW j \in DOMAIN skill.refs[i].at,
                NEW id \in Means(skill.refs[i], j)'
         PROVE  Quiet(skill.refs[i], j, id)' /\ ToldIn(new, skill.refs[i], j, id)'
    <3>1. PICK other : other = skill.refs[i]
      OBVIOUS
    <3>2. j \in DOMAIN other.at /\ id \in Means(other, j)'
      BY <3>1, <1>9
    <3>3. CASE i = turn
      <4>1. other = ref
        BY <3>1, <3>3, <1>1
      <4>2. Quiet(other, j, id)' /\ ToldIn(new, other, j, id)'
        BY <3>2, <4>1, <2>9
      <4> QED
        BY <4>2, <3>1, <1>9
    <3>4. CASE i # turn
      <4>1. ref.value # other.value
        BY <3>1, <3>4, <1>11
      <4>2. id \in Means(other, j)
        BY <3>2, <4>1, <2>8, <1>7, MeansStill
      <4>3. Quiet(other, j, id) /\ ToldIn(old, other, j, id)
        BY <4>2, <3>1, <1>8 DEF UsagesTold
      <4>4. Quiet(other, j, id)' /\ ToldIn(new, other, j, id)'
        BY <4>1, <4>3, <3>2, <2>10
      <4> QED
        BY <4>4, <3>1, <1>9
    <3> QED
      BY <3>3, <3>4
  <2>12. UsagesTold(new)'
    BY <2>11, <1>9 DEF UsagesTold
  <2> QED
    BY <2>12, <1>6, <1>7 DEF UsesTold
<1> QED
  BY <1>12, <1>13

\* Of the findings of one key the first is kept.
LEMMA DedupKeeps ==
  ASSUME NEW s, Sequence(s)
  PROVE  Sequence(Dedup(s)) /\ KeptIn(s, Dedup(s))
<1> DEFINE I == {k \in DOMAIN s : \A j \in 1..(k - 1) : Key(s[j]) # Key(s[k])}
           t == Dedup(s)
<1>1. Len(s) \in Nat /\ DOMAIN s = 1..Len(s) /\ I \in SUBSET (1..Len(s))
  BY Listing
<1>2. t = Picked(s, I)
  BY DEF Dedup
<1>3. ASSUME NEW k \in 1..Len(s) PROVE \E m \in I : Key(s[m]) = Key(s[k])
  <2> DEFINE S == {j \in 1..Len(s) : Key(s[j]) = Key(s[k])}
             m == Min(S)
  <2>1. S \in SUBSET (1..Len(s)) /\ k \in S
    OBVIOUS
  <2>2. m \in S /\ \A j \in S : m <= j
    BY <1>1, <2>1, LeastOf
  <2> HIDE DEF m
  <2>3. m \in 1..Len(s) /\ Key(s[m]) = Key(s[k])
    BY <2>2
  <2>4. \A j \in 1..(m - 1) : j \in 1..Len(s) /\ ~(m <= j)
    BY <1>1, <2>3
  <2>5. \A j \in 1..(m - 1) : Key(s[j]) # Key(s[m])
    BY <2>2, <2>3, <2>4
  <2>6. m \in I
    BY <1>1, <2>3, <2>5
  <2> QED
    BY <2>3, <2>6
<1> HIDE DEF t, I
<1>4. /\ Sequence(t)
      /\ \A k \in I : \E j \in 1..Len(t) : t[j] = s[k]
  BY <1>1, <1>2, PickedOf
<1>5. ASSUME NEW k \in 1..Len(s)
      PROVE  \E m \in 1..Len(t) : t[m].rule = s[k].rule /\ Spot(t[m].at) = Spot(s[k].at)
  <2>1. PICK i \in I : Key(s[i]) = Key(s[k])
    BY <1>3
  <2>2. PICK m \in 1..Len(t) : t[m] = s[i]
    BY <1>4
  <2>3. Key(t[m]) = Key(s[k])
    BY <2>1, <2>2
  <2> QED
    BY <2>3 DEF Key, Spot
<1> QED
  BY <1>4, <1>5 DEF KeptIn, t

LEMMA UsagesDoneSays ==
  ASSUME Inv, UsesTold, UsagesDone
  PROVE  UsesTold'
<1>1. PICK old : old = raised
  OBVIOUS
<1>2. PICK before : before = findings
  OBVIOUS
<1>3. PICK more : more = Dedup(old)
  OBVIOUS
<1>4. PICK new : new = findings'
  OBVIOUS
<1>5. /\ pc = "usages" /\ pc' = "findings" /\ case' = case /\ set' = set /\ usages' = usages
      /\ covers' = covers /\ new = before \o more
  BY <1>1, <1>2, <1>3, <1>4 DEF UsagesDone, memory
<1>6. Sequence(old) /\ Sequence(before) /\ UsagesTold(old)
  BY <1>1, <1>2, <1>5 DEF Inv, Typed, FindingsOK, RaisedOK, RaisedAll, UsesTold
<1>7. Sequence(more) /\ KeptIn(old, more)
  BY <1>3, <1>6, DedupKeeps
<1>8. /\ Sequence(before \o more) /\ Len(before \o more) = Len(before) + Len(more)
      /\ \A i \in 1..Len(before) : (before \o more)[i] = before[i]
      /\ \A j \in 1..Len(more) : (before \o more)[Len(before) + j] = more[j]
  BY ONLY <1>6, <1>7, Joining
<1>9. /\ Sequence(new) /\ Len(new) = Len(before) + Len(more)
      /\ \A i \in 1..Len(before) : new[i] = before[i]
      /\ \A j \in 1..Len(more) : new[Len(before) + j] = more[j]
  BY ONLY <1>5, <1>8
<1>10. /\ Len(before) \in Nat /\ DOMAIN before = 1..Len(before) /\ Len(more) \in Nat
       /\ Len(new) \in Nat /\ DOMAIN new = 1..Len(new)
  BY <1>6, <1>7, <1>9, Listing
<1>11. Growing
  <2>1. \A k \in DOMAIN before : k \in DOMAIN new /\ new[k] = before[k]
    BY <1>9, <1>10
  <2> QED
    BY <2>1, <1>2, <1>4 DEF Growing
<1>12. KeptIn(old, new)
  <2>1. ASSUME NEW j \in 1..Len(more) PROVE Len(before) + j \in 1..Len(new)
    BY <1>9, <1>10
  <2>2. \A j \in 1..Len(more) : \E m \in 1..Len(new) : new[m] = more[j]
    BY <2>1, <1>9
  <2> QED
    BY <2>2, <1>7 DEF KeptIn
<1>13. UsagesTold(new)'
  BY <1>5, <1>6, <1>11, <1>12, ToldStill
<1> QED
  BY <1>4, <1>5, <1>13 DEF UsesTold

LEMMA FindingSays ==
  ASSUME Inv, UsesTold, ConcludeFinding
  PROVE  UsesTold'
<1> DEFINE f == findings[turn]
           j == Judge(f, Evidence(f))
<1>1. /\ pc = "findings" /\ pc' = "findings" /\ UNCHANGED <<case, set, usages, covers>>
      /\ findings' = [findings EXCEPT ![turn] = j]
  BY DEF ConcludeFinding
<1>2. /\ turn \in DOMAIN findings /\ DOMAIN findings = 1..Len(findings)
      /\ j.rule = f.rule /\ j.at = f.at
  <2>1. /\ turn \in DOMAIN findings /\ DOMAIN findings = 1..Len(findings)
        /\ FindingOK(f) /\ RuleOf(f).decision # {} /\ EvidenceOK(Evidence(f)) /\ SoundSet
    BY Concludes DEF Inv, Typed
  <2>2. PICK e : e = Evidence(f)
    OBVIOUS
  <2>3. Judge(f, e).rule = f.rule /\ Judge(f, e).at = f.at
    <3> HIDE DEF f, j
    <3> QED
      BY <2>1, <2>2, Judges
  <2> QED
    BY <2>1, <2>2, <2>3
<1> HIDE DEF j
<1>3. /\ DOMAIN findings' = DOMAIN findings
      /\ \A k \in DOMAIN findings : findings'[k].rule = findings[k].rule
                                    /\ findings'[k].at = findings[k].at
  BY <1>1, <1>2
<1>4. Growing
  BY <1>3 DEF Growing
<1>5. Sequence(findings) /\ Sequence(findings')
  BY ConcludeFindingKeeps DEF Inv, Typed, FindingsOK
<1>6. PICK old : old = findings
  OBVIOUS
<1>7. PICK new : new = findings'
  OBVIOUS
<1>8. DOMAIN old = 1..Len(old) /\ DOMAIN new = 1..Len(new) /\ DOMAIN new = DOMAIN old
  BY <1>3, <1>5, <1>6, <1>7, Listing
<1>9. \A k \in 1..Len(old) : k \in 1..Len(new) /\ new[k].rule = old[k].rule
                             /\ new[k].at = old[k].at
  BY <1>3, <1>6, <1>7, <1>8
<1>10. KeptIn(old, new)
  BY <1>9 DEF KeptIn
<1>11. UsagesTold(old)
  BY <1>1, <1>6 DEF UsesTold
<1>12. UsagesTold(new)'
  BY <1>1, <1>4, <1>10, <1>11, ToldStill
<1> QED
  BY <1>1, <1>7, <1>12 DEF UsesTold

\* Before there are usages nothing has to be told.
LEMMA LoadSays ==
  ASSUME UsesTold, LoadRules
  PROVE  UsesTold'
<1>1. usages' = << >> /\ pc' \in {"usages", "findings", "refused"}
  BY DEF LoadRules, memory, UsesTold
<1>2. DOMAIN usages' = {}
  BY <1>1
<1>3. UsagesTold(raised)' /\ UsagesTold(findings)'
  BY <1>2 DEF UsagesTold, Means
<1> QED
  BY <1>1, <1>3 DEF UsesTold

\* A step that leaves what is raised, covered and found alone, or only ends the layer.
LEMMA StillSays ==
  ASSUME UsesTold, UNCHANGED <<case, set, memory, findings>>,
         pc' = pc \/ (pc = "findings" /\ pc' = "done")
  PROVE  UsesTold'
<1>1. /\ case' = case /\ set' = set /\ usages' = usages /\ covers' = covers
      /\ raised' = raised /\ findings' = findings
  BY DEF memory
<1>2. Growing
  BY <1>1 DEF Growing
<1>3. \A s : KeptIn(s, s)
  BY DEF KeptIn
<1>4. ASSUME NEW s, UsagesTold(s) PROVE UsagesTold(s)'
  BY <1>1, <1>2, <1>3, <1>4, ToldStill
<1>5. PICK r : r = raised
  OBVIOUS
<1>6. PICK f : f = findings
  OBVIOUS
<1>7. /\ pc = "usages" => UsagesTold(r)'
      /\ pc \in {"findings", "done"} => UsagesTold(f)'
  BY <1>4, <1>5, <1>6 DEF UsesTold
<1>8. /\ pc = "usages" => UsagesTold(raised)'
      /\ pc \in {"findings", "done"} => UsagesTold(findings)'
  BY <1>1, <1>5, <1>6, <1>7
<1> QED
  BY <1>1, <1>8 DEF UsesTold

LEMMA ToldIsTold ==
  ASSUME Inv, UsesTold
  PROVE  UsageIsTold
<1>1. ASSUME pc \in {"findings", "done"}, NEW ref \in ToSet(skill.refs), NEW j \in DOMAIN ref.at,
             NEW id \in Means(ref, j)
      PROVE  /\ Quiet(ref, j, id)
             /\ \/ NothingToTell(ref, j, id)
                \/ \E f \in ToSet(findings) :
                     Tells(f, id) /\ \E l \in ToSet(ref.at) : Spot(f.at) = Spot(l)
  <2>1. PICK i \in DOMAIN skill.refs : ref = skill.refs[i]
    BY DEF ToSet
  <2>2. Quiet(ref, j, id) /\ ToldIn(findings, ref, j, id)
    BY <1>1, <2>1 DEF UsesTold, UsagesTold
  <2>3. \A k \in 1..Len(findings) : findings[k] \in ToSet(findings)
    BY Listing DEF Inv, Typed, FindingsOK
  <2> QED
    BY <2>2, <2>3 DEF ToldIn, Says
<1> QED
  BY <1>1 DEF UsageIsTold, Quiet

\* Whatever the references, the rules, the answers and the failures are, a use that
\* means a rule, and so keeps the discovery layer quiet in the block around it, is told
\* by a finding of that rule, or of who serves the tools, at a place of its reference,
\* unless the text rule of the same name told it (usage.go).
THEOREM UsagesSaid == Spec => []UsageIsTold
<1>1. Init => UsesTold
  BY DEF Init, UsesTold
<1>2. Inv /\ UsesTold /\ [Next]_vars => UsesTold'
  <2> SUFFICES ASSUME Inv, UsesTold, [Next]_vars PROVE UsesTold'
    OBVIOUS
  <2>1. CASE LoadRules
    BY <2>1, LoadSays
  <2>2. CASE AskReference
    BY <2>2, StillSays DEF AskReference
  <2>3. CASE AskFinding
    BY <2>3, StillSays DEF AskFinding
  <2>4. CASE SkipRequest \/ Answer \/ Unavailable \/ Refuse \/ GiveUp
    BY <2>4, AttemptStill, StillSays DEF Still
  <2>5. CASE ConcludeReference
    BY <2>5, ReferenceSays
  <2>6. CASE UsagesDone
    BY <2>6, UsagesDoneSays
  <2>7. CASE ConcludeFinding
    BY <2>7, FindingSays
  <2>8. CASE Return
    BY <2>8, StillSays DEF Return
  <2>9. CASE ContextEnds \/ Over \/ UNCHANGED vars
    BY <2>9, RestStill, StillSays DEF Still
  <2> QED
    BY <2>1, <2>2, <2>3, <2>4, <2>5, <2>6, <2>7, <2>8, <2>9 DEF Next, Step
<1>3. Inv /\ UsesTold => UsageIsTold
  BY ToldIsTold
<1> QED
  BY <1>1, <1>2, <1>3, LayerInvariant, PTL DEF Spec
=============================================================================
