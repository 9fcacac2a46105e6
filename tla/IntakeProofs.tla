--------------------------- MODULE IntakeProofs ----------------------------
(***************************************************************************)
(* Proofs about Intake, for any folders, limits, runes and rules; what     *)
(* their invariants say is in IntakeInvariants.                            *)
(***************************************************************************)
EXTENDS IntakeInvariants, SequenceTheorems, FunctionTheorems, FiniteSetTheorems, WellFoundedInduction, TLAPS

(* Numbers and sequences. *)

\* A set of numbers has a least one.
LEMMA LeastExists ==
  ASSUME NEW S \in SUBSET Nat, S # {}
  PROVE  \E k \in S : \A m \in S : k <= m
<1> DEFINE less == OpToRel(<, Nat)
<1>1. \A x, y \in Nat : x < y => <<x, y>> \in less
  BY DEF OpToRel
<1>2. IsWellFoundedOn(less, Nat)
  BY NatLessThanWellFounded
<1> HIDE DEF less
<1>3. PICK k \in S : \A m \in S : <<m, k>> \notin less
  BY <1>2, WFMin
<1>4. ASSUME NEW m \in S PROVE k <= m
  <2>1. k \in Nat /\ m \in Nat /\ ~(m < k)
    BY <1>1, <1>3
  <2> QED
    BY <2>1
<1> QED
  BY <1>4

\* Induction, for a set of values.
LEMMA Induction ==
  ASSUME NEW S, 0 \in S, \A n \in Nat : n \in S => n + 1 \in S
  PROVE  Nat \subseteq S
<1> SUFFICES ASSUME Nat \ S # {} PROVE FALSE
  OBVIOUS
<1>1. PICK k \in Nat \ S : \A m \in Nat \ S : k <= m
  BY LeastExists
<1>2. k # 0 /\ k \in Nat
  BY <1>1
<1>3. k - 1 \in Nat /\ k - 1 \in S
  BY <1>1, <1>2
<1>4. (k - 1) + 1 \in S
  BY <1>3
<1> QED
  BY <1>1, <1>2, <1>4

\* Induction up to n.
LEMMA UpTo ==
  ASSUME NEW n \in Nat, NEW T, 0 \in T, \A k \in 1..n : k - 1 \in T => k \in T
  PROVE  \A k \in 0..n : k \in T
<1> DEFINE S == {k \in Nat : k <= n => k \in T}
<1>1. 0 \in S
  OBVIOUS
<1>2. ASSUME NEW k \in Nat, k \in S PROVE k + 1 \in S
  <2> SUFFICES ASSUME k + 1 <= n PROVE k + 1 \in T
    OBVIOUS
  <2>1. k + 1 \in 1..n /\ (k + 1) - 1 = k /\ k \in T
    BY <1>2
  <2> QED
    BY <2>1
<1> HIDE DEF S
<1>3. Nat \subseteq S
  BY <1>1, <1>2, Induction
<1> QED
  BY <1>3 DEF S

LEMMA Listing ==
  ASSUME NEW s, Sequence(s)
  PROVE  /\ Len(s) \in Nat /\ DOMAIN s = 1..Len(s)
         /\ \A q \in 1..Len(s) : s[q] \in ToSet(s)
  BY DEF Sequence, ToSet

LEMMA ListingOf ==
  ASSUME NEW S, NEW s \in Seq(S)
  PROVE  /\ Sequence(s) /\ ToSet(s) \subseteq S
         /\ Len(s) \in Nat /\ DOMAIN s = 1..Len(s)
  BY DEF Sequence, ToSet

LEMMA Joining ==
  ASSUME NEW a, NEW b, Sequence(a), Sequence(b)
  PROVE  /\ Sequence(a \o b) /\ Len(a \o b) = Len(a) + Len(b)
         /\ \A q \in 1..Len(a) : (a \o b)[q] = a[q]
         /\ \A j \in 1..Len(b) : (a \o b)[Len(a) + j] = b[j]
         /\ \A q \in 1..(Len(a) + Len(b)) :
              q \in 1..Len(a) \/ \E j \in 1..Len(b) : q = Len(a) + j
<1> DEFINE S == ToSet(a) \cup ToSet(b)
<1>1. a \in Seq(S) /\ b \in Seq(S)
  BY DEF Sequence
<1> HIDE DEF S
<1>2. a \o b \in Seq(S) /\ Len(a \o b) = Len(a) + Len(b) /\ Len(a) \in Nat /\ Len(b) \in Nat
  BY <1>1
<1>3. \A q \in 1..Len(a) + Len(b) : (a \o b)[q] = IF q <= Len(a) THEN a[q] ELSE b[q - Len(a)]
  BY <1>1, ConcatProperties
<1>4. \A q \in 1..Len(a) : (a \o b)[q] = a[q]
  BY <1>2, <1>3
<1>5. ASSUME NEW j \in 1..Len(b) PROVE (a \o b)[Len(a) + j] = b[j]
  <2>1. Len(a) + j \in 1..Len(a) + Len(b) /\ ~(Len(a) + j <= Len(a)) /\ (Len(a) + j) - Len(a) = j
    BY <1>2
  <2> QED
    BY <2>1, <1>3
<1>6. ASSUME NEW q \in 1..(Len(a) + Len(b)), q \notin 1..Len(a)
      PROVE  \E j \in 1..Len(b) : q = Len(a) + j
  <2>1. q - Len(a) \in 1..Len(b) /\ q = Len(a) + (q - Len(a))
    BY <1>2, <1>6
  <2> QED
    BY <2>1
<1> QED
  BY <1>2, <1>4, <1>5, <1>6, ListingOf

LEMMA Appended ==
  ASSUME NEW s, Sequence(s), NEW e
  PROVE  /\ Sequence(Append(s, e)) /\ Len(Append(s, e)) = Len(s) + 1
         /\ ToSet(Append(s, e)) \subseteq ToSet(s) \cup {e}
         /\ Append(s, e)[Len(s) + 1] = e /\ \A k \in 1..Len(s) : Append(s, e)[k] = s[k]
<1> DEFINE T == ToSet(s) \cup {e}
<1>1. s \in Seq(ToSet(s))
  BY DEF Sequence
<1>2. s \in Seq(T) /\ e \in T
  BY <1>1
<1> HIDE DEF T
<1>3. PICK t : t = Append(s, e)
  OBVIOUS
<1>4. t \in Seq(T) /\ Len(t) = Len(s) + 1 /\ t[Len(s) + 1] = e /\ \A k \in 1..Len(s) : t[k] = s[k]
  BY <1>2, <1>3, AppendProperties
<1>5. ToSet(t) \subseteq T /\ Sequence(t)
  BY <1>4, ListingOf
<1> QED
  BY <1>3, <1>4, <1>5 DEF T

LEMMA Indexed ==
  ASSUME NEW n \in Nat, NEW f, f = [k \in 1..n |-> f[k]]
  PROVE  Sequence(f) /\ Len(f) = n /\ DOMAIN f = 1..n
<1>1. DOMAIN f = 1..n
  OBVIOUS
<1>2. \A k \in 1..n : f[k] \in ToSet(f)
  BY <1>1 DEF ToSet
<1>3. [k \in 1..n |-> f[k]] \in Seq(ToSet(f))
  BY <1>2
<1>4. f \in Seq(ToSet(f))
  BY <1>3
<1> QED
  BY <1>1, <1>4 DEF Sequence

\* The equation of Picking.
LEMMA PickingCourse ==
  ASSUME NEW s, NEW I, Len(s) \in Nat
  PROVE  /\ Picking(s, I)[0] = << >>
         /\ \A k \in 1..Len(s) : Picking(s, I)[k] = IF k \in I THEN Append(Picking(s, I)[k - 1], s[k]) ELSE Picking(s, I)[k - 1]
<1> DEFINE n == Len(s)
           first == << >>
           step(x, k) == IF k \in I THEN Append(x, s[k]) ELSE x
           law(f, m) == [k \in 0..m |-> IF k = 0 THEN first ELSE step(f[k - 1], k)]
           S == {m \in Nat : \E f : f = law(f, m)}
           course == CHOOSE f : f = law(f, n)
<1>1. n \in Nat /\ Picking(s, I) = course
  BY DEF Picking
<1> HIDE DEF n, first, step
<1>2. 0 \in S
  <2>1. [k \in 0..0 |-> first] = law([k \in 0..0 |-> first], 0)
    OBVIOUS
  <2> QED
    BY <2>1
<1>3. ASSUME NEW m \in Nat, m \in S PROVE m + 1 \in S
  <2>1. PICK f : f = law(f, m)
    BY <1>3
  <2>2. PICK g : g = [k \in 0..(m + 1) |-> IF k = m + 1 THEN step(f[m], m + 1) ELSE f[k]]
    OBVIOUS
  <2>3. \A k \in 0..(m + 1) : g[k] = IF k = 0 THEN first ELSE step(g[k - 1], k)
    BY <2>1, <2>2
  <2>4. g = law(g, m + 1)
    BY <2>2, <2>3
  <2> QED
    BY <2>4
<1> HIDE DEF S
<1>4. course = law(course, n)
  BY <1>1, <1>2, <1>3, Induction DEF S
<1> HIDE DEF course
<1>5. course[0] = first /\ \A k \in 1..n : course[k] = step(course[k - 1], k)
  BY <1>1, <1>4
<1> QED
  BY <1>1, <1>5 DEF n, first, step

LEMMA PickedAlong ==
  ASSUME NEW S, NEW s \in Seq(S), NEW I \in SUBSET (1..Len(s))
  PROVE  /\ Picked(s, I) \in Seq(S)
         /\ \E h \in [1..Len(Picked(s, I)) -> I] :
              Along(s, h, Picked(s, I)) /\ \A k \in I : \E j \in 1..Len(Picked(s, I)) : h[j] = k
<1> DEFINE n == Len(s)
           pick == Picking(s, I)
<1>0. n \in Nat /\ \A k \in 1..n : s[k] \in S
  OBVIOUS
<1>1. Picked(s, I) = pick[n]
  BY DEF Picked
<1>10. pick[0] = << >> /\ \A k \in 1..n : pick[k] = IF k \in I THEN Append(pick[k - 1], s[k]) ELSE pick[k - 1]
  BY <1>0, PickingCourse
<1> HIDE DEF n, pick
<1> DEFINE good(k) == /\ pick[k] \in Seq(S)
                      /\ \E h \in [1..Len(pick[k]) -> I \cap (1..k)] :
                           Along(s, h, pick[k])
                             /\ \A q \in I \cap (1..k) : \E j \in 1..Len(pick[k]) : h[j] = q
           T == {k \in Nat : k <= n => good(k)}
<1>11. 0 \in T
  <2>1. pick[0] = << >> /\ Len(<< >>) = 0
    BY <1>10
  <2> DEFINE h == [j \in 1..0 |-> 0]
  <2>2. 1..0 = {} /\ I \cap (1..0) = {} /\ DOMAIN h = 1..0
    OBVIOUS
  <2>3. h \in [1..0 -> I \cap (1..0)]
    BY <2>2
  <2> HIDE DEF h
  <2>4. Along(s, h, pick[0])
    BY <2>1, <2>2 DEF Along
  <2>6. \E x \in [1..Len(pick[0]) -> I \cap (1..0)] :
           Along(s, x, pick[0]) /\ \A q \in I \cap (1..0) : \E j \in 1..Len(pick[0]) : x[j] = q
    BY <2>1, <2>2, <2>3, <2>4
  <2>7. pick[0] \in Seq(S)
    BY <2>1
  <2>5. good(0)
    BY <2>6, <2>7, Zenon
  <2> HIDE DEF good
  <2> QED
    BY <2>5
<1>12. ASSUME NEW k \in Nat, k \in T PROVE k + 1 \in T
  <2> SUFFICES ASSUME k + 1 <= n PROVE good(k + 1)
    OBVIOUS
  <2>0. k + 1 \in 1..n /\ (k + 1) - 1 = k /\ k \in 0..n
    BY <1>0
  <2>1. pick[k] \in Seq(S)
    BY <1>12, <2>0
  <2>2. PICK h \in [1..Len(pick[k]) -> I \cap (1..k)] :
          Along(s, h, pick[k]) /\ \A q \in I \cap (1..k) : \E j \in 1..Len(pick[k]) : h[j] = q
    BY <1>12, <2>0
  <2>3. CASE k + 1 \notin I
    <3>1. pick[k + 1] = pick[k]
      BY <2>3, <2>0, <1>10
    <3>2. I \cap (1..(k + 1)) = I \cap (1..k)
      BY <2>3, <1>0
    <3> QED
      BY <3>1, <3>2, <2>1, <2>2
  <2>4. CASE k + 1 \in I
    <3>1. pick[k + 1] = Append(pick[k], s[k + 1])
      BY <2>4, <2>0, <1>10
    <3>2. s[k + 1] \in S
      BY <2>0, <1>0
    <3> DEFINE m == Len(pick[k])
               p == pick[k + 1]
               e == [j \in 1..(m + 1) |-> IF j <= m THEN h[j] ELSE k + 1]
    <3>3. m \in Nat /\ p \in Seq(S) /\ Len(p) = m + 1 /\ p[m + 1] = s[k + 1]
          /\ \A j \in 1..m : p[j] = pick[k][j]
      BY <2>1, <3>1, <3>2, AppendProperties
    <3>4. \A j \in 1..m : h[j] \in I /\ h[j] \in 1..k /\ pick[k][j] = s[h[j]]
      BY <2>2 DEF Along
    <3>5. \A q, j \in 1..m : q < j => h[q] < h[j]
      BY <2>2 DEF Along
    <3> HIDE DEF m, p
    <3>6. e \in [1..(m + 1) -> I \cap (1..(k + 1))]
      BY <3>3, <3>4, <2>4
    <3>7. \A j \in 1..(m + 1) : p[j] = s[e[j]]
      BY <3>3, <3>4
    <3>8. \A q, j \in 1..(m + 1) : q < j => e[q] < e[j]
      BY <3>3, <3>4, <3>5
    <3>9. ASSUME NEW q \in I \cap (1..(k + 1)) PROVE \E j \in 1..(m + 1) : e[j] = q
      <4>1. CASE q = k + 1
        <5>1. m + 1 \in 1..(m + 1) /\ e[m + 1] = k + 1
          BY <3>3
        <5> QED
          BY <4>1, <5>1
      <4>2. CASE q # k + 1
        <5>1. q \in I \cap (1..k)
          BY <4>2
        <5>2. PICK j \in 1..m : h[j] = q
          BY <5>1, <2>2 DEF m
        <5>3. j \in 1..(m + 1) /\ e[j] = q
          BY <5>2, <3>3
        <5> QED
          BY <5>3
      <4> QED
        BY <4>1, <4>2
    <3>10. Along(s, e, p)
      BY <3>3, <3>7, <3>8 DEF Along
    <3> HIDE DEF e
    <3>11. \E x \in [1..Len(p) -> I \cap (1..(k + 1))] :
             Along(s, x, p) /\ \A q \in I \cap (1..(k + 1)) : \E j \in 1..Len(p) : x[j] = q
      <4>1. Len(p) = m + 1
        BY <3>3
      <4>2. /\ e \in [1..Len(p) -> I \cap (1..(k + 1))]
            /\ \A q \in I \cap (1..(k + 1)) : \E j \in 1..Len(p) : e[j] = q
        BY ONLY <4>1, <3>6, <3>9
      <4> QED
        BY ONLY <4>2, <3>10
    <3> QED
      BY <3>3, <3>11 DEF p
  <2> QED
    BY <2>3, <2>4
<1> HIDE DEF good
<1>13. n \in T
  BY <1>0, <1>11, <1>12, Induction
<1>14. good(n)
  BY <1>13, <1>0
<1>15. I \cap (1..n) = I
  BY DEF n
<1> QED
  BY <1>14, <1>15, <1>1 DEF good

\* What is picked of a sequence: elements of it, and all that are wanted.
LEMMA PickedOf ==
  ASSUME NEW s, Sequence(s), NEW I \in SUBSET (1..Len(s))
  PROVE  /\ Sequence(Picked(s, I)) /\ ToSet(Picked(s, I)) \subseteq ToSet(s)
         /\ \E h \in [1..Len(Picked(s, I)) -> I] :
              Along(s, h, Picked(s, I)) /\ \A k \in I : \E j \in 1..Len(Picked(s, I)) : h[j] = k
<1>1. s \in Seq(ToSet(s))
  BY DEF Sequence
<1>2. /\ Picked(s, I) \in Seq(ToSet(s))
      /\ \E h \in [1..Len(Picked(s, I)) -> I] :
           Along(s, h, Picked(s, I)) /\ \A k \in I : \E j \in 1..Len(Picked(s, I)) : h[j] = k
  BY <1>1, PickedAlong
<1> QED
  BY <1>2, ListingOf

\* Nothing is picked of nowhere, and of one place its element.
LEMMA PickedNone ==
  ASSUME NEW s, Sequence(s)
  PROVE  Picked(s, {}) = << >>
<1>1. {} \in SUBSET (1..Len(s))
  OBVIOUS
<1>2. PICK h \in [1..Len(Picked(s, {})) -> {}] : TRUE
  BY <1>1, PickedOf
<1>3. Sequence(Picked(s, {})) /\ Len(Picked(s, {})) \in Nat
  BY <1>1, PickedOf, Listing
<1>4. 1..Len(Picked(s, {})) = {}
  BY <1>2
<1>5. Len(Picked(s, {})) = 0
  BY <1>3, <1>4
<1> QED
  BY <1>3, <1>5 DEF Sequence

LEMMA PickedSingle ==
  ASSUME NEW s, Sequence(s), NEW k \in 1..Len(s)
  PROVE  Picked(s, {k}) = <<s[k]>>
<1> DEFINE p == Picked(s, {k})
<1>1. {k} \in SUBSET (1..Len(s)) /\ Len(s) \in Nat
  BY Listing
<1>2. PICK h \in [1..Len(p) -> {k}] :
        Along(s, h, p) /\ \A x \in {k} : \E j \in 1..Len(p) : h[j] = x
  BY <1>1, PickedOf
<1>3. Sequence(p) /\ Len(p) \in Nat
  BY <1>1, PickedOf, Listing
<1> HIDE DEF p
<1>4. \A j \in 1..Len(p) : h[j] = k /\ p[j] = s[k]
  BY <1>2 DEF Along
<1>5. PICK j \in 1..Len(p) : TRUE
  BY <1>2
<1>6. Len(p) = 1
  <2>1. 1 \in 1..Len(p) /\ Len(p) \in 1..Len(p)
    BY <1>3, <1>5
  <2>2. ASSUME 1 < Len(p) PROVE FALSE
    <3>1. h[1] < h[Len(p)]
      BY <2>1, <2>2, <1>2 DEF Along
    <3>2. h[1] = k /\ h[Len(p)] = k
      BY <2>1, <1>4
    <3> QED
      BY <3>1, <3>2, <1>1
  <2>3. \A m \in Nat : 1 \in 1..m /\ ~(1 < m) => m = 1
    OBVIOUS
  <2> QED
    BY <2>1, <2>2, <2>3, <1>3
<1>7. p[1] = s[k]
  BY <1>4, <1>6
<1> QED
  BY <1>3, <1>6, <1>7 DEF p, Sequence

\* The least of some numbers of a range.
LEMMA LeastOf ==
  ASSUME NEW I \in SUBSET Nat, I # {}
  PROVE  Least(I) \in I /\ \A k \in I : Least(I) <= k
<1>1. \E k \in I : \A m \in I : k <= m
  BY LeastExists
<1> QED
  BY <1>1 DEF Least

\* One that is the least is what Least finds.
LEMMA LeastIs ==
  ASSUME NEW I \in SUBSET Nat, NEW m \in I, \A k \in I : m <= k
  PROVE  Least(I) = m
<1>1. Least(I) \in I /\ Least(I) <= m
  BY LeastOf
<1>2. m <= Least(I) /\ m \in Nat /\ Least(I) \in Nat
  BY <1>1
<1> QED
  BY <1>1, <1>2

LEMMA InRange ==
  ASSUME NEW m \in Nat, NEW k \in 1..m
  PROVE  k \in Nat /\ k \in 0..m /\ k - 1 \in 0..m /\ k # 0
  OBVIOUS

LEMMA InLonger ==
  ASSUME NEW m \in Nat, NEW n \in Nat, m <= n, NEW k \in 1..m
  PROVE  k \in Nat /\ k \in 1..n
  OBVIOUS

LEMMA Adds ==
  ASSUME NEW a \in Nat, NEW b \in Nat, NEW c, c = a + b
  PROVE  a <= c
  OBVIOUS

-----------------------------------------------------------------------------
(* Sums: the offsets of a text, and the text of the artifacts. *)

\* The equation of Offsets.
LEMMA OffsetsCourse ==
  ASSUME NEW text, Len(text) \in Nat
  PROVE  /\ Offsets(text)[0] = 0
         /\ \A k \in 1..Len(text) : Offsets(text)[k] = Offsets(text)[k - 1] + Runes[text[k]].size
<1> DEFINE n == Len(text)
           first == 0
           step(x, k) == x + Runes[text[k]].size
           law(f, m) == [k \in 0..m |-> IF k = 0 THEN first ELSE step(f[k - 1], k)]
           S == {m \in Nat : \E f : f = law(f, m)}
           course == CHOOSE f : f = law(f, n)
<1>1. n \in Nat /\ Offsets(text) = course
  BY DEF Offsets
<1> HIDE DEF n, first, step
<1>2. 0 \in S
  <2>1. [k \in 0..0 |-> first] = law([k \in 0..0 |-> first], 0)
    OBVIOUS
  <2> QED
    BY <2>1
<1>3. ASSUME NEW m \in Nat, m \in S PROVE m + 1 \in S
  <2>1. PICK f : f = law(f, m)
    BY <1>3
  <2>2. PICK g : g = [k \in 0..(m + 1) |-> IF k = m + 1 THEN step(f[m], m + 1) ELSE f[k]]
    OBVIOUS
  <2>3. \A k \in 0..(m + 1) : g[k] = IF k = 0 THEN first ELSE step(g[k - 1], k)
    BY <2>1, <2>2
  <2>4. g = law(g, m + 1)
    BY <2>2, <2>3
  <2> QED
    BY <2>4
<1> HIDE DEF S
<1>4. course = law(course, n)
  BY <1>1, <1>2, <1>3, Induction DEF S
<1> HIDE DEF course
<1>5. course[0] = first /\ \A k \in 1..n : course[k] = step(course[k - 1], k)
  BY <1>1, <1>4
<1> QED
  BY <1>1, <1>5 DEF n, first, step

\* The equation of TextUpTo.
LEMMA TextCourse ==
  ASSUME NEW files, Len(files) \in Nat
  PROVE  /\ TextUpTo(files)[0] = 0
         /\ \A k \in 1..Len(files) : TextUpTo(files)[k] = TextUpTo(files)[k - 1] + TextIn(files[k])
<1> DEFINE n == Len(files)
           first == 0
           step(x, k) == x + TextIn(files[k])
           law(f, m) == [k \in 0..m |-> IF k = 0 THEN first ELSE step(f[k - 1], k)]
           S == {m \in Nat : \E f : f = law(f, m)}
           course == CHOOSE f : f = law(f, n)
<1>1. n \in Nat /\ TextUpTo(files) = course
  BY DEF TextUpTo
<1> HIDE DEF n, first, step
<1>2. 0 \in S
  <2>1. [k \in 0..0 |-> first] = law([k \in 0..0 |-> first], 0)
    OBVIOUS
  <2> QED
    BY <2>1
<1>3. ASSUME NEW m \in Nat, m \in S PROVE m + 1 \in S
  <2>1. PICK f : f = law(f, m)
    BY <1>3
  <2>2. PICK g : g = [k \in 0..(m + 1) |-> IF k = m + 1 THEN step(f[m], m + 1) ELSE f[k]]
    OBVIOUS
  <2>3. \A k \in 0..(m + 1) : g[k] = IF k = 0 THEN first ELSE step(g[k - 1], k)
    BY <2>1, <2>2
  <2>4. g = law(g, m + 1)
    BY <2>2, <2>3
  <2> QED
    BY <2>4
<1> HIDE DEF S
<1>4. course = law(course, n)
  BY <1>1, <1>2, <1>3, Induction DEF S
<1> HIDE DEF course
<1>5. course[0] = first /\ \A k \in 1..n : course[k] = step(course[k - 1], k)
  BY <1>1, <1>4
<1> QED
  BY <1>1, <1>5 DEF n, first, step

\* Offsets are numbers, and each rune takes some bytes.
LEMMA OffsetsGrow ==
  ASSUME NEW t, IsText(t)
  PROVE  /\ \A k \in 0..Len(t) : Offsets(t)[k] \in Nat
         /\ \A k \in 1..Len(t) : Offsets(t)[k - 1] < Offsets(t)[k]
<1>1. Len(t) \in Nat /\ \A k \in 1..Len(t) : Runes[t[k]].size \in Nat \ {0}
  BY RunesAssumption DEF IsText
<1>2. Offsets(t)[0] = 0 /\ \A k \in 1..Len(t) : Offsets(t)[k] = Offsets(t)[k - 1] + Runes[t[k]].size
  BY <1>1, OffsetsCourse
<1> DEFINE T == {k \in Nat : Offsets(t)[k] \in Nat}
<1>3. 0 \in T
  BY <1>2
<1>7. ASSUME NEW k \in 1..Len(t), k - 1 \in T PROVE k \in T
  <2>1. k \in Nat /\ Runes[t[k]].size \in Nat
    BY <1>1
  <2>2. Offsets(t)[k - 1] \in Nat
    BY <1>7
  <2> QED
    BY <2>1, <2>2, <1>2
<1> HIDE DEF T
<1>4. \A k \in 0..Len(t) : k \in T
  BY <1>1, <1>3, <1>7, UpTo
<1>5. \A k \in 0..Len(t) : Offsets(t)[k] \in Nat
  BY <1>4 DEF T
<1>6. ASSUME NEW k \in 1..Len(t) PROVE Offsets(t)[k - 1] < Offsets(t)[k]
  <2>1. k - 1 \in 0..Len(t) /\ k \in 0..Len(t)
    BY <1>1
  <2> QED
    BY <2>1, <1>1, <1>2, <1>5
<1> QED
  BY <1>5, <1>6

LEMMA SizeType ==
  ASSUME NEW t, IsText(t)
  PROVE  Size(t) \in Nat
<1>1. Len(t) \in 0..Len(t)
  BY DEF IsText
<1> QED
  BY <1>1, OffsetsGrow DEF Size

LEMMA TextGrows ==
  ASSUME NEW files, SizesOK(files)
  PROVE  /\ \A k \in 0..Len(files) : TextUpTo(files)[k] \in Nat
         /\ \A k \in 1..Len(files) : TextUpTo(files)[k - 1] <= TextUpTo(files)[k]
<1>1. Len(files) \in Nat /\ \A k \in 1..Len(files) : TextIn(files[k]) \in Nat
  BY Listing DEF SizesOK, TextIn
<1>2. TextUpTo(files)[0] = 0 /\ \A k \in 1..Len(files) : TextUpTo(files)[k] = TextUpTo(files)[k - 1] + TextIn(files[k])
  BY <1>1, TextCourse
<1> DEFINE T == {k \in Nat : TextUpTo(files)[k] \in Nat}
<1>3. 0 \in T
  BY <1>2
<1>7. ASSUME NEW k \in 1..Len(files), k - 1 \in T PROVE k \in T
  <2>1. k \in Nat /\ TextIn(files[k]) \in Nat
    BY <1>1
  <2>2. TextUpTo(files)[k - 1] \in Nat
    BY <1>7
  <2> QED
    BY <2>1, <2>2, <1>2
<1> HIDE DEF T
<1>4. \A k \in 0..Len(files) : k \in T
  BY <1>1, <1>3, <1>7, UpTo
<1>5. \A k \in 0..Len(files) : TextUpTo(files)[k] \in Nat
  BY <1>4 DEF T
<1>6. ASSUME NEW k \in 1..Len(files) PROVE TextUpTo(files)[k - 1] <= TextUpTo(files)[k]
  <2>1. k - 1 \in 0..Len(files)
    BY <1>1, InRange
  <2> QED
    BY <2>1, <1>1, <1>2, <1>5, Adds
<1> QED
  BY <1>5, <1>6

\* The sums of more artifacts are those of the first ones, files far files these go.
LEMMA TextOfMore ==
  ASSUME NEW files, NEW bs, Sequence(files), Sequence(bs), Len(files) <= Len(bs),
         \A k \in 1..Len(files) : TextIn(bs[k]) = TextIn(files[k])
  PROVE  \A k \in 0..Len(files) : TextUpTo(bs)[k] = TextUpTo(files)[k]
<1>1. Len(files) \in Nat /\ Len(bs) \in Nat
  BY Listing
<1>2. TextUpTo(files)[0] = 0 /\ \A k \in 1..Len(files) : TextUpTo(files)[k] = TextUpTo(files)[k - 1] + TextIn(files[k])
  BY <1>1, TextCourse
<1>3. TextUpTo(bs)[0] = 0 /\ \A k \in 1..Len(bs) : TextUpTo(bs)[k] = TextUpTo(bs)[k - 1] + TextIn(bs[k])
  BY <1>1, TextCourse
<1> DEFINE T == {k \in Nat : TextUpTo(bs)[k] = TextUpTo(files)[k]}
<1>4. 0 \in T
  BY <1>2, <1>3
<1>5. ASSUME NEW k \in 1..Len(files), k - 1 \in T PROVE k \in T
  <2>1. k \in 1..Len(bs) /\ k \in Nat
    BY <1>1, InLonger
  <2>2. TextUpTo(bs)[k - 1] = TextUpTo(files)[k - 1]
    BY <1>5
  <2>3. TextUpTo(bs)[k] = TextUpTo(files)[k]
    BY <2>1, <2>2, <1>2, <1>3
  <2> QED
    BY <2>1, <2>3
<1> HIDE DEF T
<1>6. \A k \in 0..Len(files) : k \in T
  BY <1>1, <1>4, <1>5, UpTo
<1> QED
  BY <1>6 DEF T

-----------------------------------------------------------------------------
(* The lines of a text, and the frame that is shown of them. *)

\* The equation of Shown.
LEMMA ShownCourse ==
  ASSUME NEW parts, Len(parts) \in Nat
  PROVE  /\ Shown(parts)[0] = [last |-> 0, out |-> << >>]
         /\ \A k \in 1..Len(parts) : Shown(parts)[k] = Show(Shown(parts)[k - 1], parts[k])
<1> DEFINE n == Len(parts)
           first == [last |-> 0, out |-> << >>]
           step(x, k) == Show(x, parts[k])
           law(f, m) == [k \in 0..m |-> IF k = 0 THEN first ELSE step(f[k - 1], k)]
           S == {m \in Nat : \E f : f = law(f, m)}
           course == CHOOSE f : f = law(f, n)
<1>1. n \in Nat /\ Shown(parts) = course
  BY DEF Shown
<1> HIDE DEF n, first, step
<1>2. 0 \in S
  <2>1. [k \in 0..0 |-> first] = law([k \in 0..0 |-> first], 0)
    OBVIOUS
  <2> QED
    BY <2>1
<1>3. ASSUME NEW m \in Nat, m \in S PROVE m + 1 \in S
  <2>1. PICK f : f = law(f, m)
    BY <1>3
  <2>2. PICK g : g = [k \in 0..(m + 1) |-> IF k = m + 1 THEN step(f[m], m + 1) ELSE f[k]]
    OBVIOUS
  <2>3. \A k \in 0..(m + 1) : g[k] = IF k = 0 THEN first ELSE step(g[k - 1], k)
    BY <2>1, <2>2
  <2>4. g = law(g, m + 1)
    BY <2>2, <2>3
  <2> QED
    BY <2>4
<1> HIDE DEF S
<1>4. course = law(course, n)
  BY <1>1, <1>2, <1>3, Induction DEF S
<1> HIDE DEF course
<1>5. course[0] = first /\ \A k \in 1..n : course[k] = step(course[k - 1], k)
  BY <1>1, <1>4
<1> QED
  BY <1>1, <1>5 DEF n, first, step

\* The equation of Positions.
LEMMA PositionsCourse ==
  ASSUME NEW lines, NEW first, Len(lines) \in Nat
  PROVE  /\ Positions(lines, first)[0] = [open |-> NoFence, at |-> 0]
         /\ \A k \in 1..Len(lines) : Positions(lines, first)[k] = IF k < first THEN Positions(lines, first)[k - 1] ELSE ReadFence(Positions(lines, first)[k - 1], Fence(lines[k]), k)
<1> DEFINE n == Len(lines)
           start == [open |-> NoFence, at |-> 0]
           step(x, k) == IF k < first THEN x ELSE ReadFence(x, Fence(lines[k]), k)
           law(f, m) == [k \in 0..m |-> IF k = 0 THEN start ELSE step(f[k - 1], k)]
           S == {m \in Nat : \E f : f = law(f, m)}
           course == CHOOSE f : f = law(f, n)
<1>1. n \in Nat /\ Positions(lines, first) = course
  BY DEF Positions
<1> HIDE DEF n, start, step
<1>2. 0 \in S
  <2>1. [k \in 0..0 |-> start] = law([k \in 0..0 |-> start], 0)
    OBVIOUS
  <2> QED
    BY <2>1
<1>3. ASSUME NEW m \in Nat, m \in S PROVE m + 1 \in S
  <2>1. PICK f : f = law(f, m)
    BY <1>3
  <2>2. PICK g : g = [k \in 0..(m + 1) |-> IF k = m + 1 THEN step(f[m], m + 1) ELSE f[k]]
    OBVIOUS
  <2>3. \A k \in 0..(m + 1) : g[k] = IF k = 0 THEN start ELSE step(g[k - 1], k)
    BY <2>1, <2>2
  <2>4. g = law(g, m + 1)
    BY <2>2, <2>3
  <2> QED
    BY <2>4
<1> HIDE DEF S
<1>4. course = law(course, n)
  BY <1>1, <1>2, <1>3, Induction DEF S
<1> HIDE DEF course
<1>5. course[0] = start /\ \A k \in 1..n : course[k] = step(course[k - 1], k)
  BY <1>1, <1>4
<1> QED
  BY <1>1, <1>5 DEF n, start, step

LEMMA LinesType ==
  ASSUME NEW t, Sequence(t)
  PROVE  /\ Sequence(Lines(t)) /\ Len(Lines(t)) \in Nat \ {0} /\ Len(Lines(t)) = Len(Ends(t))
         /\ Sequence(Ends(t)) /\ Ends(t)[Len(Ends(t))] = Len(t) + 1
<1> DEFINE I == {k \in DOMAIN t : t[k] = Newline}
           p == Picked(Indices(t), I)
           ends == Ends(t)
<1>1. Len(t) \in Nat /\ DOMAIN t = 1..Len(t)
  BY Listing
<1>2. Indices(t) = [k \in 1..Len(t) |-> Indices(t)[k]] /\ I \in SUBSET (1..Len(t))
  BY <1>1 DEF Indices
<1> HIDE DEF I
<1>3. Sequence(Indices(t)) /\ Len(Indices(t)) = Len(t)
  BY <1>1, <1>2, Indexed
<1>4. Sequence(p) /\ Len(p) \in Nat
  BY <1>2, <1>3, PickedOf, Listing
<1>5. ends = Append(p, Len(t) + 1)
  BY DEF Ends, I
<1> HIDE DEF p
<1>6. Sequence(ends) /\ Len(ends) = Len(p) + 1 /\ ends[Len(p) + 1] = Len(t) + 1
  BY <1>4, <1>5, Appended
<1>7. Len(ends) \in Nat \ {0} /\ DOMAIN ends = 1..Len(ends)
  BY <1>4, <1>6, Listing
<1>8. Lines(t) = LinesTo(t, ends)
  BY DEF Lines
<1> HIDE DEF ends
<1>9. Lines(t) = [n \in 1..Len(ends) |-> Lines(t)[n]]
  BY <1>7, <1>8 DEF LinesTo
<1>10. Sequence(Lines(t)) /\ Len(Lines(t)) = Len(ends)
  BY <1>7, <1>9, Indexed
<1> QED
  BY <1>6, <1>7, <1>10 DEF ends

LEMMA UpFromType ==
  ASSUME NEW from \in Nat, NEW to \in Nat, from <= to
  PROVE  /\ UpFrom(from, to) \in Seq(Nat) /\ Len(UpFrom(from, to)) = to - from + 1
         /\ \A k \in 1..(to - from + 1) : UpFrom(from, to)[k] = from + k - 1
<1>1. to - from + 1 \in Nat
  OBVIOUS
<1>2. \A k \in 1..(to - from + 1) : from + k - 1 \in Nat
  OBVIOUS
<1> QED
  BY <1>1, <1>2 DEF UpFrom

\* What goes on right after the lines shown, or past a mark, is shown well.
LEMMA OutMore ==
  ASSUME NEW last \in Nat, NEW out, OutOK(out, last), NEW a \in Nat, NEW b \in Nat,
         last < a, a <= b, NEW z \in {0, 1}, z = 1 <=> last > 0 /\ a > last + 1,
         NEW c, Continues(c, out, z, a, b)
  PROVE  OutOK(c, b)
<1>1. PICK n, l : n = Len(out) /\ l = Len(c)
  OBVIOUS
<1>2. n \in Nat /\ c \in Seq(Nat) /\ l \in Nat
  BY <1>1 DEF OutOK, Continues
<1>3. PICK d : d = a - n - z - 1
  OBVIOUS
<1>4. z \in Nat /\ z <= 1 /\ d \in Int /\ l = n + z + (b - a) + 1
  BY <1>1, <1>2, <1>3 DEF Continues
<1>5. l + d = b /\ n + z + d + 1 = a /\ n + z < l /\ b > 0
  BY <1>2, <1>3, <1>4
<1>6. \A k \in 1..n : c[k] = out[k]
  BY <1>1 DEF Continues
<1>7. z = 1 => c[n + 1] = 0
  BY <1>1 DEF Continues
<1>8. \A k \in 1..l : k > n + z => c[k] = k + d
  BY <1>1, <1>3 DEF Continues
<1>9. \A k \in 1..n : out[k] \in Nat /\ out[k] <= last
  BY <1>1, <1>2 DEF OutOK
<1>10. \A j, k \in 1..n : j < k /\ out[j] > 0 /\ out[k] > 0 => out[j] < out[k]
  BY <1>1 DEF OutOK
<1>11. \A k \in 1..n : out[k] = 0 =>
        k > 1 /\ k < n /\ out[k - 1] > 0 /\ out[k + 1] > out[k - 1] + 1
  BY <1>1 DEF OutOK
<1>12. \A k \in 2..n : out[k] > 0 /\ out[k - 1] > 0 => out[k] = out[k - 1] + 1
  BY <1>1 DEF OutOK
<1>13. (last > 0 => n > 0 /\ out[n] = last) /\ (last = 0 => n = 0)
  BY <1>1 DEF OutOK
<1>14. ASSUME NEW k \in 1..l PROVE k \in 1..n \/ (z = 1 /\ k = n + 1) \/ k > n + z
  BY <1>2, <1>4
<1>15. ASSUME NEW k \in 1..l PROVE c[k] <= b
  <2>1. CASE k \in 1..n
    <3>1. c[k] = out[k] /\ out[k] \in Nat /\ out[k] <= last
      BY <2>1, <1>6, <1>9
    <3> QED
      BY <3>1
  <2>2. CASE z = 1 /\ k = n + 1
    BY <2>2, <1>7
  <2>3. CASE k > n + z
    BY <2>3, <1>2, <1>4, <1>5, <1>8
  <2> QED
    BY <1>14, <2>1, <2>2, <2>3
<1>16. ASSUME NEW k \in 1..l, k > n + z PROVE c[k] >= a /\ c[k] \in Nat
  BY <1>16, <1>2, <1>4, <1>5, <1>8
<1>17. ASSUME NEW j \in 1..l, NEW k \in 1..l, j < k, c[j] > 0, c[k] > 0 PROVE c[j] < c[k]
  <2>1. CASE k \in 1..n
    <3>1. j \in 1..n
      BY <2>1, <1>17, <1>2
    <3> QED
      BY <2>1, <3>1, <1>6, <1>10, <1>17
  <2>2. CASE z = 1 /\ k = n + 1
    BY <2>2, <1>7, <1>17
  <2>3. CASE k > n + z
    <3>1. c[k] >= a /\ c[k] \in Nat
      BY <2>3, <1>16
    <3>2. CASE j \in 1..n
      <4>1. c[j] = out[j] /\ out[j] \in Nat /\ out[j] <= last
        BY <3>2, <1>6, <1>9
      <4> QED
        BY <4>1, <3>1
    <3>3. CASE z = 1 /\ j = n + 1
      BY <3>3, <1>7, <1>17
    <3>4. CASE j > n + z
      <4>1. c[j] = j + d /\ c[k] = k + d
        BY <2>3, <3>4, <1>8
      <4> QED
        BY <4>1, <1>17, <1>4, <1>2
    <3> QED
      BY <1>14, <3>2, <3>3, <3>4
  <2> QED
    BY <1>14, <2>1, <2>2, <2>3
<1>18. ASSUME NEW k \in 1..l, c[k] = 0
       PROVE  k > 1 /\ k < l /\ c[k - 1] > 0 /\ c[k + 1] > c[k - 1] + 1
  <2>1. CASE k \in 1..n
    <3>1. k > 1 /\ k < n /\ out[k - 1] > 0 /\ out[k + 1] > out[k - 1] + 1
      BY <2>1, <1>6, <1>11, <1>18
    <3>2. k - 1 \in 1..n /\ k + 1 \in 1..n /\ k < l
      BY <2>1, <3>1, <1>2, <1>4, <1>5
    <3>3. c[k - 1] = out[k - 1] /\ c[k + 1] = out[k + 1]
      BY <3>2, <1>6
    <3> QED
      BY <3>1, <3>2, <3>3
  <2>2. CASE z = 1 /\ k = n + 1
    <3>1. last > 0 /\ a > last + 1
      BY <2>2
    <3>2. n > 0 /\ out[n] = last /\ n \in 1..n
      BY <3>1, <1>2, <1>13
    <3>3. c[n] = last
      BY <3>2, <1>6
    <3>4. n + 2 \in 1..l /\ n + 2 > n + z
      BY <2>2, <1>2, <1>4, <1>5
    <3>5. c[n + 2] = n + 2 + d
      BY <3>4, <1>8
    <3>6. n + 2 + d = a
      BY <2>2, <1>2, <1>4, <1>5
    <3>7. k - 1 = n /\ k + 1 = n + 2
      BY <2>2, <1>2
    <3>8. c[k - 1] = last /\ c[k + 1] = a
      BY <3>3, <3>5, <3>6, <3>7
    <3>9. k > 1 /\ k < l
      BY <2>2, <3>2, <3>4, <1>2
    <3> QED
      BY <3>1, <3>8, <3>9
  <2>3. CASE k > n + z
    <3>1. c[k] >= a
      BY <2>3, <1>16
    <3> QED
      BY <3>1, <1>18
  <2> QED
    BY <1>14, <2>1, <2>2, <2>3
<1>19. ASSUME NEW k \in 2..l, c[k] > 0, c[k - 1] > 0 PROVE c[k] = c[k - 1] + 1
  <2>0. k \in 1..l /\ k - 1 \in 1..l
    BY <1>2
  <2>1. CASE k \in 1..n
    <3>1. k \in 2..n /\ k - 1 \in 1..n
      BY <2>1, <1>2
    <3> QED
      BY <2>1, <3>1, <1>6, <1>12, <1>19
  <2>2. CASE z = 1 /\ k = n + 1
    BY <2>2, <1>7, <1>19
  <2>3. CASE k > n + z /\ k - 1 > n + z
    <3>1. c[k] = k + d /\ c[k - 1] = (k - 1) + d
      BY <2>0, <2>3, <1>8
    <3> QED
      BY <3>1, <1>4
  <2>4. CASE k > n + z /\ ~(k - 1 > n + z)
    <3>1. k = n + z + 1
      BY <2>4, <1>2, <1>4
    <3>2. CASE z = 1
      <4>1. k - 1 = n + 1
        BY <3>1, <3>2, <1>2
      <4>2. c[k - 1] = 0
        BY <3>2, <4>1, <1>7
      <4> QED
        BY <4>2, <1>19
    <3>3. CASE z = 0
      <4>1. k - 1 = n /\ n > 0 /\ n \in 1..n
        BY <3>1, <3>3, <1>2
      <4>2. last > 0 /\ out[n] = last /\ a = last + 1
        BY <3>3, <4>1, <1>13
      <4>3. c[k - 1] = last
        BY <4>1, <4>2, <1>6
      <4>4. c[k] = k + d /\ k + d = a
        BY <2>0, <2>4, <3>1, <3>3, <1>8, <1>2, <1>4, <1>5
      <4> QED
        BY <4>2, <4>3, <4>4
    <3> QED
      BY <3>2, <3>3
  <2> QED
    BY <2>0, <1>14, <2>1, <2>2, <2>3, <2>4
<1>20. l > 0 /\ c[l] = b
  <2>1. l \in 1..l /\ l > n + z
    BY <1>2, <1>4, <1>5
  <2>2. c[l] = l + d
    BY <2>1, <1>8
  <2> QED
    BY <2>1, <2>2, <1>2, <1>5
<1> QED
  BY <1>1, <1>2, <1>5, <1>15, <1>17, <1>18, <1>19, <1>20 DEF OutOK

LEMMA ShowAdds ==
  ASSUME NEW acc, acc.last \in Nat, OutOK(acc.out, acc.last), NEW part,
         part[1] \in Nat, part[2] \in Nat, acc.last < part[1], part[1] <= part[2]
  PROVE  Added(Show(acc, part), acc, part)
<1>1. PICK last, out, a, b : last = acc.last /\ out = acc.out /\ a = part[1] /\ b = part[2]
  OBVIOUS
<1>2. last \in Nat /\ OutOK(out, last) /\ a \in Nat /\ b \in Nat /\ last < a /\ a <= b
  BY <1>1
<1> DEFINE z == IF last > 0 /\ a > last + 1 THEN 1 ELSE 0
           g == IF last > 0 /\ a > last + 1 THEN <<0>> ELSE << >>
           u == UpFrom(a, b)
           c == (out \o g) \o u
<1>3. Upper(last, b) = b /\ Upper(a, last + 1) = a
  BY <1>2 DEF Upper
<1>4. Show(acc, part) = [last |-> b, out |-> c]
  <2>1. Show(acc, part) = [last |-> Upper(last, b), out |-> out \o g \o UpFrom(Upper(a, last + 1), b)]
    BY <1>1 DEF Show
  <2> HIDE DEF g
  <2> QED
    BY <2>1, <1>3
<1>5. u \in Seq(Nat) /\ Len(u) = b - a + 1 /\ \A k \in 1..(b - a + 1) : u[k] = a + k - 1
  BY <1>2, UpFromType
<1>6. out \in Seq(Nat) /\ Len(out) \in Nat
  BY <1>2 DEF OutOK
<1>7. g \in Seq(Nat) /\ Len(g) = z /\ (z = 1 => g[1] = 0) /\ z \in {0, 1}
  <2>1. CASE last > 0 /\ a > last + 1
    <3>1. g = <<0>> /\ z = 1
      BY <2>1
    <3> QED
      BY <3>1
  <2>2. CASE ~(last > 0 /\ a > last + 1)
    <3>1. g = << >> /\ z = 0
      BY <2>2
    <3> QED
      BY <3>1
  <2> QED
    BY <2>1, <2>2
<1>8. z = 1 <=> last > 0 /\ a > last + 1
  OBVIOUS
<1> HIDE DEF u, g, z
<1>9. Sequence(out) /\ Sequence(g) /\ Sequence(u)
  BY <1>5, <1>6, <1>7, ListingOf
<1> DEFINE og == out \o g
<1>10. /\ Sequence(og) /\ og \in Seq(Nat) /\ Len(og) = Len(out) + z
       /\ \A k \in 1..Len(out) : og[k] = out[k]
       /\ \A j \in 1..z : og[Len(out) + j] = g[j]
  BY <1>6, <1>7, <1>9, Joining
<1> HIDE DEF og
<1>11. c = og \o u
  BY DEF og
<1> HIDE DEF c
<1>12. /\ Sequence(c) /\ c \in Seq(Nat) /\ Len(c) = Len(og) + Len(u)
       /\ \A k \in 1..Len(og) : c[k] = og[k]
       /\ \A j \in 1..Len(u) : c[Len(og) + j] = u[j]
  <2>0. Sequence(og) /\ Sequence(u)
    BY <1>9, <1>10
  <2>1. /\ Sequence(og \o u) /\ Len(og \o u) = Len(og) + Len(u)
        /\ \A k \in 1..Len(og) : (og \o u)[k] = og[k]
        /\ \A j \in 1..Len(u) : (og \o u)[Len(og) + j] = u[j]
    BY ONLY <2>0, Joining
  <2>2. og \o u \in Seq(Nat)
    BY <1>5, <1>10
  <2> QED
    BY <2>1, <2>2, <1>11
<1>13. PICK n, m : n = Len(out) /\ m = b - a + 1
  OBVIOUS
<1>14. n \in Nat /\ z \in Nat /\ m \in Nat /\ Len(og) = n + z /\ Len(u) = m /\ Len(c) = n + z + m
  BY <1>2, <1>5, <1>6, <1>7, <1>10, <1>12, <1>13
<1>15. ASSUME NEW k \in 1..n PROVE c[k] = out[k]
  <2>1. k \in 1..Len(og)
    BY <1>14
  <2> QED
    BY <2>1, <1>10, <1>12, <1>13
<1>16. ASSUME z = 1 PROVE c[n + 1] = 0
  <2>1. 1 \in 1..z /\ n + 1 \in 1..Len(og)
    BY <1>14, <1>16
  <2>2. c[n + 1] = og[n + 1] /\ og[n + 1] = g[1]
    BY <2>1, <1>10, <1>12, <1>13
  <2> QED
    BY <2>2, <1>7, <1>16
<1>17. ASSUME NEW k \in 1..Len(c), k > n + z PROVE c[k] = k + (a - n - z - 1)
  <2>1. PICK j : j = k - (n + z)
    OBVIOUS
  <2>2. j \in 1..m /\ k = (n + z) + j
    BY <2>1, <1>14, <1>17
  <2>3. c[k] = u[j]
    BY <2>2, <1>12, <1>14
  <2>4. u[j] = a + j - 1
    BY <2>2, <1>5, <1>13
  <2> QED
    BY <2>1, <2>3, <2>4, <1>2, <1>14
<1>18. Continues(c, out, z, a, b)
  <2>1. Len(c) = n + z + (b - a) + 1
    BY <1>2, <1>13, <1>14
  <2> QED
    BY <2>1, <1>12, <1>13, <1>15, <1>16, <1>17 DEF Continues
<1>19. OutOK(c, b)
  BY <1>2, <1>7, <1>8, <1>18, OutMore
<1>20. DOMAIN c = 1..(n + z + m) /\ DOMAIN out = 1..n
  BY <1>9, <1>12, <1>13, <1>14, Listing
<1>21. ToSet(out) \subseteq ToSet(c)
  <2>1. ASSUME NEW x \in ToSet(out) PROVE x \in ToSet(c)
    <3>1. PICK k \in DOMAIN out : x = out[k]
      BY DEF ToSet
    <3>2. k \in 1..n /\ k \in DOMAIN c
      BY <3>1, <1>14, <1>20
    <3>3. c[k] = x
      BY <3>1, <3>2, <1>15
    <3> QED
      BY <3>2, <3>3 DEF ToSet
  <2> QED
    BY <2>1
<1>22. a..b \subseteq ToSet(c)
  <2>1. ASSUME NEW x \in a..b PROVE x \in ToSet(c)
    <3>1. PICK k : k = x - (a - n - z - 1)
      OBVIOUS
    <3>2. k \in DOMAIN c /\ k > n + z /\ k \in 1..Len(c) /\ k + (a - n - z - 1) = x
      BY <3>1, <1>2, <1>13, <1>14, <1>20
    <3>3. c[k] = x
      BY <3>2, <1>17
    <3> QED
      BY <3>2, <3>3 DEF ToSet
  <2> QED
    BY <2>1
<1>23. Show(acc, part).last = b /\ Show(acc, part).out = c
  BY <1>4
<1> QED
  BY <1>1, <1>19, <1>21, <1>22, <1>23 DEF Added

LEMMA ShownParts ==
  ASSUME NEW parts, NEW len \in Nat, PartsOK(parts, len)
  PROVE  \A k \in 0..Len(parts) : ShownTo(Shown(parts)[k], parts, k)
<1>1. PICK n : n = Len(parts)
  OBVIOUS
<1>2. n \in Nat
  BY <1>1, Listing DEF PartsOK
<1> DEFINE s == Shown(parts)
           T == {k \in Nat : ShownTo(s[k], parts, k)}
<1>3. s[0] = [last |-> 0, out |-> << >>] /\ \A k \in 1..n : s[k] = Show(s[k - 1], parts[k])
  BY <1>1, <1>2, ShownCourse
<1> HIDE DEF s
<1>4. 0 \in T
  <2>1. OutOK(<< >>, 0)
    BY DEF OutOK
  <2>2. s[0].last = 0 /\ s[0].out = << >>
    BY <1>3
  <2>3. ShownTo(s[0], parts, 0)
    BY <2>1, <2>2 DEF ShownTo
  <2> QED
    BY <2>3
<1>5. ASSUME NEW k \in 1..n, k - 1 \in T PROVE k \in T
  <2>1. PICK j : j = k - 1
    OBVIOUS
  <2>2. j \in Nat /\ k \in Nat /\ k = j + 1 /\ k # 0
    BY <1>2, <2>1
  <2>3. ShownTo(s[j], parts, j)
    BY <1>5, <2>1
  <2>4. PICK acc, part : acc = s[j] /\ part = parts[k]
    OBVIOUS
  <2>5. part[1] \in Nat /\ part[2] \in Nat /\ 0 < part[1] /\ part[1] <= part[2]
    BY <1>1, <2>4 DEF PartsOK
  <2>6. acc.last \in Nat /\ OutOK(acc.out, acc.last)
    BY <2>3, <2>4 DEF ShownTo
  <2>7. acc.last < part[1]
    <3>1. CASE j = 0
      <4>1. acc.last = 0
        BY <2>3, <2>4, <3>1 DEF ShownTo
      <4> QED
        BY <4>1, <2>5
    <3>2. CASE j # 0
      <4>1. acc.last = parts[j][2]
        BY <2>3, <2>4, <3>2 DEF ShownTo
      <4>2. j \in 1..n /\ j < k
        BY <2>2, <3>2, <1>2
      <4>3. parts[j][2] < parts[k][1]
        BY <1>1, <4>2 DEF PartsOK
      <4> QED
        BY <4>1, <4>3, <2>4
    <3> QED
      BY <3>1, <3>2
  <2>8. s[k] = Show(acc, part)
    BY <1>3, <2>1, <2>4
  <2>9. PICK new : new = s[k]
    OBVIOUS
  <2>10. Added(new, acc, part)
    BY <2>5, <2>6, <2>7, <2>8, <2>9, ShowAdds
  <2>11. new.last \in Nat /\ new.last = part[2] /\ OutOK(new.out, new.last)
    BY <2>5, <2>10 DEF Added
  <2>12. ASSUME NEW x \in 1..k PROVE parts[x][1]..parts[x][2] \subseteq ToSet(new.out)
    <3>1. CASE x = k
      BY <3>1, <2>4, <2>10 DEF Added
    <3>2. CASE x # k
      <4>1. x \in 1..j
        BY <3>2, <2>2
      <4>2. parts[x][1]..parts[x][2] \subseteq ToSet(acc.out)
        BY <4>1, <2>3, <2>4 DEF ShownTo
      <4> QED
        BY <4>2, <2>10 DEF Added
    <3> QED
      BY <3>1, <3>2
  <2>13. ShownTo(s[k], parts, k)
    BY <2>2, <2>4, <2>9, <2>11, <2>12 DEF ShownTo
  <2> QED
    BY <2>2, <2>13
<1> HIDE DEF T
<1>6. \A k \in 0..n : k \in T
  BY <1>2, <1>4, <1>5, UpTo
<1> QED
  BY <1>1, <1>6 DEF T, s

LEMMA OnePart ==
  ASSUME NEW a \in Nat, NEW b \in Nat, NEW len \in Nat, 0 < a, a <= b, b <= len
  PROVE  PartsOK(<<<<a, b>>>>, len) /\ Len(<<<<a, b>>>>) = 1
<1>1. Sequence(<<<<a, b>>>>)
  <2>1. <<<<a, b>>>> \in Seq({<<a, b>>})
    OBVIOUS
  <2> QED
    BY <2>1, ListingOf
<1> QED
  BY <1>1 DEF PartsOK

\* Parts put before others that are past them.
LEMMA PartsJoin ==
  ASSUME NEW ps, NEW qs, NEW len \in Nat, PartsOK(ps, len), PartsOK(qs, len),
         \A j \in 1..Len(ps), k \in 1..Len(qs) : ps[j][2] < qs[k][1]
  PROVE  /\ PartsOK(ps \o qs, len)
         /\ \A n : PartsHold(ps, n) \/ PartsHold(qs, n) => PartsHold(ps \o qs, n)
<1>1. PICK c, l, m : c = ps \o qs /\ l = Len(ps) /\ m = Len(qs)
  OBVIOUS
<1>2. Sequence(ps) /\ Sequence(qs) /\ l \in Nat /\ m \in Nat
  BY <1>1, Listing DEF PartsOK
<1>3. /\ Sequence(c) /\ Len(c) = l + m
      /\ \A k \in 1..l : c[k] = ps[k]
      /\ \A k \in 1..m : c[l + k] = qs[k]
      /\ \A k \in 1..(l + m) : k \in 1..l \/ \E j \in 1..m : k = l + j
  <2>1. /\ Sequence(ps \o qs) /\ Len(ps \o qs) = Len(ps) + Len(qs)
        /\ \A k \in 1..Len(ps) : (ps \o qs)[k] = ps[k]
        /\ \A k \in 1..Len(qs) : (ps \o qs)[Len(ps) + k] = qs[k]
        /\ \A k \in 1..(Len(ps) + Len(qs)) : k \in 1..Len(ps) \/ \E j \in 1..Len(qs) : k = Len(ps) + j
    BY ONLY <1>2, Joining
  <2> QED
    BY ONLY <1>1, <1>1, <2>1
<1>4. \A k \in 1..l : /\ ps[k][1] \in Nat /\ ps[k][2] \in Nat
                      /\ 0 < ps[k][1] /\ ps[k][1] <= ps[k][2] /\ ps[k][2] <= len
  BY <1>1 DEF PartsOK
<1>5. \A k \in 1..m : /\ qs[k][1] \in Nat /\ qs[k][2] \in Nat
                      /\ 0 < qs[k][1] /\ qs[k][1] <= qs[k][2] /\ qs[k][2] <= len
  BY <1>1 DEF PartsOK
<1>6. ASSUME NEW k \in 1..(l + m)
      PROVE  /\ c[k][1] \in Nat /\ c[k][2] \in Nat
             /\ 0 < c[k][1] /\ c[k][1] <= c[k][2] /\ c[k][2] <= len
  <2>1. CASE k \in 1..l
    BY <2>1, <1>3, <1>4
  <2>2. CASE \E j \in 1..m : k = l + j
    BY <2>2, <1>3, <1>5
  <2> QED
    BY <1>3, <2>1, <2>2
<1>7. ASSUME NEW j \in 1..(l + m), NEW k \in 1..(l + m), j < k
      PROVE  c[j][2] < c[k][1]
  <2>1. CASE j \in 1..l /\ k \in 1..l
    BY <2>1, <1>1, <1>3, <1>7 DEF PartsOK
  <2>2. ASSUME j \in 1..l, NEW y \in 1..m, k = l + y PROVE c[j][2] < c[k][1]
    BY <2>2, <1>1, <1>3
  <2>3. ASSUME NEW x \in 1..m, j = l + x, NEW y \in 1..m, k = l + y PROVE c[j][2] < c[k][1]
    <3>1. x < y
      BY <2>3, <1>2, <1>7
    <3>2. qs[x][2] < qs[y][1]
      BY <3>1, <1>1 DEF PartsOK
    <3> QED
      BY <3>2, <2>3, <1>3
  <2>4. ASSUME NEW x \in 1..m, j = l + x, k \in 1..l PROVE FALSE
    BY <2>4, <1>2, <1>7
  <2> QED
    BY <1>3, <2>1, <2>2, <2>3, <2>4
<1>8. PartsOK(c, len)
  BY <1>3, <1>6, <1>7 DEF PartsOK
<1>9. ASSUME NEW n, PartsHold(ps, n) PROVE PartsHold(c, n)
  <2>1. PICK k \in 1..l : n \in ps[k][1]..ps[k][2]
    BY <1>1, <1>9 DEF PartsHold
  <2>2. k \in 1..(l + m) /\ c[k] = ps[k]
    BY <1>2, <1>3
  <2> QED
    BY <2>1, <2>2, <1>3 DEF PartsHold
<1>10. ASSUME NEW n, PartsHold(qs, n) PROVE PartsHold(c, n)
  <2>1. PICK k \in 1..m : n \in qs[k][1]..qs[k][2]
    BY <1>1, <1>10 DEF PartsHold
  <2>2. l + k \in 1..(l + m) /\ c[l + k] = qs[k]
    BY <1>2, <1>3
  <2> QED
    BY <2>1, <2>2, <1>3 DEF PartsHold
<1> QED
  BY <1>1, <1>8, <1>9, <1>10

\* A block is cut into parts, and the line it is about stays in one of them.
LEMMA CutParts ==
  ASSUME NEW first \in Nat, NEW last \in Nat, NEW n \in Nat, NEW len \in Nat,
         0 < first, first <= n, n <= last, last <= len
  PROVE  /\ PartsOK(Cut(first, last, n), len) /\ PartsHold(Cut(first, last, n), n)
         /\ \A k \in 1..Len(Cut(first, last, n)) : first <= Cut(first, last, n)[k][1]
<1> DEFINE head == first + KeptLines - 1
           tail == last - KeptLines + 1
           from == Upper(n - Around, head + 1)
           to == Lower(n + Around, tail - 1)
<1>1. KeptLines \in Nat /\ 0 < KeptLines /\ MaxBlockLines \in Nat /\ 2 * KeptLines <= MaxBlockLines /\ Around \in Nat
  BY FrameAssumption
<1>2. Cut(first, last, n) = CutAt(first, last, n, head, tail)
  BY DEF Cut
<1>3. CASE last - first + 1 <= MaxBlockLines
  <2>1. Cut(first, last, n) = <<<<first, last>>>>
    BY <1>2, <1>3 DEF CutAt
  <2>2. PartsOK(<<<<first, last>>>>, len)
    BY OnePart
  <2>3. PartsHold(<<<<first, last>>>>, n)
    BY DEF PartsHold
  <2> QED
    BY <2>1, <2>2, <2>3
<1>4. CASE ~(last - first + 1 <= MaxBlockLines)
  <2>1. /\ head \in Nat /\ tail \in Nat /\ first <= head /\ head + 1 < tail /\ tail <= last
        /\ 0 < tail /\ head <= len
    BY <1>1, <1>4
  <2>2. PICK h, t : h = head /\ t = tail
    OBVIOUS
  <2>3. Cut(first, last, n) = CutAt(first, last, n, h, t)
    BY <1>2, <2>2
  <2>4. h \in Nat /\ t \in Nat /\ first <= h /\ h + 1 < t /\ t <= last /\ h <= len
    BY <2>1, <2>2
  <2> DEFINE one == <<<<first, h>>>>
             two == <<<<t, last>>>>
             mid == <<<<Upper(n - Around, h + 1), Lower(n + Around, t - 1)>>>>
  <2>5. PartsOK(one, len) /\ PartsOK(two, len)
    BY <2>4, OnePart
  <2>6. CASE n <= h \/ n >= t
    <3>1. Cut(first, last, n) = one \o two
      BY <2>3, <1>4, <2>6 DEF CutAt
    <3>2. PartsOK(one \o two, len) /\ (PartsHold(one, n) \/ PartsHold(two, n) => PartsHold(one \o two, n))
      <4>1. \A j \in 1..Len(one), k \in 1..Len(two) : one[j][2] < two[k][1]
        BY <2>4
      <4> HIDE DEF one, two
      <4> QED
        BY <2>5, <4>1, PartsJoin
    <3>3. PartsHold(one, n) \/ PartsHold(two, n)
      BY <2>4, <2>6 DEF PartsHold
    <3>4. \A k \in 1..Len(one \o two) : first <= (one \o two)[k][1]
      BY <2>4
    <3> QED
      BY <3>1, <3>2, <3>3, <3>4
  <2>7. CASE ~(n <= h \/ n >= t)
    <3>1. PICK a, b : a = Upper(n - Around, h + 1) /\ b = Lower(n + Around, t - 1)
      OBVIOUS
    <3>2. a \in Nat /\ b \in Nat /\ h < a /\ a <= n /\ n <= b /\ b < t /\ 0 < a /\ b <= len
      BY <3>1, <2>4, <2>7, <1>1 DEF Upper, Lower
    <3>3. mid = <<<<a, b>>>>
      BY <3>1
    <3>4. Cut(first, last, n) = one \o (<<<<a, b>>>> \o two)
      <4>1. Cut(first, last, n) = <<<<first, h>>, <<a, b>>, <<t, last>>>>
        BY <2>3, <1>4, <2>7, <3>1 DEF CutAt
      <4> QED
        BY <4>1
    <3> DEFINE ab == <<<<a, b>>>>
               rest == ab \o two
    <3>5. PartsOK(ab, len) /\ PartsHold(ab, n)
      BY <3>2, OnePart DEF PartsHold
    <3>6. PartsOK(rest, len) /\ PartsHold(rest, n)
      <4>1. \A j \in 1..Len(ab), k \in 1..Len(two) : ab[j][2] < two[k][1]
        BY <3>2
      <4> HIDE DEF ab, two
      <4> QED
        BY <2>5, <3>5, <4>1, PartsJoin
    <3>7. PartsOK(one \o rest, len) /\ PartsHold(one \o rest, n)
      <4>1. \A j \in 1..Len(one), k \in 1..Len(rest) : one[j][2] < rest[k][1]
        BY <3>2, <2>4
      <4> HIDE DEF one, rest
      <4> QED
        BY <2>5, <3>6, <4>1, PartsJoin
    <3>8. \A k \in 1..Len(one \o rest) : first <= (one \o rest)[k][1]
      BY <2>4, <3>2
    <3> QED
      BY <3>4, <3>7, <3>8
  <2> QED
    BY <2>6, <2>7
<1> QED
  BY <1>3, <1>4

LEMMA BlockParts ==
  ASSUME NEW n \in Nat, NEW len \in Nat, NEW b, BlockOK(b, n, len)
  PROVE  PartsOK(PartsOf(b, n), len) /\ PartsHold(PartsOf(b, n), n)
<1>1. PICK c : c = Cut(b.first, b.last, n)
  OBVIOUS
<1>2. PartsOK(c, len) /\ PartsHold(c, n) /\ \A k \in 1..Len(c) : b.first <= c[k][1]
  <2>1. PICK first, last : first = b.first /\ last = b.last
    OBVIOUS
  <2>2. first \in Nat /\ last \in Nat /\ 0 < first /\ first <= n /\ n <= last /\ last <= len
    BY <2>1 DEF BlockOK
  <2>3. c = Cut(first, last, n)
    BY <1>1, <2>1
  <2>4. PartsOK(Cut(first, last, n), len) /\ PartsHold(Cut(first, last, n), n)
    BY ONLY <2>2, CutParts, n \in Nat, len \in Nat
  <2>5. \A k \in 1..Len(Cut(first, last, n)) : first <= Cut(first, last, n)[k][1]
    BY ONLY <2>2, CutParts, n \in Nat, len \in Nat
  <2> QED
    BY <2>1, <2>3, <2>4, <2>5
<1>3. CASE b.from < b.first
  <2> DEFINE one == <<<<b.from, b.first - 1>>>>
  <2>1. PartsOf(b, n) = one \o c
    BY <1>1, <1>3 DEF PartsOf
  <2>2. b.from \in Nat /\ b.first - 1 \in Nat /\ 0 < b.from /\ b.from <= b.first - 1 /\ b.first - 1 <= len
    BY <1>3 DEF BlockOK
  <2>3. PartsOK(one, len)
    BY <2>2, OnePart
  <2>4. \A j \in 1..Len(one), k \in 1..Len(c) : one[j][2] < c[k][1]
    <3>1. ASSUME NEW k \in 1..Len(c) PROVE b.first - 1 < c[k][1]
      <4>1. c[k][1] \in Nat /\ b.first <= c[k][1] /\ b.first \in Nat
        BY <1>2 DEF PartsOK, BlockOK
      <4> QED
        BY <4>1
    <3> QED
      BY <3>1
  <2> HIDE DEF one
  <2> QED
    BY <1>2, <2>1, <2>3, <2>4, PartsJoin
<1>4. CASE ~(b.from < b.first)
  <2>1. PartsOf(b, n) = << >> \o c
    BY <1>1, <1>4 DEF PartsOf
  <2>2. c \in Seq(ToSet(c))
    BY <1>2 DEF PartsOK, Sequence
  <2>3. PartsOf(b, n) = c
    BY <2>1, <2>2
  <2> QED
    BY <1>2, <2>3
<1> QED
  BY <1>3, <1>4

LEMMA RenderShows ==
  ASSUME NEW n \in Nat, NEW len \in Nat, NEW b, BlockOK(b, n, len)
  PROVE  ShowsWell(Render(b, n), n, len)
<1>1. PICK parts : parts = PartsOf(b, n)
  OBVIOUS
<1>2. PICK m : m = Len(parts)
  OBVIOUS
<1>3. PartsOK(parts, len) /\ PartsHold(parts, n)
  BY <1>1, BlockParts
<1>4. m \in Nat /\ m # 0
  <2>1. m \in Nat
    BY <1>2, <1>3, Listing DEF PartsOK
  <2>2. \E k \in 1..m : TRUE
    BY <1>2, <1>3 DEF PartsHold
  <2> QED
    BY <2>1, <2>2
<1>5. PICK s : s = Shown(parts)[m]
  OBVIOUS
<1>6. ShownTo(s, parts, m)
  <2>1. m \in 0..m
    BY <1>4
  <2> QED
    BY <2>1, <1>2, <1>3, <1>5, ShownParts
<1>7. PICK out, last : out = s.out /\ last = s.last
  OBVIOUS
<1>8. Render(b, n) = out
  BY <1>1, <1>2, <1>5, <1>7 DEF Render
<1>9. OutOK(out, last) /\ last \in Nat /\ last <= len
  <2>1. last = parts[m][2] /\ OutOK(out, last) /\ last \in Nat
    BY <1>4, <1>6, <1>7 DEF ShownTo
  <2>2. m \in 1..m
    BY <1>4
  <2> QED
    BY <2>1, <2>2, <1>2, <1>3 DEF PartsOK
<1>10. n \in ToSet(out)
  <2>1. PICK k \in 1..m : n \in parts[k][1]..parts[k][2]
    BY <1>2, <1>3 DEF PartsHold
  <2>2. parts[k][1]..parts[k][2] \subseteq ToSet(out)
    BY <1>6, <1>7 DEF ShownTo
  <2> QED
    BY <2>1, <2>2
<1>11. Sequence(out) /\ DOMAIN out = 1..Len(out)
  BY <1>9, ListingOf, Listing DEF OutOK
<1>12. ToSet(out) \subseteq 0..len
  <2>1. ASSUME NEW x \in ToSet(out) PROVE x \in 0..len
    <3>1. PICK k \in 1..Len(out) : x = out[k]
      BY <1>11 DEF ToSet
    <3>2. x \in Nat /\ x <= last
      BY <3>1, <1>9 DEF OutOK
    <3> QED
      BY <3>2, <1>9
  <2> QED
    BY <2>1
<1> QED
  BY <1>8, <1>9, <1>10, <1>11, <1>12 DEF ShowsWell, OutOK

-----------------------------------------------------------------------------
(* The block of lines around a line. *)

LEMMA LimitsOf ==
  ASSUME NEW a \in Int, NEW b \in Int
  PROVE  /\ Lower(a, b) \in {a, b} /\ Lower(a, b) <= a /\ Lower(a, b) <= b
         /\ Upper(a, b) \in {a, b} /\ Upper(a, b) >= a /\ Upper(a, b) >= b
  BY DEF Lower, Upper

\* A fence opens at a line before the one it is looked at from.
LEMMA PositionType ==
  ASSUME NEW lines, Sequence(lines), NEW first \in Nat, NEW n \in 1..Len(lines), first <= n,
         Position(lines, first, n).open # NoFence
  PROVE  Position(lines, first, n).at \in first..(n - 1)
<1>1. PICK len : len = Len(lines)
  OBVIOUS
<1>2. len \in Nat
  BY <1>1, Listing
<1> DEFINE p == Positions(lines, first)
           T == {k \in Nat : p[k].open # NoFence => p[k].at \in first..k}
<1>3. p[0] = [open |-> NoFence, at |-> 0]
  BY <1>1, <1>2, PositionsCourse
<1>4. \A k \in 1..len : p[k] = IF k < first THEN p[k - 1] ELSE ReadFence(p[k - 1], Fence(lines[k]), k)
  BY <1>1, <1>2, PositionsCourse
<1> HIDE DEF p
<1>5. 0 \in T
  BY <1>3
<1>6. ASSUME NEW k \in 1..len, k - 1 \in T PROVE k \in T
  <2>1. PICK j : j = k - 1
    OBVIOUS
  <2>2. j \in Nat /\ k \in Nat /\ k = j + 1
    BY <1>2, <2>1
  <2>3. p[j].open # NoFence => p[j].at \in first..j
    BY <1>6, <2>1
  <2>4. p[j].open # NoFence => p[j].at \in first..k
    BY <2>2, <2>3
  <2>5. PICK acc, f : acc = p[j] /\ f = Fence(lines[k])
    OBVIOUS
  <2>6. CASE k < first
    <3>1. p[k] = p[j]
      BY <1>4, <2>1, <2>6
    <3> QED
      BY <2>2, <2>4, <3>1
  <2>7. CASE ~(k < first)
    <3>1. p[k] = ReadFence(acc, f, k)
      BY <1>4, <2>1, <2>5, <2>7
    <3>2. CASE acc.open = NoFence /\ f # NoFence
      <4>1. p[k].at = k
        BY <3>1, <3>2 DEF ReadFence
      <4> QED
        BY <4>1, <2>2, <2>7
    <3>3. CASE ~(acc.open = NoFence /\ f # NoFence) /\ acc.open # NoFence /\ Closes(f, acc.open)
      <4>1. p[k].open = NoFence
        BY <3>1, <3>3 DEF ReadFence
      <4> QED
        BY <4>1, <2>2
    <3>4. CASE ~(acc.open = NoFence /\ f # NoFence) /\ ~(acc.open # NoFence /\ Closes(f, acc.open))
      <4>1. p[k] = acc
        BY <3>1, <3>4 DEF ReadFence
      <4> QED
        BY <4>1, <2>2, <2>4, <2>5
    <3> QED
      BY <3>2, <3>3, <3>4
  <2> QED
    BY <2>6, <2>7
<1> HIDE DEF T
<1>7. \A k \in 0..len : k \in T
  BY <1>2, <1>5, <1>6, UpTo
<1>8. n - 1 \in 0..len
  BY <1>1, <1>2
<1>9. Position(lines, first, n) = p[n - 1]
  BY DEF Position, p
<1> QED
  BY <1>7, <1>8, <1>9 DEF T

LEMMA ClosingType ==
  ASSUME NEW lines, Len(lines) \in Nat, NEW n \in 1..Len(lines), NEW from \in Nat, n <= from,
         NEW open
  PROVE  Closing(lines, from, open) \in n..Len(lines)
<1> DEFINE I == {k \in from..Len(lines) : Closes(Fence(lines[k]), open)} \cup {Len(lines)}
<1>1. PICK len : len = Len(lines)
  OBVIOUS
<1>2. I \in SUBSET Nat /\ I # {} /\ I \subseteq n..len
  BY <1>1
<1> HIDE DEF I
<1>3. Least(I) \in I
  BY <1>2, LeastOf
<1> QED
  BY <1>1, <1>2, <1>3 DEF Closing, I

\* The paragraph of a line is around it.
LEMMA ParagraphType ==
  ASSUME NEW lines, Len(lines) \in Nat, NEW first \in Nat \ {0}, NEW n \in 1..Len(lines), first <= n
  PROVE  /\ Paragraph(lines, n, first)[1] \in first..n
         /\ Paragraph(lines, n, first)[2] \in n..Len(lines)
<1>1. PICK len : len = Len(lines)
  OBVIOUS
<1>2. len \in Nat /\ n \in Nat /\ n <= len
  BY <1>1
<1>3. TextTo(lines, n) \in n..len
  <2> DEFINE I == {k \in (n + 1)..len : Kind(lines[k]) # "text"} \cup {len + 1}
  <2>1. I \in SUBSET Nat /\ I # {} /\ I \subseteq (n + 1)..(len + 1)
    BY <1>2
  <2>2. TextTo(lines, n) = Least(I) - 1
    BY <1>1 DEF TextTo
  <2> HIDE DEF I
  <2>3. Least(I) \in I
    BY <2>1, LeastOf
  <2>4. PICK m : m = Least(I)
    OBVIOUS
  <2>5. m \in (n + 1)..(len + 1)
    BY <2>1, <2>3, <2>4
  <2> QED
    BY <2>2, <2>4, <2>5, <1>2
<1>4. CASE Kind(lines[n]) = "text"
  <2> DEFINE I == {k \in first..n : \A j \in k..n : Kind(lines[j]) = "text"}
  <2>1. n \in I
    <3>1. \A j \in n..n : j = n
      BY <1>2
    <3> QED
      BY <3>1, <1>2, <1>4
  <2>2. I \in SUBSET Nat /\ I # {} /\ I \subseteq first..n
    <3>1. I \subseteq first..n
      OBVIOUS
    <3> HIDE DEF I
    <3> QED
      BY <2>1, <3>1, <1>2
  <2>3. TextFrom(lines, n, first) = Least(I)
    BY DEF TextFrom
  <2> HIDE DEF I
  <2>4. PICK k : k = TextFrom(lines, n, first)
    OBVIOUS
  <2>5. k \in first..n
    BY <2>2, <2>3, <2>4, LeastOf
  <2>6. ItemAbove(lines, k, first) \in first..n
    <3>1. CASE k > first /\ Kind(lines[k - 1]) = "item"
      BY <3>1, <2>5, <1>2 DEF ItemAbove
    <3>2. CASE ~(k > first /\ Kind(lines[k - 1]) = "item")
      BY <3>2, <2>5 DEF ItemAbove
    <3> QED
      BY <3>1, <3>2
  <2>7. Paragraph(lines, n, first) = <<ItemAbove(lines, k, first), TextTo(lines, n)>>
    BY <1>4, <2>4 DEF Paragraph
  <2> QED
    BY <2>6, <2>7, <1>1, <1>3
<1>5. CASE Kind(lines[n]) = "item"
  <2>1. Paragraph(lines, n, first) = <<n, TextTo(lines, n)>>
    BY <1>5 DEF Paragraph
  <2> QED
    BY <2>1, <1>1, <1>2, <1>3
<1>6. CASE Kind(lines[n]) # "text" /\ Kind(lines[n]) # "item"
  <2>1. Paragraph(lines, n, first) = <<n, n>>
    BY <1>6 DEF Paragraph
  <2> QED
    BY <2>1, <1>1, <1>2
<1> QED
  BY <1>4, <1>5, <1>6

\* A block put around lines a to b.
LEMMA BlockAround ==
  ASSUME NEW first \in Nat \ {0}, NEW n \in Nat, NEW len \in Nat,
         NEW a \in first..n, NEW b \in n..len, NEW fence
  PROVE  BlockOK(BlockOf(<<a, b>>, fence), n, len)
<1>1. Before \in Nat
  BY FrameAssumption
<1>2. PICK from : from = Upper(a - Before, 1)
  OBVIOUS
<1>3. from \in Nat /\ 0 < from /\ from <= a
  BY <1>1, <1>2 DEF Upper
<1>4. BlockOf(<<a, b>>, fence) = [from |-> from, first |-> a, last |-> b, fence |-> fence]
  BY <1>2 DEF BlockOf
<1> QED
  BY <1>3, <1>4 DEF BlockOK

LEMMA BodyType ==
  ASSUME NEW lines, Len(lines) \in Nat \ {0}
  PROVE  Body(lines) \in Nat \ {0} /\ Body(lines) - 1 <= Len(lines)
<1> DEFINE I == {k \in 2..Len(lines) : Trim(lines[k]) = <<"---">>} \cup {Len(lines)}
<1>1. PICK len : len = Len(lines)
  OBVIOUS
<1>2. I \in SUBSET Nat /\ I # {} /\ I \subseteq 1..len
  BY <1>1
<1>3. Body(lines) = 1 \/ Body(lines) = Least(I) + 1
  BY DEF Body
<1> HIDE DEF I
<1>4. Least(I) \in 1..len
  BY <1>2, LeastOf
<1> QED
  BY <1>1, <1>3, <1>4

LEMMA TextBlockOK ==
  ASSUME NEW lines, Sequence(lines), Len(lines) \in Nat \ {0}, NEW n \in 1..Len(lines)
  PROVE  BlockOK(TextBlock(lines, n), n, Len(lines))
<1>1. PICK len, first : len = Len(lines) /\ first = Body(lines)
  OBVIOUS
<1>2. PICK p : p = Position(lines, first, n)
  OBVIOUS
<1>3. len \in Nat \ {0} /\ first \in Nat \ {0} /\ first - 1 <= len /\ n \in 1..len /\ n \in Nat
  BY <1>1, BodyType
<1>4. TextBlock(lines, n) = BlockFrom(lines, n, first, p)
  BY <1>1, <1>2 DEF TextBlock, TextBlockFrom
<1>5. CASE n < first
  <2>1. PICK last : last = Lower(first - 1, len)
    OBVIOUS
  <2>2. last \in Nat /\ n <= last /\ last <= len
    BY <2>1, <1>3, <1>5 DEF Lower
  <2>3. BlockFrom(lines, n, first, p) = [from |-> 1, first |-> 1, last |-> last, fence |-> FALSE]
    BY <2>1, <1>1, <1>5 DEF BlockFrom
  <2> QED
    BY <2>2, <2>3, <1>1, <1>3, <1>4 DEF BlockOK
<1>6. CASE n >= first /\ p.open # NoFence
  <2>1. PICK a, b : a = p.at /\ b = Closing(lines, n, p.open)
    OBVIOUS
  <2>2. a \in first..n
    <3>1. a \in first..(n - 1)
      BY <2>1, <1>2, <1>3, <1>6, PositionType
    <3> QED
      BY <3>1, <1>3
  <2>3. b \in n..len
    BY <2>1, <1>1, <1>3, ClosingType
  <2>4. ~(n < first) /\ p.open # NoFence
    BY <1>3, <1>6
  <2>5. BlockFrom(lines, n, first, p) = BlockOf(<<a, b>>, TRUE)
    <3>1. BlockFrom(lines, n, first, p) = BlockOf(<<p.at, Closing(lines, n, p.open)>>, TRUE)
      BY ONLY <2>4 DEF BlockFrom
    <3> QED
      BY <3>1, <2>1
  <2> QED
    BY <2>2, <2>3, <2>5, <1>1, <1>3, <1>4, BlockAround
<1>7. CASE n >= first /\ p.open = NoFence /\ Fence(lines[n]) # NoFence
  <2>1. PICK b : b = Closing(lines, n + 1, Fence(lines[n]))
    OBVIOUS
  <2>2. b \in n..len
    <3>1. n + 1 \in Nat /\ n <= n + 1
      BY <1>3
    <3> QED
      BY <3>1, <2>1, <1>1, <1>3, ClosingType
  <2>3. BlockFrom(lines, n, first, p) = BlockOf(<<n, b>>, TRUE)
    <3>1. ~(n < first) /\ ~(p.open # NoFence) /\ Fence(lines[n]) # NoFence
      BY <1>3, <1>7
    <3>2. BlockFrom(lines, n, first, p) = BlockOf(<<n, Closing(lines, n + 1, Fence(lines[n]))>>, TRUE)
      BY ONLY <3>1 DEF BlockFrom
    <3> QED
      BY <3>2, <2>1
  <2>4. n \in first..n
    BY <1>3, <1>7
  <2> QED
    BY <2>2, <2>3, <2>4, <1>1, <1>3, <1>4, BlockAround
<1>8. CASE n >= first /\ p.open = NoFence /\ Fence(lines[n]) = NoFence
  <2>1. PICK a, b : a = Paragraph(lines, n, first)[1] /\ b = Paragraph(lines, n, first)[2]
    OBVIOUS
  <2>2. a \in first..n /\ b \in n..len
    BY <2>1, <1>1, <1>3, <1>8, ParagraphType
  <2>3. BlockFrom(lines, n, first, p) = BlockOf(Paragraph(lines, n, first), FALSE)
    <3>1. ~(n < first) /\ ~(p.open # NoFence) /\ ~(Fence(lines[n]) # NoFence)
      BY <1>3, <1>8
    <3> QED
      BY ONLY <3>1 DEF BlockFrom
  <2>4. BlockOf(Paragraph(lines, n, first), FALSE) = BlockOf(<<a, b>>, FALSE)
    BY <2>1 DEF BlockOf
  <2> QED
    BY <2>2, <2>3, <2>4, <1>1, <1>3, <1>4, BlockAround
<1> QED
  BY <1>3, <1>5, <1>6, <1>7, <1>8

LEMMA WindowOK ==
  ASSUME NEW lines, Len(lines) \in Nat \ {0}, NEW n \in 1..Len(lines)
  PROVE  BlockOK(Window(lines, n), n, Len(lines))
<1>1. PICK len, a : len = Len(lines) /\ a = Upper(n - Around, 1)
  OBVIOUS
<1>2. PICK b : b = Lower(n + Around, len)
  OBVIOUS
<1>3. len \in Nat /\ n \in 1..len /\ Around \in Nat
  BY <1>1, FrameAssumption
<1>4. a \in Nat /\ 0 < a /\ a <= n /\ b \in Nat /\ n <= b /\ b <= len
  BY <1>1, <1>2, <1>3 DEF Upper, Lower
<1>5. Window(lines, n) = [from |-> a, first |-> a, last |-> b, fence |-> FALSE]
  BY <1>1, <1>2 DEF Window, WindowOf
<1> QED
  BY <1>1, <1>4, <1>5 DEF BlockOK

\* Whatever line of a text is shown, its frame shows it well.
LEMMA FrameShows ==
  ASSUME NEW t, Sequence(t), NEW n \in DOMAIN Lines(t)
  PROVE  /\ ShowsWell(Render(TextBlock(Lines(t), n), n), n, Len(Lines(t)))
         /\ ShowsWell(Render(Window(Lines(t), n), n), n, Len(Lines(t)))
<1>1. PICK lines : lines = Lines(t)
  OBVIOUS
<1>2. PICK len : len = Len(lines)
  OBVIOUS
<1>3. Sequence(lines) /\ len \in Nat \ {0}
  BY <1>1, <1>2, LinesType
<1>4. n \in 1..len /\ n \in Nat /\ len \in Nat
  <2>1. DOMAIN lines = 1..len
    BY <1>2, <1>3, Listing
  <2> QED
    BY <2>1, <1>1, <1>3
<1>5. BlockOK(TextBlock(lines, n), n, len)
  BY <1>2, <1>3, <1>4, TextBlockOK
<1>6. BlockOK(Window(lines, n), n, len)
  BY <1>2, <1>3, <1>4, WindowOK
<1>7. ShowsWell(Render(TextBlock(lines, n), n), n, len)
  BY <1>4, <1>5, RenderShows
<1>8. ShowsWell(Render(Window(lines, n), n), n, len)
  BY <1>4, <1>6, RenderShows
<1> QED
  BY <1>1, <1>2, <1>7, <1>8

-----------------------------------------------------------------------------
(* The fences of a text, as its three readers see them. *)

LEMMA RunType ==
  ASSUME NEW line, Len(line) \in Nat
  PROVE  Run(line) \in Nat
<1> DEFINE I == {k \in 1..(Len(line) + 1) : k = Len(line) + 1 \/ line[k] # line[1]}
<1>1. PICK len : len = Len(line)
  OBVIOUS
<1>2. I \in SUBSET Nat /\ I # {} /\ I \subseteq 1..(len + 1)
  <2>1. I \subseteq 1..(len + 1) /\ len + 1 \in I
    BY <1>1
  <2> HIDE DEF I
  <2> QED
    BY <2>1, <1>1
<1>3. Run(line) = Least(I) - 1
  BY DEF Run
<1> HIDE DEF I
<1>4. PICK m : m = Least(I)
  OBVIOUS
<1>5. m \in 1..(len + 1)
  BY <1>2, <1>4, LeastOf
<1> QED
  BY <1>1, <1>3, <1>4, <1>5

LEMMA RunAtType ==
  ASSUME NEW line, Sequence(line), NEW at
  PROVE  RunAt(line, at).n \in Nat
<1>1. CASE at \in 1..4 /\ line[at] \in {"tick", "tilde"}
  <2>1. PICK rest : rest = SubSeq(line, at, Len(line))
    OBVIOUS
  <2>2. Len(line) \in Nat
    BY Listing
  <2>3. Len(rest) \in Nat
    BY <2>1, <2>2, <1>1 DEF Sequence
  <2>4. Run(rest) \in Nat
    BY <2>3, RunType
  <2>5. RunAt(line, at) = Marked(rest, Run(rest))
    BY <1>1, <2>1 DEF RunAt
  <2> QED
    BY <2>4, <2>5 DEF Marked
<1>2. CASE ~(at \in 1..4 /\ line[at] \in {"tick", "tilde"})
  BY <1>2 DEF RunAt, NoFence
<1> QED
  BY <1>1, <1>2

LEMMA FenceRunType ==
  ASSUME NEW line, Sequence(line)
  PROVE  FenceRun(line).n \in Nat
<1>1. \E at : FenceRun(line) = RunAt(line, at)
  BY Zenon DEF FenceRun
<1> QED
  BY <1>1, RunAtType

\* The equation of Fencing.
LEMMA FencingCourse ==
  ASSUME NEW lines, Len(lines) \in Nat
  PROVE  /\ Fencing(lines)[0] = [open |-> NoFence, out |-> << >>]
         /\ \A k \in 1..Len(lines) : Fencing(lines)[k] = FencedBy(Fencing(lines)[k - 1], FenceRun(lines[k]))
<1> DEFINE n == Len(lines)
           first == [open |-> NoFence, out |-> << >>]
           step(x, k) == FencedBy(x, FenceRun(lines[k]))
           law(f, m) == [k \in 0..m |-> IF k = 0 THEN first ELSE step(f[k - 1], k)]
           S == {m \in Nat : \E f : f = law(f, m)}
           course == CHOOSE f : f = law(f, n)
<1>1. n \in Nat /\ Fencing(lines) = course
  BY DEF Fencing
<1> HIDE DEF n, first, step
<1>2. 0 \in S
  <2>1. [k \in 0..0 |-> first] = law([k \in 0..0 |-> first], 0)
    OBVIOUS
  <2> QED
    BY <2>1
<1>3. ASSUME NEW m \in Nat, m \in S PROVE m + 1 \in S
  <2>1. PICK f : f = law(f, m)
    BY <1>3
  <2>2. PICK g : g = [k \in 0..(m + 1) |-> IF k = m + 1 THEN step(f[m], m + 1) ELSE f[k]]
    OBVIOUS
  <2>3. \A k \in 0..(m + 1) : g[k] = IF k = 0 THEN first ELSE step(g[k - 1], k)
    BY <2>1, <2>2
  <2>4. g = law(g, m + 1)
    BY <2>2, <2>3
  <2> QED
    BY <2>4
<1> HIDE DEF S
<1>4. course = law(course, n)
  BY <1>1, <1>2, <1>3, Induction DEF S
<1> HIDE DEF course
<1>5. course[0] = first /\ \A k \in 1..n : course[k] = step(course[k - 1], k)
  BY <1>1, <1>4
<1> QED
  BY <1>1, <1>5 DEF n, first, step

\* The equation of Blocking.
LEMMA BlockingCourse ==
  ASSUME NEW lines, NEW ends, Len(lines) \in Nat
  PROVE  /\ Blocking(lines, ends)[0] = [open |-> NoFence, from |-> 0, out |-> << >>]
         /\ \A k \in 1..Len(lines) : Blocking(lines, ends)[k] = BlockLine(Blocking(lines, ends)[k - 1], Fence(lines[k]), FromOf(ends, k), FromOf(ends, k + 1))
<1> DEFINE n == Len(lines)
           first == [open |-> NoFence, from |-> 0, out |-> << >>]
           step(x, k) == BlockLine(x, Fence(lines[k]), FromOf(ends, k), FromOf(ends, k + 1))
           law(f, m) == [k \in 0..m |-> IF k = 0 THEN first ELSE step(f[k - 1], k)]
           S == {m \in Nat : \E f : f = law(f, m)}
           course == CHOOSE f : f = law(f, n)
<1>1. n \in Nat /\ Blocking(lines, ends) = course
  BY DEF Blocking
<1> HIDE DEF n, first, step
<1>2. 0 \in S
  <2>1. [k \in 0..0 |-> first] = law([k \in 0..0 |-> first], 0)
    OBVIOUS
  <2> QED
    BY <2>1
<1>3. ASSUME NEW m \in Nat, m \in S PROVE m + 1 \in S
  <2>1. PICK f : f = law(f, m)
    BY <1>3
  <2>2. PICK g : g = [k \in 0..(m + 1) |-> IF k = m + 1 THEN step(f[m], m + 1) ELSE f[k]]
    OBVIOUS
  <2>3. \A k \in 0..(m + 1) : g[k] = IF k = 0 THEN first ELSE step(g[k - 1], k)
    BY <2>1, <2>2
  <2>4. g = law(g, m + 1)
    BY <2>2, <2>3
  <2> QED
    BY <2>4
<1> HIDE DEF S
<1>4. course = law(course, n)
  BY <1>1, <1>2, <1>3, Induction DEF S
<1> HIDE DEF course
<1>5. course[0] = first /\ \A k \in 1..n : course[k] = step(course[k - 1], k)
  BY <1>1, <1>4
<1> QED
  BY <1>1, <1>5 DEF n, first, step

\* The fence a line starts with, for the readers that look for long ones only.
LEMMA FenceLong ==
  ASSUME NEW line, Sequence(line)
  PROVE  /\ Fence(line) # NoFence <=> FenceRun(line).n >= 3
         /\ Fence(line) # NoFence => Fence(line) = FenceRun(line)
         /\ Fence(line).n \in Nat
<1>1. FenceRun(line).n \in Nat
  BY FenceRunType
<1>2. PICK f : f = FenceRun(line)
  OBVIOUS
<1>3. NoFence.n = 0
  BY DEF NoFence
<1>4. Fence(line) = IF f.n < 3 THEN NoFence ELSE f
  BY <1>2 DEF Fence, Long
<1>5. CASE f.n < 3
  <2>1. ~(f.n >= 3)
    BY <1>1, <1>2, <1>5
  <2> QED
    BY <2>1, <1>2, <1>3, <1>4, <1>5
<1>6. CASE ~(f.n < 3)
  <2>1. f.n >= 3 /\ f.n # 0
    BY <1>1, <1>2, <1>6
  <2> QED
    BY <2>1, <1>1, <1>2, <1>3, <1>4, <1>6
<1> QED
  BY <1>5, <1>6

LEMMA ClosesLong ==
  ASSUME NEW line, Sequence(line), NEW open, open.n \in Nat, open.n >= 3
  PROVE  Closes(FenceRun(line), open) <=> Closes(Fence(line), open)
<1>1. CASE Fence(line) # NoFence
  BY <1>1, FenceLong
<1>2. CASE Fence(line) = NoFence
  <2>1. ~(FenceRun(line).n >= 3) /\ FenceRun(line).n \in Nat
    BY <1>2, FenceLong, FenceRunType
  <2>2. ~(FenceRun(line).n >= open.n)
    BY <2>1
  <2>3. Fence(line).n = 0
    BY <1>2 DEF NoFence
  <2>4. ~(Fence(line).n >= open.n)
    BY <2>3
  <2> QED
    BY <2>2, <2>4 DEF Closes
<1> QED
  BY <1>1, <1>2

LEMMA PositionsOpened ==
  ASSUME NEW lines, AreLines(lines)
  PROVE  \A k \in 0..Len(lines) : Opened(Positions(lines, 1), lines, k)
<1>1. PICK len : len = Len(lines)
  OBVIOUS
<1>2. len \in Nat
  BY <1>1, Listing DEF AreLines
<1> DEFINE q == Positions(lines, 1)
<1>3. q[0] = [open |-> NoFence, at |-> 0]
  BY <1>1, <1>2, PositionsCourse
<1>4. \A k \in 1..len : q[k] = IF k < 1 THEN q[k - 1] ELSE ReadFence(q[k - 1], Fence(lines[k]), k)
  BY <1>1, <1>2, PositionsCourse
<1>5. PICK p : p = q
  OBVIOUS
<1>6. p[0].open = NoFence /\ p[0].at = 0
  BY <1>3, <1>5
<1>7. ASSUME NEW k \in 1..len PROVE p[k] = ReadFence(p[k - 1], Fence(lines[k]), k)
  <2>1. ~(k < 1)
    OBVIOUS
  <2> HIDE DEF q
  <2> QED
    BY <2>1, <1>4, <1>5
<1> HIDE DEF q
<1> DEFINE T == {k \in Nat : Opened(p, lines, k)}
<1>8. 0 \in T
  BY <1>6 DEF Opened
<1>9. ASSUME NEW k \in 1..len, k - 1 \in T PROVE k \in T
  <2>1. PICK m : m = k - 1
    OBVIOUS
  <2>2. m \in Nat /\ k \in Nat /\ k = m + 1 /\ k >= 1
    BY <1>2, <2>1
  <2>3. Opened(p, lines, m)
    BY <1>9, <2>1
  <2>4. PICK f : f = Fence(lines[k])
    OBVIOUS
  <2>5. p[k] = ReadFence(p[m], f, k)
    BY <1>7, <2>1, <2>4
  <2>6. CASE p[m].open = NoFence /\ f # NoFence
    <3>1. p[k].open = f /\ p[k].at = k
      BY <2>5, <2>6 DEF ReadFence
    <3>2. f.n \in Nat /\ f.n >= 3
      <4>1. Sequence(lines[k])
        BY <1>1 DEF AreLines
      <4>2. Fence(lines[k]) # NoFence
        BY <2>4, <2>6
      <4> QED
        BY <4>1, <4>2, <2>4, FenceLong
    <3>3. \A j \in k..k : j = k
      BY <2>2
    <3> QED
      BY <3>1, <3>2, <3>3, <2>1, <2>2, <2>6 DEF Opened
  <2>7. CASE p[m].open # NoFence /\ Closes(f, p[m].open)
    <3>1. p[k].open = NoFence
      BY <2>5, <2>7 DEF ReadFence
    <3> QED
      BY <3>1, <2>2 DEF Opened
  <2>8. CASE ~(p[m].open = NoFence /\ f # NoFence) /\ ~(p[m].open # NoFence /\ Closes(f, p[m].open))
    <3>1. p[k] = p[m]
      BY <2>5, <2>8 DEF ReadFence
    <3>2. CASE p[m].open = NoFence
      BY <3>1, <3>2, <2>2 DEF Opened
    <3>3. CASE p[m].open # NoFence
      <4>1. PICK a : a = p[m].at
        OBVIOUS
      <4>2. /\ a \in 1..m /\ p[a - 1].open = NoFence
            /\ p[m].open.n \in Nat /\ p[m].open.n >= 3
            /\ \A j \in a..m : p[j].open = p[m].open /\ p[j].at = p[m].at
        BY <2>3, <3>3, <4>1 DEF Opened
      <4>3. a \in 1..k /\ \A j \in a..k : j \in a..m \/ j = k
        BY <2>2, <4>2
      <4>4. \A j \in a..k : p[j].open = p[k].open /\ p[j].at = p[k].at
        BY <3>1, <4>2, <4>3
      <4>5. p[k].at = a
        BY <3>1, <4>1
      <4>6. p[k].open.n \in Nat /\ p[k].open.n >= 3
        BY <3>1, <4>2
      <4>7. Opened(p, lines, k)
        BY <4>2, <4>3, <4>4, <4>5, <4>6 DEF Opened
      <4> QED
        BY <4>7, <2>2
    <3> QED
      BY <3>2, <3>3
  <2> QED
    BY <2>6, <2>7, <2>8
<1> HIDE DEF T
<1>10. \A k \in 0..len : k \in T
  BY <1>2, <1>8, <1>9, UpTo
<1> QED
  BY <1>1, <1>5, <1>10 DEF T, q

LEMMA FencesRead ==
  ASSUME NEW lines, AreLines(lines)
  PROVE  \A k \in 0..Len(lines) : SameFences(Fencing(lines)[k], Positions(lines, 1), lines, k)
<1>1. PICK len : len = Len(lines)
  OBVIOUS
<1>2. len \in Nat
  BY <1>1, Listing DEF AreLines
<1>3. PICK p, r : p = Positions(lines, 1) /\ r = Fencing(lines)
  OBVIOUS
<1>4. p[0].open = NoFence
  <2>1. Positions(lines, 1)[0] = [open |-> NoFence, at |-> 0]
    BY <1>1, <1>2, PositionsCourse
  <2> QED
    BY <2>1, <1>3
<1>5. ASSUME NEW k \in 1..len PROVE p[k] = ReadFence(p[k - 1], Fence(lines[k]), k)
  <2>1. Positions(lines, 1)[k] = IF k < 1 THEN Positions(lines, 1)[k - 1]
          ELSE ReadFence(Positions(lines, 1)[k - 1], Fence(lines[k]), k)
    BY <1>1, <1>2, PositionsCourse
  <2>2. ~(k < 1)
    OBVIOUS
  <2> QED
    BY <2>1, <2>2, <1>3
<1>6. r[0] = [open |-> NoFence, out |-> << >>]
  BY <1>1, <1>2, <1>3, FencingCourse
<1>7. \A k \in 1..len : r[k] = FencedBy(r[k - 1], FenceRun(lines[k]))
  BY <1>1, <1>2, <1>3, FencingCourse
<1> DEFINE T == {k \in Nat : SameFences(r[k], p, lines, k)}
<1>8. 0 \in T
  <2>1. << >> \in Seq(BOOLEAN) /\ Len(<< >>) = 0
    OBVIOUS
  <2>2. r[0].open = NoFence /\ r[0].out = << >>
    BY <1>6
  <2>3. SameFences(r[0], p, lines, 0)
    BY <2>1, <2>2, <1>4 DEF SameFences
  <2> QED
    BY <2>3
<1>9. ASSUME NEW k \in 1..len, k - 1 \in T PROVE k \in T
  <2>1. PICK m : m = k - 1
    OBVIOUS
  <2>2. m \in Nat /\ k \in Nat /\ k = m + 1 /\ m \in 0..len
    BY <1>2, <2>1
  <2>3. SameFences(r[m], p, lines, m)
    BY <1>9, <2>1
  <2>4. PICK acc, f, g : acc = r[m] /\ f = FenceRun(lines[k]) /\ g = Fence(lines[k])
    OBVIOUS
  <2>5. r[k] = FencedBy(acc, f) /\ p[k] = ReadFence(p[m], g, k)
    BY <1>5, <1>7, <2>1, <2>4
  <2>6. acc.open = p[m].open /\ acc.out \in Seq(BOOLEAN) /\ Len(acc.out) = m
    BY <2>3, <2>4 DEF SameFences
  <2>7. Sequence(lines[k])
    BY <1>1 DEF AreLines
  <2>8. (g # NoFence <=> f.n >= 3) /\ (g # NoFence => g = f)
    BY <2>4, <2>7, FenceLong
  <2>9. acc.open # NoFence => (Closes(f, acc.open) <=> Closes(g, acc.open))
    <3> SUFFICES ASSUME acc.open # NoFence PROVE Closes(f, acc.open) <=> Closes(g, acc.open)
      OBVIOUS
    <3>1. Opened(p, lines, m)
      BY <1>1, <1>3, <2>2, PositionsOpened
    <3>2. acc.open.n \in Nat /\ acc.open.n >= 3
      BY <2>6, <3>1 DEF Opened
    <3> QED
      BY <3>2, <2>4, <2>7, ClosesLong
  <2> DEFINE b == acc.open # NoFence \/ g # NoFence
  <2>10. r[k].out = Append(acc.out, b)
    <3>1. CASE acc.open = NoFence /\ f.n >= 3
      <4>1. PICK q : q = Append(acc.out, TRUE)
        OBVIOUS
      <4>2. b = TRUE
        BY <3>1, <2>8
      <4> HIDE DEF b
      <4>3. r[k].out = Append(acc.out, TRUE)
        <5>1. r[k] = [open |-> f, out |-> q]
          BY <3>1, <2>5, <4>1, Zenon DEF FencedBy
        <5>2. r[k].out = q
          BY ONLY <5>1
        <5> QED
          BY <4>1, <5>2, Zenon
      <4> QED
        BY <4>2, <4>3, Zenon
    <3>2. CASE ~(acc.open = NoFence /\ f.n >= 3)
      <4>1. r[k].out = Append(acc.out, acc.open # NoFence)
        <5>1. PICK c : c = (acc.open # NoFence)
          OBVIOUS
        <5>2. PICK open : open = IF acc.open # NoFence /\ Closes(f, acc.open) THEN NoFence ELSE acc.open
          OBVIOUS
        <5>3. r[k] = [open |-> open, out |-> Append(acc.out, c)]
          BY <3>2, <2>5, <5>1, <5>2, Zenon DEF FencedBy
        <5>4. r[k].out = Append(acc.out, c)
          BY ONLY <5>3
        <5> QED
          BY <5>1, <5>4, Zenon
      <4>2. b = (acc.open # NoFence)
        BY <3>2, <2>8
      <4> HIDE DEF b
      <4> QED
        BY <4>1, <4>2
    <3> QED
      BY <3>1, <3>2
  <2>11. r[k].open = p[k].open
    <3>1. CASE acc.open = NoFence /\ f.n >= 3
      BY <3>1, <2>5, <2>6, <2>8 DEF FencedBy, ReadFence
    <3>2. CASE ~(acc.open = NoFence /\ f.n >= 3) /\ acc.open # NoFence /\ Closes(f, acc.open)
      <4>1. r[k].open = NoFence
        BY <3>2, <2>5 DEF FencedBy
      <4>2. p[k].open = NoFence
        BY <3>2, <2>5, <2>6, <2>9 DEF ReadFence
      <4> QED
        BY <4>1, <4>2
    <3>3. CASE ~(acc.open = NoFence /\ f.n >= 3) /\ ~(acc.open # NoFence /\ Closes(f, acc.open))
      <4>1. r[k].open = acc.open
        BY <3>3, <2>5 DEF FencedBy
      <4>2. p[k] = p[m]
        BY <3>3, <2>5, <2>6, <2>8, <2>9 DEF ReadFence
      <4> QED
        BY <4>1, <4>2, <2>6
    <3> QED
      BY <3>1, <3>2, <3>3
  <2>12. b \in BOOLEAN /\ (b <=> InCode(p, lines, k))
    BY <2>1, <2>4, <2>6 DEF InCode
  <2> HIDE DEF b
  <2>13. PICK out : out = acc.out
    OBVIOUS
  <2>14. /\ Append(out, b) \in Seq(BOOLEAN) /\ Len(Append(out, b)) = k
         /\ \A j \in 1..m : Append(out, b)[j] = out[j]
         /\ Append(out, b)[k] = b
    BY <2>2, <2>6, <2>12, <2>13, AppendProperties
  <2>15. ASSUME NEW j \in 1..k PROVE r[k].out[j] <=> InCode(p, lines, j)
    <3>1. CASE j \in 1..m
      <4>1. acc.out[j] <=> InCode(p, lines, j)
        BY <3>1, <2>3, <2>4 DEF SameFences
      <4>2. r[k].out[j] = acc.out[j]
        BY <3>1, <2>10, <2>13, <2>14
      <4> QED
        BY <4>1, <4>2
    <3>2. CASE j = k
      BY <3>2, <2>10, <2>12, <2>13, <2>14
    <3> QED
      BY <3>1, <3>2, <2>2
  <2>16. SameFences(r[k], p, lines, k)
    BY <2>10, <2>11, <2>13, <2>14, <2>15 DEF SameFences
  <2> QED
    BY <2>2, <2>16
<1> HIDE DEF T
<1>10. \A k \in 0..len : k \in T
  BY <1>2, <1>8, <1>9, UpTo
<1> QED
  BY <1>1, <1>3, <1>10 DEF T

\* A line has no fence when its run of marks is too short.
LEMMA NoFenceIs ==
  ASSUME NEW c, Sequence(c), NEW line, Sequence(line), Fence(c).n = Fence(line).n
  PROVE  Fence(c) = NoFence <=> Fence(line) = NoFence
<1>1. ASSUME NEW l, Sequence(l) PROVE Fence(l) = NoFence <=> ~(Fence(l).n >= 3)
  <2>1. NoFence.n = 0
    BY DEF NoFence
  <2> QED
    BY <2>1, <1>1, FenceLong
<1> QED
  BY <1>1

\* Without a fence in the frontmatter, it is all the same where reading begins.
LEMMA FirstFences ==
  ASSUME NEW lines, AreLines(lines), NEW first \in Nat \ {0},
         \A k \in 1..Len(lines) : k < first => Fence(lines[k]) = NoFence
  PROVE  \A k \in 0..Len(lines) :
           /\ Positions(lines, first)[k] = Positions(lines, 1)[k]
           /\ k < first => Positions(lines, 1)[k].open = NoFence
<1>1. PICK len, q, p : len = Len(lines) /\ q = Positions(lines, first) /\ p = Positions(lines, 1)
  OBVIOUS
<1>2. len \in Nat
  BY <1>1, Listing DEF AreLines
<1>3. q[0] = p[0] /\ p[0].open = NoFence
  <2>1. q[0] = [open |-> NoFence, at |-> 0] /\ p[0] = [open |-> NoFence, at |-> 0]
    BY <1>1, <1>2, PositionsCourse
  <2> QED
    BY <2>1
<1> DEFINE T == {k \in Nat : q[k] = p[k] /\ (k < first => p[k].open = NoFence)}
<1>4. 0 \in T
  BY <1>3
<1>5. ASSUME NEW k \in 1..len, k - 1 \in T PROVE k \in T
  <2>1. k \in Nat /\ ~(k < 1) /\ (k < first => k - 1 < first)
    BY <1>2
  <2>2. PICK x : x = p[k - 1]
    OBVIOUS
  <2>3. q[k - 1] = x /\ (k < first => x.open = NoFence)
    BY <1>5, <2>1, <2>2
  <2>4. p[k] = ReadFence(x, Fence(lines[k]), k)
    BY <1>1, <1>2, <2>1, <2>2, PositionsCourse
  <2>5. q[k] = IF k < first THEN x ELSE ReadFence(x, Fence(lines[k]), k)
    BY <1>1, <1>2, <2>3, PositionsCourse
  <2>6. k < first => ReadFence(x, Fence(lines[k]), k) = x
    BY <1>1, <2>3 DEF ReadFence
  <2> QED
    BY <2>1, <2>3, <2>4, <2>5, <2>6
<1> HIDE DEF T
<1>6. \A k \in 0..len : k \in T
  BY <1>2, <1>4, <1>5, UpTo
<1> QED
  BY <1>1, <1>6 DEF T

\* Texts whose fences are the same up to line n are within fences alike.
LEMMA FencesTied ==
  ASSUME NEW c, AreLines(c), NEW lines, AreLines(lines),
         NEW n \in Nat, n <= Len(c), n <= Len(lines),
         \A k \in 1..n : SameFence(Fence(c[k]), Fence(lines[k]))
  PROVE  \A k \in 0..n : Tied(Positions(c, 1)[k], Positions(lines, 1)[k])
<1>1. PICK q, p : q = Positions(c, 1) /\ p = Positions(lines, 1)
  OBVIOUS
<1>2. Len(c) \in Nat /\ Len(lines) \in Nat
  BY Listing DEF AreLines
<1>3. q[0].open = NoFence /\ p[0].open = NoFence
  <2>1. q[0] = [open |-> NoFence, at |-> 0] /\ p[0] = [open |-> NoFence, at |-> 0]
    BY <1>1, <1>2, PositionsCourse
  <2> QED
    BY <2>1
<1> DEFINE T == {k \in Nat : Tied(q[k], p[k])}
<1>4. 0 \in T
  BY <1>3 DEF Tied
<1>5. ASSUME NEW k \in 1..n, k - 1 \in T PROVE k \in T
  <2>1. k \in Nat /\ ~(k < 1) /\ k \in 1..Len(c) /\ k \in 1..Len(lines)
    BY <1>2
  <2>2. PICK x, y, f, g : x = q[k - 1] /\ y = p[k - 1] /\ f = Fence(c[k]) /\ g = Fence(lines[k])
    OBVIOUS
  <2>3. Tied(x, y)
    BY <1>5, <2>2
  <2>4. q[k] = ReadFence(x, f, k) /\ p[k] = ReadFence(y, g, k)
    BY <1>1, <1>2, <2>1, <2>2, PositionsCourse
  <2>5. SameFence(f, g)
    BY <2>2
  <2>6. f = NoFence <=> g = NoFence
    BY <2>1, <2>2, <2>5, NoFenceIs DEF SameFence, AreLines
  <2>7. Closes(f, x.open) <=> Closes(g, y.open)
    BY <2>3, <2>5 DEF Closes, Tied, SameFence
  <2>8. Tied(ReadFence(x, f, k), ReadFence(y, g, k))
    <3>1. CASE x.open = NoFence /\ f # NoFence
      BY <3>1, <2>3, <2>5, <2>6 DEF ReadFence, Tied, SameFence
    <3>2. CASE x.open = NoFence /\ f = NoFence
      BY <3>2, <2>3, <2>6 DEF ReadFence, Tied
    <3>3. CASE x.open # NoFence
      BY <3>3, <2>3, <2>7 DEF ReadFence, Tied
    <3> QED
      BY <3>1, <3>2, <3>3
  <2> QED
    BY <2>1, <2>4, <2>8
<1> HIDE DEF T
<1>6. \A k \in 0..n : k \in T
  BY <1>4, <1>5, UpTo
<1> QED
  BY <1>1, <1>6 DEF T

\* A line is fenced in the clean text when the frame shows it as a block of code.
LEMMA FencedShown ==
  ASSUME NEW c, AreLines(c), NEW lines, AreLines(lines), Len(c) = Len(lines),
         \A k \in 1..Len(lines) : k < Body(lines) => Fence(lines[k]) = NoFence,
         NEW n \in 1..Len(lines), \A k \in 1..n : SameFence(Fence(c[k]), Fence(lines[k]))
  PROVE  Fenced(c)[n] <=> TextBlock(lines, n).fence
<1>1. PICK len, q, p, first : /\ len = Len(lines) /\ first = Body(lines)
                              /\ q = Positions(c, 1) /\ p = Positions(lines, 1)
  OBVIOUS
<1>2. len \in Nat /\ n \in Nat /\ n \in 1..len /\ len \in 0..len /\ n - 1 \in 0..n /\ n - 1 \in 0..len
  BY <1>1, Listing DEF AreLines
<1>3. first \in Nat \ {0}
  <2>1. len \in Nat \ {0}
    BY <1>2
  <2> QED
    BY <1>1, <2>1, BodyType
<1>4. SameFences(Fencing(c)[len], q, c, len)
  BY <1>1, <1>2, FencesRead
<1>5. Fenced(c)[n] <=> InCode(q, c, n)
  BY <1>1, <1>2, <1>4 DEF Fenced, SameFences
<1>6. Tied(q[n - 1], p[n - 1])
  BY <1>1, <1>2, FencesTied
<1>7. Fence(c[n]) = NoFence <=> Fence(lines[n]) = NoFence
  BY <1>1, <1>2, NoFenceIs DEF SameFence, AreLines
<1>8. Fenced(c)[n] <=> p[n - 1].open # NoFence \/ Fence(lines[n]) # NoFence
  BY <1>5, <1>6, <1>7 DEF InCode, Tied
<1>9. PICK x : x = p[n - 1]
  OBVIOUS
<1>10. Positions(lines, first)[n - 1] = x /\ (n - 1 < first => x.open = NoFence)
  BY <1>1, <1>2, <1>3, <1>9, FirstFences
<1>11. TextBlock(lines, n) = BlockFrom(lines, n, first, x)
  BY <1>1, <1>10 DEF TextBlock, TextBlockFrom, Position
<1>12. BlockFrom(lines, n, first, x).fence <=> x.open # NoFence \/ Fence(lines[n]) # NoFence
  <2>1. \A at : BlockOf(at, TRUE).fence = TRUE /\ BlockOf(at, FALSE).fence = FALSE
    BY DEF BlockOf
  <2>2. n < first => x.open = NoFence /\ Fence(lines[n]) = NoFence
    BY <1>1, <1>2, <1>3, <1>10
  <2> QED
    BY <2>1, <2>2 DEF BlockFrom
<1> QED
  BY <1>8, <1>9, <1>11, <1>12

-----------------------------------------------------------------------------
(* The lines of a text, and the row a rune of it stands in. *)

\* What rises from each number to the next rises.
LEMMA Rising ==
  ASSUME NEW n \in Nat, NEW f, \A k \in 0..n : f[k] \in Nat, \A k \in 1..n : f[k - 1] < f[k]
  PROVE  \A j, k \in 0..n : j < k => f[j] < f[k]
<1>1. ASSUME NEW j \in 0..n PROVE \A k \in 0..n : j < k => f[j] < f[k]
  <2> DEFINE T == {k \in 0..n : j < k => f[j] < f[k]}
  <2>1. 0 \in T
    OBVIOUS
  <2>2. ASSUME NEW k \in 1..n, k - 1 \in T PROVE k \in T
    <3>1. k \in 0..n /\ k - 1 \in 0..n /\ f[k - 1] < f[k]
      OBVIOUS
    <3>2. f[j] \in Nat /\ f[k] \in Nat /\ f[k - 1] \in Nat
      BY <3>1
    <3>3. CASE j < k - 1
      BY <2>2, <3>1, <3>2, <3>3
    <3>4. CASE j = k - 1
      BY <3>1, <3>4
    <3>5. CASE j > k - 1
      BY <3>1, <3>5
    <3> QED
      BY <3>1, <3>3, <3>4, <3>5
  <2> HIDE DEF T
  <2>3. \A k \in 0..n : k \in T
    BY <2>1, <2>2, UpTo
  <2> QED
    BY <2>3 DEF T
<1> QED
  BY <1>1

LEMMA EndsShape ==
  ASSUME NEW t, Sequence(t)
  PROVE  EndsOK(Ends(t), t)
<1> DEFINE I == {k \in DOMAIN t : t[k] = Newline}
           p == Picked(Indices(t), I)
<1>1. PICK len : len = Len(t)
  OBVIOUS
<1>2. len \in Nat /\ DOMAIN t = 1..len
  BY <1>1, Listing
<1>3. I \in SUBSET (1..len) /\ \A k \in I : t[k] = Newline /\ k \in 1..len
  BY <1>2
<1>4. \A k \in 1..len : t[k] = Newline => k \in I
  BY <1>2
<1>5. Ends(t) = Append(p, len + 1)
  BY <1>1 DEF Ends, I
<1> HIDE DEF I
<1>6. Indices(t) = [k \in 1..len |-> Indices(t)[k]] /\ \A k \in 1..len : Indices(t)[k] = k
  BY <1>2 DEF Indices
<1>7. Sequence(Indices(t)) /\ Len(Indices(t)) = len
  BY <1>2, <1>6, Indexed
<1>8. Sequence(p) /\ \E h \in [1..Len(p) -> I] :
        Along(Indices(t), h, p) /\ \A k \in I : \E j \in 1..Len(p) : h[j] = k
  BY <1>3, <1>7, PickedOf
<1> HIDE DEF p
<1>9. PICK h \in [1..Len(p) -> I] :
        Along(Indices(t), h, p) /\ \A k \in I : \E j \in 1..Len(p) : h[j] = k
  BY <1>8
<1>10. PICK m : m = Len(p)
  OBVIOUS
<1>11. m \in Nat
  BY <1>8, <1>10, Listing
<1>12. ASSUME NEW j \in 1..m PROVE p[j] = h[j] /\ h[j] \in I /\ h[j] \in 1..len
  <2>1. h[j] \in I
    BY <1>9, <1>10
  <2>2. p[j] = Indices(t)[h[j]]
    BY <1>9, <1>10 DEF Along
  <2> QED
    BY <2>1, <2>2, <1>3, <1>6
<1>13. \A j, k \in 1..m : j < k => p[j] < p[k]
  <2>1. ASSUME NEW j \in 1..m, NEW k \in 1..m, j < k PROVE p[j] < p[k]
    <3>1. h[j] < h[k]
      BY <1>9, <1>10, <2>1 DEF Along
    <3> QED
      BY <3>1, <1>12
  <2> QED
    BY <2>1
<1>14. \A k \in I : \E j \in 1..m : p[j] = k
  BY <1>9, <1>10, <1>12
<1>15. PICK ends : ends = Ends(t)
  OBVIOUS
<1>16. Len(ends) = m + 1 /\ ends[m + 1] = len + 1 /\ \A j \in 1..m : ends[j] = p[j]
  BY <1>5, <1>8, <1>10, <1>15, Appended
<1>17. \A j \in 1..(m + 1) : j \in 1..m \/ j = m + 1
  BY <1>11
<1>18. ASSUME NEW j \in 1..(m + 1) PROVE ends[j] \in 1..(len + 1)
  BY <1>2, <1>12, <1>16, <1>17
<1>19. ASSUME NEW j \in 1..(m + 1), NEW k \in 1..(m + 1), j < k PROVE ends[j] < ends[k]
  <2>1. j \in 1..m /\ j \in Nat
    BY <1>11, <1>19
  <2>2. CASE k \in 1..m
    BY <2>1, <2>2, <1>13, <1>16, <1>19
  <2>3. CASE k = m + 1
    BY <2>1, <2>3, <1>2, <1>12, <1>16
  <2> QED
    BY <1>17, <2>2, <2>3
<1>20. ASSUME NEW j \in 1..(m + 1), j < m + 1 PROVE ends[j] <= len /\ t[ends[j]] = Newline
  <2>1. j \in 1..m
    BY <1>11, <1>20
  <2>2. ends[j] = h[j] /\ h[j] \in I /\ h[j] \in 1..len
    BY <2>1, <1>12, <1>16
  <2> QED
    BY <2>2, <1>2, <1>3
<1>21. ASSUME NEW k \in 1..len, t[k] = Newline PROVE \E j \in 1..((m + 1) - 1) : ends[j] = k
  <2>1. PICK j \in 1..m : p[j] = k
    BY <1>4, <1>14, <1>21
  <2>2. j \in 1..((m + 1) - 1)
    BY <1>11
  <2> QED
    BY <2>1, <2>2, <1>16
<1>22. Len(ends) \in Nat \ {0}
  BY <1>11, <1>16
<1> HIDE DEF p
<1> QED
  BY <1>1, <1>15, <1>16, <1>18, <1>19, <1>20, <1>21, <1>22 DEF EndsOK

\* The runes from a to b of a text are a text.
LEMMA SubText ==
  ASSUME NEW t, Sequence(t), NEW a \in Nat \ {0}, NEW b \in Int, b <= Len(t)
  PROVE  Sequence(SubSeq(t, a, b))
<1>1. Len(t) \in Nat /\ \A k \in 1..Len(t) : t[k] \in ToSet(t)
  BY Listing
<1>2. \A k \in a..b : t[k] \in ToSet(t)
  BY <1>1
<1>3. SubSeq(t, a, b) \in Seq(ToSet(t))
  BY <1>2, SubSeqProperties
<1> QED
  BY <1>3, ListingOf

LEMMA TrimmedText ==
  ASSUME NEW line, Sequence(line)
  PROVE  Sequence(TrimReturn(line))
<1>1. Sequence(Front(line))
  <2>1. Len(line) \in Nat
    BY Listing
  <2>2. Len(line) - 1 \in Int /\ Len(line) - 1 <= Len(line) /\ 1 \in Nat \ {0}
    BY <2>1
  <2> QED
    BY <2>2, SubText DEF Front
<1> QED
  BY <1>1 DEF TrimReturn

LEMMA LinesAre ==
  ASSUME NEW t, Sequence(t)
  PROVE  AreLines(Lines(t))
<1>1. PICK ends : ends = Ends(t)
  OBVIOUS
<1>2. PICK n, len : n = Len(ends) /\ len = Len(t)
  OBVIOUS
<1>3. len \in Nat
  BY <1>2, Listing
<1>4. EndsOK(ends, t)
  BY <1>1, EndsShape
<1>5. n \in Nat \ {0} /\ ends[n] = len + 1 /\ \A j \in 1..n : ends[j] \in 1..(len + 1)
  BY <1>2, <1>4 DEF EndsOK
<1>6. Sequence(Lines(t)) /\ Len(Lines(t)) = n /\ Sequence(ends)
  BY <1>1, <1>2, LinesType
<1>7. DOMAIN ends = 1..n
  BY <1>2, <1>6, Listing
<1>8. ASSUME NEW k \in 1..n PROVE Sequence(Lines(t)[k])
  <2>1. Lines(t)[k] = TrimReturn(SubSeq(t, FromOf(ends, k), ends[k] - 1))
    BY <1>1, <1>7 DEF Lines, LinesTo
  <2>2. PICK a : a = FromOf(ends, k)
    OBVIOUS
  <2>3. a \in Nat \ {0}
    <3>1. CASE k = 1
      BY <2>2, <3>1 DEF FromOf
    <3>2. CASE k # 1
      <4>1. PICK j : j = k - 1
        OBVIOUS
      <4>2. j \in 1..n
        BY <1>5, <3>2, <4>1
      <4>3. a = Lower(ends[j] + 1, ends[n])
        BY <1>2, <2>2, <3>2, <4>1 DEF FromOf
      <4>4. ends[j] + 1 \in Nat \ {0} /\ ends[n] \in Nat \ {0}
        BY <1>3, <1>5, <4>2
      <4> QED
        BY <4>3, <4>4 DEF Lower
    <3> QED
      BY <3>1, <3>2
  <2>4. PICK b : b = ends[k] - 1
    OBVIOUS
  <2>5. b \in Int /\ b <= Len(t)
    BY <1>2, <1>3, <1>5, <2>4
  <2>6. Sequence(SubSeq(t, a, b))
    BY <2>3, <2>5, SubText
  <2> QED
    BY <2>1, <2>2, <2>4, <2>6, TrimmedText
<1> QED
  BY <1>6, <1>8 DEF AreLines

LEMMA FirstsShape ==
  ASSUME NEW t, Sequence(t), NEW ends, EndsOK(ends, t)
  PROVE  FirstsOK(ends, t)
<1>1. PICK n, len : n = Len(ends) /\ len = Len(t)
  OBVIOUS
<1>2. len \in Nat
  BY <1>1, Listing
<1>3. n \in Nat \ {0} /\ ends[n] = len + 1 /\ \A j \in 1..n : ends[j] \in 1..(len + 1)
  BY <1>1 DEF EndsOK
<1>4. FromOf(ends, 1) = 1
  BY DEF FromOf
<1>5. ASSUME NEW j \in 1..n PROVE FromOf(ends, j + 1) = Lower(ends[j] + 1, len + 1) /\ ends[j] \in 1..(len + 1)
  <2>1. (j + 1) - 1 = j /\ j + 1 # 1
    BY <1>3
  <2>2. FromOf(ends, j + 1) = Lower(ends[(j + 1) - 1] + 1, ends[n])
    BY <1>1, <2>1 DEF FromOf
  <2> QED
    BY <2>1, <2>2, <1>3
<1>6. FromOf(ends, n + 1) = len + 1
  <2>1. n \in 1..n
    BY <1>3
  <2>2. FromOf(ends, n + 1) = Lower((len + 1) + 1, len + 1)
    BY <2>1, <1>3, <1>5
  <2> QED
    BY <2>2, <1>2 DEF Lower
<1>7. ASSUME NEW j \in 1..n, j < n PROVE FromOf(ends, j + 1) = ends[j] + 1
  <2>1. ends[j] <= len
    BY <1>1, <1>7 DEF EndsOK
  <2>2. ends[j] \in Int /\ FromOf(ends, j + 1) = Lower(ends[j] + 1, len + 1)
    BY <1>5
  <2> QED
    BY <2>1, <2>2, <1>2 DEF Lower
<1>8. ASSUME NEW k \in 1..(n + 1) PROVE FromOf(ends, k) \in 1..(len + 1)
  <2>1. CASE k = 1
    BY <2>1, <1>2, <1>4
  <2>2. CASE k # 1
    <3>1. PICK j : j = k - 1
      OBVIOUS
    <3>2. j \in 1..n /\ k = j + 1
      BY <2>2, <3>1, <1>3
    <3>3. FromOf(ends, k) = Lower(ends[j] + 1, len + 1) /\ ends[j] \in 1..(len + 1)
      BY <3>2, <1>5
    <3> QED
      BY <3>3, <1>2 DEF Lower
  <2> QED
    BY <2>1, <2>2
<1> QED
  BY <1>1, <1>4, <1>6, <1>7, <1>8 DEF FirstsOK

\* A rune between the first of line n and its end stands in row n.
LEMMA RowIs ==
  ASSUME NEW t, IsText(t), NEW ends, EndsOK(ends, t),
         NEW n \in 1..Len(ends), NEW k \in 1..Len(t),
         k <= ends[n], n > 1 => ends[n - 1] < k
  PROVE  Row(t, k) = n
<1>1. PICK len, off : len = Len(t) /\ off = Offsets(t)
  OBVIOUS
<1>2. len \in Nat /\ DOMAIN t = 1..len /\ k \in 1..len
  BY <1>1 DEF IsText
<1>3. off[0] = 0 /\ \A j \in 0..len : off[j] \in Nat
  BY <1>1, <1>2, OffsetsCourse, OffsetsGrow
<1>4. \A x, y \in 0..len : x < y => off[x] < off[y]
  <2>1. \A j \in 1..len : off[j - 1] < off[j]
    BY <1>1, OffsetsGrow
  <2> QED
    BY <2>1, <1>2, <1>3, Rising
<1>5. PICK m : m = Len(ends)
  OBVIOUS
<1>6. /\ m \in Nat \ {0} /\ n \in 1..m
      /\ \A j \in 1..m : ends[j] \in 1..(len + 1)
      /\ \A x, y \in 1..m : x < y => ends[x] < ends[y]
      /\ \A j \in 1..m : j < m => ends[j] <= len /\ t[ends[j]] = Newline
      /\ \A x \in 1..len : t[x] = Newline => \E j \in 1..(m - 1) : ends[j] = x
  BY <1>1, <1>5 DEF EndsOK
<1> DEFINE S == {s \in LineStarts(t) : s <= OffsetOf(t, k)}
           g == [x \in 1..n |-> IF x = 1 THEN 0 ELSE off[ends[x - 1]]]
<1>7. OffsetOf(t, k) = off[k - 1]
  BY <1>1 DEF OffsetOf
<1>8. LineStarts(t) = {0} \cup {off[x] : x \in {j \in 1..len : t[j] = Newline}}
  <2>1. ASSUME NEW x \in 1..len PROVE OffsetOf(t, x + 1) = off[x]
    <3>1. (x + 1) - 1 = x
      OBVIOUS
    <3> QED
      BY <3>1, <1>1 DEF OffsetOf
  <2>2. LineStarts(t) = {0} \cup {OffsetOf(t, x + 1) : x \in {j \in 1..len : t[j] = Newline}}
    BY <1>2 DEF LineStarts
  <2> QED
    BY <2>1, <2>2
<1>9. ASSUME NEW x \in 2..n
      PROVE  x - 1 \in 1..m /\ x - 1 < m /\ ends[x - 1] \in 1..(k - 1) /\ ends[x - 1] \in 0..len
  <2>1. PICK y : y = x - 1
    OBVIOUS
  <2>2. y \in 1..m /\ y < m /\ y \in 1..(n - 1) /\ n > 1 /\ n - 1 \in 1..m
    BY <2>1, <1>6
  <2>3. ends[n - 1] < k
    BY <2>2
  <2>4. ends[y] <= ends[n - 1]
    <3>1. CASE y = n - 1
      BY <3>1, <2>2, <1>6
    <3>2. CASE y < n - 1
      BY <3>2, <2>2, <1>6
    <3> QED
      BY <3>1, <3>2, <2>2
  <2>5. ends[y] \in 1..(len + 1) /\ ends[n - 1] \in 1..(len + 1)
    BY <2>2, <1>6
  <2> QED
    BY <2>1, <2>2, <2>3, <2>4, <2>5, <1>2
<1>10. ASSUME NEW x \in 1..n PROVE g[x] \in S
  <2>1. CASE x = 1
    <3>1. k - 1 \in 0..len
      BY <1>2
    <3>2. 0 <= off[k - 1]
      BY <3>1, <1>3
    <3>3. g[x] = 0
      BY <2>1
    <3> QED
      BY <3>2, <3>3, <1>7, <1>8
  <2>2. CASE x # 1
    <3>1. x \in 2..n
      BY <2>2, <1>6
    <3>2. PICK e : e = ends[x - 1]
      OBVIOUS
    <3>3. g[x] = off[e]
      BY <2>2, <3>2
    <3>4. e \in 1..(k - 1) /\ e \in 0..len /\ e \in 1..len /\ t[e] = Newline
      <4>1. ends[x - 1] <= len /\ t[ends[x - 1]] = Newline
        BY <3>1, <1>6, <1>9
      <4>2. ends[x - 1] \in 1..(k - 1) /\ ends[x - 1] \in 0..len
        BY <3>1, <1>9
      <4> QED
        BY <4>1, <4>2, <3>2, <1>2
    <3>5. off[e] <= off[k - 1]
      <4>1. k - 1 \in 0..len /\ (e < k - 1 \/ e = k - 1)
        BY <3>4, <1>2
      <4>2. off[e] \in Nat /\ off[k - 1] \in Nat
        BY <4>1, <3>4, <1>3
      <4>3. CASE e < k - 1
        BY <4>1, <4>2, <4>3, <3>4, <1>4
      <4>4. CASE e = k - 1
        BY <4>2, <4>4
      <4> QED
        BY <4>1, <4>3, <4>4
    <3>6. off[e] \in LineStarts(t)
      BY <3>4, <1>8
    <3> HIDE DEF g
    <3> QED
      BY <3>3, <3>5, <3>6, <1>7
  <2> QED
    BY <2>1, <2>2
<1>11. ASSUME NEW x \in 1..n, NEW y \in 1..n, x < y PROVE g[x] < g[y]
  <2>1. y \in 2..n /\ y # 1
    BY <1>6, <1>11
  <2>2. PICK d : d = ends[y - 1]
    OBVIOUS
  <2>3. g[y] = off[d] /\ d \in 1..(k - 1) /\ d \in 0..len
    BY <2>1, <2>2, <1>9
  <2>4. CASE x = 1
    <3>1. 0 \in 0..len /\ 0 < d
      BY <2>3, <1>2
    <3>2. g[x] = off[0]
      BY <2>4, <1>3
    <3> HIDE DEF g
    <3> QED
      BY <3>1, <3>2, <2>3, <1>4
  <2>5. CASE x # 1
    <3>1. x \in 2..n
      BY <2>5, <1>6
    <3>2. PICK e : e = ends[x - 1]
      OBVIOUS
    <3>3. g[x] = off[e] /\ e \in 0..len
      BY <2>5, <3>1, <3>2, <1>9
    <3>4. e < d
      <4>1. x - 1 \in 1..m /\ y - 1 \in 1..m /\ x - 1 < y - 1
        BY <3>1, <2>1, <1>6, <1>11
      <4> QED
        BY <4>1, <2>2, <3>2, <1>6
    <3> HIDE DEF g
    <3> QED
      BY <3>3, <3>4, <2>3, <1>4
  <2> QED
    BY <2>4, <2>5
<1>12. ASSUME NEW s \in S PROVE \E x \in 1..n : g[x] = s
  <2>1. CASE s = 0
    <3>1. 1 \in 1..n
      BY <1>6
    <3> QED
      BY <3>1, <2>1
  <2>2. CASE s # 0
    <3>1. s \in LineStarts(t) /\ s <= off[k - 1]
      BY <1>7
    <3>2. PICK e \in 1..len : t[e] = Newline /\ s = off[e]
      BY <3>1, <2>2, <1>8
    <3>3. PICK j \in 1..(m - 1) : ends[j] = e
      BY <3>2, <1>6
    <3>4. e <= k - 1
      <4>1. SUFFICES ASSUME k - 1 < e PROVE FALSE
        BY <1>2
      <4>2. k - 1 \in 0..len /\ e \in 0..len
        BY <1>2
      <4>3. off[k - 1] < off[e]
        BY <4>1, <4>2, <1>4
      <4>4. off[k - 1] \in Nat /\ off[e] \in Nat
        BY <4>2, <1>3
      <4> QED
        BY <4>3, <4>4, <3>1, <3>2
    <3>5. j < n
      <4>1. SUFFICES ASSUME n <= j PROVE FALSE
        BY <1>6
      <4>2. j \in 1..m /\ (n = j \/ n < j)
        BY <4>1, <1>6
      <4>3. ends[n] <= ends[j] /\ ends[n] \in Int /\ ends[j] \in Int
        BY <4>2, <1>6
      <4> QED
        BY <4>3, <3>3, <3>4, <1>2
    <3>6. j + 1 \in 1..n /\ (j + 1) - 1 = j /\ j + 1 # 1
      BY <3>5, <1>6
    <3>7. g[j + 1] = off[ends[j]]
      BY <3>6
    <3> QED
      BY <3>2, <3>3, <3>6, <3>7
  <2> QED
    BY <2>1, <2>2
<1>13. g = [x \in 1..n |-> g[x]] /\ n \in Nat
  BY <1>6
<1>14. Row(t, k) = Cardinality(S)
  BY DEF Row, LineAt
<1> HIDE DEF g, S
<1>15. ExistsBijection(1..n, S)
  <2>1. g \in [1..n -> S]
    BY <1>10, <1>13
  <2>2. \A x, y \in 1..n : g[x] = g[y] => x = y
    <3>1. ASSUME NEW x \in 1..n, NEW y \in 1..n, g[x] = g[y] PROVE x = y
      <4>1. g[x] \in Nat /\ g[y] \in Nat
        <5>1. \A s \in S : s \in Nat
          <6>1. \A j \in 1..len : off[j] \in Nat
            BY <1>2, <1>3
          <6> QED
            BY <6>1, <1>8 DEF S
        <5> QED
          BY <5>1, <1>10
      <4>2. ~(x < y) /\ ~(y < x)
        BY <4>1, <3>1, <1>11
      <4> QED
        BY <4>2, <1>13
    <3> QED
      BY <3>1
  <2>3. g \in Injection(1..n, S)
    BY <2>1, <2>2, Fun_IsInj
  <2>4. g \in Surjection(1..n, S)
    BY <2>1, <1>12, Fun_IsSurj
  <2>5. g \in Bijection(1..n, S)
    BY <2>3, <2>4 DEF Bijection
  <2> QED
    BY <2>5 DEF ExistsBijection
<1>16. Cardinality(S) = n
  BY <1>13, <1>15, FS_CountingElements
<1> QED
  BY <1>14, <1>16

-----------------------------------------------------------------------------
(* The blocks of code, and the rows their runes stand in. *)

\* From the line after a to the line before m.
LEMMA RowsWithin ==
  ASSUME NEW t, IsText(t), NEW ends, EndsOK(ends, t), NEW a \in Nat \ {0}, NEW m \in Nat,
         a < m, m <= Len(ends) + 1, FromOf(ends, a + 1) < FromOf(ends, m)
  PROVE  /\ \A k \in FromOf(ends, a + 1)..(FromOf(ends, m) - 1) : Row(t, k) \in (a + 1)..(m - 1)
         /\ FromOf(ends, a + 1) \in Nat /\ FromOf(ends, m) \in Nat
         /\ Row(t, FromOf(ends, a + 1)) = a + 1
<1>1. PICK len, n : len = Len(t) /\ n = Len(ends)
  OBVIOUS
<1>2. Sequence(t) /\ len \in Nat
  BY <1>1, ListingOf DEF IsText
<1>3. /\ n \in Nat \ {0} /\ ends[n] = len + 1
      /\ \A j \in 1..n : ends[j] \in 1..(len + 1)
      /\ \A j, k \in 1..n : j < k => ends[j] < ends[k]
  BY <1>1 DEF EndsOK
<1>4. /\ FromOf(ends, n + 1) = len + 1
      /\ \A j \in 1..n : j < n => FromOf(ends, j + 1) = ends[j] + 1
      /\ \A j \in 1..(n + 1) : FromOf(ends, j) \in 1..(len + 1)
  BY <1>1, <1>2, FirstsShape DEF FirstsOK
<1>5. PICK from, to : from = FromOf(ends, a + 1) /\ to = FromOf(ends, m)
  OBVIOUS
<1>6. a \in 1..n /\ a + 1 \in 1..(n + 1) /\ m \in 1..(n + 1) /\ m - 1 \in 1..n /\ a <= m - 1
  BY <1>1, <1>3
<1>7. from \in 1..(len + 1) /\ to \in 1..(len + 1) /\ from < to
  BY <1>4, <1>5, <1>6
<1>8. a < n
  <2>1. SUFFICES ASSUME a = n PROVE FALSE
    BY <1>3, <1>6
  <2>2. from = len + 1
    BY <2>1, <1>4, <1>5
  <2> QED
    BY <2>2, <1>2, <1>7
<1>9. from = ends[a] + 1 /\ ends[a] \in Int
  BY <1>3, <1>4, <1>5, <1>6, <1>8
<1>10. to - 1 <= ends[m - 1]
  <2>1. PICK x : x = m - 1
    OBVIOUS
  <2>2. x \in 1..n /\ x + 1 = m
    BY <2>1, <1>6
  <2>3. CASE x < n
    <3>1. FromOf(ends, x + 1) = ends[x] + 1 /\ ends[x] \in Int
      BY <2>2, <2>3, <1>3, <1>4
    <3>2. to = FromOf(ends, x + 1)
      BY <2>2, <1>5
    <3> QED
      BY <3>1, <3>2, <2>1
  <2>4. CASE x = n
    BY <2>1, <2>4, <1>2, <1>3, <1>7
  <2> QED
    BY <2>2, <2>3, <2>4, <1>3
<1>11. ASSUME NEW k \in from..(to - 1)
       PROVE  Row(t, k) \in (a + 1)..(m - 1) /\ (k = from => Row(t, k) = a + 1)
  <2> DEFINE I == {x \in 1..n : k <= ends[x]}
  <2>1. k \in 1..len /\ k \in Int
    BY <1>2, <1>7
  <2>2. m - 1 \in I
    <3>1. ends[m - 1] \in Int
      BY <1>3, <1>6
    <3> QED
      BY <3>1, <2>1, <1>6, <1>7, <1>10
  <2>3. I \in SUBSET Nat /\ I # {} /\ I \subseteq 1..n /\ \A x \in I : k <= ends[x]
    BY <2>2
  <2>4. \A x \in 1..n : x \notin I => ends[x] < k
    BY <2>1, <1>3
  <2>5. \A x \in I : a < x
    <3>1. ASSUME NEW x \in 1..n, x <= a PROVE ends[x] < k
      <4>1. ends[x] <= ends[a] /\ ends[x] \in Int
        <5>1. CASE x = a
          BY <5>1, <1>3, <1>6
        <5>2. CASE x < a
          BY <5>2, <1>3, <1>6
        <5> QED
          BY <5>1, <5>2, <3>1
      <4> QED
        BY <4>1, <1>9, <2>1
    <3>2. ASSUME NEW x \in I, ~(a < x) PROVE FALSE
      <4>1. x \in 1..n /\ x <= a /\ k <= ends[x] /\ ends[x] \in Int
        BY <3>2, <1>3
      <4> QED
        BY <4>1, <3>1, <2>1
    <3> QED
      BY <3>2
  <2> HIDE DEF I
  <2>6. PICK x : x = Least(I)
    OBVIOUS
  <2>7. x \in I /\ \A y \in I : x <= y
    BY <2>3, <2>6, LeastOf
  <2>8. x \in 1..n /\ k <= ends[x] /\ a < x /\ x <= m - 1
    BY <2>2, <2>3, <2>5, <2>7
  <2>9. ASSUME x > 1 PROVE ends[x - 1] < k
    <3>1. x - 1 \in 1..n /\ ~(x <= x - 1)
      BY <2>8, <2>9, <1>3
    <3>2. x - 1 \notin I
      BY <3>1, <2>7
    <3> QED
      BY <3>1, <3>2, <2>4
  <2>10. Row(t, k) = x
    BY <2>1, <2>8, <2>9, <1>1, RowIs
  <2>11. ASSUME k = from PROVE x = a + 1
    <3>1. a + 1 \in 1..n /\ a < a + 1
      BY <1>3, <1>6, <1>8
    <3>2. ends[a] < ends[a + 1] /\ ends[a + 1] \in Int
      BY <3>1, <1>3, <1>6
    <3>3. k <= ends[a + 1]
      BY <3>2, <2>11, <1>9
    <3>4. a + 1 \in I
      BY <3>1, <3>3 DEF I
    <3>5. x <= a + 1
      BY <3>4, <2>7
    <3> QED
      BY <3>5, <2>8
  <2> QED
    BY <2>8, <2>10, <2>11
<1>12. from \in from..(to - 1)
  BY <1>7
<1> QED
  BY <1>5, <1>7, <1>11, <1>12

LEMMA BlocksRead ==
  ASSUME NEW lines, AreLines(lines), NEW ends, Len(ends) = Len(lines)
  PROVE  \A k \in 0..Len(lines) :
           BlocksOK(Blocking(lines, ends)[k], Positions(lines, 1), ends, k)
<1>1. PICK len : len = Len(lines)
  OBVIOUS
<1>2. len \in Nat
  BY <1>1, Listing DEF AreLines
<1>3. PICK p, r : p = Positions(lines, 1) /\ r = Blocking(lines, ends)
  OBVIOUS
<1>4. p[0].open = NoFence
  <2>1. Positions(lines, 1)[0] = [open |-> NoFence, at |-> 0]
    BY <1>1, <1>2, PositionsCourse
  <2> QED
    BY <2>1, <1>3
<1>5. ASSUME NEW k \in 1..len PROVE p[k] = ReadFence(p[k - 1], Fence(lines[k]), k)
  <2>1. Positions(lines, 1)[k] = IF k < 1 THEN Positions(lines, 1)[k - 1]
          ELSE ReadFence(Positions(lines, 1)[k - 1], Fence(lines[k]), k)
    BY <1>1, <1>2, PositionsCourse
  <2>2. ~(k < 1)
    OBVIOUS
  <2> QED
    BY <2>1, <2>2, <1>3
<1>6. r[0] = [open |-> NoFence, from |-> 0, out |-> << >>]
  BY <1>1, <1>2, <1>3, BlockingCourse
<1>7. \A k \in 1..len : r[k] = BlockLine(r[k - 1], Fence(lines[k]), FromOf(ends, k), FromOf(ends, k + 1))
  BY <1>1, <1>2, <1>3, BlockingCourse
<1> DEFINE T == {k \in Nat : BlocksOK(r[k], p, ends, k)}
<1>8. 0 \in T
  <2>1. Sequence(<< >>) /\ ToSet(<< >>) = {}
    BY DEF Sequence, ToSet
  <2>2. r[0].open = NoFence /\ r[0].out = << >> /\ r[0] = [open |-> r[0].open, from |-> r[0].from, out |-> r[0].out]
    BY <1>6
  <2>3. BlocksOK(r[0], p, ends, 0)
    BY <2>1, <2>2, <1>4 DEF BlocksOK
  <2> QED
    BY <2>3
<1>9. ASSUME NEW k \in 1..len, k - 1 \in T PROVE k \in T
  <2>1. PICK m : m = k - 1
    OBVIOUS
  <2>2. m \in Nat /\ k \in Nat /\ k = m + 1 /\ m \in 0..len
    BY <1>2, <2>1
  <2>3. BlocksOK(r[m], p, ends, m)
    BY <1>9, <2>1
  <2>4. PICK acc, f, at : acc = r[m] /\ f = Fence(lines[k]) /\ at = FromOf(ends, k)
    OBVIOUS
  <2>5. PICK next : next = FromOf(ends, k + 1)
    OBVIOUS
  <2>6. r[k] = BlockLine(acc, f, at, next) /\ p[k] = ReadFence(p[m], f, k)
    BY <1>5, <1>7, <2>1, <2>4, <2>5
  <2>7. /\ acc = [open |-> acc.open, from |-> acc.from, out |-> acc.out]
        /\ acc.open = p[m].open
        /\ acc.open # NoFence => acc.from = FromOf(ends, p[m].at + 1)
        /\ Sequence(acc.out) /\ \A b \in ToSet(acc.out) : Fencelike(b, p, ends)
    BY <2>3, <2>4 DEF BlocksOK
  <2>8. CASE acc.open = NoFence /\ f = NoFence
    <3>1. r[k] = acc
      BY <2>6, <2>8 DEF BlockLine
    <3>2. p[k] = p[m]
      BY <2>6, <2>7, <2>8 DEF ReadFence
    <3>3. BlocksOK(r[k], p, ends, k)
      BY <3>1, <3>2, <2>7, <2>8 DEF BlocksOK
    <3> QED
      BY <3>3, <2>2
  <2>9. CASE acc.open = NoFence /\ f # NoFence
    <3>1. r[k] = [acc EXCEPT !.open = f, !.from = next]
      BY <2>6, <2>9 DEF BlockLine
    <3>2. r[k] = [open |-> f, from |-> next, out |-> acc.out]
      BY <3>1, <2>7
    <3>3. p[k].open = f /\ p[k].at = k
      BY <2>6, <2>7, <2>9 DEF ReadFence
    <3>4. r[k].open = f /\ r[k].from = next /\ r[k].out = acc.out
      BY <3>2
    <3>5. BlocksOK(r[k], p, ends, k)
      BY <3>2, <3>3, <3>4, <2>5, <2>7 DEF BlocksOK
    <3> QED
      BY <3>5, <2>2
  <2>10. CASE acc.open # NoFence /\ ~Closes(f, acc.open)
    <3>1. r[k] = acc
      BY <2>6, <2>10 DEF BlockLine
    <3>2. p[k] = p[m]
      BY <2>6, <2>7, <2>10 DEF ReadFence
    <3>3. BlocksOK(r[k], p, ends, k)
      BY <3>1, <3>2, <2>7 DEF BlocksOK
    <3> QED
      BY <3>3, <2>2
  <2>11. CASE acc.open # NoFence /\ Closes(f, acc.open)
    <3> DEFINE b == [from |-> acc.from, to |-> at]
    <3>1. PICK out : out = IF Known(acc.open) /\ at > acc.from THEN Append(acc.out, b) ELSE acc.out
      OBVIOUS
    <3>2. r[k] = [open |-> NoFence, from |-> 0, out |-> out]
      BY <2>6, <2>11, <3>1 DEF BlockLine
    <3>3. p[k].open = NoFence
      BY <2>6, <2>7, <2>11 DEF ReadFence
    <3>4. ASSUME at > acc.from PROVE Fencelike(b, p, ends)
      <4>1. PICK a : a = p[m].at
        OBVIOUS
      <4>2. Opened(p, lines, m)
        BY <1>1, <1>3, <2>2, PositionsOpened
      <4>3. /\ a \in 1..m /\ p[a - 1].open = NoFence
            /\ \A j \in a..m : p[j].open = p[m].open /\ p[j].at = p[m].at
        BY <4>1, <4>2, <2>7, <2>11 DEF Opened
      <4>4. acc.from = FromOf(ends, a + 1)
        BY <4>1, <2>7, <2>11
      <4>5. b.from = FromOf(ends, a + 1) /\ b.to = FromOf(ends, k) /\ b.from < b.to
        <5>1. acc.from < at
          BY <3>4
        <5> QED
          BY <5>1, <4>4, <2>4
      <4>6. a \in Nat \ {0} /\ a < k /\ k <= Len(ends) + 1 /\ k - 1 = m
        BY <4>3, <2>2, <1>1, <1>2
      <4>7. \A j \in a..(k - 1) : p[j].open # NoFence /\ p[j].at = a
        BY <4>1, <4>3, <4>6, <2>7, <2>11
      <4> HIDE DEF b
      <4>8. Between(b, p, ends, a, k)
        BY <4>3, <4>5, <4>6, <4>7, <2>2 DEF Between
      <4> QED
        BY <4>6, <4>8, <2>2 DEF Fencelike
    <3> HIDE DEF b
    <3>5. Sequence(out) /\ \A x \in ToSet(out) : Fencelike(x, p, ends)
      <4>1. CASE Known(acc.open) /\ at > acc.from
        <5>1. out = Append(acc.out, b) /\ Fencelike(b, p, ends)
          BY <4>1, <3>1, <3>4
        <5> QED
          BY <5>1, <2>7, Appended
      <4>2. CASE ~(Known(acc.open) /\ at > acc.from)
        BY <4>2, <3>1, <2>7
      <4> QED
        BY <4>1, <4>2
    <3>6. r[k].open = NoFence /\ r[k].out = out /\ r[k] = [open |-> r[k].open, from |-> r[k].from, out |-> r[k].out]
      BY <3>2
    <3>7. BlocksOK(r[k], p, ends, k)
      BY <3>3, <3>5, <3>6 DEF BlocksOK
    <3> QED
      BY <3>7, <2>2
  <2> QED
    BY <2>8, <2>9, <2>10, <2>11
<1> HIDE DEF T
<1>10. \A k \in 0..len : k \in T
  BY <1>2, <1>8, <1>9, UpTo
<1> QED
  BY <1>1, <1>3, <1>10 DEF T

\* What the parser takes as code lies between fences.
LEMMA BlocksFenced ==
  ASSUME NEW t, IsText(t), NEW b \in ToSet(Blocks(t))
  PROVE  Fencelike(b, Positions(Lines(t), 1), Ends(t))
<1>1. PICK lines, ends : lines = Lines(t) /\ ends = Ends(t)
  OBVIOUS
<1>2. PICK len, p : len = Len(lines) /\ p = Positions(lines, 1)
  OBVIOUS
<1>3. Sequence(t)
  BY ListingOf DEF IsText
<1>4. AreLines(lines) /\ len = Len(ends) /\ len \in Nat \ {0} /\ EndsOK(ends, t)
  BY <1>1, <1>2, <1>3, LinesAre, LinesType, EndsShape
<1>5. PICK c : c = Blocking(lines, ends)[len]
  OBVIOUS
<1>6. len \in 0..len
  BY <1>4
<1>7. BlocksOK(c, p, ends, len)
  BY <1>2, <1>4, <1>5, <1>6, BlocksRead
<1>8. PICK end : end = ends[len]
  OBVIOUS
<1>9. Blocks(t) = OpenBlock(c, end)
  BY <1>1, <1>2, <1>4, <1>5, <1>8 DEF Blocks, BlocksOf
<1> DEFINE last == [from |-> c.from, to |-> end]
<1>10. CASE c.open # NoFence /\ Known(c.open) /\ end > c.from
  <2>1. Blocks(t) = Append(c.out, last)
    BY <1>9, <1>10 DEF OpenBlock
  <2>2. PICK a : a = p[len].at
    OBVIOUS
  <2>3. Opened(p, lines, len)
    BY <1>2, <1>4, <1>6, PositionsOpened
  <2>4. c.open = p[len].open /\ c.from = FromOf(ends, a + 1)
    BY <1>7, <1>10, <2>2 DEF BlocksOK
  <2>5. /\ a \in 1..len /\ p[a - 1].open = NoFence
        /\ \A j \in a..len : p[j].open = p[len].open /\ p[j].at = p[len].at
    BY <2>2, <2>3, <2>4, <1>10 DEF Opened
  <2>6. FromOf(ends, len + 1) = end
    <3>1. FromOf(ends, len + 1) = Len(t) + 1
      BY <1>3, <1>4, FirstsShape DEF FirstsOK
    <3> QED
      BY <3>1, <1>4, <1>8 DEF EndsOK
  <2>7. last.from = FromOf(ends, a + 1) /\ last.to = FromOf(ends, len + 1) /\ last.from < last.to
    <3>1. c.from < end
      BY <1>10
    <3> QED
      BY <3>1, <2>4, <2>6
  <2> HIDE DEF last
  <2>8. a \in Nat \ {0} /\ a < len + 1 /\ len + 1 \in Nat /\ len + 1 <= Len(ends) + 1 /\ (len + 1) - 1 = len
    BY <2>5, <1>4
  <2>9. \A j \in a..((len + 1) - 1) : p[j].open # NoFence /\ p[j].at = a
    BY <2>2, <2>4, <2>5, <2>8, <1>10
  <2>10. Between(last, p, ends, a, len + 1)
    BY <2>5, <2>7, <2>8, <2>9 DEF Between
  <2>11. Fencelike(last, p, ends)
    BY <2>8, <2>10 DEF Fencelike
  <2>12. \A x \in ToSet(c.out) : Fencelike(x, p, ends)
    BY <1>7 DEF BlocksOK
  <2>13. ToSet(Append(c.out, last)) \subseteq ToSet(c.out) \cup {last}
    BY <1>7, Appended DEF BlocksOK
  <2> QED
    BY <1>1, <1>2, <2>1, <2>11, <2>12, <2>13
<1>11. CASE ~(c.open # NoFence /\ Known(c.open) /\ end > c.from)
  <2>1. Blocks(t) = c.out
    BY <1>9, <1>11 DEF OpenBlock
  <2> QED
    BY <2>1, <1>1, <1>2, <1>7 DEF BlocksOK
<1> QED
  BY <1>10, <1>11

-----------------------------------------------------------------------------
(* What is told of a rule: how often its id stands among some ids, and what  *)
(* that makes of the findings.                                              *)

LEMMA NoIdJoined ==
  ASSUME NEW a, NEW b, Sequence(a), Sequence(b), NEW id, NoId(a, id), NoId(b, id)
  PROVE  NoId(a \o b, id) /\ Sequence(a \o b)
<1>1. /\ Sequence(a \o b) /\ Len(a \o b) = Len(a) + Len(b)
      /\ \A k \in 1..Len(a) : (a \o b)[k] = a[k]
      /\ \A j \in 1..Len(b) : (a \o b)[Len(a) + j] = b[j]
      /\ \A k \in 1..(Len(a) + Len(b)) : k \in 1..Len(a) \/ \E j \in 1..Len(b) : k = Len(a) + j
  BY Joining
<1> DEFINE c == a \o b
<1> HIDE DEF c
<1>2. ASSUME NEW k \in 1..Len(c) PROVE c[k] # id
  <2>1. k \in 1..(Len(a) + Len(b))
    BY <1>1 DEF c
  <2>2. CASE k \in 1..Len(a)
    BY <2>2, <1>1 DEF c, NoId
  <2>3. ASSUME NEW j \in 1..Len(b), k = Len(a) + j PROVE c[k] # id
    BY <2>3, <1>1 DEF c, NoId
  <2> QED
    BY <2>1, <2>2, <2>3, <1>1
<1> QED
  BY <1>1, <1>2 DEF c, NoId

LEMMA OneIdFirst ==
  ASSUME NEW a, NEW b, Sequence(a), Sequence(b), NEW id, OneId(a, id), NoId(b, id)
  PROVE  OneId(a \o b, id) /\ Sequence(a \o b)
<1>1. /\ Sequence(a \o b) /\ Len(a \o b) = Len(a) + Len(b)
      /\ \A k \in 1..Len(a) : (a \o b)[k] = a[k]
      /\ \A j \in 1..Len(b) : (a \o b)[Len(a) + j] = b[j]
      /\ \A k \in 1..(Len(a) + Len(b)) : k \in 1..Len(a) \/ \E j \in 1..Len(b) : k = Len(a) + j
  BY Joining
<1>2. Len(a) \in Nat /\ Len(b) \in Nat
  BY Listing
<1>3. PICK k \in 1..Len(a) : a[k] = id /\ \A j \in 1..Len(a) : a[j] = id => j = k
  BY DEF OneId
<1> DEFINE c == a \o b
<1> HIDE DEF c
<1>4. k \in 1..Len(c) /\ c[k] = id
  <2>1. Len(a) <= Len(c) /\ Len(c) \in Nat
    BY <1>1, <1>2 DEF c
  <2>2. k \in 1..Len(c)
    BY <2>1, <1>2, InLonger
  <2> QED
    BY <2>2, <1>1, <1>3 DEF c
<1>5. ASSUME NEW j \in 1..Len(c), c[j] = id PROVE j = k
  <2>1. j \in 1..(Len(a) + Len(b))
    BY <1>1 DEF c
  <2>2. CASE j \in 1..Len(a)
    BY <2>2, <1>1, <1>3, <1>5 DEF c
  <2>3. ASSUME NEW m \in 1..Len(b), j = Len(a) + m PROVE FALSE
    BY <2>3, <1>1, <1>5 DEF c, NoId
  <2> QED
    BY <2>1, <2>2, <2>3, <1>1
<1> QED
  BY <1>1, <1>4, <1>5 DEF c, OneId

LEMMA OneIdThen ==
  ASSUME NEW a, NEW b, Sequence(a), Sequence(b), NEW id, NoId(a, id), OneId(b, id)
  PROVE  OneId(a \o b, id) /\ Sequence(a \o b)
<1>1. /\ Sequence(a \o b) /\ Len(a \o b) = Len(a) + Len(b)
      /\ \A k \in 1..Len(a) : (a \o b)[k] = a[k]
      /\ \A j \in 1..Len(b) : (a \o b)[Len(a) + j] = b[j]
      /\ \A k \in 1..(Len(a) + Len(b)) : k \in 1..Len(a) \/ \E j \in 1..Len(b) : k = Len(a) + j
  BY Joining
<1>2. Len(a) \in Nat /\ Len(b) \in Nat
  BY Listing
<1>3. PICK k \in 1..Len(b) : b[k] = id /\ \A j \in 1..Len(b) : b[j] = id => j = k
  BY DEF OneId
<1> DEFINE c == a \o b
           h == Len(a) + k
<1> HIDE DEF c
<1>4. h \in 1..Len(c) /\ c[h] = id
  <2>1. h \in 1..(Len(a) + Len(b))
    BY <1>2
  <2> QED
    BY <2>1, <1>1, <1>3 DEF c
<1>5. ASSUME NEW j \in 1..Len(c), c[j] = id PROVE j = h
  <2>1. j \in 1..(Len(a) + Len(b))
    BY <1>1 DEF c
  <2>2. CASE j \in 1..Len(a)
    BY <2>2, <1>1, <1>5 DEF c, NoId
  <2>3. ASSUME NEW m \in 1..Len(b), j = Len(a) + m PROVE j = h
    BY <2>3, <1>1, <1>3, <1>5 DEF c
  <2> QED
    BY <2>1, <2>2, <2>3, <1>1
<1> HIDE DEF h
<1>6. OneId(c, id)
  BY <1>4, <1>5 DEF OneId
<1> QED
  BY <1>1, <1>6 DEF c

\* None, one, or two ids.
LEMMA FewIds ==
  /\ Sequence(<< >>) /\ \A id : NoId(<< >>, id)
  /\ \A x : Sequence(<<x>>) /\ OneId(<<x>>, x) /\ \A id : id # x => NoId(<<x>>, id)
<1>1. Sequence(<< >>) /\ \A id : NoId(<< >>, id)
  BY DEF Sequence, NoId
<1>2. ASSUME NEW x PROVE Sequence(<<x>>) /\ OneId(<<x>>, x) /\ \A id : id # x => NoId(<<x>>, id)
  <2>1. Len(<<x>>) = 1 /\ <<x>>[1] = x /\ DOMAIN <<x>> = 1..1
    OBVIOUS
  <2>2. ToSet(<<x>>) = {x}
    BY <2>1 DEF ToSet
  <2>3. Sequence(<<x>>)
    BY <2>2 DEF Sequence
  <2>4. OneId(<<x>>, x)
    BY <2>1 DEF OneId
  <2>5. \A id : id # x => NoId(<<x>>, id)
    BY <2>1 DEF NoId
  <2> QED
    BY <2>3, <2>4, <2>5
<1> QED
  BY <1>1, <1>2

\* limits.report: of the rules that are on, a finding each.
LEMMA Reported ==
  ASSUME NEW ids, Sequence(ids), NEW file
  PROVE  /\ Sequence(Findings(Allowed(ids), file))
         /\ \A k \in 1..Len(Findings(Allowed(ids), file)) :
              /\ Findings(Allowed(ids), file)[k].file = file
              /\ Findings(Allowed(ids), file)[k].line = 0
              /\ \E j \in 1..Len(ids) : Findings(Allowed(ids), file)[k].rule = ids[j]
         /\ \A id : NoId(ids, id) => ToldNone(Findings(Allowed(ids), file), id)
         /\ \A id \in case.allowed :
              OneId(ids, id) => ToldOnce(Findings(Allowed(ids), file), id, file)
<1> DEFINE on == Allowed(ids)
           I == {k \in DOMAIN ids : ids[k] \in case.allowed}
           fs == Findings(on, file)
<1>1. Len(ids) \in Nat /\ DOMAIN ids = 1..Len(ids)
  BY Listing
<1>2. on = Picked(ids, I) /\ I \in SUBSET (1..Len(ids))
  BY <1>1 DEF Allowed
<1>3. Sequence(on)
  BY <1>2, PickedOf
<1>5. Len(on) \in Nat /\ DOMAIN on = 1..Len(on)
  BY <1>3, Listing
<1>6. fs = [k \in 1..Len(on) |-> Finding(on[k], file, 0)]
  BY <1>5 DEF Findings
<1>7. I = {k \in 1..Len(ids) : ids[k] \in case.allowed}
  BY <1>1
<1> HIDE DEF on, I, fs
<1>4. PICK h \in [1..Len(on) -> I] : Along(ids, h, on) /\ \A k \in I : \E j \in 1..Len(on) : h[j] = k
  <2>1. /\ Sequence(Picked(ids, I))
        /\ \E h \in [1..Len(Picked(ids, I)) -> I] :
             Along(ids, h, Picked(ids, I)) /\ \A k \in I : \E j \in 1..Len(Picked(ids, I)) : h[j] = k
    BY <1>2, PickedOf
  <2> QED
    BY <2>1, <1>2
<1>8. Sequence(fs) /\ Len(fs) = Len(on)
  <2>1. fs = [k \in 1..Len(on) |-> fs[k]]
    BY <1>6
  <2> QED
    BY <2>1, <1>5, Indexed
<1>9. \A k \in 1..Len(on) : fs[k].rule = on[k] /\ fs[k].file = file /\ fs[k].line = 0
  BY <1>6 DEF Finding
<1>10. \A k \in 1..Len(on) : h[k] \in 1..Len(ids) /\ on[k] = ids[h[k]]
  BY <1>4, <1>7 DEF Along
<1>11. ASSUME NEW id, NoId(ids, id) PROVE ToldNone(fs, id)
  <2>1. \A k \in 1..Len(on) : on[k] # id
    BY <1>10, <1>11 DEF NoId
  <2> QED
    BY <2>1, <1>8, <1>9 DEF ToldNone
<1>12. ASSUME NEW id \in case.allowed, OneId(ids, id) PROVE ToldOnce(fs, id, file)
  <2>1. PICK k \in 1..Len(ids) : ids[k] = id /\ \A j \in 1..Len(ids) : ids[j] = id => j = k
    BY <1>12 DEF OneId
  <2>2. k \in I
    BY <2>1, <1>7
  <2>3. PICK m \in 1..Len(on) : h[m] = k
    BY <2>2, <1>4
  <2>4. fs[m].rule = id /\ fs[m].file = file
    BY <2>1, <2>3, <1>9, <1>10
  <2>5. ASSUME NEW j \in 1..Len(on), fs[j].rule = id PROVE j = m
    <3>1. h[j] = h[m]
      BY <2>1, <2>3, <2>5, <1>9, <1>10
    <3>2. \A x, y \in 1..Len(on) : x < y => h[x] < h[y]
      BY <1>4 DEF Along
    <3>3. h[j] \in Nat /\ h[m] \in Nat
      BY <1>10, <1>1
    <3>4. j \in Nat /\ m \in Nat /\ ~(j < m) /\ ~(m < j)
      BY <3>1, <3>2, <3>3, <1>5
    <3> QED
      BY <3>4
  <2>6. m \in 1..Len(fs) /\ \A j \in 1..Len(fs) : fs[j].rule = id => j = m
    BY <2>5, <1>8
  <2> QED
    BY <2>4, <2>6 DEF ToldOnce
<1>13. \A k \in 1..Len(fs) :
         fs[k].file = file /\ fs[k].line = 0 /\ \E j \in 1..Len(ids) : fs[k].rule = ids[j]
  BY <1>8, <1>9, <1>10
<1> QED
  BY <1>8, <1>11, <1>12, <1>13 DEF fs, on

LEMMA InIds ==
  ASSUME NEW ids, Sequence(ids), NEW id
  PROVE  /\ id \notin ToSet(ids) <=> NoId(ids, id)
         /\ OneId(ids, id) => ~NoId(ids, id)
<1>1. DOMAIN ids = 1..Len(ids)
  BY Listing
<1> QED
  BY <1>1 DEF ToSet, NoId, OneId

\* What is told by more findings.
LEMMA ToldMore ==
  ASSUME NEW fs, NEW gs, Sequence(fs), Sequence(gs), NEW id, NEW file
  PROVE  /\ Sequence(fs \o gs)
         /\ ToldNone(fs, id) /\ ToldNone(gs, id) => ToldNone(fs \o gs, id)
         /\ ToldOnce(fs, id, file) /\ ToldNone(gs, id) => ToldOnce(fs \o gs, id, file)
         /\ ToldNone(fs, id) /\ ToldOnce(gs, id, file) => ToldOnce(fs \o gs, id, file)
         /\ Told(fs \o gs, id, file) <=> Told(fs, id, file) \/ Told(gs, id, file)
<1>1. /\ Sequence(fs \o gs) /\ Len(fs \o gs) = Len(fs) + Len(gs)
      /\ \A k \in 1..Len(fs) : (fs \o gs)[k] = fs[k]
      /\ \A j \in 1..Len(gs) : (fs \o gs)[Len(fs) + j] = gs[j]
      /\ \A k \in 1..(Len(fs) + Len(gs)) : k \in 1..Len(fs) \/ \E j \in 1..Len(gs) : k = Len(fs) + j
  BY Joining
<1>2. Len(fs) \in Nat /\ Len(gs) \in Nat
  BY Listing
<1> DEFINE c == fs \o gs
<1> HIDE DEF c
<1>3. /\ Sequence(c)
      /\ \A k \in 1..Len(fs) : k \in 1..Len(c) /\ c[k].rule = fs[k].rule /\ c[k].file = fs[k].file
      /\ \A j \in 1..Len(gs) : /\ Len(fs) + j \in 1..Len(c)
                               /\ c[Len(fs) + j].rule = gs[j].rule /\ c[Len(fs) + j].file = gs[j].file
  <2>1. Len(c) = Len(fs) + Len(gs)
    BY <1>1 DEF c
  <2>2. \A k \in 1..Len(fs) : k \in 1..Len(c)
    BY <2>1, <1>2
  <2>3. \A j \in 1..Len(gs) : Len(fs) + j \in 1..Len(c)
    BY <2>1, <1>2
  <2> QED
    BY <2>1, <2>2, <2>3, <1>1 DEF c
<1>8. ASSUME NEW k \in 1..Len(c)
      PROVE  \/ k \in 1..Len(fs)
             \/ \E j \in 1..Len(gs) :
                  k = Len(fs) + j /\ c[k].rule = gs[j].rule /\ c[k].file = gs[j].file
  <2>1. k \in 1..(Len(fs) + Len(gs))
    BY <1>1 DEF c
  <2>2. k \in 1..Len(fs) \/ \E j \in 1..Len(gs) : k = Len(fs) + j
    BY <2>1, <1>1
  <2> QED
    BY <2>2, <1>3
<1>4. ASSUME ToldNone(fs, id), ToldNone(gs, id) PROVE ToldNone(c, id)
  <2>1. ASSUME NEW k \in 1..Len(c) PROVE c[k].rule # id
    <3>1. CASE k \in 1..Len(fs)
      BY <3>1, <1>3, <1>4 DEF ToldNone
    <3>2. ASSUME NEW j \in 1..Len(gs), c[k].rule = gs[j].rule PROVE c[k].rule # id
      BY <3>2, <1>4 DEF ToldNone
    <3> QED
      BY <3>1, <3>2, <1>8
  <2> QED
    BY <2>1 DEF ToldNone
<1>5. ASSUME ToldOnce(fs, id, file), ToldNone(gs, id) PROVE ToldOnce(c, id, file)
  <2>1. PICK k \in 1..Len(fs) :
          fs[k].rule = id /\ fs[k].file = file /\ \A j \in 1..Len(fs) : fs[j].rule = id => j = k
    BY <1>5 DEF ToldOnce
  <2>2. ASSUME NEW j \in 1..Len(c), c[j].rule = id PROVE j = k
    <3>1. CASE j \in 1..Len(fs)
      BY <3>1, <2>1, <2>2, <1>3
    <3>2. ASSUME NEW m \in 1..Len(gs), c[j].rule = gs[m].rule PROVE FALSE
      BY <3>2, <2>2, <1>5 DEF ToldNone
    <3> QED
      BY <3>1, <3>2, <1>8
  <2>3. k \in 1..Len(c) /\ c[k].rule = id /\ c[k].file = file
    BY <2>1, <1>3
  <2> QED
    BY <2>2, <2>3 DEF ToldOnce
<1>6. ASSUME ToldNone(fs, id), ToldOnce(gs, id, file) PROVE ToldOnce(c, id, file)
  <2>1. PICK m \in 1..Len(gs) :
          gs[m].rule = id /\ gs[m].file = file /\ \A j \in 1..Len(gs) : gs[j].rule = id => j = m
    BY <1>6 DEF ToldOnce
  <2>2. PICK k : k = Len(fs) + m
    OBVIOUS
  <2>3. ASSUME NEW j \in 1..Len(c), c[j].rule = id PROVE j = k
    <3>1. ASSUME j \in 1..Len(fs) PROVE FALSE
      BY <3>1, <2>3, <1>3, <1>6 DEF ToldNone
    <3>2. ASSUME NEW n \in 1..Len(gs), j = Len(fs) + n, c[j].rule = gs[n].rule PROVE j = k
      <4>1. n = m
        BY <3>2, <2>1, <2>3
      <4> QED
        BY <4>1, <3>2, <2>2
    <3> QED
      BY <3>1, <3>2, <1>8
  <2>4. k \in 1..Len(c) /\ c[k].rule = id /\ c[k].file = file
    BY <2>1, <2>2, <1>3
  <2> QED
    BY <2>3, <2>4 DEF ToldOnce
<1>7. Told(c, id, file) <=> Told(fs, id, file) \/ Told(gs, id, file)
  <2>1. ASSUME Told(c, id, file) PROVE Told(fs, id, file) \/ Told(gs, id, file)
    <3>1. PICK k \in 1..Len(c) : c[k].rule = id /\ c[k].file = file
      BY <2>1 DEF Told
    <3>2. CASE k \in 1..Len(fs)
      BY <3>1, <3>2, <1>3 DEF Told
    <3>3. ASSUME NEW j \in 1..Len(gs), c[k].rule = gs[j].rule, c[k].file = gs[j].file
          PROVE  Told(gs, id, file)
      BY <3>1, <3>3 DEF Told
    <3> QED
      BY <3>2, <3>3, <1>8
  <2>2. ASSUME Told(fs, id, file) PROVE Told(c, id, file)
    BY <2>2, <1>3 DEF Told
  <2>3. ASSUME Told(gs, id, file) PROVE Told(c, id, file)
    BY <2>3, <1>3 DEF Told
  <2> QED
    BY <2>1, <2>2, <2>3
<1> QED
  BY <1>3, <1>4, <1>5, <1>6, <1>7 DEF c

\* limits.report tells ids of one file, of what is on.
LEMMA TellMore ==
  ASSUME NEW fs, Sequence(fs), NEW ids, Sequence(ids), NEW file, NEW id
  PROVE  LET all == fs \o Findings(Allowed(ids), file) IN
         /\ Sequence(all)
         /\ NoId(ids, id) /\ ToldNone(fs, id) => ToldNone(all, id)
         /\ \A f : NoId(ids, id) /\ ToldOnce(fs, id, f) => ToldOnce(all, id, f)
         /\ \A f : Told(fs, id, f) => Told(all, id, f)
         /\ \A f : Told(all, id, f) => Told(fs, id, f) \/ (f = file /\ ~NoId(ids, id))
         /\ id \in case.allowed /\ OneId(ids, id) => Told(all, id, file)
         /\ id \in case.allowed /\ OneId(ids, id) /\ ToldNone(fs, id) => ToldOnce(all, id, file)
<1>1. PICK gs : gs = Findings(Allowed(ids), file)
  OBVIOUS
<1>2. /\ Sequence(gs)
      /\ \A k \in 1..Len(gs) : gs[k].file = file
      /\ NoId(ids, id) => ToldNone(gs, id)
      /\ id \in case.allowed => (OneId(ids, id) => ToldOnce(gs, id, file))
  BY <1>1, Reported
<1> DEFINE all == fs \o Findings(Allowed(ids), file)
<1>3. all = fs \o gs
  BY <1>1
<1> HIDE DEF all
<1>4. ASSUME NoId(ids, id) PROVE \A f : ~Told(gs, id, f)
  BY <1>2, <1>4 DEF ToldNone, Told
<1>5. \A f : Told(gs, id, f) => f = file
  BY <1>2 DEF Told
<1>6. ASSUME ToldOnce(gs, id, file) PROVE Told(gs, id, file)
  BY <1>6 DEF ToldOnce, Told
<1>7. Sequence(all) /\ (ToldNone(fs, id) /\ ToldNone(gs, id) => ToldNone(all, id))
  BY <1>2, <1>3, ToldMore
<1>8. ASSUME NEW f PROVE
        /\ ToldOnce(fs, id, f) /\ ToldNone(gs, id) => ToldOnce(all, id, f)
        /\ ToldNone(fs, id) /\ ToldOnce(gs, id, f) => ToldOnce(all, id, f)
        /\ Told(all, id, f) <=> Told(fs, id, f) \/ Told(gs, id, f)
  BY <1>2, <1>3, ToldMore
<1>9. NoId(ids, id) /\ ToldNone(fs, id) => ToldNone(all, id)
  BY <1>2, <1>7
<1>10. \A f : NoId(ids, id) /\ ToldOnce(fs, id, f) => ToldOnce(all, id, f)
  BY <1>2, <1>8
<1>11. \A f : Told(fs, id, f) => Told(all, id, f)
  BY <1>8
<1>12. \A f : Told(all, id, f) => Told(fs, id, f) \/ (f = file /\ ~NoId(ids, id))
  BY <1>4, <1>5, <1>8
<1>13. id \in case.allowed /\ OneId(ids, id) => Told(all, id, file)
  BY <1>2, <1>6, <1>8
<1>14. id \in case.allowed /\ OneId(ids, id) /\ ToldNone(fs, id) => ToldOnce(all, id, file)
  BY <1>2, <1>8
<1> QED
  BY <1>7, <1>9, <1>10, <1>11, <1>12, <1>13, <1>14 DEF all

\* One artifact more, after those of the folders.
LEMMA WalkedMore ==
  ASSUME NEW s, Sequence(s), NEW n \in Nat, n <= Len(s), NEW a
  PROVE  /\ Sequence(Append(s, a)) /\ Len(Append(s, a)) = Len(s) + 1
         /\ SubSeq(Append(s, a), n + 1, Len(Append(s, a))) = Append(SubSeq(s, n + 1, Len(s)), a)
<1>1. PICK u, v, l : u = Append(s, a) /\ v = SubSeq(s, n + 1, Len(s)) /\ l = Len(s)
  OBVIOUS
<1>2. l \in Nat /\ Sequence(u) /\ Len(u) = l + 1 /\ u[l + 1] = a /\ \A k \in 1..l : u[k] = s[k]
  BY <1>1, Appended, Listing
<1>3. v = [k \in 1..(l - n) |-> s[n + k]]
  BY <1>1, <1>2 DEF Sequence
<1>4. SubSeq(u, n + 1, Len(u)) = [k \in 1..(l + 1 - n) |-> u[n + k]]
  BY <1>1, <1>2 DEF Sequence
<1>5. v = [k \in 1..(l - n) |-> v[k]] /\ l - n \in Nat
  BY <1>1, <1>2, <1>3
<1>6. Sequence(v) /\ Len(v) = l - n
  BY <1>5, Indexed
<1>7. PICK w : w = Append(v, a)
  OBVIOUS
<1>8. /\ Sequence(w) /\ Len(w) = l + 1 - n
      /\ \A k \in 1..(l - n) : w[k] = v[k]
      /\ w[l - n + 1] = a
  <2>1. Len(w) = Len(v) + 1 /\ Sequence(w) /\ w[Len(v) + 1] = a /\ \A k \in 1..Len(v) : w[k] = v[k]
    BY <1>6, <1>7, Appended
  <2> QED
    BY <1>2, <1>6, <2>1
<1>9. ASSUME NEW k \in 1..(l + 1 - n) PROVE w[k] = u[n + k]
  <2>1. CASE k = l - n + 1
    BY <1>2, <1>8, <2>1
  <2>2. CASE k # l - n + 1
    <3>1. k \in 1..(l - n) /\ n + k \in 1..l
      BY <1>2, <2>2
    <3> QED
      BY <1>2, <1>3, <1>8, <3>1
  <2> QED
    BY <2>1, <2>2
<1>10. w = [k \in 1..(l + 1 - n) |-> u[n + k]]
  <2>1. w = [k \in 1..Len(w) |-> w[k]]
    BY <1>8 DEF Sequence
  <2> QED
    BY <1>8, <1>9, <2>1
<1> QED
  BY <1>1, <1>2, <1>4, <1>7, <1>10

\* The first file past the limit of text stays the first when more are read.
LEMMA PastMore ==
  ASSUME NEW files, SizesOK(files), NEW a, a.size \in Nat, case.limits.text \in Nat
  PROVE  OneMore(files, a, Append(files, a))
<1> DEFINE more == Append(files, a)
<1>1. /\ Sequence(files) /\ Len(files) \in Nat /\ DOMAIN files = 1..Len(files)
      /\ \A k \in 1..Len(files) : files[k].size \in Nat
  BY Listing DEF SizesOK
<1>2. /\ Sequence(more) /\ Len(more) = Len(files) + 1 /\ DOMAIN more = 1..(Len(files) + 1)
      /\ \A k \in 1..Len(files) : more[k] = files[k]
      /\ more[Len(files) + 1] = a
  BY <1>1, Appended, Listing
<1> HIDE DEF more
<1>3. SizesOK(more)
  <2>1. ASSUME NEW k \in 1..Len(more) PROVE more[k].size \in Nat
    <3>1. k \in 1..Len(files) \/ k = Len(files) + 1
      BY <1>1, <1>2
    <3> QED
      BY <3>1, <1>1, <1>2
  <2> QED
    BY <2>1, <1>2 DEF SizesOK
<1>4. \A k \in 0..Len(files) : TextUpTo(more)[k] = TextUpTo(files)[k]
  <2>1. Len(files) <= Len(more)
    BY <1>1, <1>2
  <2>2. \A k \in 1..Len(files) : TextIn(more[k]) = TextIn(files[k])
    BY <1>2
  <2> QED
    BY <2>1, <2>2, <1>1, <1>2, TextOfMore
<1> DEFINE n == Len(files)
           F == TextUpTo(files)
           M == TextUpTo(more)
           lim == case.limits.text
<1>5. /\ n \in Nat /\ Len(more) = n + 1 /\ lim \in Nat
      /\ \A k \in 0..n : M[k] = F[k]
      /\ \A k \in 0..(n + 1) : M[k] \in Nat
      /\ \A k \in 1..(n + 1) : M[k - 1] <= M[k]
      /\ M[n + 1] = M[n] + TextIn(a)
  <2>1. \A k \in 0..Len(more) : M[k] \in Nat
    BY <1>3, TextGrows
  <2>2. \A k \in 1..Len(more) : M[k - 1] <= M[k]
    BY <1>3, TextGrows
  <2>3. Len(more) \in Nat
    BY <1>1, <1>2
  <2>4. \A k \in 1..Len(more) : TextUpTo(more)[k] = TextUpTo(more)[k - 1] + TextIn(more[k])
    BY <2>3, TextCourse
  <2>5. n + 1 \in 1..Len(more) /\ (n + 1) - 1 = n
    BY <1>1, <1>2
  <2>6. M[n + 1] = M[n] + TextIn(a)
    BY <2>4, <2>5, <1>2
  <2> QED
    BY <2>1, <2>2, <2>6, <1>1, <1>2, <1>4
<1>6. PastText(more) = {k \in 1..(n + 1) : M[k] > lim}
  BY <1>2 DEF PastText
<1>7. PastText(files) = {k \in 1..n : F[k] > lim}
  BY <1>1 DEF PastText
<1> HIDE DEF n, F, M, lim
<1>8. ASSUME NEW k \in 1..(n + 1), M[k] > lim PROVE M[n + 1] > lim
  <2> DEFINE U == {0} \cup {j \in 0..(n + 1 - k) : M[k + j] > lim} \cup {j \in Nat : j > n + 1 - k}
  <2>1. n + 1 - k \in Nat /\ k + (n + 1 - k) = n + 1 /\ k + 0 = k
    BY <1>5
  <2>2. ASSUME NEW j \in 1..(n + 1 - k), j - 1 \in U PROVE j \in U
    <3>1. M[k + (j - 1)] > lim
      <4>1. CASE j - 1 = 0
        <5>1. k + (j - 1) = k
          BY <4>1, <1>5
        <5> QED
          BY <5>1, <1>8
      <4>2. CASE j - 1 # 0
        <5>1. ~(j - 1 > n + 1 - k)
          BY <2>1
        <5> QED
          BY <4>2, <5>1, <2>2
      <4> QED
        BY <4>1, <4>2
    <3>2. k + j \in 1..(n + 1) /\ (k + j) - 1 = k + (j - 1) /\ k + j \in 0..(n + 1) /\ k + (j - 1) \in 0..(n + 1)
      BY <1>5
    <3>3. M[(k + j) - 1] <= M[k + j]
      BY <3>2, <1>5
    <3>4. M[k + j] \in Nat /\ M[k + (j - 1)] \in Nat
      BY <3>2, <1>5
    <3>5. M[k + j] > lim
      BY <3>1, <3>2, <3>3, <3>4, <1>5
    <3>6. j \in 0..(n + 1 - k)
      OBVIOUS
    <3> QED
      BY <3>5, <3>6
  <2>3. 0 \in U
    OBVIOUS
  <2> HIDE DEF U
  <2>4. \A j \in 0..(n + 1 - k) : j \in U
    BY <2>1, <2>2, <2>3, UpTo
  <2>5. n + 1 - k \in U
    BY <2>1, <2>4
  <2>6. CASE n + 1 - k = 0
    BY <2>6, <2>1, <1>8, <1>5
  <2>7. CASE n + 1 - k # 0
    BY <2>5, <2>7, <2>1 DEF U
  <2> QED
    BY <2>6, <2>7
<1>9. PastText(more) # {} <=> M[n + 1] > lim
  <2>1. n + 1 \in 1..(n + 1)
    BY <1>5
  <2> QED
    BY <2>1, <1>6, <1>8
<1>10. ASSUME PastText(files) # {}
       PROVE  more[Least(PastText(more))] = files[Least(PastText(files))]
  <2>1. PastText(files) \in SUBSET Nat /\ PastText(files) \subseteq 1..n
    BY <1>7
  <2>2. PICK m \in PastText(files) : m = Least(PastText(files)) /\ \A k \in PastText(files) : m <= k
    BY <2>1, <1>10, LeastOf
  <2>3. PastText(more) \in SUBSET Nat
    BY <1>6
  <2>4. m \in 1..n /\ m \in 1..(n + 1) /\ m \in 0..n /\ M[m] > lim
    BY <2>1, <2>2, <1>5, <1>7
  <2>5. m \in PastText(more)
    BY <2>4, <1>6
  <2>6. ASSUME NEW k \in PastText(more) PROVE m <= k
    <3>1. k \in 1..(n + 1) /\ M[k] > lim
      BY <1>6
    <3>2. CASE k \in 1..n
      <4>1. k \in 0..n
        BY <3>2
      <4>2. F[k] > lim
        BY <3>1, <4>1, <1>5
      <4> QED
        BY <3>2, <4>2, <2>2, <1>7
    <3>3. CASE k = n + 1
      BY <3>3, <2>4, <1>5
    <3> QED
      BY <3>1, <3>2, <3>3, <1>5
  <2>7. Least(PastText(more)) = m
    BY <2>3, <2>5, <2>6, LeastIs
  <2>8. more[m] = files[m]
    BY <2>4, <1>2 DEF n
  <2> QED
    BY <2>2, <2>7, <2>8
<1>11. ASSUME PastText(files) = {}, PastText(more) # {}
       PROVE  more[Least(PastText(more))] = a
  <2>1. PastText(more) \subseteq {n + 1}
    <3>1. ASSUME NEW k \in PastText(more) PROVE k = n + 1
      <4>1. k \in 1..(n + 1) /\ M[k] > lim
        BY <1>6
      <4>2. ASSUME k \in 1..n PROVE FALSE
        <5>1. k \in 0..n
          BY <4>2
        <5> QED
          BY <4>1, <4>2, <5>1, <1>5, <1>7, <1>11
      <4> QED
        BY <4>1, <4>2, <1>5
    <3> QED
      BY <3>1
  <2>2. PastText(more) = {n + 1} /\ n + 1 \in Nat
    BY <2>1, <1>5, <1>11
  <2>3. Least(PastText(more)) = n + 1
    BY <2>2, LeastIs
  <2> QED
    BY <2>3, <1>2 DEF n
<1>12. M[Len(more)] = F[n] + TextIn(a) /\ (PastText(more) # {} <=> M[Len(more)] > lim)
  <2>1. n \in 0..n
    BY <1>5
  <2>2. M[n] = F[n]
    BY <2>1, <1>5
  <2> QED
    BY <2>2, <1>5, <1>9
<1>13. more[Len(more)] = a
  BY <1>2
<1> QED
  BY <1>2, <1>3, <1>10, <1>11, <1>12, <1>13 DEF n, F, M, lim, more, OneMore

\* The same, when the ids are not about the rule.
LEMMA TellOther ==
  ASSUME NEW fs, Sequence(fs), NEW ids, Sequence(ids), NEW file, NEW id, NoId(ids, id), NEW f
  PROVE  Told(fs \o Findings(Allowed(ids), file), id, f) <=> Told(fs, id, f)
BY TellMore

LEMMA TellType ==
  ASSUME NEW fs, Sequence(fs), NEW ids, Sequence(ids), NEW file
  PROVE  Sequence(fs \o Findings(Allowed(ids), file))
<1>1. Sequence(Findings(Allowed(ids), file))
  BY Reported
<1> QED
  BY <1>1, Joining

LEMMA TellKeeps ==
  ASSUME NEW fs, Sequence(fs), NEW ids, Sequence(ids), NEW file, NEW id, NoId(ids, id)
  PROVE  /\ ToldNone(fs, id) => ToldNone(fs \o Findings(Allowed(ids), file), id)
         /\ \A f : ToldOnce(fs, id, f) => ToldOnce(fs \o Findings(Allowed(ids), file), id, f)
BY TellMore

-----------------------------------------------------------------------------
(* What a run starts from. *)

LEMMA FolderType ==
  ASSUME case \in Cases
  PROVE  /\ Sequence(Pending) /\ Sequence(Lost)
         /\ \A k \in 1..Len(Pending) : IsText(Pending[k].now) /\ IsText(Pending[k].then)
         /\ \A j, k \in 1..Len(Pending) : Pending[j].path = Pending[k].path => j = k
         /\ case.limits.files \in Nat /\ case.limits.text \in Nat
<1> DEFINE es == case.entries
           I == {k \in DOMAIN es : es[k].kind \in {"file", "symlink", "special"}}
           L == {k \in DOMAIN es : es[k].kind \in {"folder"}}
<1>1. CaseOK(case)
  BY CasesAssumption
<1>2. /\ Sequence(es)
      /\ \A j, k \in DOMAIN es : es[j].path = es[k].path => j = k
      /\ \A e \in ToSet(es) : IsText(e.now) /\ IsText(e.then)
  BY <1>1 DEF CaseOK, EntriesOK, Sequence, IsText
<1>3. Pending = Picked(es, I) /\ Lost = Picked(es, L)
  BY DEF Pending, Lost, EntriesThat
<1>4. DOMAIN es = 1..Len(es) /\ Len(es) \in Nat
  BY <1>2, Listing
<1>5. I \in SUBSET (1..Len(es)) /\ L \in SUBSET (1..Len(es))
  BY <1>4
<1> HIDE DEF es, I, L
<1>6. Sequence(Pending) /\ Sequence(Lost) /\ ToSet(Pending) \subseteq ToSet(es)
  BY <1>2, <1>3, <1>5, PickedOf
<1>7. \A k \in 1..Len(Pending) : Pending[k] \in ToSet(Pending)
  BY <1>6, Listing
<1>8. \A k \in 1..Len(Pending) : IsText(Pending[k].now) /\ IsText(Pending[k].then)
  BY <1>2, <1>6, <1>7
<1>9. PICK h \in [1..Len(Pending) -> I] : Along(es, h, Pending)
  <2>1. \E h \in [1..Len(Picked(es, I)) -> I] : Along(es, h, Picked(es, I))
    BY <1>2, <1>5, PickedOf
  <2> QED
    BY <2>1, <1>3
<1>10. ASSUME NEW j \in 1..Len(Pending), NEW k \in 1..Len(Pending), Pending[j].path = Pending[k].path
       PROVE  j = k
  <2>1. /\ \A m \in 1..Len(Pending) : Pending[m] = es[h[m]]
        /\ \A x, y \in 1..Len(Pending) : x < y => h[x] < h[y]
    BY <1>9 DEF Along
  <2>2. h[j] \in I /\ h[k] \in I
    BY <1>9
  <2>3. h[j] \in DOMAIN es /\ h[k] \in DOMAIN es /\ h[j] \in Nat /\ h[k] \in Nat
    <3>1. h[j] \in 1..Len(es) /\ h[k] \in 1..Len(es)
      BY <2>2, <1>5
    <3>2. \A m \in 1..Len(es) : m \in DOMAIN es /\ m \in Nat
      BY <1>4
    <3> QED
      BY <3>1, <3>2
  <2>4. es[h[j]].path = es[h[k]].path
    BY <2>1, <1>10
  <2>5. h[j] = h[k]
    BY <2>3, <2>4, <1>2
  <2>6. ~(j < k) /\ ~(k < j) /\ j \in Nat /\ k \in Nat
    <3>1. Len(Pending) \in Nat
      BY <1>6, Listing
    <3> QED
      BY <3>1, <2>1, <2>3, <2>5
  <2> QED
    BY <2>6
<1>11. case.limits.files \in Nat /\ case.limits.text \in Nat
  BY <1>1 DEF CaseOK
<1> QED
  BY <1>6, <1>8, <1>10, <1>11

-----------------------------------------------------------------------------
(* Which ids an action reports. *)

LEMMA OnceTold ==
  ASSUME NEW id
  PROVE  /\ Sequence(Once(id)) /\ \A x : x # id => NoId(Once(id), x)
         /\ id \in once => NoId(Once(id), id)
         /\ id \notin once => OneId(Once(id), id)
<1>1. CASE id \in once
  BY <1>1, FewIds DEF Once
<1>2. CASE id \notin once
  BY <1>2, FewIds DEF Once
<1> QED
  BY <1>1, <1>2

LEMMA CountedTold ==
  /\ Sequence(Counted) /\ \A x : x # Many => NoId(Counted, x)
  /\ ~(TooMany /\ Many \notin once) => NoId(Counted, Many)
  /\ TooMany /\ Many \notin once => OneId(Counted, Many)
<1>1. CASE TooMany
  <2>1. Counted = Once(Many)
    BY <1>1 DEF Counted, Many
  <2> QED
    BY <2>1, <1>1, OnceTold
<1>2. CASE ~TooMany
  <2>1. Counted = << >>
    BY <1>2 DEF Counted
  <2> QED
    BY <2>1, <1>2, FewIds
<1> QED
  BY <1>1, <1>2

\* Every limit rule is known by a string of its own.
LEMMA LimitNames ==
  /\ Many \in LimitRules /\ MuchText \in LimitRules /\ TooLarge \in LimitRules
  /\ Many # MuchText /\ Many # TooLarge /\ MuchText # TooLarge
  /\ Many \in MeasuredOnce /\ MuchText \notin MeasuredOnce /\ TooLarge \notin MeasuredOnce
  /\ "BUNDLE-TOO-DEEP" \notin {Many, MuchText, TooLarge}
  /\ "BUNDLE-TOO-LARGE" \notin {Many, MuchText, TooLarge}
BY DEF Many, MuchText, TooLarge, LimitRules, MeasuredOnce

\* The ids of what reveal finds are no other rule's.
LEMMA HitNames ==
  /\ \A id \in HitRules : id \notin {Many, MuchText, TooLarge}
  /\ {"BUNDLE-TOO-DEEP", "BUNDLE-TOO-LARGE", "FILE-INSTALLER", "FILE-BINARY", "ARCHIVE-ENCRYPTED"}
       \cap HitRules = {}
BY DEF HitRules, LookAlike, Invisible, Many, MuchText, TooLarge

LEMMA NamedTold ==
  ASSUME case \in Cases, NEW id \in OwnRules
  PROVE  /\ Sequence([k \in DOMAIN Named |-> Named[k].id])
         /\ NoId([k \in DOMAIN Named |-> Named[k].id], id)
<1> DEFINE I == {k \in DOMAIN case.named : Last(Entry.path) \in case.named[k].files}
           named == case.named
           ids == [k \in DOMAIN Named |-> Named[k].id]
<1>1. Sequence(named) /\ \A r \in ToSet(named) : r.id \notin OwnRules
  BY CasesAssumption DEF CaseOK, Sequence, OwnRules
<1>2. I \in SUBSET (1..Len(named))
  BY <1>1, Listing
<1>3. Named = Picked(named, I)
  BY DEF Named
<1> HIDE DEF I, named
<1>4. Sequence(Named) /\ ToSet(Named) \subseteq ToSet(named)
  BY <1>1, <1>2, <1>3, PickedOf
<1>5. Len(Named) \in Nat /\ DOMAIN Named = 1..Len(Named) /\ \A k \in 1..Len(Named) : Named[k] \in ToSet(Named)
  BY <1>4, Listing
<1>6. ids = [k \in 1..Len(Named) |-> ids[k]] /\ \A k \in 1..Len(Named) : ids[k] = Named[k].id
  BY <1>5
<1> HIDE DEF ids
<1>7. Sequence(ids) /\ Len(ids) = Len(Named)
  BY <1>5, <1>6, Indexed
<1>8. \A k \in 1..Len(ids) : ids[k] # id
  BY <1>1, <1>4, <1>5, <1>6, <1>7
<1>9. Sequence(ids) /\ NoId(ids, id)
  BY <1>7, <1>8 DEF NoId
<1> QED
  BY <1>9 DEF ids

\* limits.measure: only a file over its own limit is told as one.
LEMMA MeasuredTold ==
  ASSUME case \in Cases, NEW size
  PROVE  /\ Sequence(Measured(size)) /\ NoId(Measured(size), Many) /\ NoId(Measured(size), MuchText)
         /\ size > case.limits.file => OneId(Measured(size), TooLarge)
         /\ ~(size > case.limits.file) => NoId(Measured(size), TooLarge)
         /\ \A id \in HitRules : NoId(Measured(size), id)
<1> DEFINE a == IF Len(Entry.path) - 1 > case.limits.depth THEN Once("BUNDLE-TOO-DEEP") ELSE << >>
           b == IF size > case.limits.file THEN <<"FILE-TOO-LARGE">> ELSE << >>
           c == IF sums.bundle + size > case.limits.bundle THEN Once("BUNDLE-TOO-LARGE") ELSE << >>
           d == [k \in DOMAIN Named |-> Named[k].id]
           over == size > case.limits.file
<1>1. Measured(size) = ((a \o b) \o c) \o d
  BY DEF Measured
<1>2. \A x \in {Many, MuchText, TooLarge} \cup HitRules : Sequence(a) /\ NoId(a, x)
  <2>1. ASSUME NEW x, x # "BUNDLE-TOO-DEEP" PROVE Sequence(a) /\ NoId(a, x)
    BY <2>1, OnceTold, FewIds
  <2> QED
    BY <2>1, LimitNames, HitNames
<1>3. \A x \in {Many, MuchText, TooLarge} \cup HitRules : Sequence(c) /\ NoId(c, x)
  <2>1. ASSUME NEW x, x # "BUNDLE-TOO-LARGE" PROVE Sequence(c) /\ NoId(c, x)
    BY <2>1, OnceTold, FewIds
  <2> QED
    BY <2>1, LimitNames, HitNames
<1>4. \A x \in {Many, MuchText, TooLarge} \cup HitRules : Sequence(d) /\ NoId(d, x)
  BY NamedTold, LimitNames DEF OwnRules
<1>5. /\ Sequence(b) /\ NoId(b, Many) /\ NoId(b, MuchText)
      /\ \A id \in HitRules : NoId(b, id)
      /\ over => OneId(b, TooLarge)
      /\ ~over => NoId(b, TooLarge)
  <2>1. ASSUME over PROVE b = <<TooLarge>>
    BY <2>1 DEF TooLarge
  <2>2. ASSUME ~over PROVE b = << >>
    BY <2>2
  <2>3. Many # TooLarge /\ MuchText # TooLarge /\ TooLarge \notin HitRules
    BY LimitNames, HitNames
  <2> HIDE DEF b, over
  <2>4. CASE over
    BY <2>1, <2>3, <2>4, FewIds
  <2>5. CASE ~over
    BY <2>2, <2>5, FewIds
  <2> QED
    BY <2>4, <2>5
<1> HIDE DEF a, b, c, d, over
<1>6. ASSUME NEW x \in {Many, MuchText, TooLarge} \cup HitRules, NoId(b, x)
      PROVE  Sequence(Measured(size)) /\ NoId(Measured(size), x)
  <2>1. Sequence(a \o b) /\ NoId(a \o b, x)
    BY <1>2, <1>5, <1>6, NoIdJoined
  <2>2. Sequence((a \o b) \o c) /\ NoId((a \o b) \o c, x)
    BY <1>3, <2>1, NoIdJoined
  <2> QED
    BY <1>1, <1>4, <2>2, NoIdJoined
<1>7. ASSUME OneId(b, TooLarge)
      PROVE  Sequence(Measured(size)) /\ OneId(Measured(size), TooLarge)
  <2>1. Sequence(a \o b) /\ OneId(a \o b, TooLarge)
    BY <1>2, <1>5, <1>7, OneIdThen
  <2>2. Sequence((a \o b) \o c) /\ OneId((a \o b) \o c, TooLarge)
    BY <1>3, <2>1, OneIdFirst
  <2> QED
    BY <1>1, <1>4, <2>2, OneIdFirst
<1> QED
  BY <1>5, <1>6, <1>7 DEF over

\* What limits.count and limits.measure report of one file.
LEMMA EntryTold ==
  ASSUME case \in Cases, NEW size
  PROVE  LET told == Counted \o Measured(size) IN
         /\ Sequence(told) /\ NoId(told, MuchText)
         /\ ~(TooMany /\ Many \notin once) => NoId(told, Many)
         /\ TooMany /\ Many \notin once => OneId(told, Many)
         /\ size > case.limits.file => OneId(told, TooLarge)
         /\ ~(size > case.limits.file) => NoId(told, TooLarge)
         /\ \A id \in HitRules : NoId(told, id)
<1>1. Many # MuchText /\ Many # TooLarge
  BY LimitNames
<1>2. Sequence(Counted) /\ NoId(Counted, MuchText) /\ NoId(Counted, TooLarge)
  BY <1>1, CountedTold
<1>3. Sequence(Measured(size)) /\ NoId(Measured(size), Many) /\ NoId(Measured(size), MuchText)
  BY MeasuredTold
<1>4. Sequence(Counted \o Measured(size)) /\ NoId(Counted \o Measured(size), MuchText)
  BY <1>2, <1>3, NoIdJoined
<1>5. ~(TooMany /\ Many \notin once) => NoId(Counted \o Measured(size), Many)
  BY <1>2, <1>3, CountedTold, NoIdJoined
<1>6. TooMany /\ Many \notin once => OneId(Counted \o Measured(size), Many)
  BY <1>2, <1>3, CountedTold, OneIdFirst
<1>7. size > case.limits.file => OneId(Counted \o Measured(size), TooLarge)
  BY <1>2, <1>3, MeasuredTold, OneIdThen
<1>8. ~(size > case.limits.file) => NoId(Counted \o Measured(size), TooLarge)
  BY <1>2, <1>3, MeasuredTold, NoIdJoined
<1>9. \A id \in HitRules : NoId(Counted \o Measured(size), id)
  BY <1>2, <1>3, CountedTold, MeasuredTold, HitNames, NoIdJoined
<1> QED
  BY <1>4, <1>5, <1>6, <1>7, <1>8, <1>9

\* The formats of FILE-INSTALLER and FILE-BINARY are no limit.
LEMMA DetectedTold ==
  ASSUME NEW e, NEW id \in OwnRules
  PROVE  Sequence(Detected(e)) /\ NoId(Detected(e), id)
<1> DEFINE all == Signatures(e.head)
           fit == {k \in DOMAIN all : all[k].magic \in e.head.magics /\ all[k].fits}
<1>1. DOMAIN all = 1..9 /\ \A k \in 1..9 : all[k].rule \in {"FILE-INSTALLER", "FILE-BINARY"}
  <2>1. \A rule, magic, fits : Signature(rule, magic, fits).rule = rule
    BY DEF Signature
  <2> DEFINE s1 == Signature("FILE-INSTALLER", "arch-debian", TRUE)
             s2 == Signature("FILE-INSTALLER", "installer", TRUE)
             s3 == Signature("FILE-BINARY", "executable", TRUE)
             s4 == Signature("FILE-BINARY", "MZ", e.head.len >= 64 /\ e.head.field + 4 <= e.head.len)
             s5 == Signature("FILE-BINARY", "cafebabe", e.head.len >= 8 /\ e.head.field < 45)
             s6 == Signature("FILE-BINARY", "cafebabe", e.head.len >= 8 /\ e.head.field >= 45)
             s7 == Signature("FILE-BINARY", "arch", TRUE)
             s8 == Signature("FILE-BINARY", "FOR1", e.head.len >= 12)
             s9 == Signature("FILE-BINARY", "pyc", e.head.len >= 4 /\ e.head.field \in 3000..3999)
  <2>2. all = <<s1, s2, s3, s4, s5, s6, s7, s8, s9>>
    BY DEF Signatures
  <2>3. s1.rule = "FILE-INSTALLER" /\ s2.rule = "FILE-INSTALLER"
    BY <2>1
  <2>4. s3.rule = "FILE-BINARY"
    BY <2>1
  <2>5. s4.rule = "FILE-BINARY"
    BY <2>1
  <2>6. s5.rule = "FILE-BINARY"
    BY <2>1
  <2>7. s6.rule = "FILE-BINARY"
    BY <2>1
  <2>8. s7.rule = "FILE-BINARY"
    BY <2>1
  <2>9. s8.rule = "FILE-BINARY"
    BY <2>1
  <2>10. s9.rule = "FILE-BINARY"
    BY <2>1
  <2>11. \A k \in 1..9 : k \in {1, 2, 3, 4, 5, 6, 7, 8, 9}
    OBVIOUS
  <2> HIDE DEF all, s1, s2, s3, s4, s5, s6, s7, s8, s9
  <2>12. DOMAIN all = 1..9
    BY <2>2
  <2>13. \A k \in {1, 2, 3, 4, 5, 6, 7, 8, 9} : all[k] \in {s1, s2, s3, s4, s5, s6, s7, s8, s9}
    BY <2>2
  <2> QED
    BY <2>3, <2>4, <2>5, <2>6, <2>7, <2>8, <2>9, <2>10, <2>11, <2>12, <2>13
<1>2. Detected(e) = FirstRule(all, fit)
  BY DEF Detected, Fitting
<1>3. fit \in SUBSET Nat /\ fit \subseteq 1..9
  BY <1>1
<1> HIDE DEF all, fit
<1>4. CASE fit = {}
  BY <1>2, <1>4, FewIds DEF FirstRule
<1>5. CASE fit # {}
  <2>1. Least(fit) \in 1..9
    BY <1>3, <1>5, LeastOf
  <2>2. Detected(e) = <<all[Least(fit)].rule>>
    BY <1>2, <1>5 DEF FirstRule
  <2>3. all[Least(fit)].rule # id
    <3>1. "FILE-INSTALLER" \notin OwnRules /\ "FILE-BINARY" \notin OwnRules
      BY HitNames DEF OwnRules, LimitRules, MeasuredOnce
    <3> QED
      BY <2>1, <3>1, <1>1
  <2> QED
    BY <2>2, <2>3, FewIds
<1> QED
  BY <1>4, <1>5

\* What is told of a file when it was read: its text is counted once, past the limit.
LEMMA ReadTold ==
  ASSUME NEW a, NEW e
  PROVE  LET told == (IF e.head.encrypted THEN <<"ARCHIVE-ENCRYPTED">> ELSE << >>)
                       \o TextTold(a) \o (IF a.type = "unknown" THEN Detected(e) ELSE << >>)
             past == a.type \in Textual /\ sums.text + a.size > case.limits.text
         IN  /\ Sequence(told) /\ NoId(told, Many) /\ NoId(told, TooLarge)
             /\ ~(past /\ MuchText \notin once) => NoId(told, MuchText)
             /\ past /\ MuchText \notin once => OneId(told, MuchText)
             /\ MuchText \in ToSet(TextTold(a)) <=> past /\ MuchText \notin once
             /\ \A x : x # MuchText => x \notin ToSet(TextTold(a))
             /\ \A x \in HitRules : NoId(told, x)
<1> DEFINE x == IF e.head.encrypted THEN <<"ARCHIVE-ENCRYPTED">> ELSE << >>
           y == TextTold(a)
           z == IF a.type = "unknown" THEN Detected(e) ELSE << >>
           past == a.type \in Textual /\ sums.text + a.size > case.limits.text
           told == x \o y \o z
<1>1. \A id \in OwnRules : Sequence(x) /\ NoId(x, id)
  <2>1. "ARCHIVE-ENCRYPTED" \notin OwnRules
    BY HitNames DEF OwnRules, LimitRules, MeasuredOnce
  <2> QED
    BY <2>1, FewIds
<1>2. \A id \in OwnRules : Sequence(z) /\ NoId(z, id)
  BY DetectedTold, FewIds
<1>3. /\ Sequence(y) /\ \A id : id # MuchText => NoId(y, id)
      /\ ~(past /\ MuchText \notin once) => NoId(y, MuchText)
      /\ past /\ MuchText \notin once => OneId(y, MuchText)
  <2>1. CASE past
    <3>1. y = Once(MuchText)
      BY <2>1 DEF TextTold, MuchText
    <3> HIDE DEF y, past
    <3> QED
      BY <2>1, <3>1, OnceTold
  <2>2. CASE ~past
    <3>1. y = << >>
      BY <2>2 DEF TextTold
    <3> HIDE DEF y, past
    <3> QED
      BY <2>2, <3>1, FewIds
  <2> QED
    BY <2>1, <2>2
<1>4. {Many, MuchText, TooLarge} \subseteq OwnRules /\ Many # MuchText /\ TooLarge # MuchText
  BY LimitNames DEF OwnRules
<1>5. told = (x \o y) \o z
  OBVIOUS
<1> HIDE DEF x, y, z, past, told
<1>6. ASSUME NEW id \in OwnRules, NoId(y, id) PROVE Sequence(told) /\ NoId(told, id)
  <2>1. Sequence(x \o y) /\ NoId(x \o y, id)
    BY <1>1, <1>3, <1>6, NoIdJoined
  <2> QED
    BY <2>1, <1>2, <1>5, NoIdJoined
<1>7. ASSUME OneId(y, MuchText) PROVE Sequence(told) /\ OneId(told, MuchText)
  <2>1. Sequence(x \o y) /\ OneId(x \o y, MuchText)
    BY <1>1, <1>3, <1>4, <1>7, OneIdThen
  <2> QED
    BY <2>1, <1>2, <1>4, <1>5, OneIdFirst
<1>8. /\ MuchText \in ToSet(y) <=> past /\ MuchText \notin once
      /\ \A id : id # MuchText => id \notin ToSet(y)
  BY <1>3, InIds
<1>9. /\ Sequence(told) /\ NoId(told, Many) /\ NoId(told, TooLarge)
      /\ ~(past /\ MuchText \notin once) => NoId(told, MuchText)
      /\ past /\ MuchText \notin once => OneId(told, MuchText)
      /\ \A id \in HitRules : NoId(told, id)
  BY <1>3, <1>4, <1>6, <1>7, HitNames DEF OwnRules
<1> QED
  BY <1>8, <1>9 DEF x, y, z, past, told

-----------------------------------------------------------------------------
(* The steps of the walk. *)

LEMMA FolderStays ==
  ASSUME case' = case
  PROVE  Pending' = Pending /\ Lost' = Lost
BY DEF Pending, Lost, EntriesThat

\* A report extends the findings.
LEMMA ReportAppends ==
  ASSUME NEW ids, NEW file, Report(ids, file)
  PROVE  findings' = findings \o Findings(Allowed(ids), file)
BY DEF Report, Record, RecordAt

\* One more artifact, and the next entry.
LEMMA FileAdded ==
  ASSUME WalkShape, WalkFiles, case' = case, i <= Len(Pending), i' = i + 1,
         NEW a, a.path = Entry.path, a.size \in Nat, AddArtifact(a)
  PROVE  /\ i \in Nat \ {0} /\ i' \in 1..(Len(Pending) + 1)
         /\ Sequence(artifacts') /\ Len(artifacts') = Len(Lost) + (i' - 1)
         /\ Walked' = Append(Walked, a) /\ Len(Walked') = i
         /\ \A k \in 1..Len(Walked) : Walked'[k] = Walked[k]
         /\ Walked'[i] = a
         /\ WalkFiles'
<1>1. /\ Pending' = Pending /\ Lost' = Lost /\ Sequence(Pending) /\ Sequence(Lost)
      /\ i \in 1..(Len(Pending) + 1) /\ Sequence(artifacts) /\ Len(artifacts) = Len(Lost) + (i - 1)
      /\ artifacts' = Append(artifacts, a)
  BY FolderStays, FolderType DEF WalkShape, AddArtifact
<1>2. Len(Pending) \in Nat /\ Len(Lost) \in Nat
  BY <1>1, Listing
<1>3. i \in Nat \ {0} /\ i' \in 1..(Len(Pending) + 1)
  BY <1>1, <1>2
<1>4. Len(Lost) <= Len(artifacts)
  BY <1>1, <1>2, <1>3
<1>5. /\ Sequence(artifacts') /\ Len(artifacts') = Len(artifacts) + 1
      /\ SubSeq(artifacts', Len(Lost) + 1, Len(artifacts'))
           = Append(SubSeq(artifacts, Len(Lost) + 1, Len(artifacts)), a)
  BY <1>1, <1>2, <1>4, WalkedMore
<1>6. Walked' = Append(Walked, a)
  BY <1>1, <1>5 DEF Walked
<1>7. SizesOK(Walked) /\ Len(Walked) = i - 1 /\ case.limits.text \in Nat
  BY FolderType DEF WalkFiles, WalkShape
<1>8. /\ SizesOK(Walked') /\ Len(Walked') = Len(Walked) + 1
      /\ \A k \in 1..Len(Walked) : Walked'[k] = Walked[k]
      /\ Walked'[Len(Walked')] = a
  <2>1. OneMore(Walked, a, Walked')
    BY <1>6, <1>7, PastMore
  <2> QED
    BY <2>1 DEF OneMore
<1>9. Len(Walked') = i /\ Walked'[i] = a /\ Len(artifacts') = Len(Lost) + (i' - 1)
  BY <1>1, <1>2, <1>3, <1>5, <1>7, <1>8
<1>10. WalkFiles'
  <2>1. ASSUME NEW k \in 1..Len(Walked') PROVE Walked'[k].path = Pending'[k].path
    <3>1. k \in 1..Len(Walked) \/ k = i
      BY <1>3, <1>7, <1>9
    <3>2. CASE k \in 1..Len(Walked)
      BY <3>2, <1>1, <1>8 DEF WalkFiles
    <3>3. CASE k = i
      BY <3>3, <1>1, <1>9 DEF Entry
    <3> QED
      BY <3>1, <3>2, <3>3
  <2>2. Len(Walked') = i' - 1
    BY <1>3, <1>9
  <2> QED
    BY <2>1, <2>2, <1>8 DEF WalkFiles
<1> QED
  BY <1>1, <1>3, <1>5, <1>6, <1>8, <1>9, <1>10

\* Counting one more entry: the first past the limit of files is told.
LEMMA FilesLimitCounted ==
  ASSUME WalkShape, WalkSums, FilesLimit, case' = case, stat = {}, i <= Len(Pending),
         NEW told, Sequence(told), findings' = findings \o Findings(Allowed(told), Entry.path),
         ~(TooMany /\ Many \notin once) => NoId(told, Many),
         TooMany /\ Many \notin once => OneId(told, Many),
         sums'.files = sums.files + 1, Many \in once' <=> Many \in once \/ TooMany
  PROVE  FilesLimit'
<1>1. /\ sums.files \in Nat /\ sums.files = i - 1 /\ case.limits.files \in Nat
      /\ Pending' = Pending /\ i \in Nat /\ Sequence(findings)
  <2>1. Sequence(Pending) /\ case.limits.files \in Nat /\ Pending' = Pending
    BY FolderType, FolderStays DEF WalkShape
  <2>2. Len(Pending) \in Nat
    BY <2>1, Listing
  <2> QED
    BY <2>1, <2>2 DEF WalkSums, WalkShape, Entered
<1>2. findings' = findings \o Findings(Allowed(told), Entry.path)
  BY ReportAppends
<1>3. TooMany <=> sums'.files > case'.limits.files
  BY DEF TooMany
<1>4. Many \in once => TooMany
  BY <1>1 DEF FilesLimit, TooMany
<1>5. CASE Many \in once
  <2>1. NoId(told, Many) /\ Many \in once'
    BY <1>5
  <2>2. ASSUME NEW f, ToldOnce(findings, Many, f) PROVE ToldOnce(findings', Many, f)
    <3>1. /\ Sequence(findings) /\ Sequence(told)
          /\ findings' = findings \o Findings(Allowed(told), Entry.path)
      BY <1>1, <1>2
    <3> QED
      BY ONLY <2>1, <2>2, <3>1, TellMore
  <2> QED
    BY <2>1, <2>2, <1>1, <1>3, <1>4, <1>5 DEF FilesLimit
<1>6. CASE Many \notin once /\ ~TooMany
  <2>1. NoId(told, Many) /\ Many \notin once' /\ ToldNone(findings, Many)
    BY <1>6 DEF FilesLimit
  <2>2. ToldNone(findings', Many)
    BY <2>1, <1>1, <1>2, TellMore
  <2> QED
    BY <2>1, <2>2, <1>3, <1>6 DEF FilesLimit
<1>7. CASE Many \notin once /\ TooMany
  <2>1. OneId(told, Many) /\ Many \in once' /\ ToldNone(findings, Many)
    BY <1>7 DEF FilesLimit
  <2>2. i = case.limits.files + 1
    BY <1>1, <1>7 DEF FilesLimit, TooMany
  <2>3. Many \in case.allowed => ToldOnce(findings', Many, Entry.path)
    BY <2>1, <1>1, <1>2, TellMore
  <2> QED
    BY <2>1, <2>2, <2>3, <1>1, <1>3, <1>7 DEF FilesLimit, Entry
<1> QED
  BY <1>5, <1>6, <1>7

LEMMA FilesLimitStays ==
  ASSUME WalkShape, FilesLimit, case' = case, NEW told, Sequence(told), findings' = findings \o Findings(Allowed(told), Entry.path),
         NoId(told, Many), sums'.files = sums.files, Many \in once' <=> Many \in once
  PROVE  FilesLimit'
<1>1. /\ findings' = findings \o Findings(Allowed(told), Entry.path) /\ Pending' = Pending
      /\ Sequence(findings)
  BY ReportAppends, FolderStays DEF WalkShape
<1>2. /\ ToldNone(findings, Many) => ToldNone(findings', Many)
      /\ \A f : ToldOnce(findings, Many, f) => ToldOnce(findings', Many, f)
  BY <1>1, TellKeeps
<1> QED
  BY <1>1, <1>2 DEF FilesLimit

\* What adds no text leaves what is told of it.
LEMMA TextLimitStays ==
  ASSUME WalkShape, TextLimit, case' = case, NEW told, Sequence(told), findings' = findings \o Findings(Allowed(told), Entry.path),
         NoId(told, MuchText), sums'.text = sums.text, MuchText \in once' <=> MuchText \in once,
         Walked' = Walked
  PROVE  TextLimit'
<1>1. findings' = findings \o Findings(Allowed(told), Entry.path) /\ Sequence(findings)
  BY ReportAppends DEF WalkShape
<1>2. /\ ToldNone(findings, MuchText) => ToldNone(findings', MuchText)
      /\ \A f : ToldOnce(findings, MuchText, f) => ToldOnce(findings', MuchText, f)
  BY <1>1, TellKeeps
<1>3. PastText(Walked)' = PastText(Walked)
  BY DEF PastText
<1> QED
  BY <1>1, <1>2, <1>3 DEF TextLimit

\* One more file: the first one past the limit of text is told.
LEMMA TextLimitMore ==
  ASSUME WalkShape, WalkFiles, WalkSums, TextLimit, case' = case, NEW a, a.size \in Nat,
         a.path = Entry.path,
         NEW told, Sequence(told), findings' = findings \o Findings(Allowed(told), Entry.path), Walked' = Append(Walked, a),
         sums'.text = sums.text + TextIn(a),
         LET past == sums.text + TextIn(a) > case.limits.text IN
           /\ ~(past /\ MuchText \notin once) => NoId(told, MuchText)
           /\ past /\ MuchText \notin once => OneId(told, MuchText)
           /\ MuchText \in once' <=> MuchText \in once \/ past
  PROVE  TextLimit' /\ sums'.text = TextUpTo(Walked')[Len(Walked')]
<1> DEFINE past == sums.text + TextIn(a) > case.limits.text
<1>1. /\ findings' = findings \o Findings(Allowed(told), Entry.path)
      /\ SizesOK(Walked) /\ case.limits.text \in Nat /\ Sequence(findings)
      /\ sums.text \in Nat /\ sums.text = TextUpTo(Walked)[Len(Walked)] /\ TextIn(a) \in Nat
  <2>1. TextIn(a) \in Nat
    BY DEF TextIn
  <2> QED
    BY <2>1, FolderType, ReportAppends DEF WalkShape, WalkFiles, WalkSums
<1>2. /\ Len(Walked') = Len(Walked) + 1
      /\ \A k \in 1..Len(Walked) : Walked'[k] = Walked[k]
      /\ TextUpTo(Walked')[Len(Walked')] = TextUpTo(Walked)[Len(Walked)] + TextIn(a)
      /\ PastText(Walked') # {} <=> TextUpTo(Walked')[Len(Walked')] > case.limits.text
      /\ PastText(Walked) # {} =>
           Walked'[Least(PastText(Walked'))] = Walked[Least(PastText(Walked))]
      /\ PastText(Walked) = {} /\ PastText(Walked') # {} => Walked'[Least(PastText(Walked'))] = a
  <2>1. SizesOK(Walked) /\ a.size \in Nat /\ case.limits.text \in Nat
    BY <1>1
  <2>2. OneMore(Walked, a, Walked')
    BY <2>1, PastMore
  <2> QED
    BY <2>2 DEF OneMore
<1>3. sums'.text = TextUpTo(Walked')[Len(Walked')] /\ (past <=> sums'.text > case'.limits.text)
  BY <1>1, <1>2
<1>10. PastText(Walked)' = PastText(Walked')
  BY DEF PastText
<1>4. past <=> PastText(Walked)' # {}
  BY <1>2, <1>3, <1>10
<1>5. /\ ToldNone(findings, MuchText) /\ NoId(told, MuchText) => ToldNone(findings', MuchText)
      /\ \A f : ToldOnce(findings, MuchText, f) /\ NoId(told, MuchText) => ToldOnce(findings', MuchText, f)
      /\ MuchText \in case.allowed /\ OneId(told, MuchText) /\ ToldNone(findings, MuchText) =>
           ToldOnce(findings', MuchText, Entry.path)
  <2>1. /\ Sequence(findings) /\ Sequence(told)
        /\ findings' = findings \o Findings(Allowed(told), Entry.path)
    BY <1>1
  <2>2. ASSUME NoId(told, MuchText)
        PROVE  /\ ToldNone(findings, MuchText) => ToldNone(findings', MuchText)
               /\ \A f : ToldOnce(findings, MuchText, f) => ToldOnce(findings', MuchText, f)
    BY ONLY <2>1, <2>2, TellKeeps
  <2>3. MuchText \in case.allowed /\ OneId(told, MuchText) /\ ToldNone(findings, MuchText) =>
          ToldOnce(findings', MuchText, Entry.path)
    BY ONLY <2>1, TellMore
  <2> QED
    BY <2>2, <2>3
<1>6. MuchText \in once => past
  BY <1>1 DEF TextLimit
<1> HIDE DEF past
<1>7. CASE MuchText \in once
  <2>1. NoId(told, MuchText) /\ past /\ PastText(Walked) # {}
    BY <1>6, <1>7 DEF TextLimit, past
  <2> QED
    BY <2>1, <1>2, <1>3, <1>4, <1>5, <1>7, <1>10 DEF TextLimit, past
<1>8. CASE MuchText \notin once /\ ~past
  <2>1. NoId(told, MuchText)
    BY <1>8 DEF past
  <2> QED
    BY <2>1, <1>3, <1>4, <1>5, <1>8 DEF TextLimit, past
<1>9. CASE MuchText \notin once /\ past
  <2>1. OneId(told, MuchText) /\ PastText(Walked) = {}
    BY <1>9 DEF TextLimit, past
  <2> QED
    BY <2>1, <1>2, <1>3, <1>4, <1>5, <1>9, <1>10 DEF TextLimit, past
<1> QED
  BY <1>3, <1>7, <1>8, <1>9

\* A report that is not about a too large file leaves what is told of those.
LEMMA FileLimitStays ==
  ASSUME WalkShape, WalkFiles, FileLimit, case' = case, i <= Len(Pending), i' = i + 1,
         NEW a, Walked' = Append(Walked, a), \A k \in 1..Len(Walked) : Walked'[k] = Walked[k],
         \A f : Told(findings', TooLarge, f) <=> Told(findings, TooLarge, f),
         ~(Large(Entry) /\ ~case.faults)
  PROVE  FileLimit'
<1>1. /\ Pending' = Pending /\ i \in 1..(Len(Pending) + 1) /\ Len(Walked) = i - 1
      /\ Sequence(Pending)
  BY FolderStays, FolderType DEF WalkShape, WalkFiles
<1>2. Len(Pending) \in Nat /\ i \in Nat
  <2>1. Len(Pending) \in Nat
    BY <1>1, Listing
  <2> QED
    BY <2>1, <1>1
<1>3. ASSUME NEW k \in 1..Len(Pending), Told(findings', TooLarge, Pending[k].path)
      PROVE  k < i' /\ Large(Pending[k]) /\ ~Walked'[k].ok
  <2>1. Told(findings, TooLarge, Pending[k].path)
    BY <1>3
  <2>2. k < i /\ Large(Pending[k]) /\ ~Walked[k].ok
    BY <2>1 DEF FileLimit
  <2>3. k \in 1..Len(Walked)
    BY <2>2, <1>1, <1>2
  <2> QED
    BY <2>2, <2>3, <1>2
<1>4. ASSUME NEW k \in 1..Len(Pending), k < i', Large(Pending[k]), ~case.faults,
             TooLarge \in case.allowed
      PROVE  Told(findings', TooLarge, Pending[k].path)
  <2>1. k # i
    BY <1>4 DEF Entry
  <2>2. k < i
    BY <2>1, <1>2, <1>4
  <2> QED
    BY <2>2, <1>4 DEF FileLimit
<1>5. \A k \in 1..Len(Pending) : Large(Pending[k])' <=> Large(Pending[k])
  BY <1>1 DEF Large
<1> QED
  BY <1>1, <1>3, <1>4, <1>5 DEF FileLimit

\* Once: the rules of MeasuredOnce, when they are told.
LEMMA OnceCounted ==
  ASSUME NEW told, Sequence(told), NoId(told, MuchText),
         ~(TooMany /\ Many \notin once) => NoId(told, Many),
         TooMany /\ Many \notin once => OneId(told, Many),
         once' = once \cup (ToSet(told) \cap MeasuredOnce)
  PROVE  /\ Many \in once' <=> Many \in once \/ TooMany
         /\ MuchText \in once' <=> MuchText \in once
<1>1. Many \in MeasuredOnce /\ MuchText \notin MeasuredOnce
  BY LimitNames
<1>2. Many \in ToSet(told) <=> TooMany /\ Many \notin once
  BY InIds
<1> QED
  BY <1>1, <1>2

\* An entry that is counted and left: it is gone, or no file.
LEMMA CountLeaves ==
  ASSUME WalkInv, case' = case, stat = {}, stat' = stat, i <= Len(Pending), i' = i + 1,
         Count, NEW a, a.path = Entry.path, a.size = 0, AddArtifact(a),
         ~(Large(Entry) /\ ~case.faults)
  PROVE  WalkInv'
<1>1. WalkShape /\ WalkFiles /\ WalkSums /\ FilesLimit /\ TextLimit /\ FileLimit
  BY DEF WalkInv
<1>2. /\ i \in Nat \ {0} /\ i' \in 1..(Len(Pending) + 1)
      /\ Sequence(artifacts') /\ Len(artifacts') = Len(Lost) + (i' - 1)
      /\ Walked' = Append(Walked, a) /\ Len(Walked') = i
      /\ \A k \in 1..Len(Walked) : Walked'[k] = Walked[k]
      /\ Walked'[i] = a
      /\ WalkFiles'
  BY <1>1, FileAdded
<1>3. /\ Pending' = Pending /\ Lost' = Lost /\ case \in Cases /\ Sequence(findings)
      /\ Report(Counted, Entry.path)
      /\ sums' = [sums EXCEPT !.files = @ + 1] /\ once' = once \cup ToSet(Counted)
  BY <1>1, FolderStays DEF WalkShape, Count
<1>4. /\ Sequence(Counted) /\ NoId(Counted, MuchText) /\ NoId(Counted, TooLarge)
      /\ ~(TooMany /\ Many \notin once) => NoId(Counted, Many)
      /\ TooMany /\ Many \notin once => OneId(Counted, Many)
  BY CountedTold, LimitNames
<1>5. /\ findings' = findings \o Findings(Allowed(Counted), Entry.path)
      /\ Sequence(findings')
      /\ \A f : Told(findings', TooLarge, f) <=> Told(findings, TooLarge, f)
  <2>1. findings' = findings \o Findings(Allowed(Counted), Entry.path)
    BY <1>3, ReportAppends
  <2>2. Sequence(findings')
    BY <1>3, <1>4, <2>1, TellType
  <2>3. ASSUME NEW f PROVE Told(findings', TooLarge, f) <=> Told(findings, TooLarge, f)
    BY ONLY <1>3, <1>4, <2>1, TellOther
  <2> QED
    BY <2>1, <2>2, <2>3
<1>6. /\ sums \in [files : Nat, bundle : Nat, text : Nat] /\ sums.files = i - 1
      /\ sums.text = TextUpTo(Walked)[Len(Walked)]
  BY <1>1 DEF WalkSums, Entered
<1>7. /\ sums' \in [files : Nat, bundle : Nat, text : Nat]
      /\ sums'.files = sums.files + 1 /\ sums'.text = sums.text
  BY <1>3, <1>6
<1>8. /\ Many \in once' <=> Many \in once \/ TooMany
      /\ MuchText \in once' <=> MuchText \in once
  BY <1>3, <1>4, InIds
<1>9. FilesLimit'
  BY <1>1, <1>3, <1>4, <1>5, <1>7, <1>8, FilesLimitCounted
<1>10. TextIn(a) = 0
  BY DEF TextIn
<1>11. sums.text \in Nat /\ sums.text + TextIn(a) = sums.text
  BY <1>6, <1>10
<1>12. TextLimit' /\ sums'.text = TextUpTo(Walked')[Len(Walked')]
  <2>1. /\ a.size \in Nat /\ sums'.text = sums.text + TextIn(a)
        /\ sums.text + TextIn(a) > case.limits.text <=> MuchText \in once
    BY <1>1, <1>7, <1>11 DEF TextLimit
  <2> QED
    BY <1>1, <1>2, <1>3, <1>4, <1>5, <1>8, <2>1, TextLimitMore
<1>13. WalkShape'
  BY <1>2, <1>3, <1>5 DEF WalkShape
<1>14. WalkSums'
  <2>1. i' - 1 = i
    BY <1>2
  <2> QED
    BY <2>1, <1>2, <1>6, <1>7, <1>12 DEF WalkSums, Entered
<1>15. FileLimit'
  BY <1>1, <1>2, <1>5, FileLimitStays
<1> QED
  BY <1>2, <1>9, <1>12, <1>13, <1>14, <1>15 DEF WalkInv

LEMMA VanishKeeps ==
  ASSUME WalkInv, Vanish
  PROVE  WalkInv'
<1> DEFINE a == Failed(Entry, None)
<1>1. a.path = Entry.path /\ a.size = 0
  BY DEF Failed, Artifact
<1> HIDE DEF a
<1>2. /\ case' = case /\ stat = {} /\ stat' = stat /\ i <= Len(Pending) /\ i' = i + 1
      /\ Count /\ AddArtifact(a) /\ ~(Large(Entry) /\ ~case.faults)
  BY DEF Vanish, Walking, AtEntry, Unread, a
<1> QED
  BY <1>1, <1>2, CountLeaves

LEMMA TakeSpecialKeeps ==
  ASSUME WalkInv, TakeSpecial
  PROVE  WalkInv'
<1> DEFINE a == Artifact(Entry.path, Entry.kind, TRUE, 0, << >>, Entry.target)
<1>1. a.path = Entry.path /\ a.size = 0
  BY DEF Artifact
<1> HIDE DEF a
<1>2. /\ case' = case /\ stat = {} /\ stat' = stat /\ i <= Len(Pending) /\ i' = i + 1
      /\ Count /\ AddArtifact(a) /\ Entry.kind \in {"symlink", "special"}
  BY DEF TakeSpecial, Walking, AtEntry, Unread, a
<1>3. ~(Large(Entry) /\ ~case.faults)
  BY <1>2 DEF Large
<1> QED
  BY <1>1, <1>2, <1>3, CountLeaves

LEMMA MeasureKeeps ==
  ASSUME WalkInv, Measure
  PROVE  WalkInv'
<1>1. WalkShape /\ WalkFiles /\ WalkSums /\ FilesLimit /\ TextLimit /\ FileLimit
  BY DEF WalkInv
<1>2. PICK size : size = Size(Entry.now)
  OBVIOUS
<1>3. PICK told : told = Counted \o Measured(size)
  OBVIOUS
<1>4. /\ MeasureAs(size, told) /\ pc' = pc /\ case' = case
      /\ stat = {} /\ i <= Len(Pending) /\ Entry.kind = "file"
  BY <1>2, <1>3 DEF Measure, Walking, AtEntry, Unread
<1>5. /\ Pending' = Pending /\ Lost' = Lost /\ case \in Cases /\ Sequence(findings)
      /\ i \in 1..(Len(Pending) + 1) /\ Sequence(Pending)
      /\ \A k \in 1..Len(Pending) : IsText(Pending[k].now)
      /\ \A j, k \in 1..Len(Pending) : Pending[j].path = Pending[k].path => j = k
  BY <1>1, <1>4, FolderStays, FolderType DEF WalkShape
<1>6. Len(Pending) \in Nat /\ i \in Nat \ {0} /\ i \in 1..Len(Pending)
  <2>1. Len(Pending) \in Nat
    BY <1>5, Listing
  <2> QED
    BY <2>1, <1>4, <1>5
<1>7. size \in Nat
  BY <1>2, <1>5, <1>6, SizeType DEF Entry
<1>8. /\ sums' = [sums EXCEPT !.files = @ + 1, !.bundle = @ + size]
      /\ once' = once \cup (ToSet(told) \cap MeasuredOnce)
      /\ Report(told, Entry.path)
  BY <1>4 DEF MeasureAs
<1>9. /\ Sequence(told) /\ NoId(told, MuchText)
      /\ ~(TooMany /\ Many \notin once) => NoId(told, Many)
      /\ TooMany /\ Many \notin once => OneId(told, Many)
      /\ size > case.limits.file => OneId(told, TooLarge)
      /\ ~(size > case.limits.file) => NoId(told, TooLarge)
  BY <1>3, <1>5, EntryTold
<1>10. /\ sums \in [files : Nat, bundle : Nat, text : Nat] /\ sums.files = i - 1
       /\ sums.text = TextUpTo(Walked)[Len(Walked)]
  BY <1>1, <1>4 DEF WalkSums, Entered
<1>11. /\ sums' \in [files : Nat, bundle : Nat, text : Nat]
       /\ sums'.files = sums.files + 1 /\ sums'.text = sums.text
  <2>1. sums' = [files |-> sums.files + 1, bundle |-> sums.bundle + size, text |-> sums.text]
    BY <1>8, <1>10
  <2>2. sums.files \in Nat /\ sums.bundle \in Nat /\ sums.text \in Nat
    BY <1>10
  <2>3. sums.files + 1 \in Nat /\ sums.bundle + size \in Nat
    BY <2>2, <1>7
  <2> QED
    BY <2>1, <2>2, <2>3
<1>12. /\ Many \in once' <=> Many \in once \/ TooMany
       /\ MuchText \in once' <=> MuchText \in once
  BY <1>8, <1>9, OnceCounted
<1>13. findings' = findings \o Findings(Allowed(told), Entry.path)
  BY <1>8, ReportAppends
<1>14. FilesLimit'
  BY <1>1, <1>4, <1>13, <1>9, <1>11, <1>12, FilesLimitCounted
<1>15. Sequence(findings')
  BY <1>5, <1>9, <1>13, TellType
<1>16. Large(Entry) <=> size > case.limits.file
  BY <1>2, <1>4 DEF Large
<1>17. CASE ~(size > case.limits.file)
  <2>1. stat' = {size} /\ artifacts' = artifacts /\ i' = i
    BY <1>4, <1>17 DEF MeasureAs
  <2>2. Walked' = Walked
    BY <2>1, <1>5 DEF Walked
  <2>3. WalkShape'
    <3>1. Entry' = Entry /\ (Large(Entry)' <=> Large(Entry))
      BY <2>1, <1>4, <1>5 DEF Entry, Large
    <3> QED
      BY <2>1, <3>1, <1>1, <1>4, <1>5, <1>15, <1>16, <1>17 DEF WalkShape
  <2>4. WalkFiles'
    BY <2>1, <2>2, <1>1, <1>5 DEF WalkFiles
  <2>5. WalkSums'
    <3>1. stat' # {} /\ i' = sums.files + 1
      BY <2>1, <1>6, <1>10
    <3> QED
      BY <2>2, <3>1, <1>10, <1>11 DEF WalkSums, Entered
  <2>6. TextLimit'
    BY <2>2, <1>1, <1>4, <1>9, <1>11, <1>12, <1>13, TextLimitStays
  <2>7. FileLimit'
    <3>1. ASSUME NEW f PROVE Told(findings', TooLarge, f) <=> Told(findings, TooLarge, f)
      <4>1. /\ NoId(told, TooLarge) /\ Sequence(told) /\ Sequence(findings)
        BY <1>5, <1>9, <1>17
      <4> QED
        BY ONLY <4>1, <1>13, TellOther
    <3>2. \A k \in 1..Len(Pending) : Large(Pending[k])' <=> Large(Pending[k])
      BY <1>4, <1>5 DEF Large
    <3> QED
      BY <2>1, <2>2, <3>1, <3>2, <1>1, <1>4, <1>5 DEF FileLimit
  <2> QED
    BY <2>3, <2>4, <2>5, <2>6, <2>7, <1>14 DEF WalkInv
<1>18. CASE size > case.limits.file
  <2> DEFINE a == Failed(Entry, None)
  <2>1. a.path = Entry.path /\ a.size = 0 /\ ~a.ok
    BY DEF Failed, Artifact
  <2> HIDE DEF a
  <2>2. AddArtifact(a) /\ i' = i + 1 /\ stat' = stat
    BY <1>4, <1>18 DEF MeasureAs, a
  <2>3. /\ i' \in 1..(Len(Pending) + 1)
        /\ Sequence(artifacts') /\ Len(artifacts') = Len(Lost) + (i' - 1)
        /\ Walked' = Append(Walked, a) /\ Len(Walked') = i
        /\ \A k \in 1..Len(Walked) : Walked'[k] = Walked[k]
        /\ Walked'[i] = a
        /\ WalkFiles'
    <3>1. a.size \in Nat
      BY <2>1
    <3> QED
      BY <3>1, <2>1, <2>2, <1>1, <1>4, FileAdded
  <2>4. TextIn(a) = 0
    BY <2>1 DEF TextIn
  <2>5. sums.text \in Nat /\ sums.text + TextIn(a) = sums.text
    BY <1>10, <2>4
  <2>6. TextLimit' /\ sums'.text = TextUpTo(Walked')[Len(Walked')]
    <3>1. /\ a.size \in Nat /\ sums'.text = sums.text + TextIn(a)
          /\ sums.text + TextIn(a) > case.limits.text <=> MuchText \in once
      BY <1>1, <1>11, <2>1, <2>5 DEF TextLimit
    <3> QED
      BY <1>1, <1>4, <1>9, <1>12, <1>13, <2>1, <2>3, <3>1, TextLimitMore
  <2>7. WalkShape'
    BY <2>2, <2>3, <1>4, <1>5, <1>15 DEF WalkShape
  <2>8. WalkSums'
    <3>1. i' - 1 = i /\ stat' = {}
      BY <2>2, <1>4, <1>6
    <3> QED
      BY <2>6, <3>1, <1>10, <1>11, <1>6 DEF WalkSums, Entered
  <2>9. FileLimit'
    <3>1. /\ OneId(told, TooLarge) /\ Sequence(told) /\ Sequence(findings)
      BY <1>5, <1>9, <1>18
    <3>2. ASSUME NEW f PROVE /\ Told(findings, TooLarge, f) => Told(findings', TooLarge, f)
                             /\ Told(findings', TooLarge, f) => Told(findings, TooLarge, f) \/ f = Entry.path
      BY ONLY <3>1, <1>13, TellMore
    <3>3. TooLarge \in case.allowed => Told(findings', TooLarge, Entry.path)
      BY ONLY <3>1, <1>13, TellMore
    <3>4. ASSUME NEW k \in 1..Len(Pending), Told(findings', TooLarge, Pending[k].path)
          PROVE  k < i' /\ Large(Pending[k]) /\ ~Walked'[k].ok
      <4>1. CASE Told(findings, TooLarge, Pending[k].path)
        <5>1. k < i /\ Large(Pending[k]) /\ ~Walked[k].ok
          BY <4>1, <1>1 DEF FileLimit
        <5>2. k \in 1..Len(Walked)
          BY <5>1, <1>1, <1>6 DEF WalkFiles
        <5> QED
          BY <5>1, <5>2, <2>2, <2>3, <1>6
      <4>2. CASE Pending[k].path = Entry.path
        <5>1. k = i
          BY <4>2, <1>5, <1>6 DEF Entry
        <5> QED
          BY <5>1, <1>6, <1>16, <1>18, <2>1, <2>2, <2>3 DEF Entry
      <4> QED
        BY <3>2, <3>4, <4>1, <4>2
    <3>5. ASSUME NEW k \in 1..Len(Pending), k < i', Large(Pending[k]), ~case.faults,
                 TooLarge \in case.allowed
          PROVE  Told(findings', TooLarge, Pending[k].path)
      <4>1. CASE k = i
        BY <4>1, <3>3, <3>5 DEF Entry
      <4>2. CASE k # i
        <5>1. k < i
          BY <4>2, <3>5, <2>2, <1>6
        <5> QED
          BY <5>1, <3>2, <3>5, <1>1 DEF FileLimit
      <4> QED
        BY <4>1, <4>2
    <3>6. \A k \in 1..Len(Pending) : Large(Pending[k])' <=> Large(Pending[k])
      BY <1>4, <1>5 DEF Large
    <3> QED
      BY <3>4, <3>5, <3>6, <1>4, <1>5 DEF FileLimit
  <2> QED
    BY <2>3, <2>6, <2>7, <2>8, <2>9, <1>14 DEF WalkInv
<1> QED
  BY <1>17, <1>18

LEMMA NothingTold ==
  ASSUME NEW fs, Sequence(fs), NEW file
  PROVE  fs = fs \o Findings(Allowed(<< >>), file)
<1>1. Sequence(<< >>) /\ DOMAIN << >> = {}
  BY FewIds
<1>2. Allowed(<< >>) = << >>
  <2>1. Allowed(<< >>) = Picked(<< >>, {})
    BY <1>1 DEF Allowed
  <2> QED
    BY <2>1, <1>1, PickedNone
<1>3. Findings(Allowed(<< >>), file) = << >>
  BY <1>1, <1>2 DEF Findings
<1>4. fs \o << >> = fs
  BY DEF Sequence
<1> QED
  BY <1>3, <1>4

\* A file that was measured and is not read counts as no text.
LEMMA ReadLeaves ==
  ASSUME WalkInv, case' = case, stat # {}, stat' = {}, i <= Len(Pending), i' = i + 1,
         NEW a, a.path = Entry.path, a.size \in Nat, AddArtifact(a),
         NEW told, Sequence(told), findings' = findings \o Findings(Allowed(told), Entry.path),
         NoId(told, Many), NoId(told, TooLarge),
         LET past == sums.text + TextIn(a) > case.limits.text IN
           /\ ~(past /\ MuchText \notin once) => NoId(told, MuchText)
           /\ past /\ MuchText \notin once => OneId(told, MuchText)
           /\ MuchText \in once' <=> MuchText \in once \/ past,
         Many \in once' <=> Many \in once,
         sums' = [sums EXCEPT !.text = sums.text + TextIn(a)]
  PROVE  WalkInv'
<1>1. WalkShape /\ WalkFiles /\ WalkSums /\ FilesLimit /\ TextLimit /\ FileLimit
  BY DEF WalkInv
<1>2. /\ i \in Nat \ {0} /\ i' \in 1..(Len(Pending) + 1)
      /\ Sequence(artifacts') /\ Len(artifacts') = Len(Lost) + (i' - 1)
      /\ Walked' = Append(Walked, a) /\ Len(Walked') = i
      /\ \A k \in 1..Len(Walked) : Walked'[k] = Walked[k]
      /\ Walked'[i] = a
      /\ WalkFiles'
  BY <1>1, FileAdded
<1>3. /\ Pending' = Pending /\ Lost' = Lost /\ case \in Cases /\ Sequence(findings)
      /\ ~Large(Entry)
  BY <1>1, FolderStays DEF WalkShape
<1>4. Sequence(findings')
  BY <1>3, TellType
<1>5. /\ sums \in [files : Nat, bundle : Nat, text : Nat] /\ sums.files = i
      /\ sums.text = TextUpTo(Walked)[Len(Walked)]
  BY <1>1 DEF WalkSums, Entered
<1>6. TextIn(a) \in Nat
  BY DEF TextIn
<1>7. /\ sums' \in [files : Nat, bundle : Nat, text : Nat]
      /\ sums'.files = sums.files /\ sums'.text = sums.text + TextIn(a)
  <2>1. sums' = [files |-> sums.files, bundle |-> sums.bundle, text |-> sums.text + TextIn(a)]
    BY <1>5
  <2>2. sums.files \in Nat /\ sums.bundle \in Nat /\ sums.text + TextIn(a) \in Nat
    BY <1>5, <1>6
  <2> QED
    BY <2>1, <2>2
<1>8. FilesLimit'
  BY <1>1, <1>7, FilesLimitStays
<1>9. TextLimit' /\ sums'.text = TextUpTo(Walked')[Len(Walked')]
  BY <1>1, <1>2, <1>7, TextLimitMore
<1>10. FileLimit'
  <2>1. ASSUME NEW f PROVE Told(findings', TooLarge, f) <=> Told(findings, TooLarge, f)
    <3>1. /\ NoId(told, TooLarge) /\ Sequence(told) /\ Sequence(findings)
          /\ findings' = findings \o Findings(Allowed(told), Entry.path)
      BY <1>3
    <3> QED
      BY ONLY <3>1, TellOther
  <2> QED
    BY <2>1, <1>1, <1>2, <1>3, FileLimitStays
<1>11. WalkShape'
  BY <1>2, <1>3, <1>4 DEF WalkShape
<1>12. WalkSums'
  <2>1. i' - 1 = i
    BY <1>2
  <2> QED
    BY <2>1, <1>5, <1>7, <1>9 DEF WalkSums, Entered
<1> QED
  BY <1>2, <1>8, <1>9, <1>10, <1>11, <1>12 DEF WalkInv

LEMMA ReadFileKeeps ==
  ASSUME WalkInv, ReadFile
  PROVE  WalkInv'
<1>1. WalkShape /\ WalkFiles /\ WalkSums /\ TextLimit
  BY DEF WalkInv
<1>2. PICK raw \in {Entry.now, Entry.then} : ReadAs(Regular(Entry, raw))
  BY DEF ReadFile
<1>3. PICK type : type = TypeOf(Entry, raw)
  OBVIOUS
<1>4. PICK a : a = RegularAs(Entry, raw, type)
  OBVIOUS
<1>5. ReadAs(a)
  BY <1>2, <1>3, <1>4 DEF Regular
<1>6. /\ case' = case /\ stat # {} /\ stat' = {} /\ i <= Len(Pending) /\ i' = i + 1
  BY DEF ReadFile, AtEntry, Unread
<1>7. Size(raw) \in Nat
  <2>1. /\ Sequence(Pending) /\ i \in 1..(Len(Pending) + 1)
        /\ \A k \in 1..Len(Pending) : IsText(Pending[k].now) /\ IsText(Pending[k].then)
    BY <1>1, FolderType DEF WalkShape
  <2>2. Len(Pending) \in Nat
    BY <2>1, Listing
  <2>3. i \in 1..Len(Pending)
    BY <2>1, <2>2, <1>6
  <2> QED
    BY <2>1, <2>3, SizeType DEF Entry
<1>8. a.path = Entry.path /\ a.size \in Nat
  BY <1>4, <1>7 DEF RegularAs, Artifact
<1> DEFINE enc == IF Entry.head.encrypted THEN <<"ARCHIVE-ENCRYPTED">> ELSE << >>
           det == IF a.type = "unknown" THEN Detected(Entry) ELSE << >>
<1>9. PICK told : told = enc \o TextTold(a) \o det
  OBVIOUS
<1>10. /\ Report(told, Entry.path) /\ once' = once \cup ToSet(TextTold(a)) /\ AddArtifact(a)
       /\ sums' = IF a.type \in Textual THEN [sums EXCEPT !.text = @ + a.size] ELSE sums
  BY <1>5, <1>9 DEF ReadAs
<1> DEFINE over == a.type \in Textual /\ sums.text + a.size > case.limits.text
<1>11. /\ Sequence(told) /\ NoId(told, Many) /\ NoId(told, TooLarge)
       /\ ~(over /\ MuchText \notin once) => NoId(told, MuchText)
       /\ over /\ MuchText \notin once => OneId(told, MuchText)
       /\ MuchText \in ToSet(TextTold(a)) <=> over /\ MuchText \notin once
       /\ \A x : x # MuchText => x \notin ToSet(TextTold(a))
  BY <1>9, ReadTold
<1> HIDE DEF enc, det, over
<1>12. findings' = findings \o Findings(Allowed(told), Entry.path)
  BY <1>10, ReportAppends
<1>13. sums \in [files : Nat, bundle : Nat, text : Nat] /\ (MuchText \in once <=> sums.text > case.limits.text)
  BY <1>1 DEF WalkSums, TextLimit
<1>14. sums' = [sums EXCEPT !.text = sums.text + TextIn(a)]
  <2>1. CASE a.type \in Textual
    BY <2>1, <1>10 DEF TextIn
  <2>2. CASE a.type \notin Textual
    <3>1. sums.text + TextIn(a) = sums.text /\ sums' = sums
      BY <2>2, <1>10, <1>13 DEF TextIn
    <3> QED
      BY <3>1, <1>13
  <2> QED
    BY <2>1, <2>2
<1> DEFINE past == sums.text + TextIn(a) > case.limits.text
<1>15. past /\ MuchText \notin once <=> over /\ MuchText \notin once
  <2>1. CASE a.type \in Textual
    BY <2>1 DEF TextIn, over
  <2>2. CASE a.type \notin Textual
    <3>1. sums.text + TextIn(a) = sums.text
      BY <2>2, <1>13 DEF TextIn
    <3> QED
      BY <2>2, <3>1, <1>13 DEF over
  <2> QED
    BY <2>1, <2>2
<1>16. MuchText \in once => past
  <2>1. case.limits.text \in Nat /\ TextIn(a) \in Nat /\ sums.text \in Nat
    BY <1>1, <1>8, <1>13, FolderType DEF WalkShape, TextIn
  <2> QED
    BY <2>1, <1>13
<1>17. /\ ~(past /\ MuchText \notin once) => NoId(told, MuchText)
       /\ past /\ MuchText \notin once => OneId(told, MuchText)
       /\ MuchText \in once' <=> MuchText \in once \/ past
  <2> HIDE DEF past
  <2> QED
    BY <1>10, <1>11, <1>15, <1>16
<1>18. Many \in once' <=> Many \in once
  BY <1>10, <1>11, LimitNames
<1> QED
  BY <1>6, <1>8, <1>10, <1>11, <1>12, <1>14, <1>17, <1>18, ReadLeaves

LEMMA ReadFailsKeeps ==
  ASSUME WalkInv, ReadFails
  PROVE  WalkInv'
<1> DEFINE a == Failed(Entry, None)
<1>1. a.path = Entry.path /\ a.size = 0
  BY DEF Failed, Artifact
<1> HIDE DEF a
<1>2. /\ case' = case /\ stat # {} /\ stat' = {} /\ i <= Len(Pending) /\ i' = i + 1
      /\ AddArtifact(a) /\ sums' = sums /\ once' = once /\ findings' = findings
  BY DEF ReadFails, AtEntry, Unread, a
<1>3. Sequence(<< >>) /\ \A id : NoId(<< >>, id)
  BY FewIds
<1>4. Sequence(findings) /\ sums \in [files : Nat, bundle : Nat, text : Nat]
      /\ (MuchText \in once <=> sums.text > case.limits.text)
  BY DEF WalkInv, WalkShape, WalkSums, TextLimit
<1>5. findings' = findings \o Findings(Allowed(<< >>), Entry.path)
  BY <1>2, <1>4, NothingTold
<1>6. a.size \in Nat /\ sums.text + TextIn(a) = sums.text
  BY <1>1, <1>4 DEF TextIn
<1>7. sums' = [sums EXCEPT !.text = sums.text + TextIn(a)]
  BY <1>2, <1>4, <1>6
<1>8. /\ ~(sums.text + TextIn(a) > case.limits.text /\ MuchText \notin once)
      /\ MuchText \in once' <=> MuchText \in once \/ sums.text + TextIn(a) > case.limits.text
  BY <1>2, <1>4, <1>6
<1> QED
  BY <1>1, <1>2, <1>3, <1>5, <1>6, <1>7, <1>8, ReadLeaves

-----------------------------------------------------------------------------
(* The walk as a whole. *)

LEMMA FilesToldNone ==
  ASSUME Sequence(findings), NEW id, ToldNone(findings, id)
  PROVE  FilesTold(id) = << >>
<1> DEFINE files == [k \in DOMAIN findings |-> findings[k].file]
           at == {k \in DOMAIN findings : findings[k].rule = id}
<1>1. Len(findings) \in Nat /\ DOMAIN findings = 1..Len(findings)
  BY Listing
<1>2. FilesTold(id) = Picked(files, at)
  BY DEF FilesTold
<1>3. files = [k \in 1..Len(findings) |-> files[k]]
  BY <1>1
<1>4. at = {}
  BY <1>1 DEF ToldNone
<1> HIDE DEF files, at
<1>5. Sequence(files)
  BY <1>1, <1>3, Indexed
<1> QED
  BY <1>2, <1>4, <1>5, PickedNone

LEMMA FilesToldOnce ==
  ASSUME Sequence(findings), NEW id, NEW file, ToldOnce(findings, id, file)
  PROVE  FilesTold(id) = <<file>>
<1> DEFINE files == [k \in DOMAIN findings |-> findings[k].file]
           at == {k \in DOMAIN findings : findings[k].rule = id}
<1>1. Len(findings) \in Nat /\ DOMAIN findings = 1..Len(findings)
  BY Listing
<1>2. FilesTold(id) = Picked(files, at)
  BY DEF FilesTold
<1>3. files = [k \in 1..Len(findings) |-> files[k]] /\ \A k \in 1..Len(findings) : files[k] = findings[k].file
  BY <1>1
<1>4. PICK k \in 1..Len(findings) :
        /\ findings[k].rule = id /\ findings[k].file = file
        /\ \A j \in 1..Len(findings) : findings[j].rule = id => j = k
  BY DEF ToldOnce
<1>5. at = {k}
  BY <1>1, <1>4
<1> HIDE DEF files, at
<1>6. Sequence(files) /\ Len(files) = Len(findings) /\ files[k] = file
  BY <1>1, <1>3, <1>4, Indexed
<1> QED
  BY <1>2, <1>4, <1>5, <1>6, PickedSingle

\* What the invariant says when the walk is through.
LEMMA WalkTells ==
  ASSUME WalkInv, ~(i <= Len(Pending))
  PROVE  LimitsTold
<1>1. WalkShape /\ WalkFiles /\ WalkSums /\ FilesLimit /\ TextLimit /\ FileLimit
  BY DEF WalkInv
<1>2. /\ Sequence(Pending) /\ case.limits.files \in Nat /\ Sequence(findings)
      /\ i \in 1..(Len(Pending) + 1) /\ stat = {}
  BY <1>1, FolderType DEF WalkShape
<1>3. Len(Pending) \in Nat /\ DOMAIN Pending = 1..Len(Pending) /\ i = Len(Pending) + 1
  <2>1. Len(Pending) \in Nat /\ DOMAIN Pending = 1..Len(Pending)
    BY <1>2, Listing
  <2> QED
    BY <2>1, <1>2
<1>4. Len(Walked) = Len(Pending) /\ sums.files = Len(Pending)
  BY <1>1, <1>2, <1>3 DEF WalkFiles, WalkSums, Entered
<1>5. MuchText \in case.allowed =>
        FilesTold(MuchText) = IF PastText(Walked) = {} THEN << >>
                              ELSE <<Walked[Least(PastText(Walked))].path>>
  <2>1. CASE MuchText \in once
    BY <2>1, <1>1, <1>2, FilesToldOnce DEF TextLimit
  <2>2. CASE MuchText \notin once
    BY <2>2, <1>1, <1>2, FilesToldNone DEF TextLimit
  <2> QED
    BY <2>1, <2>2
<1>6. Many \in case.allowed =>
        FilesTold(Many) = IF Len(Pending) <= case.limits.files THEN << >>
                          ELSE <<Pending[case.limits.files + 1].path>>
  <2>1. CASE Many \in once
    <3>1. ~(Len(Pending) <= case.limits.files)
      BY <2>1, <1>1, <1>2, <1>3, <1>4 DEF FilesLimit
    <3> QED
      BY <3>1, <2>1, <1>1, <1>2, FilesToldOnce DEF FilesLimit
  <2>2. CASE Many \notin once
    <3>1. Len(Pending) <= case.limits.files
      BY <2>2, <1>1, <1>2, <1>3, <1>4 DEF FilesLimit
    <3> QED
      BY <3>1, <2>2, <1>1, <1>2, FilesToldNone DEF FilesLimit
  <2> QED
    BY <2>1, <2>2
<1>7. ASSUME NEW k \in DOMAIN Pending
      PROVE  /\ ToldOf(TooLarge, Pending[k].path) => Large(Pending[k]) /\ ~Walked[k].ok
             /\ Large(Pending[k]) /\ ~case.faults /\ TooLarge \in case.allowed =>
                  ToldOf(TooLarge, Pending[k].path)
  <2>1. k \in 1..Len(Pending) /\ k < i
    BY <1>3
  <2>2. ASSUME NEW f PROVE ToldOf(TooLarge, f) <=> Told(findings, TooLarge, f)
    <3>1. DOMAIN findings = 1..Len(findings)
      BY <1>2, Listing
    <3> QED
      BY <3>1 DEF ToldOf, Told, ToSet
  <2> QED
    BY <2>1, <2>2, <1>1 DEF FileLimit
<1> QED
  BY <1>4, <1>5, <1>6, <1>7 DEF LimitsTold, Many, MuchText, TooLarge

LEMMA WalkInit ==
  ASSUME Init
  PROVE  IInv
<1>1. /\ case \in Cases /\ pc = "walk" /\ i = 1 /\ stat = {} /\ findings = << >> /\ once = {}
      /\ artifacts = [k \in DOMAIN Lost |-> Failed(Lost[k], "directory")]
      /\ sums = [files |-> 0, bundle |-> 0, text |-> 0]
  BY DEF Init
<1>2. Sequence(Pending) /\ Sequence(Lost) /\ case.limits.files \in Nat /\ case.limits.text \in Nat
  BY <1>1, FolderType
<1>3. Len(Pending) \in Nat /\ Len(Lost) \in Nat /\ DOMAIN Lost = 1..Len(Lost)
  BY <1>2, Listing
<1>4. Sequence(artifacts) /\ Len(artifacts) = Len(Lost)
  <2>1. artifacts = [k \in 1..Len(Lost) |-> artifacts[k]]
    BY <1>1, <1>3
  <2> QED
    BY <2>1, <1>3, Indexed
<1>5. Walked = << >>
  <2>1. artifacts \in Seq(ToSet(artifacts))
    BY <1>4 DEF Sequence
  <2> QED
    BY <2>1, <1>3, <1>4 DEF Walked
<1>6. Sequence(<< >>) /\ Len(<< >>) = 0 /\ DOMAIN << >> = {}
  BY FewIds
<1>7. WalkShape
  <2>1. i \in 1..(Len(Pending) + 1) /\ Len(artifacts) = Len(Lost) + (i - 1)
    BY <1>1, <1>3, <1>4
  <2> QED
    BY <2>1, <1>1, <1>4, <1>6 DEF WalkShape
<1>8. WalkFiles
  BY <1>1, <1>5, <1>6 DEF WalkFiles, SizesOK
<1>9. TextUpTo(Walked)[Len(Walked)] = 0
  BY <1>5, <1>6, TextCourse
<1>10. WalkSums
  BY <1>1, <1>9 DEF WalkSums, Entered
<1>11. FilesLimit
  <2>1. ToldNone(findings, Many)
    BY <1>1, <1>6 DEF ToldNone
  <2> QED
    BY <2>1, <1>1, <1>2 DEF FilesLimit
<1>12. TextLimit
  <2>1. ToldNone(findings, MuchText)
    BY <1>1, <1>6 DEF ToldNone
  <2>2. PastText(Walked) = {}
    BY <1>5, <1>6 DEF PastText
  <2> QED
    BY <2>1, <2>2, <1>1, <1>2 DEF TextLimit
<1>13. FileLimit
  <2>1. \A f : ~Told(findings, TooLarge, f)
    BY <1>1, <1>6 DEF Told
  <2>2. \A k \in 1..Len(Pending) : ~(k < i)
    BY <1>1, <1>3
  <2> QED
    BY <2>1, <2>2 DEF FileLimit
<1> QED
  BY <1>1, <1>7, <1>8, <1>10, <1>11, <1>12, <1>13 DEF IInv, WalkInv, LimitsAreTold

LEMMA WalkStays ==
  ASSUME UNCHANGED <<case, i, stat, artifacts, sums, once, findings>>
  PROVE  (WalkInv' <=> WalkInv) /\ (LimitsTold' <=> LimitsTold)
<1>1. Pending' = Pending /\ Lost' = Lost
  BY FolderStays
<1>2. Walked' = Walked /\ Entry' = Entry
  BY <1>1 DEF Walked, Entry
<1>3. /\ \A e : Large(e)' <=> Large(e)
      /\ PastText(Walked)' = PastText(Walked)
  BY <1>2 DEF Large, PastText
<1>4. WalkInv' <=> WalkInv
  <2>1. WalkShape' <=> WalkShape
    BY <1>1, <1>2, <1>3 DEF WalkShape
  <2>2. WalkFiles' <=> WalkFiles
    BY <1>1, <1>2 DEF WalkFiles
  <2>3. WalkSums' <=> WalkSums
    BY <1>2 DEF WalkSums, Entered
  <2>4. FilesLimit' <=> FilesLimit
    BY <1>1 DEF FilesLimit
  <2>5. TextLimit' <=> TextLimit
    BY <1>2, <1>3 DEF TextLimit
  <2>6. FileLimit' <=> FileLimit
    BY <1>1, <1>2, <1>3 DEF FileLimit
  <2> QED
    BY <2>1, <2>2, <2>3, <2>4, <2>5, <2>6 DEF WalkInv
<1>5. LimitsTold' <=> LimitsTold
  <2>1. \A id : FilesTold(id)' = FilesTold(id)
    BY DEF FilesTold
  <2>2. \A id, file : ToldOf(id, file)' <=> ToldOf(id, file)
    BY DEF ToldOf
  <2> QED
    BY <2>1, <2>2, <1>1, <1>2, <1>3 DEF LimitsTold
<1> QED
  BY <1>4, <1>5

LEMMA WalkNext ==
  ASSUME IInv, [Next]_vars
  PROVE  IInv'
<1>1. CASE pc = "walk" /\ (Vanish \/ TakeSpecial \/ Measure \/ ReadFile \/ ReadFails)
  <2>1. WalkInv
    BY <1>1 DEF IInv
  <2>2. pc' = pc
    BY <1>1 DEF Vanish, TakeSpecial, Measure, ReadFile, ReadFails
  <2>3. WalkInv'
    BY <1>1, <2>1, VanishKeeps, TakeSpecialKeeps, MeasureKeeps, ReadFileKeeps, ReadFailsKeeps
  <2> QED
    BY <1>1, <2>2, <2>3 DEF IInv, LimitsAreTold
<1>2. CASE EndWalk
  <2>1. /\ pc = "walk" /\ (i > Len(Pending) \/ ~Live) /\ pc' = After("walk") /\ i' = 1
        /\ UNCHANGED <<case, artifacts, sums, once, findings>>
    BY <1>2 DEF EndWalk
  <2>2. WalkInv
    BY <2>1 DEF IInv
  <2>3. pc' # "walk"
    BY <2>1 DEF After, Order
  <2>4. CASE pc' = "reveal"
    <3>1. Live
      BY <2>1, <2>4 DEF After
    <3>2. ~(i <= Len(Pending))
      <4>1. Sequence(Pending) /\ i \in 1..(Len(Pending) + 1)
        BY <2>2, FolderType DEF WalkInv, WalkShape
      <4>2. Len(Pending) \in Nat
        BY <4>1, Listing
      <4> QED
        BY <2>1, <3>1, <4>1, <4>2
    <3>3. LimitsTold
      BY <2>2, <3>2, WalkTells
    <3>4. LimitsTold'
      <4>1. Pending' = Pending /\ Lost' = Lost
        BY <2>1, FolderStays
      <4>2. Walked' = Walked
        BY <2>1, <4>1 DEF Walked
      <4>3. /\ \A e : Large(e)' <=> Large(e)
            /\ PastText(Walked)' = PastText(Walked)
            /\ \A id : FilesTold(id)' = FilesTold(id)
            /\ \A id, file : ToldOf(id, file)' <=> ToldOf(id, file)
        BY <2>1, <4>2 DEF Large, PastText, FilesTold, ToldOf
      <4> QED
        BY <2>1, <3>3, <4>1, <4>2, <4>3 DEF LimitsTold
    <3> QED
      BY <2>1, <2>3, <3>4 DEF IInv, LimitsAreTold
  <2>5. CASE pc' # "reveal"
    BY <2>3, <2>5 DEF IInv, LimitsAreTold
  <2> QED
    BY <2>4, <2>5
<1>3. CASE RevealArtifact
  <2>1. pc = "reveal" /\ pc' = pc /\ i' = i + 1
    BY <1>3 DEF RevealArtifact
  <2>2. i \in Nat \ {0}
    BY <2>1 DEF IInv
  <2>3. i' \in Nat \ {0} /\ i' # 1
    BY <2>1, <2>2
  <2> QED
    BY <2>1, <2>3 DEF IInv, LimitsAreTold
<1>4. CASE EndReveal \/ ParseArtifact \/ NoRuntime \/ EndAst \/ ScanArtifact \/ ScanLink \/ EndStatic
  <2>1. pc' # "walk" /\ pc' # "reveal"
    <3>1. CASE EndReveal
      BY <3>1 DEF EndReveal, After, Order
    <3>2. CASE NoRuntime \/ EndAst
      BY <3>2 DEF NoRuntime, EndAst, After, Order
    <3>3. CASE ParseArtifact \/ ScanArtifact \/ ScanLink \/ EndStatic
      BY <3>3 DEF ParseArtifact, ScanArtifact, ScanLink, EndStatic
    <3> QED
      BY <1>4, <3>1, <3>2, <3>3
  <2> QED
    BY <2>1 DEF IInv, LimitsAreTold
<1>5. CASE ContextEnds \/ Over \/ UNCHANGED vars
  <2>1. UNCHANGED <<case, i, stat, artifacts, sums, once, findings>> /\ pc' = pc
    BY <1>5 DEF ContextEnds, Over, vars, walked
  <2> QED
    BY <2>1, WalkStays DEF IInv, LimitsAreTold
<1>6. Vanish \/ TakeSpecial \/ Measure \/ ReadFile \/ ReadFails => pc = "walk"
  BY DEF Vanish, TakeSpecial, Measure, ReadFile, ReadFails, Walking, AtEntry
<1> QED
  BY <1>1, <1>2, <1>3, <1>4, <1>5, <1>6 DEF Next

\* Every limit of a scan is told, and told once, at the entry that passes it,
\* whatever the folder holds, vanishes or grows while it is walked, for any
\* limits and any set of rules that are on.
THEOREM WalkTellsLimits == Spec => []LimitsAreTold
<1>1. Init => IInv
  BY WalkInit
<1>2. IInv /\ [Next]_vars => IInv'
  BY WalkNext
<1>3. IInv => LimitsAreTold
  BY DEF IInv
<1> QED
  BY <1>1, <1>2, <1>3, PTL DEF Spec

-----------------------------------------------------------------------------
(* The texts of the artifacts, and the frames that are shown of them. *)

LEMMA ArtifactText ==
  ASSUME NEW path, NEW type, NEW ok, NEW size, NEW text, NEW target, IsText(text)
  PROVE  Texted(Artifact(path, type, ok, size, text, target))
  BY DEF Texted, Artifact

LEMMA NoText ==
  IsText(<< >>)
BY DEF IsText

LEMMA FailedText ==
  ASSUME NEW e, NEW type
  PROVE  Texted(Failed(e, type))
  BY NoText, ArtifactText DEF Failed

\* What is read as text is of known runes.
LEMMA DecodeText ==
  ASSUME NEW raw, IsText(raw)
  PROVE  IsText(Decode(raw))
<1> DEFINE d == Decode(raw)
<1>1. raw \in Seq(DOMAIN Runes) /\ Len(raw) \in Nat /\ DOMAIN raw = 1..Len(raw)
  BY DEF IsText
<1>2. d = [k \in 1..Len(raw) |-> IF raw[k] = "bad" THEN "rep" ELSE raw[k]]
  BY <1>1 DEF Decode
<1>3. \A k \in 1..Len(raw) : (IF raw[k] = "bad" THEN "rep" ELSE raw[k]) \in DOMAIN Runes
  BY <1>1, RunesAssumption
<1>4. d \in Seq(DOMAIN Runes)
  BY <1>1, <1>2, <1>3
<1> QED
  BY <1>4 DEF IsText

LEMMA RegularText ==
  ASSUME NEW e, NEW raw, IsText(raw)
  PROVE  Texted(Regular(e, raw))
<1>1. IsText(Decode(raw)) /\ IsText(<< >>)
  BY DecodeText, NoText
<1> DEFINE type == TypeOf(e, raw)
           text == IF type \in {"media", "unknown"} THEN << >> ELSE Decode(raw)
<1>2. IsText(text)
  BY <1>1
<1>3. Regular(e, raw) = Artifact(e.path, type, TRUE, Size(raw), text, << >>)
  BY DEF Regular, RegularAs
<1> HIDE DEF type, text
<1> QED
  BY <1>2, <1>3, ArtifactText

\* One more artifact with a text.
LEMMA MoreTexts ==
  ASSUME TextsOK, NEW a, Texted(a), artifacts' = Append(artifacts, a)
  PROVE  TextsOK'
<1>1. PICK s : s = artifacts
  OBVIOUS
<1>2. PICK n : n = Len(s)
  OBVIOUS
<1>3. Sequence(s) /\ \A k \in 1..n : Texted(s[k])
  BY <1>1, <1>2 DEF TextsOK
<1>4. PICK t : t = Append(s, a)
  OBVIOUS
<1>5. n \in Nat
  BY <1>2, <1>3, Listing
<1>6. Sequence(t) /\ Len(t) = n + 1 /\ t[n + 1] = a /\ \A k \in 1..n : t[k] = s[k]
  BY <1>2, <1>3, <1>4, Appended
<1>7. ASSUME NEW k \in 1..(n + 1) PROVE Texted(t[k])
  BY <1>3, <1>5, <1>6
<1>8. artifacts' = t
  BY <1>1, <1>4
<1> QED
  BY <1>6, <1>7, <1>8 DEF TextsOK

\* Reveal cleans an artifact, and leaves its text.
LEMMA CleanedTexts ==
  ASSUME TextsOK, NEW c, NEW s,
         artifacts' = [artifacts EXCEPT ![i].clean = c, ![i].shifts = s]
  PROVE  TextsOK'
<1>1. PICK old, at : old = artifacts /\ at = i
  OBVIOUS
<1>2. PICK new, n : new = [old EXCEPT ![at].clean = c, ![at].shifts = s] /\ n = Len(old)
  OBVIOUS
<1>3. Sequence(old) /\ \A k \in 1..n : Texted(old[k])
  BY <1>1, <1>2 DEF TextsOK
<1>4. n \in Nat /\ DOMAIN old = 1..n
  BY <1>2, <1>3, Listing
<1>5. DOMAIN new = 1..n
  BY <1>2, <1>4
<1>6. new = [k \in 1..n |-> new[k]]
  BY <1>2, <1>4
<1>7. Sequence(new) /\ Len(new) = n
  BY <1>4, <1>6, Indexed
<1>8. ASSUME NEW k \in 1..n PROVE Texted(new[k])
  <2>1. CASE k # at
    <3>1. new[k] = old[k]
      BY <1>2, <1>4, <2>1
    <3> QED
      BY <3>1, <1>3
  <2>2. CASE k = at
    <3>1. new[k] = [old[k] EXCEPT !.clean = c, !.shifts = s]
      BY <1>2, <1>4, <2>2
    <3>2. Texted(old[k])
      BY <1>3
    <3>3. DOMAIN new[k] = DOMAIN old[k] /\ new[k].text = old[k].text
      BY <3>1, <3>2 DEF Texted
    <3> QED
      BY <3>2, <3>3 DEF Texted
  <2> QED
    BY <2>1, <2>2
<1>9. artifacts' = new
  BY <1>1, <1>2
<1>10. Sequence(new) /\ \A k \in 1..Len(new) : Texted(new[k])
  BY <1>7, <1>8
<1> QED
  BY <1>9, <1>10 DEF TextsOK

LEMMA TextsInit ==
  ASSUME Init
  PROVE  TextsOK
<1>1. case \in Cases /\ artifacts = [k \in DOMAIN Lost |-> Failed(Lost[k], "directory")]
  BY DEF Init
<1>2. Sequence(Lost)
  BY <1>1, FolderType
<1>3. Len(Lost) \in Nat /\ DOMAIN Lost = 1..Len(Lost)
  BY <1>2, Listing
<1>4. artifacts = [k \in 1..Len(Lost) |-> artifacts[k]]
  BY <1>1, <1>3
<1>5. Sequence(artifacts) /\ Len(artifacts) = Len(Lost)
  BY <1>3, <1>4, Indexed
<1>6. \A k \in 1..Len(Lost) : artifacts[k] = Failed(Lost[k], "directory")
  BY <1>1, <1>3
<1> QED
  BY <1>5, <1>6, FailedText DEF TextsOK

LEMMA TextsNext ==
  ASSUME IInv, TextsOK, [Next]_vars
  PROVE  TextsOK'
<1>1. CASE UNCHANGED artifacts
  BY <1>1 DEF TextsOK
<1>2. CASE Vanish \/ ReadFails
  <2>1. artifacts' = Append(artifacts, Failed(Entry, None))
    BY <1>2 DEF Vanish, ReadFails, AddArtifact
  <2> QED
    BY <2>1, FailedText, MoreTexts
<1>3. CASE TakeSpecial
  <2> DEFINE a == Artifact(Entry.path, Entry.kind, TRUE, 0, << >>, Entry.target)
  <2>1. artifacts' = Append(artifacts, a)
    BY <1>3 DEF TakeSpecial, AddArtifact
  <2>2. Texted(a)
    BY NoText, ArtifactText
  <2> HIDE DEF a
  <2> QED
    BY <2>1, <2>2, MoreTexts
<1>4. CASE Measure
  <2>1. artifacts' = Append(artifacts, Failed(Entry, None)) \/ UNCHANGED artifacts
    BY <1>4 DEF Measure, MeasureAs, AddArtifact
  <2> QED
    BY <1>1, <2>1, FailedText, MoreTexts
<1>5. CASE ReadFile
  <2>1. PICK raw \in {Entry.now, Entry.then} : artifacts' = Append(artifacts, Regular(Entry, raw))
    BY <1>5 DEF ReadFile, ReadAs, AddArtifact
  <2>2. pc = "walk" /\ i <= Len(Pending)
    BY <1>5 DEF ReadFile, AtEntry
  <2>3. case \in Cases /\ i \in 1..(Len(Pending) + 1)
    BY <2>2 DEF IInv, WalkInv, WalkShape
  <2>4. Sequence(Pending) /\ \A k \in 1..Len(Pending) : IsText(Pending[k].now) /\ IsText(Pending[k].then)
    BY <2>3, FolderType
  <2>5. i \in 1..Len(Pending)
    <3>1. Len(Pending) \in Nat
      BY <2>4, Listing
    <3> QED
      BY <3>1, <2>2, <2>3
  <2>6. IsText(raw)
    BY <2>1, <2>4, <2>5 DEF Entry
  <2> QED
    BY <2>1, <2>6, RegularText, MoreTexts
<1>6. CASE RevealArtifact
  <2>1. CASE UNCHANGED artifacts
    BY <2>1, <1>1
  <2>2. CASE \E p : artifacts' = [artifacts EXCEPT ![i].clean = p.out, ![i].shifts = p.shifts]
    BY <2>2, CleanedTexts
  <2>3. UNCHANGED artifacts \/ \E p : artifacts' = [artifacts EXCEPT ![i].clean = p.out, ![i].shifts = p.shifts]
    BY <1>6 DEF RevealArtifact, RevealAs
  <2> QED
    BY <2>1, <2>2, <2>3
<1>7. CASE EndStatic
  <2> DEFINE a == [Artifact(<<"traces">>, "markdown", TRUE, 1, << >>, << >>) EXCEPT !.kind = "brief"]
  <2>1. artifacts' = Append(artifacts, a) \/ UNCHANGED artifacts
    BY <1>7 DEF EndStatic
  <2>2. Texted(a)
    <3> DEFINE b == Artifact(<<"traces">>, "markdown", TRUE, 1, << >>, << >>)
    <3>1. Texted(b)
      BY NoText, ArtifactText
    <3> HIDE DEF b
    <3>2. a = [b EXCEPT !.kind = "brief"]
      BY DEF b
    <3>3. DOMAIN a = DOMAIN b /\ a.text = b.text
      BY <3>1, <3>2 DEF Texted
    <3> HIDE DEF a
    <3> QED
      BY <3>1, <3>3 DEF Texted
  <2> HIDE DEF a
  <2> QED
    BY <1>1, <2>1, <2>2, MoreTexts
<1>8. CASE EndWalk \/ EndReveal \/ ParseArtifact \/ NoRuntime \/ EndAst \/ ScanArtifact \/ ScanLink
  BY <1>1, <1>8 DEF EndWalk, EndReveal, ParseArtifact, NoRuntime, EndAst, ScanArtifact, ScanLink
<1>9. CASE ContextEnds \/ Over \/ UNCHANGED vars
  <2>1. UNCHANGED artifacts
    BY <1>9 DEF ContextEnds, Over, vars
  <2> QED
    BY <2>1, <1>1
<1> QED
  BY <1>2, <1>3, <1>4, <1>5, <1>6, <1>7, <1>8, <1>9 DEF Next

LEMMA TextsFrames ==
  ASSUME TextsOK
  PROVE  FramesShow
<1> DEFINE block(a, n) == IF a.type = "code" THEN Window(Lines(a.text), n) ELSE TextBlock(Lines(a.text), n)
<1>1. ASSUME NEW a \in Kept, NEW n \in DOMAIN Lines(a.text)
      PROVE  ShowsWell(Render(block(a, n), n), n, Len(Lines(a.text)))
  <2>1. Sequence(artifacts) /\ a \in ToSet(artifacts)
    BY DEF TextsOK, Kept
  <2>2. PICK k \in 1..Len(artifacts) : a = artifacts[k]
    BY <2>1, Listing DEF ToSet
  <2>3. IsText(a.text)
    BY <2>2 DEF TextsOK, Texted
  <2>4. PICK t : t = a.text
    OBVIOUS
  <2>5. Sequence(t)
    BY <2>3, <2>4, ListingOf DEF IsText
  <2>6. /\ ShowsWell(Render(TextBlock(Lines(t), n), n), n, Len(Lines(t)))
        /\ ShowsWell(Render(Window(Lines(t), n), n), n, Len(Lines(t)))
    BY <2>4, <2>5, FrameShows
  <2>7. CASE a.type = "code"
    BY <2>4, <2>6, <2>7
  <2>8. CASE a.type # "code"
    BY <2>4, <2>6, <2>8
  <2> QED
    BY <2>7, <2>8
<1> QED
  BY <1>1 DEF FramesShow

\* The frame of any line of any text shows that line, once and in order with
\* the lines around it, and marks what it leaves out, for texts of any length
\* and any limits on a block.
THEOREM FramesShowTheirLine == Spec => []FramesShow
<1>1. Init => IInv /\ TextsOK
  BY WalkInit, TextsInit
<1>2. IInv /\ TextsOK /\ [Next]_vars => (IInv /\ TextsOK)'
  BY WalkNext, TextsNext
<1>3. TextsOK => FramesShow
  BY TextsFrames
<1> QED
  BY <1>1, <1>2, <1>3, PTL DEF Spec

-----------------------------------------------------------------------------
(* What the passes over a text and over the rules return. *)


-----------------------------------------------------------------------------
(* What the passes over a text and over the rules return. *)

LEMMA FilesWithin ==
  ASSUME NEW path, NEW gs, FilesAre(gs, path), NEW fs \in Seq(ToSet(gs))
  PROVE  FilesAre(fs, path)
<1>1. DOMAIN gs = 1..Len(gs)
  BY Listing DEF FilesAre
<1>2. \A f \in ToSet(gs) : f.file = path
  BY <1>1 DEF FilesAre, ToSet
<1>3. Sequence(fs) /\ ToSet(fs) \subseteq ToSet(gs)
  BY ListingOf
<1>4. \A k \in 1..Len(fs) : fs[k] \in ToSet(fs)
  BY <1>3, Listing
<1> QED
  BY <1>2, <1>3, <1>4 DEF FilesAre

LEMMA FilesNone ==
  ASSUME NEW path
  PROVE  FilesAre(<< >>, path) /\ Sequence(<< >>)
BY DEF FilesAre, Sequence

\* The equation of Occurring.
LEMMA OccurringCourse ==
  ASSUME NEW t, NEW pat, Len(t) \in Nat
  PROVE  /\ Occurring(t, pat)[0] = [next |-> 1, out |-> << >>]
         /\ \A k \in 1..Len(t) : Occurring(t, pat)[k] = NextMatch(Occurring(t, pat)[k - 1], t, pat, k, k + Len(pat))
<1> DEFINE n == Len(t)
           first == [next |-> 1, out |-> << >>]
           step(x, k) == NextMatch(x, t, pat, k, k + Len(pat))
           law(f, m) == [k \in 0..m |-> IF k = 0 THEN first ELSE step(f[k - 1], k)]
           S == {m \in Nat : \E f : f = law(f, m)}
           course == CHOOSE f : f = law(f, n)
<1>1. n \in Nat /\ Occurring(t, pat) = course
  BY DEF Occurring
<1> HIDE DEF n, first, step
<1>2. 0 \in S
  <2>1. [k \in 0..0 |-> first] = law([k \in 0..0 |-> first], 0)
    OBVIOUS
  <2> QED
    BY <2>1
<1>3. ASSUME NEW m \in Nat, m \in S PROVE m + 1 \in S
  <2>1. PICK f : f = law(f, m)
    BY <1>3
  <2>2. PICK g : g = [k \in 0..(m + 1) |-> IF k = m + 1 THEN step(f[m], m + 1) ELSE f[k]]
    OBVIOUS
  <2>3. \A k \in 0..(m + 1) : g[k] = IF k = 0 THEN first ELSE step(g[k - 1], k)
    BY <2>1, <2>2
  <2>4. g = law(g, m + 1)
    BY <2>2, <2>3
  <2> QED
    BY <2>4
<1> HIDE DEF S
<1>4. course = law(course, n)
  BY <1>1, <1>2, <1>3, Induction DEF S
<1> HIDE DEF course
<1>5. course[0] = first /\ \A k \in 1..n : course[k] = step(course[k - 1], k)
  BY <1>1, <1>4
<1> QED
  BY <1>1, <1>5 DEF n, first, step

LEMMA OccurrencesType ==
  ASSUME NEW t, Sequence(t), NEW pat
  PROVE  Sequence(Occurrences(t, pat)) /\ (t = << >> => Occurrences(t, pat) = << >>)
<1>1. PICK n : n = Len(t)
  OBVIOUS
<1>2. n \in Nat
  BY <1>1, Listing
<1>3. PICK f : f = Occurring(t, pat)
  OBVIOUS
<1>4. f[0] = [next |-> 1, out |-> << >>]
      /\ \A k \in 1..n : f[k] = NextMatch(f[k - 1], t, pat, k, k + Len(pat))
  BY <1>1, <1>2, <1>3, OccurringCourse
<1> DEFINE T == {k \in Nat : Sequence(f[k].out)}
<1>5. 0 \in T
  BY <1>4, FilesNone
<1>6. ASSUME NEW k \in 1..n, k - 1 \in T PROVE k \in T
  <2>1. PICK m : m = k - 1
    OBVIOUS
  <2>2. PICK out : out = f[m].out
    OBVIOUS
  <2>3. Sequence(out)
    BY <1>6, <2>1, <2>2
  <2>4. PICK e : e = [from |-> k, to |-> k + Len(pat)]
    OBVIOUS
  <2>5. f[k].out = out \/ f[k].out = Append(out, e)
    <3>1. PICK acc, to, more : acc = f[m] /\ to = k + Len(pat) /\ more = Append(out, e)
      OBVIOUS
    <3>2. f[k] = NextMatch(acc, t, pat, k, to) /\ out = acc.out
      BY <1>4, <2>1, <2>2, <3>1
    <3>3. f[k] = acc \/ f[k] = [next |-> to, out |-> more]
      BY <3>2, <3>1, <2>4, Zenon DEF NextMatch
    <3>4. f[k].out = out \/ f[k].out = more
      BY ONLY <3>2, <3>3
    <3> QED
      BY <3>1, <3>4, Zenon
  <2>6. Sequence(Append(out, e))
    BY <2>3, Appended
  <2>7. Sequence(f[k].out)
    BY <2>3, <2>5, <2>6
  <2>8. k \in Nat
    BY <1>2
  <2> QED
    BY <2>7, <2>8
<1> HIDE DEF T
<1>7. \A k \in 0..n : k \in T
  BY <1>2, <1>5, <1>6, UpTo
<1>8. n \in T
  BY <1>2, <1>7
<1>9. Occurrences(t, pat) = f[n].out
  BY <1>1, <1>3 DEF Occurrences
<1>10. t = << >> => n = 0
  BY <1>1
<1>11. t = << >> => f[n].out = << >>
  BY <1>4, <1>10
<1> QED
  BY <1>8, <1>9, <1>11 DEF T

\* The equation of Matching.
LEMMA MatchingCourse ==
  ASSUME NEW r, NEW t, Len(r.patterns) \in Nat
  PROVE  /\ Matching(r, t)[0] = << >>
         /\ \A k \in 1..Len(r.patterns) : Matching(r, t)[k] = Matching(r, t)[k - 1] \o AllAnchored(t, Occurrences(t, r.patterns[k]))
<1> DEFINE n == Len(r.patterns)
           first == << >>
           step(x, k) == x \o AllAnchored(t, Occurrences(t, r.patterns[k]))
           law(f, m) == [k \in 0..m |-> IF k = 0 THEN first ELSE step(f[k - 1], k)]
           S == {m \in Nat : \E f : f = law(f, m)}
           course == CHOOSE f : f = law(f, n)
<1>1. n \in Nat /\ Matching(r, t) = course
  BY DEF Matching
<1> HIDE DEF n, first, step
<1>2. 0 \in S
  <2>1. [k \in 0..0 |-> first] = law([k \in 0..0 |-> first], 0)
    OBVIOUS
  <2> QED
    BY <2>1
<1>3. ASSUME NEW m \in Nat, m \in S PROVE m + 1 \in S
  <2>1. PICK f : f = law(f, m)
    BY <1>3
  <2>2. PICK g : g = [k \in 0..(m + 1) |-> IF k = m + 1 THEN step(f[m], m + 1) ELSE f[k]]
    OBVIOUS
  <2>3. \A k \in 0..(m + 1) : g[k] = IF k = 0 THEN first ELSE step(g[k - 1], k)
    BY <2>1, <2>2
  <2>4. g = law(g, m + 1)
    BY <2>2, <2>3
  <2> QED
    BY <2>4
<1> HIDE DEF S
<1>4. course = law(course, n)
  BY <1>1, <1>2, <1>3, Induction DEF S
<1> HIDE DEF course
<1>5. course[0] = first /\ \A k \in 1..n : course[k] = step(course[k - 1], k)
  BY <1>1, <1>4
<1> QED
  BY <1>1, <1>5 DEF n, first, step

LEMMA MatchesOfType ==
  ASSUME NEW t, Sequence(t), NEW r, Len(r.patterns) \in Nat
  PROVE  Sequence(MatchesOf(r, t)) /\ (t = << >> => MatchesOf(r, t) = << >>)
<1>1. PICK n : n = Len(r.patterns)
  OBVIOUS
<1>2. n \in Nat
  BY <1>1
<1>3. PICK f : f = Matching(r, t)
  OBVIOUS
<1>4. f[0] = << >> /\ \A k \in 1..n : f[k] = f[k - 1] \o AllAnchored(t, Occurrences(t, r.patterns[k]))
  BY <1>1, <1>2, <1>3, MatchingCourse
<1> DEFINE T == {k \in Nat : Sequence(f[k]) /\ (t = << >> => f[k] = << >>)}
<1>5. 0 \in T
  BY <1>4, FilesNone
<1>6. ASSUME NEW k \in 1..n, k - 1 \in T PROVE k \in T
  <2>1. PICK acc : acc = f[k - 1]
    OBVIOUS
  <2>2. Sequence(acc) /\ (t = << >> => acc = << >>)
    BY <1>6, <2>1
  <2>3. PICK ms : ms = Occurrences(t, r.patterns[k])
    OBVIOUS
  <2>4. Sequence(ms) /\ (t = << >> => ms = << >>)
    BY <2>3, OccurrencesType
  <2>5. PICK hits, l : hits = AllAnchored(t, ms) /\ l = Len(ms)
    OBVIOUS
  <2>6. l \in Nat /\ DOMAIN ms = 1..l
    BY <2>4, <2>5, Listing
  <2>7. hits = [j \in 1..l |-> hits[j]]
    BY <2>5, <2>6 DEF AllAnchored
  <2>8. Sequence(hits) /\ Len(hits) = l
    BY <2>6, <2>7, Indexed
  <2>9. f[k] = acc \o hits
    BY <1>4, <2>1, <2>3, <2>5
  <2>10. Sequence(f[k])
    <3>1. Sequence(acc) /\ Sequence(hits)
      BY <2>2, <2>8
    <3>2. Sequence(acc \o hits)
      BY ONLY <3>1, Joining
    <3> QED
      BY <3>2, <2>9, Zenon
  <2>11. t = << >> => f[k] = << >>
    <3> SUFFICES ASSUME t = << >> PROVE f[k] = << >>
      OBVIOUS
    <3>1. l = 0
      BY <2>4, <2>5
    <3>2. hits \in Seq(ToSet(hits)) /\ Len(hits) = 0
      BY <2>8, <3>1 DEF Sequence
    <3>3. hits = << >>
      BY <3>2
    <3> QED
      BY <2>2, <2>9, <3>3
  <2>12. k \in Nat
    BY <1>2
  <2> QED
    BY <2>10, <2>11, <2>12
<1> HIDE DEF T
<1>7. \A k \in 0..n : k \in T
  BY <1>2, <1>5, <1>6, UpTo
<1>8. n \in T
  BY <1>2, <1>7
<1>9. MatchesOf(r, t) = f[n]
  BY <1>1, <1>3 DEF MatchesOf
<1> QED
  BY <1>8, <1>9 DEF T

\* The matches of a rule in an artifact are findings of that rule in that file,
\* and there are none in a text that is empty.
LEMMA MatchesType ==
  ASSUME NEW r, NEW a, NEW self, Sequence(TextOf(a)), Len(r.patterns) \in Nat
  PROVE  /\ FilesAre(Matches(r, a, self), a.path)
         /\ TextOf(a) = << >> => ToSet(Matches(r, a, self)) = {}
<1>1. PICK t : t = TextOf(a)
  OBVIOUS
<1>2. PICK all : all = MatchesOf(r, t)
  OBVIOUS
<1>3. Sequence(all) /\ (t = << >> => all = << >>)
  BY <1>1, <1>2, MatchesOfType
<1>4. PICK I : I = {k \in DOMAIN all : AcceptedAt(r, a, t, Lines(t), all[k], Row(t, all[k].from), self)}
  OBVIOUS
<1>5. DOMAIN all = 1..Len(all)
  BY <1>3, Listing
<1>6. I \in SUBSET (1..Len(all))
  BY <1>4, <1>5
<1>7. PICK ms : ms = Picked(all, I)
  OBVIOUS
<1>8. Sequence(ms) /\ ToSet(ms) \subseteq ToSet(all)
  BY <1>3, <1>6, <1>7, PickedOf
<1>9. PICK l : l = Len(ms)
  OBVIOUS
<1>10. l \in Nat /\ DOMAIN ms = 1..l
  BY <1>8, <1>9, Listing
<1>11. PICK fs : fs = BuildAll(r, a, t, ms)
  OBVIOUS
<1>12. fs = [k \in 1..l |-> Build(r, a, t, ms[k])]
  BY <1>10, <1>11 DEF BuildAll
<1>13. fs = [k \in 1..l |-> fs[k]]
  BY <1>12
<1>14. Sequence(fs) /\ Len(fs) = l /\ DOMAIN fs = 1..l
  BY <1>10, <1>13, Indexed
<1>15. \A k \in 1..l : fs[k].file = a.path
  BY <1>12 DEF Build, FindingAt
<1>16. Matches(r, a, self) = fs
  BY <1>1, <1>2, <1>4, <1>7, <1>11 DEF Matches, MatchesIn, AcceptedOf
<1>17. t = << >> => ToSet(fs) = {}
  <2> SUFFICES ASSUME t = << >> PROVE ToSet(fs) = {}
    OBVIOUS
  <2>1. ToSet(all) = {}
    BY <1>3 DEF ToSet
  <2>2. DOMAIN ms = {}
    BY <1>8, <2>1 DEF ToSet
  <2>3. DOMAIN fs = {}
    BY <1>10, <1>14, <2>2
  <2> QED
    BY <2>3 DEF ToSet
<1> QED
  BY <1>1, <1>14, <1>15, <1>16, <1>17 DEF FilesAre

LEMMA MatchNames ==
  ASSUME NEW r, NEW a, NEW self, NEW m \in ToSet(Matches(r, a, self))
  PROVE  m.rule = r.id /\ m.file = a.path
<1>1. PICK ms : Matches(r, a, self) = BuildAll(r, a, TextOf(a), ms)
  BY DEF Matches, MatchesIn
<1>2. PICK k \in DOMAIN ms : m = Build(r, a, TextOf(a), ms[k])
  BY <1>1 DEF BuildAll, ToSet
<1> QED
  BY <1>2 DEF Build, FindingAt

\* The equation of Seeing.
LEMMA SeeingCourse ==
  ASSUME NEW fs, NEW seenBefore, Len(fs) \in Nat
  PROVE  /\ Seeing(fs, seenBefore)[0] = [seen |-> seenBefore, out |-> << >>]
         /\ \A k \in 1..Len(fs) : Seeing(fs, seenBefore)[k] = SeeAt(Seeing(fs, seenBefore)[k - 1], fs[k], Place(fs[k]))
<1> DEFINE n == Len(fs)
           first == [seen |-> seenBefore, out |-> << >>]
           step(x, k) == SeeAt(x, fs[k], Place(fs[k]))
           law(f, m) == [k \in 0..m |-> IF k = 0 THEN first ELSE step(f[k - 1], k)]
           S == {m \in Nat : \E f : f = law(f, m)}
           course == CHOOSE f : f = law(f, n)
<1>1. n \in Nat /\ Seeing(fs, seenBefore) = course
  BY DEF Seeing
<1> HIDE DEF n, first, step
<1>2. 0 \in S
  <2>1. [k \in 0..0 |-> first] = law([k \in 0..0 |-> first], 0)
    OBVIOUS
  <2> QED
    BY <2>1
<1>3. ASSUME NEW m \in Nat, m \in S PROVE m + 1 \in S
  <2>1. PICK f : f = law(f, m)
    BY <1>3
  <2>2. PICK g : g = [k \in 0..(m + 1) |-> IF k = m + 1 THEN step(f[m], m + 1) ELSE f[k]]
    OBVIOUS
  <2>3. \A k \in 0..(m + 1) : g[k] = IF k = 0 THEN first ELSE step(g[k - 1], k)
    BY <2>1, <2>2
  <2>4. g = law(g, m + 1)
    BY <2>2, <2>3
  <2> QED
    BY <2>4
<1> HIDE DEF S
<1>4. course = law(course, n)
  BY <1>1, <1>2, <1>3, Induction DEF S
<1> HIDE DEF course
<1>5. course[0] = first /\ \A k \in 1..n : course[k] = step(course[k - 1], k)
  BY <1>1, <1>4
<1> QED
  BY <1>1, <1>5 DEF n, first, step

LEMMA UniqueType ==
  ASSUME NEW fs, Sequence(fs), NEW before
  PROVE  Unique(fs, before).out \in Seq(ToSet(fs))
<1>1. PICK n : n = Len(fs)
  OBVIOUS
<1>2. n \in Nat /\ \A k \in 1..n : fs[k] \in ToSet(fs)
  BY <1>1, Listing
<1>3. PICK f : f = Seeing(fs, before)
  OBVIOUS
<1>4. f[0] = [seen |-> before, out |-> << >>]
      /\ \A k \in 1..n : f[k] = SeeAt(f[k - 1], fs[k], Place(fs[k]))
  BY <1>1, <1>2, <1>3, SeeingCourse
<1>5. PICK S : S = ToSet(fs)
  OBVIOUS
<1> DEFINE T == {k \in Nat : f[k].out \in Seq(S)}
<1>6. 0 \in T
  <2>1. f[0].out = << >>
    BY <1>4
  <2>2. << >> \in Seq(S)
    OBVIOUS
  <2> QED
    BY <2>1, <2>2
<1>7. ASSUME NEW k \in 1..n, k - 1 \in T PROVE k \in T
  <2>1. PICK m : m = k - 1
    OBVIOUS
  <2>2. PICK out : out = f[m].out
    OBVIOUS
  <2>3. out \in Seq(S)
    BY <1>7, <2>1, <2>2
  <2>4. PICK e : e = fs[k]
    OBVIOUS
  <2>5. e \in S
    BY <1>2, <1>5, <2>4
  <2>6. f[k].out = out \/ f[k].out = Append(out, e)
    <3>1. PICK acc : acc = f[m]
      OBVIOUS
    <3>2. PICK now, more : now = acc.seen \cup {Place(e)} /\ more = Append(out, e)
      OBVIOUS
    <3>3. f[k] = SeeAt(acc, e, Place(e)) /\ out = acc.out
      BY <1>4, <2>1, <2>2, <2>4, <3>1
    <3>4. f[k] = acc \/ f[k] = [seen |-> now, out |-> more]
      BY <3>3, <3>2, Zenon DEF SeeAt
    <3>5. f[k].out = out \/ f[k].out = more
      BY ONLY <3>3, <3>4
    <3> QED
      BY <3>2, <3>5, Zenon
  <2>7. f[k].out \in Seq(S)
    <3>1. Append(out, e) \in Seq(S)
      BY ONLY <2>3, <2>5
    <3> QED
      BY <2>3, <2>6, <3>1, Zenon
  <2>8. k \in Nat
    BY <1>2
  <2> QED
    BY <2>7, <2>8
<1> HIDE DEF T
<1>8. \A k \in 0..n : k \in T
  BY <1>2, <1>6, <1>7, UpTo
<1>9. n \in T
  BY <1>2, <1>8
<1> QED
  BY <1>1, <1>3, <1>5, <1>9 DEF T, Unique

LEMMA CappedType ==
  ASSUME NEW S, NEW fs \in Seq(S)
  PROVE  Capped(fs) \in Seq(S)
<1>1. PICK l : l = Lower(Len(fs), MaxPerRule)
  OBVIOUS
<1>2. Len(fs) \in Nat /\ MaxPerRule \in Nat
  BY StaticAssumption
<1>3. l \in Nat /\ l <= Len(fs)
  BY <1>1, <1>2, LimitsOf
<1>4. SubSeq(fs, 1, l) \in Seq(S)
  BY <1>2, <1>3
<1> QED
  BY <1>1, <1>4 DEF Capped

\* The equation of Finds.
LEMMA FindsCourse ==
  ASSUME NEW rules, NEW a, NEW before, Len(rules) \in Nat
  PROVE  /\ Finds(rules, a, before)[0] = [seen |-> before, out |-> << >>]
         /\ \A k \in 1..Len(rules) : Finds(rules, a, before)[k] = Found(Finds(rules, a, before)[k - 1], rules[k], a)
<1> DEFINE n == Len(rules)
           first == [seen |-> before, out |-> << >>]
           step(x, k) == Found(x, rules[k], a)
           law(f, m) == [k \in 0..m |-> IF k = 0 THEN first ELSE step(f[k - 1], k)]
           S == {m \in Nat : \E f : f = law(f, m)}
           course == CHOOSE f : f = law(f, n)
<1>1. n \in Nat /\ Finds(rules, a, before) = course
  BY DEF Finds
<1> HIDE DEF n, first, step
<1>2. 0 \in S
  <2>1. [k \in 0..0 |-> first] = law([k \in 0..0 |-> first], 0)
    OBVIOUS
  <2> QED
    BY <2>1
<1>3. ASSUME NEW m \in Nat, m \in S PROVE m + 1 \in S
  <2>1. PICK f : f = law(f, m)
    BY <1>3
  <2>2. PICK g : g = [k \in 0..(m + 1) |-> IF k = m + 1 THEN step(f[m], m + 1) ELSE f[k]]
    OBVIOUS
  <2>3. \A k \in 0..(m + 1) : g[k] = IF k = 0 THEN first ELSE step(g[k - 1], k)
    BY <2>1, <2>2
  <2>4. g = law(g, m + 1)
    BY <2>2, <2>3
  <2> QED
    BY <2>4
<1> HIDE DEF S
<1>4. course = law(course, n)
  BY <1>1, <1>2, <1>3, Induction DEF S
<1> HIDE DEF course
<1>5. course[0] = first /\ \A k \in 1..n : course[k] = step(course[k - 1], k)
  BY <1>1, <1>4
<1> QED
  BY <1>1, <1>5 DEF n, first, step

\* What the static layer finds in an artifact is found in that file.
LEMMA FoundByType ==
  ASSUME NEW rules, Len(rules) \in Nat, \A k \in 1..Len(rules) : Len(rules[k].patterns) \in Nat,
         NEW a, Sequence(TextOf(a)), NEW before
  PROVE  LET fs == FoundBy(rules, a, before).out IN
         /\ FilesAre(fs, a.path)
         /\ (\A k \in 1..Len(rules) : rules[k].id \notin HitRules) => OtherRules(fs)
<1>1. PICK n, f : n = Len(rules) /\ f = Finds(rules, a, before)
  OBVIOUS
<1>2. /\ n \in Nat /\ f[0] = [seen |-> before, out |-> << >>]
      /\ \A k \in 1..n : f[k] = Found(f[k - 1], rules[k], a)
  BY <1>1, FindsCourse
<1>3. PICK S : S = UNION {ToSet(Matches(rules[k], a, case.self)) : k \in 1..n}
  OBVIOUS
<1> DEFINE T == {k \in Nat : f[k].out \in Seq(S)}
<1>4. 0 \in T
  <2>1. f[0].out = << >> /\ << >> \in Seq(S)
    BY <1>2
  <2> QED
    BY <2>1
<1>5. ASSUME NEW k \in 1..n, k - 1 \in T PROVE k \in T
  <2>1. PICK acc, old, ms, M : acc = f[k - 1] /\ old = acc.out /\ ms = Matches(rules[k], a, case.self) /\ M = ToSet(ms)
    OBVIOUS
  <2>2. PICK new, cap : new = Unique(ms, acc.seen) /\ cap = Capped(new.out)
    OBVIOUS
  <2>3. old \in Seq(S) /\ M \subseteq S
    BY <1>3, <1>5, <2>1
  <2>4. cap \in Seq(M)
    <3>1. Sequence(ms)
      BY <1>1, <2>1, MatchesType DEF FilesAre
    <3> QED
      BY <2>1, <2>2, <3>1, UniqueType, CappedType
  <2>5. PICK more, now : more = old \o cap /\ now = new.seen
    OBVIOUS
  <2>6. more \in Seq(S)
    <3>1. cap \in Seq(S)
      BY <2>3, <2>4
    <3> QED
      BY ONLY <2>3, <2>5, <3>1
  <2>7. f[k] = acc \/ f[k] = FoundNew(acc, new)
    BY <1>2, <2>1, <2>2 DEF Found
  <2>8. f[k] = acc \/ f[k] = [seen |-> now, out |-> more]
    BY <2>1, <2>2, <2>5, <2>7, Zenon DEF FoundNew
  <2>9. f[k].out = old \/ f[k].out = more
    BY ONLY <2>1, <2>8
  <2>10. f[k].out \in Seq(S)
    BY <2>3, <2>6, <2>9, Zenon
  <2> QED
    BY <1>2, <2>10
<1> HIDE DEF T
<1>6. \A k \in 0..n : k \in T
  BY <1>2, <1>4, <1>5, UpTo
<1>7. PICK fs : fs = FoundBy(rules, a, before).out
  OBVIOUS
<1>8. fs \in Seq(S)
  BY <1>1, <1>2, <1>6, <1>7 DEF T, FoundBy
<1>9. Sequence(fs) /\ \A j \in 1..Len(fs) : \E k \in 1..n : fs[j] \in ToSet(Matches(rules[k], a, case.self))
  BY <1>3, <1>8, ListingOf
<1>10. \A j \in 1..Len(fs) : fs[j].file = a.path /\ \E k \in 1..n : fs[j].rule = rules[k].id
  BY <1>9, MatchNames
<1> QED
  BY <1>1, <1>7, <1>9, <1>10 DEF FilesAre, OtherRules

\* The equation of Normalizing.
LEMMA NormalizingCourse ==
  ASSUME NEW t, Len(t) \in Nat
  PROVE  /\ Normalizing(t)[0] = FirstPass
         /\ \A k \in 1..Len(t) : Normalizing(t)[k] = NormalizeRune(Normalizing(t)[k - 1], t, k)
<1> DEFINE n == Len(t)
           first == FirstPass
           step(x, k) == NormalizeRune(x, t, k)
           law(f, m) == [k \in 0..m |-> IF k = 0 THEN first ELSE step(f[k - 1], k)]
           S == {m \in Nat : \E f : f = law(f, m)}
           course == CHOOSE f : f = law(f, n)
<1>1. n \in Nat /\ Normalizing(t) = course
  BY DEF Normalizing
<1> HIDE DEF n, first, step
<1>2. 0 \in S
  <2>1. [k \in 0..0 |-> first] = law([k \in 0..0 |-> first], 0)
    OBVIOUS
  <2> QED
    BY <2>1
<1>3. ASSUME NEW m \in Nat, m \in S PROVE m + 1 \in S
  <2>1. PICK f : f = law(f, m)
    BY <1>3
  <2>2. PICK g : g = [k \in 0..(m + 1) |-> IF k = m + 1 THEN step(f[m], m + 1) ELSE f[k]]
    OBVIOUS
  <2>3. \A k \in 0..(m + 1) : g[k] = IF k = 0 THEN first ELSE step(g[k - 1], k)
    BY <2>1, <2>2
  <2>4. g = law(g, m + 1)
    BY <2>2, <2>3
  <2> QED
    BY <2>4
<1> HIDE DEF S
<1>4. course = law(course, n)
  BY <1>1, <1>2, <1>3, Induction DEF S
<1> HIDE DEF course
<1>5. course[0] = first /\ \A k \in 1..n : course[k] = step(course[k - 1], k)
  BY <1>1, <1>4
<1> QED
  BY <1>1, <1>5 DEF n, first, step

LEMMA HitAdded ==
  ASSUME NEW hits, Sequence(hits), NEW rule, NEW k
  PROVE  Sequence(Add(hits, rule, k))
<1>1. PICK n : n = Len(hits)
  OBVIOUS
<1>2. n \in Nat /\ DOMAIN hits = 1..n
  BY <1>1, Listing
<1>3. PICK e : e = [rule |-> rule, from |-> k, to |-> k + 1]
  OBVIOUS
<1>4. PICK more : more = Append(hits, e)
  OBVIOUS
<1>5. Sequence(more)
  BY <1>4, Appended
<1>6. PICK g : g = [hits EXCEPT ![n].to = k + 1]
  OBVIOUS
<1>7. DOMAIN g = 1..n
  BY <1>2, <1>6
<1>8. g = [j \in 1..n |-> g[j]]
  BY <1>2, <1>6
<1>9. Sequence(g)
  BY <1>2, <1>8, Indexed
<1>10. Add(hits, rule, k) = g \/ Add(hits, rule, k) = more
  BY <1>1, <1>3, <1>4, <1>6, Zenon DEF Add, AddHit
<1> QED
  BY <1>5, <1>9, <1>10, Zenon

LEMMA WrittenOK ==
  ASSUME NEW p, PassOK(p), NEW s, Sequence(s), NEW at, NEW r
  PROVE  /\ PassOK(Write(p, s, at, r))
         /\ Write(p, s, at, r).hits = p.hits /\ Write(p, s, at, r).until = p.until
         /\ Write(p, s, at, r).swapped = p.swapped
<1>1. PICK out : out = p.out \o s
  OBVIOUS
<1>2. Sequence(p.out)
  BY DEF PassOK
<1>3. Sequence(out)
  BY <1>1, <1>2, Joining, Zenon
<1>4. PICK shifts : shifts = MarkAll(p.shifts, p.size, at, MarkedBytes(s, r))
  OBVIOUS
<1>5. PICK size : size = p.size + Size(s)
  OBVIOUS
<1>6. PICK w : w = [p EXCEPT !.shifts = shifts, !.out = out, !.size = size]
  OBVIOUS
<1>7. Write(p, s, at, r) = w
  BY <1>1, <1>4, <1>5, <1>6 DEF Write
<1>8. DOMAIN p = {"out", "size", "shifts", "hits", "until", "swapped"}
  BY DEF PassOK
<1>9. DOMAIN w = DOMAIN p /\ w.out = out /\ w.hits = p.hits /\ w.until = p.until /\ w.swapped = p.swapped
  BY ONLY <1>6, <1>8
<1>10. PassOK(w)
  BY <1>3, <1>8, <1>9 DEF PassOK
<1> QED
  BY <1>7, <1>9, <1>10

LEMMA SwappedOK ==
  ASSUME NEW p, PassOK(p), NEW t, NEW k, NEW start
  PROVE  PassOK(Swap(p, t, k, start))
<1>1. PICK e : e = WordEnd(t, k)
  OBVIOUS
<1>2. PICK d : d = Disguised(SubSeq(t, start, e - 1))
  OBVIOUS
<1>3. PICK w : w = [p EXCEPT !.until = e, !.swapped = d]
  OBVIOUS
<1>4. DOMAIN p = {"out", "size", "shifts", "hits", "until", "swapped"}
  BY DEF PassOK
<1>5. DOMAIN w = DOMAIN p /\ w.out = p.out /\ w.hits = p.hits
  BY ONLY <1>3, <1>4
<1>6. PassOK(w)
  BY <1>4, <1>5 DEF PassOK
<1>7. Swap(p, t, k, start) = p \/ Swap(p, t, k, start) = w
  BY <1>1, <1>2, <1>3, Zenon DEF Swap, Judged
<1> QED
  BY <1>6, <1>7, Zenon

LEMMA FoldedOK ==
  ASSUME NEW q, PassOK(q), NEW r \in DOMAIN Runes, NEW k, NEW at, NEW swaps
  PROVE  LET f == Fold(q, r, k, at, swaps) IN
         /\ PassOK(f)
         /\ f.hits = IF swaps THEN Add(q.hits, LookAlike, k) ELSE q.hits
         /\ f.until = q.until /\ f.swapped = q.swapped
<1>1. PICK s : s = IF swaps THEN Runes[r].mapped ELSE Runes[r].folded
  OBVIOUS
<1>2. s \in Seq(DOMAIN Runes)
  BY <1>1, RunesAssumption
<1>3. Sequence(s)
  BY <1>2, ListingOf
<1>4. PICK w : w = Write(q, s, at, r)
  OBVIOUS
<1>5. PassOK(w) /\ w.hits = q.hits /\ w.until = q.until /\ w.swapped = q.swapped
  BY <1>3, <1>4, WrittenOK
<1>6. PICK hits : hits = IF swaps THEN Add(w.hits, LookAlike, k) ELSE w.hits
  OBVIOUS
<1>7. Sequence(w.hits)
  BY <1>5 DEF PassOK
<1>8. Sequence(hits)
  BY <1>6, <1>7, HitAdded
<1>9. PICK f : f = [w EXCEPT !.hits = hits]
  OBVIOUS
<1>10. DOMAIN w = {"out", "size", "shifts", "hits", "until", "swapped"}
  BY <1>5 DEF PassOK
<1>11. DOMAIN f = DOMAIN w /\ f.out = w.out /\ f.hits = hits /\ f.until = w.until /\ f.swapped = w.swapped
  BY ONLY <1>9, <1>10
<1>12. PassOK(f)
  BY <1>5, <1>8, <1>10, <1>11 DEF PassOK
<1>13. Fold(q, r, k, at, swaps) = f
  BY <1>1, <1>4, <1>6, <1>9, Zenon DEF Fold
<1>14. /\ f.hits = IF swaps THEN Add(q.hits, LookAlike, k) ELSE q.hits
       /\ f.until = q.until /\ f.swapped = q.swapped
  BY <1>5, <1>6, <1>11, Zenon
<1> QED
  BY <1>12, <1>13, <1>14, Zenon

LEMMA RuneOK ==
  ASSUME NEW p, PassOK(p), NEW t, NEW k, t[k] \in DOMAIN Runes
  PROVE  PassOK(NormalizeRune(p, t, k))
<1>1. PICK at, r : at = OffsetOf(t, k) /\ r = t[k]
  OBVIOUS
<1>2. r \in DOMAIN Runes
  BY <1>1
<1>3. PICK q : q = Swap(p, t, k, WordStart(t, k))
  OBVIOUS
<1>4. PassOK(q)
  BY <1>3, SwappedOK
<1>5. PICK s : s = IF Runes[r].size = 1 THEN <<r>> ELSE Runes[r].mapped
  OBVIOUS
<1>6. s \in Seq(DOMAIN Runes)
  <2>1. <<r>> \in Seq(DOMAIN Runes)
    BY <1>2
  <2>2. Runes[r].mapped \in Seq(DOMAIN Runes)
    BY <1>2, RunesAssumption
  <2> QED
    BY <1>5, <2>1, <2>2
<1>7. Sequence(s)
  BY <1>6, ListingOf
<1>8. PICK w : w = Write(p, s, at, r)
  OBVIOUS
<1>9. PassOK(w)
  BY <1>7, <1>8, WrittenOK
<1>10. PICK f : f = FoldForeign(q, r, k, at)
  OBVIOUS
<1>11. PassOK(f)
  BY <1>2, <1>4, <1>10, FoldedOK DEF FoldForeign
<1>12. KeepRune(p, t, k, at) = f \/ KeepRune(p, t, k, at) = w
  BY <1>1, <1>3, <1>5, <1>8, <1>10, Zenon DEF KeepRune
<1>13. PICK hits : hits = Add(p.hits, Invisible, k)
  OBVIOUS
<1>14. Sequence(hits)
  BY <1>13, HitAdded DEF PassOK
<1>15. PICK h : h = [p EXCEPT !.hits = hits]
  OBVIOUS
<1>16. DOMAIN p = {"out", "size", "shifts", "hits", "until", "swapped"}
  BY DEF PassOK
<1>17. DOMAIN h = DOMAIN p /\ h.out = p.out /\ h.hits = hits
  BY ONLY <1>15, <1>16
<1>18. PassOK(h)
  BY <1>14, <1>16, <1>17 DEF PassOK
<1>19. NormalizeRune(p, t, k) \in {KeepRune(p, t, k, at), h, p}
  BY <1>1, <1>13, <1>15, Zenon DEF NormalizeRune
<1> QED
  BY <1>9, <1>11, <1>12, <1>18, <1>19, Zenon

LEMMA NormalizeOK ==
  ASSUME NEW t, IsText(t)
  PROVE  PassOK(Normalize(t))
<1>1. PICK n : n = Len(t)
  OBVIOUS
<1>2. n \in Nat /\ \A k \in 1..n : t[k] \in DOMAIN Runes
  BY <1>1 DEF IsText
<1>3. PICK f : f = Normalizing(t)
  OBVIOUS
<1>4. f[0] = FirstPass /\ \A k \in 1..n : f[k] = NormalizeRune(f[k - 1], t, k)
  BY <1>1, <1>2, <1>3, NormalizingCourse
<1> DEFINE T == {k \in Nat : PassOK(f[k])}
<1>5. 0 \in T
  <2>1. PassOK(FirstPass)
    BY FilesNone DEF PassOK, FirstPass
  <2> QED
    BY <1>4, <2>1
<1>6. ASSUME NEW k \in 1..n, k - 1 \in T PROVE k \in T
  <2>1. PICK p : p = f[k - 1]
    OBVIOUS
  <2>2. PassOK(p)
    BY <1>6, <2>1
  <2>3. PassOK(NormalizeRune(p, t, k))
    BY <2>2, <1>2, RuneOK
  <2>4. f[k] = NormalizeRune(p, t, k)
    BY <1>4, <2>1
  <2>5. PassOK(f[k])
    BY <2>3, <2>4, Zenon
  <2>6. k \in Nat
    BY <1>2
  <2> QED
    BY <2>5, <2>6
<1> HIDE DEF T
<1>7. \A k \in 0..n : k \in T
  BY <1>2, <1>5, <1>6, UpTo
<1>8. n \in T
  BY <1>2, <1>7
<1> QED
  BY <1>1, <1>3, <1>8 DEF T, Normalize

\* What the reveal layer finds in an artifact is found in that file.
LEMMA RevealedType ==
  ASSUME NEW a, NEW hits, Sequence(hits), NEW starts
  PROVE  FilesAre(Limited(Unique(HitFindings(a, hits, starts), {}).out), a.path)
<1>1. PICK I : I = {k \in DOMAIN hits : hits[k].rule \in case.allowed}
  OBVIOUS
<1>2. DOMAIN hits = 1..Len(hits)
  BY Listing
<1>3. I \in SUBSET (1..Len(hits))
  BY <1>1, <1>2
<1>4. PICK hs : hs = Picked(hits, I)
  OBVIOUS
<1>5. Sequence(hs)
  BY <1>3, <1>4, PickedOf
<1>6. PICK l : l = Len(hs)
  OBVIOUS
<1>7. l \in Nat /\ DOMAIN hs = 1..l
  BY <1>5, <1>6, Listing
<1>8. PICK fs : fs = FindingsOf(a, hs, starts)
  OBVIOUS
<1>9. fs = [k \in 1..l |-> Finding(hs[k].rule, a.path, LineAt(starts, OffsetOf(a.text, hs[k].from)))]
  BY <1>7, <1>8 DEF FindingsOf
<1>10. fs = [k \in 1..l |-> fs[k]]
  BY <1>9
<1>11. Sequence(fs) /\ Len(fs) = l
  BY <1>7, <1>10, Indexed
<1>12. \A k \in 1..l : fs[k].file = a.path
  BY <1>9 DEF Finding
<1>13. FilesAre(fs, a.path)
  BY <1>11, <1>12 DEF FilesAre
<1>14. PICK u : u = Unique(fs, {}).out
  OBVIOUS
<1>15. FilesAre(u, a.path)
  BY <1>11, <1>13, <1>14, UniqueType, FilesWithin
<1>16. PICK J : J = {k \in DOMAIN u : Cardinality({j \in 1..(k - 1) : u[j].rule = u[k].rule}) < MaxPerRule}
  OBVIOUS
<1>17. Sequence(u) /\ DOMAIN u = 1..Len(u)
  BY <1>15, Listing DEF FilesAre
<1>18. J \in SUBSET (1..Len(u))
  BY <1>16, <1>17
<1>19. Picked(u, J) \in Seq(ToSet(u))
  BY <1>17, <1>18, PickedAlong DEF Sequence
<1>20. FilesAre(Picked(u, J), a.path)
  BY <1>15, <1>19, FilesWithin
<1>21. Limited(u) = Picked(u, J)
  BY <1>16 DEF Limited
<1>22. HitFindings(a, hits, starts) = fs
  BY <1>1, <1>4, <1>8 DEF HitFindings
<1> QED
  BY <1>14, <1>20, <1>21, <1>22

-----------------------------------------------------------------------------
(* The artifacts of a folder, each at its own path.                         *)

LEMMA FolderRuns ==
  ASSUME case \in Cases
  PROVE  /\ Sequence(Folder) /\ Len(Folder) = Len(Lost) + Len(Pending)
         /\ \A k \in 1..Len(Lost) : Folder[k] = Lost[k]
         /\ \A k \in 1..Len(Pending) : Folder[Len(Lost) + k] = Pending[k]
         /\ \A k \in 1..(Len(Lost) + Len(Pending)) :
              k \in 1..Len(Lost) \/ \E j \in 1..Len(Pending) : k = Len(Lost) + j
BY FolderType, Joining DEF Folder

\* Each element of a part of the entries stands at a place of its own.
LEMMA PartOfEntries ==
  ASSUME case \in Cases, NEW kinds
  PROVE  LET es == case.entries
             p == EntriesThat(kinds)
         IN  \E h \in [1..Len(p) -> 1..Len(es)] :
               /\ \A j \in 1..Len(p) : p[j] = es[h[j]] /\ es[h[j]].kind \in kinds
               /\ \A j, k \in 1..Len(p) : h[j] = h[k] => j = k
<1>1. PICK es : es = case.entries
  OBVIOUS
<1>2. PICK I, p : I = {k \in DOMAIN es : es[k].kind \in kinds} /\ p = EntriesThat(kinds)
  OBVIOUS
<1>3. p = Picked(es, I)
  BY <1>1, <1>2 DEF EntriesThat
<1>4. Sequence(es)
  BY <1>1, CasesAssumption DEF CaseOK, EntriesOK, Sequence
<1>5. DOMAIN es = 1..Len(es) /\ Len(es) \in Nat
  BY <1>4, Listing
<1>6. I \in SUBSET (1..Len(es))
  BY <1>2, <1>5
<1>7. Sequence(p) /\ \E h \in [1..Len(p) -> I] : Along(es, h, p)
  BY <1>3, <1>4, <1>6, PickedOf
<1>8. PICK h \in [1..Len(p) -> I] : Along(es, h, p)
  BY <1>7
<1>9. /\ \A j \in 1..Len(p) : p[j] = es[h[j]]
      /\ \A j, k \in 1..Len(p) : j < k => h[j] < h[k]
  BY <1>8 DEF Along
<1>10. \A j \in 1..Len(p) : h[j] \in I /\ h[j] \in 1..Len(es)
  BY <1>6, <1>8
<1>11. \A j \in 1..Len(p) : es[h[j]].kind \in kinds
  BY <1>2, <1>10
<1>12. h \in [1..Len(p) -> 1..Len(es)]
  BY <1>6, <1>8
<1>13. ASSUME NEW j \in 1..Len(p), NEW k \in 1..Len(p), h[j] = h[k] PROVE j = k
  <2>1. ~(h[j] < h[k]) /\ ~(h[k] < h[j])
    <3>1. h[j] \in Nat /\ h[k] \in Nat
      BY <1>5, <1>10
    <3> QED
      BY <3>1, <1>13
  <2>2. ~(j < k) /\ ~(k < j)
    BY <1>9, <2>1
  <2>3. j \in Nat /\ k \in Nat
    OBVIOUS
  <2> QED
    BY <2>2, <2>3
<1> QED
  BY <1>1, <1>2, <1>9, <1>11, <1>12, <1>13

LEMMA FolderDistinct ==
  ASSUME case \in Cases, NEW j \in 1..Len(Folder), NEW k \in 1..Len(Folder),
         Folder[j].path = Folder[k].path
  PROVE  j = k
<1>1. PICK es, m, n : es = case.entries /\ m = Len(Lost) /\ n = Len(Pending)
  OBVIOUS
<1>2. PICK folder : folder = {"folder"}
  OBVIOUS
<1>3. Lost = EntriesThat(folder)
  BY <1>2 DEF Lost
<1>4. PICK h \in [1..m -> 1..Len(es)] :
        /\ \A x \in 1..m : Lost[x] = es[h[x]] /\ es[h[x]].kind \in folder
        /\ \A x, y \in 1..m : h[x] = h[y] => x = y
  BY <1>1, <1>3, PartOfEntries
<1>5. PICK kinds : kinds = {"file", "symlink", "special"}
  OBVIOUS
<1>6. Pending = EntriesThat(kinds)
  BY <1>5 DEF Pending
<1>7. PICK g \in [1..n -> 1..Len(es)] :
        /\ \A x \in 1..n : Pending[x] = es[g[x]] /\ es[g[x]].kind \in kinds
        /\ \A x, y \in 1..n : g[x] = g[y] => x = y
  BY <1>1, <1>6, PartOfEntries
<1>8. /\ Len(Folder) = m + n
      /\ \A x \in 1..m : Folder[x] = Lost[x]
      /\ \A x \in 1..n : Folder[m + x] = Pending[x]
      /\ \A x \in 1..(m + n) : x \in 1..m \/ \E y \in 1..n : x = m + y
  BY <1>1, FolderRuns
<1>9. ASSUME NEW x \in 1..Len(es), NEW y \in 1..Len(es), es[x].path = es[y].path PROVE x = y
  <2>1. EntriesOK(es)
    BY <1>1, CasesAssumption DEF CaseOK
  <2>2. DOMAIN es = 1..Len(es)
    BY <2>1, Listing DEF EntriesOK, Sequence
  <2> QED
    BY <2>1, <2>2, <1>9 DEF EntriesOK
<1>10. (j \in 1..m \/ \E x \in 1..n : j = m + x) /\ (k \in 1..m \/ \E x \in 1..n : k = m + x)
  BY <1>8
<1>11. CASE j \in 1..m /\ k \in 1..m
  BY <1>4, <1>8, <1>9, <1>11
<1>12. ASSUME NEW x \in 1..n, j = m + x, NEW y \in 1..n, k = m + y PROVE j = k
  <2>1. Pending[x].path = Pending[y].path
    BY <1>8, <1>12
  <2>2. g[x] = g[y]
    BY <2>1, <1>7, <1>9
  <2> QED
    BY <2>2, <1>7, <1>12
<1>13. ASSUME NEW x \in 1..m, NEW y \in 1..n, Lost[x].path = Pending[y].path PROVE FALSE
  <2>1. h[x] = g[y]
    BY <1>4, <1>7, <1>9, <1>13
  <2>2. es[h[x]].kind = "folder" /\ es[g[y]].kind # "folder"
    BY <1>4, <1>7, <1>5, <1>2
  <2> QED
    BY <2>1, <2>2
<1>14. CASE j \in 1..m /\ k \notin 1..m
  <2>1. PICK y \in 1..n : k = m + y
    BY <1>10, <1>14
  <2>2. Lost[j].path = Pending[y].path
    BY <1>8, <1>14, <2>1
  <2> QED
    BY <2>2, <1>13, <1>14
<1>15. CASE j \notin 1..m /\ k \in 1..m
  <2>1. PICK y \in 1..n : j = m + y
    BY <1>10, <1>15
  <2>2. Lost[k].path = Pending[y].path
    BY <1>8, <1>15, <2>1
  <2> QED
    BY <2>2, <1>13, <1>15
<1> QED
  BY <1>10, <1>11, <1>12, <1>14, <1>15

LEMMA ArtifactFields ==
  ASSUME NEW path, NEW type, NEW ok, NEW size, NEW text, NEW target, Sequence(text),
         type \notin Textual => text = << >>
  PROVE  ArtifactOK(Artifact(path, type, ok, size, text, target))
<1>1. PICK a : a = Artifact(path, type, ok, size, text, target)
  OBVIOUS
<1>2. a = [path |-> path, kind |-> "content", type |-> type, ok |-> ok, size |-> size,
           text |-> text, clean |-> << >>, shifts |-> << >>, target |-> target]
  BY <1>1 DEF Artifact
<1>3. DOMAIN a = Fields
  BY <1>2 DEF Fields
<1>4. /\ a.path = path /\ a.kind = "content" /\ a.type = type
      /\ a.text = text /\ a.clean = << >>
  BY <1>2
<1>5. Sequence(<< >>)
  BY FewIds
<1>6. ArtifactOK(a)
  BY <1>3, <1>4, <1>5 DEF ArtifactOK
<1> QED
  BY <1>1, <1>4, <1>6

LEMMA FailedFields ==
  ASSUME NEW e, NEW type
  PROVE  ArtifactOK(Failed(e, type)) /\ Failed(e, type).path = e.path /\ Failed(e, type).kind = "content"
<1>1. Sequence(<< >>)
  BY FewIds
<1>2. ArtifactOK(Failed(e, type))
  BY <1>1, ArtifactFields DEF Failed
<1> QED
  BY <1>2 DEF Failed, Artifact

\* A file is of text, or none of it is read.
LEMMA TypesOf ==
  ASSUME NEW e, NEW raw
  PROVE  TypeOf(e, raw) \in Textual \cup {"media", "unknown"}
<1>1. PICK ext, f : ext = e.ext /\ f = Extensions
  OBVIOUS
<1>2. ext \in DOMAIN f => f[ext] \in Textual
  BY <1>1 DEF Extensions, Textual
<1>3. "code" \in Textual /\ "text" \in Textual
  BY DEF Textual
<1>4. TypeOf(e, raw) \in {"code", "text", "media", "unknown"} \/ (ext \in DOMAIN f /\ TypeOf(e, raw) = f[ext])
  BY <1>1, Zenon DEF TypeOf
<1> QED
  BY ONLY <1>2, <1>3, <1>4

LEMMA RegularFields ==
  ASSUME NEW e, NEW raw, IsText(raw)
  PROVE  ArtifactOK(Regular(e, raw)) /\ Regular(e, raw).path = e.path /\ Regular(e, raw).kind = "content"
<1>1. IsText(Decode(raw)) /\ IsText(<< >>)
  BY DecodeText, NoText
<1>2. PICK type : type = TypeOf(e, raw)
  OBVIOUS
<1>3. type \in Textual \cup {"media", "unknown"}
  BY <1>2, TypesOf
<1>4. PICK text : text = IF type \in {"media", "unknown"} THEN << >> ELSE Decode(raw)
  OBVIOUS
<1>5. Sequence(text) /\ (type \notin Textual => text = << >>)
  <2>1. IsText(text) /\ (type \notin Textual => text = << >>)
    BY <1>1, <1>3, <1>4
  <2> QED
    BY <2>1, ListingOf DEF IsText
<1>6. Regular(e, raw) = Artifact(e.path, type, TRUE, Size(raw), text, << >>)
  BY <1>2, <1>4 DEF Regular, RegularAs
<1>7. ArtifactOK(Regular(e, raw))
  BY <1>5, <1>6, ArtifactFields
<1> QED
  BY <1>6, <1>7 DEF Artifact

\* One more artifact.
LEMMA ListAdded ==
  ASSUME ListOK, case' = case, pc = "over" => pc' = "over",
         NEW a, ArtifactOK(a), InFolder(a, Len(artifacts) + 1), pc' # "over" => a.kind = "content",
         artifacts' = Append(artifacts, a)
  PROVE  ListOK' /\ PathsStay
<1>1. PICK s : s = artifacts
  OBVIOUS
<1>2. PICK n : n = Len(s)
  OBVIOUS
<1>3. Sequence(s) /\ \A k \in 1..n : /\ ArtifactOK(s[k]) /\ InFolder(s[k], k)
                                     /\ pc # "over" => s[k].kind = "content"
  BY <1>1, <1>2 DEF ListOK
<1>4. PICK t : t = Append(s, a)
  OBVIOUS
<1>5. n \in Nat
  BY <1>2, <1>3, Listing
<1>6. Sequence(t) /\ Len(t) = n + 1 /\ t[n + 1] = a /\ \A k \in 1..n : t[k] = s[k]
  BY <1>2, <1>3, <1>4, Appended
<1>7. ASSUME NEW k \in 1..(n + 1)
      PROVE  ArtifactOK(t[k]) /\ InFolder(t[k], k) /\ (pc' # "over" => t[k].kind = "content")
  <2>1. CASE k \in 1..n
    BY <2>1, <1>3, <1>6
  <2>2. CASE k = n + 1
    BY <2>2, <1>1, <1>2, <1>6
  <2> QED
    BY <1>5, <2>1, <2>2
<1>8. Folder' = Folder
  BY FolderStays DEF Folder
<1>9. artifacts' = t
  BY <1>1, <1>4
<1>10. ListOK'
  <2>1. case' \in Cases
    BY DEF ListOK
  <2>2. \A x, k : InFolder(x, k)' <=> InFolder(x, k)
    BY <1>8 DEF InFolder
  <2>3. ASSUME NEW k \in 1..Len(t)
        PROVE  ArtifactOK(t[k]) /\ InFolder(t[k], k)' /\ (pc' # "over" => t[k].kind = "content")
    BY <2>2, <1>6, <1>7
  <2> QED
    BY <2>1, <2>3, <1>6, <1>9 DEF ListOK, ArtifactOK
<1>11. PathsStay
  <2>1. \A k \in 1..n : k \in 1..(n + 1)
    BY <1>5
  <2> QED
    BY <2>1, <1>1, <1>2, <1>6, <1>9 DEF PathsStay
<1> QED
  BY <1>10, <1>11

LEMMA CleanedAt ==
  ASSUME ListOK, NEW c, NEW s, i \in 1..Len(artifacts),
         artifacts' = [artifacts EXCEPT ![i].clean = c, ![i].shifts = s]
  PROVE  /\ Sequence(artifacts') /\ Len(artifacts') = Len(artifacts)
         /\ \A k \in 1..Len(artifacts) : SameFile(artifacts'[k], artifacts[k])
         /\ \A k \in 1..Len(artifacts) : k # i => artifacts'[k] = artifacts[k]
         /\ artifacts'[i].clean = c /\ artifacts'[i].shifts = s
<1>1. PICK old, n, at : old = artifacts /\ n = Len(old) /\ at = i
  OBVIOUS
<1>2. PICK new : new = [old EXCEPT ![at].clean = c, ![at].shifts = s]
  OBVIOUS
<1>3. n \in Nat /\ DOMAIN old = 1..n /\ at \in 1..n
  BY <1>1, Listing DEF ListOK
<1>4. new = [k \in 1..n |-> new[k]]
  BY <1>2, <1>3
<1>5. Sequence(new) /\ Len(new) = n
  BY <1>3, <1>4, Indexed
<1>6. PICK a : a = old[at]
  OBVIOUS
<1>7. PICK b : b = [a EXCEPT !.clean = c, !.shifts = s]
  OBVIOUS
<1>8. new[at] = b /\ \A k \in 1..n : k # at => new[k] = old[k]
  BY ONLY <1>2, <1>3, <1>6, <1>7
<1>9. DOMAIN a = Fields
  BY <1>1, <1>3, <1>6 DEF ListOK, ArtifactOK
<1>10. b.clean = c /\ b.shifts = s /\ SameFile(b, a)
  BY ONLY <1>7, <1>9 DEF Fields, SameFile
<1>11. \A k \in 1..n : SameFile(new[k], old[k])
  BY <1>6, <1>8, <1>10 DEF SameFile
<1> QED
  BY <1>1, <1>2, <1>5, <1>8, <1>10, <1>11

\* Reveal leaves a clean text, of an artifact with text.
LEMMA ListCleaned ==
  ASSUME ListOK, case' = case, pc' = pc, NEW c, Sequence(c), NEW s, i \in 1..Len(artifacts),
         artifacts[i].type \in Textual,
         artifacts' = [artifacts EXCEPT ![i].clean = c, ![i].shifts = s]
  PROVE  ListOK' /\ PathsStay
<1>1. PICK old, new, n, at : old = artifacts /\ new = artifacts' /\ n = Len(old) /\ at = i
  OBVIOUS
<1>2. Sequence(old) /\ \A k \in 1..n : /\ ArtifactOK(old[k]) /\ InFolder(old[k], k)
                                       /\ pc # "over" => old[k].kind = "content"
  BY <1>1 DEF ListOK
<1>3. Sequence(new) /\ Len(new) = n /\ \A k \in 1..n : SameFile(new[k], old[k])
  BY <1>1, CleanedAt
<1>4. new[at].clean = c /\ old[at].type \in Textual /\ \A k \in 1..n : k # at => new[k] = old[k]
  BY <1>1, CleanedAt
<1>5. ASSUME NEW k \in 1..n PROVE ArtifactOK(new[k])
  BY <1>2, <1>3, <1>4 DEF ArtifactOK, SameFile
<1>6. \A k \in 1..n : InFolder(new[k], k)
  BY <1>2, <1>3 DEF InFolder, SameFile
<1>7. Folder' = Folder
  BY FolderStays DEF Folder
<1>8. ListOK'
  <2>1. case' \in Cases
    BY DEF ListOK
  <2>2. \A x, k : InFolder(x, k)' <=> InFolder(x, k)
    BY <1>7 DEF InFolder
  <2>3. ASSUME NEW k \in 1..Len(new)
        PROVE  ArtifactOK(new[k]) /\ InFolder(new[k], k)' /\ (pc' # "over" => new[k].kind = "content")
    BY <1>2, <1>3, <1>5, <1>6, <2>2 DEF SameFile
  <2> QED
    BY <1>1, <1>3, <2>1, <2>3 DEF ListOK, ArtifactOK
<1>9. PathsStay
  BY <1>1, <1>3 DEF PathsStay, SameFile
<1> QED
  BY <1>8, <1>9

LEMMA ListStays ==
  ASSUME ListOK, case' = case, artifacts' = artifacts, pc = "over" => pc' = "over"
  PROVE  ListOK' /\ PathsStay
<1>1. Folder' = Folder
  BY FolderStays DEF Folder
<1>2. \A x, k : InFolder(x, k)' <=> InFolder(x, k)
  BY <1>1 DEF InFolder
<1>3. \A x : ArtifactOK(x)' <=> ArtifactOK(x)
  BY DEF ArtifactOK
<1>4. ListOK'
  BY <1>2, <1>3 DEF ListOK, ArtifactOK
<1>5. PathsStay
  BY DEF PathsStay
<1> QED
  BY <1>4, <1>5

LEMMA ListInit ==
  ASSUME Init
  PROVE  ListOK
<1>1. /\ case \in Cases /\ pc = "walk"
      /\ artifacts = [k \in DOMAIN Lost |-> Failed(Lost[k], "directory")]
  BY DEF Init
<1>2. Sequence(Lost) /\ Sequence(Pending)
  BY <1>1, FolderType
<1>3. Len(Lost) \in Nat /\ DOMAIN Lost = 1..Len(Lost) /\ Len(Pending) \in Nat
  BY <1>2, Listing
<1>4. artifacts = [k \in 1..Len(Lost) |-> artifacts[k]]
  BY <1>1, <1>3
<1>5. Sequence(artifacts) /\ Len(artifacts) = Len(Lost)
  BY <1>3, <1>4, Indexed
<1>6. Len(Folder) = Len(Lost) + Len(Pending) /\ \A k \in 1..Len(Lost) : Folder[k] = Lost[k]
  BY <1>1, FolderRuns
<1>7. ASSUME NEW k \in 1..Len(Lost)
      PROVE  ArtifactOK(artifacts[k]) /\ InFolder(artifacts[k], k) /\ artifacts[k].kind = "content"
  <2>1. artifacts[k] = Failed(Lost[k], "directory")
    BY <1>1, <1>3
  <2>2. PICK e : e = Lost[k]
    OBVIOUS
  <2>3. PICK a : a = Failed(e, "directory")
    OBVIOUS
  <2>4. ArtifactOK(a) /\ a.path = e.path /\ a.kind = "content"
    BY <2>3, FailedFields
  <2>5. k \in 1..Len(Folder) /\ Folder[k] = e
    BY <1>3, <1>6, <2>2
  <2>6. InFolder(a, k)
    BY <2>4, <2>5 DEF InFolder
  <2> QED
    BY <2>1, <2>2, <2>3, <2>4, <2>6
<1> QED
  BY <1>1, <1>5, <1>7 DEF ListOK

\* The entry at hand comes next.
LEMMA EntryPlace ==
  ASSUME WalkInv, i <= Len(Pending), NEW a, a.path = Entry.path
  PROVE  InFolder(a, Len(artifacts) + 1)
<1>1. /\ case \in Cases /\ i \in 1..(Len(Pending) + 1)
      /\ Len(artifacts) = Len(Lost) + (i - 1)
  BY DEF WalkInv, WalkShape
<1>2. Sequence(Pending) /\ Sequence(Lost)
  BY <1>1, FolderType
<1>3. Len(Pending) \in Nat /\ Len(Lost) \in Nat
  BY <1>2, Listing
<1>4. i \in 1..Len(Pending) /\ Len(artifacts) + 1 = Len(Lost) + i
  BY <1>1, <1>3
<1>5. Len(Lost) + i \in 1..Len(Folder) /\ Folder[Len(Lost) + i] = Pending[i]
  <2>1. /\ Len(Folder) = Len(Lost) + Len(Pending)
        /\ \A k \in 1..Len(Pending) : Folder[Len(Lost) + k] = Pending[k]
    BY <1>1, FolderRuns
  <2>2. Len(Lost) + i \in 1..(Len(Lost) + Len(Pending))
    BY <1>3, <1>4
  <2> QED
    BY <2>1, <2>2, <1>4
<1> QED
  BY <1>4, <1>5 DEF InFolder, Entry

\* One more artifact of the entry at hand.
LEMMA EntryAdded ==
  ASSUME WalkInv, ListOK, pc = "walk", pc' = pc, case' = case, i <= Len(Pending),
         NEW a, ArtifactOK(a), a.path = Entry.path, a.kind = "content", artifacts' = Append(artifacts, a)
  PROVE  ListOK' /\ PathsStay
BY EntryPlace, ListAdded

LEMMA ListWalked ==
  ASSUME IInv, ListOK, Vanish \/ TakeSpecial \/ Measure \/ ReadFile \/ ReadFails
  PROVE  ListOK' /\ PathsStay
<1>1. /\ pc = "walk" /\ pc' = pc /\ case' = case /\ i <= Len(Pending)
  BY DEF Vanish, TakeSpecial, Measure, ReadFile, ReadFails, Walking, AtEntry, Unread
<1>2. WalkInv
  BY <1>1 DEF IInv
<1>3. PICK e : e = Entry
  OBVIOUS
<1>4. CASE artifacts' = Append(artifacts, Failed(e, None))
  BY <1>1, <1>2, <1>3, <1>4, FailedFields, EntryAdded
<1>5. CASE TakeSpecial
  <2>1. PICK a : a = Artifact(e.path, e.kind, TRUE, 0, << >>, e.target)
    OBVIOUS
  <2>2. artifacts' = Append(artifacts, a)
    BY <1>3, <1>5, <2>1 DEF TakeSpecial, AddArtifact
  <2>3. ArtifactOK(a)
    BY <2>1, FewIds, ArtifactFields
  <2>4. a.path = Entry.path /\ a.kind = "content"
    BY <1>3, <2>1 DEF Artifact
  <2> QED
    BY <1>1, <1>2, <2>2, <2>3, <2>4, EntryAdded
<1>6. CASE ReadFile
  <2>1. PICK raw \in {e.now, e.then} : artifacts' = Append(artifacts, Regular(e, raw))
    BY <1>3, <1>6 DEF ReadFile, ReadAs, AddArtifact
  <2>2. case \in Cases /\ i \in 1..(Len(Pending) + 1)
    BY <1>2 DEF WalkInv, WalkShape
  <2>3. Sequence(Pending) /\ \A k \in 1..Len(Pending) : IsText(Pending[k].now) /\ IsText(Pending[k].then)
    BY <2>2, FolderType
  <2>4. i \in 1..Len(Pending)
    <3>1. Len(Pending) \in Nat
      BY <2>3, Listing
    <3> QED
      BY <3>1, <1>1, <2>2
  <2>5. IsText(raw)
    BY <1>3, <2>1, <2>3, <2>4 DEF Entry
  <2> QED
    BY <1>1, <1>2, <1>3, <2>1, <2>5, RegularFields, EntryAdded
<1>7. Vanish \/ ReadFails \/ Measure =>
        artifacts' = Append(artifacts, Failed(e, None)) \/ artifacts' = artifacts
  BY <1>3 DEF Vanish, ReadFails, Measure, MeasureAs, AddArtifact
<1>8. CASE artifacts' = artifacts
  BY <1>1, <1>8, ListStays
<1> QED
  BY <1>4, <1>5, <1>6, <1>7, <1>8

\* At is an artifact, and its text is text.
LEMMA AtIs ==
  ASSUME ListOK, TextsOK, i \in Nat \ {0}, i <= Len(artifacts)
  PROVE  i \in 1..Len(artifacts) /\ ArtifactOK(At) /\ IsText(At.text)
<1>1. Sequence(artifacts)
  BY DEF ListOK
<1>2. Len(artifacts) \in Nat
  BY <1>1, Listing
<1>3. i \in 1..Len(artifacts)
  BY <1>2
<1> QED
  BY <1>3 DEF ListOK, TextsOK, Texted, At

LEMMA ListRevealed ==
  ASSUME IInv, TextsOK, ListOK, RevealArtifact
  PROVE  ListOK' /\ PathsStay
<1>1. pc = "reveal" /\ i <= Len(artifacts) /\ case' = case /\ pc' = pc /\ i \in Nat \ {0}
  BY DEF RevealArtifact, IInv
<1>2. i \in 1..Len(artifacts) /\ ArtifactOK(At) /\ IsText(At.text)
  BY <1>1, AtIs
<1>3. CASE artifacts' = artifacts
  BY <1>1, <1>3, ListStays
<1>4. CASE artifacts' # artifacts
  <2>1. PICK text : text = At.text
    OBVIOUS
  <2>2. PICK p : p = Normalize(text)
    OBVIOUS
  <2>3. PassOK(p)
    BY <1>2, <2>1, <2>2, NormalizeOK
  <2>4. Wanted(At) /\ artifacts' = [artifacts EXCEPT ![i].clean = p.out, ![i].shifts = p.shifts]
    BY <1>4, <2>1, <2>2 DEF RevealArtifact, RevealAs
  <2>5. Sequence(p.out)
    BY <2>3 DEF PassOK
  <2>6. artifacts[i].type \in Textual
    BY <2>4 DEF Wanted, At
  <2> QED
    BY <1>1, <1>2, <2>4, <2>5, <2>6, ListCleaned
<1> QED
  BY <1>3, <1>4

LEMMA ListEnded ==
  ASSUME ListOK, EndStatic
  PROVE  ListOK' /\ PathsStay
<1>1. PICK b : b = Artifact(<<"traces">>, "markdown", TRUE, 1, << >>, << >>)
  OBVIOUS
<1>2. PICK a : a = [b EXCEPT !.kind = "brief"]
  OBVIOUS
<1>3. pc' = "over" /\ pc = "static" /\ case' = case /\ (artifacts' = Append(artifacts, a) \/ artifacts' = artifacts)
  BY <1>1, <1>2 DEF EndStatic
<1>4. ArtifactOK(b)
  BY <1>1, FewIds, ArtifactFields
<1>5. DOMAIN a = Fields /\ a.kind = "brief" /\ a.text = b.text /\ a.clean = b.clean /\ a.type = b.type
  <2>1. DOMAIN b = Fields
    BY <1>4 DEF ArtifactOK
  <2> QED
    BY ONLY <1>2, <2>1 DEF Fields
<1>6. ArtifactOK(a)
  BY <1>4, <1>5 DEF ArtifactOK
<1>7. InFolder(a, Len(artifacts) + 1)
  BY <1>5 DEF InFolder
<1> QED
  BY <1>3, <1>6, <1>7, ListAdded, ListStays

LEMMA ListNext ==
  ASSUME IInv, TextsOK, ListOK, [Next]_vars
  PROVE  ListOK' /\ PathsStay
<1>1. CASE Vanish \/ TakeSpecial \/ Measure \/ ReadFile \/ ReadFails
  BY <1>1, ListWalked
<1>2. CASE EndWalk \/ EndReveal \/ ParseArtifact \/ NoRuntime \/ EndAst \/ ScanArtifact \/ ScanLink
  <2>1. case' = case /\ artifacts' = artifacts /\ pc # "over"
    BY <1>2 DEF EndWalk, EndReveal, ParseArtifact, NoRuntime, EndAst, ScanArtifact, ScanLink
  <2> QED
    BY <2>1, ListStays
<1>3. CASE ContextEnds \/ Over \/ UNCHANGED vars
  <2>1. case' = case /\ artifacts' = artifacts /\ pc' = pc
    BY <1>3 DEF ContextEnds, Over, vars
  <2> QED
    BY <2>1, ListStays
<1> QED
  BY <1>1, <1>2, <1>3, ListRevealed, ListEnded DEF Next

-----------------------------------------------------------------------------
(* What is found at a line is found in an artifact.                         *)

LEMMA LocatedJoin ==
  ASSUME NEW list, NEW fs, AllLocated(fs, list), NEW gs, AllLocated(gs, list)
  PROVE  AllLocated(fs \o gs, list)
<1>1. PICK m, n, hs : m = Len(fs) /\ n = Len(gs) /\ hs = fs \o gs
  OBVIOUS
<1>2. /\ Sequence(hs) /\ Len(hs) = m + n
      /\ \A q \in 1..m : hs[q] = fs[q]
      /\ \A j \in 1..n : hs[m + j] = gs[j]
      /\ \A q \in 1..(m + n) : q \in 1..m \/ \E j \in 1..n : q = m + j
  BY <1>1, Joining DEF AllLocated
<1>3. (\A q \in 1..m : LocatedIn(fs[q], list)) /\ (\A q \in 1..n : LocatedIn(gs[q], list))
  BY <1>1 DEF AllLocated
<1>4. ASSUME NEW q \in 1..(m + n) PROVE LocatedIn(hs[q], list)
  <2>1. CASE q \in 1..m
    BY <2>1, <1>2, <1>3
  <2>2. ASSUME NEW j \in 1..n, q = m + j PROVE LocatedIn(hs[q], list)
    BY <2>2, <1>2, <1>3
  <2> QED
    BY <2>1, <2>2, <1>2
<1> QED
  BY <1>1, <1>2, <1>4 DEF AllLocated

LEMMA LocatedStays ==
  ASSUME PathsStay, NEW fs, AllLocated(fs, artifacts)
  PROVE  AllLocated(fs, artifacts')
<1>1. ASSUME NEW f, LocatedIn(f, artifacts) PROVE LocatedIn(f, artifacts')
  BY <1>1 DEF LocatedIn, PathsStay
<1> QED
  BY <1>1 DEF AllLocated

LEMMA FilesLocated ==
  ASSUME NEW list, NEW at \in 1..Len(list), list[at].kind = "content",
         NEW fs, FilesAre(fs, list[at].path)
  PROVE  AllLocated(fs, list)
BY DEF FilesAre, AllLocated, LocatedIn

LEMMA NoLineLocated ==
  ASSUME NEW list, NEW fs, Sequence(fs), \A k \in 1..Len(fs) : fs[k].line = 0
  PROVE  AllLocated(fs, list)
<1>1. ~(0 > 0)
  OBVIOUS
<1> QED
  BY <1>1 DEF AllLocated, LocatedIn

\* A limit is told of a file, at no line of it.
LEMMA ReportLocated ==
  ASSUME AllLocated(findings, artifacts'), NEW ids, Sequence(ids), NEW file, Report(ids, file)
  PROVE  AllLocated(findings', artifacts')
<1>1. PICK fs : fs = Findings(Allowed(ids), file)
  OBVIOUS
<1>2. findings' = findings \o fs
  BY <1>1, ReportAppends
<1>3. Sequence(fs) /\ \A k \in 1..Len(fs) : fs[k].line = 0
  BY <1>1, Reported
<1>4. AllLocated(fs, artifacts')
  BY <1>3, NoLineLocated
<1> QED
  BY <1>2, <1>4, LocatedJoin

LEMMA FoundWalked ==
  ASSUME IInv, AllLocated(findings, artifacts'),
         Vanish \/ TakeSpecial \/ Measure \/ ReadFile \/ ReadFails
  PROVE  AllLocated(findings', artifacts')
<1>1. pc = "walk"
  BY DEF Vanish, TakeSpecial, Measure, ReadFile, ReadFails, Walking, AtEntry
<1>2. case \in Cases
  BY <1>1 DEF IInv, WalkInv, WalkShape
<1>3. CASE Vanish \/ TakeSpecial
  <2>1. Report(Counted, Entry.path)
    BY <1>3 DEF Vanish, TakeSpecial, Count
  <2> QED
    BY <2>1, CountedTold, ReportLocated
<1>4. CASE Measure
  <2>1. PICK size : Report(Counted \o Measured(size), Entry.path)
    BY <1>4 DEF Measure, MeasureAs
  <2>2. PICK told : told = Counted \o Measured(size)
    OBVIOUS
  <2>3. Sequence(told)
    BY <1>2, <2>2, EntryTold
  <2> QED
    BY <2>1, <2>2, <2>3, ReportLocated
<1>5. CASE ReadFile
  <2>1. PICK a : ReadAs(a)
    BY <1>5 DEF ReadFile
  <2>2. PICK e : e = Entry
    OBVIOUS
  <2>3. PICK told : told = (IF e.head.encrypted THEN <<"ARCHIVE-ENCRYPTED">> ELSE << >>)
                             \o TextTold(a) \o (IF a.type = "unknown" THEN Detected(e) ELSE << >>)
    OBVIOUS
  <2>4. Sequence(told)
    BY <2>3, ReadTold
  <2>5. Report(told, e.path)
    BY <2>1, <2>2, <2>3 DEF ReadAs
  <2> QED
    BY <2>4, <2>5, ReportLocated
<1>6. CASE ReadFails
  BY <1>6 DEF ReadFails
<1> QED
  BY <1>3, <1>4, <1>5, <1>6

LEMMA FoundRevealed ==
  ASSUME IInv, TextsOK, ListOK, PathsStay, AllLocated(findings, artifacts'), RevealArtifact
  PROVE  AllLocated(findings', artifacts')
<1>1. pc = "reveal" /\ i <= Len(artifacts) /\ i \in Nat \ {0}
  BY DEF RevealArtifact, IInv
<1>2. i \in 1..Len(artifacts) /\ ArtifactOK(At) /\ IsText(At.text)
  BY <1>1, AtIs
<1>3. CASE findings' = findings
  BY <1>3
<1>4. CASE findings' # findings
  <2>1. PICK text : text = At.text
    OBVIOUS
  <2>2. PICK p : p = Normalize(text)
    OBVIOUS
  <2>3. PassOK(p)
    BY <1>2, <2>1, <2>2, NormalizeOK
  <2>4. PICK a : a = At
    OBVIOUS
  <2>5. PICK fs : fs = Limited(Unique(HitFindings(a, p.hits, LineStarts(text)), {}).out)
    OBVIOUS
  <2>6. findings' = findings \o fs
    BY <1>4, <2>1, <2>2, <2>4, <2>5 DEF RevealArtifact, RevealAs, Record, RecordAt
  <2>7. FilesAre(fs, a.path)
    BY <2>3, <2>5, RevealedType DEF PassOK
  <2>8. PICK k : k = i
    OBVIOUS
  <2>9. /\ k \in 1..Len(artifacts') /\ artifacts'[k].kind = "content" /\ artifacts'[k].path = a.path
    BY <1>1, <1>2, <2>4, <2>8 DEF PathsStay, ListOK, At
  <2>10. AllLocated(fs, artifacts')
    BY <2>7, <2>9, FilesLocated
  <2> QED
    BY <2>6, <2>10, LocatedJoin
<1> QED
  BY <1>3, <1>4

\* The rules of a run.
LEMMA RulesAre ==
  ASSUME case \in Cases
  PROVE  /\ Sequence(case.static) /\ Len(case.static) \in Nat
         /\ \A k \in 1..Len(case.static) : Len(case.static[k].patterns) \in Nat /\ case.static[k].id \notin HitRules
         /\ Sequence(case.placeOnly) /\ Len(case.placeOnly) \in Nat
         /\ \A k \in 1..Len(case.placeOnly) : Len(case.placeOnly[k].patterns) \in Nat
<1>1. ASSUME NEW rs, RulesOK(rs)
      PROVE  /\ Sequence(rs) /\ Len(rs) \in Nat
             /\ \A k \in 1..Len(rs) : Len(rs[k].patterns) \in Nat /\ rs[k].id \notin HitRules
  <2>1. Sequence(rs) /\ Len(rs) \in Nat /\ \A k \in 1..Len(rs) : rs[k] \in ToSet(rs)
    BY <1>1, Listing DEF RulesOK, Sequence
  <2>2. \A r \in ToSet(rs) : Sequence(r.patterns) /\ r.id \notin HitRules
    BY <1>1 DEF RulesOK, Sequence
  <2>3. \A r \in ToSet(rs) : Len(r.patterns) \in Nat
    BY <2>2, Listing
  <2> QED
    BY <2>1, <2>2, <2>3
<1>2. RulesOK(case.static) /\ RulesOK(case.placeOnly)
  BY CasesAssumption DEF CaseOK
<1> QED
  BY <1>1, <1>2

LEMMA TextOfIs ==
  ASSUME NEW a, ArtifactOK(a)
  PROVE  Sequence(TextOf(a)) /\ (a.type \notin Textual => TextOf(a) = << >>)
BY DEF ArtifactOK, TextOf

LEMMA FoundScanned ==
  ASSUME TextsOK, ListOK, artifacts' = artifacts, FoundOK, i \in Nat \ {0}, ScanArtifact
  PROVE  FoundOK'
<1>1. pc = "static" /\ i <= Len(artifacts)
  BY DEF ScanArtifact
<1>2. i \in 1..Len(artifacts) /\ ArtifactOK(At)
  BY <1>1, AtIs
<1>3. PICK a : a = At
  OBVIOUS
<1>4. PICK one : one = FoundBy(case.static, a, seen)
  OBVIOUS
<1>5. PICK two : two = FoundBy(case.placeOnly, a, one.seen)
  OBVIOUS
<1>6. findings' = findings \o one.out /\ places' = places \o two.out
  BY <1>3, <1>4, <1>5 DEF ScanArtifact, ScanAs, Record, RecordAt
<1>7. Sequence(TextOf(a))
  BY <1>2, <1>3, TextOfIs
<1>8. PICK rs, ps : rs = case.static /\ ps = case.placeOnly
  OBVIOUS
<1>9. /\ Len(rs) \in Nat /\ \A k \in 1..Len(rs) : Len(rs[k].patterns) \in Nat
      /\ Len(ps) \in Nat /\ \A k \in 1..Len(ps) : Len(ps[k].patterns) \in Nat
  BY <1>8, RulesAre DEF ListOK
<1>10. FilesAre(one.out, a.path) /\ FilesAre(two.out, a.path)
  BY <1>4, <1>5, <1>7, <1>8, <1>9, FoundByType
<1>11. PICK k : k = i
  OBVIOUS
<1>12. k \in 1..Len(artifacts) /\ artifacts[k].kind = "content" /\ artifacts[k].path = a.path
  BY <1>1, <1>2, <1>3, <1>11 DEF ListOK, At
<1>13. AllLocated(one.out, artifacts) /\ AllLocated(two.out, artifacts)
  BY <1>10, <1>12, FilesLocated
<1>14. AllLocated(findings', artifacts) /\ AllLocated(places', artifacts)
  BY <1>6, <1>13, LocatedJoin DEF FoundOK
<1> QED
  BY <1>14 DEF FoundOK

LEMMA LinksFound ==
  ASSUME case \in Cases, NEW a, NEW list
  PROVE  AllLocated(LinkFindings(a), list) /\ OtherRules(LinkFindings(a))
<1>1. PICK rs : rs = case.static
  OBVIOUS
<1>2. PICK I : I = {k \in DOMAIN rs : Applies(rs[k], a) /\ LeadsOut(ResolveLink(artifacts, a))}
  OBVIOUS
<1>3. Sequence(rs) /\ DOMAIN rs = 1..Len(rs)
  BY <1>1, RulesAre, Listing
<1>4. PICK ps : ps = Picked(rs, I)
  OBVIOUS
<1>5. I \in SUBSET (1..Len(rs))
  BY <1>2, <1>3
<1>6. Sequence(ps) /\ ToSet(ps) \subseteq ToSet(rs)
  BY <1>3, <1>4, <1>5, PickedOf
<1>7. DOMAIN ps = 1..Len(ps) /\ Len(ps) \in Nat
  BY <1>6, Listing
<1>8. PICK fs : fs = FindingsBy(ps, a)
  OBVIOUS
<1>9. fs = [k \in 1..Len(ps) |-> [Finding(ps[k].id, a.path, 0) EXCEPT !.severity = ps[k].severity]]
  BY <1>7, <1>8 DEF FindingsBy
<1>10. fs = [k \in 1..Len(ps) |-> fs[k]]
  BY <1>9
<1>11. Sequence(fs) /\ Len(fs) = Len(ps)
  BY <1>7, <1>10, Indexed
<1>12. \A k \in 1..Len(ps) : fs[k].line = 0 /\ fs[k].rule = ps[k].id
  BY <1>9 DEF Finding
<1>13. LinkFindings(a) = fs
  BY <1>1, <1>2, <1>4, <1>8 DEF LinkFindings
<1>14. \A k \in 1..Len(ps) : ps[k].id \notin HitRules
  <2>1. RulesOK(rs)
    BY <1>1, CasesAssumption DEF CaseOK
  <2> QED
    BY <1>6, <2>1, Listing DEF RulesOK
<1> QED
  BY <1>11, <1>12, <1>13, <1>14, NoLineLocated DEF OtherRules

LEMMA FoundInit ==
  ASSUME Init
  PROVE  FoundOK
<1>1. findings = << >> /\ places = << >>
  BY DEF Init
<1>2. Sequence(<< >>) /\ Len(<< >>) = 0
  BY FewIds
<1> QED
  BY <1>1, <1>2 DEF FoundOK, AllLocated

LEMMA FoundNext ==
  ASSUME IInv, TextsOK, ListOK, FoundOK, pc = "static" => i \in Nat \ {0}, [Next]_vars
  PROVE  FoundOK'
<1>1. PathsStay /\ case \in Cases
  BY ListNext DEF ListOK
<1>2. AllLocated(findings, artifacts') /\ AllLocated(places, artifacts')
  BY <1>1, LocatedStays DEF FoundOK
<1>3. CASE Vanish \/ TakeSpecial \/ Measure \/ ReadFile \/ ReadFails
  <2>1. AllLocated(findings', artifacts')
    BY <1>2, <1>3, FoundWalked
  <2>2. places' = places
    BY <1>3 DEF Vanish, TakeSpecial, Measure, ReadFile, ReadFails, Unread
  <2> QED
    BY <1>2, <2>1, <2>2 DEF FoundOK
<1>4. CASE RevealArtifact
  <2>1. AllLocated(findings', artifacts')
    BY <1>1, <1>2, <1>4, FoundRevealed
  <2>2. places' = places
    BY <1>4 DEF RevealArtifact
  <2> QED
    BY <1>2, <2>1, <2>2 DEF FoundOK
<1>5. CASE ScanArtifact
  <2>1. pc = "static" /\ artifacts' = artifacts
    BY <1>5 DEF ScanArtifact
  <2> QED
    BY <1>5, <2>1, FoundScanned
<1>6. CASE ScanLink
  <2>1. PICK a : a = At
    OBVIOUS
  <2>2. (findings' = findings \/ findings' = findings \o LinkFindings(a)) /\ places' = places
    BY <1>6, <2>1 DEF ScanLink, Record, RecordAt
  <2>3. AllLocated(LinkFindings(a), artifacts')
    BY <1>1, LinksFound
  <2>4. AllLocated(findings', artifacts')
    BY <1>2, <2>2, <2>3, LocatedJoin
  <2> QED
    BY <1>2, <2>2, <2>4 DEF FoundOK
<1>7. CASE EndWalk \/ EndReveal \/ ParseArtifact \/ NoRuntime \/ EndAst \/ EndStatic
  <2>1. findings' = findings /\ places' = places
    BY <1>7 DEF EndWalk, EndReveal, ParseArtifact, NoRuntime, EndAst, EndStatic
  <2> QED
    BY <1>2, <2>1 DEF FoundOK
<1>8. CASE ContextEnds \/ Over \/ UNCHANGED vars
  <2>1. findings' = findings /\ places' = places
    BY <1>8 DEF ContextEnds, Over, vars
  <2> QED
    BY <1>2, <2>1 DEF FoundOK
<1> QED
  BY <1>3, <1>4, <1>5, <1>6, <1>7, <1>8 DEF Next

-----------------------------------------------------------------------------
(* The lines that are linked, and those that are not.                       *)

LEMMA LinksMore ==
  ASSUME NEW S, NEW T
  PROVE  /\ LinksOf(S \cup T) = LinksOf(S) \cup LinksOf(T)
         /\ UnlinkedBy(S \cup T) = UnlinkedBy(S) \cup UnlinkedBy(T)
<1>1. LinksOf(S \cup T) = LinksOf(S) \cup LinksOf(T)
  <2>1. \A x : x \in LinksOf(S \cup T) <=> x \in LinksOf(S) \/ x \in LinksOf(T)
    BY SMT DEF LinksOf
  <2> QED
    BY <2>1
<1>2. UnlinkedBy(S \cup T) = UnlinkedBy(S) \cup UnlinkedBy(T)
  <2>1. \A x : x \in UnlinkedBy(S \cup T) <=> x \in UnlinkedBy(S) \/ x \in UnlinkedBy(T)
    BY SMT DEF UnlinkedBy
  <2> QED
    BY <2>1
<1> QED
  BY <1>1, <1>2

LEMMA ScannedMore ==
  ASSUME NEW n \in Nat
  PROVE  Scanned(n + 1) = Scanned(n) \cup (IF Wanted(artifacts[n + 1]) THEN TracesOf(artifacts[n + 1]) ELSE {})
<1>1. \A j : j \in 1..(n + 1) <=> j \in 1..n \/ j = n + 1
  OBVIOUS
<1>2. PICK S, T, m : S = 1..n /\ T = 1..(n + 1) /\ m = n + 1
  OBVIOUS
<1>3. \A j : j \in T <=> j \in S \/ j = m
  BY <1>1, <1>2
<1>4. Scanned(n) = UNION {TracesOf(artifacts[k]) : k \in {j \in S : Wanted(artifacts[j])}}
  BY <1>2 DEF Scanned
<1>5. Scanned(m) = UNION {TracesOf(artifacts[k]) : k \in {j \in T : Wanted(artifacts[j])}}
  BY <1>2 DEF Scanned
<1>6. Scanned(m) = Scanned(n) \cup (IF Wanted(artifacts[m]) THEN TracesOf(artifacts[m]) ELSE {})
  <2>1. CASE Wanted(artifacts[m])
    <3>1. \A x : x \in Scanned(m) <=> x \in Scanned(n) \/ x \in TracesOf(artifacts[m])
      BY <2>1, <1>3, <1>4, <1>5, Zenon
    <3> QED
      BY <2>1, <3>1
  <2>2. CASE ~Wanted(artifacts[m])
    <3>1. \A x : x \in Scanned(m) <=> x \in Scanned(n)
      BY <2>2, <1>3, <1>4, <1>5, Zenon
    <3> QED
      BY <2>2, <3>1
  <2> QED
    BY <2>1, <2>2
<1> QED
  BY <1>2, <1>6

\* While static runs, all artifacts are files.
LEMMA TracesAre ==
  ASSUME ListOK, pc # "over", NEW a
  PROVE  Traceable(AllRules, a) = TracesOf(a)
<1>1. Sequence(artifacts) /\ \A k \in 1..Len(artifacts) : artifacts[k].kind = "content"
  BY DEF ListOK
<1>2. DOMAIN artifacts = 1..Len(artifacts)
  BY <1>1, Listing
<1>3. Files = ToSet(artifacts)
  BY <1>1, <1>2 DEF Files, ToSet
<1> QED
  BY <1>3 DEF Traceable, TracesOf

LEMMA LinkInit ==
  ASSUME Init
  PROVE  LinkInv
BY DEF Init, LinkInv, Complete

\* Matches with the same subjects make the same links.
LEMMA LinksBySubjects ==
  ASSUME \A m : Subjects(m)' = Subjects(m)
  PROVE  \A S : LinksOf(S)' = LinksOf(S) /\ UnlinkedBy(S)' = UnlinkedBy(S)
<1>1. \A S, x : x \in LinksOf(S)' <=> x \in LinksOf(S)
  BY DEF LinksOf
<1>2. \A S, x : x \in UnlinkedBy(S)' <=> x \in UnlinkedBy(S)
  BY DEF UnlinkedBy
<1> QED
  BY <1>1, <1>2

\* What the links are of, while case, artifacts and code stay.
LEMMA ScannedStays ==
  ASSUME case' = case, artifacts' = artifacts, code' = code
  PROVE  /\ \A n : Scanned(n)' = Scanned(n)
         /\ \A S : LinksOf(S)' = LinksOf(S) /\ UnlinkedBy(S)' = UnlinkedBy(S)
<1>1. Files' = Files /\ AllRules' = AllRules
  BY DEF Files, AllRules
<1>2. \A a : TracesOf(a)' = TracesOf(a)
  BY <1>1 DEF TracesOf
<1>3. \A n : Scanned(n)' = Scanned(n)
  <2>1. \A n, x : x \in Scanned(n)' <=> x \in Scanned(n)
    BY <1>2 DEF Scanned
  <2> QED
    BY <2>1
<1>4. \A m : Subjects(m)' = Subjects(m)
  BY DEF Subjects
<1>5. \A S : LinksOf(S)' = LinksOf(S) /\ UnlinkedBy(S)' = UnlinkedBy(S)
  BY <1>4, LinksBySubjects
<1> QED
  BY <1>3, <1>5

\* A step that leaves what is linked, and what it is linked by.
LEMMA LinkStays ==
  ASSUME LinkInv, UNCHANGED <<case, pc, i, artifacts, code, links, unlinked>>, Complete' => Complete
  PROVE  LinkInv'
BY ScannedStays DEF LinkInv, LinkedTo

\* Before static, nothing is linked.
LEMMA LinkUnlinked ==
  ASSUME links' = {}, unlinked' = {}, pc' \in {"walk", "reveal", "ast", "static", "over"},
         pc' = "static" => i' = 1 /\ Sequence(artifacts'), ~Complete'
  PROVE  LinkInv'
<1>1. CASE pc' = "static"
  <2>1. Len(artifacts') \in Nat
    BY <1>1, Listing
  <2>2. i' \in 1..(Len(artifacts') + 1) /\ i' - 1 = 0
    BY <1>1, <2>1
  <2>3. \A x : x \notin Scanned(0)'
    BY SMT DEF Scanned
  <2>4. Scanned(0)' = {}
    BY <2>3
  <2>5. (i - 1)' = 0
    BY <2>2
  <2>6. Scanned(i - 1)' = {}
    BY <2>4, <2>5
  <2>7. LinksOf({})' = {} /\ UnlinkedBy({})' = {}
    BY DEF LinksOf, UnlinkedBy
  <2> QED
    BY <1>1, <2>2, <2>6, <2>7 DEF LinkInv, LinkedTo
<1> QED
  BY <1>1 DEF LinkInv

LEMMA LayerEnds ==
  ASSUME NEW layer \in {"walk", "reveal", "ast"}, pc' = After(layer), ctx' = ctx, stop' = stop
  PROVE  ~Complete' /\ pc' \in {"reveal", "ast", "static", "over"}
BY DEF After, Order, Complete, Live

LEMMA LinkBefore ==
  ASSUME LinkInv, ListOK, ListOK',
         \/ Vanish \/ TakeSpecial \/ Measure \/ ReadFile \/ ReadFails \/ EndWalk
         \/ RevealArtifact \/ EndReveal \/ ParseArtifact \/ NoRuntime \/ EndAst
  PROVE  LinkInv'
<1>1. links' = links /\ unlinked' = unlinked /\ pc \in {"walk", "reveal", "ast"}
  BY DEF Vanish, TakeSpecial, Measure, ReadFile, ReadFails, EndWalk, RevealArtifact, EndReveal,
         ParseArtifact, NoRuntime, EndAst, Unread, linked, Walking, AtEntry
<1>2. links' = {} /\ unlinked' = {}
  BY <1>1 DEF LinkInv
<1>3. Sequence(artifacts')
  BY DEF ListOK
<1>4. CASE Vanish \/ TakeSpecial \/ Measure \/ ReadFile \/ ReadFails \/ RevealArtifact \/ ParseArtifact
  <2>1. pc' = pc
    BY <1>4 DEF Vanish, TakeSpecial, Measure, ReadFile, ReadFails, RevealArtifact, ParseArtifact
  <2>2. ~Complete'
    BY <1>1, <2>1 DEF Complete
  <2> QED
    BY <1>1, <1>2, <2>1, <2>2, LinkUnlinked
<1>5. CASE EndWalk \/ EndReveal \/ NoRuntime \/ EndAst
  <2>1. i' = 1 /\ ctx' = ctx /\ stop' = stop /\ \E layer \in {"walk", "reveal", "ast"} : pc' = After(layer)
    BY <1>5 DEF EndWalk, EndReveal, NoRuntime, EndAst
  <2>2. ~Complete' /\ pc' \in {"reveal", "ast", "static", "over"}
    BY <2>1, LayerEnds
  <2> QED
    BY <1>2, <1>3, <2>1, <2>2, LinkUnlinked
<1> QED
  BY <1>4, <1>5

LEMMA LinkScanned ==
  ASSUME LinkInv, ListOK, ScanArtifact \/ ScanLink
  PROVE  LinkInv'
<1>1. /\ pc = "static" /\ pc' = pc /\ i <= Len(artifacts) /\ i' = i + 1
      /\ case' = case /\ artifacts' = artifacts /\ code' = code
  BY DEF ScanArtifact, ScanLink
<1>2. i \in 1..(Len(artifacts) + 1) /\ links = LinksOf(Scanned(i - 1)) /\ unlinked = UnlinkedBy(Scanned(i - 1))
  BY <1>1 DEF LinkInv, LinkedTo
<1>3. Len(artifacts) \in Nat
  BY Listing DEF ListOK
<1>4. PICK n : n = i - 1
  OBVIOUS
<1>5. n \in Nat /\ i = n + 1 /\ i' \in 1..(Len(artifacts) + 1) /\ i' - 1 = n + 1
  BY <1>1, <1>2, <1>3, <1>4
<1>6. PICK a : a = At
  OBVIOUS
<1>7. a = artifacts[n + 1]
  BY <1>5, <1>6 DEF At
<1>8. PICK old, new : old = Scanned(n) /\ new = TracesOf(a)
  OBVIOUS
<1>9. Scanned(n + 1) = old \cup (IF Wanted(a) THEN new ELSE {})
  BY <1>5, <1>7, <1>8, ScannedMore
<1>10. links = LinksOf(old) /\ unlinked = UnlinkedBy(old)
  BY <1>2, <1>4, <1>8
<1>11. links' = LinksOf(Scanned(n + 1)) /\ unlinked' = UnlinkedBy(Scanned(n + 1))
  <2>1. CASE ScanArtifact
    <3>1. /\ Wanted(a) /\ links' = links \cup LinksOf(Traceable(AllRules, a))
          /\ unlinked' = unlinked \cup UnlinkedBy(Traceable(AllRules, a))
      BY <1>6, <2>1 DEF ScanArtifact, LinkAll, AllRules
    <3>2. Traceable(AllRules, a) = new
      BY <1>1, <1>8, TracesAre
    <3> QED
      BY <1>9, <1>10, <3>1, <3>2, LinksMore
  <2>2. CASE ScanLink
    <3>1. ~Wanted(a) /\ links' = links /\ unlinked' = unlinked
      BY <1>6, <2>2 DEF ScanLink, linked
    <3>2. Scanned(n + 1) = old
      BY <1>9, <3>1
    <3> QED
      BY <1>10, <3>1, <3>2
  <2> QED
    BY <2>1, <2>2
<1>12. Scanned(i - 1)' = Scanned(n + 1)
  <2>1. (i - 1)' = n + 1
    BY <1>5
  <2> QED
    BY <2>1, <1>1, ScannedStays
<1>13. LinkedTo(Scanned(i - 1))'
  BY <1>1, <1>11, <1>12, ScannedStays DEF LinkedTo
<1> QED
  BY <1>1, <1>5, <1>13 DEF LinkInv, Complete

\* The traces that are added are no file, and hold no text.
LEMMA BriefStays ==
  ASSUME ListOK, pc # "over", case' = case, code' = code,
         NEW a, a.kind = "brief", a.text = << >>, artifacts' = Append(artifacts, a)
  PROVE  /\ Scanned(Len(artifacts))' = Scanned(Len(artifacts))
         /\ \A S : LinksOf(S)' = LinksOf(S) /\ UnlinkedBy(S)' = UnlinkedBy(S)
<1>1. PICK s : s = artifacts
  OBVIOUS
<1>2. PICK n, t : n = Len(s) /\ t = Append(s, a)
  OBVIOUS
<1>3. Sequence(s)
  BY <1>1 DEF ListOK
<1>4. n \in Nat /\ DOMAIN s = 1..n
  BY <1>2, <1>3, Listing
<1>5. Len(t) = n + 1 /\ DOMAIN t = 1..(n + 1) /\ t[n + 1] = a /\ \A k \in 1..n : t[k] = s[k]
  BY <1>2, <1>3, Appended, Listing
<1>6. \A k : k \in 1..(n + 1) <=> k \in 1..n \/ k = n + 1
  BY <1>4
<1>7. artifacts' = t
  BY <1>1, <1>2
<1>8. \A x : x \in ToSet(t) <=> x \in ToSet(s) \/ x = a
  BY <1>4, <1>5, <1>6 DEF ToSet
<1>9. Files' = Files
  <2>1. Files = {x \in ToSet(s) : x.kind = "content"}
    BY <1>1 DEF Files
  <2>2. Files' = {x \in ToSet(t) : x.kind = "content"}
    BY <1>7 DEF Files
  <2> QED
    BY <2>1, <2>2, <1>8
<1>10. AllRules' = AllRules
  BY DEF AllRules
<1>11. \A x : TracesOf(x)' = TracesOf(x)
  BY <1>9, <1>10 DEF TracesOf
<1>12. ~Wanted(a)
  BY DEF Wanted
<1>13. Len(artifacts)' = n + 1
  BY <1>5, <1>7
<1>14. ASSUME NEW x PROVE x \in Scanned(Len(artifacts))' <=> x \in Scanned(Len(artifacts))
  <2>1. x \in Scanned(Len(artifacts)) <=> \E k \in 1..n : Wanted(s[k]) /\ x \in TracesOf(s[k])
    BY <1>1, <1>2 DEF Scanned
  <2>2. x \in Scanned(Len(artifacts))' <=> \E k \in 1..(n + 1) : Wanted(t[k]) /\ x \in TracesOf(t[k])
    BY <1>7, <1>11, <1>13 DEF Scanned
  <2>3. (\E k \in 1..(n + 1) : Wanted(t[k]) /\ x \in TracesOf(t[k]))
          <=> (\E k \in 1..n : Wanted(s[k]) /\ x \in TracesOf(s[k]))
    BY <1>5, <1>6, <1>12
  <2> QED
    BY <2>1, <2>2, <2>3
<1>15. \A m : Subjects(m)' = Subjects(m)
  <2>1. \A f : ~InComment(f, << >>)
    BY DEF InComment
  <2>2. ASSUME NEW f
        PROVE  (\A x \in ToSet(t) : x.path = f.file => ~InComment(f, x.text))
                 <=> (\A x \in ToSet(s) : x.path = f.file => ~InComment(f, x.text))
    BY <1>8, <2>1
  <2>3. ASSUME NEW f, NEW x PROVE x \in Subjects(f)' <=> x \in Subjects(f)
    <3>1. x \in Subjects(f) <=>
            \E v \in UNION code :
              /\ v.path = f.file /\ f.start \in v.from..(v.to - 1) /\ x = <<f.file, f.start>>
              /\ \A y \in ToSet(s) : y.path = f.file => ~InComment(f, y.text)
      BY <1>1 DEF Subjects
    <3>2. x \in Subjects(f)' <=>
            \E v \in UNION code :
              /\ v.path = f.file /\ f.start \in v.from..(v.to - 1) /\ x = <<f.file, f.start>>
              /\ \A y \in ToSet(t) : y.path = f.file => ~InComment(f, y.text)
      BY <1>7 DEF Subjects
    <3> QED
      BY <3>1, <3>2, <2>2
  <2>4. \A f, x : x \in Subjects(f)' <=> x \in Subjects(f)
    BY <2>3
  <2>5. ASSUME NEW m PROVE Subjects(m)' = Subjects(m)
    <3>1. PICK new, old : new = Subjects(m)' /\ old = Subjects(m)
      OBVIOUS
    <3>2. \A x : x \in new <=> x \in old
      BY <2>4, <3>1
    <3>3. new = old
      BY ONLY <3>2
    <3> QED
      BY <3>1, <3>3
  <2> QED
    BY <2>5
<1> QED
  BY <1>14, <1>15, LinksBySubjects

LEMMA LinkEnded ==
  ASSUME LinkInv, ListOK, EndStatic
  PROVE  LinkInv'
<1>1. PICK b : b = Artifact(<<"traces">>, "markdown", TRUE, 1, << >>, << >>)
  OBVIOUS
<1>2. PICK a : a = [b EXCEPT !.kind = "brief"]
  OBVIOUS
<1>3. /\ pc = "static" /\ (i > Len(artifacts) \/ ~Live) /\ pc' = "over"
      /\ case' = case /\ code' = code /\ ctx' = ctx /\ stop' = stop /\ links' = links /\ unlinked' = unlinked
      /\ artifacts' = Append(artifacts, a) \/ artifacts' = artifacts
  BY <1>1, <1>2 DEF EndStatic, linked
<1>4. a.kind = "brief" /\ a.text = << >>
  BY <1>1, <1>2 DEF Artifact
<1>5. CASE ~Live
  <2>1. ~Complete'
    BY <1>3, <1>5 DEF Complete, Live
  <2> QED
    BY <1>3, <2>1 DEF LinkInv
<1>6. CASE i > Len(artifacts)
  <2>1. i \in 1..(Len(artifacts) + 1) /\ LinkedTo(Scanned(i - 1))
    BY <1>3 DEF LinkInv
  <2>2. Len(artifacts) \in Nat
    BY Listing DEF ListOK
  <2>3. i - 1 = Len(artifacts)
    BY <1>6, <2>1, <2>2
  <2>4. LinkedTo(Scanned(Len(artifacts)))
    BY <2>1, <2>3
  <2>5. /\ Scanned(Len(artifacts))' = Scanned(Len(artifacts))
        /\ \A S : LinksOf(S)' = LinksOf(S) /\ UnlinkedBy(S)' = UnlinkedBy(S)
    BY <1>3, <1>4, BriefStays, ScannedStays
  <2>6. LinkedTo(Scanned(Len(artifacts)))'
    BY <1>3, <2>4, <2>5 DEF LinkedTo
  <2> QED
    BY <1>3, <2>6 DEF LinkInv
<1> QED
  BY <1>3, <1>5, <1>6

LEMMA LinkNext ==
  ASSUME LinkInv, IInv, TextsOK, ListOK, [Next]_vars
  PROVE  LinkInv'
<1>1. ListOK'
  BY ListNext
<1>2. CASE ContextEnds \/ Over \/ UNCHANGED vars
  <2>1. UNCHANGED <<case, pc, i, artifacts, code, links, unlinked>>
    BY <1>2 DEF ContextEnds, Over, vars, linked
  <2>2. Complete' => Complete
    BY <1>2 DEF ContextEnds, Over, vars, Complete, Live
  <2> QED
    BY <2>1, <2>2, LinkStays
<1> QED
  BY <1>1, <1>2, LinkBefore, LinkScanned, LinkEnded DEF Next

-----------------------------------------------------------------------------
(* What is linked to a line is what its matches are. *)

LEMMA LinkedAre ==
  ASSUME NEW f, NEW ms, LinkedTo(ms)
  PROVE  LET at == {m \in ms : Place(m) = Place(f)}
         IN  Linked(f) = IF \E m \in at : Subjects(m) = {} THEN {} ELSE UNION {Subjects(m) : m \in at}
<1>1. PICK p : p = Place(f)
  OBVIOUS
<1>2. Place(f) \in unlinked <=> \E m \in ms : Place(m) = p /\ Subjects(m) = {}
  BY <1>1 DEF LinkedTo, UnlinkedBy
<1>3. \A x : x \in {l.subject : l \in {m \in links : m.line = p}} <=>
                \E m \in ms : Place(m) = p /\ x \in Subjects(m)
  <2>1. \A l : l \in links <=> \E m \in ms : \E x \in Subjects(m) : l = [line |-> Place(m), subject |-> x]
    BY DEF LinkedTo, LinksOf
  <2>2. ASSUME NEW l \in links, l.line = p
        PROVE  \E m \in ms : Place(m) = p /\ l.subject \in Subjects(m)
    <3>1. PICK m \in ms : \E x \in Subjects(m) : l = [line |-> Place(m), subject |-> x]
      BY <2>1
    <3>2. PICK x \in Subjects(m) : l = [line |-> Place(m), subject |-> x]
      BY <3>1
    <3>3. l.line = Place(m) /\ l.subject = x
      BY ONLY <3>2
    <3> QED
      BY <2>2, <3>3
  <2>3. ASSUME NEW m \in ms, Place(m) = p, NEW x \in Subjects(m)
        PROVE  \E l \in links : l.line = p /\ l.subject = x
    <3>1. PICK l : l = [line |-> Place(m), subject |-> x]
      OBVIOUS
    <3>2. l.line = Place(m) /\ l.subject = x
      BY ONLY <3>1
    <3>3. l \in links
      BY <2>1, <3>1
    <3> QED
      BY <2>3, <3>2, <3>3
  <2>4. ASSUME NEW x
        PROVE  x \in {l.subject : l \in {m \in links : m.line = p}} <=>
                 \E l \in links : l.line = p /\ l.subject = x
    OBVIOUS
  <2> QED
    BY <2>2, <2>3, <2>4
<1>4. \A x : x \in UNION {Subjects(m) : m \in {y \in ms : Place(y) = p}} <=>
                \E m \in ms : Place(m) = p /\ x \in Subjects(m)
  OBVIOUS
<1>5. {l.subject : l \in {m \in links : m.line = p}} = UNION {Subjects(m) : m \in {y \in ms : Place(y) = p}}
  BY <1>3, <1>4
<1>6. Linked(f) = IF p \in unlinked THEN {} ELSE {l.subject : l \in {m \in links : m.line = p}}
  BY <1>1 DEF Linked
<1> QED
  BY <1>1, <1>2, <1>5, <1>6

LEMMA RulesJoined ==
  ASSUME case \in Cases
  PROVE  \A r \in ToSet(AllRules) : Len(r.patterns) \in Nat
<1>1. PICK rs, ps : rs = case.static /\ ps = case.placeOnly
  OBVIOUS
<1>2. /\ Sequence(rs) /\ \A k \in 1..Len(rs) : Len(rs[k].patterns) \in Nat
      /\ Sequence(ps) /\ \A k \in 1..Len(ps) : Len(ps[k].patterns) \in Nat
  BY <1>1, RulesAre
<1>3. PICK all, m, n : all = rs \o ps /\ m = Len(rs) /\ n = Len(ps)
  OBVIOUS
<1>4. /\ Sequence(all) /\ Len(all) = m + n
      /\ \A q \in 1..m : all[q] = rs[q]
      /\ \A j \in 1..n : all[m + j] = ps[j]
      /\ \A q \in 1..(m + n) : q \in 1..m \/ \E j \in 1..n : q = m + j
  <2>1. Sequence(rs) /\ Sequence(ps)
    BY <1>2
  <2>2. /\ Sequence(rs \o ps) /\ Len(rs \o ps) = Len(rs) + Len(ps)
        /\ \A q \in 1..Len(rs) : (rs \o ps)[q] = rs[q]
        /\ \A j \in 1..Len(ps) : (rs \o ps)[Len(rs) + j] = ps[j]
        /\ \A q \in 1..(Len(rs) + Len(ps)) :
             q \in 1..Len(rs) \/ \E j \in 1..Len(ps) : q = Len(rs) + j
    BY ONLY <2>1, Joining
  <2> QED
    BY ONLY <2>2, <1>3
<1>5. DOMAIN all = 1..(m + n)
  BY <1>4, Listing
<1>6. ASSUME NEW q \in 1..(m + n) PROVE Len(all[q].patterns) \in Nat
  <2>1. CASE q \in 1..m
    BY <2>1, <1>2, <1>3, <1>4
  <2>2. ASSUME NEW j \in 1..n, q = m + j PROVE Len(all[q].patterns) \in Nat
    BY <2>2, <1>2, <1>3, <1>4
  <2> QED
    BY <2>1, <2>2, <1>4
<1>7. AllRules = all
  BY <1>1, <1>3 DEF AllRules
<1> QED
  BY <1>5, <1>6, <1>7 DEF ToSet

LEMMA WholeAt ==
  ASSUME ListOK, FoundOK, LinkInv, Complete, NEW f \in ToSet(findings \o places), f.line > 0
  PROVE  LET a == CHOOSE b \in Files : b.path = f.file
             of == {r \in ToSet(AllRules) :
                      r.id = f.rule /\ r.traced /\ Applies(r, a) /\ Installed(Files, r, a)}
             at == {m \in UNION {ToSet(Matches(r, a, case.self)) : r \in of} : Place(m) = Place(f)}
         IN  code # {} => Linked(f) = IF \E m \in at : Subjects(m) = {} THEN {} ELSE UNION {Subjects(m) : m \in at}
<1> DEFINE a == CHOOSE b \in Files : b.path = f.file
           of == {r \in ToSet(AllRules) :
                    r.id = f.rule /\ r.traced /\ Applies(r, a) /\ Installed(Files, r, a)}
           at == {m \in UNION {ToSet(Matches(r, a, case.self)) : r \in of} : Place(m) = Place(f)}
<1> SUFFICES ASSUME code # {}
             PROVE  Linked(f) = IF \E m \in at : Subjects(m) = {} THEN {} ELSE UNION {Subjects(m) : m \in at}
  OBVIOUS
<1>12. ASSUME NEW m
       PROVE  m \in at <=> Place(m) = Place(f) /\ \E r \in ToSet(AllRules) :
                 /\ r.id = f.rule /\ r.traced /\ Applies(r, a) /\ Installed(Files, r, a)
                 /\ m \in ToSet(Matches(r, a, case.self))
  <2> HIDE DEF a
  <2> QED
    OBVIOUS
<1> HIDE DEF a, of, at
<1>1. PICK n : n = Len(artifacts)
  OBVIOUS
<1>2. /\ Sequence(artifacts) /\ case \in Cases
      /\ \A k \in 1..n : ArtifactOK(artifacts[k]) /\ InFolder(artifacts[k], k)
  BY <1>1 DEF ListOK
<1>3. n \in Nat /\ DOMAIN artifacts = 1..n
  BY <1>1, <1>2, Listing
<1>4. PICK k \in 1..n : artifacts[k].kind = "content" /\ artifacts[k].path = f.file
  <2>1. PICK all : all = findings \o places
    OBVIOUS
  <2>2. AllLocated(all, artifacts)
    BY <2>1, LocatedJoin DEF FoundOK
  <2>3. DOMAIN all = 1..Len(all)
    BY <2>2, Listing DEF AllLocated
  <2>4. PICK q \in 1..Len(all) : f = all[q]
    BY <2>1, <2>3 DEF ToSet
  <2>5. LocatedIn(f, artifacts)
    BY <2>2, <2>4 DEF AllLocated
  <2> QED
    BY <1>1, <2>5 DEF LocatedIn
<1>5. ASSUME NEW j \in 1..n, artifacts[j].kind = "content", artifacts[j].path = f.file PROVE j = k
  <2>1. /\ j \in 1..Len(Folder) /\ artifacts[j].path = Folder[j].path
        /\ k \in 1..Len(Folder) /\ artifacts[k].path = Folder[k].path
    BY <1>2, <1>4, <1>5 DEF InFolder
  <2> QED
    BY <2>1, <1>2, <1>4, <1>5, FolderDistinct
<1>6. a = artifacts[k]
  <2>1. \A b \in Files : b.path = f.file => b = artifacts[k]
    BY <1>3, <1>5 DEF Files, ToSet
  <2>2. artifacts[k] \in Files /\ artifacts[k].path = f.file
    BY <1>3, <1>4 DEF Files, ToSet
  <2> QED
    BY <2>1, <2>2 DEF a
<1>7. a.path = f.file /\ a.kind = "content" /\ ArtifactOK(a)
  BY <1>2, <1>4, <1>6
<1>8. PICK ms : ms = Scanned(n)
  OBVIOUS
<1>9. LinkedTo(ms)
  BY <1>1, <1>8 DEF LinkInv
<1>10. \A m : m \in ms <=> \E j \in 1..n : Wanted(artifacts[j]) /\ m \in TracesOf(artifacts[j])
  BY <1>8 DEF Scanned
<1>11. ASSUME NEW b, NEW m
       PROVE  m \in TracesOf(b) <=> \E r \in ToSet(AllRules) :
                 r.traced /\ Applies(r, b) /\ Installed(Files, r, b) /\ m \in ToSet(Matches(r, b, case.self))
  BY DEF TracesOf
<1>13. ASSUME NEW m, m \in ms, Place(m) = Place(f) PROVE m \in at
  <2>1. PICK j \in 1..n : Wanted(artifacts[j]) /\ m \in TracesOf(artifacts[j])
    BY <1>10, <1>13
  <2>2. PICK b : b = artifacts[j]
    OBVIOUS
  <2>3. PICK r \in ToSet(AllRules) :
          r.traced /\ Applies(r, b) /\ Installed(Files, r, b) /\ m \in ToSet(Matches(r, b, case.self))
    BY <1>11, <2>1, <2>2
  <2>4. m.rule = r.id /\ m.file = b.path
    BY <2>3, MatchNames
  <2>5. m.rule = f.rule /\ m.file = f.file
    BY <1>13 DEF Place
  <2>6. j = k
    BY <1>5, <2>1, <2>2, <2>4, <2>5 DEF Wanted
  <2>7. b = a
    BY <1>6, <2>2, <2>6
  <2> QED
    BY <1>12, <1>13, <2>3, <2>4, <2>5, <2>7
<1>14. ASSUME NEW m, m \in at PROVE m \in ms /\ Place(m) = Place(f)
  <2>1. PICK r \in ToSet(AllRules) :
          r.traced /\ Applies(r, a) /\ Installed(Files, r, a) /\ m \in ToSet(Matches(r, a, case.self))
    BY <1>12, <1>14
  <2>2. TextOf(a) # << >>
    <3>1. Len(r.patterns) \in Nat
      BY <1>2, <2>1, RulesJoined
    <3> QED
      BY <1>7, <2>1, <3>1, TextOfIs, MatchesType
  <2>3. a.type \in Textual
    BY <1>7, <2>2, TextOfIs
  <2>4. Wanted(a) /\ m \in TracesOf(a)
    BY <1>7, <1>11, <2>1, <2>3 DEF Wanted
  <2> QED
    BY <1>6, <1>10, <1>12, <1>14, <2>4
<1>15. at = {m \in ms : Place(m) = Place(f)}
  BY <1>13, <1>14
<1> QED
  BY <1>9, <1>15, LinkedAre

LEMMA LinksWhole ==
  ASSUME ListOK, FoundOK, LinkInv
  PROVE  LinkedIsWhole
BY WholeAt DEF LinkedIsWhole, AllRules

LEMMA IndexIs ==
  ASSUME LinkInv, ListOK
  PROVE  pc = "static" => i \in Nat \ {0}
<1> SUFFICES ASSUME pc = "static" PROVE i \in Nat \ {0}
  OBVIOUS
<1>1. i \in 1..(Len(artifacts) + 1)
  BY DEF LinkInv
<1>2. Len(artifacts) \in Nat
  BY Listing DEF ListOK
<1> QED
  BY <1>1, <1>2

\* A trace stands for every match of its rule at a line, or for none of them:
\* the layer that meets the matches artifact by artifact and rule by rule ends
\* with what all of them together link, for any folder, rules and limits.
THEOREM LinksAreWhole == Spec => []LinkedIsWhole
<1>1. Init => IInv /\ TextsOK /\ ListOK /\ FoundOK /\ LinkInv
  BY WalkInit, TextsInit, ListInit, FoundInit, LinkInit
<1>2. IInv /\ TextsOK /\ ListOK /\ FoundOK /\ LinkInv /\ [Next]_vars
        => (IInv /\ TextsOK /\ ListOK /\ FoundOK /\ LinkInv)'
  BY WalkNext, TextsNext, ListNext, FoundNext, IndexIs, LinkNext
<1>3. ListOK /\ FoundOK /\ LinkInv => LinkedIsWhole
  BY LinksWhole
<1> QED
  BY <1>1, <1>2, <1>3, PTL DEF Spec

-----------------------------------------------------------------------------
(* The clean text of an artifact, and the runes its bytes come from.         *)

\* The equation of Marking.
LEMMA MarkingCourse ==
  ASSUME NEW shifts, NEW clean, NEW source, NEW count, count \in Nat
  PROVE  /\ Marking(shifts, clean, source, count)[0] = shifts
         /\ \A k \in 1..count : Marking(shifts, clean, source, count)[k] = Mark(Marking(shifts, clean, source, count)[k - 1], clean + k - 1, source)
<1> DEFINE n == count
           first == shifts
           step(x, k) == Mark(x, clean + k - 1, source)
           law(f, m) == [k \in 0..m |-> IF k = 0 THEN first ELSE step(f[k - 1], k)]
           S == {m \in Nat : \E f : f = law(f, m)}
           course == CHOOSE f : f = law(f, n)
<1>1. n \in Nat /\ Marking(shifts, clean, source, count) = course
  BY DEF Marking
<1> HIDE DEF n, first, step
<1>2. 0 \in S
  <2>1. [k \in 0..0 |-> first] = law([k \in 0..0 |-> first], 0)
    OBVIOUS
  <2> QED
    BY <2>1
<1>3. ASSUME NEW m \in Nat, m \in S PROVE m + 1 \in S
  <2>1. PICK f : f = law(f, m)
    BY <1>3
  <2>2. PICK g : g = [k \in 0..(m + 1) |-> IF k = m + 1 THEN step(f[m], m + 1) ELSE f[k]]
    OBVIOUS
  <2>3. \A k \in 0..(m + 1) : g[k] = IF k = 0 THEN first ELSE step(g[k - 1], k)
    BY <2>1, <2>2
  <2>4. g = law(g, m + 1)
    BY <2>2, <2>3
  <2> QED
    BY <2>4
<1> HIDE DEF S
<1>4. course = law(course, n)
  BY <1>1, <1>2, <1>3, Induction DEF S
<1> HIDE DEF course
<1>5. course[0] = first /\ \A k \in 1..n : course[k] = step(course[k - 1], k)
  BY <1>1, <1>4
<1> QED
  BY <1>1, <1>5 DEF n, first, step

LEMMA NoMarks ==
  MarksOK(<< >>, 0) /\ Shift(<< >>) = 0 /\ \A x : Source(<< >>, x) = x
<1>1. Len(<< >>) = 0 /\ << >> \in Seq({}) /\ DOMAIN << >> = {}
  OBVIOUS
<1>2. Sequence(<< >>)
  BY <1>1, ListingOf
<1>3. \A k \in 1..0 : FALSE
  OBVIOUS
<1>4. MarksOK(<< >>, 0)
  BY <1>1, <1>2, <1>3 DEF MarksOK
<1>5. ASSUME NEW x PROVE Source(<< >>, x) = x
  BY <1>1 DEF Source, SourceBy
<1> QED
  BY <1>4, <1>5 DEF Shift

\* The greatest of numbers up to n is one of them.
LEMMA GreatestOf ==
  ASSUME NEW n \in Nat, NEW I \in SUBSET (1..n), I # {}
  PROVE  Greatest(I) \in I /\ \A k \in I : k <= Greatest(I)
<1>1. PICK J : J = {n - k : k \in I}
  OBVIOUS
<1>2. J \in SUBSET Nat /\ J # {}
  <2>1. \A j \in J : j \in Nat
    BY <1>1
  <2>2. PICK k : k \in I
    OBVIOUS
  <2>3. n - k \in J
    BY <1>1, <2>2
  <2> QED
    BY <2>1, <2>3
<1>3. PICK m \in J : \A j \in J : m <= j
  BY <1>2, LeastExists
<1>4. PICK k \in I : m = n - k
  BY <1>1
<1>5. ASSUME NEW q \in I PROVE q <= k
  <2>1. n - q \in J
    BY <1>1
  <2>2. m <= n - q /\ q \in Int /\ k \in Int
    BY <1>3, <2>1
  <2> QED
    BY <2>2, <1>4
<1>6. \E x \in I : \A y \in I : y <= x
  BY <1>5
<1> QED
  BY <1>6 DEF Greatest

LEMMA GreatestIs ==
  ASSUME NEW n \in Nat \ {0}
  PROVE  Greatest(1..n) = n
<1>1. n \in 1..n /\ 1..n \in SUBSET (1..n)
  OBVIOUS
<1>2. Greatest(1..n) \in 1..n /\ n <= Greatest(1..n)
  BY <1>1, GreatestOf
<1> QED
  BY <1>2

LEMMA FewerMarks ==
  ASSUME NEW shifts, NEW size \in Nat, MarksOK(shifts, size), NEW more \in Nat, size <= more
  PROVE  MarksOK(shifts, more)
<1>1. \A k \in 1..Len(shifts) : shifts[k].clean \in Nat /\ shifts[k].clean < size
  BY DEF MarksOK
<1>2. \A k \in 1..Len(shifts) : shifts[k].clean < more
  BY <1>1
<1> QED
  BY <1>2 DEF MarksOK

\* Past the last mark, offsets differ by its shift.
LEMMA SourcePast ==
  ASSUME NEW shifts, NEW size \in Nat, MarksOK(shifts, size), NEW x \in Nat, size <= x + 1
  PROVE  Source(shifts, x) = x + Shift(shifts) /\ Shift(shifts) \in Int
<1>1. PICK n : n = Len(shifts)
  OBVIOUS
<1>2. n \in Nat /\ DOMAIN shifts = 1..n
  BY <1>1, Listing DEF MarksOK
<1>3. \A k \in 1..n : shifts[k].clean \in Nat /\ shifts[k].source \in Nat /\ shifts[k].clean < size
  BY <1>1 DEF MarksOK
<1>4. PICK before : before = {k \in DOMAIN shifts : shifts[k].clean <= x}
  OBVIOUS
<1>5. before = 1..n
  <2>1. \A k \in 1..n : shifts[k].clean <= x
    BY <1>3
  <2> QED
    BY <1>2, <1>4, <2>1
<1>6. Source(shifts, x) = SourceBy(shifts, x, before)
  BY <1>4 DEF Source
<1>7. CASE n = 0
  <2>1. before = {} /\ shifts = << >>
    BY <1>1, <1>2, <1>5, <1>7 DEF MarksOK, Sequence
  <2>2. SourceBy(shifts, x, before) = x
    BY <2>1 DEF SourceBy
  <2>3. Shift(shifts) = 0
    BY <2>1 DEF Shift
  <2> QED
    BY <1>6, <2>2, <2>3
<1>8. CASE n # 0
  <2>1. n \in 1..n /\ n \in Nat \ {0}
    BY <1>2, <1>8
  <2>2. before # {} /\ Greatest(before) = n
    BY <1>5, <2>1, GreatestIs
  <2>3. PICK s : s = shifts[n]
    OBVIOUS
  <2>4. s.clean \in Nat /\ s.source \in Nat
    BY <1>3, <2>1, <2>3
  <2>5. SourceBy(shifts, x, before) = Shifted(x, s)
    BY <2>2, <2>3 DEF SourceBy
  <2>6. shifts # << >>
    BY <1>1, <1>8
  <2>7. Last(shifts) = s
    BY <1>1, <2>3 DEF Last
  <2>8. Shift(shifts) = s.source - s.clean
    BY <2>6, <2>7 DEF Shift
  <2>9. Shifted(x, s) = x + (s.source - s.clean)
    BY <2>4 DEF Shifted
  <2> QED
    BY <1>6, <2>4, <2>5, <2>8, <2>9
<1> QED
  BY <1>7, <1>8

\* A mark leaves what is before it alone, and sets what follows.
LEMMA MarkAdds ==
  ASSUME NEW shifts, NEW c \in Nat, MarksOK(shifts, c), NEW s \in Nat
  PROVE  /\ MarksOK(Mark(shifts, c, s), c + 1)
         /\ \A x \in Nat : x < c => Source(Mark(shifts, c, s), x) = Source(shifts, x)
         /\ \A x \in Nat : x >= c => Source(Mark(shifts, c, s), x) = x + (s - c)
<1>1. PICK n : n = Len(shifts)
  OBVIOUS
<1>2. Sequence(shifts) /\ n \in Nat /\ DOMAIN shifts = 1..n
  BY <1>1, Listing DEF MarksOK
<1>3. /\ \A k \in 1..n : shifts[k].clean \in Nat /\ shifts[k].source \in Nat /\ shifts[k].clean < c
      /\ \A j, k \in 1..n : j < k => shifts[j].clean < shifts[k].clean
  BY <1>1 DEF MarksOK
<1>4. CASE s - c = Shift(shifts)
  <2>1. Mark(shifts, c, s) = shifts
    BY <1>4 DEF Mark
  <2>2. MarksOK(shifts, c + 1)
    BY FewerMarks
  <2>3. \A x \in Nat : x >= c => Source(shifts, x) = x + (s - c)
    BY <1>4, SourcePast
  <2> QED
    BY <2>1, <2>2, <2>3
<1>5. CASE s - c # Shift(shifts)
  <2>1. PICK e : e = [clean |-> c, source |-> s]
    OBVIOUS
  <2>2. PICK m : m = Append(shifts, e)
    OBVIOUS
  <2>3. Mark(shifts, c, s) = m
    BY <1>5, <2>1, <2>2 DEF Mark
  <2>4. Sequence(m) /\ Len(m) = n + 1
    BY <1>1, <1>2, <2>2, Appended
  <2>5. m[n + 1] = e /\ \A k \in 1..n : m[k] = shifts[k]
    BY <1>1, <1>2, <2>2, Appended
  <2>6. DOMAIN m = 1..(n + 1)
    BY <2>4, Listing
  <2>7. e.clean = c /\ e.source = s
    BY <2>1
  <2>8. ASSUME NEW k \in 1..(n + 1)
        PROVE  m[k].clean \in Nat /\ m[k].source \in Nat /\ m[k].clean < c + 1
    <3>1. CASE k \in 1..n
      BY <3>1, <1>3, <2>5
    <3>2. CASE k = n + 1
      BY <3>2, <2>5, <2>7
    <3> QED
      BY <1>2, <3>1, <3>2
  <2>9. ASSUME NEW j \in 1..(n + 1), NEW k \in 1..(n + 1), j < k PROVE m[j].clean < m[k].clean
    <3>1. j \in 1..n
      BY <1>2, <2>9
    <3>2. CASE k \in 1..n
      BY <3>1, <3>2, <1>3, <2>5, <2>9
    <3>3. CASE k = n + 1
      BY <3>1, <3>3, <1>3, <2>5, <2>7
    <3> QED
      BY <1>2, <3>2, <3>3
  <2>10. MarksOK(m, c + 1)
    BY <2>4, <2>8, <2>9 DEF MarksOK
  <2>11. ASSUME NEW x \in Nat, x < c PROVE Source(m, x) = Source(shifts, x)
    <3>1. PICK before : before = {k \in DOMAIN shifts : shifts[k].clean <= x}
      OBVIOUS
    <3>2. PICK now : now = {k \in DOMAIN m : m[k].clean <= x}
      OBVIOUS
    <3>3. now = before
      <4>1. ASSUME NEW k PROVE k \in now <=> k \in before
        <5>1. k \in now <=> k \in 1..(n + 1) /\ m[k].clean <= x
          BY <3>2, <2>6
        <5>2. k \in before <=> k \in 1..n /\ shifts[k].clean <= x
          BY <3>1, <1>2
        <5>3. k = n + 1 => ~(m[k].clean <= x)
          BY <2>5, <2>7, <2>11
        <5>4. k \in 1..(n + 1) <=> k \in 1..n \/ k = n + 1
          BY <1>2
        <5> QED
          BY <5>1, <5>2, <5>3, <5>4, <2>5
      <4> QED
        BY <4>1
    <3>4. before \in SUBSET (1..n)
      BY <3>1, <1>2
    <3>5. SourceBy(m, x, before) = SourceBy(shifts, x, before)
      <4>1. CASE before = {}
        BY <4>1 DEF SourceBy
      <4>2. CASE before # {}
        <5>1. Greatest(before) \in 1..n
          BY <1>2, <3>4, <4>2, GreatestOf
        <5>2. m[Greatest(before)] = shifts[Greatest(before)]
          BY <2>5, <5>1
        <5> QED
          BY <4>2, <5>2 DEF SourceBy
      <4> QED
        BY <4>1, <4>2
    <3>6. Source(m, x) = SourceBy(m, x, now) /\ Source(shifts, x) = SourceBy(shifts, x, before)
      BY <3>1, <3>2 DEF Source
    <3> QED
      BY <3>3, <3>5, <3>6
  <2>12. ASSUME NEW x \in Nat, x >= c PROVE Source(m, x) = x + (s - c)
    <3>1. c + 1 \in Nat /\ c + 1 <= x + 1
      BY <2>12
    <3>2. Source(m, x) = x + Shift(m)
      BY <2>10, <3>1, SourcePast
    <3>3. m # << >> /\ Last(m) = e
      <4>1. Len(m) # 0
        BY <1>2, <2>4
      <4>2. m # << >>
        BY <4>1
      <4> QED
        BY <4>2, <2>4, <2>5 DEF Last
    <3>4. Shift(m) = s - c
      BY <3>3, <2>7 DEF Shift
    <3> QED
      BY <3>2, <3>4
  <2> QED
    BY <2>3, <2>10, <2>11, <2>12
<1> QED
  BY <1>4, <1>5

\* Marks for n bytes lead each of them to the same place.
LEMMA MarksAdd ==
  ASSUME NEW shifts, NEW c \in Nat, MarksOK(shifts, c), NEW s \in Nat, NEW n \in Nat \ {0}
  PROVE  /\ MarksOK(MarkAll(shifts, c, s, n), c + n)
         /\ \A x \in Nat : x < c => Source(MarkAll(shifts, c, s, n), x) = Source(shifts, x)
         /\ \A x \in Nat : c <= x /\ x < c + n => Source(MarkAll(shifts, c, s, n), x) = s
         /\ \A x \in Nat : c + n <= x + 1 =>
              Source(MarkAll(shifts, c, s, n), x) = x + (s - (c + n - 1))
<1>1. PICK f : f = Marking(shifts, c, s, n)
  OBVIOUS
<1>2. f[0] = shifts /\ \A k \in 1..n : f[k] = Mark(f[k - 1], c + k - 1, s)
  BY <1>1, MarkingCourse
<1> DEFINE good(k) ==
             /\ MarksOK(f[k], c + k)
             /\ \A x \in Nat : x < c => Source(f[k], x) = Source(shifts, x)
             /\ \A x \in Nat : c <= x /\ x < c + k => Source(f[k], x) = s
             /\ k # 0 => \A x \in Nat : c + k <= x + 1 => Source(f[k], x) = x + (s - (c + k - 1))
           T == {k \in Nat : good(k)}
<1>3. 0 \in T
  <2>1. MarksOK(f[0], c + 0)
    BY <1>2
  <2>2. \A x \in Nat : ~(c <= x /\ x < c + 0)
    OBVIOUS
  <2> QED
    BY <1>2, <2>1, <2>2
<1>4. ASSUME NEW k \in 1..n, k - 1 \in T PROVE k \in T
  <2>1. PICK g, b : g = f[k - 1] /\ b = c + k - 1
    OBVIOUS
  <2>2. b \in Nat /\ b = c + (k - 1) /\ b + 1 = c + k /\ k \in Nat /\ k # 0 /\ c <= b
    BY <2>1
  <2>3. good(k - 1)
    BY <1>4
  <2>4. /\ MarksOK(g, b)
        /\ \A x \in Nat : x < c => Source(g, x) = Source(shifts, x)
        /\ \A x \in Nat : c <= x /\ x < b => Source(g, x) = s
    BY <2>1, <2>2, <2>3
  <2>5. f[k] = Mark(g, b, s)
    BY <1>2, <2>1
  <2>6. PICK h : h = Mark(g, b, s)
    OBVIOUS
  <2>7. /\ MarksOK(h, b + 1)
        /\ \A x \in Nat : x < b => Source(h, x) = Source(g, x)
        /\ \A x \in Nat : x >= b => Source(h, x) = x + (s - b)
    <3>1. b \in Nat /\ MarksOK(g, b) /\ s \in Nat
      BY <2>2, <2>4
    <3>2. /\ MarksOK(Mark(g, b, s), b + 1)
          /\ \A x \in Nat : x < b => Source(Mark(g, b, s), x) = Source(g, x)
          /\ \A x \in Nat : x >= b => Source(Mark(g, b, s), x) = x + (s - b)
      BY ONLY <3>1, MarkAdds
    <3> QED
      BY ONLY <2>6, <3>2
  <2>8. MarksOK(h, c + k)
    BY <2>2, <2>7
  <2>9. \A x \in Nat : x < c => Source(h, x) = Source(shifts, x)
    BY <2>2, <2>4, <2>7
  <2>10. ASSUME NEW x \in Nat, c <= x, x < c + k PROVE Source(h, x) = s
    <3>1. CASE x < b
      BY <3>1, <2>4, <2>7, <2>10
    <3>2. CASE x = b
      <4>1. Source(h, x) = b + (s - b)
        BY <3>2, <2>2, <2>7
      <4> QED
        BY <4>1, <2>2
    <3> QED
      BY <2>2, <2>10, <3>1, <3>2
  <2>11. ASSUME NEW x \in Nat, c + k <= x + 1 PROVE Source(h, x) = x + (s - (c + k - 1))
    <3>1. x >= b
      BY <2>2, <2>11
    <3> QED
      BY <3>1, <2>1, <2>7
  <2>12. f[k] = h
    BY <2>5, <2>6
  <2> HIDE DEF T
  <2>13. good(k)
    BY <2>8, <2>9, <2>10, <2>11, <2>12
  <2> HIDE DEF good
  <2> QED
    BY <2>2, <2>13 DEF T
<1> HIDE DEF T
<1>5. \A k \in 0..n : k \in T
  BY <1>3, <1>4, UpTo
<1>6. good(n)
  BY <1>5 DEF T
<1>7. MarkAll(shifts, c, s, n) = f[n]
  BY <1>1 DEF MarkAll
<1> QED
  BY <1>6, <1>7

\* The offsets of two texts, one after the other.
LEMMA OffsetsJoin ==
  ASSUME NEW a, IsText(a), NEW b, IsText(b)
  PROVE  /\ IsText(a \o b) /\ Len(a \o b) = Len(a) + Len(b)
         /\ \A k \in 0..Len(a) : Offsets(a \o b)[k] = Offsets(a)[k]
         /\ \A k \in 0..Len(b) : Offsets(a \o b)[Len(a) + k] = Size(a) + Offsets(b)[k]
<1>1. PICK t, m, n : t = a \o b /\ m = Len(a) /\ n = Len(b)
  OBVIOUS
<1>2. m \in Nat /\ n \in Nat /\ Sequence(a) /\ Sequence(b)
  BY <1>1, ListingOf DEF IsText
<1>3. IsText(t)
  BY <1>1 DEF IsText
<1>4. /\ Len(t) = m + n
      /\ \A q \in 1..m : t[q] = a[q]
      /\ \A j \in 1..n : t[m + j] = b[j]
  BY <1>1, <1>2, Joining
<1>5. PICK f, g, h : f = Offsets(t) /\ g = Offsets(a) /\ h = Offsets(b)
  OBVIOUS
<1>6. f[0] = 0 /\ \A k \in 1..(m + n) : f[k] = f[k - 1] + Runes[t[k]].size
  <2>1. Len(t) \in Nat
    BY <1>2, <1>4
  <2> QED
    BY <2>1, <1>4, <1>5, OffsetsCourse
<1>7. g[0] = 0 /\ \A k \in 1..m : g[k] = g[k - 1] + Runes[a[k]].size
  BY <1>1, <1>2, <1>5, OffsetsCourse
<1>8. h[0] = 0 /\ \A k \in 1..n : h[k] = h[k - 1] + Runes[b[k]].size
  BY <1>1, <1>2, <1>5, OffsetsCourse
<1>9. /\ \A k \in 0..m : g[k] \in Nat
      /\ \A k \in 0..n : h[k] \in Nat
      /\ \A k \in 1..n : Runes[b[k]].size \in Nat
  <2>1. \A k \in 1..n : b[k] \in DOMAIN Runes
    BY <1>1 DEF IsText
  <2>2. \A k \in 1..n : Runes[b[k]].size \in Nat
    BY <2>1, RunesAssumption
  <2> QED
    BY <2>2, <1>1, <1>5, OffsetsGrow
<1> DEFINE S == {k \in Nat : f[k] = g[k]}
<1>10. \A k \in 0..m : k \in S
  <2>1. 0 \in S
    BY <1>6, <1>7
  <2>2. ASSUME NEW k \in 1..m, k - 1 \in S PROVE k \in S
    <3>1. k \in 1..(m + n) /\ k \in Nat
      BY <1>2
    <3>2. f[k] = f[k - 1] + Runes[t[k]].size /\ g[k] = g[k - 1] + Runes[a[k]].size /\ t[k] = a[k]
      BY <3>1, <1>4, <1>6, <1>7
    <3>3. f[k - 1] = g[k - 1]
      BY <2>2
    <3> QED
      BY <3>1, <3>2, <3>3
  <2> HIDE DEF S
  <2> QED
    BY <1>2, <2>1, <2>2, UpTo
<1>11. \A k \in 0..m : f[k] = g[k]
  BY <1>10
<1>12. Size(a) = g[m]
  BY <1>1, <1>5 DEF Size
<1> DEFINE T == {k \in Nat : f[m + k] = g[m] + h[k]}
<1>13. \A k \in 0..n : k \in T
  <2>1. 0 \in T
    <3>1. m \in 0..m /\ m + 0 = m
      BY <1>2
    <3>2. f[m] = g[m] /\ g[m] \in Nat
      BY <3>1, <1>9, <1>11
    <3> QED
      BY <3>1, <3>2, <1>8
  <2>2. ASSUME NEW k \in 1..n, k - 1 \in T PROVE k \in T
    <3>1. m + k \in 1..(m + n) /\ k \in Nat /\ (m + k) - 1 = m + (k - 1) /\ m \in 0..m /\ k - 1 \in 0..n
      BY <1>2
    <3>2. f[m + k] = f[(m + k) - 1] + Runes[t[m + k]].size
      BY <3>1, <1>6
    <3>3. f[m + (k - 1)] = g[m] + h[k - 1]
      BY <2>2
    <3>4. t[m + k] = b[k] /\ h[k] = h[k - 1] + Runes[b[k]].size
      BY <1>4, <1>8
    <3>5. PICK u, v : u = f[m + (k - 1)] /\ v = f[m + k]
      OBVIOUS
    <3>6. v = u + Runes[b[k]].size
      BY <3>1, <3>2, <3>4, <3>5
    <3>7. g[m] \in Nat /\ h[k - 1] \in Nat /\ Runes[b[k]].size \in Nat
      BY <3>1, <1>9
    <3>8. v = g[m] + h[k]
      BY <3>3, <3>4, <3>5, <3>6, <3>7
    <3> QED
      BY <3>1, <3>5, <3>8
  <2> HIDE DEF T
  <2> QED
    BY <1>2, <2>1, <2>2, UpTo
<1>14. \A k \in 0..n : f[m + k] = g[m] + h[k]
  BY <1>13
<1> QED
  BY <1>1, <1>3, <1>4, <1>5, <1>11, <1>12, <1>14

LEMMA SizeJoin ==
  ASSUME NEW a, IsText(a), NEW b, IsText(b)
  PROVE  Size(a \o b) = Size(a) + Size(b)
<1>1. PICK t : t = a \o b
  OBVIOUS
<1>2. Len(b) \in Nat
  BY DEF IsText
<1>3. Len(b) \in 0..Len(b)
  BY <1>2
<1>4. Offsets(t)[Len(a) + Len(b)] = Size(a) + Offsets(b)[Len(b)] /\ Len(t) = Len(a) + Len(b)
  BY <1>1, <1>3, OffsetsJoin
<1> QED
  BY <1>1, <1>4 DEF Size

LEMMA SizeNone ==
  Size(<< >>) = 0 /\ IsText(<< >>)
<1>1. Len(<< >>) = 0 /\ 0 \in Nat
  OBVIOUS
<1>2. Offsets(<< >>)[0] = 0
  BY <1>1, OffsetsCourse
<1> QED
  BY <1>1, <1>2, NoText DEF Size

LEMMA SizeOne ==
  ASSUME NEW r \in DOMAIN Runes
  PROVE  Size(<<r>>) = Runes[r].size /\ IsText(<<r>>)
<1>1. PICK t : t = <<r>>
  OBVIOUS
<1>2. Len(t) = 1 /\ t[1] = r /\ t \in Seq(DOMAIN Runes)
  BY <1>1
<1>3. Offsets(t)[0] = 0 /\ \A k \in 1..Len(t) : Offsets(t)[k] = Offsets(t)[k - 1] + Runes[t[k]].size
  BY <1>2, OffsetsCourse
<1>4. Offsets(t)[1] = Offsets(t)[1 - 1] + Runes[r].size
  BY <1>2, <1>3
<1>5. Runes[r].size \in Nat
  BY RunesAssumption
<1>6. Offsets(t)[1] = Runes[r].size
  BY <1>3, <1>4, <1>5
<1> QED
  BY <1>1, <1>2, <1>6 DEF Size, IsText

LEMMA SizeSome ==
  ASSUME NEW s, IsText(s), s # << >>
  PROVE  Size(s) \in Nat \ {0}
<1>1. PICK n : n = Len(s)
  OBVIOUS
<1>2. n \in Nat \ {0}
  BY <1>1 DEF IsText
<1>3. n \in 1..n /\ n \in 0..n /\ n - 1 \in 0..n
  BY <1>2
<1>4. PICK f : f = Offsets(s)
  OBVIOUS
<1>5. f[n] \in Nat /\ f[n - 1] \in Nat /\ f[n - 1] < f[n]
  BY <1>1, <1>3, <1>4, OffsetsGrow
<1> QED
  BY <1>1, <1>4, <1>5 DEF Size

\* The marks a write adds.
LEMMA WriteMarks ==
  ASSUME NEW shifts, NEW c \in Nat, MarksOK(shifts, c), NEW at \in Nat,
         NEW r \in DOMAIN Runes, NEW s, IsText(s),
         NEW new, new = MarkAll(shifts, c, at, MarkedBytes(s, r)), NEW end, end = c + Size(s)
  PROVE  /\ MarksOK(new, end)
         /\ \A x \in Nat : x < c => Source(new, x) = Source(shifts, x)
         /\ \A x \in Nat : c <= x /\ x < end =>
              at <= Source(new, x) /\ Source(new, x) < at + Runes[r].size
         /\ s = << >> => new = shifts /\ end = c
         /\ s # << >> => Source(new, end) <= at + Runes[r].size
<1>1. PICK size : size = Runes[r].size
  OBVIOUS
<1>2. size \in Nat \ {0}
  BY <1>1, RunesAssumption
<1>3. CASE s = << >>
  <2>1. Size(s) = 0 /\ s # <<r>>
    BY <1>3, SizeNone
  <2>2. MarkedBytes(s, r) = 0
    BY <2>1 DEF MarkedBytes
  <2>3. Marking(shifts, c, at, 0)[0] = shifts
    BY MarkingCourse
  <2>4. new = shifts
    BY <2>2, <2>3 DEF MarkAll
  <2>5. end = c /\ \A x \in Nat : ~(c <= x /\ x < c)
    BY <2>1
  <2> QED
    BY <1>3, <2>4, <2>5
<1>4. CASE s = <<r>>
  <2>1. Size(s) = size /\ s # << >>
    BY <1>1, <1>4, SizeOne
  <2>2. MarkedBytes(s, r) = 1
    BY <1>4 DEF MarkedBytes
  <2>3. new = MarkAll(shifts, c, at, 1) /\ 1 \in Nat \ {0}
    BY <2>2
  <2>4. /\ MarksOK(new, c + 1)
        /\ \A x \in Nat : x < c => Source(new, x) = Source(shifts, x)
        /\ \A x \in Nat : c + 1 <= x + 1 => Source(new, x) = x + (at - (c + 1 - 1))
    <3>1. PICK one : one = 1
      OBVIOUS
    <3>2. new = MarkAll(shifts, c, at, one) /\ one \in Nat \ {0}
      BY <2>3, <3>1
    <3>3. /\ MarksOK(new, c + one)
          /\ \A x \in Nat : x < c => Source(new, x) = Source(shifts, x)
          /\ \A x \in Nat : c + one <= x + 1 => Source(new, x) = x + (at - (c + one - 1))
      BY ONLY <3>2, MarksAdd, c \in Nat, at \in Nat, MarksOK(shifts, c)
    <3> QED
      BY <3>1, <3>3
  <2>5. end \in Nat /\ c + 1 \in Nat /\ c + 1 <= end /\ end = c + size
    BY <1>2, <2>1
  <2>6. MarksOK(new, end)
    BY <2>4, <2>5, FewerMarks
  <2>7. \A x \in Nat : c <= x => Source(new, x) = at + (x - c)
    BY <2>4
  <2>8. \A x \in Nat : c <= x /\ x < end => at <= Source(new, x) /\ Source(new, x) < at + size
    BY <1>2, <2>5, <2>7
  <2>9. Source(new, end) <= at + size
    BY <1>2, <2>5, <2>7
  <2> QED
    BY <1>1, <2>1, <2>4, <2>6, <2>8, <2>9
<1>5. CASE s # << >> /\ s # <<r>>
  <2>1. PICK n : n = Size(s)
    OBVIOUS
  <2>2. n \in Nat \ {0}
    BY <1>5, <2>1, SizeSome
  <2>3. new = MarkAll(shifts, c, at, n) /\ end = c + n
    BY <1>5, <2>1 DEF MarkedBytes
  <2>4. /\ MarksOK(new, c + n)
        /\ \A x \in Nat : x < c => Source(new, x) = Source(shifts, x)
        /\ \A x \in Nat : c <= x /\ x < c + n => Source(new, x) = at
        /\ \A x \in Nat : c + n <= x + 1 => Source(new, x) = x + (at - (c + n - 1))
    BY ONLY <2>2, <2>3, MarksAdd, c \in Nat, at \in Nat, MarksOK(shifts, c)
  <2>5. \A x \in Nat : c <= x /\ x < end => at <= Source(new, x) /\ Source(new, x) < at + size
    BY <1>2, <2>3, <2>4
  <2>6. Source(new, end) <= at + size
    <3>1. end \in Nat /\ c + n <= end + 1
      BY <2>2, <2>3
    <3>2. Source(new, end) = end + (at - (c + n - 1))
      BY <2>4, <3>1
    <3> QED
      BY <3>2, <1>2, <2>2, <2>3
  <2> QED
    BY <1>1, <1>5, <2>3, <2>4, <2>5, <2>6
<1> QED
  BY <1>3, <1>4, <1>5

LEMMA WriteIs ==
  ASSUME NEW p, PassIs(p), NEW s \in Seq(DOMAIN Runes), NEW r \in DOMAIN Runes, NEW at \in Nat
  PROVE  PassIs(Write(p, s, at, r)) /\ Wrote(p, Write(p, s, at, r), s, r, at)
<1>1. PICK out, new : out = p.out \o s /\ new = MarkAll(p.shifts, p.size, at, MarkedBytes(s, r))
  OBVIOUS
<1>2. PICK end : end = p.size + Size(s)
  OBVIOUS
<1>3. PICK w : w = [p EXCEPT !.shifts = new, !.out = out, !.size = end]
  OBVIOUS
<1>4. Write(p, s, at, r) = w
  BY <1>1, <1>2, <1>3 DEF Write
<1>5. DOMAIN p = {"out", "size", "shifts", "hits", "until", "swapped"}
  BY DEF PassIs, PassOK
<1>6. w.out = out /\ w.size = end /\ w.shifts = new
  BY ONLY <1>3, <1>5
<1>7. IsText(s) /\ Sequence(s)
  BY ListingOf DEF IsText
<1>8. PassOK(w)
  BY <1>4, <1>7, WrittenOK DEF PassIs
<1>9. IsText(out) /\ Size(out) = end
  BY <1>1, <1>2, <1>7, OffsetsJoin, SizeJoin DEF PassIs
<1>10. p.size \in Nat /\ MarksOK(p.shifts, p.size)
  BY SizeType DEF PassIs
<1>11. /\ MarksOK(new, end)
       /\ \A x \in Nat : x < p.size => Source(new, x) = Source(p.shifts, x)
       /\ \A x \in Nat : p.size <= x /\ x < end =>
            at <= Source(new, x) /\ Source(new, x) < at + Runes[r].size
       /\ s = << >> => new = p.shifts /\ end = p.size
       /\ s # << >> => Source(new, end) <= at + Runes[r].size
  BY <1>1, <1>2, <1>7, <1>10, WriteMarks
<1>12. PassIs(w)
  BY <1>6, <1>8, <1>9, <1>11 DEF PassIs
<1>13. Wrote(p, w, s, r, at)
  BY <1>1, <1>6, <1>11 DEF Wrote
<1> QED
  BY <1>4, <1>12, <1>13

LEMMA AlikeIs ==
  ASSUME NEW p, NEW q, Alike(p, q), PassIs(p), PassOK(q)
  PROVE  PassIs(q)
BY DEF Alike, PassIs

LEMMA AlikeWrote ==
  ASSUME NEW p, NEW q, NEW s, NEW r, NEW at, NEW x, NEW y,
         Alike(p, x), Alike(y, q), Wrote(x, y, s, r, at)
  PROVE  Wrote(p, q, s, r, at)
BY DEF Alike, Wrote

LEMMA SwapAlike ==
  ASSUME NEW p, PassIs(p), NEW t, NEW k, NEW start
  PROVE  PassIs(Swap(p, t, k, start)) /\ Alike(p, Swap(p, t, k, start))
<1>1. PICK e : e = WordEnd(t, k)
  OBVIOUS
<1>2. PICK d : d = Disguised(SubSeq(t, start, e - 1))
  OBVIOUS
<1>3. PICK w : w = [p EXCEPT !.until = e, !.swapped = d]
  OBVIOUS
<1>4. DOMAIN p = {"out", "size", "shifts", "hits", "until", "swapped"} /\ PassOK(p)
  BY DEF PassIs, PassOK
<1>5. w.out = p.out /\ w.size = p.size /\ w.shifts = p.shifts
  BY ONLY <1>3, <1>4
<1>6. Alike(p, w) /\ Alike(p, p)
  BY <1>5 DEF Alike
<1>7. Swap(p, t, k, start) = p \/ Swap(p, t, k, start) = w
  BY <1>1, <1>2, <1>3, Zenon DEF Swap, Judged
<1>8. PassOK(Swap(p, t, k, start))
  BY <1>4, SwappedOK
<1>9. Alike(p, Swap(p, t, k, start))
  BY <1>6, <1>7, Zenon
<1> QED
  BY <1>8, <1>9, AlikeIs

LEMMA FoldWrote ==
  ASSUME NEW q, PassIs(q), NEW r \in DOMAIN Runes, NEW k, NEW at \in Nat, NEW swaps
  PROVE  /\ PassIs(Fold(q, r, k, at, swaps))
         /\ \E s \in Seq(DOMAIN Runes) : s \in Images(r) /\ Wrote(q, Fold(q, r, k, at, swaps), s, r, at)
<1>1. PICK s : s = IF swaps THEN Runes[r].mapped ELSE Runes[r].folded
  OBVIOUS
<1>2. s \in Seq(DOMAIN Runes) /\ s \in Images(r)
  BY <1>1, RunesAssumption DEF Images
<1>3. PICK w : w = Write(q, s, at, r)
  OBVIOUS
<1>4. PassIs(w) /\ Wrote(q, w, s, r, at)
  BY <1>2, <1>3, WriteIs
<1>5. PICK hits : hits = IF swaps THEN Add(w.hits, LookAlike, k) ELSE w.hits
  OBVIOUS
<1>6. PICK f : f = [w EXCEPT !.hits = hits]
  OBVIOUS
<1>7. DOMAIN w = {"out", "size", "shifts", "hits", "until", "swapped"}
  BY <1>4 DEF PassIs, PassOK
<1>8. f.out = w.out /\ f.size = w.size /\ f.shifts = w.shifts
  BY ONLY <1>6, <1>7
<1>9. Alike(w, f) /\ Alike(q, q)
  BY <1>8 DEF Alike
<1>10. Fold(q, r, k, at, swaps) = f
  BY <1>1, <1>3, <1>5, <1>6, Zenon DEF Fold
<1>11. PassOK(f)
  BY <1>10, FoldedOK DEF PassIs
<1>12. PassIs(f)
  BY <1>4, <1>9, <1>11, AlikeIs
<1>13. Wrote(q, f, s, r, at)
  BY ONLY <1>4, <1>9, AlikeWrote
<1> QED
  BY <1>2, <1>10, <1>12, <1>13

\* One more rune is dropped, or written as itself, folded or mapped.
LEMMA RuneWrote ==
  ASSUME NEW p, PassIs(p), NEW t, IsText(t), NEW k \in 1..Len(t)
  PROVE  /\ PassIs(NormalizeRune(p, t, k))
         /\ \E s \in Seq(DOMAIN Runes) :
              /\ IF Dropped(t[k]) THEN s = << >> ELSE s \in Images(t[k])
              /\ Wrote(p, NormalizeRune(p, t, k), s, t[k], OffsetOf(t, k))
<1>1. PICK at, r, new : at = OffsetOf(t, k) /\ r = t[k] /\ new = NormalizeRune(p, t, k)
  OBVIOUS
<1>2. r \in DOMAIN Runes /\ at \in Nat
  <2>1. Len(t) \in Nat /\ t[k] \in DOMAIN Runes
    BY DEF IsText
  <2>2. k - 1 \in 0..Len(t)
    BY <2>1
  <2> QED
    BY <1>1, <2>1, <2>2, OffsetsGrow DEF OffsetOf
<1>3. PassOK(p)
  BY DEF PassIs
<1>4. PassOK(new)
  BY <1>1, <1>2, <1>3, RuneOK
<1>5. CASE Dropped(r)
  <2>1. PICK hits : hits = Add(p.hits, Invisible, k)
    OBVIOUS
  <2>2. PICK h : h = [p EXCEPT !.hits = hits]
    OBVIOUS
  <2>3. new = h \/ new = p
    BY <1>1, <1>5, <2>1, <2>2, Zenon DEF NormalizeRune
  <2>4. DOMAIN p = {"out", "size", "shifts", "hits", "until", "swapped"}
    BY <1>3 DEF PassOK
  <2>5. h.out = p.out /\ h.size = p.size /\ h.shifts = p.shifts
    BY ONLY <2>2, <2>4
  <2>6. new.out = p.out /\ new.size = p.size /\ new.shifts = p.shifts
    BY <2>3, <2>5, Zenon
  <2>7. PassIs(new)
    BY <1>4, <2>6, AlikeIs DEF Alike
  <2>8. p.out = p.out \o << >> /\ << >> \in Seq(DOMAIN Runes)
    BY DEF PassIs, IsText
  <2>9. \A x \in Nat : ~(p.size <= x /\ x < p.size)
    BY SizeType DEF PassIs
  <2>10. Wrote(p, new, << >>, r, at)
    BY <2>6, <2>8, <2>9 DEF Wrote
  <2> QED
    BY <1>1, <1>5, <2>7, <2>8, <2>10
<1>6. CASE ~Dropped(r) /\ Foreign(r)
  <2>1. PICK q : q = Swap(p, t, k, WordStart(t, k))
    OBVIOUS
  <2>2. PassIs(q) /\ Alike(p, q)
    BY <2>1, SwapAlike
  <2>3. PICK swaps : swaps = (k < q.until /\ q.swapped)
    OBVIOUS
  <2>4. PICK f : f = Fold(q, r, k, at, swaps)
    OBVIOUS
  <2>5. new = FoldForeign(q, r, k, at)
    BY <1>1, <1>6, <2>1, Zenon DEF NormalizeRune, KeepRune
  <2>6. new = f
    BY <2>3, <2>4, <2>5, Zenon DEF FoldForeign
  <2>7. PassIs(f) /\ \E s \in Seq(DOMAIN Runes) : s \in Images(r) /\ Wrote(q, f, s, r, at)
    BY <1>2, <2>2, <2>4, FoldWrote
  <2>8. PICK s \in Seq(DOMAIN Runes) : s \in Images(r) /\ Wrote(q, f, s, r, at)
    BY <2>7
  <2>9. Alike(f, f)
    BY DEF Alike
  <2>10. Wrote(p, f, s, r, at)
    BY ONLY <2>2, <2>8, <2>9, AlikeWrote
  <2> QED
    BY <1>1, <1>6, <2>6, <2>7, <2>8, <2>10
<1>7. CASE ~Dropped(r) /\ ~Foreign(r)
  <2>1. PICK s : s = IF Runes[r].size = 1 THEN <<r>> ELSE Runes[r].mapped
    OBVIOUS
  <2>2. s \in Images(r)
    BY <2>1 DEF Images
  <2>3. s \in Seq(DOMAIN Runes)
    <3>1. <<r>> \in Seq(DOMAIN Runes)
      BY <1>2
    <3>2. Runes[r].mapped \in Seq(DOMAIN Runes)
      BY <1>2, RunesAssumption
    <3> QED
      BY <2>1, <3>1, <3>2
  <2>4. PICK w : w = Write(p, s, at, r)
    OBVIOUS
  <2>5. new = w
    BY <1>1, <1>7, <2>1, <2>4, Zenon DEF NormalizeRune, KeepRune
  <2>6. PassIs(w) /\ Wrote(p, w, s, r, at)
    BY <1>2, <2>3, <2>4, WriteIs
  <2> QED
    BY <1>1, <1>7, <2>2, <2>3, <2>5, <2>6
<1> QED
  BY <1>5, <1>6, <1>7

\* After k runes: the pass is one, and its end leads no further than they reach.
LEMMA PassCourse ==
  ASSUME NEW t, IsText(t)
  PROVE  /\ \A k \in 0..Len(t) :
              /\ PassIs(Normalizing(t)[k])
              /\ Source(Normalizing(t)[k].shifts, Normalizing(t)[k].size) <= Offsets(t)[k]
         /\ \A k \in 1..Len(t) : \E s \in Seq(DOMAIN Runes) :
              /\ IF Dropped(t[k]) THEN s = << >> ELSE s \in Images(t[k])
              /\ Wrote(Normalizing(t)[k - 1], Normalizing(t)[k], s, t[k], OffsetOf(t, k))
<1>1. PICK n : n = Len(t)
  OBVIOUS
<1>2. n \in Nat /\ \A k \in 1..n : t[k] \in DOMAIN Runes
  BY <1>1 DEF IsText
<1>3. PICK f : f = Normalizing(t)
  OBVIOUS
<1>4. f[0] = FirstPass /\ \A k \in 1..n : f[k] = NormalizeRune(f[k - 1], t, k)
  BY <1>1, <1>2, <1>3, NormalizingCourse
<1>5. PICK g : g = Offsets(t)
  OBVIOUS
<1>6. /\ \A k \in 0..n : g[k] \in Nat
      /\ \A k \in 1..n : g[k - 1] < g[k]
  BY <1>1, <1>5, OffsetsGrow
<1>7. g[0] = 0 /\ \A k \in 1..n : g[k] = g[k - 1] + Runes[t[k]].size
  BY <1>1, <1>2, <1>5, OffsetsCourse
<1> DEFINE good(k) == PassIs(f[k]) /\ Source(f[k].shifts, f[k].size) <= g[k]
           writes(k) == \E s \in Seq(DOMAIN Runes) :
                          /\ IF Dropped(t[k]) THEN s = << >> ELSE s \in Images(t[k])
                          /\ Wrote(f[k - 1], f[k], s, t[k], OffsetOf(t, k))
           T == {k \in Nat : good(k)}
<1>8. ASSUME NEW k \in 1..n, PassIs(f[k - 1]) PROVE PassIs(f[k]) /\ writes(k)
  <2>1. PICK p, q : p = f[k - 1] /\ q = f[k]
    OBVIOUS
  <2>2. q = NormalizeRune(p, t, k)
    BY <1>4, <2>1
  <2>3. PassIs(p)
    BY <1>8, <2>1
  <2>4. /\ PassIs(q)
        /\ \E s \in Seq(DOMAIN Runes) :
              /\ IF Dropped(t[k]) THEN s = << >> ELSE s \in Images(t[k])
              /\ Wrote(p, q, s, t[k], OffsetOf(t, k))
    BY <1>1, <2>2, <2>3, RuneWrote
  <2> QED
    BY <2>1, <2>4
<1>9. 0 \in T
  <2>1. FirstPass.out = << >> /\ FirstPass.size = 0 /\ FirstPass.shifts = << >>
    BY DEF FirstPass
  <2>2. PassOK(FirstPass)
    BY FilesNone DEF PassOK, FirstPass
  <2>3. PassIs(FirstPass)
    BY <2>1, <2>2, NoMarks, SizeNone DEF PassIs
  <2>4. Source(FirstPass.shifts, FirstPass.size) = 0
    BY <2>1, NoMarks
  <2> QED
    BY <1>4, <1>7, <2>3, <2>4
<1>10. ASSUME NEW k \in 1..n, k - 1 \in T PROVE k \in T
  <2>1. PICK p, q : p = f[k - 1] /\ q = f[k]
    OBVIOUS
  <2>2. PassIs(p) /\ Source(p.shifts, p.size) <= g[k - 1]
    BY <1>10, <2>1
  <2>3. PassIs(q) /\ writes(k)
    BY <1>8, <2>1, <2>2
  <2>4. PICK s \in Seq(DOMAIN Runes) : Wrote(p, q, s, t[k], OffsetOf(t, k))
    BY <2>1, <2>3
  <2>5. k \in Nat /\ k \in 0..n /\ k - 1 \in 0..n
    BY <1>2
  <2>6. g[k - 1] \in Nat /\ g[k] \in Nat /\ g[k - 1] < g[k] /\ g[k] = g[k - 1] + Runes[t[k]].size
    BY <2>5, <1>6, <1>7
  <2>7. OffsetOf(t, k) = g[k - 1]
    BY <1>5 DEF OffsetOf
  <2>8. Source(q.shifts, q.size) <= g[k]
    <3>1. CASE s = << >>
      <4>1. q.shifts = p.shifts /\ q.size = p.size
        BY <3>1, <2>4 DEF Wrote
      <4>2. p.size \in Nat /\ MarksOK(p.shifts, p.size)
        BY <2>2, SizeType DEF PassIs
      <4>3. p.size <= p.size + 1
        BY <4>2
      <4>4. Source(p.shifts, p.size) \in Int
        BY <4>2, <4>3, SourcePast
      <4> QED
        BY <4>1, <4>4, <2>2, <2>6
    <3>2. CASE s # << >>
      BY <3>2, <2>4, <2>6, <2>7 DEF Wrote
    <3> QED
      BY <3>1, <3>2
  <2> HIDE DEF writes
  <2>9. good(k)
    BY <2>1, <2>3, <2>8
  <2> HIDE DEF good
  <2> QED
    BY <2>5, <2>9
<1> HIDE DEF T
<1>11. \A k \in 0..n : k \in T
  BY <1>2, <1>9, <1>10, UpTo
<1>12. \A k \in 0..n : good(k)
  BY <1>11 DEF T
<1>13. \A k \in 1..n : writes(k)
  <2> TAKE k \in 1..n
  <2>1. k - 1 \in 0..n
    BY <1>2
  <2> QED
    BY <2>1, <1>8, <1>12
<1> QED
  BY <1>1, <1>3, <1>5, <1>12, <1>13

LEMMA WroteGrown ==
  ASSUME NEW p, PassIs(p), NEW q, PassIs(q), NEW s \in Seq(DOMAIN Runes), NEW r, NEW at, Wrote(p, q, s, r, at)
  PROVE  Grown(p, q)
<1>1. PICK a : a = p.out
  OBVIOUS
<1>2. IsText(a) /\ IsText(s) /\ q.out = a \o s /\ Sequence(a) /\ Sequence(s)
  BY <1>1, ListingOf DEF PassIs, Wrote, IsText
<1>3. PICK b : b = q.out
  OBVIOUS
<1>4. Len(b) = Len(a) + Len(s) /\ \A k \in 0..Len(a) : Offsets(b)[k] = Offsets(a)[k]
  BY <1>2, <1>3, OffsetsJoin
<1>5. \A k \in 1..Len(a) : b[k] = a[k]
  BY <1>2, <1>3, Joining
<1>6. Len(a) \in Nat /\ Len(s) \in Nat
  BY <1>2 DEF IsText
<1>7. Len(a) <= Len(b)
  BY <1>4, <1>6
<1>8. q.size = p.size + Size(s) /\ p.size \in Nat /\ Size(s) \in Nat
  BY <1>1, <1>2, SizeJoin, SizeType DEF PassIs
<1>9. p.size <= q.size
  BY <1>8
<1>10. \A x \in Nat : x < p.size => Source(q.shifts, x) = Source(p.shifts, x)
  BY DEF Wrote
<1> QED
  BY <1>1, <1>3, <1>4, <1>5, <1>7, <1>9, <1>10 DEF Grown

LEMMA GrownMore ==
  ASSUME NEW p, PassIs(p), NEW q, PassIs(q), NEW x, PassIs(x), Grown(p, q), Grown(q, x)
  PROVE  Grown(p, x)
<1>1. /\ Len(p.out) \in Nat /\ Len(q.out) \in Nat /\ Len(x.out) \in Nat
      /\ p.size \in Nat /\ q.size \in Nat /\ x.size \in Nat
  BY SizeType DEF PassIs, IsText
<1>2. Len(p.out) <= Len(q.out) /\ Len(q.out) <= Len(x.out) /\ p.size <= q.size /\ q.size <= x.size
  BY DEF Grown
<1>3. Len(p.out) <= Len(x.out) /\ p.size <= x.size
  BY <1>1, <1>2
<1>4. ASSUME NEW j \in 1..Len(p.out) PROVE x.out[j] = p.out[j]
  <2>1. j \in 1..Len(q.out)
    BY <1>1, <1>2
  <2> QED
    BY <2>1 DEF Grown
<1>5. ASSUME NEW j \in 0..Len(p.out) PROVE Offsets(x.out)[j] = Offsets(p.out)[j]
  <2>1. j \in 0..Len(q.out)
    BY <1>1, <1>2
  <2> QED
    BY <2>1 DEF Grown
<1>6. ASSUME NEW y \in Nat, y < p.size PROVE Source(x.shifts, y) = Source(p.shifts, y)
  <2>1. y < q.size
    BY <1>1, <1>2, <1>6
  <2> QED
    BY <1>6, <2>1 DEF Grown
<1> QED
  BY <1>3, <1>4, <1>5, <1>6 DEF Grown

LEMMA PassGrown ==
  ASSUME NEW t, IsText(t)
  PROVE  \A j, k \in 0..Len(t) : j <= k => Grown(Normalizing(t)[j], Normalizing(t)[k])
<1>1. PICK n, f : n = Len(t) /\ f = Normalizing(t)
  OBVIOUS
<1>2. n \in Nat
  BY <1>1 DEF IsText
<1>3. \A k \in 0..n : PassIs(f[k])
  BY <1>1, PassCourse
<1>4. ASSUME NEW k \in 1..n PROVE Grown(f[k - 1], f[k])
  <2>1. PICK s \in Seq(DOMAIN Runes) : Wrote(f[k - 1], f[k], s, t[k], OffsetOf(t, k))
    BY <1>1, PassCourse
  <2>2. PassIs(f[k - 1]) /\ PassIs(f[k])
    BY <1>2, <1>3
  <2> QED
    BY <2>1, <2>2, WroteGrown
<1>5. ASSUME NEW j \in 0..n PROVE \A k \in 0..n : j <= k => Grown(f[j], f[k])
  <2>1. Grown(f[j], f[j])
    <3>1. Len(f[j].out) \in Nat /\ f[j].size \in Nat
      BY <1>3, SizeType DEF PassIs, IsText
    <3> QED
      BY <3>1 DEF Grown
  <2> DEFINE T == {k \in Nat : j <= k => Grown(f[j], f[k])}
  <2>2. 0 \in T
    <3>1. j <= 0 => j = 0
      BY <1>2
    <3> QED
      BY <2>1, <3>1
  <2>3. ASSUME NEW k \in 1..n, k - 1 \in T PROVE k \in T
    <3>1. k \in Nat /\ k - 1 \in 0..n /\ k \in 0..n
      BY <1>2
    <3>2. CASE j <= k - 1
      <4>1. Grown(f[j], f[k - 1])
        BY <2>3, <3>2
      <4>2. PassIs(f[j]) /\ PassIs(f[k - 1]) /\ PassIs(f[k])
        BY <1>3, <3>1
      <4>3. Grown(f[j], f[k])
        BY <1>4, <4>1, <4>2, GrownMore
      <4> QED
        BY <3>1, <4>3
    <3>3. CASE j = k
      BY <2>1, <3>1, <3>3
    <3>4. j <= k => j <= k - 1 \/ j = k
      BY <3>1
    <3> QED
      BY <3>1, <3>2, <3>3, <3>4
  <2> HIDE DEF T
  <2>4. \A k \in 0..n : k \in T
    BY <1>2, <2>2, <2>3, UpTo
  <2> QED
    BY <2>4 DEF T
<1> QED
  BY <1>1, <1>5

\* Offsets rise.
LEMMA OffsetsRise ==
  ASSUME NEW t, IsText(t), NEW j \in 0..Len(t), NEW k \in 0..Len(t), j <= k
  PROVE  Offsets(t)[j] <= Offsets(t)[k] /\ Offsets(t)[j] \in Nat /\ Offsets(t)[k] \in Nat
<1>1. PICK n, f : n = Len(t) /\ f = Offsets(t)
  OBVIOUS
<1>2. n \in Nat /\ (\A m \in 0..n : f[m] \in Nat) /\ \A m \in 1..n : f[m - 1] < f[m]
  BY <1>1, OffsetsGrow DEF IsText
<1>3. \A l, m \in 0..n : l < m => f[l] < f[m]
  BY <1>2, Rising
<1>4. f[j] \in Nat /\ f[k] \in Nat
  BY <1>1, <1>2
<1>5. CASE j < k
  BY <1>1, <1>3, <1>4, <1>5
<1>6. CASE j = k
  BY <1>1, <1>4, <1>6
<1> QED
  BY <1>1, <1>2, <1>5, <1>6

LEMMA ReachType ==
  ASSUME NEW t, IsText(t)
  PROVE  /\ \A k \in 0..Len(t) : Reach(t, k) \in Nat
         /\ \A j, k \in 0..Len(t) : j <= k => Reach(t, j) <= Reach(t, k)
         /\ Reach(t, 0) = 0
<1>1. \A k \in 0..Len(t) : PassIs(Normalizing(t)[k])
  BY PassCourse
<1>2. \A k \in 0..Len(t) : Reach(t, k) \in Nat
  BY <1>1 DEF PassIs, IsText, Reach
<1>3. \A j, k \in 0..Len(t) : j <= k => Reach(t, j) <= Reach(t, k)
  BY PassGrown DEF Grown, Reach
<1>4. Len(t) \in Nat
  BY DEF IsText
<1>5. Normalizing(t)[0] = FirstPass
  BY <1>4, NormalizingCourse
<1>6. FirstPass.out = << >>
  BY DEF FirstPass
<1> QED
  BY <1>2, <1>3, <1>5, <1>6 DEF Reach

\* The bytes that were written for a rune lead back to it.
LEMMA SpanHolds ==
  ASSUME NEW t, IsText(t), NEW k \in 1..Len(t), NEW j \in Span(t, k),
         NEW s \in Sources(Normalize(t).out, Normalize(t).shifts, j)
  PROVE  Holds(t, k, s) /\ s \in Int
<1>1. PICK n, f : n = Len(t) /\ f = Normalizing(t)
  OBVIOUS
<1>2. n \in Nat /\ k \in 0..n /\ k - 1 \in 0..n /\ n \in 0..n /\ k <= n /\ k - 1 <= n
  BY <1>1 DEF IsText
<1>3. PICK p, q, z : p = f[k - 1] /\ q = f[k] /\ z = f[n]
  OBVIOUS
<1>4. PassIs(p) /\ PassIs(q) /\ PassIs(z)
  BY <1>1, <1>2, <1>3, PassCourse
<1>5. Grown(p, z) /\ Grown(q, z)
  BY <1>1, <1>2, <1>3, PassGrown
<1>6. PICK u \in Seq(DOMAIN Runes) : Wrote(p, q, u, t[k], OffsetOf(t, k))
  BY <1>1, <1>3, PassCourse
<1>7. PICK c, shifts : c = z.out /\ shifts = z.shifts
  OBVIOUS
<1>8. Normalize(t) = z
  BY <1>1, <1>3 DEF Normalize
<1>9. PICK a, b, m : a = Len(p.out) /\ b = Len(q.out) /\ m = Len(c)
  OBVIOUS
<1>10. a \in Nat /\ b \in Nat /\ m \in Nat /\ IsText(c)
  BY <1>4, <1>7, <1>9 DEF PassIs, IsText
<1>11. b <= m /\ a <= m
  BY <1>5, <1>7, <1>9 DEF Grown
<1>12. j \in (a + 1)..b
  BY <1>1, <1>3, <1>9 DEF Span, Reach
<1>13. /\ j \in 1..m /\ j \in 0..m /\ j - 1 \in 0..m /\ a \in 0..m /\ b \in 0..m
       /\ a <= j - 1 /\ j <= b /\ a \in 0..a /\ b \in 0..b
  BY <1>10, <1>11, <1>12
<1>14. PICK o : o = Offsets(c)
  OBVIOUS
<1>15. o[a] <= o[j - 1] /\ o[j] <= o[b] /\ {o[a], o[b], o[j], o[j - 1]} \subseteq Nat
  <2>1. o[a] <= o[j - 1] /\ o[a] \in Nat /\ o[j - 1] \in Nat
    BY ONLY <1>9, <1>10, <1>13, <1>14, OffsetsRise
  <2>2. o[j] <= o[b] /\ o[j] \in Nat /\ o[b] \in Nat
    BY ONLY <1>9, <1>10, <1>13, <1>14, OffsetsRise
  <2> QED
    BY <2>1, <2>2
<1>16. o[a] = p.size /\ o[b] = q.size
  <2>1. o[a] = Offsets(p.out)[a] /\ o[b] = Offsets(q.out)[b]
    BY <1>5, <1>7, <1>9, <1>13, <1>14 DEF Grown
  <2> QED
    BY <2>1, <1>4, <1>9 DEF PassIs, Size
<1>17. o[j] = o[j - 1] + Runes[c[j]].size
  BY <1>9, <1>10, <1>13, <1>14, OffsetsCourse
<1>18. c[j] \in DOMAIN Runes
  BY <1>9, <1>10, <1>13 DEF IsText
<1>19. PICK size : size = Runes[c[j]].size
  OBVIOUS
<1>20. size \in Nat \ {0} /\ Size(<<c[j]>>) = size
  BY <1>18, <1>19, RunesAssumption, SizeOne
<1>21. PICK d \in 0..(size - 1) : s = Source(shifts, OffsetOf(c, j) + d)
  <2>1. s \in Sources(c, shifts, j)
    BY <1>7, <1>8
  <2> QED
    BY <2>1, <1>20 DEF Sources
<1>22. PICK x : x = o[j - 1] + d
  OBVIOUS
<1>23. s = Source(shifts, x)
  BY <1>14, <1>21, <1>22 DEF OffsetOf
<1>24. d \in Nat /\ d < size
  BY <1>20, <1>21
<1>25. x \in Nat /\ p.size <= x /\ x < q.size
  <2>1. o[j - 1] \in Nat /\ o[j] \in Nat /\ o[j] = o[j - 1] + size /\ o[j] <= q.size /\ p.size <= o[j - 1]
    BY <1>15, <1>16, <1>17, <1>19
  <2>2. p.size \in Nat /\ q.size \in Nat
    BY <1>15, <1>16
  <2>3. PICK v, w : v = o[j - 1] /\ w = o[j]
    OBVIOUS
  <2>4. v \in Nat /\ w \in Nat /\ w = v + size /\ w <= q.size /\ p.size <= v /\ x = v + d
    BY <2>1, <2>3, <1>22
  <2> QED
    BY ONLY <2>2, <2>4, <1>20, <1>24
<1>26. s = Source(q.shifts, x)
  BY <1>5, <1>7, <1>23, <1>25 DEF Grown
<1>27. OffsetOf(t, k) <= s /\ s < OffsetOf(t, k) + Runes[t[k]].size
  BY <1>6, <1>25, <1>26 DEF Wrote
<1>28. Offsets(t)[k] = Offsets(t)[k - 1] + Runes[t[k]].size
  BY <1>1, <1>2, OffsetsCourse
<1>29. OffsetOf(t, k + 1) = Offsets(t)[k]
  BY <1>2 DEF OffsetOf
<1>30. Holds(t, k, s)
  BY <1>27, <1>28, <1>29 DEF Holds, OffsetOf
<1>31. s \in Int
  <2>1. PICK sh : sh = q.shifts
    OBVIOUS
  <2>2. Sequence(sh) /\ \A l \in 1..Len(sh) : sh[l].clean \in Nat /\ sh[l].source \in Nat
    BY <1>4, <2>1 DEF PassIs, MarksOK
  <2>3. PICK before : before = {l \in DOMAIN sh : sh[l].clean <= x}
    OBVIOUS
  <2>4. Len(sh) \in Nat /\ before \in SUBSET (1..Len(sh))
    BY <2>2, <2>3, Listing
  <2>5. s = SourceBy(sh, x, before)
    BY <1>26, <2>1, <2>3 DEF Source
  <2>6. CASE before = {}
    BY <2>5, <2>6, <1>25 DEF SourceBy
  <2>7. CASE before # {}
    <3>1. Greatest(before) \in 1..Len(sh)
      BY <2>4, <2>7, GreatestOf
    <3>2. PICK e : e = sh[Greatest(before)]
      OBVIOUS
    <3>3. e.clean \in Nat /\ e.source \in Nat
      BY <2>2, <3>1, <3>2
    <3>4. s = Shifted(x, e)
      BY <2>5, <2>7, <3>2 DEF SourceBy
    <3> QED
      BY <3>3, <3>4, <1>25 DEF Shifted
  <2> QED
    BY <2>6, <2>7
<1> QED
  BY <1>30, <1>31

\* A rune of a text has a byte.
LEMMA SourcesSome ==
  ASSUME NEW c, IsText(c), NEW shifts, NEW j \in 1..Len(c)
  PROVE  Sources(c, shifts, j) # {} /\ Source(shifts, OffsetOf(c, j)) \in Sources(c, shifts, j)
<1>1. c[j] \in DOMAIN Runes
  BY DEF IsText
<1>2. PICK size : size = Size(<<c[j]>>)
  OBVIOUS
<1>3. size \in Nat \ {0}
  BY <1>1, <1>2, SizeOne, RunesAssumption
<1>4. 0 \in 0..(size - 1)
  BY <1>3
<1>5. Source(shifts, OffsetOf(c, j) + 0) \in Sources(c, shifts, j)
  BY <1>2, <1>4 DEF Sources
<1>6. OffsetOf(c, j) + 0 = OffsetOf(c, j)
  BY OffsetsRise DEF OffsetOf, IsText
<1> QED
  BY <1>5, <1>6

\* A byte is of one rune.
LEMMA HoldsOne ==
  ASSUME NEW t, IsText(t), NEW k \in 1..Len(t), NEW l \in 1..Len(t),
         NEW s \in Int, Holds(t, k, s), Holds(t, l, s)
  PROVE  k = l
<1>1. Len(t) \in Nat
  BY DEF IsText
<1>2. PICK o : o = Offsets(t)
  OBVIOUS
<1>3. /\ k \in 0..Len(t) /\ k - 1 \in 0..Len(t) /\ l \in 0..Len(t) /\ l - 1 \in 0..Len(t)
      /\ (k + 1) - 1 = k /\ (l + 1) - 1 = l
  BY <1>1
<1>4. o[k - 1] <= s /\ s < o[k] /\ o[l - 1] <= s /\ s < o[l]
  BY <1>2, <1>3 DEF Holds, OffsetOf
<1>5. {o[k - 1], o[k], o[l - 1], o[l]} \subseteq Nat
  BY <1>2, <1>3, OffsetsGrow
<1>6. CASE k < l
  <2>1. k <= l - 1
    BY <1>3, <1>6
  <2>2. o[k] <= o[l - 1]
    BY <2>1, <1>2, <1>3, OffsetsRise
  <2> QED
    BY <2>2, <1>4, <1>5
<1>7. CASE l < k
  <2>1. l <= k - 1
    BY <1>3, <1>7
  <2>2. o[l] <= o[k - 1]
    BY <2>1, <1>2, <1>3, OffsetsRise
  <2> QED
    BY <2>2, <1>4, <1>5
<1> QED
  BY <1>3, <1>6, <1>7

\* Each rune of the clean text was written for one rune of the source.
LEMMA OwnRune ==
  ASSUME NEW t, IsText(t), NEW j \in 1..Len(Normalize(t).out)
  PROVE  \E k \in 1..Len(t) : j \in Span(t, k)
<1>1. PICK n : n = Len(t)
  OBVIOUS
<1>2. n \in Nat /\ n \in 0..n
  BY <1>1 DEF IsText
<1>3. /\ \A k \in 0..n : Reach(t, k) \in Nat
      /\ Reach(t, 0) = 0
  BY <1>1, ReachType
<1>4. Len(Normalize(t).out) = Reach(t, n)
  BY <1>1 DEF Normalize, Reach
<1>5. PICK S : S = {k \in 0..n : j <= Reach(t, k)}
  OBVIOUS
<1>6. n \in S /\ S \in SUBSET Nat
  <2>1. j <= Reach(t, n)
    BY <1>2, <1>3, <1>4
  <2> QED
    BY <2>1, <1>2, <1>5
<1>7. PICK k \in S : \A m \in S : k <= m
  BY <1>6, LeastExists
<1>8. k \in 0..n /\ j <= Reach(t, k) /\ j \in Nat /\ 0 < j
  BY <1>2, <1>3, <1>4, <1>5, <1>7
<1>9. k # 0
  BY <1>3, <1>8
<1>10. k \in 1..n /\ k - 1 \in 0..n /\ ~(k <= k - 1)
  BY <1>2, <1>8, <1>9
<1>11. ~(j <= Reach(t, k - 1))
  BY <1>5, <1>7, <1>10
<1>12. Reach(t, k - 1) \in Nat /\ Reach(t, k) \in Nat
  BY <1>3, <1>10
<1>13. j \in (Reach(t, k - 1) + 1)..Reach(t, k)
  BY <1>8, <1>11, <1>12
<1> QED
  BY <1>1, <1>10, <1>13 DEF Span

\* The spans of two runes do not overlap, and lie in the clean text.
LEMMA SpansApart ==
  ASSUME NEW t, IsText(t)
  PROVE  /\ \A k \in 1..Len(t) : Span(t, k) \subseteq 1..Len(Normalize(t).out)
         /\ \A k, l \in 1..Len(t) : k < l => \A x \in Span(t, k), y \in Span(t, l) : x < y
<1>1. PICK n : n = Len(t)
  OBVIOUS
<1>2. n \in Nat /\ n \in 0..n
  BY <1>1 DEF IsText
<1>3. /\ \A k \in 0..n : Reach(t, k) \in Nat
      /\ \A j, k \in 0..n : j <= k => Reach(t, j) <= Reach(t, k)
  BY <1>1, ReachType
<1>4. Len(Normalize(t).out) = Reach(t, n)
  BY <1>1 DEF Normalize, Reach
<1>5. ASSUME NEW k \in 1..n PROVE Span(t, k) \subseteq 1..Reach(t, n)
  <2>1. k \in 0..n /\ k - 1 \in 0..n /\ k <= n
    BY <1>2
  <2>2. Reach(t, k) <= Reach(t, n) /\ Reach(t, k) \in Nat /\ Reach(t, k - 1) \in Nat /\ Reach(t, n) \in Nat
    BY <2>1, <1>2, <1>3
  <2>3. (Reach(t, k - 1) + 1)..Reach(t, k) \subseteq 1..Reach(t, n)
    BY <2>2
  <2> QED
    BY <2>3 DEF Span
<1>6. ASSUME NEW k \in 1..n, NEW l \in 1..n, k < l, NEW x \in Span(t, k), NEW y \in Span(t, l)
      PROVE  x < y
  <2>1. k \in 0..n /\ l - 1 \in 0..n /\ k <= l - 1 /\ k - 1 \in 0..n /\ l \in 0..n
    BY <1>2, <1>6
  <2>2. /\ Reach(t, k) <= Reach(t, l - 1) /\ Reach(t, k) \in Nat /\ Reach(t, l - 1) \in Nat
        /\ Reach(t, k - 1) \in Nat /\ Reach(t, l) \in Nat
    BY <2>1, <1>3
  <2>3. x \in (Reach(t, k - 1) + 1)..Reach(t, k) /\ y \in (Reach(t, l - 1) + 1)..Reach(t, l)
    BY DEF Span
  <2> QED
    BY <2>2, <2>3
<1> QED
  BY <1>1, <1>4, <1>5, <1>6

\* The runes of the clean text that come from a rune are those written for it.
LEMMA ComesSpan ==
  ASSUME NEW t, IsText(t), NEW k \in 1..Len(t)
  PROVE  Comes(t, Normalize(t).out, Normalize(t).shifts, k) = Span(t, k)
<1>1. PICK c, shifts, n : c = Normalize(t).out /\ shifts = Normalize(t).shifts /\ n = Len(t)
  OBVIOUS
<1>2. n \in Nat /\ n \in 0..n
  BY <1>1 DEF IsText
<1>3. IsText(c)
  <2>1. PassIs(Normalizing(t)[n])
    BY <1>1, <1>2, PassCourse
  <2> QED
    BY <2>1, <1>1 DEF PassIs, Normalize
<1>4. DOMAIN c = 1..Len(c)
  BY <1>3 DEF IsText
<1>5. Span(t, k) \subseteq 1..Len(c)
  BY <1>1, SpansApart
<1>6. ASSUME NEW j \in Span(t, k) PROVE j \in Comes(t, c, shifts, k)
  <2>1. \A s \in Sources(c, shifts, j) : Holds(t, k, s)
    BY <1>1, SpanHolds
  <2> QED
    BY <2>1, <1>4, <1>5 DEF Comes
<1>7. ASSUME NEW j \in Comes(t, c, shifts, k) PROVE j \in Span(t, k)
  <2>1. j \in 1..Len(c) /\ \A s \in Sources(c, shifts, j) : Holds(t, k, s)
    BY <1>4 DEF Comes
  <2>2. PICK l \in 1..Len(t) : j \in Span(t, l)
    BY <2>1, <1>1, OwnRune
  <2>3. PICK s : s \in Sources(c, shifts, j)
    BY <2>1, <1>3, SourcesSome
  <2>4. Holds(t, l, s) /\ s \in Int
    BY <2>2, <2>3, <1>1, SpanHolds
  <2>5. Holds(t, k, s)
    BY <2>1, <2>3
  <2>6. k = l
    BY <2>4, <2>5, HoldsOne
  <2> QED
    BY <2>2, <2>6
<1> QED
  BY <1>1, <1>6, <1>7

\* Picking a run of numbers gives that run.
LEMMA RunPicked ==
  ASSUME NEW m \in Nat, NEW s, Counts(s, m),
         NEW a \in Nat, NEW b \in Nat, a <= b, b <= m, NEW I, RunAfter(I, a, b)
  PROVE  RunsFrom(Picked(s, I), a, b - a)
<1>1. I = (a + 1)..b /\ Len(s) = m /\ \A k \in 1..m : s[k] = k
  BY DEF RunAfter, Counts
<1>2. PICK f : f = Picking(s, I)
  OBVIOUS
<1>3. f[0] = << >> /\ \A k \in 1..m : f[k] = IF k \in I THEN Append(f[k - 1], s[k]) ELSE f[k - 1]
  BY <1>1, <1>2, PickingCourse
<1> DEFINE far(k) == IF k <= a THEN 0 ELSE IF k <= b THEN k - a ELSE b - a
           good(k) == Sequence(f[k]) /\ Len(f[k]) = far(k) /\ \A q \in 1..far(k) : f[k][q] = a + q
           T == {k \in Nat : good(k)}
<1>4. 0 \in T
  <2>1. Sequence(<< >>) /\ Len(<< >>) = 0 /\ far(0) = 0
    BY FewIds
  <2> QED
    BY <1>3, <2>1
<1>5. ASSUME NEW k \in 1..m, k - 1 \in T PROVE k \in T
  <2>1. PICK g : g = f[k - 1]
    OBVIOUS
  <2>2. PICK n : n = Len(g)
    OBVIOUS
  <2>3. Sequence(g) /\ n = far(k - 1) /\ \A q \in 1..n : g[q] = a + q
    BY <1>5, <2>1, <2>2
  <2>4. k \in Nat /\ n \in Nat
    BY <2>2, <2>3, Listing
  <2>5. CASE k \notin I
    <3>1. f[k] = g
      BY <1>3, <2>1, <2>5
    <3>2. far(k) = far(k - 1)
      BY <1>1, <2>4, <2>5
    <3> HIDE DEF far
    <3>3. good(k)
      BY <2>2, <2>3, <3>1, <3>2
    <3> HIDE DEF good
    <3> QED
      BY <2>4, <3>3
  <2>6. CASE k \in I
    <3>1. PICK h : h = Append(g, k)
      OBVIOUS
    <3>2. f[k] = h
      BY <1>1, <1>3, <2>1, <2>6, <3>1
    <3>3. far(k) = n + 1 /\ k = a + (n + 1)
      BY <1>1, <2>3, <2>4, <2>6
    <3>4. Sequence(h) /\ Len(h) = n + 1
      BY <2>2, <2>3, <3>1, Appended
    <3>5. h[n + 1] = k /\ \A q \in 1..n : h[q] = g[q]
      <4>1. Sequence(g)
        BY <2>3
      <4> QED
        BY ONLY <2>2, <3>1, <4>1, Appended
    <3>6. ASSUME NEW q \in 1..(n + 1) PROVE h[q] = a + q
      <4>1. CASE q \in 1..n
        BY <4>1, <2>3, <3>5
      <4>2. CASE q = n + 1
        BY <4>2, <3>3, <3>5
      <4> QED
        BY <2>4, <4>1, <4>2
    <3> HIDE DEF far
    <3>7. good(k)
      BY <3>2, <3>3, <3>4, <3>6
    <3> HIDE DEF good
    <3> QED
      BY <2>4, <3>7
  <2> QED
    BY <2>5, <2>6
<1> HIDE DEF T
<1>6. \A k \in 0..m : k \in T
  BY <1>4, <1>5, UpTo
<1>7. m \in 0..m
  OBVIOUS
<1>8. good(m)
  BY <1>6, <1>7 DEF T
<1>9. far(m) = b - a
  OBVIOUS
<1> HIDE DEF far
<1>10. Picked(s, I) = f[m]
  BY <1>1, <1>2 DEF Picked
<1>11. Sequence(f[m]) /\ Len(f[m]) = b - a /\ \A q \in 1..(b - a) : f[m][q] = a + q
  BY <1>8, <1>9
<1> QED
  BY <1>10, <1>11 DEF RunsFrom

\* From each rune of the source, dropped or not, comes what was written for it.
LEMMA OriginIs ==
  ASSUME NEW t, IsText(t), NEW k \in 1..Len(t), NEW c, c = Normalize(t).out,
         NEW o, o = Origin(t, c, Normalize(t).shifts, k)
  PROVE  /\ ToSet(o) \subseteq Span(t, k)
         /\ ~Dropped(t[k]) => [n \in DOMAIN o |-> c[o[n]]] \in Images(t[k])
<1>1. PICK n : n = Len(t)
  OBVIOUS
<1>2. n \in Nat /\ n \in 0..n /\ k \in 0..n /\ k - 1 \in 0..n /\ k <= n /\ k - 1 <= k
  BY <1>1 DEF IsText
<1>3. PICK f : f = Normalizing(t)
  OBVIOUS
<1>4. PICK p, q, z : p = f[k - 1] /\ q = f[k] /\ z = f[n]
  OBVIOUS
<1>5. PassIs(p) /\ PassIs(q) /\ PassIs(z)
  BY <1>1, <1>2, <1>3, <1>4, PassCourse
<1>6. Grown(q, z)
  BY <1>1, <1>2, <1>3, <1>4, PassGrown
<1>7. PICK s \in Seq(DOMAIN Runes) : /\ IF Dropped(t[k]) THEN s = << >> ELSE s \in Images(t[k])
                                     /\ Wrote(p, q, s, t[k], OffsetOf(t, k))
  BY <1>1, <1>3, <1>4, PassCourse
<1>8. c = z.out
  BY <1>1, <1>3, <1>4 DEF Normalize
<1>9. PICK a, b, m, l : a = Len(p.out) /\ b = Len(q.out) /\ m = Len(c) /\ l = Len(s)
  OBVIOUS
<1>10. /\ a \in Nat /\ b \in Nat /\ m \in Nat /\ l \in Nat
       /\ DOMAIN c = 1..m /\ DOMAIN s = 1..l
  BY <1>5, <1>8, <1>9 DEF PassIs, IsText
<1>11. Sequence(p.out) /\ Sequence(s)
  BY <1>5, ListingOf DEF PassIs, IsText
<1>12. q.out = p.out \o s
  BY <1>7 DEF Wrote
<1>13. b = a + l /\ \A j \in 1..l : q.out[a + j] = s[j]
  BY <1>9, <1>11, <1>12, Joining
<1>14. b <= m /\ a <= b
  BY <1>6, <1>8, <1>9, <1>10, <1>13 DEF Grown
<1>15. \A j \in 1..l : c[a + j] = s[j]
  <2> TAKE j \in 1..l
  <2>1. a + j \in 1..b
    BY <1>10, <1>13
  <2>2. c[a + j] = q.out[a + j]
    BY <2>1, <1>6, <1>8, <1>9 DEF Grown
  <2> QED
    BY <2>2, <1>13
<1>16. Span(t, k) = (a + 1)..b
  BY <1>3, <1>4, <1>9 DEF Span, Reach
<1>17. PICK ids : ids = Indices(c)
  OBVIOUS
<1>18. ids = [j \in 1..m |-> j]
  BY <1>10, <1>17 DEF Indices
<1>19. Len(ids) = m /\ \A j \in 1..m : ids[j] = j
  BY <1>10, <1>18
<1>20. PICK run : run = (a + 1)..b
  OBVIOUS
<1>21. o = Picked(ids, run)
  <2>1. Comes(t, c, Normalize(t).shifts, k) = run
    BY <1>16, <1>20, ComesSpan
  <2> QED
    BY <2>1, <1>17 DEF Origin
<1>22. Sequence(o) /\ Len(o) = b - a /\ \A j \in 1..(b - a) : o[j] = a + j
  <2>1. Counts(ids, m) /\ RunAfter(run, a, b)
    BY <1>19, <1>20 DEF Counts, RunAfter
  <2>2. RunsFrom(Picked(ids, run), a, b - a)
    BY ONLY <1>10, <1>14, <2>1, RunPicked
  <2>3. RunsFrom(o, a, b - a)
    BY ONLY <1>21, <2>2
  <2> QED
    BY ONLY <2>3 DEF RunsFrom
<1>23. b - a = l
  BY <1>10, <1>13
<1>24. DOMAIN o = 1..l /\ \A j \in 1..l : o[j] = a + j
  BY <1>22, <1>23, Listing
<1>25. ASSUME NEW x \in ToSet(o) PROVE x \in Span(t, k)
  <2>1. PICK j \in 1..l : x = o[j]
    BY <1>24 DEF ToSet
  <2>2. x = a + j
    BY <2>1, <1>24
  <2>3. x \in (a + 1)..b
    BY <2>2, <1>10, <1>13
  <2> QED
    BY <2>3, <1>16
<1>26. [j \in DOMAIN o |-> c[o[j]]] = s
  <2>1. \A j \in 1..l : c[o[j]] = s[j]
    BY <1>15, <1>24
  <2>2. s = [j \in 1..l |-> s[j]]
    BY <1>9, <1>10
  <2>3. [j \in 1..l |-> c[o[j]]] = [j \in 1..l |-> s[j]]
    BY <2>1
  <2> QED
    BY <1>24, <2>2, <2>3
<1> QED
  BY <1>7, <1>25, <1>26

\* Nothing is written for a rune that is dropped.
LEMMA DroppedSpan ==
  ASSUME NEW t, IsText(t), NEW k \in 1..Len(t), Dropped(t[k])
  PROVE  Span(t, k) = {}
<1>1. PICK f : f = Normalizing(t)
  OBVIOUS
<1>2. PICK s \in Seq(DOMAIN Runes) : s = << >> /\ Wrote(f[k - 1], f[k], s, t[k], OffsetOf(t, k))
  BY <1>1, PassCourse
<1>3. Len(t) \in Nat
  BY DEF IsText
<1>4. k - 1 \in 0..Len(t)
  BY <1>3
<1>5. PICK out : out = f[k - 1].out
  OBVIOUS
<1>6. out \in Seq(DOMAIN Runes)
  <2>1. PassIs(f[k - 1])
    BY <1>1, <1>4, PassCourse
  <2> QED
    BY <2>1, <1>5 DEF PassIs, IsText
<1>7. f[k].out = out \o << >>
  BY <1>2, <1>5 DEF Wrote
<1>8. f[k].out = out
  BY <1>6, <1>7
<1>9. PICK a : a = Len(out)
  OBVIOUS
<1>10. a \in Nat /\ (a + 1)..a = {}
  BY <1>6, <1>9
<1>11. Reach(t, k - 1) = a /\ Reach(t, k) = a
  BY <1>1, <1>5, <1>8, <1>9 DEF Reach
<1> QED
  BY <1>10, <1>11 DEF Span

LEMMA OriginIsShown ==
  ASSUME NEW t, IsText(t), NEW c, c = Normalize(t).out, NEW shifts, shifts = Normalize(t).shifts
  PROVE  OriginShown(t, c, shifts)
<1>1. PICK n : n = Len(t)
  OBVIOUS
<1>2. n \in Nat /\ n \in 0..n /\ DOMAIN t = 1..n
  BY <1>1 DEF IsText
<1>3. PICK z : z = Normalizing(t)[n]
  OBVIOUS
<1>4. PassIs(z) /\ Source(z.shifts, z.size) <= Offsets(t)[n]
  BY <1>1, <1>2, <1>3, PassCourse
<1>5. c = z.out /\ shifts = z.shifts
  BY <1>1, <1>3 DEF Normalize
<1>6. DOMAIN c = 1..Len(c)
  BY <1>4, <1>5 DEF PassIs, IsText
<1>7. ASSUME NEW j \in DOMAIN c
      PROVE  \E k \in DOMAIN t : ~Dropped(t[k]) /\ \A s \in Sources(c, shifts, j) : Holds(t, k, s)
  <2>1. PICK k \in 1..n : j \in Span(t, k)
    BY <1>1, <1>6, OwnRune
  <2>2. ~Dropped(t[k])
    BY <2>1, <1>1, DroppedSpan
  <2>3. \A s \in Sources(c, shifts, j) : Holds(t, k, s)
    BY <2>1, <1>1, SpanHolds
  <2> QED
    BY <2>2, <2>3, <1>2
<1>8. ASSUME NEW k \in 1..n
      PROVE  /\ ToSet(Origin(t, c, shifts, k)) \subseteq Span(t, k)
             /\ ~Dropped(t[k]) =>
                  [m \in DOMAIN Origin(t, c, shifts, k) |-> c[Origin(t, c, shifts, k)[m]]] \in Images(t[k])
  BY <1>1, OriginIs
<1>9. ASSUME NEW k \in 1..n, NEW l \in 1..n, k < l,
             NEW x \in ToSet(Origin(t, c, shifts, k)), NEW y \in ToSet(Origin(t, c, shifts, l))
      PROVE  x < y
  <2>1. x \in Span(t, k) /\ y \in Span(t, l)
    BY <1>8
  <2> QED
    BY <2>1, <1>1, <1>9, SpansApart
<1>10. Source(shifts, Size(c)) <= Size(t)
  <2>1. z.size = Size(c)
    BY <1>4, <1>5 DEF PassIs
  <2>2. Size(t) = Offsets(t)[n]
    BY <1>1 DEF Size
  <2> QED
    BY <2>1, <2>2, <1>4, <1>5
<1> QED
  BY <1>2, <1>7, <1>8, <1>9, <1>10 DEF OriginShown, Images

LEMMA CleanNone ==
  /\ \A path, type, ok, size, text, target : CleanOf(Artifact(path, type, ok, size, text, target))
  /\ \A e, type : CleanOf(Failed(e, type))
  /\ \A e, raw : CleanOf(Regular(e, raw))
<1>1. \A path, type, ok, size, text, target : Artifact(path, type, ok, size, text, target).clean = << >>
  BY DEF Artifact
<1>2. \A path, type, ok, size, text, target : CleanOf(Artifact(path, type, ok, size, text, target))
  BY <1>1 DEF CleanOf
<1>3. \A e, type : CleanOf(Failed(e, type))
  BY <1>2 DEF Failed
<1>4. \A e, raw : CleanOf(Regular(e, raw))
  BY <1>2 DEF Regular, RegularAs
<1> QED
  BY <1>2, <1>3, <1>4

LEMMA CleanAdded ==
  ASSUME CleanOK, ListOK, NEW a, CleanOf(a), artifacts' = Append(artifacts, a)
  PROVE  CleanOK'
<1>1. PICK s : s = artifacts
  OBVIOUS
<1>2. PICK n : n = Len(s)
  OBVIOUS
<1>3. Sequence(s) /\ \A k \in 1..n : CleanOf(s[k])
  BY <1>1, <1>2 DEF ListOK, CleanOK
<1>4. PICK t : t = Append(s, a)
  OBVIOUS
<1>5. n \in Nat
  BY <1>2, <1>3, Listing
<1>6. Len(t) = n + 1 /\ t[n + 1] = a /\ \A k \in 1..n : t[k] = s[k]
  BY <1>2, <1>3, <1>4, Appended
<1>7. ASSUME NEW k \in 1..(n + 1) PROVE CleanOf(t[k])
  BY <1>3, <1>5, <1>6
<1>8. artifacts' = t
  BY <1>1, <1>4
<1> QED
  BY <1>6, <1>7, <1>8 DEF CleanOK, CleanOf

LEMMA CleanStays ==
  ASSUME CleanOK, artifacts' = artifacts
  PROVE  CleanOK'
BY DEF CleanOK, CleanOf

\* What the pass leaves of the artifacts.
LEMMA ArtifactsRevealed ==
  ASSUME IInv, TextsOK, ListOK, RevealArtifact
  PROVE  /\ Len(artifacts') = Len(artifacts)
         /\ \A k \in 1..Len(artifacts) :
              /\ SameFile(artifacts'[k], artifacts[k])
              /\ \/ artifacts'[k] = artifacts[k]
                 \/ /\ artifacts'[k].clean = Normalize(artifacts[k].text).out
                    /\ artifacts'[k].shifts = Normalize(artifacts[k].text).shifts
<1>1. i \in 1..Len(artifacts)
  BY AtIs DEF RevealArtifact, IInv
<1>2. CASE artifacts' = artifacts
  BY <1>2 DEF SameFile
<1>3. CASE artifacts' # artifacts
  <2>1. PICK text, p : text = At.text /\ p = Normalize(text)
    OBVIOUS
  <2>2. artifacts' = [artifacts EXCEPT ![i].clean = p.out, ![i].shifts = p.shifts]
    BY <1>3, <2>1 DEF RevealArtifact, RevealAs
  <2>3. /\ Len(artifacts') = Len(artifacts)
        /\ \A k \in 1..Len(artifacts) : SameFile(artifacts'[k], artifacts[k])
        /\ \A k \in 1..Len(artifacts) : k # i => artifacts'[k] = artifacts[k]
        /\ artifacts'[i].clean = p.out /\ artifacts'[i].shifts = p.shifts
    BY <1>1, <2>2, CleanedAt
  <2> QED
    BY <2>1, <2>3 DEF At
<1> QED
  BY <1>2, <1>3

LEMMA CleanRevealed ==
  ASSUME IInv, TextsOK, ListOK, CleanOK, RevealArtifact
  PROVE  CleanOK'
<1>1. PICK old, new : old = artifacts /\ new = artifacts'
  OBVIOUS
<1>2. /\ Len(new) = Len(old)
      /\ \A k \in 1..Len(old) :
           /\ SameFile(new[k], old[k])
           /\ \/ new[k] = old[k]
              \/ new[k].clean = Normalize(old[k].text).out /\ new[k].shifts = Normalize(old[k].text).shifts
  BY <1>1, ArtifactsRevealed
<1>3. \A k \in 1..Len(old) : CleanOf(old[k])
  BY <1>1 DEF CleanOK
<1>4. \A k \in 1..Len(old) : CleanOf(new[k])
  BY <1>2, <1>3 DEF CleanOf, SameFile
<1> QED
  BY <1>1, <1>2, <1>4 DEF CleanOK, CleanOf

LEMMA CleanInit ==
  ASSUME Init
  PROVE  CleanOK
<1>1. case \in Cases /\ artifacts = [k \in DOMAIN Lost |-> Failed(Lost[k], "directory")]
  BY DEF Init
<1>2. Sequence(Lost)
  BY <1>1, FolderType
<1>3. Len(Lost) \in Nat /\ DOMAIN Lost = 1..Len(Lost)
  BY <1>2, Listing
<1>4. artifacts = [k \in 1..Len(Lost) |-> artifacts[k]]
  BY <1>1, <1>3
<1>5. Len(artifacts) = Len(Lost)
  BY <1>3, <1>4, Indexed
<1>6. \A k \in 1..Len(Lost) : CleanOf(artifacts[k])
  BY <1>1, <1>3, CleanNone
<1> QED
  BY <1>5, <1>6 DEF CleanOK

LEMMA CleanNext ==
  ASSUME IInv, TextsOK, ListOK, CleanOK, [Next]_vars
  PROVE  CleanOK'
<1>1. PICK e : e = Entry
  OBVIOUS
<1>2. CASE TakeSpecial
  <2>1. artifacts' = Append(artifacts, Artifact(e.path, e.kind, TRUE, 0, << >>, e.target))
    BY <1>1, <1>2 DEF TakeSpecial, AddArtifact
  <2> QED
    BY <2>1, CleanNone, CleanAdded
<1>3. CASE ReadFile
  <2>1. PICK raw : artifacts' = Append(artifacts, Regular(e, raw))
    BY <1>1, <1>3 DEF ReadFile, ReadAs, AddArtifact
  <2> QED
    BY <2>1, CleanNone, CleanAdded
<1>4. CASE Vanish \/ ReadFails \/ Measure
  <2>1. artifacts' = Append(artifacts, Failed(e, None)) \/ artifacts' = artifacts
    BY <1>1, <1>4 DEF Vanish, ReadFails, Measure, MeasureAs, AddArtifact
  <2> QED
    BY <2>1, CleanNone, CleanAdded, CleanStays
<1>5. CASE RevealArtifact
  BY <1>5, CleanRevealed
<1>6. CASE EndStatic
  <2>1. PICK b : b = Artifact(<<"traces">>, "markdown", TRUE, 1, << >>, << >>)
    OBVIOUS
  <2>2. PICK a : a = [b EXCEPT !.kind = "brief"]
    OBVIOUS
  <2>3. artifacts' = Append(artifacts, a) \/ artifacts' = artifacts
    BY <1>6, <2>1, <2>2 DEF EndStatic
  <2>4. DOMAIN b = Fields /\ b.clean = << >>
    BY <2>1 DEF Artifact, Fields
  <2>5. a.clean = << >>
    BY ONLY <2>2, <2>4 DEF Fields
  <2>6. CleanOf(a)
    BY <2>5 DEF CleanOf
  <2> QED
    BY <2>3, <2>6, CleanAdded, CleanStays
<1>7. CASE EndWalk \/ EndReveal \/ ParseArtifact \/ NoRuntime \/ EndAst \/ ScanArtifact \/ ScanLink
  <2>1. artifacts' = artifacts
    BY <1>7 DEF EndWalk, EndReveal, ParseArtifact, NoRuntime, EndAst, ScanArtifact, ScanLink
  <2> QED
    BY <2>1, CleanStays
<1>8. CASE ContextEnds \/ Over \/ UNCHANGED vars
  <2>1. artifacts' = artifacts
    BY <1>8 DEF ContextEnds, Over, vars
  <2> QED
    BY <2>1, CleanStays
<1> QED
  BY <1>2, <1>3, <1>4, <1>5, <1>6, <1>7, <1>8 DEF Next

LEMMA CleanOrigin ==
  ASSUME TextsOK, ListOK, CleanOK
  PROVE  SourceIsOrigin
<1>1. ASSUME NEW a \in Kept, a.clean # << >>
      PROVE  OriginShown(a.text, a.clean, a.shifts)
  <2>1. a \in ToSet(artifacts)
    BY DEF Kept
  <2>2. DOMAIN artifacts = 1..Len(artifacts)
    BY Listing DEF ListOK
  <2>3. PICK k \in 1..Len(artifacts) : a = artifacts[k]
    BY <2>1, <2>2 DEF ToSet
  <2>4. CleanOf(a) /\ IsText(a.text)
    BY <2>3 DEF CleanOK, TextsOK, Texted
  <2>5. a.clean = Normalize(a.text).out /\ a.shifts = Normalize(a.text).shifts
    BY <1>1, <2>4 DEF CleanOf
  <2> QED
    BY <2>4, <2>5, OriginIsShown
<1> QED
  BY <1>1, Zenon DEF SourceIsOrigin, OriginShown, Sources, Holds, Origin, Comes

\* A place in the clean text of a file leads to the rune of the file it was
\* made from, and no rune but a hidden one is lost: for any text of any runes,
\* with whatever they fold or map to.
THEOREM SourceLeadsBack == Spec => []SourceIsOrigin
<1>1. Init => IInv /\ TextsOK /\ ListOK /\ CleanOK
  BY WalkInit, TextsInit, ListInit, CleanInit
<1>2. IInv /\ TextsOK /\ ListOK /\ CleanOK /\ [Next]_vars
        => (IInv /\ TextsOK /\ ListOK /\ CleanOK)'
  BY WalkNext, TextsNext, ListNext, CleanNext
<1>3. TextsOK /\ ListOK /\ CleanOK => SourceIsOrigin
  BY CleanOrigin
<1> QED
  BY <1>1, <1>2, <1>3, PTL DEF Spec

-----------------------------------------------------------------------------
(* The hits of reveal are those of the words of a text.                      *)

\* Every rune of a word is in such a run, which is the word the pass looks at.
LEMMA RunAround ==
  ASSUME NEW t, IsText(t), NEW k \in 1..Len(t), InWord(t[k])
  PROVE  \E a, b : RunIn(t, a, b) /\ a <= k /\ k < b
<1>1. PICK n : n = Len(t)
  OBVIOUS
<1>2. n \in Nat /\ k \in 1..n
  BY <1>1 DEF IsText
<1> DEFINE S == {a \in 1..k : \A j \in a..(k - 1) : InWord(t[j])}
           E == {b \in k..(n + 1) : b = n + 1 \/ ~InWord(t[b])}
<1>3. k \in S /\ S \in SUBSET Nat
  BY <1>2
<1>4. n + 1 \in E /\ E \in SUBSET Nat
  BY <1>2
<1>5. PICK a \in S : \A x \in S : a <= x
  BY <1>3, LeastOf
<1>6. PICK b \in E : \A x \in E : b <= x
  BY <1>4, LeastOf
<1>7. a \in 1..k /\ b \in k..(n + 1) /\ b # k
  BY <1>2, <1>5, <1>6
<1>8. ASSUME NEW j \in a..(b - 1) PROVE InWord(t[j])
  <2>1. j < k \/ j = k \/ j \in k..(n + 1)
    BY <1>2, <1>7
  <2>2. CASE j \in k..(n + 1)
    <3>1. ~(b <= j)
      BY <1>2, <1>7
    <3> QED
      BY <2>2, <3>1, <1>6
  <2> QED
    BY <2>1, <2>2, <1>2, <1>5, <1>7
<1>9. ASSUME a # 1, InWord(t[a - 1]) PROVE FALSE
  <2>1. a - 1 \in 1..k /\ \A j \in (a - 1)..(k - 1) : j = a - 1 \/ j \in a..(k - 1)
    BY <1>2, <1>7, <1>9
  <2>2. a - 1 \in S
    BY <2>1, <1>5, <1>9
  <2> QED
    BY <2>2, <1>2, <1>5, <1>7
<1>10. b = n + 1 \/ ~InWord(t[b])
  BY <1>6
<1>11. a \in 1..n /\ b \in 1..(n + 1) /\ a <= k /\ k < b /\ a < b
  BY <1>2, <1>7
<1>12. RunIn(t, a, b)
  BY <1>1, <1>8, <1>9, <1>10, <1>11 DEF RunIn
<1> QED
  BY <1>11, <1>12

LEMMA WordOfRun ==
  ASSUME NEW t, IsText(t), NEW a, NEW b, RunIn(t, a, b), NEW k \in a..(b - 1)
  PROVE  WordStart(t, k) = AfterEscape(t, a) /\ WordEnd(t, k) = b /\ k \in 1..Len(t)
<1>1. PICK n : n = Len(t)
  OBVIOUS
<1>2. /\ n \in Nat /\ a \in 1..n /\ b \in 1..(n + 1) /\ a < b /\ k \in 1..n
      /\ \A j \in a..(b - 1) : InWord(t[j])
      /\ a = 1 \/ ~InWord(t[a - 1])
      /\ b = n + 1 \/ ~InWord(t[b])
  BY <1>1 DEF RunIn, IsText
<1> DEFINE S == {x \in 1..k : \A j \in x..(k - 1) : InWord(t[j])}
           E == {x \in k..(n + 1) : x = n + 1 \/ ~InWord(t[x])}
<1>3. a \in S /\ S \in SUBSET Nat
  BY <1>2
<1>4. b \in E /\ E \in SUBSET Nat
  BY <1>2
<1>5. ASSUME NEW x \in S PROVE a <= x
  <2>1. x < a => a - 1 \in x..(k - 1) /\ a # 1
    BY <1>2
  <2> QED
    BY <2>1, <1>2, <1>5
<1>6. ASSUME NEW x \in E PROVE b <= x
  BY <1>2, <1>6
<1>7. Least(S) = a /\ Least(E) = b
  BY <1>3, <1>4, <1>5, <1>6, LeastIs
<1> QED
  BY <1>1, <1>2, <1>7 DEF WordStart, WordEnd

LEMMA WordsAre ==
  ASSUME NEW t, IsText(t), NEW w
  PROVE  w \in WordsOf(t) <=> \E a, b : RunIn(t, a, b) /\ w = AfterEscape(t, a)..(b - 1)
<1>1. PICK n : n = Len(t)
  OBVIOUS
<1>2. n \in Nat /\ DOMAIN t = 1..n
  BY <1>1 DEF IsText
<1> DEFINE X == (DOMAIN t) \X (DOMAIN t \cup {Len(t) + 1})
           in(s, e) == \A k \in s..(e - 1) : InWord(t[k])
           whole(p) == /\ p[1] < p[2] /\ in(p[1], p[2])
                       /\ (p[1] = 1 \/ ~InWord(t[p[1] - 1])) /\ (p[2] = Len(t) + 1 \/ ~InWord(t[p[2]]))
           head(p) == IF p[1] > 1 /\ t[p[1] - 1] = "\\" THEN p[1] + 1 ELSE p[1]
<1>3. w \in WordsOf(t) <=> \E p \in X : whole(p) /\ w = head(p)..(p[2] - 1)
  BY DEF WordsOf
<1>4. ASSUME NEW p \in X
      PROVE  /\ whole(p) <=> RunIn(t, p[1], p[2])
             /\ head(p) = AfterEscape(t, p[1])
  <2>1. p[1] \in 1..n /\ p[2] \in 1..(n + 1)
    BY <1>1, <1>2
  <2>2. whole(p) <=> RunIn(t, p[1], p[2])
    BY <1>1, <2>1 DEF RunIn
  <2> QED
    BY <2>2, Zenon DEF AfterEscape
<1>5. ASSUME NEW a, NEW b, RunIn(t, a, b) PROVE <<a, b>> \in X /\ <<a, b>>[1] = a /\ <<a, b>>[2] = b
  BY <1>1, <1>2, <1>5 DEF RunIn
<1> HIDE DEF X, whole, head
<1>6. ASSUME NEW p \in X, whole(p), w = head(p)..(p[2] - 1)
      PROVE  RunIn(t, p[1], p[2]) /\ w = AfterEscape(t, p[1])..(p[2] - 1)
  BY <1>4, <1>6
<1>7. ASSUME NEW a, NEW b, RunIn(t, a, b), w = AfterEscape(t, a)..(b - 1)
      PROVE  \E p \in X : whole(p) /\ w = head(p)..(p[2] - 1)
  <2>1. PICK p : p = <<a, b>>
    OBVIOUS
  <2>2. p \in X /\ p[1] = a /\ p[2] = b
    BY <2>1, <1>5, <1>7
  <2> QED
    BY <2>2, <1>4, <1>7
<1> QED
  BY <1>3, <1>6, <1>7

LEMMA DisguiseIs ==
  ASSUME NEW t, IsText(t), NEW k \in 1..Len(t)
  PROVE  k \in Alikes(t) <=> Foreign(t[k]) /\ ~Dropped(t[k]) /\ InDisguise(t, k)
<1>1. PICK n : n = Len(t)
  OBVIOUS
<1>2. n \in Nat /\ DOMAIN t = 1..n
  BY <1>1 DEF IsText
<1> SUFFICES ASSUME Foreign(t[k]), ~Dropped(t[k]) PROVE k \in Alikes(t) <=> InDisguise(t, k)
  BY DEF Alikes
<1>3. PICK a, b : RunIn(t, a, b) /\ a <= k /\ k < b
  BY RunAround DEF Foreign, InWord, Joins, Dropped
<1>4. PICK s : s = AfterEscape(t, a)
  OBVIOUS
<1>5. a \in 1..n /\ b \in 1..(n + 1) /\ k \in a..(b - 1) /\ s \in {a, a + 1}
  BY <1>1, <1>2, <1>3, <1>4 DEF RunIn, AfterEscape
<1>6. WordStart(t, k) = s /\ WordEnd(t, k) = b
  BY <1>3, <1>4, <1>5, WordOfRun
<1>7. ASSUME NEW w \in WordsOf(t), k \in w PROVE w = s..(b - 1)
  <2>1. PICK x, y : RunIn(t, x, y) /\ w = AfterEscape(t, x)..(y - 1)
    BY WordsAre
  <2>2. x \in 1..n /\ y \in 1..(n + 1) /\ AfterEscape(t, x) \in {x, x + 1}
    BY <1>1, <2>1 DEF RunIn, AfterEscape
  <2>3. k \in x..(y - 1)
    BY <1>7, <2>1, <2>2
  <2>4. WordStart(t, k) = AfterEscape(t, x) /\ WordEnd(t, k) = y
    BY <2>1, <2>3, WordOfRun
  <2> QED
    BY <1>6, <2>1, <2>4
<1>8. s..(b - 1) \in WordsOf(t)
  BY <1>3, <1>4, WordsAre
<1>9. k \in s..(b - 1) <=> s <= k
  BY <1>5
<1>10. PICK word : word = SubSeq(t, s, b - 1)
  OBVIOUS
<1>11. ASSUME s <= k
       PROVE  ToSet(word) = {t[j] : j \in s..(b - 1)}
  <2>1. s \in 1..n /\ b - 1 \in 1..n /\ s <= b - 1
    BY <1>2, <1>5, <1>11
  <2>2. PICK last : last = b - 1
    OBVIOUS
  <2>3. s \in 1..(n + 1) /\ last \in (s - 1)..n /\ (last - s) + 1 = b - s /\ b \in Nat
    BY <2>1, <2>2, <1>2, <1>5
  <2>8. /\ word \in Seq(DOMAIN Runes) /\ Len(word) = b - s
        /\ \A j \in 1..(b - s) : word[j] = t[(s + j) - 1]
    BY <1>1, <1>10, <2>2, <2>3, SubSeqProperties DEF IsText
  <2>4. DOMAIN word = 1..(b - s) /\ \A j \in 1..(b - s) : word[j] = t[(s + j) - 1] /\ (s + j) - 1 \in s..(b - 1)
    BY <2>1, <2>3, <2>8
  <2>5. \A j \in s..(b - 1) : (j - s) + 1 \in 1..(b - s) /\ (s + ((j - s) + 1)) - 1 = j
    BY <2>1, <2>3
  <2>6. \A x \in DOMAIN word : word[x] \in {t[j] : j \in s..(b - 1)}
    BY <2>4
  <2>7. \A j \in s..(b - 1) : (j - s) + 1 \in DOMAIN word /\ word[(j - s) + 1] = t[j]
    BY <2>4, <2>5
  <2> QED
    BY <2>6, <2>7 DEF ToSet
<1> DEFINE told(w) == /\ \E j \in w : Runes[t[j]].kind = "letter" /\ Runes[t[j]].script = "latin"
                      /\ \A j \in w : Foreign(t[j]) => Concealed(t[j])
<1>12. s <= k => (Disguised(word) <=> told(s..(b - 1)))
  BY <1>11 DEF Disguised
<1>13. k \in Alikes(t) <=> \E w \in WordsOf(t) : k \in w /\ told(w)
  BY <1>2 DEF Alikes
<1> HIDE DEF told
<1>14. k \in Alikes(t) <=> s <= k /\ told(s..(b - 1))
  BY <1>7, <1>8, <1>9, <1>13
<1> QED
  BY <1>6, <1>10, <1>12, <1>14 DEF InDisguise

LEMMA SwapRemembers ==
  ASSUME NEW t, IsText(t), NEW k \in 1..Len(t), Foreign(t[k]),
         NEW p, PassOK(p), Remembers(p, t, k - 1), NEW q, q = Swap(p, t, k, WordStart(t, k))
  PROVE  /\ Remembers(q, t, k) /\ q.hits = p.hits
         /\ (k < q.until /\ q.swapped) <=> InDisguise(t, k)
<1>1. PICK n : n = Len(t)
  OBVIOUS
<1>2. n \in Nat /\ k \in 1..n /\ k \in (k - 1 + 1)..n
  BY <1>1 DEF IsText
<1>3. PICK a, b : RunIn(t, a, b) /\ a <= k /\ k < b
  BY RunAround DEF Foreign, InWord, Joins, Dropped
<1>4. PICK s : s = AfterEscape(t, a)
  OBVIOUS
<1>5. a \in 1..n /\ b \in 1..(n + 1) /\ k \in a..(b - 1) /\ s \in Nat
  BY <1>1, <1>2, <1>3, <1>4 DEF RunIn, AfterEscape
<1>6. \A j \in a..(b - 1) : WordStart(t, j) = s /\ WordEnd(t, j) = b
  BY <1>3, <1>4, WordOfRun
<1>7. WordStart(t, k) = s /\ WordEnd(t, k) = b
  BY <1>5, <1>6
<1>8. PICK bad : bad = Disguised(SubSeq(t, s, b - 1))
  OBVIOUS
<1>9. InDisguise(t, k) <=> s <= k /\ bad
  BY <1>7, <1>8 DEF InDisguise
<1>10. p.until \in Nat /\ \A j \in k..n : j < p.until =>
         WordStart(t, j) <= j /\ (p.swapped <=> Disguised(SubSeq(t, WordStart(t, j), WordEnd(t, j) - 1)))
  BY <1>1, <1>2 DEF Remembers
<1>11. Remembers(p, t, k)
  BY <1>1, <1>2, <1>10 DEF Remembers
<1>12. CASE k < p.until
  <2>1. q = p
    BY <1>12 DEF Swap
  <2>2. s <= k /\ (p.swapped <=> bad)
    BY <1>2, <1>7, <1>8, <1>10, <1>12
  <2> QED
    BY <1>9, <1>11, <1>12, <2>1, <2>2
<1>13. CASE ~(k < p.until) /\ k < s
  <2>1. q = p
    BY <1>7, <1>13 DEF Swap
  <2>2. ~(s <= k)
    BY <1>2, <1>5, <1>13
  <2> QED
    BY <1>9, <1>11, <1>13, <2>1, <2>2
<1>14. CASE ~(k < p.until) /\ ~(k < s)
  <2>1. q = Judged(p, t, s, b)
    BY <1>7, <1>14 DEF Swap
  <2>2. q = [p EXCEPT !.until = b, !.swapped = bad]
    BY <2>1, <1>8 DEF Judged
  <2>3. DOMAIN p = {"out", "size", "shifts", "hits", "until", "swapped"}
    BY DEF PassOK
  <2>4. q.until = b /\ q.swapped = bad /\ q.hits = p.hits
    BY ONLY <2>2, <2>3
  <2>5. s <= k /\ k < b /\ b \in Nat
    BY <1>3, <1>2, <1>5, <1>14
  <2>6. ASSUME NEW j \in (k + 1)..n, j < b
        PROVE  WordStart(t, j) <= j /\ (bad <=> Disguised(SubSeq(t, WordStart(t, j), WordEnd(t, j) - 1)))
    <3>1. j \in a..(b - 1) /\ s <= j
      BY <1>2, <1>5, <2>5, <2>6
    <3> QED
      BY <3>1, <1>6, <1>8
  <2>7. Remembers(q, t, k)
    BY <1>1, <2>4, <2>5, <2>6 DEF Remembers
  <2> QED
    BY <1>9, <2>4, <2>5, <2>7
<1> QED
  BY <1>12, <1>13, <1>14

\* What one more rune adds to the hits.
LEMMA RuneHits ==
  ASSUME NEW t, IsText(t), NEW k \in 1..Len(t), NEW p, PassOK(p), Remembers(p, t, k - 1),
         NEW q, q = NormalizeRune(p, t, k)
  PROVE  /\ Remembers(q, t, k)
         /\ q.hits = IF k \in Alikes(t) THEN Add(p.hits, LookAlike, k)
                     ELSE IF k \in Hiddens(t) THEN Add(p.hits, Invisible, k) ELSE p.hits
<1>1. PICK at, r : at = OffsetOf(t, k) /\ r = t[k]
  OBVIOUS
<1>2. Len(t) \in Nat /\ DOMAIN t = 1..Len(t) /\ r \in DOMAIN Runes
  BY <1>1 DEF IsText
<1>3. k \in Alikes(t) <=> Foreign(r) /\ ~Dropped(r) /\ InDisguise(t, k)
  BY <1>1, DisguiseIs
<1>4. k \in Hiddens(t) <=> Dropped(r) /\ JoinsBefore(t, k) /\ JoinsAfter(t, k)
  <2>1. JoinsAfter(t, k) <=> \E c \in (k + 1)..Len(t) : Joins(t[c]) /\ \A j \in (k + 1)..(c - 1) : Dropped(t[j])
    BY DEF JoinsAfter
  <2>2. JoinsBefore(t, k) <=> \E b \in 1..(k - 1) : Joins(t[b]) /\ \A j \in (b + 1)..(k - 1) : Dropped(t[j])
    BY DEF JoinsBefore
  <2>3. k \in Hiddens(t) <=> Dropped(r) /\ \E b \in 1..(k - 1), c \in (k + 1)..Len(t) :
          Joins(t[b]) /\ Joins(t[c]) /\ \A j \in (b + 1)..(c - 1) : Dropped(t[j])
    BY <1>1, <1>2 DEF Hiddens
  <2>4. ASSUME Dropped(r), NEW b \in 1..(k - 1), NEW c \in (k + 1)..Len(t)
        PROVE  (\A j \in (b + 1)..(c - 1) : Dropped(t[j])) <=>
                 /\ \A j \in (b + 1)..(k - 1) : Dropped(t[j])
                 /\ \A j \in (k + 1)..(c - 1) : Dropped(t[j])
    <3>1. \A j : j \in (b + 1)..(c - 1) <=> j \in (b + 1)..(k - 1) \/ j = k \/ j \in (k + 1)..(c - 1)
      BY <1>2
    <3> QED
      BY <1>1, <2>4, <3>1
  <2> QED
    BY <2>1, <2>2, <2>3, <2>4
<1>5. ASSUME q.until = p.until, q.swapped = p.swapped PROVE Remembers(q, t, k)
  <2>1. \A j \in (k + 1)..Len(t) : j \in (k - 1 + 1)..Len(t)
    BY <1>2
  <2> QED
    BY <1>5, <2>1 DEF Remembers
<1>6. CASE Dropped(r)
  <2>2. PICK hits : hits = Add(p.hits, Invisible, k)
    OBVIOUS
  <2>3. PICK h : h = [p EXCEPT !.hits = hits]
    OBVIOUS
  <2>4. q = IF JoinsBefore(t, k) /\ JoinsAfter(t, k) THEN h ELSE p
    BY <1>1, <1>6, <2>2, <2>3, Zenon DEF NormalizeRune
  <2>5. DOMAIN p = {"out", "size", "shifts", "hits", "until", "swapped"}
    BY DEF PassOK
  <2>6. h.hits = hits /\ h.until = p.until /\ h.swapped = p.swapped
    BY ONLY <2>3, <2>5
  <2>7. q.until = p.until /\ q.swapped = p.swapped
    BY <2>4, <2>6
  <2> QED
    BY <1>3, <1>4, <1>5, <1>6, <2>2, <2>4, <2>6, <2>7
<1>7. CASE ~Dropped(r) /\ Foreign(r)
  <2>1. PICK w : w = Swap(p, t, k, WordStart(t, k))
    OBVIOUS
  <2>2. Remembers(w, t, k) /\ w.hits = p.hits /\ ((k < w.until /\ w.swapped) <=> InDisguise(t, k))
    BY <1>1, <1>7, <2>1, SwapRemembers
  <2>3. PassOK(w)
    BY <2>1, SwappedOK
  <2>4. PICK swaps : swaps = (k < w.until /\ w.swapped)
    OBVIOUS
  <2>5. q = FoldForeign(w, r, k, at)
    BY <1>1, <1>7, <2>1, Zenon DEF NormalizeRune, KeepRune
  <2>6. q = Fold(w, r, k, at, swaps)
    BY <2>4, <2>5, Zenon DEF FoldForeign
  <2>7. /\ q.hits = IF swaps THEN Add(w.hits, LookAlike, k) ELSE w.hits
        /\ q.until = w.until /\ q.swapped = w.swapped
    BY <1>2, <2>3, <2>6, FoldedOK
  <2>8. Remembers(q, t, k)
    BY <2>2, <2>7 DEF Remembers
  <2> QED
    BY <1>3, <1>4, <1>7, <2>2, <2>4, <2>7, <2>8
<1>8. CASE ~Dropped(r) /\ ~Foreign(r)
  <2>1. PICK s : s = IF Runes[r].size = 1 THEN <<r>> ELSE Runes[r].mapped
    OBVIOUS
  <2>2. Sequence(s)
    <3>1. <<r>> \in Seq(DOMAIN Runes) /\ Runes[r].mapped \in Seq(DOMAIN Runes)
      BY <1>2, RunesAssumption
    <3> QED
      BY <2>1, <3>1, ListingOf
  <2>3. q = Write(p, s, at, r)
    BY <1>1, <1>8, <2>1, Zenon DEF NormalizeRune, KeepRune
  <2>4. q.hits = p.hits /\ q.until = p.until /\ q.swapped = p.swapped
    BY <2>2, <2>3, WrittenOK
  <2> QED
    BY <1>3, <1>4, <1>5, <1>8, <2>4
<1> QED
  BY <1>6, <1>7, <1>8

LEMMA HitMore ==
  ASSUME NEW h, NEW t, NEW k \in Nat \ {0}, HitOK(h, t, k - 1)
  PROVE  HitOK(h, t, k)
BY DEF HitOK

LEMMA HitsLater ==
  ASSUME NEW t, IsText(t), NEW k \in 1..Len(t), NEW hits, HitsOK(hits, t, k - 1),
         NEW new, NEW rule \in HitRules \cup {"none"}, rule \in HitRules => k \in PlacesOf(t, rule),
         \A other \in HitRules : k \in PlacesOf(t, other) => other = rule,
         new = IF rule \in HitRules THEN Add(hits, rule, k) ELSE hits
  PROVE  HitsOK(new, t, k)
<1>1. k \in Nat \ {0} /\ \A r \in HitRules : \A x \in PlacesOf(t, r) : x <= k => x <= k - 1 \/ x = k
  <2>1. DOMAIN t \in SUBSET Nat
    BY DEF IsText
  <2>2. \A r \in HitRules : PlacesOf(t, r) \in SUBSET Nat
    BY <2>1 DEF PlacesOf, Alikes, Hiddens
  <2> QED
    BY <2>2
<1>2. PICK m : m = Len(hits)
  OBVIOUS
<1>3. Sequence(hits) /\ m \in Nat /\ DOMAIN hits = 1..m
  BY <1>2, Listing DEF HitsOK
<1>4. \A j \in 1..m : HitOK(hits[j], t, k)
  BY <1>1, <1>2, HitMore DEF HitsOK
<1>5. \A r \in HitRules : \A x \in PlacesOf(t, r) : x <= k - 1 => \E j \in 1..m : Covers(hits[j], r, x)
  BY <1>2 DEF HitsOK
<1>6. CASE rule \notin HitRules
  <2>1. \A r \in HitRules : k \notin PlacesOf(t, r)
    BY <1>6
  <2> QED
    BY <1>1, <1>2, <1>3, <1>4, <1>5, <1>6, <2>1 DEF HitsOK
<1>7. CASE rule \in HitRules /\ m > 0 /\ hits[m].rule = rule /\ hits[m].to = k
  <2>1. PICK to : to = k + 1
    OBVIOUS
  <2>2. new = [hits EXCEPT ![m].to = to]
    BY <1>2, <1>7, <2>1, Zenon DEF Add, AddHit
  <2>3. PICK h : h = hits[m]
    OBVIOUS
  <2>4. PICK g : g = [h EXCEPT !.to = to]
    OBVIOUS
  <2>5. m \in 1..m /\ HitOK(h, t, k - 1) /\ h.rule = rule /\ h.to = k
    BY <1>2, <1>3, <1>7, <2>3 DEF HitsOK
  <2>6. DOMAIN h = {"rule", "from", "to"}
    BY <2>5 DEF HitOK
  <2>7. DOMAIN g = {"rule", "from", "to"} /\ g.rule = h.rule /\ g.from = h.from /\ g.to = to
    BY ONLY <2>4, <2>6
  <2>8. DOMAIN new = 1..m /\ new[m] = g /\ \A j \in 1..m : j # m => new[j] = hits[j]
    BY ONLY <1>3, <2>2, <2>3, <2>4, <2>5
  <2>9. new = [j \in 1..m |-> new[j]]
    BY ONLY <1>3, <2>2
  <2>10. Sequence(new) /\ Len(new) = m
    BY <1>3, <2>9, Indexed
  <2>11. h.from \in 1..(k - 1) /\ \A x \in h.from..(k - 1) : x \in PlacesOf(t, rule)
    BY <2>5 DEF HitOK
  <2>12. HitOK(g, t, k) /\ Covers(g, rule, k)
    <3>1. \A x \in h.from..k : x \in h.from..(k - 1) \/ x = k
      BY <1>1, <2>11
    <3>2. \A x \in h.from..k : x \in PlacesOf(t, rule)
      BY <1>7, <2>11, <3>1
    <3>3. h.from \in 1..k /\ to \in 2..(k + 1) /\ h.from < to /\ to - 1 = k /\ h.from <= k /\ k < to
      BY <1>1, <2>1, <2>11
    <3> QED
      BY <1>7, <2>5, <2>7, <3>2, <3>3 DEF HitOK, Covers
  <2>13. ASSUME NEW r, NEW x \in Nat, Covers(h, r, x) PROVE Covers(g, r, x)
    <3>1. x < k => x < to
      BY <1>1, <2>1, <2>13
    <3> QED
      BY <2>5, <2>7, <2>13, <3>1 DEF Covers
  <2>14. \A j \in 1..m : HitOK(new[j], t, k)
    BY <1>4, <2>8, <2>12
  <2>15. ASSUME NEW r \in HitRules, NEW x \in PlacesOf(t, r), x <= k
         PROVE  \E j \in 1..m : Covers(new[j], r, x)
    <3>1. CASE x = k
      BY <1>7, <2>5, <2>8, <2>12, <2>15, <3>1
    <3>2. CASE x <= k - 1
      <4>1. PICK j \in 1..m : Covers(hits[j], r, x)
        BY <1>5, <3>2
      <4>2. x \in Nat
        BY DEF PlacesOf, Alikes, Hiddens, IsText
      <4> QED
        BY <2>3, <2>8, <2>13, <4>1, <4>2
    <3> QED
      BY <1>1, <2>15, <3>1, <3>2
  <2> QED
    BY <2>10, <2>14, <2>15 DEF HitsOK
<1>8. CASE rule \in HitRules /\ ~(m > 0 /\ hits[m].rule = rule /\ hits[m].to = k)
  <2>1. PICK to : to = k + 1
    OBVIOUS
  <2>2. PICK g : g = [rule |-> rule, from |-> k, to |-> to]
    OBVIOUS
  <2>3. new = Append(hits, g)
    BY <1>2, <1>8, <2>1, <2>2, Zenon DEF Add, AddHit
  <2>4. Sequence(new) /\ Len(new) = m + 1
    BY ONLY <1>2, <1>3, <2>3, Appended
  <2>5. new[m + 1] = g /\ \A j \in 1..m : new[j] = hits[j]
    BY ONLY <1>2, <1>3, <2>3, Appended
  <2>6. HitOK(g, t, k) /\ Covers(g, rule, k)
    <3>1. DOMAIN g = {"rule", "from", "to"} /\ g.rule = rule /\ g.from = k /\ g.to = to
      BY <2>2
    <3>2. k \in 1..k /\ to \in 2..(k + 1) /\ k < to /\ \A x \in k..(to - 1) : x = k
      BY <1>1, <2>1
    <3> QED
      BY <1>8, <3>1, <3>2 DEF HitOK, Covers
  <2>7. \A j \in 1..(m + 1) : j \in 1..m \/ j = m + 1
    BY <1>3
  <2>8. m + 1 \in 1..(m + 1) /\ \A j \in 1..m : j \in 1..(m + 1)
    BY <1>3
  <2>9. \A j \in 1..(m + 1) : HitOK(new[j], t, k)
    BY <1>4, <2>5, <2>6, <2>7
  <2>10. ASSUME NEW r \in HitRules, NEW x \in PlacesOf(t, r), x <= k
         PROVE  \E j \in 1..(m + 1) : Covers(new[j], r, x)
    <3>1. CASE x = k
      BY <1>8, <2>5, <2>6, <2>8, <2>10, <3>1
    <3>2. CASE x <= k - 1
      BY <1>5, <2>5, <2>8, <3>2
    <3> QED
      BY <1>1, <2>10, <3>1, <3>2
  <2> QED
    BY <2>4, <2>9, <2>10 DEF HitsOK
<1> QED
  BY <1>3, <1>6, <1>7, <1>8

LEMMA NormalizeHits ==
  ASSUME NEW t, IsText(t)
  PROVE  HitsOK(Normalize(t).hits, t, Len(t))
<1>1. PICK n : n = Len(t)
  OBVIOUS
<1>2. n \in Nat /\ DOMAIN t = 1..n
  BY <1>1 DEF IsText
<1> DEFINE run == Normalizing(t)
           T == {k \in 0..n : PassOK(run[k]) /\ Remembers(run[k], t, k) /\ HitsOK(run[k].hits, t, k)}
<1>3. 0 \in T
  <2>1. run[0] = FirstPass
    BY <1>1, <1>2, NormalizingCourse
  <2>2. PassOK(FirstPass) /\ Remembers(FirstPass, t, 0)
    BY DEF PassOK, FirstPass, Remembers, Sequence
  <2>3. FirstPass.hits = << >> /\ Sequence(<< >>) /\ Len(<< >>) = 0
    BY DEF FirstPass, Sequence
  <2>4. \A rule \in HitRules : \A x \in PlacesOf(t, rule) : ~(x <= 0)
    BY <1>2 DEF PlacesOf, Alikes, Hiddens
  <2>5. HitsOK(<< >>, t, 0)
    BY <2>3, <2>4 DEF HitsOK
  <2> QED
    BY <1>2, <2>1, <2>2, <2>3, <2>5
<1>4. ASSUME NEW k \in 1..n, k - 1 \in T PROVE k \in T
  <2>1. PICK p, q : p = run[k - 1] /\ q = run[k]
    OBVIOUS
  <2>2. k \in 1..Len(t) /\ t[k] \in DOMAIN Runes
    BY <1>1, <1>2 DEF IsText
  <2>3. q = NormalizeRune(p, t, k) /\ PassOK(p) /\ Remembers(p, t, k - 1) /\ HitsOK(p.hits, t, k - 1)
    BY <1>1, <1>2, <1>4, <2>1, NormalizingCourse
  <2>4. PassOK(q)
    BY <2>2, <2>3, RuneOK
  <2>5. PICK rule : rule = IF k \in Alikes(t) THEN LookAlike ELSE IF k \in Hiddens(t) THEN Invisible ELSE "none"
    OBVIOUS
  <2>6. ~(k \in Alikes(t) /\ k \in Hiddens(t)) /\ HitRules = {LookAlike, Invisible}
        /\ LookAlike # Invisible /\ "none" \notin HitRules
    BY DEF Alikes, Hiddens, Foreign, Dropped, HitRules, LookAlike, Invisible
  <2>7. PICK new : new = q.hits
    OBVIOUS
  <2>8. Remembers(q, t, k) /\ new = IF rule \in HitRules THEN Add(p.hits, rule, k) ELSE p.hits
    BY <2>2, <2>3, <2>5, <2>6, <2>7, RuneHits
  <2>9. /\ rule \in HitRules \cup {"none"} /\ (rule \in HitRules => k \in PlacesOf(t, rule))
        /\ \A other \in HitRules : k \in PlacesOf(t, other) => other = rule
    BY <2>5, <2>6 DEF PlacesOf
  <2>10. PICK hits : hits = p.hits
    OBVIOUS
  <2>11. HitsOK(new, t, k)
    BY <2>2, <2>3, <2>8, <2>9, <2>10, HitsLater
  <2>12. k \in 0..n
    BY <1>2
  <2> QED
    BY <2>1, <2>4, <2>7, <2>8, <2>11, <2>12, Zenon
<1> HIDE DEF T
<1>5. n \in T
  BY <1>2, <1>3, <1>4, UpTo
<1> QED
  BY <1>1, <1>5 DEF T, Normalize

\* A rune is in the line after the newlines before it.
LEMMA SameMany ==
  ASSUME NEW S, IsFiniteSet(S), NEW f, \A x, y \in S : f[x] = f[y] => x = y
  PROVE  IsFiniteSet({f[x] : x \in S}) /\ Cardinality({f[x] : x \in S}) = Cardinality(S)
<1>1. PICK T, g : T = {f[x] : x \in S} /\ g = [x \in S |-> f[x]]
  OBVIOUS
<1>2. g \in Surjection(S, T) /\ g \in Injection(S, T)
  BY <1>1 DEF Surjection, Injection, IsInjective
<1> QED
  BY <1>1, <1>2, FS_Surjection

LEMMA RowCount ==
  ASSUME NEW t, IsText(t), NEW k \in 1..Len(t)
  PROVE  Row(t, k) = Cardinality({j \in 1..(k - 1) : t[j] = Newline}) + 1
<1>1. PICK n, off : n = Len(t) /\ off = Offsets(t)
  OBVIOUS
<1>2. n \in Nat /\ DOMAIN t = 1..n /\ k \in 1..n
  BY <1>1 DEF IsText
<1>3. ASSUME NEW j \in 0..n, NEW l \in 0..n
      PROVE  off[j] \in Nat /\ off[l] \in Nat /\ (j < l => off[j] < off[l]) /\ (j <= l => off[j] <= off[l])
  <2>1. off[j] \in Nat /\ off[l] \in Nat /\ (j <= l => off[j] <= off[l])
    BY <1>1, OffsetsRise
  <2>2. CASE j < l
    <3>1. l - 1 \in 0..n /\ j <= l - 1 /\ l \in 1..n
      BY <1>2, <2>2
    <3>2. off[j] <= off[l - 1] /\ off[l - 1] \in Nat /\ off[l - 1] < off[l]
      BY <1>1, <3>1, OffsetsRise, OffsetsGrow
    <3> QED
      BY <2>1, <3>2
  <2> QED
    BY <2>1, <2>2
<1> DEFINE J == {j \in 1..(k - 1) : t[j] = Newline}
           S == {s \in LineStarts(t) : s <= OffsetOf(t, k)}
           T == {off[x] : x \in J}
<1>4. off[0] = 0 /\ OffsetOf(t, k) = off[k - 1] /\ k - 1 \in 0..n /\ J \subseteq 0..n
  BY <1>1, <1>2, OffsetsCourse DEF OffsetOf
<1>5. LineStarts(t) = {0} \cup {off[x] : x \in {j \in 1..n : t[j] = Newline}}
  <2>1. \A x \in 1..n : OffsetOf(t, x + 1) = off[x]
    BY <1>1, <1>2 DEF OffsetOf
  <2> QED
    BY <1>2, <2>1 DEF LineStarts
<1>6. S = T \cup {0}
  <2>1. ASSUME NEW x \in 1..n PROVE off[x] <= off[k - 1] <=> x \in 1..(k - 1)
    BY <1>2, <1>3, <1>4
  <2>2. J = {j \in {q \in 1..n : t[q] = Newline} : off[j] <= off[k - 1]}
    BY <1>2, <2>1
  <2>3. 0 <= off[k - 1]
    BY <1>3, <1>4
  <2> QED
    BY <1>4, <1>5, <2>2, <2>3
<1>7. IsFiniteSet(J)
  <2>1. IsFiniteSet(1..(k - 1))
    BY <1>2, FS_Interval
  <2> QED
    BY <2>1, FS_Subset
<1>8. \A x, y \in J : off[x] = off[y] => x = y
  BY <1>2, <1>3
<1>9. 0 \notin T
  <2>1. ASSUME NEW x \in J PROVE off[x] # 0
    <3>1. 0 \in 0..n /\ x \in 0..n /\ 0 < x
      BY <1>2
    <3> QED
      BY <1>3, <1>4, <3>1
  <2> QED
    BY <2>1
<1> HIDE DEF J, T, S
<1>10. IsFiniteSet(T) /\ Cardinality(T) = Cardinality(J)
  BY <1>7, <1>8, SameMany DEF T
<1>11. Cardinality(S) = Cardinality(J) + 1
  BY <1>6, <1>9, <1>10, FS_AddElement
<1> QED
  BY <1>11, Zenon DEF J, S, Row, LineAt

LEMMA HitRows ==
  ASSUME NEW t, IsText(t), NEW hits, HitsOK(hits, t, Len(t)), NEW rule \in HitRules
  PROVE  RowsOf(t, rule) = {Row(t, hits[q].from) : q \in {j \in 1..Len(hits) : hits[j].rule = rule}}
<1>1. PICK n : n = Len(t)
  OBVIOUS
<1>2. n \in Nat /\ DOMAIN t = 1..n
  BY <1>1 DEF IsText
<1>3. \A k \in PlacesOf(t, rule) : k \in 1..n /\ t[k] # Newline
  <2>1. ASSUME NEW k \in PlacesOf(t, rule) PROVE k \in 1..n /\ Runes[t[k]].kind \in {"letter", "hidden"}
    BY <1>2 DEF PlacesOf, Alikes, Hiddens, Foreign, Dropped
  <2> QED
    BY <1>1, <1>2, <2>1, RunesAssumption DEF IsText
<1>4. RowsOf(t, rule) = {Row(t, k) : k \in PlacesOf(t, rule)}
  BY <1>1, <1>3, RowCount DEF RowsOf
<1>5. ASSUME NEW j \in 1..Len(hits), hits[j].rule = rule
      PROVE  /\ hits[j].from \in PlacesOf(t, rule)
             /\ \A k \in PlacesOf(t, rule) : Covers(hits[j], rule, k) => Row(t, k) = Row(t, hits[j].from)
  <2>1. PICK h, from, to : h = hits[j] /\ from = h.from /\ to = h.to
    OBVIOUS
  <2>2. from \in 1..n /\ to \in 2..(n + 1) /\ from < to /\ \A x \in from..(to - 1) : x \in PlacesOf(t, rule)
    BY <1>1, <1>5, <2>1 DEF HitsOK, HitOK
  <2>3. from \in PlacesOf(t, rule)
    BY <1>2, <2>2
  <2>4. ASSUME NEW k \in from..(to - 1) PROVE Row(t, k) = Row(t, from)
    <3>1. \A x \in 1..(k - 1) : x \in 1..(from - 1) \/ x \in from..(to - 1)
      BY <1>2, <2>2
    <3>2. {x \in 1..(k - 1) : t[x] = Newline} = {x \in 1..(from - 1) : t[x] = Newline}
      BY <1>2, <1>3, <2>2, <3>1
    <3>3. k \in 1..n
      BY <1>2, <2>2
    <3> QED
      BY <1>1, <2>2, <3>2, <3>3, RowCount
  <2>5. ASSUME NEW k \in PlacesOf(t, rule), Covers(h, rule, k) PROVE Row(t, k) = Row(t, from)
    <3>1. k \in from..(to - 1)
      BY <1>2, <1>3, <2>1, <2>2, <2>5 DEF Covers
    <3> QED
      BY <2>4, <3>1
  <2> QED
    BY <2>1, <2>3, <2>5
<1>6. ASSUME NEW k \in PlacesOf(t, rule)
      PROVE  \E j \in 1..Len(hits) : hits[j].rule = rule /\ Row(t, k) = Row(t, hits[j].from)
  <2>1. k <= n
    BY <1>2, <1>3
  <2>2. PICK j \in 1..Len(hits) : Covers(hits[j], rule, k)
    BY <1>1, <2>1 DEF HitsOK
  <2> QED
    BY <1>5, <2>2 DEF Covers
<1> QED
  BY <1>4, <1>5, <1>6

LEMMA UniqueOnce ==
  ASSUME NEW fs, Sequence(fs)
  PROVE  SeenOnce(Unique(fs, {}).out, Unique(fs, {}).seen, fs, Len(fs))
<1>1. PICK n, f : n = Len(fs) /\ f = Seeing(fs, {})
  OBVIOUS
<1>2. /\ n \in Nat /\ f[0] = [seen |-> {}, out |-> << >>]
      /\ \A k \in 1..n : f[k] = SeeAt(f[k - 1], fs[k], Place(fs[k]))
  BY <1>1, Listing, SeeingCourse
<1> DEFINE T == {k \in 0..n : SeenOnce(f[k].out, f[k].seen, fs, k)}
<1>3. 0 \in T
  <2>1. f[0].out = << >> /\ f[0].seen = {} /\ Sequence(<< >>) /\ Len(<< >>) = 0
    BY <1>2 DEF Sequence
  <2> QED
    BY <1>2, <2>1 DEF SeenOnce
<1>4. ASSUME NEW k \in 1..n, k - 1 \in T PROVE k \in T
  <2>1. PICK acc, e, place, s, m : acc = f[k - 1] /\ e = fs[k] /\ place = Place(e) /\ s = acc.out /\ m = Len(s)
    OBVIOUS
  <2>2. SeenOnce(s, acc.seen, fs, k - 1) /\ Sequence(s) /\ m \in Nat
    BY <1>4, <2>1, Listing DEF SeenOnce
  <2>3. /\ k \in 0..n /\ f[k] = SeeAt(acc, e, place)
        /\ \A q \in 1..k : q \in 1..(k - 1) \/ q = k
    BY <1>2, <2>1
  <2>4. CASE place \in acc.seen
    <3>1. f[k] = acc
      BY <2>3, <2>4 DEF SeeAt
    <3>2. SeenOnce(s, acc.seen, fs, k)
      BY <2>1, <2>2, <2>3, <2>4 DEF SeenOnce
    <3> QED
      BY <2>1, <2>3, <3>1, <3>2
  <2>5. CASE place \notin acc.seen
    <3>1. PICK new, now, q : new = Append(s, e) /\ now = acc.seen \cup {place} /\ q = f[k]
      OBVIOUS
    <3>2. q = [seen |-> now, out |-> new]
      BY <2>1, <2>3, <2>5, <3>1, Zenon DEF SeeAt
    <3>3. Sequence(new) /\ Len(new) = m + 1
      BY <2>1, <2>2, <3>1, Appended
    <3>4. new[m + 1] = e /\ \A j \in 1..m : new[j] = s[j]
      BY <2>1, <2>2, <3>1, Appended
    <3>5. PICK last, old : last = m + 1 /\ old = acc.seen
      OBVIOUS
    <3>6. last \in 1..last /\ \A j \in 1..last : j \in 1..m \/ j = last
      BY <2>2, <3>5
    <3>7. q.out = new /\ q.seen = now
      BY ONLY <3>2
    <3>8. /\ new[last] = e /\ place = Place(e) /\ place \notin old /\ now = old \cup {place}
          /\ \A j \in 1..m : new[j] = s[j] /\ j \in 1..last
      BY <2>1, <2>2, <2>5, <3>1, <3>4, <3>5
    <3>9. SeenOnce(s, old, fs, k - 1) /\ m = Len(s) /\ place = Place(fs[k])
      BY <2>1, <2>2, <3>5
    <3>10. \A j \in 1..last : Place(new[j]) \in now
      BY ONLY <3>6, <3>8, <3>9 DEF SeenOnce
    <3>11. \A x \in now : \E j \in 1..last : Place(new[j]) = x
      BY ONLY <3>6, <3>8, <3>9 DEF SeenOnce
    <3>12. \A j, l \in 1..last : Place(new[j]) = Place(new[l]) => j = l
      <4>1. \A j \in 1..m : Place(new[j]) = Place(s[j]) /\ Place(s[j]) \in old
        BY ONLY <3>8, <3>9 DEF SeenOnce
      <4>2. \A j, l \in 1..m : Place(new[j]) = Place(new[l]) => j = l
        BY ONLY <4>1, <3>9 DEF SeenOnce
      <4> QED
        BY ONLY <3>6, <3>8, <4>1, <4>2
    <3>13. \A j \in 1..k : Place(fs[j]) \in now
      BY ONLY <2>3, <3>8, <3>9 DEF SeenOnce
    <3>14. SeenOnce(new, now, fs, k)
      BY ONLY <3>3, <3>5, <3>10, <3>11, <3>12, <3>13 DEF SeenOnce
    <3> QED
      BY <2>3, <3>1, <3>7, <3>14
  <2> QED
    BY <2>4, <2>5
<1> HIDE DEF T
<1>5. \A k \in 0..n : k \in T
  BY <1>2, <1>3, <1>4, UpTo
<1>6. n \in T
  BY <1>2, <1>5
<1> QED
  BY <1>1, <1>6 DEF T, Unique

\* Of a set of numbers, those with fewer than max before them are all, or max.
LEMMA FirstOnes ==
  ASSUME NEW n \in Nat, NEW R \in SUBSET (1..n), NEW max \in Nat,
         NEW C, C = {k \in R : Cardinality(R \cap (1..(k - 1))) < max}
  PROVE  IsFiniteSet(R) /\ IsFiniteSet(C) /\ Cardinality(C) = Lower(Cardinality(R), max)
<1> DEFINE B(k) == R \cap (1..k)
           D(k) == C \cap (1..k)
           T == {k \in 0..n : /\ IsFiniteSet(B(k)) /\ IsFiniteSet(D(k))
                              /\ Cardinality(D(k)) = Lower(Cardinality(B(k)), max)}
<1>1. 0 \in T
  <2>1. B(0) = {} /\ D(0) = {}
    OBVIOUS
  <2> QED
    BY <2>1, FS_EmptySet DEF Lower
<1>2. ASSUME NEW k \in 1..n, k - 1 \in T PROVE k \in T
  <2>1. PICK b, d : b = B(k - 1) /\ d = D(k - 1)
    OBVIOUS
  <2>2. /\ IsFiniteSet(b) /\ IsFiniteSet(d) /\ Cardinality(d) = Lower(Cardinality(b), max)
        /\ Cardinality(b) \in Nat /\ k \in 0..n /\ k \notin b /\ k \notin d
    BY <1>2, <2>1, FS_CardinalityType
  <2>3. \A j : j \in 1..k <=> j \in 1..(k - 1) \/ j = k
    OBVIOUS
  <2>4. B(k) = (IF k \in R THEN b \cup {k} ELSE b) /\ D(k) = (IF k \in C THEN d \cup {k} ELSE d)
    BY <2>1, <2>3
  <2>5. k \in C <=> k \in R /\ Cardinality(b) < max
    BY <2>1
  <2>6. /\ IsFiniteSet(b \cup {k}) /\ Cardinality(b \cup {k}) = Cardinality(b) + 1
        /\ IsFiniteSet(d \cup {k}) /\ Cardinality(d \cup {k}) = Cardinality(d) + 1
    BY <2>2, FS_AddElement
  <2>7. PICK x, y : x = B(k) /\ y = D(k)
    OBVIOUS
  <2>9. /\ k \in R => x = b \cup {k}
        /\ k \notin R => x = b
        /\ k \in C => y = d \cup {k}
        /\ k \notin C => y = d
    BY <2>4, <2>7
  <2>8. IsFiniteSet(x) /\ IsFiniteSet(y) /\ Cardinality(y) = Lower(Cardinality(x), max)
    BY ONLY <2>2, <2>5, <2>6, <2>9, max \in Nat DEF Lower
  <2> QED
    BY <2>2, <2>7, <2>8
<1>3. B(n) = R /\ D(n) = C
  OBVIOUS
<1> HIDE DEF T
<1>4. n \in T
  BY <1>1, <1>2, UpTo
<1> QED
  BY <1>3, <1>4 DEF T

LEMMA PickedSet ==
  ASSUME NEW s, Sequence(s), NEW I \in SUBSET (1..Len(s)), NEW p, p = Picked(s, I)
  PROVE  /\ Sequence(p) /\ ToSet(p) = {s[k] : k \in I}
         /\ \A j \in 1..Len(p) : \E k \in I : p[j] = s[k]
         /\ \A k \in I : \E j \in 1..Len(p) : p[j] = s[k]
<1>1. PICK l : l = Len(p)
  OBVIOUS
<1>2. Sequence(p) /\ \E h \in [1..l -> I] : Along(s, h, p) /\ \A k \in I : \E j \in 1..l : h[j] = k
  <2>1. /\ Sequence(Picked(s, I))
        /\ \E h \in [1..Len(Picked(s, I)) -> I] :
             Along(s, h, Picked(s, I)) /\ \A k \in I : \E j \in 1..Len(Picked(s, I)) : h[j] = k
    BY PickedOf
  <2> QED
    BY ONLY <1>1, <2>1, p = Picked(s, I)
<1>3. PICK h \in [1..l -> I] : Along(s, h, p) /\ \A k \in I : \E j \in 1..l : h[j] = k
  BY <1>2
<1>4. DOMAIN p = 1..l /\ \A j \in 1..l : p[j] = s[h[j]] /\ h[j] \in I
  BY <1>1, <1>2, <1>3, Listing DEF Along
<1>5. \A k \in I : \E j \in 1..l : p[j] = s[k]
  BY <1>3, <1>4
<1>7. \A j \in 1..l : \E k \in I : p[j] = s[k]
  BY <1>4
<1>6. ToSet(p) = {s[k] : k \in I}
  <2>1. ToSet(p) = {p[j] : j \in 1..l}
    BY <1>4 DEF ToSet
  <2> QED
    BY ONLY <1>5, <1>7, <2>1
<1> QED
  BY ONLY <1>1, <1>2, <1>5, <1>6, <1>7

LEMMA HitsTell ==
  ASSUME NEW a, NEW hits, Sequence(hits), NEW starts, NEW fs, fs = HitFindings(a, hits, starts)
  PROVE  HitsTold(fs, a, hits, [q \in 1..Len(hits) |-> LineAt(starts, OffsetOf(a.text, hits[q].from))])
<1>1. PICK I, hs, l, row : /\ I = {k \in DOMAIN hits : hits[k].rule \in case.allowed}
                           /\ hs = Picked(hits, I) /\ l = Len(hs)
                           /\ row = [q \in 1..Len(hits) |-> LineAt(starts, OffsetOf(a.text, hits[q].from))]
  OBVIOUS
<1>2. DOMAIN hits = 1..Len(hits) /\ I \in SUBSET (1..Len(hits)) /\ hs = Picked(hits, I)
  BY <1>1, Listing
<1>3. /\ Sequence(hs) /\ l \in Nat /\ DOMAIN hs = 1..l
      /\ \A j \in 1..l : \E k \in I : hs[j] = hits[k]
      /\ \A k \in I : \E j \in 1..l : hs[j] = hits[k]
  <2>1. hs = Picked(hits, I) /\ I \in SUBSET (1..Len(hits))
    BY <1>2
  <2>2. Sequence(hs)
    BY ONLY <2>1, Sequence(hits), PickedSet, SMTT(60)
  <2>3. \A j \in 1..Len(hs) : \E k \in I : hs[j] = hits[k]
    BY ONLY <2>1, Sequence(hits), PickedSet, SMTT(60)
  <2>4. \A k \in I : \E j \in 1..Len(hs) : hs[j] = hits[k]
    BY ONLY <2>1, Sequence(hits), PickedSet, SMTT(60)
  <2> QED
    BY <1>1, <2>2, <2>3, <2>4, Listing
<1>4. fs = [k \in 1..l |-> Finding(hs[k].rule, a.path, LineAt(starts, OffsetOf(a.text, hs[k].from)))]
  BY <1>1, <1>3 DEF HitFindings, FindingsOf
<1>5. Sequence(fs) /\ Len(fs) = l
  <2>1. fs = [k \in 1..l |-> fs[k]]
    BY <1>4
  <2> QED
    BY <1>3, <2>1, Indexed
<1>6. \A k \in 1..l : fs[k].rule = hs[k].rule /\ fs[k].file = a.path
                        /\ fs[k].line = LineAt(starts, OffsetOf(a.text, hs[k].from))
  BY <1>4 DEF Finding
<1>7. \A k \in 1..l, q \in 1..Len(hits) : hs[k] = hits[q] => fs[k].rule = hits[q].rule /\ fs[k].line = row[q]
  BY <1>1, <1>6
<1>8. \A q \in 1..Len(hits) : hits[q].rule \in case.allowed => q \in I
  BY <1>1, <1>2
<1>9. HitsTold(fs, a, hits, row)
  BY <1>2, <1>3, <1>5, <1>6, <1>7, <1>8 DEF HitsTold
<1> QED
  BY <1>1, <1>9

LEMMA HitsFound ==
  ASSUME NEW a, IsText(a.text), NEW rule \in HitRules, rule \in case.allowed, NEW p, p = Normalize(a.text),
         NEW fs, fs = Limited(Unique(HitFindings(a, p.hits, LineStarts(a.text)), {}).out)
  PROVE  UpToCap({f.line : f \in {g \in ToSet(fs) : g.rule = rule /\ g.file = a.path}}, RowsOf(a.text, rule))
<1>1. PICK t, hits, starts : t = a.text /\ hits = p.hits /\ starts = LineStarts(t)
  OBVIOUS
<1>2. HitsOK(hits, t, Len(t)) /\ Sequence(hits)
  BY <1>1, NormalizeHits DEF HitsOK
<1>3. PICK all, u, m, row : /\ all = HitFindings(a, hits, starts) /\ u = Unique(all, {}).out /\ m = Len(u)
                            /\ row = [q \in 1..Len(hits) |-> LineAt(starts, OffsetOf(t, hits[q].from))]
  OBVIOUS
<1>4. HitsTold(all, a, hits, row)
  <2>1. HitsTold(all, a, hits, [q \in 1..Len(hits) |-> LineAt(starts, OffsetOf(a.text, hits[q].from))])
    BY <1>2, <1>3, HitsTell
  <2> QED
    BY <1>1, <1>3, <2>1
<1>5. PICK told : SeenOnce(u, told, all, Len(all))
  BY <1>3, <1>4, UniqueOnce DEF HitsTold
<1>6. Sequence(u) /\ m \in Nat /\ DOMAIN u = 1..m
  BY <1>3, <1>5, Listing DEF SeenOnce
<1>7. \A j \in 1..m : \E k \in 1..Len(all) : u[j] = all[k]
  <2>1. u \in Seq(ToSet(all)) /\ DOMAIN all = 1..Len(all)
    BY <1>3, <1>4, UniqueType, Listing DEF HitsTold
  <2> QED
    BY <1>3, <2>1 DEF ToSet
<1>8. \A j, k \in 1..m : Place(u[j]) = Place(u[k]) => j = k
  BY <1>3, <1>5 DEF SeenOnce
<1>9. \A k \in 1..Len(all) : \E j \in 1..m : Place(u[j]) = Place(all[k])
  BY <1>3, <1>5 DEF SeenOnce
<1>10. \A f, g : Place(f) = Place(g) <=> f.rule = g.rule /\ f.file = g.file /\ f.line = g.line
  BY DEF Place
<1>11. PICK R, line : R = {k \in 1..m : u[k].rule = rule} /\ line = [k \in 1..m |-> u[k].line]
  OBVIOUS
<1>12. PICK J, C : /\ J = {k \in 1..m : Cardinality({j \in 1..(k - 1) : u[j].rule = u[k].rule}) < MaxPerRule}
                   /\ C = {k \in R : Cardinality(R \cap (1..(k - 1))) < MaxPerRule}
  OBVIOUS
<1>13. {line[k] : k \in R} = RowsOf(t, rule)
  <2>1. PICK Q : Q = {q \in 1..Len(hits) : hits[q].rule = rule}
    OBVIOUS
  <2>2. RowsOf(t, rule) = {Row(t, hits[q].from) : q \in Q}
    BY <1>1, <1>2, <2>1, HitRows
  <2>3. RowsOf(t, rule) = {row[q] : q \in Q}
    BY <1>1, <1>3, <2>1, <2>2, Zenon DEF Row
  <2>4. \A k \in R : \E q \in Q : line[k] = row[q]
    BY <1>4, <1>7, <1>11, <2>1 DEF HitsTold
  <2>5. \A q \in Q : \E k \in R : line[k] = row[q]
    <3>1. \A q \in Q : \E k \in 1..Len(all) : all[k].rule = rule /\ all[k].line = row[q]
      BY <1>4, <2>1 DEF HitsTold
    <3>2. \A k \in 1..Len(all) : all[k].rule = rule => \E j \in R : line[j] = all[k].line
      BY <1>9, <1>10, <1>11
    <3> QED
      BY <3>1, <3>2
  <2> QED
    BY <2>3, <2>4, <2>5
<1>14. \A j \in 1..m : u[j].file = a.path
  BY <1>4, <1>7 DEF HitsTold
<1>15. \A j, k \in R : line[j] = line[k] => j = k
  BY <1>8, <1>10, <1>11, <1>14
<1>16. C = R \cap J /\ R \in SUBSET (1..m)
  <2>1. ASSUME NEW k \in R PROVE R \cap (1..(k - 1)) = {j \in 1..(k - 1) : u[j].rule = u[k].rule}
    BY <1>6, <1>11
  <2>2. \A k \in R : k \in C <=> k \in J
    BY <1>11, <1>12, <2>1
  <2> QED
    BY <1>11, <1>12, <2>2
<1>17. {f.line : f \in {g \in ToSet(fs) : g.rule = rule /\ g.file = a.path}} = {line[k] : k \in C}
  <2>1. fs = Picked(u, J) /\ J \in SUBSET (1..Len(u))
    BY <1>1, <1>3, <1>6, <1>12 DEF Limited
  <2>2. ToSet(fs) = {u[k] : k \in J}
    BY <1>6, <2>1, PickedSet
  <2>3. \A k \in J : k \in 1..m /\ line[k] = u[k].line /\ (k \in R <=> u[k].rule = rule)
    BY <1>11, <1>12
  <2> QED
    BY <1>14, <1>16, <2>2, <2>3
<1>18. MaxPerRule \in Nat
  BY StaticAssumption
<1>19. IsFiniteSet(R) /\ IsFiniteSet(C) /\ Cardinality(C) = Lower(Cardinality(R), MaxPerRule)
  BY <1>6, <1>12, <1>16, <1>18, FirstOnes
<1>20. /\ Cardinality({line[k] : k \in R}) = Cardinality(R)
       /\ Cardinality({line[k] : k \in C}) = Cardinality(C)
  BY <1>15, <1>16, <1>19, SameMany
<1> QED
  BY <1>1, <1>13, <1>16, <1>17, <1>19, <1>20 DEF UpToCap

LEMMA LinesJoin ==
  ASSUME NEW fs, Sequence(fs), NEW gs, Sequence(gs), NEW rule \in HitRules, NEW path
  PROVE  /\ Elsewhere(gs, path) => LinesIn(fs \o gs, rule, path) = LinesIn(fs, rule, path)
         /\ Elsewhere(fs, path) => LinesIn(fs \o gs, rule, path) = LinesIn(gs, rule, path)
         /\ Elsewhere(fs, path) => LinesIn(fs, rule, path) = {}
         /\ Elsewhere(fs, path) /\ Elsewhere(gs, path) => Elsewhere(fs \o gs, path)
<1>1. PICK all, n, m : all = fs \o gs /\ n = Len(fs) /\ m = Len(gs)
  OBVIOUS
<1>2. /\ Sequence(all) /\ Len(all) = n + m
      /\ \A q \in 1..n : all[q] = fs[q]
      /\ \A j \in 1..m : all[n + j] = gs[j]
      /\ \A q \in 1..(n + m) : q \in 1..n \/ \E j \in 1..m : q = n + j
  BY <1>1, Joining
<1>3. n \in Nat /\ m \in Nat /\ DOMAIN fs = 1..n /\ DOMAIN gs = 1..m /\ DOMAIN all = 1..(n + m)
  BY <1>1, <1>2, Listing
<1>4. (\A q \in 1..n : q \in 1..(n + m)) /\ \A j \in 1..m : n + j \in 1..(n + m)
  BY <1>3
<1>5. \A x : x \in ToSet(all) <=> x \in ToSet(fs) \/ x \in ToSet(gs)
  <2>1. /\ ToSet(all) = {all[q] : q \in 1..(n + m)} /\ ToSet(fs) = {fs[q] : q \in 1..n}
        /\ ToSet(gs) = {gs[q] : q \in 1..m}
    BY <1>3 DEF ToSet
  <2>2. ASSUME NEW x \in ToSet(all) PROVE x \in ToSet(fs) \/ x \in ToSet(gs)
    BY <1>2, <2>1
  <2>3. ASSUME NEW x, x \in ToSet(fs) \/ x \in ToSet(gs) PROVE x \in ToSet(all)
    <3>1. CASE x \in ToSet(fs)
      <4>1. PICK q \in 1..n : x = fs[q]
        BY <2>1, <3>1
      <4> QED
        BY <1>2, <1>4, <2>1, <4>1
    <3>2. CASE x \in ToSet(gs)
      <4>1. PICK j \in 1..m : x = gs[j]
        BY <2>1, <3>2
      <4> QED
        BY <1>2, <1>4, <2>1, <4>1
    <3> QED
      BY <2>3, <3>1, <3>2
  <2> QED
    BY <2>2, <2>3
<1>6. ASSUME NEW s, Sequence(s), Elsewhere(s, path), NEW x \in ToSet(s)
      PROVE  x.rule \in HitRules => x.file # path
  BY <1>6, Listing DEF Elsewhere, ToSet
<1>7. Elsewhere(fs, path) /\ Elsewhere(gs, path) => Elsewhere(all, path)
  BY <1>1, <1>2 DEF Elsewhere
<1> QED
  BY <1>1, <1>5, <1>6, <1>7 DEF LinesIn

LEMMA ShownStays ==
  ASSUME NEW on, NEW a, NEW b, b.path = a.path, b.text = a.text, NEW fs, Sequence(fs), HitsShown(fs, on, a),
         NEW gs, Elsewhere(gs, a.path), NEW new, new = fs \o gs
  PROVE  HitsShown(new, on, b)
<1>1. \A rule \in HitRules : LinesIn(new, rule, a.path) = LinesIn(fs, rule, a.path)
  BY LinesJoin DEF Elsewhere
<1> QED
  BY <1>1 DEF HitsShown

LEMMA HitsRevealed ==
  ASSUME NEW a, IsText(a.text), Wanted(a), NEW all, Elsewhere(all, a.path),
         NEW p, p = Normalize(a.text), NEW fs, fs = Limited(Unique(HitFindings(a, p.hits, LineStarts(a.text)), {}).out),
         Sequence(fs),
         NEW new, new = IF NeedsNormalize(a.text) THEN all \o fs ELSE all,
         NEW b, b.path = a.path, b.text = a.text
  PROVE  HitsShown(new, case.allowed, b)
<1> SUFFICES ASSUME NEW rule \in HitRules, rule \in case.allowed
             PROVE  UpToCap(LinesIn(new, rule, a.path), RowsOf(a.text, rule))
  BY DEF HitsShown
<1>1. CASE NeedsNormalize(a.text)
  <2>1. UpToCap(LinesIn(fs, rule, a.path), RowsOf(a.text, rule))
    BY HitsFound DEF LinesIn
  <2>2. LinesIn(new, rule, a.path) = LinesIn(fs, rule, a.path)
    BY <1>1, LinesJoin DEF Elsewhere
  <2> QED
    BY <2>1, <2>2
<1>2. CASE ~NeedsNormalize(a.text)
  <2>1. LinesIn(new, rule, a.path) = {}
    BY <1>2, LinesJoin DEF Elsewhere
  <2>2. PICK t : t = a.text
    OBVIOUS
  <2>3. ~NeedsNormalize(t) /\ \A k \in DOMAIN t : t[k] \in ToSet(t)
    BY <1>2, <2>2 DEF ToSet
  <2>4. ASSUME NEW k \in DOMAIN t PROVE ~(Runes[t[k]].size > 1) /\ ~Dropped(t[k])
    BY <2>3 DEF NeedsNormalize
  <2>5. ASSUME NEW k \in Alikes(t) PROVE FALSE
    BY <2>4 DEF Alikes, Concealed
  <2>6. PlacesOf(t, rule) = {}
    BY <2>4, <2>5 DEF PlacesOf, Hiddens
  <2>7. RowsOf(t, rule) = {}
    BY <2>6 DEF RowsOf
  <2>8. MaxPerRule \in Nat /\ Cardinality({}) = 0
    BY StaticAssumption, FS_EmptySet
  <2>9. UpToCap({}, {})
    BY <2>8 DEF UpToCap, Lower
  <2> QED
    BY <2>1, <2>2, <2>7, <2>9
<1> QED
  BY <1>1, <1>2

LEMMA OtherElsewhere ==
  ASSUME NEW fs, OtherRules(fs), NEW path
  PROVE  Elsewhere(fs, path)
BY DEF OtherRules, Elsewhere

LEMMA HitsKept ==
  ASSUME HitInv, pc' \notin {"walk", "reveal"}, Revealed' => Revealed,
         case' = case, artifacts' = artifacts, findings' = findings
  PROVE  HitInv'
BY DEF HitInv, AllShown

LEMMA HitsScanned ==
  ASSUME HitInv, pc = "static", pc' = pc, case' = case, artifacts' = artifacts,
         NEW gs, OtherRules(gs), findings' = findings \o gs
  PROVE  HitInv'
<1>1. PICK fs, new, on : fs = findings /\ new = findings' /\ on = case.allowed
  OBVIOUS
<1>2. Sequence(fs) /\ AllShown
  BY <1>1 DEF HitInv, Revealed
<1>3. Sequence(gs) /\ new = fs \o gs
  BY <1>1 DEF OtherRules
<1>4. Sequence(new)
  BY <1>2, <1>3, Joining
<1>5. ASSUME NEW k \in 1..Len(artifacts), Wanted(artifacts[k]) PROVE HitsShown(new, on, artifacts[k])
  <2>1. PICK a : a = artifacts[k]
    OBVIOUS
  <2>2. HitsShown(fs, on, a)
    BY <1>1, <1>2, <1>5, <2>1 DEF AllShown
  <2>3. Elsewhere(gs, a.path)
    BY OtherElsewhere
  <2>4. HitsShown(new, on, a)
    BY <1>2, <1>3, <2>2, <2>3, ShownStays
  <2> QED
    BY <2>1, <2>4
<1> QED
  BY <1>1, <1>4, <1>5 DEF HitInv, AllShown

LEMMA HitsReported ==
  ASSUME HitInv, pc = "walk", pc' = pc, NEW ids, Sequence(ids), \A id \in HitRules : NoId(ids, id),
         NEW file, Report(ids, file)
  PROVE  HitInv'
<1>1. PICK fs, new : fs = findings /\ new = findings'
  OBVIOUS
<1>2. new = fs \o Findings(Allowed(ids), file)
  BY <1>1, ReportAppends
<1>3. Sequence(fs) /\ \A id \in HitRules : ToldNone(fs, id)
  BY <1>1 DEF HitInv, OtherRules, ToldNone
<1>4. Sequence(new)
  BY <1>2, <1>3, TellType
<1>5. \A id \in HitRules : ToldNone(new, id)
  BY <1>2, <1>3, TellMore
<1>6. OtherRules(new)
  BY <1>4, <1>5 DEF OtherRules, ToldNone
<1> QED
  BY <1>1, <1>4, <1>6 DEF HitInv, Revealed

LEMMA HitsWalked ==
  ASSUME IInv, HitInv, Vanish \/ TakeSpecial \/ Measure \/ ReadFile \/ ReadFails
  PROVE  HitInv'
<1>1. pc = "walk" /\ pc' = pc
  BY DEF Vanish, TakeSpecial, Measure, ReadFile, ReadFails, Walking, AtEntry
<1>2. case \in Cases
  BY <1>1 DEF IInv, WalkInv, WalkShape
<1>3. CASE Vanish \/ TakeSpecial
  <2>1. Report(Counted, Entry.path)
    BY <1>3 DEF Vanish, TakeSpecial, Count
  <2>2. \A id \in HitRules : NoId(Counted, id)
    BY CountedTold, HitNames
  <2> QED
    BY <1>1, <2>1, <2>2, CountedTold, HitsReported
<1>4. CASE Measure
  <2>1. PICK size : Report(Counted \o Measured(size), Entry.path)
    BY <1>4 DEF Measure, MeasureAs
  <2>2. PICK told : told = Counted \o Measured(size)
    OBVIOUS
  <2>3. Sequence(told) /\ \A id \in HitRules : NoId(told, id)
    BY <1>2, <2>2, EntryTold
  <2> QED
    BY <1>1, <2>1, <2>2, <2>3, HitsReported
<1>5. CASE ReadFile
  <2>1. PICK a : ReadAs(a)
    BY <1>5 DEF ReadFile
  <2>2. PICK e : e = Entry
    OBVIOUS
  <2>3. PICK told : told = (IF e.head.encrypted THEN <<"ARCHIVE-ENCRYPTED">> ELSE << >>)
                             \o TextTold(a) \o (IF a.type = "unknown" THEN Detected(e) ELSE << >>)
    OBVIOUS
  <2>4. Sequence(told) /\ \A id \in HitRules : NoId(told, id)
    BY <2>3, ReadTold
  <2>5. Report(told, e.path)
    BY <2>1, <2>2, <2>3 DEF ReadAs
  <2> QED
    BY <1>1, <2>4, <2>5, HitsReported
<1>6. CASE ReadFails
  <2>1. findings' = findings
    BY <1>6 DEF ReadFails
  <2> QED
    BY <1>1, <2>1 DEF HitInv, Revealed
<1> QED
  BY <1>3, <1>4, <1>5, <1>6

LEMMA HitsBegun ==
  ASSUME IInv, ListOK, HitInv, EndWalk
  PROVE  HitInv'
<1>1. pc = "walk" /\ findings' = findings /\ artifacts' = artifacts /\ i' = 1
  BY DEF EndWalk
<1>2. pc' = "reveal" \/ (pc' = "over" /\ ~Live')
  BY DEF EndWalk, After, Order, Live
<1>3. OtherRules(findings) /\ Sequence(findings)
  BY <1>1 DEF HitInv
<1>4. ~Revealed'
  BY <1>2 DEF Revealed
<1>5. Len(artifacts) \in Nat
  BY Listing DEF ListOK
<1>6. \A k \in 1..Len(artifacts) : ~(k < 1)
  BY <1>5
<1>7. \A k \in 1..Len(artifacts) : Elsewhere(findings, artifacts[k].path)
  BY <1>3, OtherElsewhere
<1> QED
  BY <1>1, <1>2, <1>3, <1>4, <1>6, <1>7 DEF HitInv

LEMMA HitsEnded ==
  ASSUME IInv, ListOK, HitInv, EndReveal
  PROVE  HitInv'
<1>1. /\ pc = "reveal" /\ findings' = findings /\ artifacts' = artifacts /\ case' = case
      /\ i \in Nat \ {0} /\ (i > Len(artifacts) \/ ~Live)
  BY DEF EndReveal, IInv
<1>2. Live' = Live
  BY DEF EndReveal, Live
<1>3. CASE Live
  <2>1. pc' = "ast"
    BY <1>3 DEF EndReveal, After, Order
  <2>2. Len(artifacts) \in Nat
    BY Listing DEF ListOK
  <2>3. \A k \in 1..Len(artifacts) : k < i
    BY <1>1, <1>3, <2>2
  <2>4. AllShown
    BY <1>1, <2>3 DEF HitInv, AllShown
  <2> QED
    BY <1>1, <2>1, <2>4 DEF HitInv, AllShown
<1>4. CASE ~Live
  <2>1. pc' = "over" /\ ~Revealed'
    BY <1>2, <1>4 DEF EndReveal, After, Revealed
  <2> QED
    BY <1>1, <2>1 DEF HitInv
<1> QED
  BY <1>3, <1>4

LEMMA HitsBriefed ==
  ASSUME ListOK, HitInv, EndStatic
  PROVE  HitInv'
<1>1. PICK b : b = Artifact(<<"traces">>, "markdown", TRUE, 1, << >>, << >>)
  OBVIOUS
<1>2. PICK a : a = [b EXCEPT !.kind = "brief"]
  OBVIOUS
<1>3. /\ pc = "static" /\ pc' = "over" /\ findings' = findings /\ case' = case
      /\ artifacts' = Append(artifacts, a) \/ artifacts' = artifacts
  BY <1>1, <1>2 DEF EndStatic
<1>4. DOMAIN b = Fields
  BY <1>1 DEF Artifact, Fields
<1>5. a.kind = "brief"
  BY ONLY <1>2, <1>4 DEF Fields
<1>6. ~Wanted(a)
  BY <1>5 DEF Wanted
<1>7. AllShown /\ Sequence(findings)
  BY <1>3 DEF HitInv, Revealed
<1>8. CASE artifacts' = artifacts
  BY <1>3, <1>7, <1>8 DEF HitInv, AllShown
<1>9. CASE artifacts' = Append(artifacts, a)
  <2>1. PICK s, n, t : s = artifacts /\ n = Len(s) /\ t = Append(s, a)
    OBVIOUS
  <2>2. Sequence(s)
    BY <2>1 DEF ListOK
  <2>3. Len(t) = n + 1 /\ t[n + 1] = a /\ \A k \in 1..n : t[k] = s[k]
    BY <2>1, <2>2, Appended
  <2>4. \A k \in 1..(n + 1) : k \in 1..n \/ k = n + 1
    BY <2>1, <2>2, Listing
  <2>5. artifacts' = t
    BY <1>9, <2>1
  <2>6. \A k \in 1..(n + 1) : Wanted(t[k]) => HitsShown(findings, case.allowed, t[k])
    BY <1>6, <1>7, <2>1, <2>3, <2>4 DEF AllShown
  <2> QED
    BY <1>3, <1>7, <2>3, <2>5, <2>6 DEF HitInv, AllShown
<1> QED
  BY <1>3, <1>8, <1>9

LEMMA HitsOfOne ==
  ASSUME IInv, TextsOK, ListOK, RevealArtifact, Wanted(At)
  PROVE  \E fs, new :
           /\ FilesAre(fs, At.path) /\ findings' = new
           /\ new = IF NeedsNormalize(At.text) THEN findings \o fs ELSE findings
           /\ fs = Limited(Unique(HitFindings(At, Normalize(At.text).hits, LineStarts(At.text)), {}).out)
<1>1. pc = "reveal" /\ i <= Len(artifacts) /\ i \in Nat \ {0}
  BY DEF RevealArtifact, IInv
<1>2. IsText(At.text)
  BY <1>1, AtIs
<1>3. PICK a, p : a = At /\ p = Normalize(a.text)
  OBVIOUS
<1>4. PICK fs : fs = Limited(Unique(HitFindings(a, p.hits, LineStarts(a.text)), {}).out)
  OBVIOUS
<1>5. FilesAre(fs, a.path)
  <2>1. Sequence(p.hits)
    BY <1>2, <1>3, NormalizeOK DEF PassOK
  <2> QED
    BY <1>4, <2>1, RevealedType
<1>6. findings' = IF NeedsNormalize(a.text) THEN findings \o fs ELSE findings
  BY <1>3, <1>4 DEF RevealArtifact, RevealAs, Record, RecordAt
<1> QED
  BY <1>3, <1>4, <1>5, <1>6

LEMMA HitsCome ==
  ASSUME IInv, TextsOK, ListOK, HitInv, RevealArtifact
  PROVE  HitInv'
<1>1. /\ pc = "reveal" /\ pc' = pc /\ i <= Len(artifacts) /\ i \in Nat \ {0} /\ i' = i + 1
      /\ case' = case /\ case \in Cases
  BY DEF RevealArtifact, IInv, ListOK
<1>2. i \in 1..Len(artifacts) /\ IsText(At.text)
  BY <1>1, AtIs
<1>3. PICK old, at, n, a, on : old = artifacts /\ at = i /\ n = Len(old) /\ a = At /\ on = case.allowed
  OBVIOUS
<1>4. at \in 1..n /\ a = old[at] /\ n \in Nat
  BY <1>2, <1>3, Listing DEF At, ListOK
<1>5. PICK all, new, list : all = findings /\ new = findings' /\ list = artifacts'
  OBVIOUS
<1>6. /\ Sequence(all)
      /\ \A k \in 1..n : k < at => (Wanted(old[k]) => HitsShown(all, on, old[k]))
      /\ \A k \in 1..n : ~(k < at) => Elsewhere(all, old[k].path)
  BY <1>1, <1>3, <1>5 DEF HitInv
<1>7. /\ Len(list) = n
      /\ \A k \in 1..n : /\ list[k].kind = old[k].kind /\ list[k].type = old[k].type
                         /\ list[k].path = old[k].path /\ list[k].text = old[k].text
  BY <1>3, <1>5, ArtifactsRevealed DEF SameFile
<1>8. \A k \in 1..n : Wanted(list[k]) => Wanted(old[k])
  BY <1>7 DEF Wanted
<1>9. ASSUME Sequence(new),
             \A k \in 1..n : k < at /\ Wanted(old[k]) => HitsShown(new, on, list[k]),
             Wanted(a) => HitsShown(new, on, list[at]),
             \A k \in 1..n : at < k => Elsewhere(new, list[k].path)
      PROVE  HitInv'
  <2>1. \A k \in 1..n : IF k < at + 1 THEN Wanted(list[k]) => HitsShown(new, on, list[k])
                        ELSE Elsewhere(new, list[k].path)
    <3>1. \A k \in 1..n : (k < at + 1 => k < at \/ k = at) /\ (~(k < at + 1) => at < k)
      BY <1>4
    <3> QED
      BY <1>4, <1>8, <1>9, <3>1
  <2>2. ~Revealed'
    BY <1>1 DEF Revealed
  <2> QED
    BY <1>1, <1>3, <1>5, <1>7, <1>9, <2>1, <2>2 DEF HitInv
<1>10. \A k \in 1..n : HitsShown(all, on, old[k]) => HitsShown(all, on, list[k])
  BY <1>7 DEF HitsShown
<1>11. \A k \in 1..n : at < k => ~(k < at)
  BY <1>4
<1>12. CASE ~Wanted(a)
  <2>1. new = all
    BY <1>3, <1>5, <1>12 DEF RevealArtifact
  <2> QED
    BY <1>6, <1>7, <1>9, <1>10, <1>11, <1>12, <2>1
<1>13. CASE Wanted(a)
  <2>1. PICK fs : /\ FilesAre(fs, a.path)
                  /\ new = IF NeedsNormalize(a.text) THEN all \o fs ELSE all
                  /\ fs = Limited(Unique(HitFindings(a, Normalize(a.text).hits, LineStarts(a.text)), {}).out)
    BY <1>3, <1>5, <1>13, HitsOfOne
  <2>2. Sequence(fs) /\ \A k \in 1..Len(fs) : fs[k].file = a.path
    BY <2>1 DEF FilesAre
  <2>3. ASSUME NEW k \in 1..n, k # at PROVE Elsewhere(fs, old[k].path)
    <3>1. \A j \in 1..n : j \in 1..Len(Folder) /\ old[j].path = Folder[j].path
      BY <1>1, <1>3 DEF ListOK, InFolder
    <3>2. old[k].path # old[at].path
      BY <1>1, <1>4, <2>3, <3>1, FolderDistinct
    <3> QED
      BY <1>4, <2>2, <3>2 DEF Elsewhere
  <2>4. Sequence(new)
    BY <1>6, <2>1, <2>2, Joining
  <2>5. ASSUME NEW k \in 1..n, k < at, Wanted(old[k]) PROVE HitsShown(new, on, list[k])
    <3>1. HitsShown(all, on, old[k]) /\ k # at
      BY <1>4, <1>6, <2>5
    <3>2. CASE NeedsNormalize(a.text)
      <4>1. new = all \o fs
        BY <2>1, <3>2
      <4> QED
        BY <1>6, <1>7, <2>3, <3>1, <4>1, ShownStays
    <3>3. CASE ~NeedsNormalize(a.text)
      BY <1>10, <2>1, <3>1, <3>3
    <3> QED
      BY <3>2, <3>3
  <2>6. HitsShown(new, on, list[at])
    <3>1. Elsewhere(all, a.path) /\ IsText(a.text)
      BY <1>2, <1>3, <1>4, <1>6
    <3>2. list[at].path = a.path /\ list[at].text = a.text
      BY <1>4, <1>7
    <3> QED
      BY <1>3, <1>13, <2>1, <2>2, <3>1, <3>2, HitsRevealed
  <2>7. ASSUME NEW k \in 1..n, at < k PROVE Elsewhere(new, list[k].path)
    <3>1. Elsewhere(all, old[k].path) /\ k # at
      BY <1>4, <1>6, <1>11, <2>7
    <3>2. Elsewhere(fs, old[k].path)
      BY <2>3, <3>1
    <3>3. HitRules # {}
      BY DEF HitRules
    <3>4. Elsewhere(all \o fs, old[k].path)
      BY <1>6, <2>2, <3>1, <3>2, <3>3, LinesJoin
    <3> QED
      BY <1>7, <2>1, <3>1, <3>4
  <2> QED
    BY <1>9, <1>13, <2>4, <2>5, <2>6, <2>7
<1> QED
  BY <1>12, <1>13

LEMMA HitsInStatic ==
  ASSUME TextsOK, ListOK, HitInv, pc = "static" => i \in Nat \ {0}, ScanArtifact \/ ScanLink
  PROVE  HitInv'
<1>1. /\ pc = "static" /\ pc' = pc /\ case' = case /\ artifacts' = artifacts
      /\ i <= Len(artifacts) /\ case \in Cases
  BY DEF ScanArtifact, ScanLink, ListOK
<1>2. ArtifactOK(At)
  BY <1>1, AtIs
<1>3. PICK a, rs : a = At /\ rs = case.static
  OBVIOUS
<1>4. CASE ScanArtifact
  <2>1. PICK one : one = FoundBy(rs, a, seen)
    OBVIOUS
  <2>2. findings' = findings \o one.out
    BY <1>3, <1>4, <2>1 DEF ScanArtifact, ScanAs, Record, RecordAt
  <2>3. Sequence(TextOf(a))
    BY <1>2, <1>3, TextOfIs
  <2>4. Len(rs) \in Nat /\ \A k \in 1..Len(rs) : Len(rs[k].patterns) \in Nat /\ rs[k].id \notin HitRules
    BY <1>1, <1>3, RulesAre
  <2>5. OtherRules(one.out)
    BY <2>1, <2>3, <2>4, FoundByType
  <2> QED
    BY <1>1, <2>2, <2>5, HitsScanned
<1>5. CASE ScanLink
  <2>1. findings' = findings \/ findings' = findings \o LinkFindings(a)
    BY <1>3, <1>5 DEF ScanLink, Record, RecordAt
  <2>2. OtherRules(LinkFindings(a))
    BY <1>1, LinksFound
  <2>3. CASE findings' = findings
    BY <1>1, <2>3, HitsKept DEF Revealed
  <2>4. CASE findings' = findings \o LinkFindings(a)
    BY <1>1, <2>2, <2>4, HitsScanned
  <2> QED
    BY <2>1, <2>3, <2>4
<1> QED
  BY <1>4, <1>5

LEMMA HitsInit ==
  ASSUME Init
  PROVE  HitInv
<1>1. pc = "walk" /\ findings = << >>
  BY DEF Init
<1>2. Sequence(<< >>) /\ Len(<< >>) = 0
  BY FewIds
<1>3. OtherRules(<< >>)
  BY <1>2 DEF OtherRules
<1> QED
  BY <1>1, <1>2, <1>3 DEF HitInv, Revealed

LEMMA HitsNext ==
  ASSUME IInv, TextsOK, ListOK, HitInv, pc = "static" => i \in Nat \ {0}, [Next]_vars
  PROVE  HitInv'
<1>1. CASE ParseArtifact \/ NoRuntime \/ EndAst
  <2>1. pc = "ast" /\ case' = case /\ artifacts' = artifacts /\ findings' = findings
    BY <1>1 DEF ParseArtifact, NoRuntime, EndAst
  <2>2. pc' \notin {"walk", "reveal"}
    BY <1>1 DEF ParseArtifact, NoRuntime, EndAst, After, Order
  <2> QED
    BY <2>1, <2>2, HitsKept DEF Revealed
<1>2. CASE ContextEnds
  <2>1. /\ pc' = pc /\ pc # "over" /\ i' = i /\ case' = case
        /\ artifacts' = artifacts /\ findings' = findings
    BY <1>2 DEF ContextEnds
  <2> QED
    BY <2>1 DEF HitInv, AllShown, Revealed
<1>3. CASE Over \/ UNCHANGED vars
  <2>1. /\ pc' = pc /\ i' = i /\ case' = case /\ ctx' = ctx /\ stop' = stop
        /\ artifacts' = artifacts /\ findings' = findings
    BY <1>3 DEF Over, vars
  <2> QED
    BY <2>1 DEF HitInv, AllShown, Revealed, Live
<1> QED
  BY <1>1, <1>2, <1>3, HitsWalked, HitsBegun, HitsCome, HitsEnded, HitsInStatic, HitsBriefed DEF Next

LEMMA HitsAre ==
  ASSUME ListOK, HitInv
  PROVE  HitsAreRight
<1>1. ASSUME Revealed, NEW a \in Kept, NEW rule \in HitRules, rule \in case.allowed
      PROVE  UpToCap(LinesOf(rule, a), RowsOf(a.text, rule))
  <2>1. a \in ToSet(artifacts) /\ Wanted(a)
    BY <1>1 DEF Kept
  <2>2. DOMAIN artifacts = 1..Len(artifacts)
    BY Listing DEF ListOK
  <2>3. PICK k \in 1..Len(artifacts) : a = artifacts[k]
    BY <2>1, <2>2 DEF ToSet
  <2>4. HitsShown(findings, case.allowed, a)
    BY <1>1, <2>1, <2>3 DEF HitInv, AllShown
  <2> QED
    BY <1>1, <2>4 DEF HitsShown, LinesIn, LinesOf
<1>2. \A t : /\ RowsOf(t, LookAlike) = {Cardinality({j \in 1..(k - 1) : t[j] = Newline}) + 1 : k \in Alikes(t)}
             /\ RowsOf(t, Invisible) = {Cardinality({j \in 1..(k - 1) : t[j] = Newline}) + 1 : k \in Hiddens(t)}
  <2>1. LookAlike # Invisible
    BY DEF LookAlike, Invisible
  <2> QED
    BY <2>1 DEF RowsOf, PlacesOf
<1>3. LookAlike \in HitRules /\ Invisible \in HitRules
  BY DEF HitRules
<1> QED
  BY <1>1, <1>2, <1>3, Zenon DEF HitsAreRight, Alikes, Hiddens

\* A rule of reveal is found on exactly the lines that hold a letter in
\* disguise, or a hidden rune between two of a word, up to the cap: for any
\* text of any runes, whatever the pass remembers of a word from rune to rune,
\* and whatever the layers before and after it find.
THEOREM HitsFollowWords == Spec => []HitsAreRight
<1>1. Init => IInv /\ TextsOK /\ ListOK /\ LinkInv /\ HitInv
  BY WalkInit, TextsInit, ListInit, LinkInit, HitsInit
<1>2. IInv /\ TextsOK /\ ListOK /\ LinkInv /\ HitInv /\ [Next]_vars
        => (IInv /\ TextsOK /\ ListOK /\ LinkInv /\ HitInv)'
  BY WalkNext, TextsNext, ListNext, IndexIs, LinkNext, HitsNext
<1>3. ListOK /\ HitInv => HitsAreRight
  BY HitsAre
<1> QED
  BY <1>1, <1>2, <1>3, PTL DEF Spec

-----------------------------------------------------------------------------
(* The readers of Markdown: the clean text has the lines of the file, and its  *)
(* fences are read alike.                                                      *)

\* Newlines are written for newlines only.
LEMMA SpanBreaks ==
  ASSUME NEW t, IsText(t), NEW k \in 1..Len(t)
  PROVE  BreakWritten(Normalizing(t)[k - 1].out, Normalizing(t)[k].out, t[k])
<1>0. PICK p, q : p = Normalizing(t)[k - 1] /\ q = Normalizing(t)[k]
  OBVIOUS
<1>1. PICK s \in Seq(DOMAIN Runes) :
        /\ IF Dropped(t[k]) THEN s = << >> ELSE s \in Images(t[k])
        /\ Wrote(p, q, s, t[k], OffsetOf(t, k))
  BY <1>0, PassCourse
<1>2. k - 1 \in 0..Len(t) /\ t[k] \in DOMAIN Runes
  BY DEF IsText
<1>3. PICK r, a, b : r = t[k] /\ a = p.out /\ b = q.out
  OBVIOUS
<1>4. Sequence(a) /\ Sequence(s) /\ b = a \o s
  BY <1>0, <1>1, <1>2, <1>3, PassCourse, ListingOf DEF PassIs, IsText, Wrote
<1>5. /\ Len(b) = Len(a) + Len(s) /\ Len(a) \in Nat /\ Len(s) \in Nat
      /\ \A j \in 1..Len(s) : b[Len(a) + j] = s[j]
  BY <1>4, Joining, Listing
<1>6. CASE r = Newline
  <2>1. /\ Runes[r].kind \notin {"letter", "hidden"}
        /\ {Runes[r].folded, Runes[r].mapped} = {<<r>>}
    BY <1>2, <1>3, <1>6, RunesAssumption
  <2>2. s = <<r>>
    BY <2>1, <1>1, <1>3 DEF Dropped, Images
  <2>3. Len(s) = 1 /\ s[1] = r
    BY <2>2
  <2>4. Len(b) = Len(a) + 1 /\ b[Len(b)] = r
    BY <2>3, <1>5
  <2> QED
    BY <2>4, <1>0, <1>3, <1>6 DEF BreakWritten
<1>7. CASE r # Newline
  <2>1. \A j \in 1..Len(s) : s[j] # Newline
    <3>1. CASE Dropped(r)
      <4>1. s = << >>
        BY <3>1, <1>1, <1>3
      <4> QED
        BY <4>1
    <3>2. CASE ~Dropped(r)
      <4>1. s \in {<<r>>, Runes[r].folded, Runes[r].mapped}
        BY <3>2, <1>1, <1>3 DEF Images
      <4>2. Newline \notin ToSet(Runes[r].folded) \cup ToSet(Runes[r].mapped)
        BY <1>2, <1>3, <1>7, RunesAssumption
      <4>3. CASE s = <<r>>
        BY <4>3, <1>7
      <4>4. CASE s # <<r>>
        <5>1. Newline \notin ToSet(s)
          BY <4>1, <4>2, <4>4
        <5>2. \A j \in 1..Len(s) : s[j] \in ToSet(s)
          BY <1>4, Listing
        <5> QED
          BY <5>1, <5>2
      <4> QED
        BY <4>3, <4>4
    <3> QED
      BY <3>1, <3>2
  <2>2. ASSUME NEW j \in (Len(a) + 1)..Len(b) PROVE b[j] # Newline
    <3>1. PICK l : l = j - Len(a)
      OBVIOUS
    <3>2. l \in 1..Len(s) /\ Len(a) + l = j
      BY <3>1, <1>5
    <3> QED
      BY <3>2, <2>1, <1>5
  <2> QED
    BY <2>2, <1>0, <1>3, <1>7 DEF BreakWritten
<1> QED
  BY <1>6, <1>7

\* As many newlines were written as were read.
LEMMA BreaksPassed ==
  ASSUME NEW t, IsText(t)
  PROVE  \A k \in 0..Len(t) :
           /\ Cardinality(Breaks(Normalizing(t)[k].out, Reach(t, k))) = Cardinality(Breaks(t, k))
           /\ Breaks(Normalize(t).out, Reach(t, k)) = Breaks(Normalizing(t)[k].out, Reach(t, k))
<1>1. PICK n, f : n = Len(t) /\ f = Normalizing(t)
  OBVIOUS
<1>2. n \in Nat /\ n \in 0..n /\ \A k \in 0..n : Reach(t, k) = Len(f[k].out) /\ Reach(t, k) \in Nat
  BY <1>1, ReachType DEF Reach, IsText
<1> DEFINE T == {k \in Nat : Cardinality(Breaks(f[k].out, Len(f[k].out))) = Cardinality(Breaks(t, k))}
<1>3. 0 \in T
  <2>1. Len(f[0].out) = 0
    BY <1>1, <1>2, ReachType
  <2>2. Breaks(f[0].out, 0) = {} /\ Breaks(t, 0) = {}
    BY DEF Breaks
  <2> QED
    BY <2>1, <2>2
<1>4. ASSUME NEW k \in 1..n, k - 1 \in T PROVE k \in T
  <2>1. PICK p, q : p = f[k - 1] /\ q = f[k]
    OBVIOUS
  <2>2. k \in Nat /\ k - 1 \in 0..n /\ k \in 0..n /\ k - 1 <= k
    BY <1>2
  <2>3. PICK a, b, y, z : a = p.out /\ b = q.out /\ y = Len(a) /\ z = Len(b)
    OBVIOUS
  <2>4. y \in Nat /\ z \in Nat /\ y <= z /\ \A j \in 1..y : b[j] = a[j]
    <3>1. Grown(p, q)
      BY <1>1, <2>1, <2>2, PassGrown
    <3> QED
      BY <3>1, <1>2, <2>1, <2>2, <2>3 DEF Grown
  <2>5. /\ t[k] = Newline => z = y + 1 /\ b[z] = Newline
        /\ t[k] # Newline => \A j \in (y + 1)..z : b[j] # Newline
    <3>1. BreakWritten(a, b, t[k])
      BY <1>1, <2>1, <2>3, SpanBreaks
    <3> QED
      BY <3>1, <2>3 DEF BreakWritten
  <2>6. Cardinality(Breaks(a, y)) = Cardinality(Breaks(t, k - 1))
    BY <1>4, <2>1, <2>3
  <2>7. /\ IsFiniteSet(Breaks(a, y)) /\ y + 1 \notin Breaks(a, y)
        /\ IsFiniteSet(Breaks(t, k - 1)) /\ k \notin Breaks(t, k - 1)
    <3>1. IsFiniteSet(1..y) /\ IsFiniteSet(1..(k - 1))
      BY <2>2, <2>4, FS_Interval
    <3>2. Breaks(a, y) \subseteq 1..y /\ Breaks(t, k - 1) \subseteq 1..(k - 1)
      BY DEF Breaks
    <3> QED
      BY <2>2, <2>4, <3>1, <3>2, FS_Subset
  <2>8. CASE t[k] = Newline
    <3>1. Breaks(b, z) = Breaks(a, y) \cup {y + 1} /\ Breaks(t, k) = Breaks(t, k - 1) \cup {k}
      BY <2>2, <2>4, <2>5, <2>8 DEF Breaks
    <3>2. /\ Cardinality(Breaks(a, y) \cup {y + 1}) = Cardinality(Breaks(a, y)) + 1
          /\ Cardinality(Breaks(t, k - 1) \cup {k}) = Cardinality(Breaks(t, k - 1)) + 1
      BY <2>7, FS_AddElement
    <3> QED
      BY <3>1, <3>2, <2>1, <2>2, <2>3, <2>6
  <2>9. CASE t[k] # Newline
    <3>1. Breaks(b, z) = Breaks(a, y) /\ Breaks(t, k) = Breaks(t, k - 1)
      BY <2>2, <2>4, <2>5, <2>9 DEF Breaks
    <3> QED
      BY <3>1, <2>1, <2>2, <2>3, <2>6
  <2> QED
    BY <2>8, <2>9
<1> HIDE DEF T
<1>5. \A k \in 0..n : k \in T
  BY <1>2, <1>3, <1>4, UpTo
<1>6. ASSUME NEW k \in 0..n PROVE Breaks(f[n].out, Reach(t, k)) = Breaks(f[k].out, Reach(t, k))
  <2>1. Grown(f[k], f[n])
    BY <1>1, <1>2, PassGrown
  <2>2. \A j \in 1..Reach(t, k) : f[n].out[j] = f[k].out[j]
    BY <1>2, <2>1 DEF Grown
  <2> QED
    BY <2>2 DEF Breaks
<1>7. Normalize(t) = f[n]
  BY <1>1 DEF Normalize
<1> QED
  BY <1>1, <1>2, <1>5, <1>6, <1>7 DEF T

\* A text has a line more than it has newlines.
LEMMA LinesMany ==
  ASSUME NEW t, IsText(t)
  PROVE  Len(Lines(t)) = Cardinality(Breaks(t, Len(t))) + 1
<1>1. PICK ends, n : ends = Ends(t) /\ n = Len(ends)
  OBVIOUS
<1>2. Sequence(t) /\ Len(t) \in Nat
  BY ListingOf DEF IsText
<1>3. EndsOK(ends, t)
  BY <1>1, <1>2, EndsShape
<1>4. n \in Nat \ {0} /\ \A j \in 1..n : ends[j] \in Nat /\ ends[j] >= 1
  BY <1>1, <1>3 DEF EndsOK
<1> DEFINE S == 1..(n - 1)
<1>5. IsFiniteSet(S) /\ Cardinality(S) = n - 1
  BY <1>4, FS_Interval
<1>6. \A x, y \in S : ends[x] = ends[y] => x = y
  <2>1. ASSUME NEW x \in S, NEW y \in S, x < y PROVE ends[x] # ends[y]
    <3>1. x \in 1..n /\ y \in 1..n
      BY <1>4
    <3>2. ends[x] < ends[y]
      BY <1>1, <1>3, <2>1, <3>1 DEF EndsOK
    <3> QED
      BY <1>4, <3>1, <3>2
  <2> QED
    BY <1>4, <2>1
<1>7. {ends[x] : x \in S} = Breaks(t, Len(t))
  <2>1. ASSUME NEW x \in S PROVE ends[x] \in 1..Len(t) /\ t[ends[x]] = Newline
    <3>1. x \in 1..n /\ x < n
      BY <1>4
    <3>2. ends[x] <= Len(t) /\ t[ends[x]] = Newline
      BY <1>1, <1>3, <3>1 DEF EndsOK
    <3> QED
      BY <1>2, <1>4, <3>1, <3>2
  <2>2. \A k \in 1..Len(t) : t[k] = Newline => \E x \in S : ends[x] = k
    BY <1>1, <1>3 DEF EndsOK
  <2> QED
    BY <2>1, <2>2 DEF Breaks
<1> HIDE DEF S
<1>8. Cardinality(Breaks(t, Len(t))) = n - 1
  BY <1>5, <1>6, <1>7, SameMany
<1>9. Len(Lines(t)) = n
  BY <1>1, <1>2, LinesType
<1> QED
  BY <1>4, <1>8, <1>9

\* Every byte of a rune is in the line the rune is in.
LEMMA RowHeld ==
  ASSUME NEW t, IsText(t), NEW k \in 1..Len(t), NEW s \in Int, Holds(t, k, s)
  PROVE  LineAt(LineStarts(t), s) = Row(t, k)
<1>1. PICK n, off : n = Len(t) /\ off = Offsets(t)
  OBVIOUS
<1>2. n \in Nat /\ k - 1 \in 0..n /\ k \in 0..n /\ 0 \in 0..n
  BY <1>1 DEF IsText
<1>3. OffsetOf(t, k) = off[k - 1] /\ off[k - 1] <= s /\ s < off[k]
  BY <1>1, <1>2 DEF Holds, OffsetOf
<1>4. off[0] = 0
  BY <1>1, <1>2, OffsetsCourse
<1>5. ASSUME NEW x \in LineStarts(t) PROVE x <= s <=> x <= off[k - 1]
  <2>1. PICK j \in 0..n : x = off[j]
    <3>1. \A j \in 1..n : OffsetOf(t, j + 1) = off[j]
      BY <1>1 DEF OffsetOf
    <3>2. x = 0 \/ \E j \in 1..n : x = off[j]
      BY <1>1, <3>1 DEF LineStarts, IsText
    <3> QED
      BY <1>2, <1>4, <3>2
  <2>2. CASE j <= k - 1
    <3>1. off[j] <= off[k - 1] /\ off[j] \in Nat /\ off[k - 1] \in Nat
      BY <1>1, <1>2, <2>2, OffsetsRise
    <3> QED
      BY <1>3, <2>1, <3>1
  <2>3. CASE k <= j
    <3>1. off[k] <= off[j] /\ off[j] \in Nat /\ off[k] \in Nat
      BY <1>1, <1>2, <2>3, OffsetsRise
    <3>2. off[k - 1] \in Nat
      BY <1>1, <1>2, OffsetsGrow DEF IsText
    <3> QED
      BY <1>3, <2>1, <3>1, <3>2
  <2> QED
    BY <1>2, <2>2, <2>3
<1>6. {x \in LineStarts(t) : x <= s} = {x \in LineStarts(t) : x <= OffsetOf(t, k)}
  BY <1>3, <1>5
<1> QED
  BY <1>6 DEF LineAt, Row

\* Cleaning keeps the lines: how many there are, and the one each rune comes from.
LEMMA CleanLines ==
  ASSUME NEW t, IsText(t), NEW c, c = Normalize(t).out
  PROVE  /\ IsText(c) /\ Len(Lines(c)) = Len(Lines(t))
         /\ \A k \in 1..Len(c) :
              LineAt(LineStarts(t), Source(Normalize(t).shifts, OffsetOf(c, k))) = Row(c, k)
<1>1. PICK n, f : n = Len(t) /\ f = Normalizing(t)
  OBVIOUS
<1>2. n \in Nat /\ n \in 0..n
  BY <1>1 DEF IsText
<1>3. c = f[n].out /\ Reach(t, n) = Len(c)
  BY <1>1 DEF Normalize, Reach
<1>4. IsText(c)
  BY <1>1, <1>2, <1>3, PassCourse DEF PassIs
<1>5. Len(Lines(c)) = Len(Lines(t))
  <2>1. Cardinality(Breaks(c, Len(c))) = Cardinality(Breaks(t, n))
    BY <1>1, <1>2, <1>3, BreaksPassed
  <2> QED
    BY <2>1, <1>1, <1>4, LinesMany
<1>6. ASSUME NEW k \in 1..Len(c)
      PROVE  LineAt(LineStarts(t), Source(Normalize(t).shifts, OffsetOf(c, k))) = Row(c, k)
  <2>1. PICK m \in 1..n : k \in Span(t, m)
    BY <1>1, OwnRune
  <2>2. PICK y, z : y = Reach(t, m - 1) /\ z = Reach(t, m)
    OBVIOUS
  <2>3. m - 1 \in 0..n /\ m \in 0..n /\ y \in Nat /\ z \in Nat /\ k \in (y + 1)..z /\ k \in Nat
    BY <1>1, <1>2, <2>1, <2>2, ReachType DEF Span
  <2>4. PICK s : s = Source(Normalize(t).shifts, OffsetOf(c, k))
    OBVIOUS
  <2>5. s \in Sources(c, Normalize(t).shifts, k)
    BY <1>4, <2>4, SourcesSome
  <2>6. Holds(t, m, s) /\ s \in Int
    BY <1>1, <2>1, <2>5, SpanHolds
  <2>7. LineAt(LineStarts(t), s) = Cardinality(Breaks(t, m - 1)) + 1
    BY <1>1, <2>6, RowHeld, RowCount DEF Breaks
  <2>8. Row(c, k) = Cardinality(Breaks(c, k - 1)) + 1
    BY <1>4, RowCount DEF Breaks
  <2>9. Cardinality(Breaks(c, y)) = Cardinality(Breaks(t, m - 1))
    BY <1>1, <2>2, <2>3, BreaksPassed
  <2>10. Breaks(c, k - 1) = Breaks(c, y)
    <3>1. PICK p, q : p = f[m - 1] /\ q = f[m]
      OBVIOUS
    <3>2. y = Len(p.out) /\ z = Len(q.out)
      BY <1>1, <2>2, <3>1 DEF Reach
    <3>3. BreakWritten(p.out, q.out, t[m])
      BY <1>1, <3>1, SpanBreaks
    <3>4. CASE t[m] = Newline
      <4>1. z = y + 1
        BY <3>2, <3>4, <3>3 DEF BreakWritten
      <4> QED
        BY <4>1, <2>3
    <3>5. CASE t[m] # Newline
      <4>1. \A j \in (y + 1)..z : q.out[j] # Newline
        BY <3>2, <3>5, <3>3 DEF BreakWritten
      <4>2. Grown(q, f[n])
        BY <1>1, <1>2, <2>3, <3>1, PassGrown
      <4>3. \A j \in 1..z : c[j] = q.out[j]
        BY <1>3, <3>2, <4>2 DEF Grown
      <4>4. \A j \in (y + 1)..z : c[j] # Newline
        BY <2>3, <4>1, <4>3
      <4> QED
        BY <2>3, <4>4 DEF Breaks
    <3> QED
      BY <3>4, <3>5
  <2> QED
    BY <2>4, <2>7, <2>8, <2>9, <2>10
<1> QED
  BY <1>4, <1>5, <1>6

LEMMA BlocksPlaced ==
  ASSUME NEW t, IsText(t), NEW lines, lines = Lines(t), NEW first \in Nat \ {0},
         \A k \in 1..Len(lines) : k < first => Fence(lines[k]) = NoFence, NEW b \in ToSet(Blocks(t))
  PROVE  BlockShown(lines, first, {Row(t, k) : k \in b.from..(b.to - 1)})
<1>1. PICK p, ends, len : p = Positions(lines, 1) /\ ends = Ends(t) /\ len = Len(lines)
  OBVIOUS
<1>2. Sequence(t) /\ AreLines(lines) /\ len = Len(ends) /\ len \in Nat
  BY <1>1, ListingOf, LinesAre, LinesType, Listing DEF IsText, AreLines
<1>3. EndsOK(ends, t)
  BY <1>1, <1>2, EndsShape
<1>4. \E a, m \in Nat : Between(b, p, ends, a, m)
  BY <1>1, BlocksFenced DEF Fencelike
<1>5. PICK a \in Nat, m \in Nat : Between(b, p, ends, a, m)
  BY <1>4
<1>6. PICK from, to : from = b.from /\ to = b.to
  OBVIOUS
<1>7. /\ a \in Nat \ {0} /\ a < m /\ m <= len + 1
      /\ from = FromOf(ends, a + 1) /\ to = FromOf(ends, m) /\ from < to
      /\ p[a - 1].open = NoFence
      /\ \A j \in a..(m - 1) : p[j].open # NoFence /\ p[j].at = a
  BY <1>2, <1>5, <1>6 DEF Between
<1>8. /\ \A k \in from..(to - 1) : Row(t, k) \in (a + 1)..(m - 1)
      /\ from \in Nat /\ to \in Nat /\ Row(t, from) = a + 1
  BY <1>2, <1>3, <1>7, RowsWithin
<1>9. PICK R : R = {Row(t, k) : k \in from..(to - 1)}
  OBVIOUS
<1>10. R \subseteq (a + 1)..(m - 1) /\ a + 1 \in R
  <2>1. from \in from..(to - 1)
    BY <1>7, <1>8
  <2> QED
    BY <2>1, <1>8, <1>9
<1>11. Least(R) = a + 1
  <2>1. R \in SUBSET Nat /\ \A k \in R : a + 1 <= k
    BY <1>10
  <2> QED
    BY <2>1, <1>10, LeastIs
<1>12. \A n : n - 1 \in 0..len => Position(lines, first, n) = p[n - 1]
  BY <1>1, <1>2, FirstFences DEF Position
<1>13. ASSUME NEW n \in R PROVE Position(lines, first, n).open # NoFence /\ Position(lines, first, n).at = a
  <2>1. n - 1 \in a..(m - 1) /\ n - 1 \in 0..len
    BY <1>2, <1>7, <1>10
  <2> QED
    BY <2>1, <1>7, <1>12
<1>14. Position(lines, first, Upper(Least(R) - 1, 1)).open = NoFence
  <2>1. (a + 1) - 1 = a /\ Upper(a, 1) = a /\ a - 1 \in 0..len
    BY <1>2, <1>7 DEF Upper
  <2> QED
    BY <2>1, <1>7, <1>11, <1>12
<1> QED
  BY <1>6, <1>9, <1>11, <1>13, <1>14 DEF BlockShown

LEMMA CleanKept ==
  ASSUME NEW a, IsText(a.text), CleanOf(a)
  PROVE  IsText(TextOf(a)) /\ LinesKept(a, a.text, TextOf(a))
<1>1. PICK t, c : t = a.text /\ c = TextOf(a)
  OBVIOUS
<1>2. CASE a.clean = << >>
  <2>1. c = t /\ \A x : SourceOf(a, x) = x
    BY <1>1, <1>2 DEF TextOf, SourceOf
  <2>2. \A k \in DOMAIN c : LineAt(LineStarts(t), OffsetOf(c, k)) = Row(c, k)
    BY <2>1 DEF Row
  <2> QED
    BY <1>1, <2>1, <2>2 DEF LinesKept
<1>3. CASE a.clean # << >>
  <2>1. c = Normalize(t).out /\ \A x : SourceOf(a, x) = Source(Normalize(t).shifts, x)
    BY <1>1, <1>3 DEF TextOf, SourceOf, CleanOf
  <2>2. /\ IsText(c) /\ Len(Lines(c)) = Len(Lines(t))
        /\ \A k \in 1..Len(c) :
             LineAt(LineStarts(t), Source(Normalize(t).shifts, OffsetOf(c, k))) = Row(c, k)
    BY <1>1, <2>1, CleanLines
  <2>3. DOMAIN c = 1..Len(c)
    BY <2>2 DEF IsText
  <2> QED
    BY <1>1, <2>1, <2>2, <2>3 DEF LinesKept
<1> QED
  BY <1>2, <1>3

\* What is fenced, of a file and its clean text.
LEMMA CleanFences ==
  ASSUME NEW a, IsText(a.text), CleanOf(a),
         NEW lines, lines = Lines(a.text), NEW clean, clean = Lines(TextOf(a)),
         NEW first, first = Body(lines), \A k \in DOMAIN lines : k < first => Fence(lines[k]) = NoFence
  PROVE  /\ \A n \in DOMAIN lines : AlikeTo(clean, lines, n) =>
              (Fenced(clean)[n] <=> TextBlock(lines, n).fence)
         /\ \A b \in ToSet(Blocks(a.text)) :
              BlockShown(lines, first, {Row(a.text, k) : k \in b.from..(b.to - 1)})
<1>1. IsText(TextOf(a)) /\ Len(clean) = Len(lines)
  BY CleanKept DEF LinesKept
<1>2. AreLines(clean) /\ AreLines(lines)
  BY <1>1, ListingOf, LinesAre DEF IsText
<1>3. DOMAIN lines = 1..Len(lines)
  BY <1>2, Listing DEF AreLines
<1>4. Len(lines) \in Nat \ {0}
  <2>1. Sequence(a.text)
    BY ListingOf DEF IsText
  <2> QED
    BY <2>1, LinesType, EndsShape DEF EndsOK
<1>5. first \in Nat \ {0}
  BY <1>4, BodyType
<1>6. ASSUME NEW n \in DOMAIN lines, AlikeTo(clean, lines, n)
      PROVE  Fenced(clean)[n] <=> TextBlock(lines, n).fence
  BY <1>1, <1>2, <1>3, <1>6, FencedShown DEF AlikeTo
<1>7. \A b \in ToSet(Blocks(a.text)) :
        BlockShown(lines, first, {Row(a.text, k) : k \in b.from..(b.to - 1)})
  BY <1>3, <1>5, BlocksPlaced
<1> QED
  BY <1>6, <1>7

LEMMA CleanAgree ==
  ASSUME TextsOK, ListOK, CleanOK
  PROVE  FencesAgree
<1>1. ASSUME NEW a \in Kept
      PROVE  LET lines == Lines(a.text)
             IN  /\ LinesKept(a, a.text, TextOf(a))
                 /\ (\A k \in DOMAIN lines : k < Body(lines) => Fence(lines[k]) = NoFence) =>
                      /\ \A n \in DOMAIN lines : AlikeTo(Lines(TextOf(a)), lines, n) =>
                           (Fenced(Lines(TextOf(a)))[n] <=> TextBlock(lines, n).fence)
                      /\ \A b \in ToSet(Blocks(a.text)) :
                           BlockShown(lines, Body(lines), {Row(a.text, k) : k \in b.from..(b.to - 1)})
  <2>1. a \in ToSet(artifacts) /\ DOMAIN artifacts = 1..Len(artifacts)
    BY Listing DEF Kept, ListOK
  <2>2. PICK k \in 1..Len(artifacts) : a = artifacts[k]
    BY <2>1 DEF ToSet
  <2>3. CleanOf(a) /\ IsText(a.text)
    BY <2>2 DEF CleanOK, TextsOK, Texted
  <2> QED
    BY <2>3, CleanKept, CleanFences
<1> QED
  BY <1>1, Zenon DEF FencesAgree, LinesKept, AlikeTo, BlockShown

\* Cleaning keeps the lines of any text, and every rune in its own; and however
\* many fences a text opens and closes, the static layer reads them in the clean
\* text as the frames do in the file, up to a line whose fence cleaning changes,
\* and the parser's blocks lie between them, when the frontmatter has no fence.
THEOREM FenceReadersAgree == Spec => []FencesAgree
<1>1. Init => IInv /\ TextsOK /\ ListOK /\ CleanOK
  BY WalkInit, TextsInit, ListInit, CleanInit
<1>2. IInv /\ TextsOK /\ ListOK /\ CleanOK /\ [Next]_vars
        => (IInv /\ TextsOK /\ ListOK /\ CleanOK)'
  BY WalkNext, TextsNext, ListNext, CleanNext
<1>3. TextsOK /\ ListOK /\ CleanOK => FencesAgree
  BY CleanAgree
<1> QED
  BY <1>1, <1>2, <1>3, PTL DEF Spec
=============================================================================
