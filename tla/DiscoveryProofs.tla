-------------------------- MODULE DiscoveryProofs --------------------------
(***************************************************************************)
(* Proofs about Discovery, for any items, rules, calls and budgets: the    *)
(* store holds the last word about each identity, and what is reported of  *)
(* it at the end.  The store is changed entry by entry, so the lemmas      *)
(* about it are inductions over the entries of a call.                     *)
(***************************************************************************)
EXTENDS Discovery, SequenceTheorems, WellFoundedInduction, TLAPS

(***************************************************************************)
(* The types of the loop (Agent), which the layer's store is joined to.    *)
(***************************************************************************)

\* A reply is a sequence of calls within the bound.
LEMMA RepliesAreSequences ==
  \A q : q \in Replies <=> (q \in Seq(Calls) /\ Len(q) <= MaxReply)
<1>1. ASSUME NEW q \in Replies PROVE q \in Seq(Calls) /\ Len(q) <= MaxReply
  <2>1. PICK n \in 0..MaxReply : q \in [1..n -> Calls]
    BY DEF Replies
  <2>2. n \in Nat /\ n <= MaxReply
    BY AgentAssumption
  <2>3. q \in Seq(Calls) /\ Len(q) = n
    BY <2>1, <2>2
  <2> QED
    BY <2>2, <2>3
<1>2. ASSUME NEW q \in Seq(Calls), Len(q) <= MaxReply PROVE q \in Replies
  <2>1. q \in [1..Len(q) -> Calls] /\ Len(q) \in Nat
    BY LenProperties
  <2>2. Len(q) \in 0..MaxReply
    BY <1>2, <2>1, AgentAssumption
  <2> QED
    BY <2>1, <2>2 DEF Replies
<1> QED
  BY <1>1, <1>2

\* What is left of a reply is a reply.
LEMMA TailIsReply ==
  ASSUME NEW q \in Replies, q # << >>
  PROVE  Tail(q) \in Replies /\ Head(q) \in Calls
<1>1. q \in Seq(Calls) /\ Len(q) <= MaxReply
  BY RepliesAreSequences
<1>2. Head(q) \in Calls /\ Tail(q) \in Seq(Calls) /\ Len(Tail(q)) = Len(q) - 1
  BY <1>1, HeadTailProperties
<1>3. Len(q) \in Nat
  BY <1>1
<1>4. Len(Tail(q)) <= MaxReply
  BY <1>1, <1>2, <1>3, AgentAssumption
<1> QED
  BY <1>2, <1>4, RepliesAreSequences

LEMMA LoopInitType == LoopInit => LoopType
<1> SUFFICES ASSUME LoopInit PROVE LoopType
  OBVIOUS
<1>1. << >> \in Seq(Calls) /\ Len(<< >>) <= MaxReply
  BY AgentAssumption
<1>2. << >> \in Replies
  BY <1>1, RepliesAreSequences, Zenon
<1>3. requests \in 0..Budget
  BY AgentAssumption DEF LoopInit
<1> QED
  BY <1>2, <1>3, Zenon DEF LoopInit, LoopType, Errors

\* A request more, while there is one left.
LEMMA RequestsBound ==
  ASSUME LoopType, requests < Budget
  PROVE  requests + 1 \in 0..Budget
BY AgentAssumption DEF LoopType

\* Every step of the loop keeps its types, whatever the tool it calls does.
LEMMA LoopKeepsType ==
  ASSUME LoopType,
         \/ \E calls \in Replies : Reply(calls)
         \/ Compaction
         \/ \E c \in Calls, final \in BOOLEAN : Answer(c, final)
         \/ LoopStep
         \/ UNCHANGED loop
  PROVE  LoopType'
<1>1. ASSUME NEW calls \in Replies, Reply(calls) PROVE LoopType'
  <2>1. requests' \in 0..Budget
    BY <1>1, RequestsBound DEF Reply
  <2> QED
    BY <1>1, <2>1, Zenon DEF Reply, LoopType
<1>2. CASE Compaction
  <2>1. requests' \in 0..Budget
    BY <1>2, RequestsBound DEF Compaction
  <2> QED
    BY <1>2, <2>1, Zenon DEF Compaction, Ends, LoopType, Errors
<1>3. ASSUME NEW c \in Calls, NEW final \in BOOLEAN, Answer(c, final) PROVE LoopType'
  <2>1. queue' \in Replies
    BY <1>3, TailIsReply DEF Answer, LoopType
  <2>2. done' \in BOOLEAN
    BY <1>3, Zenon DEF Answer, LoopType
  <2> QED
    BY <1>3, <2>1, <2>2, Zenon DEF Answer, LoopType
<1>4. CASE LoopStep
  <2>1. CASE Exhausted
    BY <2>1, Zenon DEF Exhausted, Ends, LoopType, Errors
  <2>2. CASE ProviderFails
    BY <2>2, Zenon DEF ProviderFails, Ends, LoopType, Errors
  <2>3. CASE TurnOver
    BY <2>3, Zenon DEF TurnOver, Ends, LoopType, Errors
  <2> QED
    BY <1>4, <2>1, <2>2, <2>3 DEF LoopStep
<1>5. CASE UNCHANGED loop
  BY <1>5 DEF loop, LoopType
<1> QED
  BY <1>1, <1>2, <1>3, <1>4, <1>5

-----------------------------------------------------------------------------

\* The items a store may hold, and one item of each identity.
Surely == {it \in Items : Confident(it.confidence)}
Distinct(its) == \A i, j \in DOMAIN its : Same(its[i], its[j]) => i = j
On(its, x) == {o \in ToSet(its) : Same(o, x)}

\* The report of a store: its told items, each identity once.
ReportOf(its, out) ==
  /\ out \in Seq(Surely) /\ Distinct(out)
  /\ \A o \in ToSet(out) : o \in ToSet(its) /\ Told(o)
  /\ \A o \in ToSet(its) : Told(o) => o \in ToSet(out)

\* usages() covers a place before it raises a rule there.
RaisedCovered ==
  \E texts \in SUBSET Texts, raised \in SUBSET Raised :
    findings = texts \cup raised /\ \A f \in raised : Covered(f)

\* The inductive invariant: a store holds one item of an identity, and what is
\* recorded is its report.
IInv ==
  /\ LoopType
  /\ covers \subseteq Covers /\ RaisedCovered
  /\ items \in Seq(Surely) /\ Distinct(items)
  /\ over \in BOOLEAN
  /\ over => stage = "returned" /\ ReportOf(items, recorded)
  /\ ~over => recorded = << >>

-----------------------------------------------------------------------------
(* Numbers: induction and recursion, for values. *)

LEMMA LeastExists ==
  ASSUME NEW S \in SUBSET Nat, S # {}
  PROVE  \E k \in S : \A m \in S : k <= m
<1> DEFINE less == OpToRel(<, Nat)
<1>1. \A x, y \in Nat : x < y => <<x, y>> \in less
  BY DEF OpToRel
<1>2. IsWellFoundedOn(less, Nat)
  BY NatLessThanWellFounded
<1> HIDE DEF less
<1>3. PICK k \in S : \A m \in S : <<m, k>> \notin less
  BY <1>2, WFMin
<1>4. ASSUME NEW m \in S PROVE k <= m
  <2>1. k \in Nat /\ m \in Nat /\ ~(m < k)
    BY <1>1, <1>3
  <2> QED
    BY <2>1
<1> QED
  BY <1>4

LEMMA Induction ==
  ASSUME NEW S, 0 \in S, \A n \in Nat : n \in S => n + 1 \in S
  PROVE  Nat \subseteq S
<1> SUFFICES ASSUME Nat \ S # {} PROVE FALSE
  OBVIOUS
<1>1. PICK k \in Nat \ S : \A m \in Nat \ S : k <= m
  BY LeastExists
<1>2. k # 0 /\ k \in Nat
  BY <1>1
<1>3. k - 1 \in Nat /\ k - 1 \in S
  BY <1>1, <1>2
<1>4. (k - 1) + 1 \in S
  BY <1>3
<1> QED
  BY <1>1, <1>2, <1>4

\* n steps, each from a value of X and its number to a value of X, and the values
\* they go through from a first one.
Steps(X, n) == [X \X (1..n) -> X]
Course(X, n, step, first) ==
  {g \in [0..n -> X] : g[0] = first /\ \A k \in 1..n : g[k] = step[<<g[k - 1], k>>]}

LEMMA Recursion ==
  ASSUME NEW X, NEW n \in Nat, NEW step \in Steps(X, n), NEW base \in X
  PROVE  Course(X, n, step, base) # {}
<1> USE DEF Steps
<1> SUFFICES \E g \in [0..n -> X] : g[0] = base /\ \A k \in 1..n : g[k] = step[<<g[k - 1], k>>]
  BY DEF Course
<1> DEFINE good(m, g) == g[0] = base /\ \A k \in 1..m : g[k] = step[<<g[k - 1], k>>]
           S == {m \in Nat : m <= n => \E g \in [0..m -> X] : good(m, g)}
<1>1. 0 \in S
  <2>1. [k \in 0..0 |-> base] \in [0..0 -> X] /\ good(0, [k \in 0..0 |-> base])
    OBVIOUS
  <2> QED
    BY <2>1
<1>2. ASSUME NEW m \in Nat, m \in S PROVE m + 1 \in S
  <2> SUFFICES ASSUME m + 1 <= n PROVE \E g \in [0..(m + 1) -> X] : good(m + 1, g)
    OBVIOUS
  <2>1. PICK g \in [0..m -> X] : good(m, g)
    BY <1>2
  <2> DEFINE h == [k \in 0..(m + 1) |-> IF k <= m THEN g[k] ELSE step[<<g[m], m + 1>>]]
  <2>2. g[m] \in X /\ m + 1 \in 1..n
    BY <2>1
  <2>3. step[<<g[m], m + 1>>] \in X
    BY <2>2
  <2>4. h \in [0..(m + 1) -> X]
    BY <2>1, <2>3
  <2>5. h[0] = base /\ \A k \in 1..m : h[k] = g[k] /\ h[k - 1] = g[k - 1]
    BY <2>1
  <2>6. h[m + 1] = step[<<h[m], m + 1>>] /\ (m + 1) - 1 = m
    BY <2>2
  <2>7. \A k \in 1..(m + 1) : h[k] = step[<<h[k - 1], k>>]
    <3> SUFFICES ASSUME NEW k \in 1..(m + 1) PROVE h[k] = step[<<h[k - 1], k>>]
      OBVIOUS
    <3>1. CASE k \in 1..m
      BY <3>1, <2>1, <2>5
    <3>2. CASE k = m + 1
      BY <3>2, <2>6
    <3> QED
      BY <3>1, <3>2
  <2> QED
    BY <2>4, <2>5, <2>7
<1> HIDE DEF good
<1>3. n \in S
  BY <1>1, <1>2, Induction
<1> QED
  BY <1>3 DEF good

-----------------------------------------------------------------------------
(* The store. *)

LEMMA IndexIsFirst ==
  ASSUME NEW its \in Seq(Surely), NEW it
  PROVE  /\ Index(its, it) \in {0} \cup DOMAIN its
         /\ Index(its, it) = 0 => \A i \in DOMAIN its : ~Same(its[i], it)
         /\ Index(its, it) # 0 => Same(its[Index(its, it)], it)
<1> DEFINE I == {i \in 1..Len(its) : Same(its[i], it)}
<1>1. Index(its, it) = IF I # {} THEN Min(I) ELSE 0
  BY DEF Index, SelectInSeq
<1>2. I \subseteq 1..Len(its) /\ DOMAIN its = 1..Len(its) /\ Len(its) \in Nat
  OBVIOUS
<1>3. ASSUME I # {} PROVE Min(I) \in I
  <2>1. I \in SUBSET Nat
    BY <1>2
  <2> HIDE DEF I
  <2>2. \E x \in I : \A y \in I : x <= y
    BY <1>3, <2>1, LeastExists
  <2> QED
    BY <2>2 DEF Min
<1> QED
  BY <1>1, <1>2, <1>3

\* A sequence with one place taken out.
LEMMA RemoveAtProperties ==
  ASSUME NEW S, NEW s \in Seq(S), NEW i \in 1..Len(s)
  PROVE  /\ RemoveAt(s, i) \in Seq(S) /\ Len(RemoveAt(s, i)) = Len(s) - 1
         /\ \A j \in 1..(Len(s) - 1) : RemoveAt(s, i)[j] = s[IF j < i THEN j ELSE j + 1]
<1> DEFINE a == SubSeq(s, 1, i - 1)
           b == SubSeq(s, i + 1, Len(s))
<1>0. i \in Nat /\ Len(s) \in Nat /\ 1 <= i /\ i <= Len(s) /\ \A j \in 1..Len(s) : s[j] \in S
  OBVIOUS
<1>1. /\ a \in Seq(S) /\ Len(a) = i - 1
      /\ \A j \in 1..(i - 1) : a[j] = s[j]
  <2>1. \A j \in 1..(i - 1) : s[j] \in S
    BY <1>0
  <2> QED
    BY <1>0, <2>1, SubSeqProperties
<1>2. /\ b \in Seq(S) /\ Len(b) = Len(s) - i
      /\ \A j \in 1..(Len(s) - i) : b[j] = s[i + j]
  <2>1. \A j \in (i + 1)..Len(s) : s[j] \in S
    BY <1>0
  <2>2. /\ b \in Seq(S)
        /\ Len(b) = IF i + 1 <= Len(s) THEN Len(s) - (i + 1) + 1 ELSE 0
        /\ \A j \in 1..(Len(s) - (i + 1) + 1) : b[j] = s[(i + 1) + j - 1]
    BY <1>0, <2>1, SubSeqProperties
  <2> HIDE DEF b
  <2> QED
    BY <1>0, <2>2
<1> HIDE DEF a, b
<1>3. /\ a \o b \in Seq(S) /\ Len(a \o b) = Len(a) + Len(b)
      /\ \A j \in 1..(Len(a) + Len(b)) :
           (a \o b)[j] = IF j <= Len(a) THEN a[j] ELSE b[j - Len(a)]
  BY <1>1, <1>2, ConcatProperties
<1> DEFINE c == a \o b
<1>4. c = RemoveAt(s, i)
  BY DEF RemoveAt, a, b
<1>5. c \in Seq(S) /\ Len(c) = Len(s) - 1
  BY <1>0, <1>1, <1>2, <1>3
<1>6. ASSUME NEW j \in 1..(Len(s) - 1) PROVE c[j] = s[IF j < i THEN j ELSE j + 1]
  <2>0. c[j] = IF j <= i - 1 THEN a[j] ELSE b[j - (i - 1)]
    BY <1>0, <1>1, <1>2, <1>3
  <2> HIDE DEF c
  <2>1. CASE j < i
    BY <2>1, <2>0, <1>0, <1>1
  <2>2. CASE j >= i
    <3>1. j - (i - 1) \in 1..(Len(s) - i) /\ i + (j - (i - 1)) = j + 1
      BY <2>2, <1>0
    <3>2. b[j - (i - 1)] = s[j + 1]
      BY <3>1, <1>2
    <3> QED
      BY <2>2, <2>0, <3>2, <1>0
  <2> QED
    BY <2>1, <2>2, <1>0
<1> QED
  BY <1>4, <1>5, <1>6

\* An item taken out of the store.
LEMMA RemovedOn ==
  ASSUME NEW its \in Seq(Surely), Distinct(its), NEW it
  PROVE  /\ Removed(its, it) \in Seq(Surely) /\ Distinct(Removed(its, it))
         /\ \A x : On(Removed(its, it), x) = IF Same(it, x) THEN {} ELSE On(its, x)
<1> DEFINE i == Index(its, it)
           new == Removed(its, it)
<1>1. CASE i = 0
  <2>1. new = its /\ \A j \in DOMAIN its : ~Same(its[j], it)
    BY <1>1, IndexIsFirst DEF Removed
  <2>2. ASSUME NEW x, Same(it, x) PROVE On(its, x) = {}
    BY <2>1, <2>2 DEF On, ToSet, Same, SamePlace
  <2> QED
    BY <2>1, <2>2
<1>2. CASE i # 0
  <2>1. i \in 1..Len(its) /\ Same(its[i], it) /\ Len(its) \in Nat
    BY <1>2, IndexIsFirst
  <2>2. new = RemoveAt(its, i)
    BY <1>2 DEF Removed
  <2> HIDE DEF i
  <2>3. /\ new \in Seq(Surely) /\ Len(new) = Len(its) - 1
        /\ \A j \in 1..Len(new) : new[j] = its[IF j < i THEN j ELSE j + 1]
    BY <2>1, <2>2, RemoveAtProperties
  <2> HIDE DEF new
  <2>4. Distinct(new)
    <3> SUFFICES ASSUME NEW j \in DOMAIN new, NEW k \in DOMAIN new, Same(new[j], new[k])
                 PROVE  j = k
      BY DEF Distinct
    <3> DEFINE a == IF j < i THEN j ELSE j + 1
               b == IF k < i THEN k ELSE k + 1
    <3>1. a \in DOMAIN its /\ b \in DOMAIN its /\ new[j] = its[a] /\ new[k] = its[b]
      BY <2>1, <2>3
    <3>2. a = b
      BY <3>1 DEF Distinct
    <3> QED
      BY <3>2, <2>1, <2>3
  <2>5. ToSet(new) = ToSet(its) \ {its[i]}
    <3>1. \A j \in DOMAIN its : its[j] = its[i] => j = i
      BY <2>1 DEF Distinct, Same, SamePlace
    <3>2. ASSUME NEW o \in ToSet(new) PROVE o \in ToSet(its) \ {its[i]}
      <4>1. PICK j \in 1..Len(new) : o = new[j]
        BY <2>3 DEF ToSet
      <4> DEFINE a == IF j < i THEN j ELSE j + 1
      <4>2. a \in DOMAIN its /\ o = its[a] /\ a # i
        BY <4>1, <2>1, <2>3
      <4> QED
        BY <4>2, <3>1 DEF ToSet
    <3>3. ASSUME NEW o \in ToSet(its), o # its[i] PROVE o \in ToSet(new)
      <4>1. PICK a \in 1..Len(its) : o = its[a] /\ a # i
        BY <3>3 DEF ToSet
      <4>2. PICK j \in 1..Len(new) : a = IF j < i THEN j ELSE j + 1
        <5>1. CASE a < i
          <6>1. a \in 1..Len(new) /\ a < i
            BY <5>1, <4>1, <2>1, <2>3
          <6> QED
            BY <6>1
        <5>2. CASE a > i
          <6>1. a - 1 \in 1..Len(new) /\ ~(a - 1 < i) /\ (a - 1) + 1 = a
            BY <5>2, <4>1, <2>1, <2>3
          <6> QED
            BY <6>1
        <5> QED
          BY <5>1, <5>2, <4>1, <2>1
      <4> QED
        BY <4>1, <4>2, <2>3 DEF ToSet
    <3> QED
      BY <3>2, <3>3
  <2>6. \A o \in ToSet(its) : Same(o, it) => o = its[i]
    BY <2>1 DEF Distinct, ToSet, Same, SamePlace
  <2>7. ASSUME NEW x PROVE On(new, x) = IF Same(it, x) THEN {} ELSE On(its, x)
    BY <2>1, <2>5, <2>6 DEF On, Same, SamePlace
  <2> QED
    BY <2>3, <2>4, <2>7 DEF new
<1> QED
  BY <1>1, <1>2

\* An entry added to the store: the store holds of its identity it alone, or
\* nothing when the model is not sure.
LEMMA AddedOn ==
  ASSUME NEW its \in Seq(Surely), Distinct(its), NEW it \in Items
  PROVE  /\ Added(its, it) \in Seq(Surely) /\ Distinct(Added(its, it))
         /\ \A x : On(Added(its, it), x) =
              IF Same(it, x) THEN (IF Confident(it.confidence) THEN {it} ELSE {}) ELSE On(its, x)
<1> DEFINE i == Index(its, it)
           new == Added(its, it)
<1>0. Len(its) \in Nat /\ DOMAIN its = 1..Len(its) /\ \A j \in 1..Len(its) : its[j] \in Surely
  OBVIOUS
<1>1. CASE ~Confident(it.confidence)
  <2>1. new = Removed(its, it)
    BY <1>1 DEF Added
  <2> HIDE DEF new
  <2> QED
    BY <1>1, <2>1, RemovedOn DEF new
<1>2. CASE Confident(it.confidence) /\ i = 0
  <2>1. new = Append(its, it) /\ \A j \in DOMAIN its : ~Same(its[j], it)
    BY <1>2, IndexIsFirst DEF Added
  <2>2. it \in Surely
    BY <1>2 DEF Surely
  <2>3. /\ new \in Seq(Surely) /\ Len(new) = Len(its) + 1
        /\ \A j \in 1..Len(its) : new[j] = its[j]
        /\ new[Len(its) + 1] = it
    BY <2>1, <2>2, AppendProperties
  <2> HIDE DEF new
  <2>4. Distinct(new)
    <3> SUFFICES ASSUME NEW j \in DOMAIN new, NEW k \in DOMAIN new, Same(new[j], new[k])
                 PROVE  j = k
      BY DEF Distinct
    <3>0. DOMAIN new = 1..(Len(its) + 1)
      BY <2>3
    <3>1. CASE j \in 1..Len(its) /\ k \in 1..Len(its)
      BY <3>1, <2>3, <1>0 DEF Distinct
    <3>2. CASE j = Len(its) + 1 /\ k \in 1..Len(its)
      BY <3>2, <2>1, <2>3, <1>0 DEF Same, SamePlace
    <3>3. CASE j \in 1..Len(its) /\ k = Len(its) + 1
      BY <3>3, <2>1, <2>3, <1>0
    <3> QED
      BY <3>0, <3>1, <3>2, <3>3, <1>0
  <2>5. ToSet(new) = ToSet(its) \cup {it}
    <3>0. /\ DOMAIN new = 1..(Len(its) + 1)
          /\ Len(its) + 1 \in 1..(Len(its) + 1)
          /\ \A j \in 1..(Len(its) + 1) : j \in 1..Len(its) \/ j = Len(its) + 1
          /\ \A j \in 1..Len(its) : j \in 1..(Len(its) + 1)
      BY <2>3, <1>0
    <3>1. ASSUME NEW o \in ToSet(new) PROVE o \in ToSet(its) \cup {it}
      <4>1. PICK j \in 1..(Len(its) + 1) : o = new[j]
        BY <3>0 DEF ToSet
      <4> QED
        BY <4>1, <3>0, <2>3, <1>0 DEF ToSet
    <3>2. ASSUME NEW o \in ToSet(its) PROVE o \in ToSet(new)
      <4>1. PICK j \in 1..Len(its) : o = its[j]
        BY <1>0 DEF ToSet
      <4> QED
        BY <4>1, <3>0, <2>3 DEF ToSet
    <3>3. it \in ToSet(new)
      BY <3>0, <2>3 DEF ToSet
    <3> QED
      BY <3>1, <3>2, <3>3
  <2>6. \A o \in ToSet(its) : ~Same(o, it)
    BY <2>1 DEF ToSet
  <2>7. ASSUME NEW x PROVE On(new, x) = IF Same(it, x) THEN {it} ELSE On(its, x)
    BY <2>5, <2>6 DEF On, Same, SamePlace
  <2> QED
    BY <1>2, <2>3, <2>4, <2>7 DEF new
<1>3. CASE Confident(it.confidence) /\ i # 0
  <2>1. i \in 1..Len(its) /\ Same(its[i], it)
    BY <1>3, IndexIsFirst
  <2>2. new = [its EXCEPT ![i] = it]
    BY <1>3 DEF Added, ReplaceAt
  <2>3. it \in Surely
    BY <1>3 DEF Surely
  <2> HIDE DEF i
  <2>4. /\ new \in Seq(Surely) /\ DOMAIN new = 1..Len(its)
        /\ new[i] = it
        /\ \A j \in 1..Len(its) : j # i => new[j] = its[j]
    BY <2>1, <2>2, <2>3, <1>0
  <2> HIDE DEF new
  <2>5. \A j \in 1..Len(its) : Same(its[j], it) => j = i
    BY <2>1, <1>0 DEF Distinct, Same, SamePlace
  <2>6. Distinct(new)
    <3> SUFFICES ASSUME NEW j \in 1..Len(its), NEW k \in 1..Len(its), Same(new[j], new[k])
                 PROVE  j = k
      BY <2>4 DEF Distinct
    <3>1. CASE j = i \/ k = i
      BY <3>1, <2>1, <2>4, <2>5 DEF Same, SamePlace
    <3>2. CASE j # i /\ k # i
      BY <3>2, <2>4, <1>0 DEF Distinct
    <3> QED
      BY <3>1, <3>2
  <2>7. \A o : o \in ToSet(new) <=> (o = it \/ \E j \in 1..Len(its) : j # i /\ o = its[j])
    BY <2>1, <2>4, <1>0 DEF ToSet
  <2>8. ASSUME NEW x PROVE On(new, x) = IF Same(it, x) THEN {it} ELSE On(its, x)
    <3>1. ASSUME Same(it, x) PROVE On(new, x) = {it}
      BY <3>1, <2>5, <2>7 DEF On, Same, SamePlace
    <3>2. ASSUME ~Same(it, x) PROVE On(new, x) = On(its, x)
      <4>1. ~Same(its[i], x)
        BY <3>2, <2>1 DEF Same, SamePlace
      <4>2. \A o : o \in ToSet(its) <=> \E j \in 1..Len(its) : o = its[j]
        BY <1>0 DEF ToSet
      <4> QED
        BY <3>2, <4>1, <4>2, <2>7 DEF On
    <3> QED
      BY <3>1, <3>2
  <2> QED
    BY <1>3, <2>4, <2>6, <2>8 DEF new
<1> QED
  BY <1>1, <1>2, <1>3

\* The stores of a call: after each entry, the one before with the entry added.
LEMMA StoresOfACall ==
  ASSUME NEW its \in Seq(Surely), Distinct(its), NEW es \in Seq(Items)
  PROVE  \E g : /\ g[0] = its /\ AddedAll(its, es) = g[Len(es)]
                /\ \A k \in 1..Len(es) : g[k] = Added(g[k - 1], es[k])
<1> DEFINE n == Len(es)
           X == {s \in Seq(Surely) : Distinct(s)}
           step == [p \in X \X (1..n) |-> Added(p[1], es[p[2]])]
           law(f) == [k \in 0..n |-> IF k = 0 THEN its ELSE Added(f[k - 1], es[k])]
           after == CHOOSE f : f = law(f)
<1>0. n \in Nat /\ \A k \in 1..n : es[k] \in Items
  OBVIOUS
<1>1. AddedAll(its, es) = after[n]
  BY DEF AddedAll
<1> HIDE DEF n
<1>2. \A s \in X, k \in 1..n : Added(s, es[k]) \in X
  BY <1>0, AddedOn
<1> HIDE DEF X
<1>3. step \in [X \X (1..n) -> X] /\ \A s \in X, k \in 1..n : step[<<s, k>>] = Added(s, es[k])
  BY <1>2
<1>4. its \in X
  BY DEF X
<1> HIDE DEF step
<1>5. PICK g \in [0..n -> X] : g[0] = its /\ \A k \in 1..n : g[k] = step[<<g[k - 1], k>>]
  <2>1. step \in Steps(X, n)
    BY <1>3 DEF Steps
  <2>2. Course(X, n, step, its) # {}
    BY ONLY <2>1, <1>0, <1>4, Recursion
  <2> QED
    BY <2>2 DEF Course
<1>6. \A k \in 0..n : k # 0 => k \in 1..n /\ k - 1 \in 0..n
  BY <1>0
<1>7. \A k \in 1..n : g[k] = Added(g[k - 1], es[k])
  <2>1. \A k \in 1..n : g[k - 1] \in X
    BY <1>5, <1>6
  <2> QED
    BY <2>1, <1>3, <1>5
<1>8. g = law(g)
  BY <1>5, <1>6, <1>7
<1>9. after = law(after)
  BY <1>8
<1> HIDE DEF after
<1>10. after[0] = its /\ \A k \in 1..n : after[k] = Added(after[k - 1], es[k])
  <2>1. 0 \in 0..n /\ \A k \in 1..n : k \in 0..n /\ k # 0
    BY <1>0
  <2> DEFINE f == law(after)
  <2>2. f[0] = its
    BY <2>1
  <2>3. ASSUME NEW k \in 1..n PROVE f[k] = Added(after[k - 1], es[k])
    BY <2>1
  <2> HIDE DEF f
  <2>4. after = f
    BY <1>9 DEF f
  <2> QED
    BY <2>2, <2>3, <2>4
<1> QED
  BY <1>1, <1>10 DEF n

\* What a call leaves on record about an identity: its last entry about it, if
\* the model is sure of that one, and what there was if it has none.
LEMMA AddedAllOn ==
  ASSUME NEW its \in Seq(Surely), Distinct(its), NEW es \in Seq(Items)
  PROVE  LET new == AddedAll(its, es)
         IN  /\ new \in Seq(Surely) /\ Distinct(new)
             /\ \A x : (\A j \in 1..Len(es) : ~Same(es[j], x)) => On(new, x) = On(its, x)
             /\ \A x : \A m \in 1..Len(es) :
                  Same(es[m], x) /\ (\A j \in (m + 1)..Len(es) : ~Same(es[j], x))
                    => On(new, x) = IF Confident(es[m].confidence) THEN {es[m]} ELSE {}
<1> DEFINE n == Len(es)
<1>0. n \in Nat /\ \A k \in 1..n : es[k] \in Items
  OBVIOUS
<1>1. PICK g : /\ g[0] = its /\ AddedAll(its, es) = g[n]
               /\ \A k \in 1..n : g[k] = Added(g[k - 1], es[k])
  BY StoresOfACall
<1> HIDE DEF n
<1> DEFINE sound(k) == g[k] \in Seq(Surely) /\ Distinct(g[k])
           kept(k) == \A x : (\A j \in 1..k : ~Same(es[j], x)) => On(g[k], x) = On(its, x)
           told(k) == \A x : \A m \in 1..k :
                        Same(es[m], x) /\ (\A j \in (m + 1)..k : ~Same(es[j], x))
                          => On(g[k], x) = IF Confident(es[m].confidence) THEN {es[m]} ELSE {}
           S == {k \in Nat : k <= n => sound(k) /\ kept(k) /\ told(k)}
<1> HIDE DEF sound, kept, told
<1>2. 0 \in S
  BY <1>1 DEF sound, kept, told
<1>3. ASSUME NEW k \in Nat, k \in S PROVE k + 1 \in S
  <2> SUFFICES ASSUME k + 1 <= n PROVE sound(k + 1) /\ kept(k + 1) /\ told(k + 1)
    OBVIOUS
  <2> DEFINE e == es[k + 1]
  <2>0. k <= n /\ k + 1 \in 1..n /\ (k + 1) - 1 = k /\ e \in Items
    BY <1>0
  <2>1. g[k + 1] = Added(g[k], e)
    BY <2>0, <1>1
  <2>2. sound(k) /\ kept(k) /\ told(k)
    BY <2>0, <1>3
  <2> HIDE DEF e
  <2>3. /\ Added(g[k], e) \in Seq(Surely) /\ Distinct(Added(g[k], e))
        /\ \A x : On(Added(g[k], e), x) =
             IF Same(e, x) THEN (IF Confident(e.confidence) THEN {e} ELSE {}) ELSE On(g[k], x)
    <3>1. g[k] \in Seq(Surely) /\ Distinct(g[k])
      BY <2>2 DEF sound
    <3> QED
      BY <2>0, <3>1, AddedOn
  <2>4. k + 1 \in 1..(k + 1) /\ \A j \in 1..k : j \in 1..(k + 1)
    OBVIOUS
  <2>5. kept(k + 1)
    <3> SUFFICES ASSUME NEW x, \A j \in 1..(k + 1) : ~Same(es[j], x)
                 PROVE  On(g[k + 1], x) = On(its, x)
      BY DEF kept
    <3>1. ~Same(e, x) /\ \A j \in 1..k : ~Same(es[j], x)
      BY <2>4 DEF e
    <3>2. On(g[k], x) = On(its, x)
      BY <3>1, <2>2 DEF kept
    <3> QED
      BY <3>1, <3>2, <2>1, <2>3
  <2>6. told(k + 1)
    <3> SUFFICES ASSUME NEW x, NEW m \in 1..(k + 1), Same(es[m], x),
                        \A j \in (m + 1)..(k + 1) : ~Same(es[j], x)
                 PROVE  On(g[k + 1], x) = IF Confident(es[m].confidence) THEN {es[m]} ELSE {}
      BY DEF told
    <3>1. CASE m = k + 1
      <4>1. es[m] = e /\ Same(e, x)
        BY <3>1 DEF e
      <4> QED
        BY <4>1, <2>1, <2>3
    <3>2. CASE m # k + 1
      <4>1. m \in 1..k /\ k + 1 \in (m + 1)..(k + 1)
            /\ \A j \in (m + 1)..k : j \in (m + 1)..(k + 1)
        BY <3>2
      <4>2. ~Same(e, x) /\ \A j \in (m + 1)..k : ~Same(es[j], x)
        BY <4>1 DEF e
      <4>3. On(g[k], x) = IF Confident(es[m].confidence) THEN {es[m]} ELSE {}
        BY <4>1, <4>2, <2>2 DEF told
      <4> QED
        BY <4>2, <4>3, <2>1, <2>3
    <3> QED
      BY <3>1, <3>2
  <2>7. sound(k + 1)
    BY <2>1, <2>3 DEF sound
  <2> QED
    BY <2>5, <2>6, <2>7
<1>4. n \in S
  <2> HIDE DEF S
  <2> QED
    BY <1>0, <1>2, <1>3, Induction
<1>5. sound(n) /\ kept(n) /\ told(n)
  BY <1>0, <1>4
<1> QED
  BY <1>1, <1>5 DEF sound, kept, told, n

\* The last entry about an identity.
LEMMA GreatestExists ==
  ASSUME NEW n \in Nat, NEW S \in SUBSET (1..n), S # {}
  PROVE  \E k \in S : \A m \in S : m <= k
<1> DEFINE T == {n - k : k \in S}
<1>1. T \in SUBSET Nat /\ T # {}
  <2>1. \A k \in S : n - k \in Nat
    OBVIOUS
  <2> QED
    BY <2>1
<1> HIDE DEF T
<1>2. PICK t \in T : \A u \in T : t <= u
  BY <1>1, LeastExists
<1>3. PICK k \in S : t = n - k
  BY <1>2 DEF T
<1>4. ASSUME NEW m \in S PROVE m <= k
  <2>1. n - m \in T
    BY DEF T
  <2> QED
    BY <1>2, <1>3, <2>1
<1> QED
  BY <1>4

LEMMA LastWordIsLast ==
  ASSUME NEW c, c.entries \in Seq(Items), Bad \notin Items, NEW it
  PROVE  LET n == LastWord(c, it)
         IN  /\ n \in 0..Len(c.entries)
             /\ n = 0 => \A j \in 1..Len(c.entries) : ~Same(c.entries[j], it)
             /\ n # 0 => /\ Same(c.entries[n], it)
                         /\ \A j \in (n + 1)..Len(c.entries) : ~Same(c.entries[j], it)
<1> DEFINE es == c.entries
           I == {i \in 1..Len(es) : es[i] # Bad /\ Same(es[i], it)}
<1>1. LastWord(c, it) = IF I # {} THEN Max(I) ELSE 0
  BY DEF LastWord, SelectLastInSeq
<1>2. Len(es) \in Nat /\ \A j \in 1..Len(es) : es[j] # Bad
  OBVIOUS
<1>3. \A j \in 1..Len(es) : j \in I <=> Same(es[j], it)
  BY <1>2
<1>4. I \in SUBSET (1..Len(es))
  OBVIOUS
<1> HIDE DEF I, es
<1>5. ASSUME I # {} PROVE Max(I) \in I /\ \A j \in I : j <= Max(I)
  <2>1. \E k \in I : \A m \in I : m <= k
    BY <1>2, <1>4, <1>5, GreatestExists
  <2>2. \E k \in I : \A m \in I : k >= m
    BY <2>1, <1>4, <1>2
  <2> DEFINE top(k) == \A m \in I : k >= m
  <2>3. Max(I) \in I /\ top(Max(I))
    BY <2>2 DEF Max
  <2> QED
    BY <2>3, <1>4, <1>2
<1>6. CASE I = {}
  BY <1>1, <1>2, <1>3, <1>6 DEF es
<1>7. CASE I # {}
  <2> DEFINE n == Max(I)
  <2>1. n \in I /\ n \in 1..Len(es) /\ \A j \in I : j <= n
    BY <1>4, <1>5, <1>7
  <2> HIDE DEF n
  <2>2. ASSUME NEW j \in (n + 1)..Len(es) PROVE ~Same(es[j], it)
    <3>1. j \in 1..Len(es) /\ ~(j <= n)
      BY <2>1, <1>2
    <3> QED
      BY <3>1, <2>1, <1>3
  <2>3. LastWord(c, it) = n /\ n # 0 /\ n \in 0..Len(es) /\ Same(es[n], it)
    BY <1>1, <1>7, <2>1, <1>2, <1>3 DEF n
  <2> QED
    BY <2>2, <2>3 DEF es
<1> QED
  BY <1>6, <1>7

\* The report of a store, item by item.
Grown(out, it) == IF Told(it) /\ Index(out, it) = 0 THEN Append(out, it) ELSE out

LEMMA GrownKeeps ==
  ASSUME NEW out \in Seq(Surely), Distinct(out), NEW it \in Surely
  PROVE  LET new == Grown(out, it)
         IN  /\ new \in Seq(Surely) /\ Distinct(new)
             /\ \A o \in ToSet(new) : o \in ToSet(out) \/ (o = it /\ Told(it))
             /\ \A o \in ToSet(out) : o \in ToSet(new)
             /\ Told(it) => \E o \in ToSet(new) : Same(o, it)
<1> DEFINE new == Grown(out, it)
           n == Len(out)
<1>0. n \in Nat /\ DOMAIN out = 1..n /\ \A j \in 1..n : out[j] \in Surely
  OBVIOUS
<1>1. CASE ~Told(it)
  BY <1>1 DEF Grown
<1>2. CASE Index(out, it) # 0
  <2>1. new = out
    BY <1>2 DEF Grown
  <2>2. Index(out, it) \in 1..n /\ Same(out[Index(out, it)], it)
    BY <1>2, IndexIsFirst
  <2>3. out[Index(out, it)] \in ToSet(out)
    BY <2>2, <1>0 DEF ToSet
  <2> QED
    BY <2>1, <2>2, <2>3
<1>3. CASE Told(it) /\ Index(out, it) = 0
  <2>1. new = Append(out, it) /\ \A j \in DOMAIN out : ~Same(out[j], it)
    BY <1>3, IndexIsFirst DEF Grown
  <2> HIDE DEF n
  <2>2. /\ new \in Seq(Surely) /\ Len(new) = n + 1
        /\ \A j \in 1..n : new[j] = out[j]
        /\ new[n + 1] = it
    BY <2>1, AppendProperties DEF n
  <2> HIDE DEF new
  <2>3. /\ DOMAIN new = 1..(n + 1) /\ n + 1 \in 1..(n + 1)
        /\ \A j \in 1..(n + 1) : j \in 1..n \/ j = n + 1
        /\ \A j \in 1..n : j \in 1..(n + 1)
    BY <2>2, <1>0
  <2>4. Distinct(new)
    <3> SUFFICES ASSUME NEW j \in 1..(n + 1), NEW k \in 1..(n + 1), Same(new[j], new[k])
                 PROVE  j = k
      BY <2>3 DEF Distinct
    <3>1. CASE j \in 1..n /\ k \in 1..n
      BY <3>1, <2>2, <1>0 DEF Distinct
    <3>2. CASE j = n + 1 /\ k \in 1..n
      BY <3>2, <2>1, <2>2, <1>0 DEF Same, SamePlace
    <3>3. CASE j \in 1..n /\ k = n + 1
      BY <3>3, <2>1, <2>2, <1>0
    <3> QED
      BY <2>3, <3>1, <3>2, <3>3
  <2>5. ASSUME NEW o \in ToSet(new) PROVE o \in ToSet(out) \/ o = it
    <3>1. PICK j \in 1..(n + 1) : o = new[j]
      BY <2>3 DEF ToSet
    <3> QED
      BY <3>1, <2>3, <2>2, <1>0 DEF ToSet
  <2>6. ASSUME NEW o \in ToSet(out) PROVE o \in ToSet(new)
    <3>1. PICK j \in 1..n : o = out[j]
      BY <1>0 DEF ToSet
    <3> QED
      BY <3>1, <2>3, <2>2 DEF ToSet
  <2>7. it \in ToSet(new) /\ Same(it, it)
    BY <2>3, <2>2 DEF ToSet, Same, SamePlace
  <2> QED
    BY <1>3, <2>2, <2>4, <2>5, <2>6, <2>7 DEF new
<1> QED
  BY <1>1, <1>2, <1>3

LEMMA CourseOfReport ==
  ASSUME NEW its \in Seq(Surely)
  PROVE  \E g : /\ g[0] = << >> /\ Report(its) = g[Len(its)]
                /\ \A k \in 1..Len(its) : g[k] = Grown(g[k - 1], its[k])
<1> DEFINE n == Len(its)
           X == {s \in Seq(Surely) : Distinct(s)}
           step == [p \in X \X (1..n) |-> Grown(p[1], its[p[2]])]
           law(f) == [k \in 0..n |->
                        IF k = 0 THEN << >>
                        ELSE IF Told(its[k]) /\ Index(f[k - 1], its[k]) = 0
                             THEN Append(f[k - 1], its[k])
                        ELSE f[k - 1]]
           out == CHOOSE f : f = law(f)
<1>0. n \in Nat /\ \A k \in 1..n : its[k] \in Surely
  OBVIOUS
<1>1. Report(its) = out[n]
  BY DEF Report
<1> HIDE DEF n
<1>2. \A s \in X, k \in 1..n : Grown(s, its[k]) \in X
  BY <1>0, GrownKeeps
<1>3. << >> \in X
  BY DEF Distinct
<1> HIDE DEF X
<1>4. step \in [X \X (1..n) -> X] /\ \A s \in X, k \in 1..n : step[<<s, k>>] = Grown(s, its[k])
  BY <1>2
<1> HIDE DEF step
<1>5. PICK g \in [0..n -> X] : g[0] = << >> /\ \A k \in 1..n : g[k] = step[<<g[k - 1], k>>]
  <2>1. step \in Steps(X, n)
    BY <1>4 DEF Steps
  <2>2. Course(X, n, step, << >>) # {}
    BY ONLY <2>1, <1>0, <1>3, Recursion
  <2> QED
    BY <2>2 DEF Course
<1>6. \A k \in 0..n : k # 0 => k \in 1..n /\ k - 1 \in 0..n
  BY <1>0
<1>7. \A k \in 1..n : g[k] = Grown(g[k - 1], its[k])
  <2>1. \A k \in 1..n : g[k - 1] \in X
    BY <1>5, <1>6
  <2> QED
    BY <2>1, <1>4, <1>5
<1>8. g = law(g)
  BY <1>5, <1>6, <1>7 DEF Grown
<1>9. out = law(out)
  BY <1>8
<1> HIDE DEF out
<1>10. out[0] = << >> /\ \A k \in 1..n : out[k] = Grown(out[k - 1], its[k])
  <2>1. 0 \in 0..n /\ \A k \in 1..n : k \in 0..n /\ k # 0
    BY <1>0
  <2> DEFINE f == law(out)
  <2>2. f[0] = << >>
    BY <2>1
  <2>3. ASSUME NEW k \in 1..n PROVE f[k] = Grown(out[k - 1], its[k])
    BY <2>1 DEF Grown
  <2> HIDE DEF f
  <2>4. out = f
    BY <1>9 DEF f
  <2> QED
    BY <2>2, <2>3, <2>4
<1> QED
  BY <1>1, <1>10 DEF n

LEMMA ReportIsOne ==
  ASSUME NEW its \in Seq(Surely), Distinct(its)
  PROVE  ReportOf(its, Report(its))
<1> DEFINE n == Len(its)
<1>0. n \in Nat /\ DOMAIN its = 1..n /\ \A k \in 1..n : its[k] \in Surely
  OBVIOUS
<1>1. PICK g : /\ g[0] = << >> /\ Report(its) = g[n]
               /\ \A k \in 1..n : g[k] = Grown(g[k - 1], its[k])
  BY CourseOfReport
<1> HIDE DEF n
<1> DEFINE sound(k) == /\ g[k] \in Seq(Surely) /\ Distinct(g[k])
                       /\ \A o \in ToSet(g[k]) : \E j \in 1..k : o = its[j] /\ Told(o)
           whole(k) == \A j \in 1..k : Told(its[j]) => \E o \in ToSet(g[k]) : Same(o, its[j])
           S == {k \in Nat : k <= n => sound(k) /\ whole(k)}
<1> HIDE DEF sound, whole
<1>2. 0 \in S
  <2>1. sound(0)
    BY <1>1 DEF sound, Distinct, ToSet
  <2>2. whole(0)
    BY DEF whole
  <2> QED
    BY <2>1, <2>2
<1>3. ASSUME NEW k \in Nat, k \in S PROVE k + 1 \in S
  <2> SUFFICES ASSUME k + 1 <= n PROVE sound(k + 1) /\ whole(k + 1)
    OBVIOUS
  <2> DEFINE it == its[k + 1]
  <2>0. k <= n /\ k + 1 \in 1..n /\ (k + 1) - 1 = k /\ it \in Surely
    BY <1>0
  <2>1. g[k + 1] = Grown(g[k], it)
    BY <2>0, <1>1
  <2>2. sound(k) /\ whole(k)
    BY <2>0, <1>3
  <2> HIDE DEF it
  <2>3. /\ g[k + 1] \in Seq(Surely) /\ Distinct(g[k + 1])
        /\ \A o \in ToSet(g[k + 1]) : o \in ToSet(g[k]) \/ (o = it /\ Told(it))
        /\ \A o \in ToSet(g[k]) : o \in ToSet(g[k + 1])
        /\ Told(it) => \E o \in ToSet(g[k + 1]) : Same(o, it)
    <3>1. g[k] \in Seq(Surely) /\ Distinct(g[k])
      BY <2>2 DEF sound
    <3> QED
      BY <2>0, <2>1, <3>1, GrownKeeps
  <2>4. /\ k + 1 \in 1..(k + 1) /\ \A j \in 1..k : j \in 1..(k + 1)
        /\ \A j \in 1..(k + 1) : j \in 1..k \/ j = k + 1
    OBVIOUS
  <2>5. sound(k + 1)
    <3>1. ASSUME NEW o \in ToSet(g[k + 1]) PROVE \E j \in 1..(k + 1) : o = its[j] /\ Told(o)
      <4>1. CASE o \in ToSet(g[k])
        BY <4>1, <2>2, <2>4 DEF sound
      <4>2. CASE o = it /\ Told(it)
        BY <4>2, <2>4 DEF it
      <4> QED
        BY <4>1, <4>2, <2>3
    <3> QED
      BY <3>1, <2>3 DEF sound
  <2>6. whole(k + 1)
    <3> SUFFICES ASSUME NEW j \in 1..(k + 1), Told(its[j])
                 PROVE  \E o \in ToSet(g[k + 1]) : Same(o, its[j])
      BY DEF whole
    <3>1. CASE j \in 1..k
      BY <3>1, <2>2, <2>3 DEF whole
    <3>2. CASE j = k + 1
      BY <3>2, <2>3 DEF it
    <3> QED
      BY <3>1, <3>2, <2>4
  <2> QED
    BY <2>5, <2>6
<1>4. n \in S
  <2> HIDE DEF S
  <2> QED
    BY <1>0, <1>2, <1>3, Induction
<1>5. sound(n) /\ whole(n)
  BY <1>0, <1>4
<1>6. ASSUME NEW o \in ToSet(Report(its)) PROVE o \in ToSet(its) /\ Told(o)
  BY <1>0, <1>1, <1>5 DEF sound, ToSet
<1>7. ASSUME NEW o \in ToSet(its), Told(o) PROVE o \in ToSet(Report(its))
  <2>1. PICK j \in 1..n : o = its[j]
    BY <1>0 DEF ToSet
  <2>2. PICK p \in ToSet(Report(its)) : Same(p, o)
    BY <2>1, <1>1, <1>5, <1>7 DEF whole
  <2>3. PICK m \in 1..n : p = its[m]
    BY <2>2, <1>1, <1>5 DEF sound
  <2>4. m = j
    BY <2>1, <2>2, <2>3, <1>0 DEF Distinct
  <2> QED
    BY <2>1, <2>2, <2>3, <2>4
<1>8. Report(its) \in Seq(Surely) /\ Distinct(Report(its))
  BY <1>1, <1>5 DEF sound
<1> QED
  BY <1>6, <1>7, <1>8 DEF ReportOf

-----------------------------------------------------------------------------
(* The calls. *)

\* The entries of a call that is not refused are items.
LEMMA EntriesAreItems ==
  ASSUME NEW c \in Calls, Bad \notin ToSet(c.entries)
  PROVE  c.entries \in Seq(Items)
<1> DEFINE es == c.entries
<1>1. es \in Seq(Items \cup {Bad})
  BY DiscoveryAssumption
<1>2. Len(es) \in Nat /\ DOMAIN es = 1..Len(es) /\ es \in [1..Len(es) -> Items \cup {Bad}]
  BY <1>1, LenProperties
<1>3. \A j \in 1..Len(es) : es[j] \in Items
  BY <1>2 DEF ToSet
<1> HIDE DEF es
<1>4. es \in [1..Len(es) -> Items]
  BY <1>2, <1>3
<1>5. es \in Seq(Items)
  BY <1>2, <1>4
<1> QED
  BY <1>5 DEF es

\* A removal names one item.
LEMMA RemovalNamesOne ==
  ASSUME NEW c \in Calls, c.tool = "remove"
  PROVE  /\ Len(c.entries) = 1 /\ Head(c.entries) = c.entries[1] /\ c.entries[1] \in Items
         /\ Bad \notin ToSet(c.entries)
<1>1. c.entries \in Seq(Items \cup {Bad}) /\ Len(c.entries) = 1 /\ Head(c.entries) # Bad
  BY DiscoveryAssumption
<1>2. DOMAIN c.entries = 1..1 /\ Head(c.entries) = c.entries[1]
      /\ c.entries[1] \in Items \cup {Bad}
  BY <1>1
<1> QED
  BY <1>1, <1>2 DEF ToSet

\* What a call does to the store: the last word about each identity counts.
LEMMA StoredOn ==
  ASSUME IInv, NEW c \in Calls
  PROVE  /\ Stored(c) \in Seq(Surely) /\ Distinct(Stored(c))
         /\ \A it \in Items :
              LET n == LastWord(c, it)
              IN  On(Stored(c), it) =
                    IF c.tool = "read" \/ Bad \in ToSet(c.entries) \/ n = 0 THEN On(items, it)
                    ELSE IF c.tool = "remove" \/ c.entries[n].confidence < 3 THEN {}
                    ELSE {c.entries[n]}
<1> DEFINE es == c.entries
<1>0. items \in Seq(Surely) /\ Distinct(items) /\ Bad \notin Items
      /\ c.tool \in {"add", "remove", "submit", "read"}
  BY DiscoveryAssumption DEF IInv
<1>1. CASE c.tool = "read" \/ (c.tool # "remove" /\ Bad \in ToSet(es))
  BY <1>0, <1>1 DEF Stored, Accepted
<1>2. CASE c.tool = "remove"
  <2>1. /\ Len(es) = 1 /\ Head(es) = es[1] /\ es[1] \in Items /\ Bad \notin ToSet(es)
        /\ es \in Seq(Items)
    BY <1>2, RemovalNamesOne, EntriesAreItems
  <2>2. Stored(c) = Removed(items, es[1])
    BY <1>2, <2>1 DEF Stored
  <2> HIDE DEF es
  <2>3. /\ Stored(c) \in Seq(Surely) /\ Distinct(Stored(c))
        /\ \A x : On(Stored(c), x) = IF Same(es[1], x) THEN {} ELSE On(items, x)
    <3> DEFINE it == es[1]
               new == Removed(items, it)
    <3>1. new \in Seq(Surely) /\ Distinct(new)
      BY <1>0, RemovedOn
    <3>2. \A x : On(new, x) = IF Same(it, x) THEN {} ELSE On(items, x)
      <4> HIDE DEF it
      <4> QED
        BY <1>0, RemovedOn
    <3> QED
      BY <2>2, <3>1, <3>2
  <2>4. ASSUME NEW it \in Items
        PROVE  /\ LastWord(c, it) = 0 => ~Same(es[1], it)
               /\ LastWord(c, it) # 0 => Same(es[1], it)
    <3>1. LET n == LastWord(c, it)
          IN  /\ n \in 0..Len(es)
              /\ n = 0 => \A j \in 1..Len(es) : ~Same(es[j], it)
              /\ n # 0 => Same(es[n], it)
      BY <1>0, <2>1, LastWordIsLast DEF es
    <3> QED
      BY <3>1, <2>1
  <2> QED
    BY <1>2, <2>1, <2>3, <2>4 DEF es
<1>3. CASE c.tool \in {"add", "submit"} /\ Bad \notin ToSet(es)
  <2>1. es \in Seq(Items) /\ Stored(c) = AddedAll(items, es)
    BY <1>3, EntriesAreItems DEF Stored, Accepted
  <2> DEFINE new == AddedAll(items, es)
  <2>2. /\ new \in Seq(Surely) /\ Distinct(new)
        /\ \A x : (\A j \in 1..Len(es) : ~Same(es[j], x)) => On(new, x) = On(items, x)
        /\ \A x : \A m \in 1..Len(es) :
             Same(es[m], x) /\ (\A j \in (m + 1)..Len(es) : ~Same(es[j], x))
               => On(new, x) = IF Confident(es[m].confidence) THEN {es[m]} ELSE {}
    BY <1>0, <2>1, AddedAllOn
  <2> HIDE DEF new
  <2>3. ASSUME NEW it \in Items
        PROVE  LET n == LastWord(c, it)
               IN  On(new, it) = IF n = 0 THEN On(items, it)
                                 ELSE IF es[n].confidence < 3 THEN {} ELSE {es[n]}
    <3> DEFINE n == LastWord(c, it)
    <3>1. /\ n \in 0..Len(es)
          /\ n = 0 => \A j \in 1..Len(es) : ~Same(es[j], it)
          /\ n # 0 => /\ Same(es[n], it)
                      /\ \A j \in (n + 1)..Len(es) : ~Same(es[j], it)
      BY <1>0, <2>1, LastWordIsLast
    <3> HIDE DEF n, es
    <3>2. CASE n = 0
      BY <3>1, <3>2, <2>2 DEF n
    <3>3. CASE n # 0
      <4>1. n \in 1..Len(es)
        BY <3>1, <3>3, <2>1
      <4>2. On(new, it) = IF Confident(es[n].confidence) THEN {es[n]} ELSE {}
        BY <4>1, <3>1, <3>3, <2>2
      <4>3. es[n].confidence \in 1..4
        BY <4>1, <2>1, DiscoveryAssumption DEF Confidences
      <4>4. Confident(es[n].confidence) <=> ~(es[n].confidence < 3)
        BY <4>3 DEF Confident, MinConfident
      <4> QED
        BY <3>3, <4>2, <4>4 DEF n
    <3> QED
      BY <3>2, <3>3
  <2> QED
    BY <1>3, <2>1, <2>2, <2>3 DEF new
<1> QED
  BY <1>0, <1>1, <1>2, <1>3

-----------------------------------------------------------------------------
(* The invariant. *)

LEMMA InitInv == Init => IInv
<1> SUFFICES ASSUME Init PROVE IInv
  OBVIOUS
<1>1. LoopType
  BY LoopInitType DEF Init
<1>2. covers \subseteq Covers /\ over \in BOOLEAN /\ ~over /\ recorded = << >>
  BY DEF Init
<1>3. RaisedCovered
  BY DEF Init, RaisedCovered
<1>4. items \in Seq(Surely) /\ Distinct(items)
  BY DEF Init, Distinct
<1> QED
  BY <1>1, <1>2, <1>3, <1>4 DEF IInv

LEMMA CallToolKeeps == IInv /\ CallTool => IInv'
<1> SUFFICES ASSUME IInv, CallTool PROVE IInv'
  OBVIOUS
<1>1. PICK c \in Calls : Answer(c, c.tool = "submit" /\ Accepted(c)) /\ items' = Stored(c)
  BY DEF CallTool
<1>2. LoopType'
  <2>1. (c.tool = "submit" /\ Accepted(c)) \in BOOLEAN
    OBVIOUS
  <2> QED
    BY <1>1, <2>1, LoopKeepsType DEF IInv
<1>3. ~over
  BY <1>1 DEF IInv, Answer
<1>4. items' \in Seq(Surely) /\ Distinct(items')
  BY <1>1, StoredOn
<1>5. covers' = covers /\ findings' = findings /\ recorded' = recorded /\ over' = over
  BY DEF CallTool
<1>6. RaisedCovered'
  BY <1>5 DEF IInv, RaisedCovered, Covered
<1> QED
  BY <1>2, <1>3, <1>4, <1>5, <1>6 DEF IInv

LEMMA ConcludeKeeps == IInv /\ Conclude => IInv'
<1> SUFFICES ASSUME IInv, Conclude PROVE IInv'
  OBVIOUS
<1>1. /\ UNCHANGED loop /\ stage = "returned" /\ over' = TRUE /\ recorded' = Report(items)
      /\ covers' = covers /\ findings' = findings /\ items' = items
  BY DEF Conclude
<1>2. LoopType' /\ stage' = "returned"
  BY <1>1, LoopKeepsType DEF IInv, loop
<1>3. ReportOf(items, Report(items))
  BY ReportIsOne DEF IInv
<1> DEFINE out == Report(items)
<1>4. ReportOf(items, recorded)'
  <2> HIDE DEF out
  <2>1. ReportOf(items, out) /\ recorded' = out
    BY <1>1, <1>3 DEF out
  <2> QED
    BY <1>1, <2>1 DEF ReportOf, Told, Covered, Restated
<1>5. RaisedCovered'
  BY <1>1 DEF IInv, RaisedCovered, Covered
<1> QED
  BY <1>1, <1>2, <1>4, <1>5 DEF IInv

LEMMA OthersKeep == IInv /\ (Ask \/ Turn \/ UNCHANGED vars) => IInv'
<1> SUFFICES ASSUME IInv, Ask \/ Turn \/ UNCHANGED vars PROVE IInv'
  OBVIOUS
<1>1. LoopType'
  BY LoopKeepsType DEF IInv, Ask, Turn, vars, loop
<1>2. UNCHANGED layer
  BY DEF Ask, Turn, vars, layer
<1>3. RaisedCovered'
  BY <1>2 DEF layer, IInv, RaisedCovered, Covered
<1>4. stage = "returned" => stage' = "returned"
  BY DEF Ask, Reply, Compaction, Turn, LoopStep, Exhausted, ProviderFails, TurnOver, vars, loop
<1>5. ReportOf(items, recorded) => ReportOf(items, recorded)'
  BY <1>2 DEF layer, ReportOf, Told, Covered, Restated
<1> QED
  BY <1>1, <1>2, <1>3, <1>4, <1>5 DEF layer, IInv

LEMMA NextInv == IInv /\ [Next]_vars => IInv'
BY CallToolKeeps, ConcludeKeeps, OthersKeep DEF Next, Returned

\* What a discovery session keeps at every step.
THEOREM Invariance == Spec => []IInv
BY InitInv, NextInv, PTL DEF Spec

-----------------------------------------------------------------------------
\* Every variable of the session keeps its type (agent.Loop.Run, the store of
\* layers/discovery/tools.go).
THEOREM TypeCorrect == Spec => []TypeOK
<1>1. ASSUME IInv PROVE TypeOK
  <2>1. findings \subseteq Texts \cup Raised
    BY <1>1 DEF IInv, RaisedCovered
  <2>2. items \in Seq({it \in Items : Confident(it.confidence)})
    BY <1>1 DEF IInv, Surely
  <2>3. recorded \in Seq(Items)
    <3>1. Surely \subseteq Items
      BY DEF Surely
    <3>2. recorded \in Seq(Surely)
      <4>1. CASE over
        BY <1>1, <4>1 DEF IInv, ReportOf
      <4>2. CASE ~over
        <5>1. recorded = << >>
          BY <1>1, <4>2 DEF IInv
        <5> QED
          BY <5>1
      <4> QED
        BY <4>1, <4>2
    <3> QED
      BY <3>1, <3>2
  <2> QED
    BY <1>1, <2>1, <2>2, <2>3 DEF IInv, TypeOK
<1> QED
  BY <1>1, Invariance, PTL

\* The report has a place once, and nothing usages() raised or a text rule found
\* again, whatever the model recorded (State.Covered and State.Restated in
\* layers/discovery/discovery.go convert, finding.Dedup).
THEOREM PlaceReportedOnce == Spec => []ReportedOnce
<1>1. ASSUME IInv PROVE ReportedOnce
  <2> SUFFICES ASSUME over
               PROVE  /\ \A i, j \in DOMAIN recorded : Same(recorded[i], recorded[j]) => i = j
                      /\ \A i \in DOMAIN recorded, f \in findings :
                           LET it == recorded[i]
                           IN  /\ ~(SamePlace(f, it) /\ it.first <= f.last /\ it.last >= f.first)
                               /\ (f.rule = TwinOf[it.rule] /\ f.file = it.file
                                     /\ it.first \in f.first..f.last)
                                    => SeverityOf[f.rule] < SeverityOf[it.rule]
    BY DEF ReportedOnce
  <2>1. ReportOf(items, recorded)
    BY <1>1 DEF IInv
  <2>2. ASSUME NEW i \in DOMAIN recorded, NEW f \in findings
        PROVE  LET it == recorded[i]
               IN  /\ ~(SamePlace(f, it) /\ it.first <= f.last /\ it.last >= f.first)
                   /\ (f.rule = TwinOf[it.rule] /\ f.file = it.file
                         /\ it.first \in f.first..f.last)
                        => SeverityOf[f.rule] < SeverityOf[it.rule]
    <3> DEFINE it == recorded[i]
    <3>1. it \in Surely /\ it \in ToSet(recorded)
      BY <2>1 DEF ReportOf, ToSet
    <3> HIDE DEF it
    <3>2. it \in Items /\ ~Covered(it) /\ ~Restated(it)
      BY <3>1, <2>1 DEF ReportOf, Told, Surely
    <3>3. /\ f \in Texts \/ (f \in Raised /\ Covered(f))
      BY <1>1 DEF IInv, RaisedCovered
    <3>4. /\ it.first \in Nat /\ it.last \in Nat /\ f.first \in Nat /\ f.last \in Nat
          /\ SeverityOf[it.rule] \in 1..4 /\ SeverityOf[f.rule] \in 1..4
      BY <3>2, <3>3, DiscoveryAssumption DEF Places, Severities
    <3>5. ~(SamePlace(f, it) /\ it.first <= f.last /\ it.last >= f.first)
      <4>1. CASE f \in Texts
        BY <4>1, <3>2, DiscoveryAssumption DEF SamePlace
      <4>2. CASE f \in Raised /\ Covered(f)
        <5> SUFFICES ASSUME SamePlace(f, it), it.first <= f.last, it.last >= f.first PROVE FALSE
          OBVIOUS
        <5>1. f.first = f.last
          BY <4>2, DiscoveryAssumption
        <5>2. PICK c \in covers : SamePlace(c, f) /\ f.first <= c.last /\ f.last >= c.first
          BY <4>2 DEF Covered
        <5>3. c.first \in Nat /\ c.last \in Nat
          BY <5>2, <1>1, DiscoveryAssumption DEF IInv, Places
        <5>4. SamePlace(c, it) /\ it.first <= c.last /\ it.last >= c.first
          BY <5>1, <5>2, <5>3, <3>4 DEF SamePlace
        <5> QED
          BY <5>4, <3>2 DEF Covered
      <4> QED
        BY <3>3, <4>1, <4>2
    <3>6. (f.rule = TwinOf[it.rule] /\ f.file = it.file /\ it.first \in f.first..f.last)
            => SeverityOf[f.rule] < SeverityOf[it.rule]
      BY <3>2, <3>4 DEF Restated
    <3> QED
      BY <3>5, <3>6 DEF it
  <2> QED
    BY <2>1, <2>2 DEF ReportOf, Distinct
<1> QED
  BY <1>1, Invariance, PTL

\* What is on record at the end is reported, however the session ended, unless a
\* usage answer or a finding as severe stands in its place (discovery.go Run).
THEOREM RiskReported == Spec => []NothingDropped
<1>1. ASSUME IInv PROVE NothingDropped
  <2> SUFFICES ASSUME over, NEW i \in DOMAIN items
               PROVE  LET it == items[i]
                      IN  \/ it \in ToSet(recorded)
                          \/ \E c \in covers : SamePlace(c, it) /\ c.first <= it.last
                                                 /\ it.first <= c.last
                          \/ \E f \in findings : /\ f.file = it.file
                                                 /\ it.first \in f.first..f.last
                                                 /\ SeverityOf[f.rule] >= SeverityOf[it.rule]
    BY DEF NothingDropped
  <2> DEFINE it == items[i]
  <2>1. ReportOf(items, recorded) /\ it \in ToSet(items) /\ it \in Surely
    BY <1>1 DEF IInv, ToSet
  <2> HIDE DEF it
  <2>2. CASE Told(it)
    BY <2>1, <2>2 DEF ReportOf, it
  <2>3. CASE Covered(it)
    <3>1. PICK c \in covers : SamePlace(c, it) /\ it.first <= c.last /\ it.last >= c.first
      BY <2>3 DEF Covered
    <3>2. c.first \in Nat /\ it.last \in Nat
      BY <3>1, <2>1, <1>1, DiscoveryAssumption DEF IInv, Places, Surely
    <3>3. c.first <= it.last
      BY <3>1, <3>2
    <3> QED
      BY <3>1, <3>3 DEF it
  <2>4. CASE Restated(it)
    BY <2>4 DEF Restated, it
  <2> QED
    BY <2>2, <2>3, <2>4 DEF Told
<1> QED
  BY <1>1, Invariance, PTL

\* The store holds the last word of the model about each identity
\* (store.add and store.remove in layers/discovery/tools.go).
THEOREM LastWordHeld == Spec => LastWordCounts
<1> DEFINE Counts ==
      \A it \in Items :
        LET c == Head(queue)
            n == LastWord(c, it)
            on(its) == {o \in ToSet(its) : Same(o, it)}
        IN  on(items') =
              IF stage # "answering" \/ queue = << >> THEN on(items)
              ELSE IF c.tool = "read" \/ Bad \in ToSet(c.entries) \/ n = 0 THEN on(items)
              ELSE IF c.tool = "remove" \/ c.entries[n].confidence < 3 THEN {}
              ELSE {c.entries[n]}
<1>1. ASSUME IInv, Next PROVE Counts
  <2>1. CASE CallTool
    <3>1. PICK c \in Calls : /\ stage = "answering" /\ queue # << >> /\ c = Head(queue)
                             /\ items' = Stored(c)
      BY <2>1 DEF CallTool, Answer
    <3>2. ASSUME NEW it \in Items
          PROVE  LET n == LastWord(c, it)
                 IN  On(Stored(c), it) =
                       IF c.tool = "read" \/ Bad \in ToSet(c.entries) \/ n = 0 THEN On(items, it)
                       ELSE IF c.tool = "remove" \/ c.entries[n].confidence < 3 THEN {}
                       ELSE {c.entries[n]}
      BY <1>1, StoredOn
    <3> QED
      BY <3>1, <3>2 DEF On
  <2>2. CASE ~CallTool
    <3>1. items' = items
      BY <1>1, <2>2 DEF Next, Ask, Turn, Conclude, Returned, layer, vars
    <3>2. stage # "answering" \/ queue = << >>
      <4>1. CASE Returned
        <5>1. stage = "returned"
          BY <1>1, <4>1 DEF Returned, IInv
        <5> QED
          BY <5>1
      <4>2. CASE ~Returned
        BY <1>1, <2>2, <4>2 DEF Next, Ask, Reply, Compaction, Turn, LoopStep, Exhausted,
                        ProviderFails, TurnOver, Conclude
      <4> QED
        BY <4>1, <4>2
    <3> QED
      BY <3>1, <3>2
  <2> QED
    BY <2>1, <2>2
<1>2. IInv /\ [Next]_vars => [Counts]_vars
  BY <1>1
<1> QED
  BY <1>2, Invariance, PTL DEF Spec, LastWordCounts
=============================================================================
