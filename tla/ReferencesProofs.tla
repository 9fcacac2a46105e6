-------------------------- MODULE ReferencesProofs --------------------------
(***************************************************************************)
(* Proofs about References, for any references, redirects, workers, limit  *)
(* and places: nothing is looked up twice or beyond the limit, nothing is  *)
(* lost, and REFERENCES-TOO-MANY is recorded exactly when it should be.    *)
(***************************************************************************)
EXTENDS Collectors, FiniteSetTheorems, SequenceTheorems, TLAPS

\* No reference is listed twice.
Once(list) == \A i, j \in DOMAIN list : list[i].ref = list[j].ref => i = j

TooManyFinding == [rule |-> "TOO-MANY", ref |-> NoRef]

Fresh ==
  stage = "start" =>
    /\ reports = << >> /\ first = 0 /\ fed = 1 /\ asked = {}
    /\ ~capped /\ ~stopped /\ findings = {}

\* Until the waves are over the reports are a list; after the first one it grows
\* by what its sites redirect to.
Listing ==
  /\ stage \in {"start", "first", "second"} => reports \in Seq(ReportType)
  /\ stage = "first" => first = Len(reports)
  /\ stage = "second" => first <= Len(reports) /\ fed > first

\* A worker is on a report that was handed out, in the wave that runs.
Crew ==
  /\ ~Waving => \A w \in Workers : at[w] = 0
  /\ Waving =>
       /\ fed <= Len(reports) + 1
       /\ \A w \in Workers : at[w] < fed /\ at[w] <= MaxReferences
       /\ stage = "second" => \A w \in Workers : at[w] # 0 => at[w] > first

\* The reports over the limit are capped, and no others.
Caps == Waving => \A i \in DOMAIN reports : reports[i].detail = "cap" <=> i > MaxReferences

\* What was asked about was handed out, and is within the limit.
Handed ==
  Waving => \A ref \in asked :
    \E i \in DOMAIN reports : i < fed /\ i <= MaxReferences /\ reports[i].ref = ref

\* What was handed out is being looked up or is answered for.
Settled ==
  Waving => \A i \in DOMAIN reports :
    i < fed => \/ \E w \in Workers : at[w] = i
               \/ reports[i].status = "checked"
               \/ reports[i].detail # "none"

\* What the first wave found is listed in the second.
Led ==
  /\ Waving => Extracted \subseteq Keys(reports)
  /\ stage = "second" => \A i \in 1..first : reports[i].leads \in Keys(reports) \cup {NoRef}

\* REFERENCES-TOO-MANY is the one finding before those of the reports.
Told ==
  /\ stage \in {"first", "second", "reports"} =>
       findings = IF capped /\ tooMany # "off" THEN {TooManyFinding} ELSE {}
  /\ (Waving \/ (stage = "reports" /\ ~stopped)) => capped = (Len(reports) > MaxReferences)

IInv == /\ TypeOK /\ Once(reports) /\ Fresh /\ Listing /\ Crew /\ Caps
        /\ Handed /\ Settled /\ Led /\ Told /\ NothingLost /\ LimitHolds

-----------------------------------------------------------------------------
(* The list. *)

\* A list without repetition is no longer than there are references.
LEMMA ListBound ==
  ASSUME NEW list \in Seq(ReportType), Once(list)
  PROVE  Len(list) \in 0..Cardinality(Refs)
<1> DEFINE key == [i \in 1..Len(list) |-> list[i].ref]
<1>0. Len(list) \in Nat /\ DOMAIN list = 1..Len(list) /\ list \in [1..Len(list) -> ReportType]
  BY LenProperties
<1>1. key \in [1..Len(list) -> Refs]
  BY <1>0 DEF ReportType
<1>2. IsInjective(key)
  BY <1>0 DEF IsInjective, Once
<1>3. Cardinality(1..Len(list)) <= Cardinality(Refs)
  <2>1. key \in Injection(1..Len(list), Refs)
    BY <1>1, <1>2 DEF Injection
  <2> HIDE DEF key
  <2> QED
    BY <2>1, FS_Injection, ReferencesAssumption
<1>4. Cardinality(1..Len(list)) = Len(list)
  BY <1>0, FS_Interval
<1>5. Cardinality(Refs) \in Nat
  BY FS_CardinalityType, ReferencesAssumption
<1> QED
  BY <1>0, <1>3, <1>4, <1>5

\* A list with more behind it.
LEMMA Extended ==
  ASSUME NEW list \in Seq(ReportType), NEW C \in Nat, NEW more \in [1..C -> ReportType]
  PROVE  /\ list \o more \in Seq(ReportType)
         /\ Len(list \o more) = Len(list) + C
         /\ DOMAIN (list \o more) = 1..(Len(list) + C)
         /\ \A i \in 1..Len(list) : (list \o more)[i] = list[i]
         /\ \A i \in (Len(list) + 1)..(Len(list) + C) :
              i - Len(list) \in 1..C /\ (list \o more)[i] = more[i - Len(list)]
<1>1. more \in Seq(ReportType)
  BY SeqDef
<1>2. Len(more) = C
  BY <1>1, LenProperties
<1>3. Len(list) \in Nat
  BY LenProperties
<1>4. /\ list \o more \in Seq(ReportType)
      /\ Len(list \o more) = Len(list) + Len(more)
      /\ \A i \in 1..(Len(list) + Len(more)) :
           (list \o more)[i] = IF i <= Len(list) THEN list[i] ELSE more[i - Len(list)]
  BY <1>1, ConcatProperties
<1>5. DOMAIN (list \o more) = 1..Len(list \o more)
  BY <1>4, LenProperties
<1> QED
  BY <1>2, <1>3, <1>4, <1>5

\* SetToSeqs: every element stands in the sequence, once.
LEMMA Ordered ==
  ASSUME NEW F, IsFiniteSet(F), NEW s \in SetToSeqs(F)
  PROVE  \E C \in Nat :
           /\ s \in [1..C -> F]
           /\ \A i, j \in 1..C : s[i] = s[j] => i = j
           /\ \A x \in F : \E i \in 1..C : s[i] = x
<1>1. Cardinality(F) \in Nat
  BY FS_CardinalityType
<1>2. /\ s \in [1..Cardinality(F) -> F]
      /\ \A i, j \in 1..Cardinality(F) : s[i] = s[j] => i = j
  BY DEF SetToSeqs
<1>3. s \in Injection(1..Cardinality(F), F)
  BY <1>2 DEF Injection, IsInjective
<1>4. Cardinality(1..Cardinality(F)) = Cardinality(F)
  BY <1>1, FS_Interval
<1> USE <1>1
<1>5. s \in Surjection(1..Cardinality(F), F)
  BY <1>3, <1>4, FS_Injection
<1>6. \A x \in F : \E i \in 1..Cardinality(F) : s[i] = x
  BY <1>5 DEF Surjection
<1> QED
  <2> WITNESS Cardinality(F) \in Nat
  <2> QED
    BY <1>2, <1>6

\* coordinator.add: the list keeps what it has and gains the rest, each once.
LEMMA AddedList ==
  ASSUME NEW list \in Seq(ReportType), Once(list),
         NEW found \in SUBSET Refs, NEW new \in Added(list, found)
  PROVE  /\ new \in Seq(ReportType) /\ Once(new)
         /\ Len(new) >= Len(list)
         /\ \A i \in 1..Len(list) : new[i] = list[i]
         /\ \A i \in (Len(list) + 1)..Len(new) : new[i].detail = "none"
         /\ found \subseteq Keys(new)
<1>1. PICK F, s : /\ F = found \ Keys(list)
                  /\ s \in SetToSeqs(F)
                  /\ new = list \o [i \in DOMAIN s |-> Listed(s[i])]
  BY DEF Added
<1>2. IsFiniteSet(F)
  <2>1. F \in SUBSET Refs /\ IsFiniteSet(Refs)
    BY <1>1, ReferencesAssumption
  <2> QED
    BY <2>1, FS_Subset
<1>3. PICK C \in Nat :
        /\ s \in [1..C -> F]
        /\ \A i, j \in 1..C : s[i] = s[j] => i = j
        /\ \A x \in F : \E i \in 1..C : s[i] = x
  <2>1. s \in SetToSeqs(F)
    BY <1>1
  <2> QED
    BY <2>1, <1>2, Ordered
<1>4. PICK more : /\ new = list \o more
                  /\ more \in [1..C -> ReportType]
                  /\ \A i \in 1..C : more[i].ref = s[i] /\ more[i].detail = "none"
  <2>1. [i \in DOMAIN s |-> Listed(s[i])] \in [1..C -> ReportType]
    BY <1>1, <1>3 DEF Listed, ReportType, Details
  <2>2. \A i \in 1..C : /\ [j \in DOMAIN s |-> Listed(s[j])][i].ref = s[i]
                        /\ [j \in DOMAIN s |-> Listed(s[j])][i].detail = "none"
    BY <1>3 DEF Listed
  <2> QED
    BY <1>1, <2>1, <2>2
<1>5. Len(list) \in Nat /\ DOMAIN list = 1..Len(list)
  BY LenProperties
<1>6. /\ new \in Seq(ReportType) /\ Len(new) = Len(list) + C
      /\ DOMAIN new = 1..(Len(list) + C)
      /\ \A i \in 1..Len(list) : new[i] = list[i]
      /\ \A i \in (Len(list) + 1)..(Len(list) + C) :
           i - Len(list) \in 1..C /\ new[i] = more[i - Len(list)]
  BY <1>4, Extended
<1>7. \A i \in (Len(list) + 1)..(Len(list) + C) :
        /\ i - Len(list) \in 1..C
        /\ new[i].ref = s[i - Len(list)] /\ new[i].ref \in F /\ new[i].detail = "none"
  <2> SUFFICES ASSUME NEW i \in (Len(list) + 1)..(Len(list) + C)
               PROVE  /\ i - Len(list) \in 1..C
                      /\ new[i].ref = s[i - Len(list)] /\ new[i].ref \in F /\ new[i].detail = "none"
    OBVIOUS
  <2>1. PICK j \in 1..C : j = i - Len(list) /\ new[i] = more[j]
    BY <1>6
  <2>2. new[i].ref = s[j] /\ new[i].detail = "none" /\ s[j] \in F
    BY <2>1, <1>3, <1>4
  <2> QED
    BY <2>1, <2>2
<1>8. \A i \in 1..Len(list) : new[i].ref \in Keys(list)
  BY <1>5, <1>6 DEF Keys
<1>9. Once(new)
  <2> SUFFICES ASSUME NEW i \in 1..(Len(list) + C), NEW j \in 1..(Len(list) + C),
                      new[i].ref = new[j].ref
               PROVE  i = j
    BY <1>6 DEF Once
  <2>0. /\ i \in 1..Len(list) \/ i \in (Len(list) + 1)..(Len(list) + C)
        /\ j \in 1..Len(list) \/ j \in (Len(list) + 1)..(Len(list) + C)
    BY <1>5
  <2>1. CASE i \in 1..Len(list) /\ j \in 1..Len(list)
    BY <2>1, <1>5, <1>6 DEF Once
  <2>2. CASE i \notin 1..Len(list) /\ j \notin 1..Len(list)
    <3>1. s[i - Len(list)] = s[j - Len(list)] /\ i - Len(list) \in 1..C /\ j - Len(list) \in 1..C
      BY <2>0, <2>2, <1>7
    <3> QED
      BY <3>1, <1>3, <1>5
  <2>3. CASE i \in 1..Len(list) /\ j \notin 1..Len(list)
    BY <2>0, <2>3, <1>1, <1>7, <1>8
  <2>4. CASE i \notin 1..Len(list) /\ j \in 1..Len(list)
    BY <2>0, <2>4, <1>1, <1>7, <1>8
  <2> QED
    BY <2>1, <2>2, <2>3, <2>4
<1>10. found \subseteq Keys(new)
  <2> SUFFICES ASSUME NEW ref \in found PROVE \E i \in 1..(Len(list) + C) : new[i].ref = ref
    BY <1>6 DEF Keys
  <2>1. CASE ref \in Keys(list)
    <3>1. PICK i \in 1..Len(list) : list[i].ref = ref
      BY <2>1, <1>5 DEF Keys
    <3> QED
      BY <3>1, <1>5, <1>6
  <2>2. CASE ref \in F
    <3>1. PICK i \in 1..C : s[i] = ref
      BY <2>2, <1>3
    <3>2. Len(list) + i \in (Len(list) + 1)..(Len(list) + C) /\ (Len(list) + i) - Len(list) = i
      BY <1>5
    <3>3. new[Len(list) + i].ref = s[(Len(list) + i) - Len(list)]
      BY <3>2, <1>7
    <3> QED
      BY <3>1, <3>2, <3>3, <1>5
  <2> QED
    BY <2>1, <2>2, <1>1
<1>11. Len(new) = Len(list) + C /\ Len(new) >= Len(list)
  BY <1>5, <1>6
<1>12. \A i \in (Len(list) + 1)..Len(new) : new[i].detail = "none"
  BY <1>7, <1>11
<1> QED
  BY <1>6, <1>9, <1>10, <1>11, <1>12
-----------------------------------------------------------------------------
(* What the steps do to the list. *)

LEMMA CappedList ==
  ASSUME NEW list \in Seq(ReportType), NEW over
  PROVE  /\ Capped(list, over) \in Seq(ReportType)
         /\ Len(Capped(list, over)) = Len(list)
         /\ \A i \in 1..Len(list) :
              /\ Capped(list, over)[i].ref = list[i].ref
              /\ Capped(list, over)[i].status = list[i].status
              /\ Capped(list, over)[i].leads = list[i].leads
              /\ Capped(list, over)[i].detail = IF i \in over THEN "cap" ELSE list[i].detail
<1>1. Len(list) \in Nat /\ list \in [1..Len(list) -> ReportType] /\ DOMAIN list = 1..Len(list)
  BY LenProperties
<1>2. Capped(list, over) \in [1..Len(list) -> ReportType]
  BY <1>1 DEF Capped, ReportType, Details
<1>3. Capped(list, over) \in Seq(ReportType)
  BY <1>1, <1>2, SeqDef
<1>4. Len(Capped(list, over)) = Len(list)
  BY <1>1, <1>2, <1>3, LenProperties
<1>5. ASSUME NEW i \in 1..Len(list)
      PROVE  /\ Capped(list, over)[i].ref = list[i].ref
             /\ Capped(list, over)[i].status = list[i].status
             /\ Capped(list, over)[i].leads = list[i].leads
             /\ Capped(list, over)[i].detail = IF i \in over THEN "cap" ELSE list[i].detail
  BY <1>1, <1>5 DEF Capped, ReportType
<1> QED
  BY <1>3, <1>4, <1>5

LEMMA PutList ==
  ASSUME reports \in Seq(ReportType), NEW i \in 1..Len(reports),
         NEW status \in {"checked", "not-checked", "failed"}, NEW detail \in Details,
         NEW leads \in Refs \cup {NoRef}, NEW unpopular \in BOOLEAN,
         Put(i, status, detail, leads, unpopular)
  PROVE  /\ reports' \in Seq(ReportType)
         /\ Len(reports') = Len(reports) /\ DOMAIN reports' = DOMAIN reports
         /\ DOMAIN reports = 1..Len(reports)
         /\ \A j \in DOMAIN reports : reports'[j].ref = reports[j].ref
         /\ \A j \in DOMAIN reports : j # i => reports'[j] = reports[j]
         /\ reports'[i].status = status /\ reports'[i].detail = detail
<1> DEFINE new == [ref |-> reports[i].ref, status |-> status, detail |-> detail,
                   leads |-> leads, unpopular |-> unpopular]
<1>1. reports' = [reports EXCEPT ![i] = new]
  BY DEF Put
<1>2. new \in ReportType /\ new.ref = reports[i].ref /\ new.status = status /\ new.detail = detail
  BY ElementOfSeq DEF ReportType
<1> HIDE DEF new
<1>3. /\ reports' \in Seq(ReportType) /\ Len(reports') = Len(reports)
      /\ \A j \in 1..Len(reports) : reports'[j] = IF j = i THEN new ELSE reports[j]
  BY <1>1, <1>2, ExceptSeq
<1>4. DOMAIN reports = 1..Len(reports) /\ DOMAIN reports' = 1..Len(reports')
  BY <1>3, LenProperties
<1> QED
  BY <1>2, <1>3, <1>4

\* While the list grows it is typed, and no longer than there are references.
LEMMA ListType ==
  ASSUME reports \in Seq(ReportType), Once(reports)
  PROVE  /\ Len(reports) \in 0..Cardinality(Refs) /\ Cardinality(Refs) \in Nat
         /\ DOMAIN reports = 1..Len(reports)
         /\ DOMAIN reports \subseteq 1..Cardinality(Refs)
         /\ reports \in [DOMAIN reports -> ReportType]
<1>1. Len(reports) \in 0..Cardinality(Refs)
  BY ListBound
<1>2. Cardinality(Refs) \in Nat
  BY FS_CardinalityType, ReferencesAssumption
<1>3. DOMAIN reports = 1..Len(reports) /\ reports \in [1..Len(reports) -> ReportType]
  BY LenProperties
<1> QED
  BY <1>1, <1>2, <1>3

\* The start of a wave over a list that has grown from the one before.
LEMMA StartedWave ==
  ASSUME NEW list \in Seq(ReportType), Once(list), NEW from \in 1..(Len(list) + 1),
         StartWave(list, from), capped \in BOOLEAN, stopped \in BOOLEAN,
         \A i \in 1..(from - 1) : list[i].detail = "cap" <=> i > MaxReferences,
         \A i \in from..Len(list) : list[i].detail # "cap",
         capped => Len(list) > MaxReferences,
         findings = IF capped /\ tooMany # "off" THEN {TooManyFinding} ELSE {}
  PROVE  /\ reports' \in Seq(ReportType) /\ Len(reports') = Len(list)
         /\ DOMAIN reports' = 1..Len(list) /\ DOMAIN list = 1..Len(list) /\ Once(reports')
         /\ \A i \in 1..Len(list) : /\ reports'[i].ref = list[i].ref
                                    /\ reports'[i].status = list[i].status
                                    /\ reports'[i].leads = list[i].leads
                                    /\ i < from => reports'[i].detail = list[i].detail
         /\ Keys(reports') = Keys(list)
         /\ fed' = from
         /\ \A i \in 1..Len(list) : reports'[i].detail = "cap" <=> i > MaxReferences
         /\ capped' = (Len(list) > MaxReferences) /\ stopped' \in BOOLEAN
         /\ findings' = IF capped' /\ tooMany # "off" THEN {TooManyFinding} ELSE {}
<1> DEFINE over == {i \in DOMAIN list : i >= from /\ i > MaxReferences}
<1>0. Len(list) \in Nat /\ DOMAIN list = 1..Len(list) /\ MaxReferences \in Nat
  BY LenProperties, ReferencesAssumption
<1>1. reports' = Capped(list, over) /\ fed' = from
  BY DEF StartWave
<1>2. /\ reports' \in Seq(ReportType) /\ Len(reports') = Len(list)
      /\ \A i \in 1..Len(list) :
           /\ reports'[i].ref = list[i].ref
           /\ reports'[i].status = list[i].status
           /\ reports'[i].leads = list[i].leads
           /\ reports'[i].detail = IF i \in over THEN "cap" ELSE list[i].detail
  <2> HIDE DEF over
  <2> QED
    BY <1>1, CappedList
<1>3. DOMAIN reports' = 1..Len(list)
  BY <1>2, LenProperties
<1>4. Once(reports') /\ Keys(reports') = Keys(list)
  BY <1>0, <1>2, <1>3 DEF Once, Keys
<1>5. ASSUME NEW i \in 1..Len(list)
      PROVE  /\ reports'[i].detail = "cap" <=> i > MaxReferences
             /\ i < from => reports'[i].detail = list[i].detail
  <2>1. i \in 1..(from - 1) \/ i \in from..Len(list)
    BY <1>0
  <2>2. i \in over <=> (i >= from /\ i > MaxReferences)
    BY <1>0
  <2>3. reports'[i].detail = IF i \in over THEN "cap" ELSE list[i].detail
    BY <1>2
  <2> HIDE DEF over
  <2> QED
    BY <1>0, <2>1, <2>2, <2>3
<1>6. /\ capped' = (Len(list) > MaxReferences) /\ stopped' \in BOOLEAN
      /\ findings' = IF capped' /\ tooMany # "off" THEN {TooManyFinding} ELSE {}
  <2>1. CASE Len(list) > MaxReferences /\ capped
    BY <2>1 DEF StartWave, TellTooMany
  <2>2. CASE Len(list) > MaxReferences /\ ~capped
    <3>1. /\ capped' = TRUE /\ stopped' = (stopped \/ tooMany = "interrupt")
          /\ findings' = IF tooMany = "off" THEN findings ELSE findings \cup {TooManyFinding}
      BY <2>2 DEF StartWave, TellTooMany, TooManyFinding
    <3>2. findings = {}
      BY <2>2
    <3> QED
      BY <2>2, <3>1, <3>2
  <2>3. CASE ~(Len(list) > MaxReferences)
    <3>1. capped' = capped /\ stopped' = stopped /\ findings' = findings /\ ~capped
      BY <2>3 DEF StartWave
    <3> QED
      BY <2>3, <3>1
  <2> QED
    BY <2>1, <2>2, <2>3
<1> QED
  BY <1>0, <1>1, <1>2, <1>3, <1>4, <1>5, <1>6
-----------------------------------------------------------------------------
(* The invariant. *)

LEMMA InitInv == Init => IInv
<1> SUFFICES ASSUME Init PROVE IInv
  OBVIOUS
<1>1. Cardinality(Refs) \in Nat /\ MaxReferences \in Nat \ {0}
  BY FS_CardinalityType, ReferencesAssumption
<1>2. reports = << >> /\ reports \in Seq(ReportType) /\ Len(reports) = 0 /\ DOMAIN reports = {}
  BY EmptySeq DEF Init
<1>3. TypeOK
  <2>1. reports \in [DOMAIN reports -> ReportType] /\ DOMAIN reports \subseteq 1..Cardinality(Refs)
    BY <1>1, <1>2, ListType, ListBound, LenProperties
  <2>2. at \in [Workers -> 0..Cardinality(Refs)] /\ 0 \in 0..Cardinality(Refs)
    BY <1>1 DEF Init
  <2>3. fed \in 1..(Cardinality(Refs) + 1) /\ first \in 0..Cardinality(Refs)
    BY <1>1 DEF Init
  <2> QED
    BY <2>1, <2>2, <2>3 DEF Init, TypeOK, Stages
<1>4. Once(reports) /\ Fresh /\ Listing /\ Crew /\ Caps
  BY <1>2 DEF Init, Once, Fresh, Listing, Crew, Caps, Waving
<1>5. Handed /\ Settled /\ Led /\ Told /\ NothingLost
  BY DEF Init, Handed, Settled, Led, Told, NothingLost, Waving
<1>6. LimitHolds
  BY <1>1, FS_EmptySet DEF Init, LimitHolds
<1> QED
  BY <1>3, <1>4, <1>5, <1>6 DEF IInv

\* The next job is handed out as long as there is one within the limit.
LEMMA PendingMeans ==
  ASSUME IInv, Waving
  PROVE  /\ Pending <=> fed <= Len(reports) /\ fed <= MaxReferences
         /\ reports \in Seq(ReportType) /\ Len(reports) \in Nat /\ DOMAIN reports = 1..Len(reports)
         /\ fed \in 1..(Len(reports) + 1) /\ MaxReferences \in Nat
<1>1. reports \in Seq(ReportType)
  BY DEF IInv, Listing, Waving
<1>2. Len(reports) \in Nat /\ DOMAIN reports = 1..Len(reports)
  BY <1>1, LenProperties
<1>3. fed \in 1..(Len(reports) + 1)
  BY <1>2 DEF IInv, TypeOK, Crew
<1>4. MaxReferences \in Nat
  BY ReferencesAssumption
<1>5. fed <= Len(reports) => (reports[fed].detail = "cap" <=> fed > MaxReferences)
  BY <1>2, <1>3 DEF IInv, Caps
<1> QED
  BY <1>1, <1>2, <1>3, <1>4, <1>5 DEF Pending

\* When a wave is over every report of it is answered for.
LEMMA WaveAnswered ==
  ASSUME IInv, Waving, WaveOver
  PROVE  \A i \in DOMAIN reports : reports[i].status = "checked" \/ reports[i].detail # "none"
<1>1. /\ DOMAIN reports = 1..Len(reports) /\ Len(reports) \in Nat /\ fed \in Nat
      /\ MaxReferences \in Nat /\ ~(fed <= Len(reports) /\ fed <= MaxReferences)
  BY PendingMeans DEF WaveOver
<1>2. /\ \A w \in Workers : at[w] = 0
      /\ \A i \in DOMAIN reports : reports[i].detail = "cap" <=> i > MaxReferences
  BY DEF WaveOver, IInv, Caps
<1>3. \A i \in DOMAIN reports :
        i < fed => \/ \E w \in Workers : at[w] = i
                   \/ reports[i].status = "checked"
                   \/ reports[i].detail # "none"
  BY DEF IInv, Settled
<1>4. ASSUME NEW i \in 1..Len(reports), i < fed
      PROVE  reports[i].status = "checked" \/ reports[i].detail # "none"
  <2>1. i # 0
    BY <1>1
  <2>2. ~ \E w \in Workers : at[w] = i
    BY <1>2, <2>1
  <2> QED
    BY <1>1, <1>3, <1>4, <2>2
<1>5. ASSUME NEW i \in 1..Len(reports), ~(i < fed)
      PROVE  reports[i].detail # "none"
  <2>1. i > MaxReferences
    BY <1>1, <1>5
  <2> QED
    BY <1>1, <1>2, <2>1
<1> QED
  BY <1>1, <1>4, <1>5

LEMMA ExtractInv == ASSUME IInv, Extract PROVE IInv'
<1> USE DEF IInv
<1>1. /\ stage = "start" /\ reports = << >> /\ asked = {} /\ ~capped /\ findings = {}
      /\ capped \in BOOLEAN /\ stopped \in BOOLEAN
  BY DEF Extract, Fresh, TypeOK
<1>2. << >> \in Seq(ReportType) /\ Len(<< >>) = 0 /\ Once(<< >>)
  BY EmptySeq DEF Once
<1>3. PICK list \in Added(<< >>, Extracted) : StartWave(list, 1) /\ first' = Len(list)
  BY DEF Extract
<1>4. /\ list \in Seq(ReportType) /\ Once(list) /\ Extracted \subseteq Keys(list)
      /\ \A i \in 1..Len(list) : list[i].detail = "none"
  <2>1. Extracted \in SUBSET Refs
    BY ReferencesAssumption
  <2>2. /\ list \in Seq(ReportType) /\ Once(list) /\ Extracted \subseteq Keys(list)
        /\ \A i \in (Len(<< >>) + 1)..Len(list) : list[i].detail = "none"
    BY <1>2, <1>3, <2>1, AddedList
  <2>3. Len(list) \in Nat
    BY <2>2, LenProperties
  <2>4. \A i \in 1..Len(list) : i \in (0 + 1)..Len(list)
    BY <2>3
  <2>5. \A i \in (0 + 1)..Len(list) : list[i].detail = "none"
    BY <1>2, <2>2
  <2> QED
    BY <2>2, <2>4, <2>5
<1>5. Len(list) \in Nat
  BY <1>4, LenProperties
<1>6. /\ reports' \in Seq(ReportType) /\ Len(reports') = Len(list)
      /\ DOMAIN reports' = 1..Len(list) /\ Once(reports')
      /\ Keys(reports') = Keys(list)
      /\ fed' = 1
      /\ \A i \in 1..Len(list) : reports'[i].detail = "cap" <=> i > MaxReferences
      /\ capped' = (Len(list) > MaxReferences) /\ stopped' \in BOOLEAN
      /\ findings' = IF capped' /\ tooMany # "off" THEN {TooManyFinding} ELSE {}
  <2>1. 1 \in 1..(Len(list) + 1) /\ 1..(1 - 1) = {}
    BY <1>5
  <2>2. \A i \in 1..(1 - 1) : list[i].detail = "cap" <=> i > MaxReferences
    BY <2>1
  <2>3. \A i \in 1..Len(list) : list[i].detail # "cap"
    BY <1>4
  <2>4. (capped => Len(list) > MaxReferences)
        /\ findings = IF capped /\ tooMany # "off" THEN {TooManyFinding} ELSE {}
    BY <1>1
  <2>5. StartWave(list, 1)
    BY <1>3
  <2> QED
    BY <1>1, <1>4, <2>1, <2>2, <2>3, <2>4, <2>5, StartedWave
<1>7. /\ stage' = "first" /\ tooMany' = tooMany /\ at' = at /\ asked' = asked
      /\ expired' = expired
  BY DEF Extract
<1>8. \A w \in Workers : at[w] = 0
  BY <1>1 DEF Crew, Waving
<1>9. /\ Len(reports') \in 0..Cardinality(Refs) /\ Cardinality(Refs) \in Nat
      /\ DOMAIN reports' \subseteq 1..Cardinality(Refs)
      /\ reports' \in [DOMAIN reports' -> ReportType]
  BY <1>6, ListBound, LenProperties, FS_CardinalityType, ReferencesAssumption
<1>10. TypeOK'
  BY <1>3, <1>6, <1>7, <1>9 DEF TypeOK, Stages
<1>11. Fresh' /\ Listing' /\ Crew' /\ Caps'
  BY <1>3, <1>5, <1>6, <1>7, <1>8, ReferencesAssumption DEF Fresh, Listing, Crew, Caps, Waving
<1>12. Handed' /\ Settled' /\ Led' /\ Told' /\ NothingLost' /\ LimitHolds'
  <2>1. Keys(reports)' = Keys(list)
    BY <1>6 DEF Keys
  <2>2. Handed' /\ NothingLost'
    BY <1>1, <1>7 DEF Handed, NothingLost
  <2>3. Settled'
    <3>1. \A i \in DOMAIN reports' : ~(i < fed')
      BY <1>5, <1>6
    <3> QED
      BY <3>1 DEF Settled
  <2>4. Led'
    BY <1>4, <1>7, <2>1 DEF Led, Waving
  <2>5. Told'
    BY <1>6, <1>7 DEF Told, Waving
  <2>6. LimitHolds'
    BY <1>7 DEF LimitHolds
  <2> QED
    BY <2>2, <2>3, <2>4, <2>5, <2>6
<1> QED
  BY <1>6, <1>10, <1>11, <1>12

LEMMA DeriveInv == ASSUME IInv, Derive PROVE IInv'
<1>1. /\ stage = "first" /\ Waving /\ WaveOver /\ stage' = "second"
      /\ tooMany' = tooMany /\ first' = first /\ at' = at /\ asked' = asked /\ expired' = expired
  BY DEF Derive, Waving
<1>2. /\ reports \in Seq(ReportType) /\ Len(reports) \in Nat /\ DOMAIN reports = 1..Len(reports)
      /\ MaxReferences \in Nat /\ first = Len(reports) /\ Once(reports)
      /\ capped \in BOOLEAN /\ stopped \in BOOLEAN
  BY <1>1, PendingMeans DEF IInv, Listing, TypeOK
<1>3. PICK list \in Added(reports, Derived) : StartWave(list, Len(reports) + 1)
  BY DEF Derive
<1>4. /\ list \in Seq(ReportType) /\ Once(list) /\ Len(list) >= Len(reports)
      /\ \A i \in 1..Len(reports) : list[i] = reports[i]
      /\ \A i \in (Len(reports) + 1)..Len(list) : list[i].detail = "none"
      /\ Derived \subseteq Keys(list)
  <2>0. ASSUME NEW i \in DOMAIN reports PROVE reports[i] \in ReportType
    BY <1>2, <2>0, ElementOfSeq
  <2>1. \A i \in DOMAIN reports : reports[i].leads \in Refs \cup {NoRef}
    BY <2>0 DEF ReportType
  <2>2. Derived \in SUBSET Refs
    BY <2>1 DEF Derived
  <2> QED
    BY <1>2, <1>3, <2>2, AddedList
<1>5. Len(list) \in Nat /\ DOMAIN list = 1..Len(list)
  BY <1>4, LenProperties
<1>0. Len(reports) \in Nat /\ Len(list) \in Nat /\ Len(list) >= Len(reports)
  BY <1>2, <1>4, <1>5
<1>6. /\ reports' \in Seq(ReportType) /\ Len(reports') = Len(list)
      /\ DOMAIN reports' = 1..Len(list) /\ Once(reports')
      /\ \A i \in 1..Len(list) :
           /\ reports'[i].ref = list[i].ref
           /\ reports'[i].status = list[i].status
           /\ reports'[i].leads = list[i].leads
           /\ i < Len(reports) + 1 => reports'[i].detail = list[i].detail
      /\ Keys(reports') = Keys(list)
      /\ fed' = Len(reports) + 1
      /\ \A i \in 1..Len(list) : reports'[i].detail = "cap" <=> i > MaxReferences
      /\ capped' = (Len(list) > MaxReferences) /\ stopped' \in BOOLEAN
      /\ findings' = IF capped' /\ tooMany # "off" THEN {TooManyFinding} ELSE {}
  <2>1. Len(reports) + 1 \in 1..(Len(list) + 1) /\ (Len(reports) + 1) - 1 = Len(reports)
    BY <1>0
  <2>2. \A i \in 1..Len(reports) : reports[i].detail = "cap" <=> i > MaxReferences
    BY <1>1, <1>2 DEF IInv, Caps
  <2>3. \A i \in 1..((Len(reports) + 1) - 1) : list[i].detail = "cap" <=> i > MaxReferences
    BY <1>4, <2>1, <2>2
  <2>4. \A i \in (Len(reports) + 1)..Len(list) : list[i].detail # "cap"
    BY <1>4
  <2>5. /\ capped = (Len(reports) > MaxReferences)
        /\ findings = IF capped /\ tooMany # "off" THEN {TooManyFinding} ELSE {}
    BY <1>1 DEF IInv, Told
  <2>6. capped => Len(list) > MaxReferences
    <3>1. MaxReferences \in Nat
      BY ReferencesAssumption
    <3>2. capped => Len(reports) > MaxReferences
      BY <2>5, Zenon
    <3>3. Len(reports) > MaxReferences => Len(list) > MaxReferences
      BY <1>0, <3>1
    <3> QED
      BY <3>2, <3>3
  <2> QED
    BY <1>2, <1>3, <1>4, <2>1, <2>3, <2>4, <2>5, <2>6, StartedWave
<1>7. \A i \in 1..Len(reports) :
        /\ i \in 1..Len(list) /\ i < Len(reports) + 1
        /\ reports'[i].ref = reports[i].ref /\ reports'[i].status = reports[i].status
        /\ reports'[i].leads = reports[i].leads /\ reports'[i].detail = reports[i].detail
  <2> SUFFICES ASSUME NEW i \in 1..Len(reports)
               PROVE  /\ i \in 1..Len(list) /\ i < Len(reports) + 1
                      /\ reports'[i].ref = reports[i].ref /\ reports'[i].status = reports[i].status
                      /\ reports'[i].leads = reports[i].leads
                      /\ reports'[i].detail = reports[i].detail
    OBVIOUS
  <2>1. i \in 1..Len(list) /\ i < Len(reports) + 1
    BY <1>0
  <2> QED
    BY <2>1, <1>4, <1>6
<1>8. \A w \in Workers : at[w] = 0
  BY <1>1 DEF WaveOver
<1>9. TypeOK'
  <2>1. /\ Len(reports') \in 0..Cardinality(Refs) /\ Cardinality(Refs) \in Nat
        /\ DOMAIN reports' \subseteq 1..Cardinality(Refs)
        /\ reports' \in [DOMAIN reports' -> ReportType]
    BY <1>6, ListBound, LenProperties, FS_CardinalityType, ReferencesAssumption
  <2>2. fed' \in 1..(Cardinality(Refs) + 1)
    <3>1. fed' = Len(reports) + 1 /\ Len(reports') = Len(list)
      BY <1>6
    <3> QED
      BY <1>0, <2>1, <3>1
  <2> QED
    BY <1>1, <1>6, <2>1, <2>2 DEF IInv, TypeOK, Stages
<1>10. Fresh' /\ Listing' /\ Crew' /\ Caps'
  <2>1. /\ fed' = Len(reports) + 1 /\ Len(reports') = Len(list) /\ first' = Len(reports)
        /\ MaxReferences \in Nat
    BY <1>1, <1>2, <1>6
  <2>2. \A w \in Workers : at'[w] = 0
    BY <1>1, <1>8
  <2>3. Listing'
    BY <1>0, <1>1, <1>6, <2>1 DEF Listing
  <2>4. Crew'
    BY <1>0, <1>1, <2>1, <2>2 DEF Crew, Waving
  <2>5. Fresh' /\ Caps'
    BY <1>1, <1>6 DEF Fresh, Caps
  <2> QED
    BY <2>3, <2>4, <2>5
<1>11. Handed'
  <2>1. ASSUME NEW ref \in asked
        PROVE  \E i \in DOMAIN reports' : i < fed' /\ i <= MaxReferences /\ reports'[i].ref = ref
    <3>1. PICK i \in DOMAIN reports : i <= MaxReferences /\ reports[i].ref = ref
      BY <1>1, <2>1 DEF IInv, Handed
    <3> QED
      BY <1>2, <1>6, <1>7, <3>1
  <2> QED
    BY <1>1, <2>1 DEF Handed
<1>12. Settled'
  <2>1. ASSUME NEW i \in DOMAIN reports', i < fed'
        PROVE  reports'[i].status = "checked" \/ reports'[i].detail # "none"
    <3>1. i \in 1..Len(reports)
      BY <1>2, <1>5, <1>6, <2>1
    <3>2. reports[i].status = "checked" \/ reports[i].detail # "none"
      BY <1>1, <1>2, <3>1, WaveAnswered
    <3> QED
      BY <1>7, <3>1, <3>2
  <2> QED
    BY <2>1 DEF Settled
<1>13. Led'
  <2>0. Keys(reports)' = Keys(list)
    BY <1>6 DEF Keys
  <2>1. Extracted \subseteq Keys(list)
    <3>1. Extracted \subseteq Keys(reports)
      BY <1>1 DEF IInv, Led
    <3>2. Keys(reports) \subseteq Keys(list)
      <4>1. \A i \in 1..Len(reports) : i \in 1..Len(list) /\ list[i] = reports[i]
        BY <1>4, <1>7
      <4> QED
        BY <1>2, <1>5, <4>1 DEF Keys
    <3> QED
      BY <3>1, <3>2
  <2>2. \A i \in 1..first' : reports'[i].leads \in Keys(list) \cup {NoRef}
    BY <1>1, <1>2, <1>4, <1>7 DEF Derived
  <2> QED
    BY <2>0, <2>1, <2>2 DEF Led
<1>14. Told' /\ NothingLost' /\ LimitHolds'
  BY <1>1, <1>6 DEF Told, NothingLost, IInv, LimitHolds
<1> QED
  BY <1>6, <1>9, <1>10, <1>11, <1>12, <1>13, <1>14 DEF IInv
-----------------------------------------------------------------------------
(* The workers. *)

\* What stands in the first MaxReferences places is at most that much.
LEMMA Bounded ==
  ASSUME NEW list \in Seq(ReportType), NEW about,
         \A ref \in about : \E i \in 1..Len(list) : i <= MaxReferences /\ list[i].ref = ref
  PROVE  Cardinality(about) <= MaxReferences
<1>1. Len(list) \in Nat /\ MaxReferences \in Nat
  BY LenProperties, ReferencesAssumption
<1>2. PICK K \in Nat : /\ K <= MaxReferences /\ K <= Len(list)
                       /\ K = MaxReferences \/ K = Len(list)
  BY <1>1
<1> DEFINE key == [i \in 1..K |-> list[i].ref]
           S == {list[i].ref : i \in 1..K}
<1>3. key \in Surjection(1..K, S)
  BY DEF Surjection
<1>4. IsFiniteSet(1..K) /\ Cardinality(1..K) = K
  BY <1>2, FS_Interval
<1>5. about \subseteq S
  BY <1>1, <1>2
<1> HIDE DEF key, S
<1>6. IsFiniteSet(S) /\ Cardinality(S) <= K
  BY <1>3, <1>4, FS_Surjection
<1>7. Cardinality(about) <= Cardinality(S) /\ Cardinality(S) \in Nat /\ Cardinality(about) \in Nat
  BY <1>5, <1>6, FS_Subset, FS_CardinalityType
<1> QED
  BY <1>1, <1>2, <1>6, <1>7

\* A worker writes the report it is on.
LEMMA PutKeeps ==
  ASSUME IInv, Waving, NEW i \in 1..Len(reports), i <= MaxReferences,
         NEW status \in {"checked", "not-checked", "failed"},
         NEW detail \in Details \ {"cap"},
         NEW leads \in Refs \cup {NoRef}, NEW unpopular \in BOOLEAN,
         Put(i, status, detail, leads, unpopular)
  PROVE  /\ reports' \in Seq(ReportType) /\ Len(reports') = Len(reports)
         /\ DOMAIN reports' = DOMAIN reports /\ DOMAIN reports = 1..Len(reports)
         /\ \A j \in DOMAIN reports : reports'[j].ref = reports[j].ref
         /\ \A j \in DOMAIN reports : j # i => reports'[j] = reports[j]
         /\ reports'[i].status = status /\ reports'[i].detail = detail
         /\ reports' \in [DOMAIN reports' -> ReportType]
         /\ DOMAIN reports' \subseteq 1..Cardinality(Refs)
         /\ Once(reports') /\ Keys(reports') = Keys(reports)
         /\ \A j \in DOMAIN reports : reports'[j].detail = "cap" <=> j > MaxReferences
<1>1. reports \in Seq(ReportType) /\ Len(reports) \in Nat /\ MaxReferences \in Nat
  BY PendingMeans
<1>2. /\ reports' \in Seq(ReportType)
      /\ Len(reports') = Len(reports) /\ DOMAIN reports' = DOMAIN reports
      /\ DOMAIN reports = 1..Len(reports)
      /\ \A j \in DOMAIN reports : reports'[j].ref = reports[j].ref
      /\ \A j \in DOMAIN reports : j # i => reports'[j] = reports[j]
      /\ reports'[i].status = status /\ reports'[i].detail = detail
  BY <1>1, PutList
<1>3. Once(reports') /\ Keys(reports') = Keys(reports)
  BY <1>2 DEF IInv, Once, Keys
<1>4. \A j \in DOMAIN reports : reports[j].detail = "cap" <=> j > MaxReferences
  BY DEF IInv, Caps
<1>5. ASSUME NEW j \in DOMAIN reports PROVE reports'[j].detail = "cap" <=> j > MaxReferences
  <2>1. CASE j = i
    BY <1>1, <1>2, <2>1
  <2>2. CASE j # i
    BY <1>2, <1>4, <2>2
  <2> QED
    BY <2>1, <2>2
<1>6. reports' \in [DOMAIN reports' -> ReportType] /\ DOMAIN reports' \subseteq 1..Cardinality(Refs)
  <2>1. reports' \in [1..Len(reports') -> ReportType]
    BY <1>2, LenProperties
  <2> QED
    BY <1>2, <2>1 DEF IInv, TypeOK
<1> QED
  BY <1>2, <1>3, <1>5, <1>6

LEMMA TakeInv == ASSUME IInv, NEW w \in Workers, Take(w) PROVE IInv'
<1>1. /\ Waving /\ Pending /\ at[w] = 0 /\ fed' = fed + 1 /\ stage' = stage
      /\ tooMany' = tooMany /\ first' = first /\ capped' = capped /\ stopped' = stopped
      /\ expired' = expired /\ findings' = findings
  BY DEF Take
<1>2. /\ reports \in Seq(ReportType) /\ Len(reports) \in Nat /\ DOMAIN reports = 1..Len(reports)
      /\ fed \in 1..Len(reports) /\ fed <= MaxReferences /\ MaxReferences \in Nat
  BY <1>1, PendingMeans
<1>3. Cardinality(Refs) \in Nat /\ Len(reports) <= Cardinality(Refs)
  BY <1>2, ListBound, FS_CardinalityType, ReferencesAssumption DEF IInv
<1>4. /\ reports' \in Seq(ReportType) /\ Len(reports') = Len(reports)
      /\ DOMAIN reports' = DOMAIN reports
      /\ \A j \in DOMAIN reports : reports'[j].ref = reports[j].ref
      /\ \A j \in DOMAIN reports : j # fed => reports'[j] = reports[j]
      /\ reports' \in [DOMAIN reports' -> ReportType]
      /\ DOMAIN reports' \subseteq 1..Cardinality(Refs)
      /\ Once(reports') /\ Keys(reports') = Keys(reports)
      /\ \A j \in DOMAIN reports : reports'[j].detail = "cap" <=> j > MaxReferences
  <2>1. CASE Done
    <3>1. Put(fed, "not-checked", "budget", NoRef, FALSE)
      BY <2>1 DEF Take
    <3>2. "budget" \in Details \ {"cap"}
      BY DEF Details
    <3> QED
      BY <1>1, <1>2, <3>1, <3>2, PutKeeps
  <2>2. CASE ~Done
    <3>1. reports' = reports
      BY <2>2 DEF Take
    <3> QED
      BY <1>1, <1>2, <3>1 DEF IInv, TypeOK, Caps
  <2> QED
    BY <2>1, <2>2
<1>5. /\ \A v \in Workers : at'[v] = at[v] \/ (v = w /\ at'[v] = fed)
      /\ at' \in [Workers -> 0..Cardinality(Refs)]
      /\ at'[w] = fed \/ reports'[fed].detail # "none"
  <2>0. at \in [Workers -> 0..Cardinality(Refs)]
    BY DEF IInv, TypeOK
  <2>1. CASE Done
    <3>1. Put(fed, "not-checked", "budget", NoRef, FALSE) /\ at' = at
      BY <2>1 DEF Take
    <3>2. "not-checked" \in {"checked", "not-checked", "failed"} /\ "budget" \in Details
      BY DEF Details
    <3>3. reports'[fed].detail = "budget"
      BY <1>2, <3>1, <3>2, PutList
    <3> QED
      BY <2>0, <3>1, <3>3
  <2>2. CASE ~Done
    <3>1. at' = [at EXCEPT ![w] = fed]
      BY <2>2 DEF Take
    <3>2. fed \in 0..Cardinality(Refs)
      BY <1>2, <1>3
    <3> QED
      BY <2>0, <3>1, <3>2
  <2> QED
    BY <2>1, <2>2
<1>6. /\ asked \subseteq Refs
      /\ asked' = asked \/ asked' = asked \cup {reports[fed].ref}
      /\ reports[fed].ref \in Refs
  <2>1. reports[fed] \in ReportType
    BY <1>2, ElementOfSeq
  <2> QED
    BY <2>1 DEF Take, IInv, TypeOK, ReportType
<1>7. TypeOK'
  <2>1. fed' \in 1..(Cardinality(Refs) + 1)
    BY <1>1, <1>2, <1>3
  <2> QED
    BY <1>1, <1>4, <1>5, <1>6, <2>1 DEF IInv, TypeOK
<1>8. stage \in {"first", "second"} /\ stage # "start"
  BY <1>1 DEF Waving
<1>9. Fresh' /\ Listing'
  <2>1. Fresh'
    BY <1>1, <1>8 DEF Fresh
  <2>2. /\ stage = "first" => first = Len(reports)
        /\ stage = "second" => first <= Len(reports) /\ fed > first
    BY DEF IInv, Listing
  <2>3. first \in Nat
    BY DEF IInv, TypeOK
  <2> QED
    BY <1>1, <1>2, <1>4, <2>1, <2>2, <2>3 DEF Listing
<1>10. Crew'
  <2>1. /\ \A v \in Workers : at[v] < fed /\ at[v] <= MaxReferences
        /\ stage = "second" => \A v \in Workers : at[v] # 0 => at[v] > first
        /\ stage = "second" => fed > first
    BY <1>1 DEF IInv, Crew, Listing
  <2>2. \A v \in Workers : at[v] \in Nat
    BY <1>3 DEF IInv, TypeOK
  <2>3. ASSUME NEW v \in Workers PROVE at'[v] < fed' /\ at'[v] <= MaxReferences
    <3>0. fed \in Nat /\ fed' = fed + 1 /\ fed <= MaxReferences /\ MaxReferences \in Nat
      BY <1>1, <1>2
    <3>1. CASE at'[v] = at[v]
      <4>1. at[v] < fed /\ at[v] <= MaxReferences /\ at[v] \in Nat
        BY <2>1, <2>2
      <4> QED
        BY <3>0, <3>1, <4>1
    <3>2. CASE at'[v] = fed
      BY <3>0, <3>2
    <3> QED
      BY <1>5, <3>1, <3>2
  <2>4. stage' = "second" => \A v \in Workers : at'[v] # 0 => at'[v] > first'
    BY <1>1, <1>5, <2>1
  <2>5. fed' <= Len(reports') + 1
    BY <1>1, <1>2, <1>4
  <2> QED
    BY <1>1, <2>3, <2>4, <2>5 DEF Crew, Waving
<1>11. Caps'
  BY <1>4 DEF Caps
<1>12. Handed' /\ \A ref \in asked' :
                    \E i \in 1..Len(reports) : i <= MaxReferences /\ reports[i].ref = ref
  <2>1. ASSUME NEW ref \in asked'
        PROVE  \E i \in DOMAIN reports : i < fed' /\ i <= MaxReferences /\ reports[i].ref = ref
    <3>1. CASE ref \in asked
      <4>1. PICK i \in DOMAIN reports : i < fed /\ i <= MaxReferences /\ reports[i].ref = ref
        BY <1>1, <3>1 DEF IInv, Handed
      <4> QED
        BY <1>1, <1>2, <4>1
    <3>2. CASE ref = reports[fed].ref
      BY <1>1, <1>2, <3>2
    <3> QED
      BY <1>6, <2>1, <3>1, <3>2
  <2> QED
    BY <1>2, <1>4, <2>1 DEF Handed
<1>13. Settled'
  <2>1. ASSUME NEW i \in DOMAIN reports', i < fed'
        PROVE  \/ \E v \in Workers : at'[v] = i
               \/ reports'[i].status = "checked"
               \/ reports'[i].detail # "none"
    <3>0. i \in 1..Len(reports) /\ (i = fed \/ i < fed)
      BY <1>1, <1>2, <1>4, <2>1
    <3>1. CASE i = fed
      BY <1>5, <3>1
    <3>2. CASE i < fed
      <4>0. i # 0 /\ i # fed
        BY <1>2, <3>0, <3>2
      <4>1. \/ \E v \in Workers : at[v] = i
            \/ reports[i].status = "checked"
            \/ reports[i].detail # "none"
        BY <1>1, <1>2, <3>0, <3>2 DEF IInv, Settled
      <4>2. ASSUME NEW v \in Workers, at[v] = i PROVE at'[v] = i
        <5>1. v # w
          BY <1>1, <4>0, <4>2
        <5> QED
          BY <1>5, <4>2, <5>1
      <4>3. reports'[i] = reports[i]
        BY <1>2, <1>4, <3>0, <4>0
      <4> QED
        BY <4>1, <4>2, <4>3
    <3> QED
      BY <3>0, <3>1, <3>2
  <2> QED
    BY <2>1 DEF Settled
<1>14. Led'
  <2>0. Keys(reports)' = Keys(reports)
    BY <1>4 DEF Keys
  <2>1. ASSUME stage = "second", NEW i \in 1..first
        PROVE  reports'[i].leads \in Keys(reports) \cup {NoRef}
    <3>1. first <= Len(reports) /\ fed > first /\ first \in Nat
      BY <2>1 DEF IInv, Listing, TypeOK
    <3>2. i \in DOMAIN reports /\ i # fed
      BY <1>2, <3>1
    <3> QED
      BY <1>4, <2>1, <3>2 DEF IInv, Led
  <2> QED
    BY <1>1, <2>0, <2>1 DEF IInv, Led
<1>15. Told' /\ NothingLost'
  <2>1. Told'
    BY <1>1, <1>4 DEF IInv, Told, Waving
  <2>2. NothingLost'
    BY <1>1, <1>8 DEF NothingLost
  <2> QED
    BY <2>1, <2>2
<1>16. LimitHolds'
  BY <1>2, <1>12, Bounded DEF LimitHolds
<1> QED
  BY <1>4, <1>7, <1>9, <1>10, <1>11, <1>12, <1>13, <1>14, <1>15, <1>16 DEF IInv

LEMMA CollectInv == ASSUME IInv, NEW w \in Workers, Collect(w) PROVE IInv'
<1> DEFINE i == at[w]
<1>1. /\ i # 0 /\ fed' = fed /\ stage' = stage /\ asked' = asked
      /\ tooMany' = tooMany /\ first' = first /\ capped' = capped /\ stopped' = stopped
      /\ expired' = expired /\ findings' = findings /\ at' = [at EXCEPT ![w] = 0]
  BY DEF Collect
<1>2. Waving
  BY <1>1 DEF IInv, Crew
<1>3. /\ reports \in Seq(ReportType) /\ Len(reports) \in Nat /\ DOMAIN reports = 1..Len(reports)
      /\ fed \in 1..(Len(reports) + 1) /\ MaxReferences \in Nat
  BY <1>2, PendingMeans
<1>4. Cardinality(Refs) \in Nat
  BY FS_CardinalityType, ReferencesAssumption
<1>5. /\ \A v \in Workers : at[v] < fed /\ at[v] <= MaxReferences /\ at[v] \in Nat
      /\ stage = "second" => \A v \in Workers : at[v] # 0 => at[v] > first
      /\ at \in [Workers -> 0..Cardinality(Refs)]
  BY <1>2, <1>4 DEF IInv, Crew, TypeOK
<1>6. i \in 1..Len(reports) /\ i <= MaxReferences
  <2>1. i \in Nat /\ i < fed /\ i <= MaxReferences
    BY <1>5
  <2> QED
    BY <1>1, <1>3, <2>1
<1>7. PICK status \in {"checked", "not-checked", "failed"}, detail \in Details \ {"cap"},
           leads \in Refs \cup {NoRef}, unpopular \in BOOLEAN :
        /\ Put(i, status, detail, leads, unpopular)
        /\ status = "checked" \/ detail # "none"
  <2>0. {"none", "budget", "error", "limited"} \subseteq Details \ {"cap"}
    BY DEF Details
  <2>1. CASE \E leads \in Refs \cup {NoRef}, unpopular \in BOOLEAN :
               Put(at[w], "checked", "none", leads, unpopular)
    <3>1. PICK leads \in Refs \cup {NoRef}, unpopular \in BOOLEAN :
            Put(at[w], "checked", "none", leads, unpopular)
      BY <2>1
    <3>2. "none" \in Details \ {"cap"} /\ "checked" \in {"checked", "not-checked", "failed"}
      BY <2>0
    <3> QED
      BY <3>1, <3>2
  <2>2. CASE Put(at[w], FailedStatus, IF Done THEN "budget" ELSE "error", NoRef, FALSE)
    <3>1. /\ FailedStatus \in {"checked", "not-checked", "failed"}
          /\ (IF Done THEN "budget" ELSE "error") \in Details \ {"cap"}
          /\ (IF Done THEN "budget" ELSE "error") # "none"
      BY <2>0 DEF FailedStatus
    <3> QED
      BY <2>2, <3>1
  <2>3. CASE Put(at[w], "not-checked", "limited", NoRef, FALSE)
    <3>1. "limited" \in Details \ {"cap"} /\ "limited" # "none"
      BY <2>0
    <3> QED
      BY <2>3, <3>1
  <2> QED
    BY <2>1, <2>2, <2>3 DEF Collect
<1> HIDE DEF i
<1>8. /\ reports' \in Seq(ReportType) /\ Len(reports') = Len(reports)
      /\ DOMAIN reports' = DOMAIN reports
      /\ \A j \in DOMAIN reports : reports'[j].ref = reports[j].ref
      /\ \A j \in DOMAIN reports : j # i => reports'[j] = reports[j]
      /\ reports'[i].status = status /\ reports'[i].detail = detail
      /\ reports' \in [DOMAIN reports' -> ReportType]
      /\ DOMAIN reports' \subseteq 1..Cardinality(Refs)
      /\ Once(reports') /\ Keys(reports') = Keys(reports)
      /\ \A j \in DOMAIN reports : reports'[j].detail = "cap" <=> j > MaxReferences
  <2>1. Put(i, status, detail, leads, unpopular)
    BY <1>7
  <2> QED
    BY <1>2, <1>6, <2>1, PutKeeps
<1>9. \A v \in Workers : at'[v] = 0 \/ (v # w /\ at'[v] = at[v])
  BY <1>1, <1>5
<1>10. TypeOK'
  <2>1. at' \in [Workers -> 0..Cardinality(Refs)]
    BY <1>1, <1>4, <1>5
  <2> QED
    BY <1>1, <1>8, <2>1 DEF IInv, TypeOK
<1>11. stage \in {"first", "second"} /\ stage # "start"
  BY <1>2 DEF Waving
<1>12. Fresh' /\ Listing' /\ Caps'
  BY <1>1, <1>8, <1>11 DEF IInv, Fresh, Listing, Caps
<1>13. Crew'
  <2>1. ASSUME NEW v \in Workers PROVE at'[v] < fed' /\ at'[v] <= MaxReferences
    <3>1. CASE at'[v] = 0
      BY <1>1, <1>3, <3>1
    <3>2. CASE at'[v] = at[v]
      BY <1>1, <1>5, <3>2
    <3> QED
      BY <1>9, <3>1, <3>2
  <2>2. stage' = "second" => \A v \in Workers : at'[v] # 0 => at'[v] > first'
    BY <1>1, <1>5, <1>9
  <2>3. fed' <= Len(reports') + 1
    BY <1>1, <1>3, <1>8
  <2> QED
    BY <1>1, <1>2, <2>1, <2>2, <2>3 DEF Crew, Waving
<1>14. Handed'
  BY <1>1, <1>2, <1>8 DEF IInv, Handed
<1>15. Settled'
  <2>1. ASSUME NEW j \in DOMAIN reports', j < fed'
        PROVE  \/ \E v \in Workers : at'[v] = j
               \/ reports'[j].status = "checked"
               \/ reports'[j].detail # "none"
    <3>1. CASE j = i
      BY <1>7, <1>8, <3>1
    <3>2. CASE j # i
      <4>1. \/ \E v \in Workers : at[v] = j
            \/ reports[j].status = "checked"
            \/ reports[j].detail # "none"
        BY <1>1, <1>2, <1>8, <2>1 DEF IInv, Settled
      <4>2. ASSUME NEW v \in Workers, at[v] = j PROVE at'[v] = j
        BY <1>1, <1>5, <3>2, <4>2 DEF i
      <4>3. reports'[j] = reports[j]
        BY <1>8, <2>1, <3>2
      <4> QED
        BY <4>1, <4>2, <4>3
    <3> QED
      BY <3>1, <3>2
  <2> QED
    BY <2>1 DEF Settled
<1>16. Led'
  <2>0. Keys(reports)' = Keys(reports)
    BY <1>8 DEF Keys
  <2>1. ASSUME stage = "second", NEW j \in 1..first
        PROVE  reports'[j].leads \in Keys(reports) \cup {NoRef}
    <3>0. i > first
      BY <1>1, <1>5, <2>1 DEF i
    <3>1. first <= Len(reports) /\ first \in Nat
      BY <2>1 DEF IInv, Listing, TypeOK
    <3>2. j \in DOMAIN reports /\ j # i
      BY <1>3, <1>6, <3>0, <3>1
    <3> QED
      BY <1>8, <2>1, <3>2 DEF IInv, Led
  <2>2. Extracted \subseteq Keys(reports)
    BY <1>2 DEF IInv, Led
  <2> QED
    BY <1>1, <2>0, <2>1, <2>2 DEF Led
<1>17. Told' /\ NothingLost' /\ LimitHolds'
  <2>1. Told'
    BY <1>1, <1>8 DEF IInv, Told, Waving
  <2>2. NothingLost'
    BY <1>1, <1>11 DEF NothingLost
  <2>3. LimitHolds'
    BY <1>1 DEF IInv, LimitHolds
  <2> QED
    BY <2>1, <2>2, <2>3
<1> QED
  BY <1>8, <1>10, <1>12, <1>13, <1>14, <1>15, <1>16, <1>17 DEF IInv
-----------------------------------------------------------------------------
(* The layer, and the whole. *)

\* Once the waves are over, only what NothingLost and Told say remains to hold.
LEMMA AfterWaves ==
  ASSUME IInv, stage \in {"second", "reports", "unpopular"},
         stage' \in {"reports", "unpopular", "done"},
         \A w \in Workers : at[w] = 0,
         UNCHANGED <<tooMany, first, fed, at, asked, capped, expired>>, stopped' \in BOOLEAN,
         DOMAIN reports' \subseteq DOMAIN reports,
         \A i \in DOMAIN reports' : reports'[i] = reports[i],
         reports' \in [DOMAIN reports' -> ReportType],
         NothingLost', Told'
  PROVE  IInv'
<1>1. TypeOK'
  BY DEF IInv, TypeOK, Stages
<1>2. Once(reports') /\ Fresh' /\ Listing' /\ Crew'
  BY DEF IInv, Once, Fresh, Listing, Crew, Waving
<1>3. Caps' /\ Handed' /\ Settled' /\ Led'
  BY DEF Caps, Handed, Settled, Led, Waving
<1>4. LimitHolds'
  BY DEF IInv, LimitHolds
<1> QED
  BY <1>1, <1>2, <1>3, <1>4 DEF IInv

LEMMA ReportedInv == ASSUME IInv, Reported PROVE IInv'
<1>1. /\ stage = "second" /\ Waving /\ WaveOver /\ stage' = "reports"
      /\ UNCHANGED <<tooMany, first, fed, at, asked, capped, stopped, expired, findings>>
  BY DEF Reported, Waving
<1>2. reports \in [DOMAIN reports -> ReportType] /\ stopped \in BOOLEAN
  BY DEF IInv, TypeOK
<1>3. /\ DOMAIN reports' \subseteq DOMAIN reports
      /\ \A i \in DOMAIN reports' : reports'[i] = reports[i]
      /\ reports' \in [DOMAIN reports' -> ReportType]
      /\ ~stopped => reports' = reports
  <2>1. CASE stopped
    <3>1. PICK live \in SUBSET DOMAIN reports : reports' = [i \in live |-> reports[i]]
      BY <2>1 DEF Reported, Restrict
    <3> QED
      BY <1>2, <2>1, <3>1
  <2>2. CASE ~stopped
    BY <1>2, <2>2 DEF Reported
  <2> QED
    BY <1>2, <2>1, <2>2
<1>4. NothingLost'
  <2> SUFFICES ASSUME ~stopped
               PROVE  /\ \A i \in 1..first : reports[i].leads \in Keys(reports) \cup {NoRef}
                      /\ Extracted \subseteq Keys(reports)
                      /\ \A i \in DOMAIN reports :
                           reports[i].status # "checked" => reports[i].detail # "none"
    BY <1>1, <1>3 DEF NothingLost, Keys
  <2>1. /\ \A i \in 1..first : reports[i].leads \in Keys(reports) \cup {NoRef}
        /\ Extracted \subseteq Keys(reports)
    BY <1>1 DEF IInv, Led
  <2>2. \A i \in DOMAIN reports : reports[i].status = "checked" \/ reports[i].detail # "none"
    BY <1>1, WaveAnswered
  <2> QED
    BY <2>1, <2>2
<1>5. Told'
  <2>1. /\ findings = IF capped /\ tooMany # "off" THEN {TooManyFinding} ELSE {}
        /\ capped = (Len(reports) > MaxReferences)
    BY <1>1 DEF IInv, Told
  <2> QED
    BY <1>1, <1>3, <2>1 DEF Told, Waving
<1>6. \A w \in Workers : at[w] = 0
  BY <1>1 DEF WaveOver
<1> QED
  BY <1>1, <1>2, <1>3, <1>4, <1>5, <1>6, AfterWaves

LEMMA ReportFindingsInv == ASSUME IInv, ReportFindings PROVE IInv'
<1>1. /\ stage = "reports" /\ stage' = "unpopular"
      /\ UNCHANGED <<tooMany, reports, first, fed, at, asked, capped, expired>>
  BY DEF ReportFindings
<1>2. stopped' \in BOOLEAN /\ (stopped => stopped')
  BY DEF ReportFindings, IInv, TypeOK
<1>3. NothingLost' /\ Told'
  BY <1>1, <1>2 DEF IInv, NothingLost, Told, Keys, Waving
<1>4. \A w \in Workers : at[w] = 0
  BY <1>1 DEF IInv, Crew, Waving
<1> QED
  BY <1>1, <1>2, <1>3, <1>4, AfterWaves DEF IInv, TypeOK

LEMMA UnpopularInv == ASSUME IInv, Unpopular PROVE IInv'
<1>1. /\ stage = "unpopular" /\ stage' = "done"
      /\ UNCHANGED <<tooMany, reports, first, fed, at, asked, capped, stopped, expired>>
  BY DEF Unpopular
<1>2. NothingLost' /\ Told'
  BY <1>1 DEF IInv, NothingLost, Told, Keys, Waving
<1>3. \A w \in Workers : at[w] = 0
  BY <1>1 DEF IInv, Crew, Waving
<1> QED
  BY <1>1, <1>2, <1>3, AfterWaves DEF IInv, TypeOK

LEMMA KeptInv ==
  ASSUME IInv, expired' \in BOOLEAN,
         UNCHANGED <<tooMany, stage, reports, first, fed, at, asked, capped, stopped, findings>>
  PROVE  IInv'
<1>1. TypeOK' /\ Once(reports')
  BY DEF IInv, TypeOK, Once
<1>2. Fresh' /\ Listing' /\ Crew' /\ Caps'
  BY DEF IInv, Fresh, Listing, Crew, Caps, Waving
<1>3. Handed' /\ Settled' /\ Led'
  BY DEF IInv, Handed, Settled, Led, Waving, Keys
<1>4. Told' /\ NothingLost' /\ LimitHolds'
  BY DEF IInv, Told, NothingLost, LimitHolds, Waving, Keys
<1> QED
  BY <1>1, <1>2, <1>3, <1>4 DEF IInv

LEMMA StepInv == ASSUME IInv, [Next]_vars PROVE IInv'
<1>1. CASE Extract
  BY <1>1, ExtractInv
<1>2. CASE Derive
  BY <1>2, DeriveInv
<1>3. CASE Reported
  BY <1>3, ReportedInv
<1>4. CASE ReportFindings
  BY <1>4, ReportFindingsInv
<1>5. CASE Unpopular
  BY <1>5, UnpopularInv
<1>6. ASSUME NEW w \in Workers, Take(w) \/ Collect(w) PROVE IInv'
  BY <1>6, TakeInv, CollectInv
<1>7. CASE Expire
  BY <1>7, KeptInv DEF Expire
<1>8. CASE Returned \/ UNCHANGED vars
  <2>1. expired \in BOOLEAN
    BY DEF IInv, TypeOK
  <2> QED
    BY <1>8, <2>1, KeptInv DEF Returned, vars
<1> QED
  BY <1>1, <1>2, <1>3, <1>4, <1>5, <1>6, <1>7, <1>8 DEF Next, Step

\* The invariant of the references layer.
THEOREM Invariance == Spec => []IInv
<1>1. Init => IInv
  BY InitInv
<1>2. IInv /\ [Next]_vars => IInv'
  BY StepInv
<1> QED
  BY <1>1, <1>2, PTL DEF Spec

\* The state of a run has its type: the list of reports never holds more than
\* there are references, though add appends in both waves.
THEOREM TypeCorrect == Spec => []TypeOK
<1>1. IInv => TypeOK
  BY DEF IInv
<1> QED
  BY <1>1, Invariance, PTL

\* However many workers there are and whatever the sites redirect to, at most
\* MaxReferences references of a skill are looked up.
THEOREM LimitKept == Spec => []LimitHolds
<1>1. IInv => LimitHolds
  BY DEF IInv
<1> QED
  BY <1>1, Invariance, PTL

\* Every reference of the files and every site they lead to is in the report,
\* and none is left without an answer.
THEOREM NothingIsLost == Spec => []NothingLost
<1>1. IInv => NothingLost
  BY DEF IInv
<1> QED
  BY <1>1, Invariance, PTL

\* REFERENCES-TOO-MANY is recorded exactly when the limit cut something off.
THEOREM TooManyTold == Spec => []TooManyIsTold
<1>1. IInv => TooManyIsTold
  <2> SUFFICES ASSUME IInv, stage \in {"second", "reports"}, tooMany # "off"
               PROVE  /\ TooManyFinding \in findings <=> capped
                      /\ (stage = "second" \/ ~stopped) => capped = (Len(reports) > MaxReferences)
    BY DEF TooManyIsTold, TooManyFinding
  <2>1. findings = IF capped /\ tooMany # "off" THEN {TooManyFinding} ELSE {}
    BY DEF IInv, Told
  <2>2. capped \in BOOLEAN
    BY DEF IInv, TypeOK
  <2>3. TooManyFinding \in findings <=> capped
    BY <2>1, <2>2
  <2>4. (stage = "second" \/ ~stopped) => capped = (Len(reports) > MaxReferences)
    BY DEF IInv, Told, Waving
  <2> QED
    BY <2>3, <2>4
<1> QED
  BY <1>1, Invariance, PTL

\* No reference is looked up twice, by whichever workers in whichever waves.
THEOREM LookedUpOnce == Spec => AskedOnce
<1>1. ASSUME IInv, [Next]_vars
      PROVE  [\A w \in Workers :
                (at[w] = 0 /\ at'[w] # 0) => reports[at'[w]].ref \notin asked]_vars
  <2> SUFFICES ASSUME Next, NEW w \in Workers, at[w] = 0, at'[w] # 0
               PROVE  reports[at'[w]].ref \notin asked
    BY <1>1
  <2>0. at \in [Workers -> 0..Cardinality(Refs)]
    BY <1>1 DEF IInv, TypeOK
  <2>1. PICK v \in Workers : Take(v) \/ Collect(v)
    BY DEF Next, Step, Extract, Derive, Reported, ReportFindings, Unpopular, Expire, Returned, vars
  <2>2. Take(v) /\ v = w /\ at' = [at EXCEPT ![w] = fed]
    BY <2>0, <2>1 DEF Take, Collect
  <2>3. at'[w] = fed /\ Waving /\ Pending
    BY <2>0, <2>2 DEF Take
  <2>4. /\ fed \in 1..Len(reports) /\ DOMAIN reports = 1..Len(reports) /\ Len(reports) \in Nat
    BY <1>1, <2>3, PendingMeans
  <2>5. ASSUME reports[fed].ref \in asked PROVE FALSE
    <3>1. PICK i \in DOMAIN reports : i < fed /\ reports[i].ref = reports[fed].ref
      BY <1>1, <2>3, <2>5 DEF IInv, Handed
    <3>2. i = fed
      BY <1>1, <2>4, <3>1 DEF IInv, Once
    <3> QED
      BY <2>4, <3>1, <3>2
  <2> QED
    BY <2>3, <2>5
<1> QED
  BY <1>1, Invariance, PTL DEF Spec, AskedOnce

-----------------------------------------------------------------------------
(* Collectors: the jobs of the workers. *)

allVars == <<vars, lookups>>

Of(j, what) == IF what \in DOMAIN j.heard THEN j.heard[what] ELSE "silent"

\* The answers that mean that r is not there.
NoSuch(j, r) ==
  \/ "missing" \in {Of(j, "registry"), Of(j, "owner"), Of(j, "repo")}
  \/ Of(j, "rdap") = "missing" /\ j.tried + 1 = Len(Candidates[r])

Counted(j) ==
  \/ "counted" \in {Of(j, "stats"), Of(j, "counts")}
  \/ {Of(j, "stats"), Of(j, "counts")} \subseteq {"uncounted", "missing"}

IsThere(j) == Of(j, "registry") = "found" \/ Of(j, "stats") \in {"counted", "uncounted"}

IsJob(j) ==
  /\ DOMAIN j = {"step", "heard", "says", "err", "unpopular", "at", "name", "tried", "hops"}
  /\ j.unpopular \in BOOLEAN /\ j.at \in Refs \cup {None} /\ j.tried \in Nat

\* A lookup says that r is not there only at its end, and only with the answer;
\* and it ends with its first error that counts.
Sure(j, r) ==
  /\ "missing" \in j.says => j.step = "return" /\ NoSuch(j, r)
  /\ j.err # "none" => j.step = "return"
  /\ j.err = "limited" => \E what \in DOMAIN j.heard : j.heard[what] = "limited"

OfPackage(j, r) ==
  /\ j.step \in {"stats", "registry", "counts", "return"}
  /\ j.step = "registry" => Of(j, "stats") \in {"missing"} \cup Errors
  /\ j.step = "counts" =>
       IsThere(j) /\ Of(j, "stats") \in {"counted", "uncounted", "missing"} \cup Errors
  /\ j.step = "return" /\ j.err = "none" => NoSuch(j, r) \/ (Counted(j) /\ IsThere(j))

OfOther(j, r) ==
  /\ j.step \in {"owner", "repo", "moved", "lock", "boot", "rdap", "page", "return"}
  /\ j.step \in {"lock", "boot", "rdap"} => j.tried < Len(Candidates[r])
  /\ j.err = "none" => \A what \in DOMAIN j.heard : j.heard[what] \notin Errors

JobInv(j, r) ==
  /\ IsJob(j) /\ Sure(j, r)
  /\ IF kind[r] = "package" THEN OfPackage(j, r) ELSE OfOther(j, r)

\* What is kept of an URL is an answer to it.
KeptRight ==
  \A url \in DOMAIN kept :
    /\ kept[url] \in {"found", "missing", "garbled"}
    /\ url[1] \in {"ecosystems", "counts"} => kept[url] = "missing"

WholeInv ==
  /\ IInv /\ kind \in Kinds /\ KeptRight
  /\ DOMAIN job = Workers
  /\ \A w \in Workers : at[w] # 0 => JobInv(job[w], Ref(w))

\* A worker on a job is on a report of the wave that runs.
LEMMA OnReport ==
  ASSUME IInv, NEW w \in Workers, at[w] # 0
  PROVE  /\ Waving /\ at[w] \in 1..Len(reports) /\ at[w] <= MaxReferences
         /\ Len(reports) \in Nat /\ Ref(w) \in Refs
<1>1. Waving /\ at[w] < fed /\ at[w] <= MaxReferences /\ fed <= Len(reports) + 1
  BY DEF IInv, Crew
<1>2. reports \in Seq(ReportType)
  BY <1>1 DEF IInv, Listing, Waving
<1>3. at[w] \in Nat /\ fed \in Nat
  <2>1. \A n \in 0..Cardinality(Refs) : n \in Nat
    OBVIOUS
  <2>2. at[w] \in 0..Cardinality(Refs) /\ fed \in 1..(Cardinality(Refs) + 1)
    BY DEF IInv, TypeOK
  <2> QED
    BY <2>2
<1>4. at[w] \in 1..Len(reports) /\ Len(reports) \in Nat
  BY <1>1, <1>2, <1>3
<1>5. reports[at[w]] \in ReportType
  BY <1>2, <1>4
<1> QED
  BY <1>1, <1>4, <1>5 DEF Ref, ReportType

\* A request of a worker leaves the others where they are.
LEMMA OthersStay ==
  ASSUME WholeInv, NEW w \in Workers, at[w] # 0, NEW j, JobInv(j, Ref(w)),
         job' = [job EXCEPT ![w] = j], KeptRight', UNCHANGED <<kind, vars>>
  PROVE  WholeInv'
<1>1. IInv'
  BY StepInv DEF WholeInv
<1>2. ASSUME NEW v \in Workers, at'[v] # 0 PROVE JobInv(job[v], Ref(v))'
  <2>1. job'[v] = (IF v = w THEN j ELSE job[v]) /\ Ref(v)' = Ref(v) /\ at[v] # 0
    BY <1>2 DEF WholeInv, Ref, vars
  <2>2. JobInv(job'[v], Ref(v))
    BY <2>1 DEF WholeInv
  <2> QED
    BY <2>1, <2>2 DEF JobInv, Sure, NoSuch, OfPackage, OfOther
<1> QED
  BY <1>1, <1>2 DEF WholeInv

\* What an URL is answered with, from wherever.
LEMMA AnswerIs ==
  ASSUME KeptRight, NEW url, NEW answers, NEW a \in Answers(url, answers)
  PROVE  /\ a \in answers \cup {"failed", "limited", "found", "missing", "garbled"}
         /\ url[1] \in {"ecosystems", "counts"} => a \in answers \cup {"failed", "limited", "missing"}
BY DEF KeptRight, Answers

LEMMA RememberedRight ==
  ASSUME KeptRight, NEW url, NEW a, Remember(url, a),
         url[1] \in {"ecosystems", "counts"} => a \notin {"found", "garbled"}
  PROVE  KeptRight'
BY DEF KeptRight, Remember, With

\* A job that has heard one more answer.
After(j, what, a) == [j EXCEPT !.heard = With(@, what, a)]

LEMMA HeardJob ==
  ASSUME NEW j, IsJob(j), NEW what, NEW a
  PROVE  LET k == After(j, what, a)
         IN  /\ IsJob(k)
             /\ k.step = j.step /\ k.says = j.says /\ k.err = j.err /\ k.tried = j.tried
             /\ DOMAIN k.heard = DOMAIN j.heard \cup {what}
             /\ \A x \in DOMAIN k.heard : k.heard[x] = IF x = what THEN a ELSE j.heard[x]
             /\ Of(k, what) = a
             /\ \A x : x # what => Of(k, x) = Of(j, x)
<1> DEFINE k == After(j, what, a)
<1>1. IsJob(k) /\ k.heard = With(j.heard, what, a)
  BY DEF IsJob, After
<1>2. k.step = j.step /\ k.says = j.says /\ k.err = j.err /\ k.tried = j.tried
  BY DEF IsJob, After
<1> HIDE DEF k
<1>3. /\ DOMAIN k.heard = DOMAIN j.heard \cup {what}
      /\ \A x \in DOMAIN k.heard : k.heard[x] = IF x = what THEN a ELSE j.heard[x]
  BY <1>1 DEF With
<1>4. Of(k, what) = a /\ \A x : x # what => Of(k, x) = Of(j, x)
  BY <1>3 DEF Of
<1> QED
  BY <1>1, <1>2, <1>3, <1>4 DEF k

\* A request with its answer keeps the invariant if the job does.
LEMMA HearKeeps ==
  ASSUME WholeInv, NEW w \in Workers, at[w] # 0, NEW what, NEW url, NEW a, NEW j,
         Hear(w, what, url, a, j),
         url[1] \in {"ecosystems", "counts"} => a \notin {"found", "garbled"},
         JobInv(After(j, what, a), Ref(w))
  PROVE  WholeInv'
<1>1. KeptRight'
  BY RememberedRight DEF Hear, WholeInv
<1>2. job' = [job EXCEPT ![w] = After(j, what, a)] /\ UNCHANGED <<kind, vars>>
  BY DEF Hear, After
<1> QED
  BY <1>1, <1>2, OthersStay

\* Where a job goes on, fails, or says something, the rest of it stays.
LEMMA ToJob ==
  ASSUME NEW w, IsJob(job[w]), NEW step
  PROVE  /\ IsJob(To(w, step)) /\ To(w, step).step = step
         /\ To(w, step).says = job[w].says /\ To(w, step).err = job[w].err
         /\ To(w, step).heard = job[w].heard /\ To(w, step).tried = job[w].tried
BY DEF To, IsJob

LEMMA FailsJob ==
  ASSUME NEW w, IsJob(job[w]), NEW a
  PROVE  /\ IsJob(Fails(w, a)) /\ Fails(w, a).step = "return" /\ Fails(w, a).err = a
         /\ Fails(w, a).says = job[w].says
         /\ Fails(w, a).heard = job[w].heard /\ Fails(w, a).tried = job[w].tried
<1>1. /\ IsJob(To(w, "return")) /\ To(w, "return").step = "return"
      /\ To(w, "return").says = job[w].says
      /\ To(w, "return").heard = job[w].heard /\ To(w, "return").tried = job[w].tried
  BY ToJob
<1> QED
  BY <1>1 DEF Fails, IsJob

LEMMA SaysJob ==
  ASSUME NEW j, IsJob(j), NEW what
  PROVE  /\ IsJob(Says(j, what)) /\ Says(j, what).says = j.says \cup {what}
         /\ Says(j, what).step = j.step /\ Says(j, what).err = j.err
         /\ Says(j, what).heard = j.heard /\ Says(j, what).tried = j.tried
BY DEF Says, IsJob

LEMMA UnpopularJob ==
  ASSUME NEW j, IsJob(j), NEW few \in BOOLEAN, NEW k, k = [j EXCEPT !.unpopular = few]
  PROVE  /\ IsJob(k) /\ k.says = j.says /\ k.step = j.step /\ k.err = j.err
         /\ k.heard = j.heard /\ k.tried = j.tried
BY DEF IsJob

\* What is known of a job at a step that is not the last.
LEMMA AtStep ==
  ASSUME WholeInv, NEW w \in Workers, NEW step, At(w, step), step # "return"
  PROVE  /\ at[w] # 0 /\ IsJob(job[w]) /\ job[w].step = step
         /\ "missing" \notin job[w].says /\ job[w].err = "none"
         /\ JobInv(job[w], Ref(w))
BY DEF WholeInv, At, JobInv, Sure

\* A lookup that ends with an error it was answered.
LEMMA FailsKeeps ==
  ASSUME WholeInv, NEW w \in Workers, NEW step, At(w, step), step # "return",
         NEW what, NEW a, NEW e, e # "none", e = "limited" => a = "limited"
  PROVE  JobInv(After(Fails(w, e), what, a), Ref(w))
<1> DEFINE k == After(Fails(w, e), what, a)
<1>1. at[w] # 0 /\ IsJob(job[w]) /\ "missing" \notin job[w].says /\ JobInv(job[w], Ref(w))
  BY AtStep
<1>2. /\ IsJob(k) /\ k.step = "return" /\ k.err = e /\ k.says = job[w].says
      /\ what \in DOMAIN k.heard /\ k.heard[what] = a
  BY <1>1, FailsJob, HeardJob
<1> HIDE DEF k
<1>3. Sure(k, Ref(w))
  BY <1>1, <1>2 DEF Sure
<1>4. JobInv(k, Ref(w))
  BY <1>1, <1>2, <1>3 DEF JobInv, OfPackage, OfOther
<1> QED
  BY <1>4 DEF k

LEMMA StatsInv == ASSUME WholeInv, NEW w \in Workers, Stats(w) PROVE WholeInv'
<1> DEFINE url == <<"ecosystems", Ref(w)>>
           next(a) == IF a \in {"counted", "uncounted"} THEN "counts" ELSE "registry"
<1>1. PICK a \in Answers(url, {"counted", "uncounted", "missing"}) :
        Hear(w, "stats", url, a, To(w, next(a)))
  BY DEF Stats, Ask
<1>2. /\ at[w] # 0 /\ IsJob(job[w]) /\ "missing" \notin job[w].says /\ job[w].err = "none"
      /\ JobInv(job[w], Ref(w)) /\ job[w].step = "stats"
  BY AtStep DEF Stats
<1>3. kind[Ref(w)] = "package"
  BY <1>2 DEF JobInv, OfOther
<1>4. a \in {"counted", "uncounted", "missing", "failed", "limited"}
  BY AnswerIs DEF WholeInv
<1> DEFINE k == After(To(w, next(a)), "stats", a)
<1>5. IsJob(k) /\ k.step = next(a) /\ k.says = job[w].says /\ k.err = "none" /\ Of(k, "stats") = a
  BY <1>2, ToJob, HeardJob
<1> HIDE DEF k
<1>6. JobInv(k, Ref(w))
  BY <1>2, <1>3, <1>4, <1>5 DEF JobInv, Sure, OfPackage, IsThere, Errors
<1> QED
  BY <1>1, <1>2, <1>4, <1>6, HearKeeps DEF k

LEMMA RegistryInv == ASSUME WholeInv, NEW w \in Workers, Registry(w) PROVE WholeInv'
<1> DEFINE url == <<"registry", Ref(w)>>
<1>1. PICK a \in Answers(url, Json(url)) :
        Hear(w, "registry", url, a,
             IF a \in Errors THEN Fails(w, a)
             ELSE IF a = "missing" THEN Says(To(w, "return"), "missing")
             ELSE To(w, "counts"))
  BY DEF Registry, Ask
<1>2. /\ At(w, "registry") /\ at[w] # 0 /\ IsJob(job[w]) /\ "missing" \notin job[w].says
      /\ job[w].err = "none" /\ JobInv(job[w], Ref(w)) /\ job[w].step = "registry"
  BY AtStep DEF Registry
<1>3. kind[Ref(w)] = "package" /\ Of(job[w], "stats") \in {"missing"} \cup Errors
  BY <1>2 DEF JobInv, OfOther, OfPackage
<1>4. a \in {"found", "missing"} \cup Errors
  BY AnswerIs DEF WholeInv, Json, Errors
<1>5. CASE a \in Errors
  <2>1. Hear(w, "registry", url, a, Fails(w, a))
    BY <1>1, <1>5
  <2>2. JobInv(After(Fails(w, a), "registry", a), Ref(w))
    BY <1>2, <1>5, FailsKeeps DEF Errors
  <2> QED
    BY <1>2, <2>1, <2>2, HearKeeps
<1>6. CASE a = "missing"
  <2> DEFINE j == Says(To(w, "return"), "missing")
             k == After(j, "registry", a)
  <2>1. Hear(w, "registry", url, a, j)
    BY <1>1, <1>6 DEF Errors
  <2>2. IsJob(j) /\ j.step = "return" /\ j.err = "none"
    BY <1>2, ToJob, SaysJob
  <2>3. IsJob(k) /\ k.step = "return" /\ k.err = "none" /\ Of(k, "registry") = "missing"
    BY <1>6, <2>2, HeardJob
  <2> HIDE DEF k
  <2>4. JobInv(k, Ref(w))
    BY <1>3, <2>3 DEF JobInv, Sure, OfPackage, NoSuch
  <2> QED
    BY <1>2, <2>1, <2>4, HearKeeps DEF k
<1>7. CASE a = "found"
  <2> DEFINE j == To(w, "counts")
             k == After(j, "registry", a)
  <2>1. Hear(w, "registry", url, a, j)
    BY <1>1, <1>7 DEF Errors
  <2>2. IsJob(j) /\ j.step = "counts" /\ j.err = "none" /\ j.says = job[w].says /\ j.heard = job[w].heard
    BY <1>2, ToJob
  <2>3. Of(j, "stats") = Of(job[w], "stats")
    BY <2>2 DEF Of
  <2>4. /\ IsJob(k) /\ k.step = "counts" /\ k.err = "none" /\ k.says = job[w].says
        /\ Of(k, "registry") = "found" /\ Of(k, "stats") = Of(job[w], "stats")
    BY <1>7, <2>2, <2>3, HeardJob
  <2> HIDE DEF k
  <2>5. JobInv(k, Ref(w))
    BY <1>2, <1>3, <2>4 DEF JobInv, Sure, OfPackage, IsThere
  <2> QED
    BY <1>2, <2>1, <2>5, HearKeeps DEF k
<1> QED
  BY <1>4, <1>5, <1>6, <1>7

LEMMA CountsInv == ASSUME WholeInv, NEW w \in Workers, Counts(w) PROVE WholeInv'
<1> DEFINE url == <<"counts", Ref(w)>>
           stats == job[w].heard["stats"]
           ends(few) == [To(w, "return") EXCEPT !.unpopular = few]
<1>1. PICK a \in Answers(url, {"counted", "uncounted", "missing"}), few \in BOOLEAN :
        Hear(w, "counts", url, a,
             IF "counted" \in {a, stats} THEN ends(few)
             ELSE IF a \in Errors THEN Fails(w, a)
             ELSE IF stats \in Errors THEN Fails(w, stats)
             ELSE ends(TRUE))
  BY DEF Counts, Ask
<1>2. /\ At(w, "counts") /\ at[w] # 0 /\ IsJob(job[w]) /\ "missing" \notin job[w].says
      /\ job[w].err = "none" /\ JobInv(job[w], Ref(w)) /\ job[w].step = "counts"
  BY AtStep DEF Counts
<1>3. /\ kind[Ref(w)] = "package" /\ IsThere(job[w])
      /\ Of(job[w], "stats") \in {"counted", "uncounted", "missing"} \cup Errors
  BY <1>2 DEF JobInv, OfOther, OfPackage
<1>4. "stats" \in DOMAIN job[w].heard /\ stats = Of(job[w], "stats")
  BY <1>3 DEF Of, Errors
<1>5. a \in {"counted", "uncounted", "missing", "failed", "limited"}
  BY AnswerIs DEF WholeInv
<1>6. ASSUME NEW n \in BOOLEAN, Hear(w, "counts", url, a, ends(n)),
             "counted" \in {a, stats} \/ (a \notin Errors /\ stats \notin Errors)
      PROVE  WholeInv'
  <2> DEFINE j == ends(n)
             k == After(j, "counts", a)
  <2>1. /\ IsJob(j) /\ j.step = "return" /\ j.err = "none" /\ j.says = job[w].says
        /\ j.heard = job[w].heard
    BY <1>2, ToJob, UnpopularJob
  <2> HIDE DEF j
  <2>2. \A x : Of(j, x) = Of(job[w], x)
    BY <2>1 DEF Of
  <2>3. /\ IsJob(k) /\ k.step = "return" /\ k.err = "none" /\ k.says = job[w].says
        /\ Of(k, "counts") = a /\ \A x : x # "counts" => Of(k, x) = Of(job[w], x)
    BY <2>1, <2>2, HeardJob
  <2> HIDE DEF k
  <2>4. IsThere(k) /\ Of(k, "stats") = stats
    BY <1>3, <1>4, <2>3 DEF IsThere
  <2>5. Counted(k)
    BY <1>3, <1>4, <1>5, <1>6, <2>3, <2>4 DEF Counted, Errors
  <2>6. JobInv(k, Ref(w))
    BY <1>2, <1>3, <2>3, <2>4, <2>5 DEF JobInv, Sure, OfPackage
  <2> QED
    BY <1>2, <1>5, <1>6, <2>6, HearKeeps DEF j, k
<1>7. ASSUME NEW e, e \in Errors, e = a \/ e = stats, Hear(w, "counts", url, a, Fails(w, e))
      PROVE  WholeInv'
  <2> DEFINE k == After(Fails(w, e), "counts", a)
  <2>1. /\ IsJob(k) /\ k.step = "return" /\ k.err = e /\ k.says = job[w].says
        /\ "counts" \in DOMAIN k.heard /\ k.heard["counts"] = a
        /\ "stats" \in DOMAIN k.heard /\ k.heard["stats"] = stats
    BY <1>2, <1>4, FailsJob, HeardJob
  <2> HIDE DEF k
  <2>2. JobInv(k, Ref(w))
    BY <1>2, <1>3, <1>7, <2>1 DEF JobInv, Sure, OfPackage, Errors
  <2> QED
    BY <1>2, <1>5, <1>7, <2>2, HearKeeps DEF k
<1> HIDE DEF stats, ends, url
<1>8. CASE "counted" \in {a, stats}
  BY <1>1, <1>6, <1>8
<1>9. CASE "counted" \notin {a, stats} /\ a \in Errors
  BY <1>1, <1>7, <1>9
<1>10. CASE "counted" \notin {a, stats} /\ a \notin Errors /\ stats \in Errors
  BY <1>1, <1>7, <1>10
<1>11. CASE "counted" \notin {a, stats} /\ a \notin Errors /\ stats \notin Errors
  BY <1>1, <1>6, <1>11
<1> QED
  BY <1>8, <1>9, <1>10, <1>11

\* A lookup of another kind that hears an answer that is no error.
LEMMA OtherHears ==
  ASSUME WholeInv, NEW w \in Workers, NEW step, At(w, step), step # "return",
         kind[Ref(w)] # "package", NEW what, NEW a, a \notin Errors,
         NEW j, IsJob(j), j.heard = job[w].heard, j.err = "none",
         j.step \in {"owner", "repo", "moved", "lock", "boot", "rdap", "page", "return"},
         j.step \in {"lock", "boot", "rdap"} => j.tried < Len(Candidates[Ref(w)]),
         "missing" \in j.says => j.step = "return" /\ NoSuch(After(j, what, a), Ref(w))
  PROVE  JobInv(After(j, what, a), Ref(w))
<1> DEFINE k == After(j, what, a)
<1>1. \A x \in DOMAIN job[w].heard : job[w].heard[x] \notin Errors
  BY AtStep DEF JobInv, OfOther
<1>2. /\ IsJob(k) /\ k.step = j.step /\ k.says = j.says /\ k.err = "none" /\ k.tried = j.tried
      /\ DOMAIN k.heard = DOMAIN job[w].heard \cup {what}
      /\ \A x \in DOMAIN k.heard : k.heard[x] = IF x = what THEN a ELSE job[w].heard[x]
  BY HeardJob
<1> HIDE DEF k
<1>3. \A x \in DOMAIN k.heard : k.heard[x] \notin Errors
  BY <1>1, <1>2
<1>4. Sure(k, Ref(w)) /\ OfOther(k, Ref(w))
  BY <1>2, <1>3 DEF Sure, OfOther, k
<1> QED
  BY <1>2, <1>4 DEF JobInv, k

\* The steps of the other kinds.
LEMMA OtherStep ==
  ASSUME WholeInv, NEW w \in Workers,
         NEW step \in {"owner", "repo", "moved", "lock", "boot", "rdap", "page"}, At(w, step)
  PROVE  /\ at[w] # 0 /\ IsJob(job[w]) /\ job[w].step = step
         /\ "missing" \notin job[w].says /\ job[w].err = "none"
         /\ kind[Ref(w)] # "package" /\ JobInv(job[w], Ref(w))
<1>1. /\ at[w] # 0 /\ IsJob(job[w]) /\ job[w].step = step
      /\ "missing" \notin job[w].says /\ job[w].err = "none" /\ JobInv(job[w], Ref(w))
  BY AtStep
<1> QED
  BY <1>1 DEF JobInv, OfPackage

\* A request of another kind than a package that is answered with an error.
LEMMA OtherFails ==
  ASSUME WholeInv, NEW w \in Workers,
         NEW step \in {"owner", "repo", "moved", "lock", "boot", "rdap", "page"}, At(w, step),
         NEW what, NEW url, url[1] \notin {"ecosystems", "counts"}, NEW a,
         NEW e \in Errors, e = "limited" => a = "limited",
         Hear(w, what, url, a, Fails(w, e))
  PROVE  WholeInv'
<1>1. JobInv(After(Fails(w, e), what, a), Ref(w))
  BY FailsKeeps DEF Errors
<1> QED
  BY <1>1, OtherStep, HearKeeps

\* An answer to such a request that is no error.
LEMMA OtherGoesOn ==
  ASSUME WholeInv, NEW w \in Workers,
         NEW step \in {"owner", "repo", "moved", "lock", "boot", "rdap", "page"}, At(w, step),
         NEW what, NEW url, url[1] \notin {"ecosystems", "counts"}, NEW a, a \notin Errors,
         NEW j, IsJob(j), j.heard = job[w].heard, j.err = "none",
         j.step \in {"owner", "repo", "moved", "lock", "boot", "rdap", "page", "return"},
         j.step \in {"lock", "boot", "rdap"} => j.tried < Len(Candidates[Ref(w)]),
         "missing" \in j.says => j.step = "return" /\ NoSuch(After(j, what, a), Ref(w)),
         Hear(w, what, url, a, j)
  PROVE  WholeInv'
<1>1. JobInv(After(j, what, a), Ref(w))
  BY OtherStep, OtherHears
<1> QED
  BY <1>1, OtherStep, HearKeeps

LEMMA OwnerInv == ASSUME WholeInv, NEW w \in Workers, Owner(w) PROVE WholeInv'
<1> DEFINE url == <<"github", <<"owner", Ref(w)>>>>
           next == IF kind[Ref(w)] = "owner" THEN "return" ELSE "repo"
<1>1. PICK a \in Answers(url, Json(url)) :
        Hear(w, "owner", url, a,
             IF a \in Errors THEN Fails(w, a)
             ELSE IF a = "missing" THEN Says(To(w, "return"), "missing")
             ELSE To(w, next))
  BY DEF Owner, Ask
<1>2. /\ At(w, "owner") /\ IsJob(job[w])
      /\ "missing" \notin job[w].says /\ job[w].err = "none"
  BY OtherStep DEF Owner
<1>3. url[1] \notin {"ecosystems", "counts"}
  OBVIOUS
<1>4. CASE a \in Errors
  <2>1. Hear(w, "owner", url, a, Fails(w, a))
    BY <1>1, <1>4
  <2> HIDE DEF url
  <2> QED
    BY <1>2, <1>3, <1>4, <2>1, OtherFails
<1>5. CASE a \notin Errors /\ a = "missing"
  <2> DEFINE j == Says(To(w, "return"), "missing")
  <2>1. Hear(w, "owner", url, a, j)
    BY <1>1, <1>5
  <2>2. IsJob(j) /\ j.step = "return" /\ j.err = "none" /\ j.heard = job[w].heard
    BY <1>2, ToJob, SaysJob
  <2>3. Of(After(j, "owner", a), "owner") = "missing"
    BY <1>5, <2>2, HeardJob
  <2>4. NoSuch(After(j, "owner", a), Ref(w))
    BY <2>3 DEF NoSuch
  <2> HIDE DEF j, url
  <2> QED
    BY <1>2, <1>3, <1>5, <2>1, <2>2, <2>4, OtherGoesOn
<1>6. CASE a \notin Errors /\ a # "missing"
  <2> DEFINE j == To(w, next)
  <2>1. Hear(w, "owner", url, a, j)
    BY <1>1, <1>6
  <2>2. /\ IsJob(j) /\ j.step \in {"return", "repo"} /\ j.err = "none"
        /\ j.heard = job[w].heard /\ j.says = job[w].says
    BY <1>2, ToJob
  <2> HIDE DEF j, url
  <2> QED
    BY <1>2, <1>3, <1>6, <2>1, <2>2, OtherGoesOn
<1> QED
  BY <1>4, <1>5, <1>6

LEMMA RepoInv == ASSUME WholeInv, NEW w \in Workers, Repo(w) PROVE WholeInv'
<1> DEFINE url == <<"github", <<"repo", Ref(w)>>>>
           next(moved) == To(w, IF moved THEN "moved" ELSE "return")
<1>1. PICK a \in Answers(url, Json(url)), few \in BOOLEAN, moved \in BOOLEAN :
        Hear(w, "repo", url, a,
             IF a \in Errors THEN Fails(w, a)
             ELSE IF a = "missing" THEN Says(To(w, "return"), "missing")
             ELSE [next(moved) EXCEPT !.unpopular = few])
  BY DEF Repo, Ask
<1>2. /\ At(w, "repo") /\ IsJob(job[w])
      /\ "missing" \notin job[w].says /\ job[w].err = "none"
  BY OtherStep DEF Repo
<1>3. url[1] \notin {"ecosystems", "counts"}
  OBVIOUS
<1>4. CASE a \in Errors
  <2>1. Hear(w, "repo", url, a, Fails(w, a))
    BY <1>1, <1>4
  <2> HIDE DEF url
  <2> QED
    BY <1>2, <1>3, <1>4, <2>1, OtherFails
<1>5. CASE a \notin Errors /\ a = "missing"
  <2> DEFINE j == Says(To(w, "return"), "missing")
  <2>1. Hear(w, "repo", url, a, j)
    BY <1>1, <1>5
  <2>2. IsJob(j) /\ j.step = "return" /\ j.err = "none" /\ j.heard = job[w].heard
    BY <1>2, ToJob, SaysJob
  <2>3. Of(After(j, "repo", a), "repo") = "missing"
    BY <1>5, <2>2, HeardJob
  <2>4. NoSuch(After(j, "repo", a), Ref(w))
    BY <2>3 DEF NoSuch
  <2> HIDE DEF j, url
  <2> QED
    BY <1>2, <1>3, <1>5, <2>1, <2>2, <2>4, OtherGoesOn
<1>6. CASE a \notin Errors /\ a # "missing"
  <2> DEFINE j == [next(moved) EXCEPT !.unpopular = few]
  <2>1. Hear(w, "repo", url, a, j)
    BY <1>1, <1>6
  <2>2. /\ IsJob(j) /\ j.step \in {"moved", "return"} /\ j.err = "none"
        /\ j.heard = job[w].heard /\ j.says = job[w].says
    BY <1>2, ToJob, UnpopularJob
  <2> HIDE DEF j, url
  <2> QED
    BY <1>2, <1>3, <1>6, <2>1, <2>2, OtherGoesOn
<1> QED
  BY <1>4, <1>5, <1>6

LEMMA MovedInv == ASSUME WholeInv, NEW w \in Workers, Moved(w) PROVE WholeInv'
<1> DEFINE url == <<"github", <<"holder", Ref(w)>>>>
           what(a, younger) == IF a = "found" /\ younger THEN "replaced" ELSE "moved"
<1>1. PICK a \in Answers(url, Json(url)), younger \in BOOLEAN :
        Hear(w, "moved", url, a,
             IF a \in Errors THEN Fails(w, a)
             ELSE Says(To(w, "return"), what(a, younger)))
  BY DEF Moved, Ask
<1>2. /\ At(w, "moved") /\ IsJob(job[w])
      /\ "missing" \notin job[w].says /\ job[w].err = "none"
  BY OtherStep DEF Moved
<1>3. url[1] \notin {"ecosystems", "counts"}
  OBVIOUS
<1>4. CASE a \in Errors
  <2>1. Hear(w, "moved", url, a, Fails(w, a))
    BY <1>1, <1>4
  <2> HIDE DEF url
  <2> QED
    BY <1>2, <1>3, <1>4, <2>1, OtherFails
<1>5. CASE a \notin Errors
  <2> DEFINE j == Says(To(w, "return"), what(a, younger))
  <2>1. Hear(w, "moved", url, a, j)
    BY <1>1, <1>5
  <2>2. /\ IsJob(j) /\ j.step = "return" /\ j.err = "none" /\ j.heard = job[w].heard
        /\ "missing" \notin j.says
    BY <1>2, ToJob, SaysJob
  <2> HIDE DEF j, url
  <2> QED
    BY <1>2, <1>3, <1>5, <2>1, <2>2, OtherGoesOn
<1> QED
  BY <1>4, <1>5

\* A step of a worker without a request.
LEMMA MovesOn ==
  ASSUME WholeInv, NEW w \in Workers, NEW step \in {"lock", "boot"}, At(w, step),
         NEW next \in {"boot", "rdap", "page"},
         job' = [job EXCEPT ![w] = To(w, next)], UNCHANGED <<kind, kept, vars>>
  PROVE  WholeInv'
<1>1. /\ at[w] # 0 /\ IsJob(job[w]) /\ "missing" \notin job[w].says
      /\ job[w].err = "none" /\ kind[Ref(w)] # "package" /\ JobInv(job[w], Ref(w))
      /\ job[w].step = step
  BY OtherStep
<1>2. /\ IsJob(To(w, next)) /\ To(w, next).step = next /\ To(w, next).says = job[w].says
      /\ To(w, next).err = "none" /\ To(w, next).heard = job[w].heard
      /\ To(w, next).tried = job[w].tried
  BY <1>1, ToJob
<1>3. JobInv(To(w, next), Ref(w))
  BY <1>1, <1>2 DEF JobInv, Sure, OfOther
<1>4. KeptRight'
  BY DEF WholeInv, KeptRight
<1> QED
  BY <1>1, <1>3, <1>4, OthersStay

LEMMA BootInv == ASSUME WholeInv, NEW w \in Workers, Boot(w) PROVE WholeInv'
<1> DEFINE url == <<"iana", "dns">>
           next == IF Ref(w) \in Served THEN "rdap" ELSE "page"
<1>1. /\ At(w, "boot") /\ IsJob(job[w]) /\ job[w].step = "boot" /\ job[w].err = "none"
      /\ "missing" \notin job[w].says /\ JobInv(job[w], Ref(w)) /\ kind[Ref(w)] # "package"
  BY OtherStep DEF Boot
<1>2. Register(w) = To(w, next)
  BY DEF Register
<1>3. CASE Loaded(w)
  BY <1>1, <1>2, <1>3, MovesOn DEF Loaded
<1>4. CASE Load(w)
  <2>1. PICK a \in Answers(url, Json(url)) :
          Hear(w, "boot", url, a,
               IF a = "found" THEN To(w, next)
               ELSE Fails(w, IF a = "missing" THEN "failed" ELSE a))
    BY <1>2, <1>4 DEF Load
  <2>2. url[1] \notin {"ecosystems", "counts"}
    OBVIOUS
  <2>3. a \in {"found", "missing"} \cup Errors
    BY AnswerIs DEF WholeInv, Json, Errors
  <2>4. CASE a = "found"
    <3> DEFINE j == To(w, next)
    <3>1. Hear(w, "boot", url, a, j)
      BY <2>1, <2>4
    <3>2. /\ IsJob(j) /\ j.step \in {"rdap", "page"} /\ j.err = "none"
          /\ j.heard = job[w].heard /\ j.says = job[w].says /\ j.tried = job[w].tried
      BY <1>1, ToJob
    <3>3. j.tried < Len(Candidates[Ref(w)])
      BY <1>1, <3>2 DEF JobInv, OfOther
    <3>4. a \notin Errors
      BY <2>4 DEF Errors
    <3> HIDE DEF j, url
    <3> QED
      BY <1>1, <2>2, <3>1, <3>2, <3>3, <3>4, OtherGoesOn
  <2>5. CASE a # "found"
    <3> DEFINE e == IF a = "missing" THEN "failed" ELSE a
    <3>1. Hear(w, "boot", url, a, Fails(w, e))
      BY <2>1, <2>5
    <3>2. e \in Errors /\ (e = "limited" => a = "limited")
      BY <2>3, <2>5 DEF Errors
    <3> HIDE DEF e, url
    <3> QED
      BY <1>1, <2>2, <3>1, <3>2, OtherFails
  <2> QED
    BY <2>4, <2>5
<1> QED
  BY <1>3, <1>4 DEF Boot

LEMMA RdapInv == ASSUME WholeInv, NEW w \in Workers, Rdap(w) PROVE WholeInv'
<1> DEFINE names == Candidates[Ref(w)]
           n == job[w].tried + 1
           url == <<"rdap", names[n]>>
           there == [To(w, "page") EXCEPT !.name = names[n]]
           longer == [To(w, "rdap") EXCEPT !.tried = n]
           none == Says(To(w, "return"), "missing")
<1>1. PICK a \in Answers(url, Json(url)), young \in BOOLEAN :
        Hear(w, "rdap", url, a,
             IF a \in Errors THEN Fails(w, a)
             ELSE IF a = "found" THEN IF young THEN Says(there, "new") ELSE there
             ELSE IF n < Len(names) THEN longer
             ELSE none)
  BY DEF Rdap, Ask
<1>2. /\ At(w, "rdap") /\ at[w] # 0 /\ IsJob(job[w]) /\ "missing" \notin job[w].says
      /\ job[w].err = "none" /\ JobInv(job[w], Ref(w)) /\ kind[Ref(w)] # "package"
      /\ job[w].step = "rdap"
  BY OtherStep DEF Rdap
<1>3. url[1] \notin {"ecosystems", "counts"}
  OBVIOUS
<1>4. job[w].tried \in Nat /\ job[w].tried < Len(names) /\ Len(names) \in Nat
  <2>1. Ref(w) \in Refs
    BY <1>2, OnReport DEF WholeInv
  <2> QED
    BY <1>2, <2>1, CollectorsAssumption DEF JobInv, OfOther, IsJob
<1>5. a \in {"found", "missing"} \cup Errors
  BY AnswerIs DEF WholeInv, Json, Errors
<1>6. CASE a \in Errors
  <2>1. Hear(w, "rdap", url, a, Fails(w, a))
    BY <1>1, <1>6
  <2> HIDE DEF url
  <2> QED
    BY <1>2, <1>3, <1>6, <2>1, OtherFails
<1>7. CASE a \notin Errors /\ a = "found"
  <2> DEFINE j == IF young THEN Says(there, "new") ELSE there
  <2>1. Hear(w, "rdap", url, a, j)
    BY <1>1, <1>7
  <2>2. /\ IsJob(there) /\ there.step = "page" /\ there.err = "none"
        /\ there.heard = job[w].heard /\ there.says = job[w].says
    <3>1. /\ IsJob(To(w, "page")) /\ To(w, "page").step = "page" /\ To(w, "page").err = "none"
          /\ To(w, "page").heard = job[w].heard /\ To(w, "page").says = job[w].says
      BY <1>2, ToJob
    <3> QED
      BY <3>1 DEF IsJob
  <2> HIDE DEF there
  <2>3. /\ IsJob(j) /\ j.step = "page" /\ j.err = "none" /\ j.heard = job[w].heard
        /\ "missing" \notin j.says
    BY <1>2, <2>2, SaysJob
  <2> HIDE DEF j, url
  <2> QED
    BY <1>2, <1>3, <1>7, <2>1, <2>3, OtherGoesOn
<1>8. CASE a \notin Errors /\ a # "found" /\ n < Len(names)
  <2>1. Hear(w, "rdap", url, a, longer)
    BY <1>1, <1>8
  <2>2. /\ IsJob(To(w, "rdap")) /\ To(w, "rdap").step = "rdap" /\ To(w, "rdap").err = "none"
        /\ To(w, "rdap").heard = job[w].heard /\ To(w, "rdap").says = job[w].says
    BY <1>2, ToJob
  <2>3. /\ IsJob(longer) /\ longer.step = "rdap" /\ longer.err = "none"
        /\ longer.heard = job[w].heard /\ longer.says = job[w].says /\ longer.tried = n
    BY <1>4, <2>2 DEF IsJob
  <2> HIDE DEF longer, url, n
  <2> QED
    BY <1>2, <1>3, <1>8, <2>1, <2>3, OtherGoesOn
<1>9. CASE a \notin Errors /\ a # "found" /\ ~(n < Len(names))
  <2>1. Hear(w, "rdap", url, a, none)
    BY <1>1, <1>9
  <2>2. /\ IsJob(none) /\ none.step = "return" /\ none.err = "none"
        /\ none.heard = job[w].heard /\ none.tried = job[w].tried
    BY <1>2, ToJob, SaysJob
  <2>3. /\ Of(After(none, "rdap", a), "rdap") = "missing"
        /\ After(none, "rdap", a).tried = job[w].tried
    BY <1>5, <1>9, <2>2, HeardJob
  <2>4. NoSuch(After(none, "rdap", a), Ref(w))
    BY <1>4, <1>9, <2>3 DEF NoSuch
  <2> HIDE DEF none, url
  <2> QED
    BY <1>2, <1>3, <1>9, <2>1, <2>2, <2>4, OtherGoesOn
<1> HIDE DEF names, n, url, there, longer, none
<1> QED
  BY <1>6, <1>7, <1>8, <1>9

\* What a chain of redirects ends with is no word about the domain itself.
LEMMA ArrivedJob ==
  ASSUME WholeInv, NEW w \in Workers, At(w, "page"), NEW a, NEW gone, Host(w) \in Refs
  PROVE  LET j == Arrive(w, a, gone)
         IN  /\ IsJob(j) /\ j.step = "return" /\ j.err = "none" /\ j.heard = job[w].heard
             /\ "missing" \notin j.says
<1> DEFINE Fine(j) == /\ IsJob(j) /\ j.step = "return" /\ j.err = "none"
                      /\ j.heard = job[w].heard /\ "missing" \notin j.says
           j == IF gone THEN Says(To(w, "return"), "gone")
                ELSE IF a \in {"missing", "bad"} THEN Says(To(w, "return"), "http-error")
                ELSE To(w, "return")
<1>1. IsJob(job[w]) /\ job[w].err = "none" /\ "missing" \notin job[w].says
  BY OtherStep
<1>2. Fine(To(w, "return"))
  BY <1>1, ToJob
<1>3. ASSUME NEW k, Fine(k), NEW what, what # "missing" PROVE Fine(Says(k, what))
  BY <1>3, SaysJob
<1>4. ASSUME NEW k, Fine(k), NEW host \in Refs \cup {None} PROVE Fine([k EXCEPT !.at = host])
  BY <1>4 DEF IsJob
<1>5. Fine(j)
  BY <1>2, <1>3
<1> HIDE DEF j
<1>6. CASE job[w].name \in Up[Host(w)]
  BY <1>4, <1>5, <1>6 DEF Arrive, j
<1>7. CASE job[w].name \notin Up[Host(w)] /\ "new" \in j.says
  <2>1. Fine(Says(j, "new-redirect"))
    BY <1>3, <1>5
  <2>2. Fine([Says(j, "new-redirect") EXCEPT !.at = Host(w)])
    BY <1>4, <2>1
  <2> QED
    BY <1>7, <2>2 DEF Arrive, j
<1>8. CASE job[w].name \notin Up[Host(w)] /\ "new" \notin j.says
  <2>1. Fine([j EXCEPT !.at = Host(w)])
    BY <1>4, <1>5
  <2> QED
    BY <1>8, <2>1 DEF Arrive, j
<1> QED
  BY <1>6, <1>7, <1>8

LEMMA PageInv == ASSUME WholeInv, NEW w \in Workers, Page(w) PROVE WholeInv'
<1> DEFINE url == <<Host(w), "page">>
           pages == {"found", "missing", "bad", "unreachable", "redirect"}
           away == [Says(To(w, "return"), "unreachable") EXCEPT !.at = None]
           onTo(next) == [To(w, "page") EXCEPT !.at = next, !.hops = @ + 1]
<1>1. PICK a \in Answers(url, pages), next \in RedirectsTo[Host(w)] \cup {None},
            gone \in BOOLEAN :
        Hear(w, "page", url, a,
             IF a \in Errors THEN Fails(w, a)
             ELSE IF a = "unreachable" THEN away
             ELSE IF next # None /\ job[w].hops < MaxRedirects THEN onTo(next)
             ELSE Arrive(w, a, gone))
  BY DEF Page, Ask
<1>2. /\ At(w, "page") /\ at[w] # 0 /\ IsJob(job[w]) /\ "missing" \notin job[w].says
      /\ job[w].err = "none"
  BY OtherStep DEF Page
<1>3. Host(w) \in Refs /\ next \in Refs \cup {None}
  <2>1. Ref(w) \in Refs
    BY <1>2, OnReport DEF WholeInv
  <2>2. Host(w) \in Refs
    BY <1>2, <2>1 DEF Host, IsJob
  <2> QED
    BY <1>1, <2>2, CollectorsAssumption
<1>4. url[1] \notin {"ecosystems", "counts"}
  <2>1. url[1] = Host(w)
    OBVIOUS
  <2> QED
    BY <1>3, <2>1, CollectorsAssumption
<1>5. CASE a \in Errors
  <2>1. Hear(w, "page", url, a, Fails(w, a))
    BY <1>1, <1>5
  <2> HIDE DEF url
  <2> QED
    BY <1>2, <1>4, <1>5, <2>1, OtherFails
<1>6. ASSUME a \notin Errors, NEW j, Hear(w, "page", url, a, j), IsJob(j),
             j.step \in {"page", "return"}, j.err = "none", j.heard = job[w].heard,
             "missing" \notin j.says
      PROVE  WholeInv'
  <2> HIDE DEF url
  <2> QED
    BY <1>2, <1>4, <1>6, OtherGoesOn
<1>7. CASE a \notin Errors /\ a = "unreachable"
  <2>1. /\ IsJob(away) /\ away.step = "return" /\ away.err = "none"
        /\ away.heard = job[w].heard /\ "missing" \notin away.says
    <3> DEFINE j == Says(To(w, "return"), "unreachable")
    <3>1. /\ IsJob(j) /\ j.step = "return" /\ j.err = "none" /\ j.heard = job[w].heard
          /\ "missing" \notin j.says
      BY <1>2, ToJob, SaysJob
    <3> HIDE DEF j
    <3> QED
      BY <3>1 DEF IsJob, j
  <2> HIDE DEF away
  <2> QED
    BY <1>1, <1>6, <1>7, <2>1
<1>8. CASE a \notin Errors /\ a # "unreachable" /\ next # None /\ job[w].hops < MaxRedirects
  <2> DEFINE j == onTo(next)
  <2>1. /\ IsJob(j) /\ j.step = "page" /\ j.err = "none" /\ j.heard = job[w].heard
        /\ "missing" \notin j.says
    <3>1. /\ IsJob(To(w, "page")) /\ To(w, "page").step = "page"
          /\ To(w, "page").err = "none" /\ To(w, "page").heard = job[w].heard
          /\ "missing" \notin To(w, "page").says
      BY <1>2, ToJob
    <3> QED
      BY <1>3, <3>1 DEF IsJob
  <2>2. Hear(w, "page", url, a, j)
    BY <1>1, <1>8
  <2> HIDE DEF j
  <2> QED
    BY <1>6, <1>8, <2>1, <2>2
<1>9. CASE a \notin Errors /\ a # "unreachable" /\ ~(next # None /\ job[w].hops < MaxRedirects)
  <2> DEFINE j == Arrive(w, a, gone)
  <2>1. /\ IsJob(j) /\ j.step = "return" /\ j.err = "none" /\ j.heard = job[w].heard
        /\ "missing" \notin j.says
    BY <1>2, <1>3, ArrivedJob
  <2>2. Hear(w, "page", url, a, j)
    BY <1>1, <1>9
  <2> HIDE DEF j
  <2> QED
    BY <1>6, <1>9, <2>1, <2>2
<1> QED
  BY <1>5, <1>7, <1>8, <1>9

LEMMA RequestInv ==
  ASSUME WholeInv, NEW w \in Workers, Request(w)
  PROVE  WholeInv' /\ UNCHANGED vars
<1>1. UNCHANGED vars
  BY DEF Request, Stats, Registry, Counts, Owner, Repo, Moved, Lock, Boot, Loaded, Load, Rdap,
         Page, Ask, Hear
<1>2. CASE Stats(w) \/ Registry(w) \/ Counts(w)
  BY <1>1, <1>2, StatsInv, RegistryInv, CountsInv
<1>3. CASE Owner(w) \/ Repo(w) \/ Moved(w)
  BY <1>1, <1>3, OwnerInv, RepoInv, MovedInv
<1>4. CASE Lock(w)
  BY <1>4, MovesOn DEF Lock
<1>5. CASE Boot(w) \/ Rdap(w) \/ Page(w)
  BY <1>1, <1>5, BootInv, RdapInv, PageInv
<1> QED
  BY <1>1, <1>2, <1>3, <1>4, <1>5 DEF Request

\* A report is written for the reference it was listed for.
LEMMA Reports ==
  ASSUME NEW i \in DOMAIN reports, NEW status, NEW detail, NEW leads, NEW unpopular,
         Put(i, status, detail, leads, unpopular)
  PROVE  /\ reports'[i].status = status /\ reports'[i].detail = detail
         /\ \A k \in DOMAIN reports : reports'[k].ref = reports[k].ref
BY DEF Put

\* The jobs of the workers a step leaves on their reports.
LEMMA StayOnJob ==
  ASSUME WholeInv, UNCHANGED kind, NEW v \in Workers, at[v] # 0, at'[v] = at[v],
         job'[v] = job[v], \A i \in 1..Len(reports) : reports'[i].ref = reports[i].ref
  PROVE  JobInv(job[v], Ref(v))'
<1>1. Ref(v)' = Ref(v)
  BY OnReport DEF Ref, WholeInv
<1>2. JobInv(job'[v], Ref(v))
  BY DEF WholeInv
<1> QED
  BY <1>1, <1>2 DEF JobInv, Sure, NoSuch, OfPackage, OfOther

LEMMA BeginInv ==
  ASSUME WholeInv, NEW w \in Workers, Begin(w)
  PROVE  WholeInv' /\ Take(w)
<1> DEFINE ref == reports[fed].ref
           new == [Idle EXCEPT !.step = First(ref), !.name = ref]
<1>1. Take(w) /\ UNCHANGED <<kind, kept>> /\ at[w] = 0 /\ Waving /\ Pending
  BY DEF Begin, Take
<1>2. IInv'
  BY <1>1, StepInv DEF WholeInv, Next, Step
<1>3. /\ fed \in 1..Len(reports) /\ DOMAIN reports = 1..Len(reports) /\ ref \in Refs
      /\ fed # 0
  <2>1. fed \in 1..Len(reports) /\ DOMAIN reports = 1..Len(reports) /\ Len(reports) \in Nat
    BY <1>1, PendingMeans DEF WholeInv
  <2>2. reports[fed] \in ReportType
    BY <2>1 DEF WholeInv, IInv, TypeOK
  <2> QED
    BY <2>1, <2>2 DEF ReportType
<1>4. at \in [Workers -> 0..Cardinality(Refs)]
  BY DEF WholeInv, IInv, TypeOK
<1>5. CASE Done
  <2>1. UNCHANGED at /\ Put(fed, "not-checked", "budget", NoRef, FALSE)
    BY <1>1, <1>5 DEF Take
  <2>2. job' = job
    BY <1>1, <2>1 DEF Begin
  <2>3. \A i \in DOMAIN reports : reports'[i].ref = reports[i].ref
    BY <1>3, <2>1, Reports
  <2>4. \A v \in Workers : at'[v] # 0 => JobInv(job[v], Ref(v))'
    BY <1>1, <1>3, <2>1, <2>2, <2>3, StayOnJob
  <2> QED
    BY <1>1, <1>2, <2>2, <2>4 DEF WholeInv, KeptRight
<1>6. CASE ~Done
  <2>1. at' = [at EXCEPT ![w] = fed] /\ UNCHANGED reports
    BY <1>1, <1>6 DEF Take
  <2>2. at'[w] = fed /\ at'[w] # 0 /\ \A v \in Workers \ {w} : at'[v] = at[v]
    BY <1>3, <1>4, <2>1
  <2>3. job' = [job EXCEPT ![w] = new]
    BY <2>2 DEF Begin
  <2>4. DOMAIN job' = Workers /\ job'[w] = new /\ \A v \in Workers \ {w} : job'[v] = job[v]
    BY <2>3 DEF WholeInv
  <2>5. Ref(w)' = ref
    BY <2>1, <2>2 DEF Ref
  <2>6. kind[ref] \in {"package", "repository", "owner", "domain"} /\ 0 < Len(Candidates[ref])
    BY <1>3, CollectorsAssumption DEF WholeInv
  <2>7. /\ IsJob(new) /\ new.step = First(ref) /\ new.says = {} /\ new.err = "none"
        /\ DOMAIN new.heard = {} /\ new.tried = 0
    <3>1. DOMAIN << >> = {}
      OBVIOUS
    <3> QED
      BY <1>3, <3>1 DEF IsJob, Idle
  <2> HIDE DEF new, ref
  <2>8. IF kind[ref] = "package" THEN OfPackage(new, ref) ELSE OfOther(new, ref)
    BY <2>6, <2>7 DEF First, OfPackage, OfOther
  <2>9. JobInv(new, ref)
    BY <2>7, <2>8 DEF JobInv, Sure
  <2>10. JobInv(job[w], Ref(w))'
    BY <1>1, <2>4, <2>5, <2>9 DEF JobInv, Sure, NoSuch, OfPackage, OfOther
  <2>11. \A v \in Workers : at'[v] # 0 => JobInv(job[v], Ref(v))'
    <3> SUFFICES ASSUME NEW v \in Workers \ {w}, at'[v] # 0 PROVE JobInv(job[v], Ref(v))'
      BY <2>10
    <3> QED
      BY <1>1, <2>1, <2>2, <2>4, StayOnJob
  <2> QED
    BY <1>1, <1>2, <2>4, <2>11 DEF WholeInv, KeptRight
<1> QED
  BY <1>1, <1>5, <1>6

\* What a worker reports is what References lets a collector answer.
LEMMA ReturnIs ==
  ASSUME WholeInv, NEW w \in Workers, Return(w)
  PROVE  /\ Collect(w) /\ at[w] # 0 /\ at[w] \in DOMAIN reports
         /\ job[w].step = "return" /\ JobInv(job[w], Ref(w))
         /\ job' = [job EXCEPT ![w] = Idle] /\ at' = [at EXCEPT ![w] = 0]
         /\ UNCHANGED <<kind, kept>>
         /\ reports'[at[w]].status = "checked" => job[w].err = "none"
         /\ reports'[at[w]].detail = "limited" => job[w].err = "limited"
         /\ \A i \in DOMAIN reports : reports'[i].ref = reports[i].ref
<1> DEFINE leads == IF job[w].at \in Refs THEN job[w].at ELSE NoRef
           Untouched ==
             /\ job' = [job EXCEPT ![w] = Idle] /\ at' = [at EXCEPT ![w] = 0]
             /\ UNCHANGED <<tooMany, stage, first, fed, asked, capped, stopped, expired,
                            findings, kind, kept>>
             /\ \A i \in DOMAIN reports : reports'[i].ref = reports[i].ref
<1>1. at[w] # 0 /\ job[w].step = "return" /\ JobInv(job[w], Ref(w))
  BY DEF Return, At, WholeInv
<1>2. at[w] \in DOMAIN reports
  BY <1>1, OnReport DEF WholeInv, IInv, Listing, Waving
<1>3. leads \in Refs \cup {NoRef} /\ job[w].unpopular \in BOOLEAN
  BY <1>1 DEF JobInv, IsJob
<1>4. CASE job[w].err = "none"
  <2>1. Report(w, "checked", "none", leads, job[w].unpopular)
    BY <1>4 DEF Return
  <2> HIDE DEF leads
  <2>2. Put(at[w], "checked", "none", leads, job[w].unpopular)
    BY <2>1 DEF Report
  <2>3. reports'[at[w]].detail # "limited" /\ Untouched
    BY <1>2, <2>1 DEF Report, Put
  <2> QED
    BY <1>1, <1>2, <1>3, <1>4, <2>2, <2>3 DEF Collect
<1>5. CASE job[w].err = "limited"
  <2>1. Report(w, "not-checked", "limited", NoRef, FALSE)
    BY <1>5 DEF Return
  <2>2. Put(at[w], "not-checked", "limited", NoRef, FALSE)
    BY <2>1 DEF Report
  <2>3. reports'[at[w]].status # "checked" /\ Untouched
    BY <1>2, <2>1 DEF Report, Put
  <2> QED
    BY <1>1, <1>2, <1>5, <2>2, <2>3 DEF Collect
<1>6. CASE job[w].err \in {"failed", "garbled"} /\ Done
  <2>1. Report(w, "not-checked", "budget", NoRef, FALSE)
    BY <1>6 DEF Return
  <2>2. Put(at[w], FailedStatus, IF Done THEN "budget" ELSE "error", NoRef, FALSE)
    BY <1>6, <2>1 DEF Report, FailedStatus
  <2>3. reports'[at[w]].status # "checked" /\ reports'[at[w]].detail # "limited" /\ Untouched
    BY <1>2, <2>1 DEF Report, Put
  <2> QED
    BY <1>1, <1>2, <2>2, <2>3 DEF Collect
<1>7. CASE job[w].err \in {"failed", "garbled"} /\ ~Done
  <2>1. Report(w, "failed", "error", NoRef, FALSE)
    BY <1>7 DEF Return
  <2>2. Put(at[w], FailedStatus, IF Done THEN "budget" ELSE "error", NoRef, FALSE)
    BY <1>7, <2>1 DEF Report, FailedStatus
  <2>3. reports'[at[w]].status # "checked" /\ reports'[at[w]].detail # "limited" /\ Untouched
    BY <1>2, <2>1 DEF Report, Put
  <2> QED
    BY <1>1, <1>2, <2>2, <2>3 DEF Collect
<1>8. job[w].err \in {"none", "limited", "failed", "garbled"}
  BY DEF Return
<1> QED
  BY <1>4, <1>5, <1>6, <1>7, <1>8

LEMMA ReturnInv ==
  ASSUME WholeInv, NEW w \in Workers, Return(w)
  PROVE  WholeInv' /\ Collect(w)
<1>1. /\ Collect(w) /\ job' = [job EXCEPT ![w] = Idle] /\ at' = [at EXCEPT ![w] = 0]
      /\ UNCHANGED <<kind, kept>> /\ at[w] # 0
      /\ \A i \in DOMAIN reports : reports'[i].ref = reports[i].ref
  BY ReturnIs
<1>2. IInv'
  BY <1>1, StepInv DEF WholeInv, Next, Step
<1>3. at \in [Workers -> 0..Cardinality(Refs)]
  BY DEF WholeInv, IInv, TypeOK
<1>4. DOMAIN reports = 1..Len(reports)
  BY <1>1, OnReport DEF WholeInv, IInv, Listing, Waving
<1>5. ASSUME NEW v \in Workers, at'[v] # 0 PROVE JobInv(job[v], Ref(v))'
  <2>1. v # w /\ at'[v] = at[v] /\ job'[v] = job[v]
    BY <1>1, <1>3, <1>5 DEF WholeInv
  <2> QED
    BY <1>1, <1>4, <1>5, <2>1, StayOnJob
<1> QED
  BY <1>1, <1>2, <1>5 DEF WholeInv, KeptRight

LEMMA WholeInitInv == WholeInit => WholeInv
<1> SUFFICES ASSUME WholeInit PROVE WholeInv
  OBVIOUS
<1>1. IInv
  BY InitInv DEF WholeInit
<1>2. DOMAIN << >> = {}
  OBVIOUS
<1>3. KeptRight
  BY <1>2 DEF WholeInit, KeptRight
<1>4. \A w \in Workers : at[w] = 0
  BY DEF WholeInit, Init
<1> QED
  BY <1>1, <1>3, <1>4 DEF WholeInit, WholeInv

\* A step of References that no worker takes: the lookups under way go on.
LEMMA LookupsGoOn ==
  ASSUME WholeInv, [Next]_vars, UNCHANGED <<kind, job, at>>, KeptRight',
         (\A w \in Workers : at[w] = 0) \/ UNCHANGED reports
  PROVE  WholeInv'
<1>1. IInv'
  BY StepInv DEF WholeInv
<1>2. ASSUME NEW w \in Workers, at'[w] # 0 PROVE JobInv(job[w], Ref(w))'
  <2>1. at[w] # 0 /\ at'[w] = at[w] /\ job'[w] = job[w] /\ UNCHANGED reports
    BY <1>2
  <2> QED
    BY <2>1, StayOnJob
<1> QED
  BY <1>1, <1>2 DEF WholeInv

LEMMA WholeStepInv ==
  ASSUME WholeInv, [WholeNext]_allVars
  PROVE  WholeInv' /\ [Next]_vars
<1>1. ASSUME UNCHANGED kept PROVE KeptRight'
  BY <1>1 DEF WholeInv, KeptRight
<1>2. ASSUME ~Waving \/ WaveOver, NEW w \in Workers PROVE at[w] = 0
  BY <1>2, OnReport DEF WholeInv, WaveOver
<1>3. CASE (Extract \/ Derive \/ ReportFindings \/ Unpopular) /\ UNCHANGED lookups
  <2>1. Next /\ (~Waving \/ WaveOver) /\ UNCHANGED at
    BY <1>3 DEF Next, Step, Extract, Derive, ReportFindings, Unpopular, Waving
  <2> QED
    BY <1>1, <1>2, <1>3, <2>1, LookupsGoOn DEF lookups
<1>4. CASE Reported /\ Forget
  <2>1. Next /\ WaveOver /\ UNCHANGED <<at, kind, job>> /\ kept' = << >>
    BY <1>4 DEF Next, Step, Reported, Forget
  <2>2. DOMAIN << >> = {}
    OBVIOUS
  <2>3. KeptRight'
    BY <2>1, <2>2 DEF KeptRight
  <2> QED
    BY <1>2, <2>1, <2>3, LookupsGoOn
<1>5. ASSUME NEW w \in Workers, Begin(w) PROVE WholeInv' /\ Next
  BY <1>5, BeginInv DEF Next, Step
<1>6. ASSUME NEW w \in Workers, Request(w) PROVE WholeInv' /\ UNCHANGED vars
  BY <1>6, RequestInv
<1>7. ASSUME NEW w \in Workers, Return(w) PROVE WholeInv' /\ Next
  BY <1>7, ReturnInv DEF Next, Step
<1>8. CASE (Expire \/ Returned) /\ UNCHANGED lookups
  <2>1. Next /\ UNCHANGED <<at, reports>>
    BY <1>8 DEF Next, Expire, Returned, vars
  <2> QED
    BY <1>1, <1>8, <2>1, LookupsGoOn DEF lookups
<1>9. CASE UNCHANGED allVars
  <2>1. UNCHANGED vars /\ UNCHANGED lookups
    BY <1>9 DEF allVars
  <2> QED
    BY <1>1, <2>1, LookupsGoOn DEF vars, lookups
<1> QED
  BY <1>3, <1>4, <1>5, <1>6, <1>7, <1>8, <1>9 DEF WholeNext, WholeStep

\* The invariant of the layer with its collectors: what each lookup has heard and
\* what it says, at every step of its chain.
THEOREM WholeInvariance == WholeSpec => []WholeInv
<1>1. WholeInit => WholeInv
  BY WholeInitInv
<1>2. WholeInv /\ [WholeNext]_allVars => WholeInv'
  BY WholeStepInv
<1> QED
  BY <1>1, <1>2, PTL DEF WholeSpec, allVars

\* Whatever the workers ask and hear in whatever order, under one bootstrap lock,
\* with kept answers and hosts given up, the layer does what References says.
THEOREM CollectorsImplement == WholeSpec => ImplementsReferences
<1>1. WholeInit => Init
  BY DEF WholeInit
<1>2. WholeInv /\ [WholeNext]_allVars => [Next]_vars
  BY WholeStepInv
<1> QED
  BY <1>1, <1>2, WholeInvariance, PTL DEF WholeSpec, allVars, ImplementsReferences

\* ReportIsKnown: a report says that something does not exist only on an answer
\* that says so, is checked only with its questions answered, and is left to a
\* rate limit only if one was met.
THEOREM KnownReported == WholeSpec => ReportIsKnown
<1> DEFINE Known(w) ==
      LET rep == reports'[at[w]]
          j == job[w]
      IN  /\ "missing" \in j.says => AbsenceKnown(w)
          /\ rep.status = "checked" =>
               CASE kind[Ref(w)] = "package" ->
                      AbsenceKnown(w) \/ ( /\ DownloadsKnown(w)
                                           /\ \/ Heard(w, "registry") = "found"
                                              \/ Heard(w, "stats") \in {"counted", "uncounted"})
                 [] OTHER -> \A what \in DOMAIN j.heard : ~Unheard(w, what)
          /\ rep.detail = "limited" =>
               \E what \in DOMAIN j.heard : Heard(w, what) = "limited"
<1>1. ASSUME WholeInv, [WholeNext]_allVars
      PROVE  [\A w \in Workers : (at[w] # 0 /\ at'[w] = 0) => Known(w)]_allVars
  <2> SUFFICES ASSUME WholeNext, NEW w \in Workers, at[w] # 0, at'[w] = 0
               PROVE  Known(w)
    BY <1>1
  <2>0. at \in [Workers -> 0..Cardinality(Refs)]
    BY <1>1 DEF WholeInv, IInv, TypeOK
  <2>1. PICK v \in Workers : Begin(v) \/ Request(v) \/ Return(v)
    BY DEF WholeNext, WholeStep, Extract, Derive, Reported, ReportFindings, Unpopular, Expire,
           Returned, vars
  <2>2. ~Request(v)
    BY <1>1, RequestInv DEF vars
  <2>3. ~Begin(v)
    <3>1. ASSUME Begin(v) PROVE FALSE
      <4>1. Take(v) /\ at[v] = 0 /\ (at' = at \/ at' = [at EXCEPT ![v] = fed])
        BY <3>1 DEF Begin, Take
      <4> QED
        BY <2>0, <4>1
    <3> QED
      BY <3>1
  <2>4. Return(v) /\ v = w
    <3>1. Return(v) /\ at' = [at EXCEPT ![v] = 0]
      BY <1>1, <2>1, <2>2, <2>3, ReturnIs
    <3> QED
      BY <2>0, <3>1
  <2>5. /\ job[w].step = "return" /\ JobInv(job[w], Ref(w))
        /\ reports'[at[w]].status = "checked" => job[w].err = "none"
        /\ reports'[at[w]].detail = "limited" => job[w].err = "limited"
    BY <1>1, <2>4, ReturnIs
  <2>6. /\ \A what : Heard(w, what) = Of(job[w], what)
        /\ AbsenceKnown(w) <=> NoSuch(job[w], Ref(w))
        /\ DownloadsKnown(w) <=> Counted(job[w])
    BY DEF Heard, Of, AbsenceKnown, NoSuch, DownloadsKnown, Counted
  <2>7. "missing" \in job[w].says => AbsenceKnown(w)
    BY <2>5, <2>6 DEF JobInv, Sure
  <2>8. reports'[at[w]].detail = "limited" =>
          \E what \in DOMAIN job[w].heard : Heard(w, what) = "limited"
    BY <2>5 DEF JobInv, Sure, Heard
  <2>9. CASE kind[Ref(w)] = "package"
    <3>1. reports'[at[w]].status = "checked" =>
            AbsenceKnown(w) \/ (DownloadsKnown(w) /\ IsThere(job[w]))
      BY <2>5, <2>6, <2>9 DEF JobInv, OfPackage
    <3> QED
      BY <2>6, <2>7, <2>8, <2>9, <3>1 DEF IsThere
  <2>10. CASE kind[Ref(w)] # "package"
    <3>1. reports'[at[w]].status = "checked" =>
            \A what \in DOMAIN job[w].heard : ~Unheard(w, what)
      BY <2>5, <2>10 DEF JobInv, OfOther, Unheard, Heard
    <3> QED
      BY <2>7, <2>8, <2>10, <3>1
  <2> QED
    BY <2>9, <2>10
<1> QED
  BY <1>1, WholeInvariance, PTL DEF WholeSpec, allVars, ReportIsKnown
=============================================================================
