----------------------------- MODULE ScanProofs -----------------------------
(***************************************************************************)
(* Proofs about Scan, for any number of skills, findings and layers.       *)
(***************************************************************************)
EXTENDS Scan, SequenceTheorems, TLAPS

\* What either judging function may answer about a finding of severity `from`:
\* nothing, or a state with a severity no higher, lower only when downgraded.
\* (layers/decision/engine.go judge, layers/judge/tools.go resolve).
Allowed(v, from, p) ==
  /\ v.state \in States
  /\ v.state # "none" => v.severity \in Severities /\ v.severity <= from
  /\ v.state = "downgraded" =>
       p.downgrade /\ v.severity < from /\ v.severity >= p.floor
  /\ v.state \in {"confirmed", "upheld", "dismissed"} => v.severity = from
  /\ v.state = "dismissed" => p.downgrade

\* The model judge never raises a finding, never lowers one whose rule may not
\* be lowered, never goes below the floor, and dismisses only without a floor
\* (layers/judge/tools.go resolve, dismissal, lowest).
THEOREM ResolveAllowed ==
  ASSUME NEW from \in Severities, NEW p \in Policy, NEW want \in Wants
  PROVE  LET v == Resolve(from, p, want) IN
         /\ Allowed(v, from, p)
         /\ v.state # "none"
         /\ v.state = "dismissed" => p.floor = NoFloor
<1> DEFINE low == Lowest(from, p)
<1>1. p.downgrade \in BOOLEAN /\ p.floor \in Floors
  BY DEF Policy
<1>2. /\ low \in Severities
      /\ ~p.downgrade => low = from
      /\ p.downgrade => low >= p.floor
  BY <1>1 DEF Lowest, Severities, Floors, NoFloor, Low
<1>3. CASE want = Dismiss
  BY <1>1, <1>2, <1>3
  DEF Resolve, Dismissal, Judged, Allowed, States, JudgedStates, Severities,
      Floors, NoFloor
<1>4. CASE want # Dismiss
  <2>1. want \in Severities
    BY <1>4 DEF Wants
  <2> QED
    BY <1>1, <1>2, <1>4, <2>1
    DEF Resolve, Judged, Allowed, States, JudgedStates, Severities, Floors,
        NoFloor
<1> QED
  BY <1>3, <1>4

\* The decision engine's judge keeps within the same bounds, given that a table
\* of a rule without Downgrade only keeps or confirms; a misfire is the one
\* dismissal that does not look at the floor (layers/decision/engine.go judge).
THEOREM EngineAllowed ==
  ASSUME NEW from \in Severities, NEW p \in Policy,
         NEW s \in Severities,
         NEW r \in {"kept", "confirmed", "misfired", "lowered", "dismissed"},
         r \in {"misfired", "lowered", "dismissed"} => p.downgrade
  PROVE  LET v == EngineJudge([result |-> r, severity |-> s], from, p.floor) IN
         /\ Allowed(v, from, p)
         /\ (v.state = "dismissed" /\ r # "misfired") => p.floor = NoFloor
<1>1. p.floor \in Floors /\ p.downgrade \in BOOLEAN
  BY DEF Policy
<1>2. /\ Higher(s, p.floor) \in Severities
      /\ Higher(s, p.floor) >= p.floor
  BY <1>1 DEF Higher, Severities, Floors, NoFloor
<1> USE DEF EngineJudge, Judged, NoVerdict, LowerTo, Allowed, States,
            JudgedStates, Severities, Floors, NoFloor
<1>3. CASE r = "kept"
  BY <1>3
<1>4. CASE r = "confirmed"
  BY <1>4
<1>5. CASE r = "misfired"
  BY <1>5
<1>6. CASE r = "lowered"
  BY <1>1, <1>2, <1>6
<1>7. CASE r = "dismissed"
  BY <1>1, <1>7
<1> QED
  BY <1>3, <1>4, <1>5, <1>6, <1>7
-----------------------------------------------------------------------------
LEMMA VerdictType ==
  ASSUME NEW F, NEW A, NEW R, NEW L, NEW g
  PROVE  Compute(F, A, R, L, g) \in Verdicts
BY DEF Compute, Verdicts

LEMMA JudgeType ==
  ASSUME TypeOK, NEW f \in Findings, Judge(f)
  PROVE  /\ sev' \in [Findings -> Severities]
         /\ state' \in [Findings -> States]
         /\ \A g \in Findings \ {f} : sev'[g] = sev[g] /\ state'[g] = state[g]
         /\ state'[f] = "none" => sev'[f] = sev[f]
         /\ state'[f] # "none" =>
              Allowed([severity |-> sev'[f], state |-> state'[f]], sev[f], PolicyOf[f])
<1> USE ScanAssumption
<1>1. PICK o \in Results(PolicyOf[f]) :
        ApplyVerdict(f, EngineJudge(o, sev[f], PolicyOf[f].floor))
  BY DEF Judge
<1>2. PICK r \in {"kept", "confirmed"} \cup
               (IF PolicyOf[f].downgrade THEN {"misfired", "lowered", "dismissed"} ELSE {}),
           s \in Severities : o = [result |-> r, severity |-> s]
  BY DEF Results
<1>3. /\ sev[f] \in Severities /\ PolicyOf[f] \in Policy
      /\ r \in {"kept", "confirmed", "misfired", "lowered", "dismissed"}
      /\ r \in {"misfired", "lowered", "dismissed"} => PolicyOf[f].downgrade
  BY <1>2 DEF TypeOK
<1> DEFINE v == EngineJudge([result |-> r, severity |-> s], sev[f], PolicyOf[f].floor)
<1>4. Allowed(v, sev[f], PolicyOf[f])
  BY <1>3, EngineAllowed
<1>5. /\ state' = [state EXCEPT ![f] = v.state]
      /\ sev' = [sev EXCEPT ![f] = IF v.state = "none" THEN sev[f] ELSE v.severity]
  BY <1>1, <1>2 DEF ApplyVerdict
<1> HIDE DEF v
<1> QED
  BY <1>3, <1>4, <1>5 DEF Allowed, TypeOK

LEMMA RecordType ==
  ASSUME TypeOK, NEW fs \in SUBSET Findings, Record(fs)
  PROVE  recorded' \subseteq Findings /\ interrupt' \in Findings \cup {None}
BY ScanAssumption DEF Record, TypeOK

LEMMA LayerCount ==
  /\ Targets \in Nat \ {0}
  /\ Len(LayerSeq) \in Nat \ {0}
  /\ \A i \in Layers : LayerSeq[i] \in LayerNames
<1>1. LayerSeq \in Seq(LayerNames) /\ Len(LayerSeq) >= 1
  BY ScanAssumption
<1>2. Len(LayerSeq) \in Nat /\ \A i \in 1..Len(LayerSeq) : LayerSeq[i] \in LayerNames
  BY <1>1, LenProperties, ElementOfSeq
<1> QED
  BY <1>1, <1>2, ScanAssumption DEF Layers

LEMMA StatusAppended ==
  ASSUME TypeOK, NEW st \in Statuses, statuses' = Append(statuses, st)
  PROVE  /\ statuses' \in Seq(Statuses)
         /\ Len(statuses') = Len(statuses) + 1
         /\ \A i \in 1..Len(statuses) : statuses'[i] = statuses[i]
         /\ statuses'[Len(statuses) + 1] = st
BY AppendProperties DEF TypeOK

\* Where the pipeline is: one status per layer that had its turn, and a layer
\* only runs when all before it ran to their end.
Placed ==
  /\ Len(statuses) = idx - 1
  /\ phase # "idle" =>
       /\ idx \in Layers
       /\ target <= Targets
       /\ \A i \in DOMAIN statuses : statuses[i] \in {"done", "failed"}
  /\ phase = "findings" => LayerSeq[idx] \in {"decision", "late"}

\* A layer that is still running after an interrupt recorded the finding
\* itself; the judge never does, and the decision layer then holds only the
\* answers usages() got.
Stopping ==
  (interrupt # None /\ phase # "idle") =>
    /\ LayerOf[interrupt] = LayerSeq[idx]
    /\ LayerSeq[idx] # "judge"
    /\ phase = "findings" => answered \subseteq Asked

\* Only a recorded finding is judged.
OnlyRecordedJudged == \A f \in Findings \ recorded : state[f] = "none"

IInv == /\ TypeOK /\ Placed /\ Stopping /\ OnlyRecordedJudged
        /\ PolicyHeld /\ InterruptStands /\ StatusShape

\* A step of the running layer that records findings of its own.
LEMMA RecordStep ==
  ASSUME IInv, NEW fs \in SUBSET (Findings \ recorded), Record(fs),
         phase # "idle", LayerSeq[idx] # "judge",
         \A f \in fs : LayerOf[f] = LayerSeq[idx],
         sev' = sev, state' = state
  PROVE  /\ recorded' \subseteq Findings /\ interrupt' \in Findings \cup {None}
         /\ interrupt # None => interrupt' = interrupt
         /\ InterruptStands' /\ OnlyRecordedJudged' /\ PolicyHeld'
         /\ interrupt' # None => /\ LayerOf[interrupt'] = LayerSeq[idx]
                                 /\ interrupt' # interrupt => interrupt' \in fs
<1>1. recorded' = recorded \cup fs
  BY DEF Record
<1>2. \/ interrupt' = interrupt
      \/ interrupt = None /\ interrupt' \in fs \cap Interrupting
  BY DEF Record
<1>3. PolicyHeld'
  BY DEF IInv, PolicyHeld
<1>4. OnlyRecordedJudged'
  BY <1>1 DEF IInv, OnlyRecordedJudged
<1>5. \A f \in fs : state[f] = "none" /\ sev[f] = SeverityOf[f]
  BY DEF IInv, OnlyRecordedJudged, PolicyHeld
<1>6. InterruptStands'
  BY <1>1, <1>2, <1>5 DEF IInv, InterruptStands
<1>7. recorded \subseteq Findings /\ interrupt \in Findings \cup {None}
  BY DEF IInv, TypeOK
<1>8. None \notin Findings
  BY ScanAssumption
<1> QED
  BY <1>1, <1>2, <1>3, <1>4, <1>6, <1>7, <1>8 DEF IInv, Stopping

\* The end of a layer: its status, by what the interrupt is by then.
LEMMA ReturnStep ==
  ASSUME IInv, phase # "idle", NEW err \in BOOLEAN,
         interrupt # None => interrupt' = interrupt,
         ctx' = ctx,
         ReturnAfter(err)
  PROVE  /\ statuses' \in Seq(Statuses) /\ idx' \in 1..(Len(LayerSeq) + 1)
         /\ phase' = "idle" /\ failing' = FALSE /\ answered' = {}
         /\ Placed' /\ StatusShape' /\ Stopping'
<1> DEFINE st == IF interrupt' # None THEN "interrupted"
                 ELSE IF err THEN "failed" ELSE "done"
<1>1. st \in Statuses /\ statuses' = Append(statuses, st)
  BY DEF ReturnAfter, Statuses
<1>2. st = "interrupted" => interrupt' # None
  OBVIOUS
<1>3. st \in {"done", "failed", "interrupted"}
  OBVIOUS
<1> HIDE DEF st
<1>4. /\ statuses' \in Seq(Statuses)
      /\ Len(statuses') = Len(statuses) + 1
      /\ \A i \in 1..Len(statuses) : statuses'[i] = statuses[i]
      /\ statuses'[Len(statuses) + 1] = st
  BY <1>1, StatusAppended DEF IInv
<1>5. /\ idx' = idx + 1 /\ phase' = "idle" /\ failing' = FALSE /\ answered' = {}
  BY DEF ReturnAfter
<1>6. /\ idx \in Layers /\ Len(statuses) = idx - 1
      /\ \A i \in DOMAIN statuses : statuses[i] \in {"done", "failed"}
  BY DEF IInv, Placed
<1>7. DOMAIN statuses = 1..Len(statuses) /\ DOMAIN statuses' = 1..Len(statuses')
  BY <1>4 DEF IInv, TypeOK
<1>8. idx \in Nat /\ Len(LayerSeq) \in Nat /\ idx' \in 1..(Len(LayerSeq) + 1)
  BY <1>5, <1>6, LayerCount DEF Layers
<1>9. Placed'
  BY <1>4, <1>5, <1>6, <1>8 DEF Placed
<1>10. StatusShape'
  <2> SUFFICES ASSUME NEW i \in DOMAIN statuses',
                      statuses'[i] \in {"interrupted", "skipped"}
               PROVE  /\ LayerDone'
                      /\ \A j \in i+1 .. Len(statuses') : statuses'[j] = "skipped"
    BY DEF StatusShape
  <2>1. i = Len(statuses')
    BY <1>3, <1>4, <1>6, <1>7, <1>8
  <2>2. st = "interrupted"
    BY <2>1, <1>3, <1>4, <1>6, <1>8
  <2> QED
    BY <2>1, <2>2, <1>2, <1>4, <1>6, <1>8 DEF LayerDone
<1> QED
  BY <1>4, <1>5, <1>8, <1>9, <1>10 DEF Stopping

LEMMA ReturnUnchanged ==
  ASSUME NEW err \in BOOLEAN, Return(err), interrupt' = interrupt
  PROVE  ReturnAfter(err)
BY DEF Return, ReturnAfter, Status

LEMMA InitInv == Init => IInv
<1> SUFFICES ASSUME Init PROVE IInv
  OBVIOUS
<1> USE DEF Init, FreshSkill
<1>1. TypeOK
  <2>1. target \in 1..(Targets + 1) /\ idx \in 1..(Len(LayerSeq) + 1)
    BY LayerCount
  <2>2. sev \in [Findings -> Severities] /\ state \in [Findings -> States]
    BY ScanAssumption DEF States
  <2>3. statuses \in Seq(Statuses) /\ results \in Seq(Verdicts)
    BY EmptySeq
  <2> QED
    BY <2>1, <2>2, <2>3 DEF TypeOK, Phases
<1>2. Placed /\ Stopping /\ InterruptStands /\ StatusShape /\ OnlyRecordedJudged
  BY DEF Placed, Stopping, InterruptStands, StatusShape, OnlyRecordedJudged
<1>3. PolicyHeld
  BY ScanAssumption DEF PolicyHeld, Severities
<1> QED
  BY <1>1, <1>2, <1>3 DEF IInv

LEMMA SkipInv == IInv /\ Skip => IInv'
<1> SUFFICES ASSUME IInv, Skip PROVE IInv'
  OBVIOUS
<1>1. /\ statuses' = Append(statuses, "skipped") /\ "skipped" \in Statuses
      /\ phase = "idle" /\ idx \in Layers /\ LayerDone
      /\ idx' = idx + 1
  BY DEF Skip, Statuses
<1>2. UNCHANGED <<target, phase, failing, recorded, sev, state, decided, answered,
                  interrupt, artifacts, reports, ctx, results, outcome>>
  BY DEF Skip
<1>3. /\ statuses' \in Seq(Statuses)
      /\ Len(statuses') = Len(statuses) + 1
      /\ \A i \in 1..Len(statuses) : statuses'[i] = statuses[i]
      /\ statuses'[Len(statuses) + 1] = "skipped"
  BY <1>1, StatusAppended DEF IInv
<1>4. DOMAIN statuses = 1..Len(statuses) /\ DOMAIN statuses' = 1..Len(statuses')
  BY <1>3 DEF IInv, TypeOK
<1>5. idx' \in 1..(Len(LayerSeq) + 1) /\ idx \in Nat /\ Len(statuses) = idx - 1
  BY <1>1, LayerCount DEF Layers, IInv, Placed
<1>6. TypeOK'
  BY <1>2, <1>3, <1>5 DEF IInv, TypeOK
<1>7. Placed' /\ Stopping' /\ OnlyRecordedJudged' /\ PolicyHeld' /\ InterruptStands'
  BY <1>1, <1>2, <1>3, <1>5
  DEF IInv, Placed, Stopping, OnlyRecordedJudged, PolicyHeld, InterruptStands
<1>8. StatusShape'
  BY <1>1, <1>2, <1>3, <1>4, <1>5 DEF IInv, StatusShape, LayerDone
<1> QED
  BY <1>6, <1>7, <1>8 DEF IInv

LEMMA StartInv == IInv /\ Start => IInv'
<1> SUFFICES ASSUME IInv, Start PROVE IInv'
  OBVIOUS
<1>1. /\ phase = "idle" /\ idx \in Layers /\ ~LayerDone /\ target <= Targets
      /\ phase' = FirstPhase(LayerSeq[idx])
      /\ UNCHANGED <<target, idx, failing, recorded, sev, state, decided, answered,
                  interrupt, statuses, artifacts, reports, ctx, results, outcome>>
  BY DEF Start, Scanning
<1>2. /\ phase' \in Phases \ {"idle"}
      /\ phase' = "findings" => LayerSeq[idx] \in {"decision", "late"}
  BY <1>1 DEF FirstPhase, Phases
<1>3. \A i \in DOMAIN statuses : statuses[i] \in {"done", "failed"}
  BY <1>1, ElementOfSeq DEF IInv, StatusShape, TypeOK, Statuses
<1>4. TypeOK'
  BY <1>1, <1>2 DEF IInv, TypeOK
<1>5. interrupt' = None
  BY <1>1 DEF LayerDone
<1>6. Placed' /\ Stopping' /\ OnlyRecordedJudged' /\ PolicyHeld' /\ InterruptStands'
  BY <1>1, <1>2, <1>3, <1>5
  DEF IInv, Placed, Stopping, OnlyRecordedJudged, PolicyHeld, InterruptStands
<1>7. StatusShape'
  BY <1>1 DEF IInv, StatusShape, LayerDone
<1> QED
  BY <1>4, <1>6, <1>7 DEF IInv

\* A layer returns and leaves everything but its status, artifacts and reports.
LEMMA PlainReturnInv ==
  ASSUME IInv, phase # "idle", NEW err \in BOOLEAN, Return(err),
         UNCHANGED <<target, recorded, sev, state, decided, interrupt, artifacts,
                     reports, ctx, results, outcome>>
  PROVE  IInv'
<1>1. ReturnAfter(err)
  BY ReturnUnchanged
<1>2. /\ statuses' \in Seq(Statuses) /\ idx' \in 1..(Len(LayerSeq) + 1)
      /\ phase' = "idle" /\ failing' = FALSE /\ answered' = {}
      /\ Placed' /\ StatusShape' /\ Stopping'
  BY <1>1, ReturnStep
<1>3. TypeOK'
  BY <1>2 DEF IInv, TypeOK, Phases
<1>4. OnlyRecordedJudged' /\ PolicyHeld' /\ InterruptStands'
  BY DEF IInv, OnlyRecordedJudged, PolicyHeld, InterruptStands
<1> QED
  BY <1>2, <1>3, <1>4 DEF IInv

LEMMA RunningLayer ==
  ASSUME NEW l, Running(l)
  PROVE  phase # "idle" /\ LayerSeq[idx] = l
BY DEF Running

LEMMA PlainReturnsInv ==
  IInv /\ (WalkReturn \/ TextReturn \/ AstReturn \/ ReferencesReturn \/ DecisionReturn)
  => IInv'
<1>1. ASSUME IInv, WalkReturn PROVE IInv'
  BY <1>1, PlainReturnInv, RunningLayer DEF WalkReturn
<1>2. ASSUME IInv, TextReturn PROVE IInv'
  BY <1>2, PlainReturnInv, RunningLayer DEF TextReturn
<1>3. ASSUME IInv, AstReturn PROVE IInv'
  BY <1>3, PlainReturnInv, RunningLayer DEF AstReturn
<1>4. ASSUME IInv, ReferencesReturn PROVE IInv'
  <2>1. LayerDone \in BOOLEAN
    BY DEF LayerDone
  <2> QED
    BY <1>4, <2>1, PlainReturnInv, RunningLayer DEF ReferencesReturn
<1>5. ASSUME IInv, DecisionReturn PROVE IInv'
  <2>1. failing \in BOOLEAN
    BY <1>5 DEF IInv, TypeOK
  <2> QED
    BY <1>5, <2>1, PlainReturnInv, RunningLayer DEF DecisionReturn
<1> QED
  BY <1>1, <1>2, <1>3, <1>4, <1>5

\* A running layer records findings and runs on.
LEMMA PlainRecordInv ==
  ASSUME IInv, NEW l, Running(l), l \notin {"judge", "decision", "late"},
         NEW fs \in SUBSET (Findings \ recorded), Record(fs),
         \A f \in fs : LayerOf[f] = l,
         artifacts' \subseteq ArtifactStatuses,
         UNCHANGED <<target, idx, phase, failing, sev, state, decided, answered,
                     statuses, reports, ctx, results, outcome>>
  PROVE  IInv'
<1>1. phase # "idle" /\ LayerSeq[idx] = l
  BY RunningLayer
<1>2. /\ recorded' \subseteq Findings /\ interrupt' \in Findings \cup {None}
      /\ interrupt # None => interrupt' = interrupt
      /\ InterruptStands' /\ OnlyRecordedJudged' /\ PolicyHeld'
      /\ interrupt' # None => LayerOf[interrupt'] = LayerSeq[idx]
  BY <1>1, RecordStep
<1>3. TypeOK'
  BY <1>2 DEF IInv, TypeOK
<1>4. Placed' /\ Stopping'
  BY <1>1, <1>2 DEF IInv, Placed, Stopping
<1>5. StatusShape'
  BY <1>1, <1>2 DEF IInv, Placed, StatusShape
<1> QED
  BY <1>2, <1>3, <1>4, <1>5 DEF IInv

LEMMA PlainRecordsInv ==
  IInv /\ (WalkEntry \/ TextFindings \/ Capped \/ ReportFinding) => IInv'
<1>1. ASSUME IInv, WalkEntry PROVE IInv'
  <2>1. PICK fs \in Batches("walk") :
          /\ Record(fs)
          /\ \/ \E a \in ArtifactStatuses : artifacts' = artifacts \cup {a}
             \/ interrupt' # None /\ artifacts' = artifacts
    BY <1>1 DEF WalkEntry
  <2>2. artifacts' \subseteq ArtifactStatuses
    BY <1>1, <2>1 DEF IInv, TypeOK
  <2> QED
    BY <1>1, <2>1, <2>2, PlainRecordInv DEF WalkEntry, Batches
<1>2. ASSUME IInv, TextFindings PROVE IInv'
  <2>1. PICK l \in {"reveal", "static"} :
          Running(l) /\ \E fs \in Batches(l) : Record(fs)
    BY <1>2 DEF TextFindings
  <2>2. artifacts' \subseteq ArtifactStatuses
    BY <1>2 DEF TextFindings, IInv, TypeOK
  <2> QED
    BY <1>2, <2>1, <2>2, PlainRecordInv DEF TextFindings, Batches
<1>3. ASSUME IInv, Capped PROVE IInv'
  <2>1. PICK f \in TooMany \ recorded : Record({f})
    BY <1>3 DEF Capped
  <2>2. {f} \in SUBSET (Findings \ recorded) /\ LayerOf[f] = "references"
    BY <2>1, ScanAssumption
  <2>3. artifacts' \subseteq ArtifactStatuses
    BY <1>3 DEF Capped, IInv, TypeOK
  <2> QED
    BY <1>3, <2>1, <2>2, <2>3, PlainRecordInv DEF Capped
<1>4. ASSUME IInv, ReportFinding PROVE IInv'
  <2>1. PICK f \in {g \in Findings \ (recorded \cup TooMany) : LayerOf[g] = "references"} :
          Record({f})
    BY <1>4 DEF ReportFinding
  <2>2. {f} \in SUBSET (Findings \ recorded) /\ LayerOf[f] = "references"
    BY <2>1
  <2>3. artifacts' \subseteq ArtifactStatuses
    BY <1>4 DEF ReportFinding, IInv, TypeOK
  <2> QED
    BY <1>4, <2>1, <2>2, <2>3, PlainRecordInv DEF ReportFinding
<1> QED
  BY <1>1, <1>2, <1>3, <1>4

LEMMA CollectedInv == IInv /\ Collected => IInv'
<1> SUFFICES ASSUME IInv, Collected PROVE IInv'
  OBVIOUS
<1>1. /\ phase # "idle" /\ phase' = "collected"
      /\ UNCHANGED <<target, idx, failing, recorded, sev, state, decided, answered,
                     interrupt, statuses, artifacts, ctx, results, outcome>>
  BY RunningLayer DEF Collected
<1>2. reports' \subseteq ReportStatuses
  BY DEF Collected
<1>3. TypeOK'
  BY <1>1, <1>2 DEF IInv, TypeOK, Phases
<1> QED
  BY <1>1, <1>3
  DEF IInv, Placed, Stopping, OnlyRecordedJudged, PolicyHeld, InterruptStands,
      StatusShape, LayerDone

LEMMA UsagesInv == IInv /\ Usages => IInv'
<1> SUFFICES ASSUME IInv, Usages PROVE IInv'
  OBVIOUS
<1>1. /\ phase # "idle" /\ LayerSeq[idx] = "decision" /\ phase' = "findings"
      /\ UNCHANGED <<target, idx, sev, state, decided, statuses, artifacts,
                     reports, ctx, results, outcome>>
  BY RunningLayer DEF Usages
<1>2. PICK fs \in Batches("decision") : Record(fs)
  BY DEF Usages
<1>3. /\ fs \in SUBSET (Findings \ recorded)
      /\ \A f \in fs : LayerOf[f] = LayerSeq[idx]
  BY <1>1, <1>2 DEF Batches
<1>4. /\ recorded' \subseteq Findings /\ interrupt' \in Findings \cup {None}
      /\ InterruptStands' /\ OnlyRecordedJudged' /\ PolicyHeld'
      /\ interrupt' # None => LayerOf[interrupt'] = LayerSeq[idx]
  BY <1>1, <1>2, <1>3, RecordStep
<1>5. answered' \subseteq Asked /\ answered' \subseteq recorded /\ failing' \in BOOLEAN
  BY DEF Usages
<1>6. TypeOK'
  BY <1>1, <1>4, <1>5 DEF IInv, TypeOK, Phases
<1>7. Placed' /\ Stopping'
  BY <1>1, <1>4, <1>5 DEF IInv, Placed, Stopping
<1>8. StatusShape'
  BY <1>1 DEF IInv, Placed, StatusShape
<1> QED
  BY <1>4, <1>6, <1>7, <1>8 DEF IInv

\* A finding may go from unjudged to any verdict its rule allows.
LEMMA VerdictHeld ==
  ASSUME IInv, NEW f \in recorded, state[f] = "none",
         f # interrupt,
         sev' \in [Findings -> Severities], state' \in [Findings -> States],
         \A g \in Findings \ {f} : sev'[g] = sev[g] /\ state'[g] = state[g],
         state'[f] = "none" => sev'[f] = sev[f],
         state'[f] # "none" =>
           Allowed([severity |-> sev'[f], state |-> state'[f]], sev[f], PolicyOf[f]),
         UNCHANGED <<recorded, interrupt>>
  PROVE  PolicyHeld' /\ OnlyRecordedJudged' /\ InterruptStands'
<1>1. f \in Findings /\ sev[f] = SeverityOf[f]
  BY DEF IInv, TypeOK, PolicyHeld
<1>2. SeverityOf[f] \in Severities /\ PolicyOf[f] \in Policy
  BY <1>1, ScanAssumption
<1>3. sev'[f] \in Severities /\ state'[f] \in States
  BY <1>1
<1>4. /\ sev'[f] <= SeverityOf[f]
      /\ ~PolicyOf[f].downgrade =>
           sev'[f] = SeverityOf[f] /\ state'[f] \notin {"downgraded", "dismissed"}
      /\ state'[f] = "downgraded" =>
           sev'[f] < SeverityOf[f] /\ sev'[f] >= PolicyOf[f].floor
      /\ state'[f] # "downgraded" => sev'[f] = SeverityOf[f]
  BY <1>1, <1>2, <1>3 DEF Allowed, States, JudgedStates, Severities, Policy
<1>5. PolicyHeld'
  BY <1>1, <1>4 DEF IInv, PolicyHeld
<1>6. OnlyRecordedJudged'
  BY DEF IInv, OnlyRecordedJudged
<1>7. InterruptStands'
  BY ScanAssumption DEF IInv, InterruptStands
<1> QED
  BY <1>5, <1>6, <1>7

LEMMA DecideInv == IInv /\ DecideFinding => IInv'
<1> SUFFICES ASSUME IInv, DecideFinding PROVE IInv'
  OBVIOUS
<1>1. /\ phase = "findings"
      /\ UNCHANGED <<target, idx, phase, recorded, interrupt, statuses, artifacts,
                     reports, ctx, results, outcome>>
  BY DEF DecideFinding
<1>2. PICK f \in Undecided :
        /\ decided' = decided \cup {f}
        /\ \/ /\ ~LayerDone
              /\ answered' = answered \cup (GroupOf[f] \cap Undecided)
              /\ Judge(f) /\ UNCHANGED failing
           \/ f \in answered /\ Judge(f) /\ UNCHANGED <<failing, answered>>
           \/ /\ failing' \in {failing, TRUE}
              /\ ApplyVerdict(f, NoVerdict) /\ UNCHANGED answered
  BY DEF DecideFinding
<1>3. f \in recorded /\ f \in Findings /\ state[f] = "none"
  BY DEF Undecided, IInv, TypeOK
<1>4. CASE ApplyVerdict(f, NoVerdict) /\ failing' \in {failing, TRUE} /\ UNCHANGED answered
  <2>1. state' = state /\ sev' = sev
    BY <1>3, <1>4 DEF ApplyVerdict, NoVerdict, IInv, TypeOK
  <2>2. TypeOK'
    BY <1>1, <1>2, <1>3, <1>4, <2>1 DEF IInv, TypeOK
  <2> QED
    BY <1>1, <1>4, <2>1, <2>2
    DEF IInv, Placed, Stopping, OnlyRecordedJudged, PolicyHeld, InterruptStands,
        StatusShape, LayerDone
<1>5. CASE /\ Judge(f) /\ UNCHANGED failing
           /\ \/ ~LayerDone /\ answered' = answered \cup (GroupOf[f] \cap Undecided)
              \/ f \in answered /\ UNCHANGED answered
  <2>1. /\ sev' \in [Findings -> Severities] /\ state' \in [Findings -> States]
        /\ \A g \in Findings \ {f} : sev'[g] = sev[g] /\ state'[g] = state[g]
        /\ state'[f] = "none" => sev'[f] = sev[f]
        /\ state'[f] # "none" =>
             Allowed([severity |-> sev'[f], state |-> state'[f]], sev[f], PolicyOf[f])
    BY <1>3, <1>5, JudgeType DEF IInv
  <2>2. f # interrupt
    <3>1. SUFFICES ASSUME f = interrupt PROVE FALSE
      OBVIOUS
    <3>2. interrupt # None
      BY <1>3, <3>1, ScanAssumption
    <3>3. f \in answered /\ answered \subseteq Asked
      BY <1>1, <1>5, <3>2 DEF LayerDone, IInv, Stopping
    <3>4. LayerOf[f] = "references" /\ LayerOf[f] = LayerSeq[idx]
      BY <1>1, <3>1, <3>2, <3>3, AskedAssumption DEF IInv, Stopping
    <3> QED
      BY <1>1, <3>4 DEF IInv, Placed
  <2>3. PolicyHeld' /\ OnlyRecordedJudged' /\ InterruptStands'
    BY <1>1, <1>3, <2>1, <2>2, VerdictHeld
  <2>4. answered' \subseteq Findings
    BY <1>5 DEF Undecided, IInv, TypeOK
  <2>5. TypeOK'
    BY <1>1, <1>2, <1>3, <1>5, <2>1, <2>4 DEF IInv, TypeOK
  <2>6. Placed' /\ StatusShape'
    BY <1>1 DEF IInv, Placed, StatusShape, LayerDone
  <2>7. Stopping'
    BY <1>1, <1>5 DEF IInv, Stopping, LayerDone
  <2> QED
    BY <2>3, <2>5, <2>6, <2>7 DEF IInv
<1> QED
  BY <1>2, <1>4, <1>5

LEMMA AgentReturnInv == IInv /\ AgentReturn => IInv'
<1> SUFFICES ASSUME IInv, AgentReturn PROVE IInv'
  OBVIOUS
<1>1. UNCHANGED <<target, sev, state, decided, artifacts, reports, ctx, results,
                  outcome>>
  BY DEF AgentReturn
<1>2. PICK l \in {"honeypot", "discovery"} :
        Running(l) /\ \E fs \in Batches(l) : Record(fs)
  BY DEF AgentReturn
<1>3. PICK fs \in Batches(l) : Record(fs)
  BY <1>2
<1>4. PICK err \in BOOLEAN : ReturnAfter(err)
  BY DEF AgentReturn
<1>5. phase # "idle" /\ LayerSeq[idx] = l /\ LayerSeq[idx] # "judge"
  BY <1>2, RunningLayer
<1>6. fs \in SUBSET (Findings \ recorded) /\ \A f \in fs : LayerOf[f] = LayerSeq[idx]
  BY <1>5 DEF Batches
<1>7. /\ recorded' \subseteq Findings /\ interrupt' \in Findings \cup {None}
      /\ interrupt # None => interrupt' = interrupt
      /\ InterruptStands' /\ OnlyRecordedJudged' /\ PolicyHeld'
  BY <1>1, <1>3, <1>5, <1>6, RecordStep
<1>8. /\ statuses' \in Seq(Statuses) /\ idx' \in 1..(Len(LayerSeq) + 1)
      /\ phase' = "idle" /\ failing' = FALSE /\ answered' = {}
      /\ Placed' /\ StatusShape' /\ Stopping'
  BY <1>1, <1>4, <1>5, <1>7, ReturnStep
<1>9. TypeOK'
  BY <1>1, <1>7, <1>8 DEF IInv, TypeOK, Phases
<1> QED
  BY <1>7, <1>8, <1>9 DEF IInv

LEMMA JudgeReturnInv == IInv /\ JudgeReturn => IInv'
<1> SUFFICES ASSUME IInv, JudgeReturn PROVE IInv'
  OBVIOUS
<1>1. /\ phase # "idle" /\ LayerSeq[idx] = "judge"
      /\ UNCHANGED <<target, recorded, decided, interrupt, artifacts, reports, ctx,
                     results, outcome>>
  BY RunningLayer DEF JudgeReturn
<1>2. PICK err \in BOOLEAN : Return(err)
  BY DEF JudgeReturn
<1>3. interrupt = None
  BY <1>1 DEF IInv, Stopping
<1>4. PICK done \in SUBSET Pending : \E want \in [done -> Wants] :
        /\ state' = [f \in Findings |-> IF f \in done
             THEN Resolve(sev[f], PolicyOf[f], want[f]).state ELSE state[f]]
        /\ sev' = [f \in Findings |-> IF f \in done
             THEN Resolve(sev[f], PolicyOf[f], want[f]).severity ELSE sev[f]]
  BY DEF JudgeReturn
<1>5. PICK want \in [done -> Wants] :
        /\ state' = [f \in Findings |-> IF f \in done
             THEN Resolve(sev[f], PolicyOf[f], want[f]).state ELSE state[f]]
        /\ sev' = [f \in Findings |-> IF f \in done
             THEN Resolve(sev[f], PolicyOf[f], want[f]).severity ELSE sev[f]]
  BY <1>4
<1>6. \A f \in done : /\ f \in recorded /\ f \in Findings /\ state[f] = "none"
                      /\ sev[f] = SeverityOf[f] /\ sev[f] \in Severities
                      /\ PolicyOf[f] \in Policy /\ want[f] \in Wants
  BY ScanAssumption DEF Pending, IInv, TypeOK, PolicyHeld
<1>7. \A f \in done :
        /\ Allowed(Resolve(sev[f], PolicyOf[f], want[f]), SeverityOf[f], PolicyOf[f])
        /\ Resolve(sev[f], PolicyOf[f], want[f]).state # "none"
  BY <1>6, ResolveAllowed
<1>8. /\ sev' \in [Findings -> Severities] /\ state' \in [Findings -> States]
      /\ \A f \in done : Allowed([severity |-> sev'[f], state |-> state'[f]],
                                 SeverityOf[f], PolicyOf[f])
      /\ \A f \in Findings \ done : sev'[f] = sev[f] /\ state'[f] = state[f]
  BY <1>5, <1>6, <1>7 DEF Allowed, IInv, TypeOK
<1>9. PolicyHeld'
  <2> SUFFICES ASSUME NEW f \in Findings
      PROVE  /\ sev'[f] <= SeverityOf[f]
             /\ ~PolicyOf[f].downgrade =>
                  sev'[f] = SeverityOf[f] /\ state'[f] \notin {"downgraded", "dismissed"}
             /\ state'[f] = "downgraded" =>
                  sev'[f] < SeverityOf[f] /\ sev'[f] >= PolicyOf[f].floor
             /\ state'[f] # "downgraded" => sev'[f] = SeverityOf[f]
    BY DEF PolicyHeld
  <2>1. CASE f \notin done
    BY <1>8, <2>1 DEF IInv, PolicyHeld
  <2>2. CASE f \in done
    <3>1. Allowed([severity |-> sev'[f], state |-> state'[f]], SeverityOf[f], PolicyOf[f])
      BY <1>8, <2>2
    <3>2. state'[f] # "none" /\ SeverityOf[f] \in Severities /\ sev'[f] \in Severities
      BY <1>5, <1>7, <1>8, <2>2, ScanAssumption
    <3> QED
      BY <3>1, <3>2 DEF Allowed, States, JudgedStates, Severities
  <2> QED
    BY <2>1, <2>2
<1>10. OnlyRecordedJudged' /\ InterruptStands'
  BY <1>1, <1>3, <1>6, <1>8
  DEF IInv, TypeOK, OnlyRecordedJudged, InterruptStands
<1>11. ReturnAfter(err)
  BY <1>1, <1>2, ReturnUnchanged
<1>12. /\ statuses' \in Seq(Statuses) /\ idx' \in 1..(Len(LayerSeq) + 1)
       /\ phase' = "idle" /\ failing' = FALSE /\ answered' = {}
       /\ Placed' /\ StatusShape' /\ Stopping'
  BY <1>1, <1>11, ReturnStep
<1>13. TypeOK'
  BY <1>1, <1>8, <1>12 DEF IInv, TypeOK, Phases
<1> QED
  BY <1>9, <1>10, <1>12, <1>13 DEF IInv

LEMMA RunInv ==
  IInv /\ (Publish \/ Stop \/ ResolveFails \/ Cancel \/ UNCHANGED vars) => IInv'
<1>1. ASSUME IInv, Publish PROVE IInv'
  <2>1. NextSkill /\ target' = target + 1 /\ target \in 1..Targets
    BY <1>1 DEF Publish, Finished, Scanning, IInv, TypeOK
  <2>2. /\ sev' \in [Findings -> Severities] /\ state' \in [Findings -> States]
        /\ statuses' \in Seq(Statuses) /\ idx' \in 1..(Len(LayerSeq) + 1)
    BY <2>1, ScanAssumption, LayerCount, EmptySeq DEF NextSkill, States
  <2>3. results' \in Seq(Verdicts)
    BY <1>1, VerdictType, AppendProperties DEF Publish, Verdict, IInv, TypeOK
  <2>4. TypeOK'
    <3>1. outcome' \in {"running", "done", "stopped", "error"} /\ ctx' \in {"live", "cancelled"}
      BY <1>1 DEF Publish, IInv, TypeOK
    <3>2. target' \in 1..(Targets + 1)
      BY <2>1, ScanAssumption
    <3>3. /\ phase' \in Phases /\ failing' \in BOOLEAN
          /\ recorded' \subseteq Findings /\ decided' \subseteq Findings
          /\ answered' \subseteq Findings /\ interrupt' \in Findings \cup {None}
          /\ artifacts' \subseteq ArtifactStatuses /\ reports' \subseteq ReportStatuses
      BY <2>1 DEF NextSkill, Phases
    <3> QED
      BY <2>2, <2>3, <3>1, <3>2, <3>3 DEF TypeOK
  <2>5. /\ Placed' /\ Stopping' /\ OnlyRecordedJudged' /\ InterruptStands'
        /\ StatusShape'
    BY <2>1 DEF NextSkill, Placed, Stopping, OnlyRecordedJudged, InterruptStands,
                StatusShape
  <2>6. PolicyHeld'
    BY <2>1, ScanAssumption DEF NextSkill, PolicyHeld, Severities
  <2> QED
    BY <2>4, <2>5, <2>6 DEF IInv
<1>2. ASSUME IInv, Stop \/ ResolveFails \/ Cancel \/ UNCHANGED vars PROVE IInv'
  <2>1. UNCHANGED <<target, skill, results>> /\ (ctx = "cancelled" => ctx' = ctx)
    BY <1>2 DEF Stop, ResolveFails, Cancel, vars
  <2>2. ctx' \in {"live", "cancelled"} /\ outcome' \in {"running", "done", "stopped", "error"}
    BY <1>2 DEF Stop, ResolveFails, Cancel, vars, IInv, TypeOK
  <2>3. TypeOK'
    BY <1>2, <2>1, <2>2 DEF IInv, TypeOK, skill
  <2> QED
    BY <1>2, <2>1, <2>3
    DEF IInv, skill, Placed, Stopping, OnlyRecordedJudged, PolicyHeld,
        InterruptStands, StatusShape, LayerDone
<1> QED
  BY <1>1, <1>2

THEOREM Invariance == Spec => []IInv
<1>1. IInv /\ [Next]_vars => IInv'
  BY SkipInv, StartInv, PlainReturnsInv, PlainRecordsInv, CollectedInv, UsagesInv,
     DecideInv, AgentReturnInv, JudgeReturnInv, RunInv
  DEF Next, Progress, LayerProgress, LayerStep, Returned
<1> QED
  BY InitInv, <1>1, PTL DEF Spec

-----------------------------------------------------------------------------
\* Every step keeps the variables in their sets, whatever the layers and rules.
THEOREM TypeCorrect == Spec => []TypeOK
BY Invariance, PTL DEF IInv

\* The interrupting finding is never judged by a layer that still runs: walk,
\* static and the rest record before any judging layer has started, and what the
\* decision layer judges on its way out after its own interrupt is only findings
\* of the references layer (AskedAssumption).
THEOREM InterruptNotJudged == Spec => []InterruptStands
BY Invariance, PTL DEF IInv

\* The statuses of State.Layers have one shape: the layers that ran, at most one
\* interrupted, then only skipped ones.
THEOREM StatusesOrdered == Spec => []StatusShape
BY Invariance, PTL DEF IInv

\* Decision, late decision and judge together keep to every rule's policy.
THEOREM PolicyNeverBroken == Spec => []PolicyHeld
BY Invariance, PTL DEF IInv

\* No judging layer changes the judgement of an earlier one (decision.go's and
\* judge.go's tests of Finding.Judgement).
THEOREM JudgementsFinal == Spec => JudgedOnce
<1>1. IInv /\ [Next]_vars =>
        [target' = target =>
           \A f \in Findings :
             state[f] # "none" => state'[f] = state[f] /\ sev'[f] = sev[f]]_vars
  <2> SUFFICES ASSUME IInv, Next, target' = target, NEW f \in Findings, state[f] # "none"
      PROVE  state'[f] = state[f] /\ sev'[f] = sev[f]
    OBVIOUS
  <2>1. CASE DecideFinding
    <3>1. PICK g \in Undecided :
            Judge(g) \/ ApplyVerdict(g, NoVerdict)
      BY <2>1 DEF DecideFinding
    <3>2. g # f /\ g \in Findings
      BY <3>1 DEF Undecided, IInv, TypeOK
    <3>3. CASE Judge(g)
      BY <3>2, <3>3, JudgeType DEF IInv
    <3>4. CASE ApplyVerdict(g, NoVerdict)
      BY <3>2, <3>4 DEF ApplyVerdict, IInv, TypeOK
    <3> QED
      BY <3>1, <3>3, <3>4
  <2>2. CASE JudgeReturn
    <3>1. PICK done \in SUBSET Pending : \E want \in [done -> Wants] :
            /\ state' = [h \in Findings |-> IF h \in done
                 THEN Resolve(sev[h], PolicyOf[h], want[h]).state ELSE state[h]]
            /\ sev' = [h \in Findings |-> IF h \in done
                 THEN Resolve(sev[h], PolicyOf[h], want[h]).severity ELSE sev[h]]
      BY <2>2 DEF JudgeReturn
    <3>2. f \notin done
      BY <3>1 DEF Pending
    <3> QED
      BY <3>1, <3>2
  <2>3. CASE Publish
    BY <2>3 DEF Publish, IInv, TypeOK
  <2>4. CASE Skip \/ Start \/ Stop \/ ResolveFails \/ Cancel \/ Returned
    BY <2>4 DEF Skip, Start, Stop, ResolveFails, Cancel, Returned, skill, vars
  <2>5. CASE \/ WalkEntry \/ TextFindings \/ Capped \/ ReportFinding \/ WalkReturn
             \/ TextReturn \/ AstReturn \/ Collected \/ ReferencesReturn \/ Usages
             \/ DecisionReturn \/ AgentReturn
    BY <2>5 DEF WalkEntry, TextFindings, Capped, ReportFinding, WalkReturn, TextReturn,
                AstReturn, Collected, ReferencesReturn, Usages, DecisionReturn, AgentReturn
  <2> QED
    BY <2>1, <2>2, <2>3, <2>4, <2>5 DEF Next, Progress, LayerProgress, LayerStep
<1> QED
  BY Invariance, <1>1, PTL DEF Spec, JudgedOnce

\* Once the interrupted layer is back, the rest of the skill's scan changes
\* nothing but the list of statuses (pipeline.Run's test before each layer).
THEOREM StopsAtInterrupt == Spec => NothingAfterInterrupt
<1>1. IInv /\ [Next]_vars =>
        [(interrupt # None /\ phase = "idle" /\ target' = target) =>
           UNCHANGED <<phase, recorded, sev, state, decided, interrupt, artifacts,
                       reports>>]_vars
  <2> SUFFICES ASSUME IInv, Next, interrupt # None, phase = "idle", target' = target
      PROVE  UNCHANGED <<phase, recorded, sev, state, decided, interrupt, artifacts,
                         reports>>
    OBVIOUS
  <2>1. ~LayerStep /\ ~LayerProgress
    BY DEF LayerStep, LayerProgress, WalkEntry, TextFindings, Capped, ReportFinding,
           WalkReturn, TextReturn, AstReturn, Collected, ReferencesReturn, Usages,
           DecideFinding, DecisionReturn, AgentReturn, JudgeReturn, Running
  <2>2. ~Start /\ ~Publish
    BY DEF Start, LayerDone, Publish, IInv, TypeOK
  <2>3. Skip \/ Stop \/ ResolveFails \/ Cancel \/ Returned
    BY <2>1, <2>2 DEF Next, Progress
  <2> QED
    BY <2>3 DEF Skip, Stop, ResolveFails, Cancel, Returned, skill, vars
<1> QED
  BY Invariance, <1>1, PTL DEF Spec, NothingAfterInterrupt

\* A clean verdict is never published for a skill that was not wholly inspected.
\* An interrupt leaves a live finding, so the verdict is not clean; a cancelled
\* scan is not published; without either no layer was skipped or interrupted,
\* and Complete rules out the failures.
THEOREM CleanIsFull == Spec => []CleanMeansFullScan
<1>1. IInv => CleanMeansFullScan
  <2> SUFFICES ASSUME IInv, Finished, ctx = "live", Verdict = "clean"
      PROVE  /\ \A i \in Layers : statuses[i] = "done"
             /\ artifacts \subseteq {"ok"}
             /\ reports \subseteq {"checked"}
    BY DEF CleanMeansFullScan
  <2> DEFINE live == {r \in Recorded : Live(r)}
  <2>1. live = {} /\ Complete(artifacts, reports, LayerReports)
    <3> HIDE DEF live
    <3>1. Compute(Recorded, artifacts, reports, LayerReports, Gate) = "clean"
      BY DEF Verdict
    <3> USE DEF live
    <3> QED
      BY <3>1 DEF Compute
  <2>2. interrupt = None
    <3>1. SUFFICES ASSUME interrupt # None PROVE FALSE
      OBVIOUS
    <3>2. interrupt \in recorded /\ state[interrupt] = "none"
      BY <3>1 DEF IInv, InterruptStands
    <3>3. [sev |-> sev[interrupt], state |-> state[interrupt]] \in Recorded
      BY <3>2 DEF Recorded
    <3>4. Live([sev |-> sev[interrupt], state |-> state[interrupt]])
      BY <3>2 DEF Live
    <3> QED
      BY <2>1, <3>3, <3>4
  <2>3. \A i \in DOMAIN statuses : statuses[i] \in {"done", "failed"}
    <3>1. \A i \in DOMAIN statuses : statuses[i] \notin {"interrupted", "skipped"}
      BY <2>2 DEF IInv, StatusShape, LayerDone
    <3>2. \A i \in DOMAIN statuses : statuses[i] \in Statuses
      BY ElementOfSeq, LenProperties DEF IInv, TypeOK
    <3> QED
      BY <3>1, <3>2 DEF Statuses
  <2>4. DOMAIN statuses = Layers
    <3>1. Len(statuses) = Len(LayerSeq)
      BY LayerCount DEF Finished, IInv, Placed
    <3> QED
      BY <3>1, LenProperties DEF Layers, IInv, TypeOK
  <2>5. \A i \in DOMAIN statuses : statuses[i] # "failed"
    <3> TAKE i \in DOMAIN statuses
    <3>1. [status |-> statuses[i], errors |-> 0] \in LayerReports
      BY DEF LayerReports
    <3> QED
      BY <2>1, <3>1 DEF Complete, LayerInspected
  <2>6. artifacts \subseteq {"ok"} /\ reports \subseteq {"checked"}
    BY <2>1 DEF Complete, ArtifactInspected, IInv, TypeOK, ArtifactStatuses
  <2> QED
    BY <2>3, <2>4, <2>5, <2>6
<1> QED
  BY Invariance, <1>1, PTL
=============================================================================
