-------------------------------- MODULE Scan --------------------------------
(***************************************************************************)
(* A scan of several skills: scan.Run over the targets (scan/scan.go), the *)
(* pipeline that runs one skill's layers in order and stops them at an     *)
(* interrupt (pipeline/pipeline.go), and what each layer does to the state *)
(* the layers share: the findings, the artifacts, the reference reports.   *)
(*                                                                         *)
(* The data is abstract.  A member of Findings is a finding some layer may *)
(* record for a skill; the constants say which layer records it, with      *)
(* which severity, and what its rule allows.  An artifact or a report is   *)
(* the status the verdict reads, so the sets below lose only multiplicity. *)
(***************************************************************************)
EXTENDS Verdicts, FiniteSets

CONSTANTS
  Targets,      \* how many skills the run scans
  LayerSeq,     \* the enabled layers, in the order of runner.layers()
  Findings,     \* the findings a skill may get
  LayerOf,      \* the layer that records the finding
  SeverityOf,   \* the severity it is recorded with
  PolicyOf,     \* its rule's Judge policy
  Interrupting, \* the findings whose rule has Interrupt
  Deciding,     \* those whose rule has a Decision table
  Asked,        \* those of Deciding whose questions usages() asks
  GroupOf,      \* the findings asked about in one request with this one
  TooMany,      \* the REFERENCES-TOO-MANY finding, as a set
  Judgeable,    \* those whose rule belongs to the discovery layer
  Gate,         \* cfg.Gate.Severity
  None          \* no interrupt: the empty rule name

LayerNames == {"walk", "reveal", "ast", "static", "references", "decision",
               "honeypot", "discovery", "late", "judge"}
Layers == 1..Len(LayerSeq)

ASSUME ScanAssumption ==
  /\ Targets \in Nat \ {0}
  /\ LayerSeq \in Seq(LayerNames) /\ Len(LayerSeq) >= 1
  /\ LayerSeq[1] = "walk"
  /\ LayerOf \in [Findings -> LayerNames]
  /\ SeverityOf \in [Findings -> Severities]
  /\ PolicyOf \in [Findings -> Policy]
  /\ Interrupting \subseteq Findings
  /\ Deciding \subseteq Findings
  /\ Asked \subseteq Deciding
  /\ GroupOf \in [Findings -> SUBSET Findings]
  /\ TooMany \subseteq {f \in Findings : LayerOf[f] = "references"}
  /\ Judgeable \subseteq Findings
  /\ Gate \in Severities
  /\ None \notin Findings

\* usages() asks about the findings of the references layer, never about one it
\* raises itself: of the rules it raises only TOOL-SERVER-UNTRUSTED is a rule of
\* that layer, and it has no Decision table.
ASSUME AskedAssumption ==
  \A f \in Asked : LayerOf[f] = "references"

VARIABLES
  target,     \* the skill being scanned, 1..Targets; Targets + 1 at the end
  idx,        \* the layer to run, or running; Len(LayerSeq) + 1 at the end
  phase,      \* "idle" between layers, else how far the running layer is
  failing,    \* decision's r.err # nil
  recorded,   \* State.Findings, as a set
  sev,        \* Finding.Severity
  state,      \* Finding.Judgement.State, "none" for nil
  decided,    \* the findings whose Decision is not nil
  answered,   \* the findings the running decision layer has the answers for
  interrupt,  \* the finding whose rule is State.Interrupt, or None
  statuses,   \* State.Layers: the status of each layer that has had its turn
  artifacts,  \* the read statuses of Skill.Artifacts
  reports,    \* the statuses of State.Refs
  ctx,        \* the caller's context
  results,    \* the verdicts of the finished skills
  outcome     \* what scan.Run returned

skill == <<idx, phase, failing, recorded, sev, state, decided, answered,
           interrupt, statuses, artifacts, reports>>
vars == <<target, skill, ctx, results, outcome>>

Statuses == {"done", "failed", "interrupted", "skipped"}
ArtifactStatuses == {"ok", "unknown", "failed"}
ReportStatuses == {"checked", "not-checked", "failed"}
Phases == {"idle", "running", "collected", "usages", "findings"}

-----------------------------------------------------------------------------
\* A new pipeline.State, before its first layer.
FreshSkill ==
  /\ idx = 1 /\ phase = "idle" /\ failing = FALSE
  /\ recorded = {} /\ decided = {} /\ answered = {}
  /\ sev = SeverityOf
  /\ state = [f \in Findings |-> "none"]
  /\ interrupt = None
  /\ statuses = << >>
  /\ artifacts = {} /\ reports = {}

Init ==
  /\ target = 1 /\ FreshSkill
  /\ ctx = "live"
  /\ results = << >>
  /\ outcome = "running"

-----------------------------------------------------------------------------
(* The pipeline. *)

Scanning == outcome = "running" /\ target <= Targets
Running(l) == Scanning /\ phase # "idle" /\ LayerSeq[idx] = l

\* A defect the checks must notice: Record notes the interrupt and stops nobody.
LayerDoneByCaller == ctx = "cancelled"

\* The running layer's context: cancelled with the caller's, or by stop().
LayerDone == ctx = "cancelled" \/ interrupt # None

\* State.Record of a batch: the first finding with an Interrupt stops the
\* layer; which of the batch comes first is left open.
Record(fs) ==
  /\ recorded' = recorded \cup fs
  /\ IF interrupt # None \/ fs \cap Interrupting = {}
       THEN interrupt' = interrupt
       ELSE interrupt' \in fs \cap Interrupting

\* The batches layer l may record: findings of its rules, each once.
Batches(l) == SUBSET {f \in Findings \ recorded : LayerOf[f] = l}

Status(err) ==
  IF interrupt # None THEN "interrupted" ELSE IF err THEN "failed" ELSE "done"

\* pipeline.Run's turn of a layer that may not run any more.
Skip ==
  /\ Scanning /\ phase = "idle" /\ idx \in Layers
  /\ LayerDone
  /\ statuses' = Append(statuses, "skipped")
  /\ idx' = idx + 1
  /\ UNCHANGED <<target, phase, failing, recorded, sev, state, decided, answered,
                 interrupt, artifacts, reports, ctx, results, outcome>>

FirstPhase(l) == IF l = "decision" THEN "usages"
                 ELSE IF l = "late" THEN "findings" ELSE "running"

\* A defect: the loop does not look at the interrupt before it runs a layer.
StartAnyway ==
  /\ Scanning /\ phase = "idle" /\ idx \in Layers
  /\ phase' = FirstPhase(LayerSeq[idx])
  /\ UNCHANGED <<target, idx, failing, recorded, sev, state, decided, answered,
                 interrupt, statuses, artifacts, reports, ctx, results, outcome>>

Start ==
  /\ Scanning /\ phase = "idle" /\ idx \in Layers
  /\ ~LayerDone
  /\ phase' = FirstPhase(LayerSeq[idx])
  /\ UNCHANGED <<target, idx, failing, recorded, sev, state, decided, answered,
                 interrupt, statuses, artifacts, reports, ctx, results, outcome>>

\* The layer returns and run() turns what it returned into its status.
Return(err) ==
  /\ statuses' = Append(statuses, Status(err))
  /\ idx' = idx + 1
  /\ phase' = "idle"
  /\ failing' = FALSE /\ answered' = {}

\* The same for a layer that records, or judges, on its way out: the status is
\* computed from what it leaves behind.
ReturnAfter(err) ==
  /\ statuses' = Append(statuses, IF interrupt' # None THEN "interrupted"
                                  ELSE IF err THEN "failed" ELSE "done")
  /\ idx' = idx + 1
  /\ phase' = "idle"
  /\ failing' = FALSE /\ answered' = {}

-----------------------------------------------------------------------------
(* The layers. *)

\* walk: one entry of the skill directory.  An interrupt recorded while the
\* entry is counted or measured may leave it without an artifact.
WalkEntry ==
  /\ Running("walk") /\ ~LayerDone
  /\ \E fs \in Batches("walk") :
       /\ Record(fs)
       /\ \/ \E a \in ArtifactStatuses : artifacts' = artifacts \cup {a}
          \/ interrupt' # None /\ artifacts' = artifacts
  /\ UNCHANGED <<target, idx, phase, failing, sev, state, decided, answered, statuses,
                 reports, ctx, results, outcome>>

\* walk ends: all entries done, the context done, or the root unreadable.
WalkReturn ==
  /\ Running("walk")
  /\ \E err \in BOOLEAN :
       /\ LayerDone => err
       /\ (~LayerDone /\ err) => artifacts = {}
       /\ Return(err)
  /\ UNCHANGED <<target, recorded, sev, state, decided, interrupt, artifacts,
                 reports, ctx, results, outcome>>

\* reveal and static: the findings of one rule, or one artifact.  The context
\* is read once per artifact, so records may follow the interrupt.
TextFindings ==
  /\ \E l \in {"reveal", "static"} :
       Running(l) /\ \E fs \in Batches(l) : fs # {} /\ Record(fs)
  /\ UNCHANGED <<target, idx, phase, failing, sev, state, decided, answered, statuses,
                 artifacts, reports, ctx, results, outcome>>

TextReturn ==
  /\ Running("reveal") \/ Running("static")
  /\ \E err \in BOOLEAN : (err => LayerDone) /\ Return(err)
  /\ UNCHANGED <<target, recorded, sev, state, decided, interrupt, artifacts,
                 reports, ctx, results, outcome>>

\* ast: parses, and fails when the parser runtime does.
AstReturn ==
  /\ Running("ast")
  /\ \E err \in BOOLEAN : Return(err)
  /\ UNCHANGED <<target, recorded, sev, state, decided, interrupt, artifacts,
                 reports, ctx, results, outcome>>

\* references: REFERENCES-TOO-MANY, recorded from inside the collection.
Capped ==
  /\ Running("references") /\ phase = "running"
  /\ \E f \in TooMany \ recorded : Record({f})
  /\ UNCHANGED <<target, idx, phase, failing, sev, state, decided, answered, statuses,
                 artifacts, reports, ctx, results, outcome>>

\* references: the reports are in; an interrupt so far drops the unchecked.
Collected ==
  /\ Running("references") /\ phase = "running"
  /\ \E rs \in SUBSET ReportStatuses :
       reports' = IF interrupt # None THEN rs \cap {"checked"} ELSE rs
  /\ phase' = "collected"
  /\ UNCHANGED <<target, idx, failing, recorded, sev, state, decided, answered,
                 interrupt, statuses, artifacts, ctx, results, outcome>>

\* references: the findings of the reports, one Record each.
ReportFinding ==
  /\ Running("references") /\ phase = "collected" /\ reports # {}
  /\ \E f \in {g \in Findings \ (recorded \cup TooMany) : LayerOf[g] = "references"} :
       Record({f})
  /\ UNCHANGED <<target, idx, phase, failing, sev, state, decided, answered, statuses,
                 artifacts, reports, ctx, results, outcome>>

ReferencesReturn ==
  /\ Running("references") /\ phase = "collected"
  /\ Return(LayerDone)
  /\ UNCHANGED <<target, recorded, sev, state, decided, interrupt, artifacts,
                 reports, ctx, results, outcome>>

\* decision: usages() asks about the references, which also answers for their
\* findings, then records what it raises.  A request fails when the service
\* does or the context is done, and no later one is sent.
Usages ==
  /\ Running("decision") /\ phase = "usages"
  /\ \E fs \in Batches("decision") : Record(fs)
  /\ answered' \in SUBSET (recorded \cap Asked)
  /\ failing' \in BOOLEAN
  /\ phase' = "findings"
  /\ UNCHANGED <<target, idx, sev, state, decided, statuses, artifacts,
                 reports, ctx, results, outcome>>

\* What decide() may answer about a finding; without Downgrade it lowers nothing.
Results(p) ==
  {[result |-> r, severity |-> s] :
     r \in {"kept", "confirmed"} \cup
           (IF p.downgrade THEN {"misfired", "lowered", "dismissed"} ELSE {}),
     s \in Severities}

ApplyVerdict(f, v) ==
  /\ state' = [state EXCEPT ![f] = v.state]
  /\ sev' = [sev EXCEPT ![f] = IF v.state = "none" THEN @ ELSE v.severity]

Undecided == {f \in recorded \cap Deciding : state[f] = "none" /\ f \notin decided}

\* The verdict the answers give about f.
Judge(f) ==
  \E o \in Results(PolicyOf[f]) :
    ApplyVerdict(f, EngineJudge(o, sev[f], PolicyOf[f].floor))

\* decision: one finding is asked about and judged.
DecideFinding ==
  /\ Running("decision") \/ Running("late")
  /\ phase = "findings"
  /\ \E f \in Undecided :
       /\ decided' = decided \cup {f}
       /\ \/ \* the request is sent and answered, for its whole group
             /\ f \notin answered /\ f \notin Asked
             /\ ~failing /\ ~LayerDone
             /\ answered' = answered \cup (GroupOf[f] \cap Undecided)
             /\ Judge(f) /\ UNCHANGED failing
          \/ \* the answers came with an earlier request
             /\ f \in answered
             /\ Judge(f) /\ UNCHANGED <<failing, answered>>
          \/ \* the request fails, or is not sent, and every answer is skipped
             /\ f \notin answered
             /\ failing' \in {failing, TRUE}
             /\ ApplyVerdict(f, NoVerdict) /\ UNCHANGED answered
  /\ UNCHANGED <<target, idx, phase, recorded, interrupt, statuses, artifacts,
                 reports, ctx, results, outcome>>

DecisionReturn ==
  /\ Running("decision") \/ Running("late")
  /\ phase = "findings" /\ Undecided = {}
  /\ Return(failing)
  /\ UNCHANGED <<target, recorded, sev, state, decided, interrupt, artifacts,
                 reports, ctx, results, outcome>>

\* honeypot and discovery: the agent session, then what it leaves on record,
\* whether or not the session failed.
AgentReturn ==
  /\ \E l \in {"honeypot", "discovery"} :
       /\ Running(l)
       /\ \E fs \in Batches(l) : Record(fs)
  /\ \E err \in BOOLEAN : ReturnAfter(err)
  /\ UNCHANGED <<target, sev, state, decided, artifacts, reports, ctx, results,
                 outcome>>

\* A defect: the judge is given what the decision layer judged, too.
PendingAll == recorded \cap Judgeable

Pending == {f \in recorded \cap Judgeable : state[f] = "none"}

\* judge: the confident verdicts on record are applied together at the end,
\* whether or not the session failed.
JudgeReturn ==
  /\ Running("judge")
  /\ \E done \in SUBSET Pending : \E want \in [done -> Wants] :
       LET v == [f \in done |-> Resolve(sev[f], PolicyOf[f], want[f])]
       IN  /\ state' = [f \in Findings |-> IF f \in done THEN v[f].state ELSE state[f]]
           /\ sev' = [f \in Findings |-> IF f \in done THEN v[f].severity ELSE sev[f]]
  /\ \E err \in BOOLEAN : (err => Pending # {}) /\ Return(err)
  /\ UNCHANGED <<target, recorded, decided, interrupt, artifacts, reports, ctx,
                 results, outcome>>

-----------------------------------------------------------------------------
(* scan.run: the loop over the targets. *)

Recorded == {[sev |-> sev[f], state |-> state[f]] : f \in recorded}
LayerReports == {[status |-> statuses[i], errors |-> 0] : i \in DOMAIN statuses}

Verdict == Compute(Recorded, artifacts, reports, LayerReports, Gate)

Finished == Scanning /\ phase = "idle" /\ idx = Len(LayerSeq) + 1

\* The next target: a new State.
NextSkill ==
  /\ idx' = 1 /\ phase' = "idle" /\ failing' = FALSE
  /\ recorded' = {} /\ decided' = {} /\ answered' = {}
  /\ sev' = SeverityOf
  /\ state' = [f \in Findings |-> "none"]
  /\ interrupt' = None
  /\ statuses' = << >>
  /\ artifacts' = {} /\ reports' = {}

\* The skill's result is kept and given to Each, which may refuse it.
Publish ==
  /\ Finished /\ ctx = "live"
  /\ results' = Append(results, Verdict)
  /\ target' = target + 1
  /\ NextSkill
  /\ \/ outcome' = IF target = Targets THEN "done" ELSE "running"
     \/ outcome' = "error"
  /\ UNCHANGED ctx

\* The caller's context is done: the skill's result is dropped.
Stop ==
  /\ Finished /\ ctx = "cancelled"
  /\ outcome' = "stopped"
  /\ UNCHANGED <<target, skill, ctx, results>>

\* walk.Resolve refuses the next target.
ResolveFails ==
  /\ Scanning /\ phase = "idle" /\ idx = 1
  /\ outcome' = IF ctx = "cancelled" THEN "stopped" ELSE "error"
  /\ UNCHANGED <<target, skill, ctx, results>>

\* The caller gives up.
Cancel ==
  /\ outcome = "running" /\ ctx = "live"
  /\ ctx' = "cancelled"
  /\ UNCHANGED <<target, skill, results, outcome>>

Returned == outcome # "running" /\ UNCHANGED vars

LayerStep ==
  \/ WalkEntry \/ TextFindings \/ Capped \/ ReportFinding
LayerProgress ==
  \/ WalkReturn \/ TextReturn \/ AstReturn
  \/ Collected \/ ReferencesReturn
  \/ Usages \/ DecideFinding \/ DecisionReturn
  \/ AgentReturn \/ JudgeReturn
Progress == Skip \/ Start \/ LayerProgress \/ Publish \/ Stop

Next == Progress \/ LayerStep \/ ResolveFails \/ Cancel \/ Returned

\* Run is one goroutine.
Spec == Init /\ [][Next]_vars
-----------------------------------------------------------------------------
TypeOK ==
  /\ target \in 1..(Targets + 1)
  /\ idx \in 1..(Len(LayerSeq) + 1)
  /\ phase \in Phases
  /\ failing \in BOOLEAN
  /\ recorded \subseteq Findings
  /\ sev \in [Findings -> Severities]
  /\ state \in [Findings -> States]
  /\ decided \subseteq Findings
  /\ answered \subseteq Findings
  /\ interrupt \in Findings \cup {None}
  /\ statuses \in Seq(Statuses)
  /\ artifacts \subseteq ArtifactStatuses
  /\ reports \subseteq ReportStatuses
  /\ ctx \in {"live", "cancelled"}
  /\ results \in Seq(Verdicts)
  /\ outcome \in {"running", "done", "stopped", "error"}

\* A clean verdict that is published rests on a full scan: every enabled layer
\* ran to its end, every artifact was read and every reference was checked.
\* Compute counts a skipped or interrupted layer as inspected, so this rests
\* on run() dropping the result of a cancelled skill and on an interrupt always
\* leaving a finding that counts.
CleanMeansFullScan ==
  (Finished /\ ctx = "live" /\ Verdict = "clean") =>
    /\ \A i \in Layers : statuses[i] = "done"
    /\ artifacts \subseteq {"ok"}
    /\ reports \subseteq {"checked"}

\* The finding that interrupted a scan stands as it was recorded: no layer that
\* still runs after it, the decision layer on its way out included, judges it.
InterruptStands ==
  interrupt # None =>
    /\ interrupt \in recorded \cap Interrupting
    /\ state[interrupt] = "none"
    /\ sev[interrupt] = SeverityOf[interrupt]

\* The interrupt ends the pipeline: every layer after the interrupted or the
\* first skipped one is skipped, and something has stopped the scan.
StatusShape ==
  \A i \in DOMAIN statuses :
    statuses[i] \in {"interrupted", "skipped"} =>
      /\ LayerDone
      /\ \A j \in i+1 .. Len(statuses) : statuses[j] = "skipped"

\* What the layers together may do to a finding's severity: it is never above
\* the one it was recorded with; a rule that may not be lowered keeps severity
\* and life; a lowered one stays at or above the rule's floor.
PolicyHeld ==
  \A f \in Findings :
    /\ sev[f] <= SeverityOf[f]
    /\ ~PolicyOf[f].downgrade =>
         sev[f] = SeverityOf[f] /\ state[f] \notin {"downgraded", "dismissed"}
    /\ state[f] = "downgraded" =>
         sev[f] < SeverityOf[f] /\ sev[f] >= PolicyOf[f].floor
    /\ state[f] # "downgraded" => sev[f] = SeverityOf[f]

\* A judgement is final: decision, late decision and judge all run over the
\* same findings, and none changes what an earlier one decided.
JudgedOnce ==
  [][target' = target =>
       \A f \in Findings :
         state[f] # "none" => state'[f] = state[f] /\ sev'[f] = sev[f]]_vars

\* After the interrupted layer has returned nothing about the skill changes:
\* later layers only get their "skipped" status.
NothingAfterInterrupt ==
  [][(interrupt # None /\ phase = "idle" /\ target' = target) =>
       UNCHANGED <<phase, recorded, sev, state, decided, interrupt, artifacts,
                   reports>>]_vars

\* docs/adr/0012: "An interrupted scan is complete, since the operator asked
\* for the stop."  Stated only of scans in which no file and no layer failed
\* before the interrupt.  It does not hold: references.Run drops the unchecked
\* reports before it records the findings that may interrupt.
InterruptedIsComplete ==
  (/\ Finished /\ interrupt # None
   /\ artifacts \subseteq {"ok"}
   /\ \A i \in DOMAIN statuses : statuses[i] # "failed")
  => Complete(artifacts, reports, LayerReports)
=============================================================================
