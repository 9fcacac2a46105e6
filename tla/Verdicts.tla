------------------------------ MODULE Verdicts ------------------------------
(***************************************************************************)
(* Findings, severities and the two pure functions that judge a finding:   *)
(* the model judge's resolve (layers/judge/tools.go) and the decision      *)
(* engine's judge (layers/decision/engine.go), and the verdict of a scan   *)
(* (scan/verdict.go).  Everything here is an operator; the modules of the  *)
(* layers EXTEND it.                                                       *)
(*                                                                         *)
(* A severity is its Rank(): 1 low .. 4 critical, and 0 for the empty      *)
(* string, which is how the code writes "no floor".                        *)
(***************************************************************************)
EXTENDS Naturals, Sequences

Severities == 1..4
Low == 1
NoFloor == 0
Floors == Severities \cup {NoFloor}

\* The state of a finding's Judgement; "none" is the nil pointer.
JudgedStates == {"confirmed", "upheld", "downgraded", "dismissed"}
States == JudgedStates \cup {"none"}

\* What a rule lets the judging layers do to its findings.
Policy == [downgrade : BOOLEAN, floor : Floors]

Live(f) == f.state # "dismissed"

-----------------------------------------------------------------------------
(* The model judge: what it asks for (a severity or Dismiss) against what   *)
(* the policy of the finding's rule allows.                                 *)

Dismiss == 0
Wants == Severities \cup {Dismiss}

Lowest(from, p) ==
  IF ~p.downgrade THEN from
  ELSE IF p.floor = NoFloor THEN Low ELSE p.floor

Judged(sev, state) == [severity |-> sev, state |-> state]

Dismissal(from, p) ==
  IF p.downgrade /\ p.floor = NoFloor THEN Judged(from, "dismissed")
  ELSE IF Lowest(from, p) < from THEN Judged(Lowest(from, p), "downgraded")
  ELSE Judged(from, "upheld")

Resolve(from, p, want) ==
  LET end == IF want < Lowest(from, p) THEN Lowest(from, p) ELSE want
  IN  IF want = Dismiss THEN Dismissal(from, p)
      ELSE IF want > from THEN Judged(from, "confirmed")
      ELSE IF end < from THEN Judged(end, "downgraded")
      ELSE Judged(from, IF want = from THEN "confirmed" ELSE "upheld")

\* llmcall.Confident: the levels at which a model's answer is applied.
MinConfident == 3
Confidences == 1..4
Confident(level) == level >= MinConfident /\ level <= 4

-----------------------------------------------------------------------------
(* The decision engine: one finding's outcome over every combination of     *)
(* instances becomes a judgement, or none (NoVerdict).                      *)

NoVerdict == [severity |-> 0, state |-> "none"]

\* A defect: the floor of the rule is not looked at.
HigherIgnored(a, b) == a

Higher(a, b) == IF b > a THEN b ELSE a

LowerTo(target, current) ==
  IF target >= current THEN NoVerdict ELSE Judged(target, "downgraded")

\* o is [result, severity]; only a "lowered" outcome reads the severity.
EngineJudge(o, current, floor) ==
  IF o.result = "confirmed" THEN Judged(current, "confirmed")
  ELSE IF o.result = "misfired" THEN Judged(current, "dismissed")
  ELSE IF o.result = "lowered" THEN LowerTo(Higher(o.severity, floor), current)
  ELSE IF o.result = "kept" THEN NoVerdict
  ELSE \* "dismissed"
       IF floor = NoFloor THEN Judged(current, "dismissed")
                          ELSE LowerTo(floor, current)

-----------------------------------------------------------------------------
(* The verdict of a scan.  findings, artifacts, reports and layers are      *)
(* the sets of what the scan holds; only the fields the verdict reads.      *)

Verdicts == {"clean", "review", "incomplete", "block"}

ArtifactInspected(a) == a # "failed" /\ a # "unknown"
LayerInspected(l) == l.status # "failed" /\ l.errors = 0

\* A defect: a reference that was not checked goes unnoticed.
CompleteButReports(artifacts, reports, layers) ==
  /\ \A a \in artifacts : ArtifactInspected(a)
  /\ \A l \in layers : LayerInspected(l)

Complete(artifacts, reports, layers) ==
  /\ \A a \in artifacts : ArtifactInspected(a)
  /\ \A r \in reports : r = "checked"
  /\ \A l \in layers : LayerInspected(l)

Compute(findings, artifacts, reports, layers, gate) ==
  LET live == {f \in findings : Live(f)}
  IN  IF \E f \in live : f.sev >= gate THEN "block"
      ELSE IF ~Complete(artifacts, reports, layers) THEN "incomplete"
      ELSE IF live # {} THEN "review"
      ELSE "clean"
=============================================================================
