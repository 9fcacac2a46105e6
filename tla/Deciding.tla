------------------------------ MODULE Deciding ------------------------------
(***************************************************************************)
(* What the decision layer promises the layers around it, whatever the     *)
(* model answers and however its requests fail: it adds findings, all at   *)
(* once and before it decides any; it decides every finding at most once,  *)
(* only findings that nobody judged and whose rule has an outcome table,   *)
(* and moves one only within its rule's policy.  Decision implements it.   *)
(***************************************************************************)
EXTENDS Verdicts, SequencesExt

VARIABLES
  findings,  \* State.Findings: [rule, severity, state, decided] each
  rules,     \* the rules by id: [judge, table] each
  stage      \* "load", "raise", "decide" or "over"

vars == <<findings, rules, stage>>

Results == {"misfired", "dismissed", "lowered", "kept", "confirmed"}

Open(f) == f.state = "none" /\ ~f.decided /\ rules[f.rule].table

\* A rule without downgrade gets only its confirm rows.
Allowed(f) ==
  IF rules[f.rule].judge.downgrade THEN Results ELSE {"kept", "confirmed"}

Verdict(f) ==
  {EngineJudge([result |-> res, severity |-> s], f.severity, rules[f.rule].judge.floor) :
     res \in Allowed(f), s \in Severities}

Judged1(f, v) ==
  IF v = NoVerdict THEN [f EXCEPT !.decided = TRUE]
  ELSE [f EXCEPT !.decided = TRUE, !.severity = v.severity, !.state = v.state]

Init == findings = << >> /\ rules = << >> /\ stage = "load"

\* The rules are loaded, and the layers before this one have run.
Load ==
  /\ stage = "load" /\ stage' \in {"raise", "decide", "over"}

\* usages(): the findings of the usages, recorded in one go.
Raise ==
  /\ stage = "raise" /\ stage' = "decide"
  /\ IsPrefix(findings, findings')
  /\ \A i \in DOMAIN findings' \ DOMAIN findings : findings'[i].state = "none"
  /\ UNCHANGED rules

DecideFinding ==
  /\ stage = "decide"
  /\ \E i \in DOMAIN findings :
       /\ Open(findings[i])
       /\ \E v \in Verdict(findings[i]) :
            findings' = [findings EXCEPT ![i] = Judged1(@, v)]
  /\ UNCHANGED <<rules, stage>>

\* The layer returns when no finding is left to decide.
Return ==
  /\ stage = "decide"
  /\ \A i \in DOMAIN findings : ~Open(findings[i])
  /\ stage' = "over"
  /\ UNCHANGED <<findings, rules>>

Next == Load \/ Raise \/ DecideFinding \/ Return

Spec == Init /\ [][Next]_vars
=============================================================================
