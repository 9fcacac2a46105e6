----------------------------- MODULE Judgement -----------------------------
(***************************************************************************)
(* What the judge layer promises the pipeline (layers/judge, Layer.Run):   *)
(* in one step, some of the findings nobody judged yet get a judgement     *)
(* their rule allows, and no other finding changes.  Scan uses the layer   *)
(* in this form; Judge shows that the session with the model implements it.*)
(***************************************************************************)
EXTENDS Verdicts

CONSTANTS
  Findings,    \* the findings of the discovery layer on record
  SeverityOf,  \* the severity of each when the layer starts
  PolicyOf     \* its rule's Judge policy

VARIABLES
  pending,  \* those without a judgement when the layer starts
  state,    \* Finding.Judgement.State
  sev,      \* Finding.Severity
  over      \* Layer.Run has returned

judgement == <<pending, state, sev, over>>

Init ==
  /\ pending \in SUBSET Findings
  /\ state \in [Findings -> States]
  /\ \A f \in Findings : f \in pending <=> state[f] = "none"
  /\ sev = SeverityOf
  /\ over = FALSE

Apply ==
  /\ ~over /\ over' = TRUE
  /\ \E done \in SUBSET pending : \E want \in [done -> Wants] :
       LET v(f) == Resolve(sev[f], PolicyOf[f], want[f])
       IN  /\ state' = [f \in Findings |-> IF f \in done THEN v(f).state ELSE state[f]]
           /\ sev' = [f \in Findings |-> IF f \in done THEN v(f).severity ELSE sev[f]]
  /\ UNCHANGED pending

Spec == Init /\ [][Apply]_judgement
=============================================================================
