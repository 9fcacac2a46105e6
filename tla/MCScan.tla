------------------------------- MODULE MCScan -------------------------------
(***************************************************************************)
(* Instances of Scan for TLC.  A finding is a record of its constants, so  *)
(* that one definition gives LayerOf, SeverityOf and the rest.             *)
(***************************************************************************)
EXTENDS Scan

Rule(id, layer, severity, downgrade, floor) ==
  [id |-> id, layer |-> layer, severity |-> severity,
   policy |-> [downgrade |-> downgrade, floor |-> floor]]

Shell  == Rule("shell", "static", 3, TRUE, Low)
Many   == Rule("REFERENCES-TOO-MANY", "references", 3, FALSE, NoFloor)
New    == Rule("DOMAIN-NEW", "references", 2, TRUE, NoFloor)
Hidden == Rule("REMOTE-CODE-AT-INSTALL", "decision", 3, TRUE, Low)
Pot    == Rule("HONEYPOT-TRIGGERED", "honeypot", 4, TRUE, 2)
Odd    == Rule("odd", "discovery", 3, TRUE, 2)

\* Every kind of layer: reveal records as static does, honeypot as discovery.
MostLayers == <<"walk", "ast", "static", "references", "decision", "discovery", "late", "judge">>

MCLayerOf == [f \in Findings |-> f.layer]
MCSeverityOf == [f \in Findings |-> f.severity]
MCPolicyOf == [f \in Findings |-> f.policy]
MCInterrupting == Findings \cap {Many, Pot, New, Hidden}
MCDeciding == Findings \cap {Shell, New, Hidden, Odd}
MCAsked == Findings \cap {New}
MCGroupOf == [f \in Findings |-> {g \in Findings : g.layer = f.layer}]
MCTooMany == Findings \cap {Many}
MCJudgeable == Findings \cap {Hidden, Odd}

\* Two skills: what the text, the references, the usages and the discovery
\* report is judged by decision, late decision and judge; three may interrupt.
MostFindings == {Shell, Many, New, Hidden, Odd}
\* One skill through layers that may record, stop and judge.
FewLayers == <<"walk", "references", "honeypot", "discovery", "judge">>
FewFindings == {Many, New, Pot, Odd}
=============================================================================
