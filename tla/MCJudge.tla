------------------------------ MODULE MCJudge ------------------------------
(***************************************************************************)
(* An instance of Judge for TLC: a finding whose rule has a floor, and one *)
(* whose rule cannot be lowered and that may be judged before the layer.   *)
(***************************************************************************)
EXTENDS Judge

CONSTANTS floored, fixed

MCFindings == {floored, fixed}
MCSeverityOf == [f \in MCFindings |-> IF f = floored THEN 3 ELSE 2]
MCPolicyOf == [f \in MCFindings |->
                 [downgrade |-> f = floored, floor |-> IF f = floored THEN 2 ELSE NoFloor]]

Entry(f, want, confidence) == [finding |-> f, want |-> want, confidence |-> confidence]
Entries == {Entry(f, Dismiss, confidence) : f \in MCFindings, confidence \in {2, 3}}
             \cup {Entry(floored, 3, 4)}

\* Up to two entries of a call, in every order, with and without a bad one.
MCBatches == {<< >>, <<Bad>>} \cup {<<r>> : r \in Entries}
               \cup {<<r, q>> : r \in Entries, q \in Entries}
               \cup {<<r, Bad>> : r \in Entries}
MCCalls == {[tool |-> tool, entries |-> b] : tool \in {"verdict", "submit"}, b \in MCBatches}
             \cup {[tool |-> "read", entries |-> << >>]}
=============================================================================
