-------------------------------- MODULE Judge --------------------------------
(***************************************************************************)
(* The judge layer (layers/judge): a model is given the findings of the    *)
(* discovery layer that nobody judged, records a verdict for each with the *)
(* verdict tool and ends with submit_result, which is refused while one is *)
(* missing.  What is on record when the session is over is applied, with   *)
(* or without an error, as far as the model was sure of it.                *)
(***************************************************************************)
EXTENDS Agent, Verdicts

CONSTANTS
  Findings, SeverityOf, PolicyOf,  \* as in Judgement
  Judged0,  \* the findings that may have a judgement before the layer starts
  Bad,      \* a record that check() refuses whatever is pending
  None      \* no record

\* One entry of a call: a finding's id, the verdict asked for, the confidence.
Records == [finding : Findings, want : Wants, confidence : Confidences]

\* A call is a tool and the entries it carries; "read" stands for the read tool
\* and for every call that is answered with an error before the store sees it.
ASSUME JudgeAssumption ==
  /\ SeverityOf \in [Findings -> Severities]
  /\ PolicyOf \in [Findings -> Policy]
  /\ Judged0 \subseteq Findings
  /\ \A c \in Calls :
       /\ c.tool \in {"verdict", "submit", "read"}
       /\ c.entries \in Seq(Records \cup {Bad})
       /\ c.tool = "read" => c.entries = << >>
  /\ None \notin Records /\ Bad \notin Records

VARIABLES
  pending,  \* the targets of the store: order() and label()
  byID,     \* store.byID, and store.order with it: None is a missing record
  state,    \* Finding.Judgement.State
  sev,      \* Finding.Severity
  over      \* Layer.Run has returned

vars == <<loop, pending, byID, state, sev, over>>
layer == <<pending, byID, state, sev, over>>

\* With nothing pending there is no session: the loop never starts.
Init ==
  /\ LoopInit
  /\ \E judged \in SUBSET Judged0 :
       /\ pending = Findings \ judged
       /\ state = [f \in Findings |-> IF f \in judged THEN "confirmed" ELSE "none"]
  /\ sev = SeverityOf
  /\ byID = [f \in Findings |-> None]
  /\ over = FALSE

-----------------------------------------------------------------------------
(* The store. *)

\* A defect: any finding of the skill may be named.
AcceptedAny(r) == r # Bad

\* check(): an entry about a finding that is not in the list is as bad as any.
Accepted(r) == r # Bad /\ r.finding \in pending

\* The entries about a finding, and the last of them: one of an accepted call.
About(rs, f) == {i \in DOMAIN rs : rs[i] # Bad /\ rs[i].finding = f}
Last(rs, f) == {i \in About(rs, f) : \A j \in About(rs, f) : j <= i}
Latest(rs, f) == rs[CHOOSE i \in Last(rs, f) : TRUE]

\* A defect: a finding keeps the first record it got.
PutFirst(rs) ==
  byID' = [f \in Findings |-> IF Last(rs, f) = {} \/ byID[f] # None
                                THEN byID[f] ELSE Latest(rs, f)]

\* put, entry after entry: the last entry about a finding is its record.
Put(rs) ==
  byID' = [f \in Findings |-> IF Last(rs, f) = {} THEN byID[f] ELSE Latest(rs, f)]

\* take: one refused entry, and nothing of the call is recorded.
Take(rs) ==
  IF \A i \in DOMAIN rs : Accepted(rs[i]) THEN Put(rs) ELSE UNCHANGED byID

\* A defect: nobody asks what is missing.
SubmittedAnyway(rs) == \A i \in DOMAIN rs : Accepted(rs[i])

\* submit_result is not refused: its entries were taken, and none is missing.
Submitted(rs) ==
  /\ \A i \in DOMAIN rs : Accepted(rs[i])
  /\ \A f \in pending : byID'[f] # None

Ask ==
  /\ pending # {} /\ ~over
  /\ \/ Compaction
     \/ \E calls \in Replies : Reply(calls)
  /\ UNCHANGED layer

\* The verdict tool records, submit_result records and may end the task.
CallTool ==
  /\ \E c \in Calls :
       /\ IF c.tool = "read" THEN UNCHANGED byID ELSE Take(c.entries)
       /\ Answer(c, c.tool = "submit" /\ Submitted(c.entries))
  /\ UNCHANGED <<pending, state, sev, over>>

Turn == pending # {} /\ LoopStep /\ UNCHANGED layer

\* A defect: how sure the model was is not looked at.
AppliesAny(f) == byID[f] # None

\* apply() takes the records the model was sure of.
Applies(f) == byID[f] # None /\ Confident(byID[f].confidence)

\* The session is over, or there was none: apply, and return.
Conclude ==
  /\ stage = "returned" \/ pending = {}
  /\ ~over /\ over' = TRUE
  /\ LET v(f) == Resolve(sev[f], PolicyOf[f], byID[f].want)
     IN  /\ state' = [f \in Findings |-> IF Applies(f) THEN v(f).state ELSE state[f]]
         /\ sev' = [f \in Findings |-> IF Applies(f) THEN v(f).severity ELSE sev[f]]
  /\ UNCHANGED <<loop, pending, byID>>

Returned == over /\ UNCHANGED vars

Next == Ask \/ CallTool \/ Turn \/ Conclude \/ Returned

Spec == Init /\ [][Next]_vars

-----------------------------------------------------------------------------
TypeOK ==
  /\ LoopType
  /\ pending \in SUBSET Findings
  /\ byID \in [Findings -> Records \cup {None}]
  /\ state \in [Findings -> States]
  /\ sev \in [Findings -> Severities]
  /\ over \in BOOLEAN

\* A session that ends without an error leaves no finding unanswered, also when
\* more calls follow submit_result in the same reply.
SubmittedIsComplete ==
  (over /\ err = "none") => \A f \in pending : byID[f] # None

\* A finding is judged exactly as far as its last record is sure and the policy
\* of its rule allows; an unsure record also withdraws a sure one before it.
OnlySureApplied ==
  over => \A f \in pending :
    /\ state[f] # "none" <=> (byID[f] # None /\ byID[f].confidence >= 3)
    /\ sev[f] # SeverityOf[f] => (PolicyOf[f].downgrade /\ byID[f].confidence >= 3)

\* A record changes only to the last entry about its finding, of a call without
\* a refused entry.  So a corrected verdict replaces the first one, and a call
\* the model is told to repeat has left nothing behind.
LastWordStands ==
  [][\A f \in Findings :
       LET rs == Head(queue).entries
       IN  IF stage = "answering" /\ queue # << >> /\ About(rs, f) # {}
                /\ \A i \in DOMAIN rs : Accepted(rs[i])
             THEN byID'[f] = Latest(rs, f)
             ELSE byID'[f] = byID[f]]_vars

\* The layer is one step of the pipeline, as Scan takes it.
Abstract == INSTANCE Judgement
ImplementsJudgement == Abstract!Spec
=============================================================================
