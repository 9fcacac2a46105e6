------------------------------ MODULE Honeypot ------------------------------
(***************************************************************************)
(* The honeypot layer (layers/honeypot): a model gets the tools of a       *)
(* coding agent and one task, to load the skill.  Any other use of a tool  *)
(* than to load the skill or to read its own files is caught, ends the     *)
(* session and is recorded as HONEYPOT-TRIGGERED.                          *)
(***************************************************************************)
EXTENDS Agent

CONSTANT None  \* no evidence

\* Calls of trap tools, of Read outside the skill, of Read inside it or Skill,
\* of submit_result, and calls that are answered with an error.
HoneypotCalls == {"trap", "outside", "inside", "submit", "mistake"}
Caught == {"trap", "outside"}

ASSUME HoneypotAssumption == Calls = HoneypotCalls /\ None \notin Calls

VARIABLES
  enabled,   \* the rule is on
  tried,     \* the model has asked for something the honeypot catches
  evidence,  \* store.evidence
  recorded,  \* HONEYPOT-TRIGGERED is on record
  over       \* Layer.Run has returned

vars == <<loop, enabled, tried, evidence, recorded, over>>

Init ==
  /\ LoopInit
  /\ enabled \in BOOLEAN
  /\ tried = FALSE /\ evidence = None
  /\ recorded = FALSE /\ over = FALSE

Traps(calls) == \E i \in DOMAIN calls : calls[i] \in Caught

Ask ==
  /\ \E calls \in Replies :
       /\ \/ Reply(calls)
          \/ Compaction
       /\ tried' = (tried \/ Traps(calls))
  /\ UNCHANGED <<enabled, evidence, recorded, over>>

\* store.Final: from the first catch on every tool of the store ends the task.
Final(c) == c = "submit" \/ (c # "mistake" /\ evidence' # None)

\* store.catch keeps the first.
Catch(c) == evidence' = IF c \in Caught /\ evidence = None THEN c ELSE evidence

CallTool ==
  /\ \E c \in Calls : Catch(c) /\ Answer(c, Final(c))
  /\ UNCHANGED <<enabled, tried, recorded, over>>

\* The session is over, with or without an error.
Conclude ==
  /\ stage = "returned" /\ ~over
  /\ recorded' = (evidence # None /\ enabled)
  /\ over' = TRUE
  /\ UNCHANGED <<loop, enabled, tried, evidence>>

Returned == over /\ UNCHANGED vars

Turn == LoopStep /\ UNCHANGED <<enabled, tried, evidence, recorded, over>>

Step == Ask \/ CallTool \/ Turn \/ Conclude
Next == Step \/ Returned

\* The layer is one goroutine, and the provider answers or times out.
Spec == Init /\ [][Next]_vars /\ WF_vars(Step)

-----------------------------------------------------------------------------
TypeOK ==
  /\ LoopType
  /\ enabled \in BOOLEAN /\ tried \in BOOLEAN
  /\ evidence \in Caught \cup {None}
  /\ recorded \in BOOLEAN /\ over \in BOOLEAN

\* Whatever the order of the calls in a reply, and before or after the model
\* submits: an attempt in an answered reply is on record, and nothing else is.
NoTrapMissed ==
  over =>
    /\ (tried /\ enabled /\ err # "compaction") => recorded
    /\ recorded => (tried /\ err = "none")

\* The first catch ends the session: its evidence stays and the model, which is
\* not to be trusted any more, is not asked again.
CatchEndsSession ==
  [][evidence # None => (evidence' = evidence /\ requests' = requests)]_vars

\* The session ends.
SessionEnds == <>over

\* README.md: "if a model attempts to execute anything while being told not to
\* [...] a skill is immediately marked for blocking".  It does not hold when the
\* reply with the attempt reaches the compaction threshold.
AttemptIsRecorded == (over /\ tried /\ enabled) => recorded
=============================================================================
