----------------------------- MODULE References -----------------------------
(***************************************************************************)
(* The references layer of one skill: refcheck.Runner (runner.go), which   *)
(* looks up the references in two waves of workers under a budget and a    *)
(* limit, and references.Run (layers/references), which turns the reports  *)
(* into findings.  The second wave is what the first one's sites redirect  *)
(* to.  What a collector answers is left open; Pacer models its requests.  *)
(***************************************************************************)
EXTENDS Naturals, Sequences, FiniteSets, SequencesExt

CONSTANTS
  Refs,          \* the references, by Key()
  Extracted,     \* those the skill's files name
  Workers,       \* Config.Concurrency goroutines
  MaxReferences, \* Config.MaxReferences
  Places,        \* the matches of the unpinned-install rules
  NamesOf,       \* the references of a place
  NoRef          \* no reference

ASSUME ReferencesAssumption ==
  /\ Extracted \subseteq Refs /\ IsFiniteSet(Refs)
  /\ Workers # {} /\ MaxReferences \in Nat \ {0}
  /\ NamesOf \in [Places -> SUBSET Extracted]
  /\ NoRef \notin Refs

VARIABLES
  tooMany,   \* the REFERENCES-TOO-MANY rule as configured
  stage,     \* how far Run is
  reports,   \* coordinator.reports
  first,     \* the number of extracted references
  fed,       \* the next report to hand to a worker
  at,        \* the report each worker is on, 0 for none
  asked,     \* the references a collector was asked about
  capped,    \* coordinator.capped
  stopped,   \* the pipeline's interrupt
  expired,   \* the budget is over, or the caller gave up
  findings   \* what the layer recorded

vars == <<tooMany, stage, reports, first, fed, at, asked, capped, stopped, expired,
          findings>>

Stages == {"start", "first", "derive", "second", "reports", "unpopular", "done"}
Details == {"none", "cap", "budget", "limited", "error"}

\* A report before its turn.
Listed(ref) ==
  [ref |-> ref, status |-> "not-checked", detail |-> "none", leads |-> NoRef,
   unpopular |-> FALSE]

Keys(list) == {list[i].ref : i \in DOMAIN list}
Done == stopped \/ expired

Init ==
  /\ tooMany \in {"off", "on", "interrupt"}
  /\ stage = "start"
  /\ reports = << >> /\ first = 0 /\ fed = 1
  /\ at = [w \in Workers |-> 0]
  /\ asked = {}
  /\ capped = FALSE /\ stopped = FALSE /\ expired = FALSE
  /\ findings = {}

-----------------------------------------------------------------------------
(* The coordinator. *)

\* coordinator.add: a reference already listed only gains locations.  In which
\* order the new ones come is left open.
Added(list, found) ==
  {list \o [i \in DOMAIN s |-> Listed(s[i])] : s \in SetToSeqs(found \ Keys(list))}

\* REFERENCES-TOO-MANY, told once.
TellTooMany ==
  IF capped THEN UNCHANGED <<capped, stopped, findings>>
  ELSE /\ capped' = TRUE
       /\ stopped' = (stopped \/ tooMany = "interrupt")
       /\ findings' = IF tooMany = "off" THEN findings
                      ELSE findings \cup {[rule |-> "TOO-MANY", ref |-> NoRef]}

Capped(list, over) ==
  [i \in DOMAIN list |-> IF i \in over THEN [list[i] EXCEPT !.detail = "cap"] ELSE list[i]]

\* A defect: every wave counts its own references.
StartWaveByItself(list, from) ==
  /\ reports' = Capped(list, {i \in DOMAIN list : i - from >= MaxReferences})
  /\ fed' = from
  /\ IF Len(list) - from >= MaxReferences THEN TellTooMany
     ELSE UNCHANGED <<capped, stopped, findings>>

\* coordinator.wave up to its workers: the references over the limit are told
\* and not handed out.
StartWave(list, from) ==
  /\ reports' = Capped(list, {i \in DOMAIN list : i >= from /\ i > MaxReferences})
  /\ fed' = from
  /\ IF Len(list) > MaxReferences THEN TellTooMany
     ELSE UNCHANGED <<capped, stopped, findings>>

Extract ==
  /\ stage = "start"
  /\ \E list \in Added(<< >>, Extracted) : StartWave(list, 1) /\ first' = Len(list)
  /\ stage' = "first"
  /\ UNCHANGED <<tooMany, at, asked, expired>>

Waving == stage \in {"first", "second"}
Pending == fed <= Len(reports) /\ reports[fed].detail # "cap"

Put(i, status, detail, leads, unpopular) ==
  reports' = [reports EXCEPT ![i] =
    [ref |-> @.ref, status |-> status, detail |-> detail, leads |-> leads,
     unpopular |-> unpopular]]

\* A free worker takes the next job; with the budget over it looks nothing up.
Take(w) ==
  /\ Waving /\ Pending /\ at[w] = 0
  /\ fed' = fed + 1
  /\ IF Done
       THEN /\ Put(fed, "not-checked", "budget", NoRef, FALSE)
            /\ UNCHANGED <<at, asked>>
       ELSE /\ at' = [at EXCEPT ![w] = fed]
            /\ asked' = asked \cup {reports[fed].ref}
            /\ UNCHANGED reports
  /\ UNCHANGED <<tooMany, stage, first, capped, stopped, expired, findings>>

\* A lookup that fails once the budget is over was not made.
FailedStatus == IF Done THEN "not-checked" ELSE "failed"

\* The collector's answer: checked, failed, or the host's rate limit.
Collect(w) ==
  /\ at[w] # 0
  /\ \/ \E leads \in Refs \cup {NoRef}, unpopular \in BOOLEAN :
          Put(at[w], "checked", "none", leads, unpopular)
     \/ Put(at[w], FailedStatus, IF Done THEN "budget" ELSE "error", NoRef, FALSE)
     \/ Put(at[w], "not-checked", "limited", NoRef, FALSE)
  /\ at' = [at EXCEPT ![w] = 0]
  /\ UNCHANGED <<tooMany, stage, first, fed, asked, capped, stopped, expired, findings>>

\* A defect: the end of the queue is taken for the end of the work.
AllFed == ~Pending

\* wg.Wait()
WaveOver == ~Pending /\ \A w \in Workers : at[w] = 0

Derived == {reports[i].leads : i \in DOMAIN reports} \ {NoRef}

Derive ==
  /\ stage = "first" /\ WaveOver
  /\ \E list \in Added(reports, Derived) : StartWave(list, Len(reports) + 1)
  /\ stage' = "second"
  /\ UNCHANGED <<tooMany, first, at, asked, expired>>

-----------------------------------------------------------------------------
(* references.Run. *)

Unchecked(rep) == rep.status # "checked"

\* The reports are in; an interrupt by now drops the unchecked.  What is left
\* keeps its index.
Reported ==
  /\ stage = "second" /\ WaveOver
  /\ reports' = IF stopped
                  THEN Restrict(reports, {i \in DOMAIN reports : ~Unchecked(reports[i])})
                  ELSE reports
  /\ stage' = "reports"
  /\ UNCHANGED <<tooMany, first, fed, at, asked, capped, stopped, expired, findings>>

Answered == {i \in DOMAIN reports : reports[i].detail \notin {"cap", "budget"}}

\* The findings of the reports: a collector adds findings to a report it then
\* fails, too.  Any of them may interrupt.
ReportFindings ==
  /\ stage = "reports"
  /\ \E facts \in SUBSET {reports[i].ref : i \in Answered} :
       /\ findings' = findings \cup {[rule |-> "FACT", ref |-> ref] : ref \in facts}
       /\ stopped' \in {stopped, stopped \/ facts # {}}
  /\ stage' = "unpopular"
  /\ UNCHANGED <<tooMany, reports, first, fed, at, asked, capped, expired>>

Named(p) == {i \in DOMAIN reports : reports[i].ref \in NamesOf[p]}

\* placing.place: a place gets a finding for each unpopular reference it names,
\* or one without reference if it names none.
Placed(p) ==
  {[rule |-> "UNPOPULAR", ref |-> reports[i].ref, place |-> p] :
     i \in {j \in Named(p) : reports[j].status = "checked" /\ reports[j].unpopular}}
  \cup (IF Named(p) = {} THEN {[rule |-> "UNPOPULAR", ref |-> NoRef, place |-> p]} ELSE {})

Unpopular ==
  /\ stage = "unpopular"
  /\ findings' = findings \cup UNION {Placed(p) : p \in Places}
  /\ stage' = "done"
  /\ UNCHANGED <<tooMany, reports, first, fed, at, asked, capped, stopped, expired>>

\* The budget ends, or the caller's context.
Expire ==
  /\ ~expired /\ stage # "done"
  /\ expired' = TRUE
  /\ UNCHANGED <<tooMany, stage, reports, first, fed, at, asked, capped, stopped, findings>>

Returned == stage = "done" /\ UNCHANGED vars

Step ==
  \/ Extract \/ Derive \/ Reported \/ ReportFindings \/ Unpopular
  \/ \E w \in Workers : Take(w) \/ Collect(w)

Next == Step \/ Expire \/ Returned

\* The goroutines run, and a collector returns: its requests time out.
Spec == Init /\ [][Next]_vars /\ WF_vars(Step)

-----------------------------------------------------------------------------
ReportType ==
  [ref : Refs, status : {"checked", "not-checked", "failed"}, detail : Details,
   leads : Refs \cup {NoRef}, unpopular : BOOLEAN]

TypeOK ==
  /\ tooMany \in {"off", "on", "interrupt"}
  /\ stage \in Stages
  /\ DOMAIN reports \subseteq 1..Cardinality(Refs)
  /\ reports \in [DOMAIN reports -> ReportType]
  /\ first \in 0..Cardinality(Refs)
  /\ fed \in 1..(Cardinality(Refs) + 1)
  /\ at \in [Workers -> 0..Cardinality(Refs)]
  /\ asked \subseteq Refs
  /\ capped \in BOOLEAN /\ stopped \in BOOLEAN /\ expired \in BOOLEAN

\* The limit bounds what one skill makes the scanner look up, what its sites
\* redirect to included.
LimitHolds == Cardinality(asked) <= MaxReferences

\* A reference is looked up once: by one worker, in one wave, though the files
\* name it and a site redirects to it.
AskedOnce ==
  [][\A w \in Workers :
       (at[w] = 0 /\ at'[w] # 0) => reports[at'[w]].ref \notin asked]_vars

\* Every site a reference of the files was seen to redirect to is a reference of
\* the run, and every listed one is answered for: at the end nothing is left as it
\* was listed.
NothingLost ==
  (stage \in {"reports", "unpopular", "done"} /\ ~stopped) =>
    /\ \A i \in 1..first : reports[i].leads \in Keys(reports) \cup {NoRef}
    /\ Extracted \subseteq Keys(reports)
    /\ \A i \in DOMAIN reports :
         reports[i].status # "checked" => reports[i].detail # "none"

\* REFERENCES-TOO-MANY is recorded exactly for a skill that goes over the limit,
\* in whichever wave.
TooManyIsTold ==
  (stage \in {"second", "reports"} /\ tooMany # "off") =>
    /\ [rule |-> "TOO-MANY", ref |-> NoRef] \in findings <=> capped
    /\ (stage = "second" \/ ~stopped) => capped = (Len(reports) > MaxReferences)

\* The layer ends.
LayerReturns == <>(stage = "done")

\* docs/adr/0005: "The scanner reports a finding only when it knows the fact".
\* An unpopular install without a reference is a place that names none.  It does
\* not hold after an interrupt: the report of the unchecked reference is gone.
UnpopularIsKnown ==
  \A f \in findings :
    (f.rule = "UNPOPULAR" /\ f.ref = NoRef) => NamesOf[f.place] = {}
=============================================================================
