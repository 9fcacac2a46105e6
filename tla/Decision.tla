------------------------------ MODULE Decision ------------------------------
(***************************************************************************)
(* One run of the decision layer over one skill: the rules it loads, the   *)
(* groups of places it asks about once (places.go), the usages of the      *)
(* references (usage.go), the requests with their limits and retries       *)
(* (ask.go, llm/decisions, llm/transport) and the judgement of every       *)
(* finding (decision.go, engine.go through Engine).                        *)
(*                                                                         *)
(* One action is one attempt of one request, or what the layer does        *)
(* between two requests.  The texts of the requests are abstract: a text   *)
(* is the tuple that says what it shows, and has a size.                   *)
(***************************************************************************)
EXTENDS Rules, Engine, FiniteSetsExt

\* What a run starts from: rule files, settings, skill, limits.  The code of the
\* skill is what its program says: at, what stands at a match (Program.At), key,
\* under which the subjects are kept, and trace, the calls a trace lists and if
\* it was cut short.  Trace works it out from the scripts.
CONSTANT Cases

\* Sequences, finite sets and single values, as the parsers of files, rules and
\* settings leave them; config.Validate wants probabilities above zero.
Sequence(s) == s \in Seq(ToSet(s))

OptionLists(o) == \A a \in Rows(o) : \A n \in DOMAIN a.row : Sequence(a.row[n])

RuleFile(r) ==
  /\ {"id", "layer", "category", "severity", "enabled", "interrupt", "judge", "decision",
      "scope", "usages"} \subseteq DOMAIN r
  /\ r.severity \in Nat
  /\ Sequence(r.usages)
  /\ DOMAIN r.judge = {"downgrade", "floor"} /\ r.judge.downgrade \in BOOLEAN
  /\ \A d \in r.decision :
       /\ DOMAIN d = {"questions", "outcome"}
       /\ IsFiniteSet(DOMAIN d.questions)
       /\ \A n \in DOMAIN d.questions :
            /\ {"subject", "text", "options", "focus", "chars"} \subseteq DOMAIN d.questions[n]
            /\ d.questions[n].chars \in Nat
       /\ DOMAIN d.outcome.severity \subseteq Nat /\ OptionLists(d.outcome)

SettingFile(s) ==
  /\ s.severity \subseteq Severities /\ s.floor \subseteq Floors
  /\ s.downgrade \subseteq BOOLEAN

Trailing == 2   \* the newlines that end the text of a place

\* What a skill holds when the layer starts: a finding has been asked about in an
\* earlier run or not, a value is that of one reference (refcheck adds to the one
\* it has), the text of a line ends with the newlines that are cut from it, and
\* the block around a line holds the line.
SkillOK(s) ==
  /\ Sequence(s.findings) /\ Sequence(s.refs)
  /\ \A i \in DOMAIN s.findings : LET f == s.findings[i] IN
       /\ f.state \in States /\ f.decision \in {{}, {<< >>}}
       /\ Sequence(f.matches)
       /\ \A m \in ToSet(f.matches) : \A of \in BOOLEAN :
            IsFiniteSet(s.code.at[[path |-> f.at.file, match |-> m, ofCall |-> of]])
  /\ \A i \in DOMAIN s.refs :
       /\ Sequence(s.refs[i].at) /\ \A l \in ToSet(s.refs[i].at) : l.line \in Nat
       /\ \A k \in DOMAIN s.refs : s.refs[i].value = s.refs[k].value => i = k
  /\ s.fixed \in Nat
  /\ \A file \in DOMAIN s.lines : \A line \in 1..s.lines[file] :
       LET at == <<file, line>> IN
         /\ s.size[at] \in {n \in Nat : n >= Trailing}
         /\ {s.block[at][1], s.block[at][2]} \subseteq Nat
         /\ line \in s.block[at][1]..s.block[at][2]

CaseOK(c) ==
  /\ c.bars.confirm \in Nat \ {0} /\ c.bars.dismiss \in Nat \ {0}
  /\ c.maxState \in Nat /\ c.maxRequest \in Nat
  /\ Sequence(c.files)
  /\ \A i \in DOMAIN c.files :
       /\ Sequence(c.files[i].rules)
       /\ \A r \in ToSet(c.files[i].rules) : RuleFile(r)
  /\ \A l \in DOMAIN c.byLayer : \A id \in DOMAIN c.byLayer[l] : SettingFile(c.byLayer[l][id])
  /\ SkillOK(c.skill)

ASSUME DecisionAssumption == \A c \in Cases : CaseOK(c)

VARIABLES
  case,        \* one of Cases
  set,         \* Set.ByID, empty before the rules are loaded
  pc,          \* "load", "usages", "findings", "done", "refused"
  turn,        \* the reference or finding at hand
  busy,        \* it is being asked about
  group,       \* the group asked about for it, as a set of at most one
  requests,    \* what is to be asked for it
  got,         \* the replies so far, one map per request
  attempt,     \* attempts made of the request at hand
  err,         \* r.err # nil
  ctx,         \* the layer's context: "live" or "done"
  asked,       \* r.report.Requests
  refGroups,   \* r.refGroups, by the value of the reference
  ruleGroups,  \* r.ruleGroups, by rule and target
  findings,    \* State.Findings
  raised,      \* the local of usages()
  usages,      \* Report.Usages, by the value of the reference
  brief,       \* what the brief shows of them
  covers       \* State.covers

work == <<busy, group, requests, got, attempt>>
memory == <<refGroups, ruleGroups, raised, usages, covers>>
vars == <<case, set, pc, turn, work, err, ctx, asked, memory, findings, brief>>

skill == case.skill
RuleOf(f) == set[f.rule]
TableOf(r) == CHOOSE d \in r.decision : TRUE

Retries == 2          \* transport: a request is sent up to three times

\* The elements of s at the indices in I, in their order.
Picked(s, I) ==
  LET pick[k \in 0..Len(s)] ==
        IF k = 0 THEN << >>
        ELSE IF k \in I THEN Append(pick[k - 1], s[k]) ELSE pick[k - 1]
  IN  pick[Len(s)]

Positions(s) == [k \in DOMAIN s |-> k]

Put(f, x, v) == [y \in DOMAIN f \cup {x} |-> IF y = x THEN v ELSE f[y]]

\* The element of a set of one.
The(s) == CHOOSE x \in s : TRUE

-----------------------------------------------------------------------------
(* Questions and what they are asked about. *)

\* asked: the questions of a subject, in an order no reply depends on.
Named(d, subject) ==
  SetToSeq({[name |-> n, question |-> d.questions[n]] :
              n \in {m \in DOMAIN d.questions : d.questions[m].subject = subject}})

SubjectsOf(d) == {d.questions[n].subject : n \in DOMAIN d.questions}

Content(q) == <<q.text, q.focus, q.options>>
Same(a, b) == Content(a) = Content(b)

\* A query: its id in the request, and what the model is asked with it.
Query(id, q, about, shown) ==
  [id |-> id, chars |-> q.chars, asks |-> <<Content(q), about, shown>>]

Skipped(queries, reason) ==
  [id \in {queries[k].id : k \in DOMAIN queries} |-> [NoReply EXCEPT !.skipped = reason]]

Frame(loc) ==
  loc.file \in DOMAIN skill.lines /\ loc.line \in 1..skill.lines[loc.file]

Spot(loc) == <<loc.file, loc.line>>

-----------------------------------------------------------------------------
(* Groups: the places of one thing, and the questions asked at each.        *)

\* A defect: a group has one question of a name, whatever it asks.
KnownByName(q, n) == q.origin = n.name

Known(q, n) == q.origin = n.name /\ Same(q.question, n.question)

\* group.want: the question is added once, under a name of its own; Wanted is
\* the id it returns.
Want(g, n) ==
  LET taken == \E k \in DOMAIN g.questions : g.questions[k].id = <<n.name, 0>>
      id == <<n.name, IF taken THEN Len(g.questions) + 1 ELSE 0>>
  IN  IF \E k \in DOMAIN g.questions : Known(g.questions[k], n) THEN g
      ELSE [g EXCEPT !.questions =
              Append(@, [id |-> id, origin |-> n.name, question |-> n.question])]

Wanted(g, n) ==
  g.questions[SelectInSeq(g.questions, LAMBDA q : Known(q, n))].id

WantAll(g, names) ==
  LET all[k \in 0..Len(names)] == IF k = 0 THEN g ELSE Want(all[k - 1], names[k])
  IN  all[Len(names)]

\* target: the name the evidence of a finding ends with.
Target(r, f) == IF r.kind = "llm" THEN r.title ELSE skill.names[f.about]

\* A defect: the groups of a rule are not told apart.
GroupKeyOfRule(f) == <<f.rule, "none">>

GroupKey(f) == <<f.rule, Target(RuleOf(f), f)>>

Undecided(f) == f.state = "none" /\ f.decision = {}

RuleGroup(f) ==
  LET r == RuleOf(f)
      others == Picked(findings, {k \in DOMAIN findings :
                  LET o == findings[k]
                  IN  /\ o.rule = f.rule /\ Undecided(o)
                      /\ Target(r, o) = Target(r, f) /\ Frame(o.at)})
      empty == [subject |-> Target(r, f), questions |-> << >>, replies |-> << >>,
                places |-> [k \in DOMAIN others |->
                  [id |-> k, at |-> Spot(others[k].at), locations |-> {},
                   size |-> skill.size[Spot(others[k].at)]]]]
  IN  WantAll(empty, Named(TableOf(r), "places"))

\* referencePlaces: a place per text, with the locations that show it.
RefPlaces(ref) ==
  LET shown(j) == <<Spot(ref.at[j]), skill.feeds[Spot(ref.at[j])]>>
      seen == Picked(Positions(ref.at), {j \in DOMAIN ref.at :
                Frame(ref.at[j]) /\ \A k \in 1..(j - 1) : shown(k) # shown(j)})
  IN  [k \in DOMAIN seen |->
         [id |-> seen[k], at |-> Spot(ref.at[seen[k]]),
          locations |-> {j \in DOMAIN ref.at : shown(j) = shown(seen[k])},
          size |-> skill.size[Spot(ref.at[seen[k]])]]]

Categorized(ref) == ~ref.derived /\ ref.kind # "package"

UsageQuestion == [name |-> Usage, question |-> Template(Usage)]

RefQuestions(ref) ==
  LET mine == Picked(findings, {k \in DOMAIN findings :
                LET f == findings[k]
                IN  /\ f.reference = ref.value /\ RuleOf(f).layer = "references"
                    /\ RuleOf(f).decision # {} /\ Undecided(f)})
  IN  (IF Categorized(ref) THEN <<UsageQuestion>> ELSE << >>)
        \o FlattenSeq([k \in DOMAIN mine |-> Named(TableOf(RuleOf(mine[k])), "places")])

\* referenceGroup: nothing to ask about, no group.
RefGroup(ref) ==
  IF ref.derived \/ ref.at = << >> \/ RefQuestions(ref) = << >> THEN {}
  ELSE {WantAll([subject |-> ref.value, questions |-> << >>, replies |-> << >>,
                 places |-> RefPlaces(ref)], RefQuestions(ref))}

-----------------------------------------------------------------------------
(* Requests. *)

Smaller(a, b) == IF a < b THEN a ELSE b

Cost(g) == Sum([k \in DOMAIN g.questions |-> g.questions[k].question.chars])

\* A defect: the size of the batch is not carried over to the next place.
BatchUncounted(g, acc, k) ==
  LET over == skill.fixed + g.places[k].size > case.maxState
  IN  IF over /\ acc.batch # << >>
      THEN [acc EXCEPT !.full = Append(@, acc.batch), !.batch = <<k>>]
      ELSE [acc EXCEPT !.batch = Append(@, k)]

\* One turn of askAll's loop: acc is what it has sent and what it is filling.
Batch(g, acc, k) ==
  LET size == g.places[k].size
      over == \/ acc.text + size > case.maxState
              \/ acc.total + size + Cost(g) > case.maxRequest
      flush == over /\ acc.batch # << >>
      from == IF flush THEN [text |-> skill.fixed, total |-> skill.fixed] ELSE acc
  IN  [full  |-> IF flush THEN Append(acc.full, acc.batch) ELSE acc.full,
       batch |-> IF flush THEN <<k>> ELSE Append(acc.batch, k),
       text  |-> from.text + size + 1,
       total |-> from.total + size + 1 + Cost(g)]

Batches(g) ==
  LET none == [full |-> << >>, batch |-> << >>, text |-> skill.fixed, total |-> skill.fixed]
      filled[k \in 0..Len(g.places)] == IF k = 0 THEN none ELSE Batch(g, filled[k - 1], k)
      all == filled[Len(g.places)]
  IN  IF all.batch = << >> THEN all.full ELSE Append(all.full, all.batch)

\* The text askPlaces sends: the texts of the places without their trailing
\* newlines, an empty line between two.
BatchSize(g, batch) ==
  skill.fixed + Sum([k \in DOMAIN batch |-> g.places[batch[k]].size - Trailing])
    + 2 * (Len(batch) - 1)

Request(subject, label, skip, size, queries) ==
  [subject |-> subject, label |-> label, skip |-> skip, queries |-> queries, places |-> 0,
   cut |-> size > case.maxState,
   size |-> Smaller(size, case.maxState) + Sum([k \in DOMAIN queries |-> queries[k].chars])]

\* askPlaces: every question of the group at every place of the batch.
PlaceRequest(g, batch) ==
  LET queries == FlattenSeq([b \in DOMAIN batch |-> [k \in DOMAIN g.questions |->
                   Query(<<g.places[batch[b]].id, g.questions[k].id>>, g.questions[k].question,
                         g.subject, <<"place", g.places[batch[b]].at>>)]])
  IN  [Request("places", "none", "none", BatchSize(g, batch), queries) EXCEPT !.places = Len(batch)]

GroupRequests(g) == [b \in DOMAIN Batches(g) |-> PlaceRequest(g, Batches(g)[b])]

Asks(names, about, shown) ==
  [k \in DOMAIN names |-> Query(names[k].name, names[k].question, about, shown)]

\* stateOf and single: one text, or the reason there is none.
Single(f, subject, state) ==
  LET names == Named(TableOf(RuleOf(f)), subject)
      one(skip, size, shown) == <<Request(subject, "none", skip, size, Asks(names, f.about, shown))>>
      spot == Spot(f.at)
  IN  CASE state = "frame" -> IF Frame(f.at) THEN one("none", skill.size[spot], <<"frame", spot>>)
                              ELSE one("no-line", 0, << >>)
        [] state = "entry" -> IF skill.entry > 0
                              THEN one("none", Smaller(skill.entry, case.maxState), <<"entry", spot>>)
                              ELSE one("no-entry", 0, << >>)
        [] state = "facts" ->
             IF f.reference # "none" /\ \E k \in DOMAIN skill.refs : skill.refs[k].value = f.reference
             THEN one("none", skill.facts, <<"facts", f.reference>>)
             ELSE one("no-reference", 0, << >>)

\* traced: a request per linked value, or the frame of a finding without one.
Traced(f) ==
  LET names == Named(TableOf(RuleOf(f)), "trace")
      label(k) == IF Len(f.linked) > 1 THEN <<"T", k>> ELSE "none"
      called(sub) == skill.code.trace[sub].calls # {}
      one(k) == LET sub == f.linked[k]
                IN  Request("trace", label(k),
                            IF called(sub) THEN "none" ELSE "no-call",
                            skill.trace, Asks(names, sub, <<"trace", sub>>))
  IN  IF f.linked = << >> THEN Single(f, "trace", "frame")
      ELSE [k \in DOMAIN f.linked |-> one(k)]

\* What evidence() asks for finding f, in the order it asks it; g is the group
\* that is asked about for it, if there is one.
GroupsRequests(g) == IF g = {} THEN << >> ELSE GroupRequests(The(g))

RequestsAbout(f, g, s) ==
  IF s \notin SubjectsOf(TableOf(RuleOf(f))) THEN << >>
  ELSE CASE s = "places" -> GroupsRequests(g)
         [] s = "trace"  -> Traced(f)
         [] OTHER        -> Single(f, s, s)

RequestsFor(f, g) ==
  RequestsAbout(f, g, "entry") \o RequestsAbout(f, g, "facts")
    \o RequestsAbout(f, g, "frame") \o RequestsAbout(f, g, "places")
    \o RequestsAbout(f, g, "trace")

-----------------------------------------------------------------------------
(* What the layer does between two requests. *)

\* The subjects the matches of a finding ask for.
AsksOf(f) ==
  LET table == set'[f.rule].decision
      ofCall == \E d \in table : \E n \in DOMAIN d.questions : d.questions[n].from = "call"
  IN  [k \in DOMAIN f.matches |->
         [path |-> f.at.file, match |-> f.matches[k], ofCall |-> ofCall]]

\* Program.subjects: of the subjects asked for, the first at its place; one is
\* asked for by a match, in path, of a rule that may ask for the call.
KeyOf(s) == skill.code.key[s]
SubjectsMade(asks) ==
  LET all == FlattenSeq([k \in DOMAIN asks |-> SetToSeq(skill.code.at[asks[k]])])
  IN  {all[k] : k \in {j \in DOMAIN all : \A i \in 1..(j - 1) : KeyOf(all[i]) # KeyOf(all[j])}}
SubjectOf(made, ask) == {m \in made : \E s \in skill.code.at[ask] : KeyOf(m) = KeyOf(s)}

\* link and State.Linked: none when one of the matches in its line has none.
LinkedBy(f, made) ==
  LET found == [k \in DOMAIN f.matches |-> SubjectOf(made, AsksOf(f)[k])]
      each == FlattenSeq([k \in DOMAIN found |-> SetToSeq(found[k])])
  IN  IF {} \in ToSet(found) THEN << >>
      ELSE Picked(each, {j \in DOMAIN each : \A i \in 1..(j - 1) : each[i] # each[j]})

Fresh(f, made) ==
  [rule |-> f.rule, severity |-> set'[f.rule].severity, state |-> f.state, at |-> f.at,
   about |-> f.about, reference |-> f.reference, linked |-> LinkedBy(f, made),
   decision |-> f.decision]

Init ==
  /\ case \in Cases
  /\ set = << >> /\ pc = "load" /\ turn = 1
  /\ busy = FALSE /\ group = {} /\ requests = << >> /\ got = << >> /\ attempt = 0
  /\ err = FALSE /\ ctx = "live" /\ asked = 0
  /\ refGroups = << >> /\ ruleGroups = << >>
  /\ findings = << >> /\ raised = << >>
  /\ usages = << >> /\ brief = << >> /\ covers = {}

\* rules.Load, then the layers before this one: they report what their enabled
\* rules find.
LoadRules ==
  /\ pc = "load"
  /\ IF Loads(case.files, case.byLayer)
       THEN /\ set' = Load(case.files, case.byLayer).byID
            /\ pc' = IF case.late THEN "findings" ELSE "usages"
            /\ findings' = LET on == Picked(skill.findings, {k \in DOMAIN skill.findings :
                                       /\ skill.findings[k].rule \in DOMAIN set'
                                       /\ set'[skill.findings[k].rule].enabled})
                               made == SubjectsMade(FlattenSeq([k \in DOMAIN on |-> AsksOf(on[k])]))
                           IN  [k \in DOMAIN on |-> Fresh(on[k], made)]
       ELSE pc' = "refused" /\ UNCHANGED <<set, findings>>
  /\ UNCHANGED <<case, turn, work, err, ctx, asked, memory, brief>>

\* The layer turns to a reference or a finding, and is through with it.
TurnTo(g, rs) ==
  /\ busy' = TRUE /\ group' = g /\ requests' = rs /\ got' = << >> /\ attempt' = 0
  /\ turn' = turn

Through ==
  /\ busy' = FALSE /\ group' = {} /\ requests' = << >> /\ got' = << >> /\ attempt' = 0
  /\ turn' = turn + 1

AskReference ==
  /\ pc = "usages" /\ ~busy /\ turn <= Len(skill.refs)
  /\ LET g == RefGroup(skill.refs[turn])
     IN  IF g = {} THEN Through
         ELSE TurnTo(g, GroupsRequests(g))
  /\ UNCHANGED <<case, set, pc, err, ctx, asked, memory, findings, brief>>

\* A group of a rule is asked about when the first of its findings is judged.
NewGroup(f) ==
  IF /\ "places" \in SubjectsOf(TableOf(RuleOf(f)))
     /\ RuleOf(f).layer # "references" /\ GroupKey(f) \notin DOMAIN ruleGroups
  THEN {RuleGroup(f)} ELSE {}

Pending(f) == Undecided(f) /\ RuleOf(f).decision # {}

\* A defect: a finding that was asked about in an earlier run is asked about again.
AskAgain ==
  /\ pc = "findings" /\ ~busy /\ turn <= Len(findings)
  /\ IF findings[turn].state = "none" /\ RuleOf(findings[turn]).decision # {}
       THEN TurnTo(NewGroup(findings[turn]), RequestsFor(findings[turn], NewGroup(findings[turn])))
       ELSE Through
  /\ UNCHANGED <<case, set, pc, err, ctx, asked, memory, findings, brief>>

AskFinding ==
  /\ pc = "findings" /\ ~busy /\ turn <= Len(findings)
  /\ IF Pending(findings[turn])
       THEN TurnTo(NewGroup(findings[turn]), RequestsFor(findings[turn], NewGroup(findings[turn])))
       ELSE Through
  /\ UNCHANGED <<case, set, pc, err, ctx, asked, memory, findings, brief>>

-----------------------------------------------------------------------------
(* One request: ask, Decide, Post. *)

Asking == busy /\ Len(got) < Len(requests)
Current == requests[Len(got) + 1]

Unsent(r) ==
  IF r.skip # "none" THEN r.skip
  ELSE IF r.size > case.maxRequest THEN "oversized"
  ELSE IF err THEN "failed" ELSE "none"

Waiting == UNCHANGED <<case, set, pc, turn, busy, group, requests, memory, findings, brief>>

SkipRequest ==
  /\ Asking /\ Unsent(Current) # "none"
  /\ got' = Append(got, Skipped(Current.queries, Unsent(Current)))
  /\ Waiting /\ UNCHANGED <<attempt, err, ctx, asked>>

Fail ==
  /\ got' = Append(got, Skipped(Current.queries, "request-failed"))
  /\ attempt' = 0 /\ asked' = asked + 1 /\ err' = TRUE

\* What the model may answer to a query; it answers the last of one id.
Answers(q) ==
  {[skipped |-> "none", mass |-> a.mass, choice |-> a.choice, of |-> q.asks] :
     a \in case.replies[q.asks[1][1]]}
  \cup (IF case.gaps THEN {[NoReply EXCEPT !.skipped = "unanswered"]} ELSE {})

QueryOf(r, id) == r.queries[SelectLastInSeq(r.queries, LAMBDA q : q.id = id)]

Sending == Asking /\ Unsent(Current) = "none" /\ ctx = "live"

Answer ==
  /\ Sending
  /\ LET ids == {q.id : q \in ToSet(Current.queries)}
     IN  \E replies \in [ids -> UNION {Answers(q) : q \in ToSet(Current.queries)}] :
           /\ \A id \in ids : replies[id] \in Answers(QueryOf(Current, id))
           /\ got' = Append(got, replies)
  /\ attempt' = 0 /\ asked' = asked + 1
  /\ Waiting /\ UNCHANGED <<err, ctx>>

\* A defect: the attempts start over and over.
UnavailableAgain ==
  /\ Sending /\ case.faults
  /\ attempt' = (attempt + 1) % 2
  /\ Waiting /\ UNCHANGED <<got, err, asked, ctx>>

\* The service cannot be reached or says to come back: two more attempts.
Unavailable ==
  /\ Sending /\ case.faults
  /\ IF attempt < Retries
       THEN attempt' = attempt + 1 /\ UNCHANGED <<got, err, asked>>
       ELSE Fail
  /\ Waiting /\ UNCHANGED ctx

\* An error of the client, or an answer that is no JSON, is final.
Refuse ==
  /\ Sending /\ case.faults
  /\ Fail
  /\ Waiting /\ UNCHANGED ctx

\* A request under a context that is done fails, and so does the wait for the
\* next attempt.
GiveUp ==
  /\ Asking /\ Unsent(Current) = "none" /\ ctx = "done"
  /\ Fail
  /\ Waiting /\ UNCHANGED ctx

ContextEnds ==
  /\ case.ends /\ pc \in {"usages", "findings"} /\ ctx = "live"
  /\ ctx' = "done"
  /\ UNCHANGED <<case, set, pc, turn, work, err, asked, memory, findings, brief>>

-----------------------------------------------------------------------------
(* The usages of a reference. *)

Answered == busy /\ Len(got) = Len(requests)

\* The places' replies: what each batch answered.
WithReplies(g) ==
  LET mine == {k \in DOMAIN got : requests[k].places > 0}
      from(x) == The({k \in mine : x \in DOMAIN got[k]})
  IN  [g EXCEPT !.replies = [x \in UNION {DOMAIN got[k] : k \in mine} |-> got[from(x)][x]]]

PlaceReply(g, p, id) ==
  IF <<p.id, id>> \in DOMAIN g.replies THEN g.replies[<<p.id, id>>]
  ELSE [NoReply EXCEPT !.skipped = "not-asked"]

Unplaced == [choice |-> "unknown", mass |-> 0, reply |-> NoReply]

\* classify: the usage at each location.
Classify(ref, g) ==
  LET id == Wanted(g, UsageQuestion)
      at(j) == {k \in DOMAIN g.places : j \in g.places[k].locations}
      one(j) == LET r == PlaceReply(g, g.places[CHOOSE k \in at(j) : TRUE], id)
                IN  IF at(j) = {} \/ r.choice \notin Templates[Usage].options THEN Unplaced
                    ELSE [choice |-> r.choice, mass |-> Mass(r, <<r.choice>>), reply |-> r]
  IN  [j \in DOMAIN ref.at |-> IF at(j) = {} THEN Unplaced ELSE one(j)]

Sure(a) == a.mass >= case.bars.dismiss

UsageRules ==
  [u \in {"agent-instructions", "agent-install", "agent-upload", "tool-server"} |->
     CASE u = "agent-instructions" -> "REMOTE-INSTRUCTIONS-FOLLOWED"
       [] u = "agent-install"      -> "REMOTE-CODE-AT-INSTALL"
       [] u = "agent-upload"       -> "REMOTE-ENDPOINT-UPLOAD-HIDDEN"
       [] u = "tool-server"        -> "TOOL-SERVER-REMOTE-HIDDEN"]
Untrusted == "TOOL-SERVER-UNTRUSTED"

On(id) == id \in DOMAIN set /\ set[id].enabled

Raised(id, loc, ref, decision) ==
  [rule |-> id, severity |-> set[id].severity, state |-> "none", at |-> loc,
   about |-> <<"line", Spot(loc)>>, reference |-> ref.value, linked |-> << >>,
   decision |-> decision]

\* State.Restated: the text rule of the same name reported the line.
Restated(id, loc) ==
  /\ id \in DOMAIN case.twins /\ case.twins[id] \in DOMAIN set
  /\ set[case.twins[id]].severity >= set[id].severity
  /\ \E k \in DOMAIN findings :
       /\ findings[k].rule = case.twins[id] /\ findings[k].at.file = loc.file
       /\ loc.line \in findings[k].at.line..findings[k].at.end

Silent(ref, id, loc, serverFound) ==
  \/ id = UsageRules["tool-server"] /\ (serverFound \/ ref.kind \notin {"domain", "address"})
  \/ Restated(id, loc)

\* raise: a finding per rule at most, at the first place that is not silent.
RaiseAt(ref, answers, j) ==
  answers[j].choice \in DOMAIN UsageRules /\ On(UsageRules[answers[j].choice])
    /\ Sure(answers[j])

RaisedBy(ref, answers, serverFound) ==
  LET id(j) == UsageRules[answers[j].choice]
      told(j) == RaiseAt(ref, answers, j) /\ ~Silent(ref, id(j), ref.at[j], serverFound)
      firsts == Picked(Positions(ref.at), {j \in DOMAIN ref.at :
                  told(j) /\ \A k \in 1..(j - 1) : told(k) => id(k) # id(j)})
      how(j) == IF set[id(j)].decision # {} THEN {}
                ELSE {[places |-> <<[label |-> j, replies |->
                                       [n \in {Usage} |-> answers[j].reply]]>>]}
  IN  [k \in DOMAIN firsts |->
         Raised(id(firsts[k]), ref.at[firsts[k]], ref, how(firsts[k]))]

\* cover: the block around every place that means a rule of this kind.
Block(loc) == IF Frame(loc) THEN skill.block[Spot(loc)] ELSE <<loc.line, loc.line>>

CoveredBy(ref, answers) ==
  {[rule |-> UsageRules[answers[j].choice], file |-> ref.at[j].file,
    first |-> Block(ref.at[j])[1], last |-> Block(ref.at[j])[2]] :
     j \in {k \in DOMAIN ref.at : RaiseAt(ref, answers, k)}}

\* server: a tool server whose reference also has a fact above low.
Facts(ref) ==
  {findings[k].rule : k \in {m \in DOMAIN findings :
     findings[m].reference = ref.value /\ RuleOf(findings[m]).layer = "references"
       /\ RuleOf(findings[m]).severity > Low}}

Server(ref, answers) ==
  LET at == SelectInSeq(answers, LAMBDA a : a.choice = "tool-server" /\ Sure(a))
  IN  IF ~On(Untrusted) \/ at = 0 \/ Facts(ref) = {} THEN << >>
      ELSE <<Raised(Untrusted, ref.at[at], ref, {})>>

ConcludeReference ==
  /\ pc = "usages" /\ Answered
  /\ LET ref == skill.refs[turn]
         g == WithReplies(The(group))
         answers == Classify(ref, g)
         server == Server(ref, answers)
     IN  /\ refGroups' = Put(refGroups, ref.value, g)
         /\ IF ~Categorized(ref) THEN UNCHANGED <<raised, usages, covers>>
            ELSE /\ raised' = raised \o RaisedBy(ref, answers, server # << >>) \o server
                 /\ covers' = covers \cup CoveredBy(ref, answers)
                 /\ usages' = Put(usages, ref.value, [j \in DOMAIN answers |->
                      IF answers[j].choice # "unknown" /\ Sure(answers[j])
                      THEN answers[j].choice ELSE "none"])
  /\ Through
  /\ UNCHANGED <<case, set, pc, err, ctx, asked, ruleGroups, findings, brief>>

\* A defect: one finding of a rule is kept, wherever it is.
KeyOfRule(f) == <<f.rule>>

\* finding.Dedup: the first finding of a rule at a line.
Key(f) == <<f.rule, f.at.file, f.at.line>>
Dedup(fs) ==
  Picked(fs, {k \in DOMAIN fs : \A j \in 1..(k - 1) : Key(fs[j]) # Key(fs[k])})

UsagesDone ==
  /\ pc = "usages" /\ ~busy /\ turn > Len(skill.refs)
  /\ findings' = findings \o Dedup(raised)
  /\ ctx' = IF \E k \in DOMAIN raised : RuleOf(raised[k]).interrupt THEN "done" ELSE ctx
  /\ brief' = IF skill.brief THEN usages ELSE brief
  /\ pc' = "findings" /\ turn' = 1
  /\ UNCHANGED <<case, set, work, err, asked, memory>>

-----------------------------------------------------------------------------
(* The judgement of a finding. *)

\* The group a finding's places are in, by now.
GroupsNow == IF group = {} THEN ruleGroups
             ELSE Put(ruleGroups, GroupKey(findings[turn]), WithReplies(The(group)))

PlacesOf(f, g) ==
  IF RuleOf(f).layer = "references" THEN g.places
  ELSE LET at == SelectLastInSeq(g.places, LAMBDA p : p.at = Spot(f.at))
       IN  IF at = 0 THEN << >> ELSE <<g.places[at]>>

HasGroup(f) ==
  IF RuleOf(f).layer = "references" THEN f.reference \in DOMAIN refGroups ELSE TRUE

GroupOf(f) ==
  IF RuleOf(f).layer = "references" THEN refGroups[f.reference] ELSE GroupsNow[GroupKey(f)]

\* run.places: an instance per place; a question the group has not asked is
\* added to the group, and not asked.
PlaceInstances(f) ==
  LET names == Named(TableOf(RuleOf(f)), "places")
      g == WantAll(GroupOf(f), names)
      none == <<[label |-> "none", replies |->
                  [n \in {names[k].name : k \in DOMAIN names} |->
                     [NoReply EXCEPT !.skipped = "no-line"]]]>>
      one(p) == [label |-> p.id, replies |->
                  [n \in {names[k].name : k \in DOMAIN names} |->
                     PlaceReply(g, p, Wanted(g, names[SelectInSeq(names, LAMBDA m : m.name = n)]))]]
  IN  IF ~HasGroup(f) \/ PlacesOf(f, GroupOf(f)) = << >> THEN none
      ELSE [k \in DOMAIN PlacesOf(f, g) |-> one(PlacesOf(f, g)[k])]

SingleInstances(s) ==
  LET mine == Picked(Positions(got), {k \in DOMAIN got : requests[k].subject = s})
  IN  [k \in DOMAIN mine |-> [label |-> requests[mine[k]].label, replies |-> got[mine[k]]]]

Evidence(f) ==
  [s \in SubjectsOf(TableOf(RuleOf(f))) |->
     IF s = "places" THEN PlaceInstances(f) ELSE SingleInstances(s)]

Judge(f, e) ==
  LET v == JudgeFinding(e, RuleOf(f), f.severity, case.bars)
  IN  IF v = NoVerdict THEN [f EXCEPT !.decision = {e}]
      ELSE [f EXCEPT !.decision = {e}, !.severity = v.severity, !.state = v.state]

\* The group with the questions this finding added to it.
Asked(f, key, groups) ==
  [groups EXCEPT ![key] = WantAll(@, Named(TableOf(RuleOf(f)), "places"))]

ConcludeFinding ==
  /\ pc = "findings" /\ Answered
  /\ LET f == findings[turn]
         placed == "places" \in SubjectsOf(TableOf(RuleOf(f))) /\ HasGroup(f)
     IN  /\ findings' = [findings EXCEPT ![turn] = Judge(f, Evidence(f))]
         /\ IF placed /\ RuleOf(f).layer = "references"
              THEN refGroups' = Asked(f, f.reference, refGroups) /\ ruleGroups' = ruleGroups
            ELSE IF placed
              THEN ruleGroups' = Asked(f, GroupKey(f), GroupsNow) /\ refGroups' = refGroups
            ELSE UNCHANGED <<refGroups, ruleGroups>>
  /\ Through
  /\ UNCHANGED <<case, set, pc, err, ctx, asked, raised, usages, covers, brief>>

Return ==
  /\ pc = "findings" /\ ~busy /\ turn > Len(findings)
  /\ pc' = "done"
  /\ UNCHANGED <<case, set, turn, work, err, ctx, asked, memory, findings, brief>>

-----------------------------------------------------------------------------
Step ==
  \/ LoadRules \/ AskReference \/ AskFinding
  \/ SkipRequest \/ Answer \/ Unavailable \/ Refuse \/ GiveUp
  \/ ConcludeReference \/ UsagesDone \/ ConcludeFinding \/ Return

Over == pc \in {"done", "refused"} /\ UNCHANGED vars

Next == Step \/ ContextEnds \/ Over

\* The layer is sequential and every request has a timeout: weak fairness of
\* Step, written out because Step is enabled exactly while the layer runs.
Running == pc \notin {"done", "refused"}
Fairness == []<>~Running \/ []<><<Step>>_vars

Spec == Init /\ [][Next]_vars /\ Fairness

-----------------------------------------------------------------------------
(* Properties. *)

TypeOK ==
  /\ pc \in {"load", "usages", "findings", "done", "refused"}
  /\ turn \in Nat \ {0} /\ busy \in BOOLEAN /\ err \in BOOLEAN
  /\ ctx \in {"live", "done"} /\ asked \in Nat
  /\ attempt \in 0..Retries /\ Len(got) <= Len(requests)
  /\ Cardinality(group) <= 1
  /\ \A k \in DOMAIN findings :
       /\ findings[k].severity \in Severities /\ findings[k].state \in States
       /\ Cardinality(findings[k].decision) <= 1

(* askAll counts the size of a batch while it fills it and askPlaces builds  *)
(* the text afterwards: a request for several places is never cut short at   *)
(* maxStateChars, which would hide a place from the model, and never refused *)
(* for its size (places.go, ask.go).                                         *)
BatchesFit ==
  \A k \in DOMAIN requests :
    requests[k].places > 1 => ~requests[k].cut /\ requests[k].size <= case.maxRequest

\* The evidence of the findings judged in this run.
JudgedHere == {k \in DOMAIN findings : \E e \in findings[k].decision : e # << >>}
EvidenceOf(f) == CHOOSE e \in f.decision : TRUE

\* Where an answer about finding f, under a subject, may have looked.
ShownFor(f, s) ==
  CASE s = "places" ->
         IF RuleOf(f).layer = "references"
         THEN {<<"place", Spot(l)>> : l \in UNION {ToSet(skill.refs[k].at) :
                 k \in {m \in DOMAIN skill.refs : skill.refs[m].value = f.reference}}}
         ELSE {<<"place", Spot(f.at)>>}
    [] s = "trace" -> {<<"trace", f.linked[k]>> : k \in DOMAIN f.linked}
                        \cup {<<"frame", Spot(f.at)>>}
    [] s = "facts" -> {<<"facts", f.reference>>}
    [] OTHER -> {<<s, Spot(f.at)>>}

(* Groups ask once for many findings, number the places and rename questions *)
(* of one name: whatever a finding is judged by is the model's answer to     *)
(* this very question of its rule, at its own line, at a place of its        *)
(* reference, or about a value linked to it (places.go, usage.go, ask.go).   *)
AnswersAreOwn ==
  \A k \in JudgedHere : LET f == findings[k] IN
    RuleOf(f).decision # {} =>
      \A s \in DOMAIN EvidenceOf(f) : \A j \in DOMAIN EvidenceOf(f)[s] :
        LET in == EvidenceOf(f)[s][j]
        IN  \A n \in DOMAIN in.replies :
              in.replies[n].skipped = "none" =>
                /\ in.replies[n].of[1] = Content(TableOf(RuleOf(f)).questions[n])
                /\ in.replies[n].of[3] \in ShownFor(f, s)

(* A place whose line exists is asked about, once, for every finding there:  *)
(* no finding is judged without its answer because another one made the      *)
(* group (places.go:117).                                                    *)
EveryPlaceIsAsked ==
  \A k \in JudgedHere : LET f == findings[k] IN
    (RuleOf(f).layer # "references" /\ RuleOf(f).decision # {} /\ Frame(f.at)) =>
      \A s \in DOMAIN EvidenceOf(f) : s = "places" =>
        \A n \in DOMAIN EvidenceOf(f)[s][1].replies :
          EvidenceOf(f)[s][1].replies[n].skipped \notin
            {"no-line", "not-asked"}

\* The engine said once more, place by place, as docs/user/detection.md puts it.
Picks(e) ==
  {c \in [DOMAIN e -> UNION {DOMAIN e[s] : s \in DOMAIN e}] :
     \A s \in DOMAIN e : c[s] \in DOMAIN e[s]}
Seen(e, c, q) ==
  LET s == {t \in DOMAIN e : q \in DOMAIN e[t][c[t]].replies}
  IN  IF s = {} THEN NoReply ELSE e[CHOOSE t \in s : TRUE][c[CHOOSE t \in s : TRUE]].replies[q]
Holds(e, c, row, bar) ==
  \A q \in DOMAIN row :
    /\ Seen(e, c, q).skipped = "none"
    /\ Sum([o \in DOMAIN row[q] |->
             IF row[q][o] \in DOMAIN Seen(e, c, q).mass THEN Seen(e, c, q).mass[row[q][o]] ELSE 0])
         >= bar
Some(e, c, rows, bar) == \E r \in DOMAIN rows : Holds(e, c, rows[r], bar)

(* A finding takes the worst outcome of its places: it is confirmed when a   *)
(* place confirms it, and a downgrade or dismissal needs a row that matches  *)
(* at every place, no place confirming it, and no place asking for a higher  *)
(* severity; a question without an answer satisfies no row (engine.go).      *)
WorstPlaceWins ==
  \A k \in JudgedHere : RuleOf(findings[k]).decision # {} =>
    LET f == findings[k]
        e == EvidenceOf(f)
        t == TableOf(RuleOf(f)).outcome
        misfired(c) == RuleOf(f).judge.downgrade /\ Some(e, c, t.misfire, case.bars.dismiss)
        confirmed(c) == ~misfired(c) /\ Some(e, c, t.confirm, case.bars.confirm)
        levels(c) == {s \in DOMAIN t.severity : Some(e, c, t.severity[s], case.bars.dismiss)}
        softened(c) ==
          \/ misfired(c)
          \/ /\ ~confirmed(c)
             /\ levels(c) # {} \/ Some(e, c, t.dismiss, case.bars.dismiss)
             /\ \A s \in levels(c) : f.state = "downgraded" /\ s <= f.severity
    IN  /\ (f.state = "confirmed") <=> \E c \in Picks(e) : confirmed(c)
        /\ f.state \in {"downgraded", "dismissed"} =>
             RuleOf(f).judge.downgrade /\ \A c \in Picks(e) : softened(c)
        /\ f.state = "dismissed" =>
             RuleOf(f).judge.floor = NoFloor \/ \A c \in Picks(e) : misfired(c)

\* The rule a usage of reference ref means at its place j, if it has one.
Means(ref, j) ==
  IF ref.value \in DOMAIN usages /\ usages[ref.value][j] \in DOMAIN UsageRules
     /\ On(UsageRules[usages[ref.value][j]])
  THEN {UsageRules[usages[ref.value][j]]} ELSE {}

\* Nothing to tell: the text rule of the same name did, or a repository serves
\* the tools, which is not remote.
NothingToTell(ref, j, id) ==
  \/ Restated(id, ref.at[j])
  \/ id = UsageRules["tool-server"] /\ ref.kind \notin {"domain", "address"}

Tells(f, id) == f.rule = id \/ (f.rule = Untrusted /\ id = UsageRules["tool-server"])

(* A use that means a rule keeps the discovery layer quiet in its block, so  *)
(* it must be told itself: by a finding of that rule, or of TOOL-SERVER-     *)
(* UNTRUSTED, for the reference or at one of its places, unless the text     *)
(* rule of the same name told it (usage.go).                                 *)
UsageIsTold ==
  pc \in {"findings", "done"} =>
    \A ref \in ToSet(skill.refs) : \A j \in DOMAIN ref.at : \A id \in Means(ref, j) :
      /\ \E c \in covers : c.rule = id /\ c.file = ref.at[j].file
                           /\ ref.at[j].line \in c.first..c.last
      /\ NothingToTell(ref, j, id)
         \/ \E f \in ToSet(findings) :
              /\ Tells(f, id)
              /\ f.reference = ref.value \/ \E l \in ToSet(ref.at) : Spot(f.at) = Spot(l)

(* A reference has a finding of every rule its usages mean, "at the first    *)
(* such place" (docs/user/references.md).  The code does not keep this: of   *)
(* two references first used at one line only one has a finding.             *)
EachReferenceTold ==
  pc \in {"findings", "done"} =>
    \A ref \in ToSet(skill.refs) : \A j \in DOMAIN ref.at : \A id \in Means(ref, j) :
      \/ NothingToTell(ref, j, id)
      \/ \E f \in ToSet(findings) : Tells(f, id) /\ f.reference = ref.value

(* "Every call that takes the value is listed, whatever the call is", and a  *)
(* trace that hits its limits says so (docs/user/detection.md): the work     *)
(* over statements, with its budget and its memory of visits, lists exactly  *)
(* the calls the value comes to in the syntax trees (trace/forward.go).      *)
TraceIsWhole ==
  (pc = "findings" /\ turn = 1 /\ ~busy) =>
    \A s \in UNION {ToSet(f.linked) : f \in ToSet(findings)} : s.call = {} =>
      LET t == skill.code.trace[s]
          way == skill.values[s]
      IN  /\ t.calls \subseteq way.owed
          /\ t.truncated \/ way.excused \/ way.owed \subseteq t.calls

\* With the service, the model or the context failing at any point, the layer
\* returns (ask.go, transport.go).
LayerReturns == <>(pc \in {"done", "refused"})

(* The run as Deciding sees it. *)
Abstract == INSTANCE Deciding WITH
  findings <- [k \in DOMAIN findings |->
                 [rule |-> findings[k].rule, severity |-> findings[k].severity,
                  state |-> findings[k].state, decided |-> findings[k].decision # {}]],
  rules <- [id \in DOMAIN set |-> [judge |-> set[id].judge, table |-> set[id].decision # {}]],
  stage <- CASE pc = "load" -> "load" [] pc = "usages" -> "raise"
             [] pc = "findings" -> "decide" [] OTHER -> "over"

\* Raising once, deciding once, and within the policy of the rule.
ImplementsDeciding == Abstract!Spec
=============================================================================
