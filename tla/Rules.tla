------------------------------- MODULE Rules -------------------------------
(***************************************************************************)
(* The rules of a scan: how the rule files and the settings of the         *)
(* configuration become the rule set the layers read (rules/load.go), and  *)
(* what a rule must satisfy to be loaded (rules/rule.go, rules/field.go,   *)
(* rules/decision.go).  Operators only; Decision composes them.            *)
(*                                                                         *)
(* A severity is its rank, 0 for a word that is no severity; a name left   *)
(* empty is "none".  An optional value, a *Decision or an absent setting,  *)
(* is a set of at most one value.  A regular expression and a glob are the *)
(* booleans "compiles" and "globs": whether the rule's are well formed.    *)
(***************************************************************************)
EXTENDS Verdicts, FiniteSets, SequencesExt

CONSTANT Templates   \* data/questions.json: name -> [text, focus, options]

Subjects == {"frame", "places", "trace", "entry", "facts"}
Scopes == {"any", "code", "prose", "link", "none"}
Kinds == {"heuristic", "llm", "fact"}
Usage == "usage"

-----------------------------------------------------------------------------
(* A rule's decision: its own, or the one its usages stand for. *)

UsageOutcome(confirm, severity) ==
  [confirm  |-> <<[n \in {Usage} |-> confirm]>>,
   severity |-> [s \in {n \in {2} : n < severity} |-> <<[n \in {Usage} |-> <<"user-action">>]>>],
   dismiss  |-> <<[n \in {Usage} |-> <<"citation", "documentation">>]>>,
   misfire  |-> << >>]

Usages(confirm, severity) ==
  [questions |-> [n \in {Usage} |->
                    [subject |-> "places", template |-> Usage, from |-> "none",
                     text |-> 0, focus |-> << >>, options |-> {}, chars |-> 1]],
   outcome   |-> UsageOutcome(confirm, severity)]

DecisionOf(r) ==
  IF r.usages # << >> THEN {Usages(r.usages, r.severity)} ELSE r.decision

\* Question.resolve: a question names a template or carries its own text.
Resolves(q) ==
  \/ q.template = "none"
  \/ q.template \in DOMAIN Templates /\ q.text = 0 /\ q.options = {}

Resolve1(q) ==
  IF q.template = "none" THEN q
  ELSE LET t == Templates[q.template]
       IN  [q EXCEPT !.text = t.text, !.options = t.options, !.focus = t.focus \o @]

\* What Template gives classify() and the groups of references.
Template(name) ==
  [subject |-> "none", template |-> name, from |-> "none", text |-> Templates[name].text,
   focus |-> Templates[name].focus, options |-> Templates[name].options, chars |-> 1]

Decides(r) ==
  /\ ~(r.usages # << >> /\ r.decision # {})
  /\ \A d \in DecisionOf(r) : \A n \in DOMAIN d.questions : Resolves(d.questions[n])

WithDecision(r) ==
  [r EXCEPT !.decision =
     {[d EXCEPT !.questions = [n \in DOMAIN @ |-> Resolve1(@[n])]] : d \in DecisionOf(r)}]

-----------------------------------------------------------------------------
(* Outcome.validate. *)

Kinded(kind, rows) == {[kind |-> kind, row |-> rows[i]] : i \in DOMAIN rows}

Rows(o) ==
  Kinded("confirm", o.confirm) \cup Kinded("dismiss", o.dismiss)
    \cup Kinded("misfire", o.misfire)
    \cup UNION {Kinded("severity", o.severity[s]) : s \in DOMAIN o.severity}

LevelsBelow(o, severity) == \A s \in DOMAIN o.severity : s # 0 /\ s < severity

ChecksRow(row, questions) ==
  /\ DOMAIN row # {}
  /\ \A n \in DOMAIN row :
       /\ n \in DOMAIN questions
       /\ row[n] # << >>
       /\ ToSet(row[n]) \subseteq questions[n].options

\* A misfire and a dismissal agree, and so do two rows of one kind.
Conflicting(a, b) == a # b /\ {a, b} \cap {"confirm", "severity"} # {}

Overlap(a, b) ==
  /\ DOMAIN a = DOMAIN b
  /\ \A n \in DOMAIN a : ToSet(a[n]) \cap ToSet(b[n]) # {}

ValidOutcome(o, questions, severity) ==
  /\ LevelsBelow(o, severity)
  /\ \A a \in Rows(o) : ChecksRow(a.row, questions)
  /\ \A a, b \in Rows(o) : Conflicting(a.kind, b.kind) => ~Overlap(a.row, b.row)

ValidQuestion(q) ==
  /\ q.subject \in Subjects
  /\ q.from # "none" => q.from = "call" /\ q.subject = "trace"
  /\ Cardinality(q.options) >= 2

ValidDecision(d, severity) ==
  /\ DOMAIN d.questions # {}
  /\ \A n \in DOMAIN d.questions : ValidQuestion(d.questions[n])
  /\ \A n, m \in DOMAIN d.questions :
       d.questions[n].subject = "trace" /\ d.questions[m].subject = "trace"
         => d.questions[n].from = d.questions[m].from
  /\ ValidOutcome(d.outcome, d.questions, severity)

-----------------------------------------------------------------------------
(* Rule.prepare: the decision, then everything else a rule must satisfy. *)

ValidField(f) ==
  /\ f.question # 0
  /\ Cardinality(f.options) >= 2
  /\ f.accept # {} /\ f.accept \subseteq f.options

ValidFields(r) ==
  /\ r.fields # {} => r.layer = "discovery"
  /\ \A f \in r.fields : ValidField(f)

ValidKind(r) ==
  CASE r.kind = "heuristic" -> r.layer = "static" => r.patterns
    [] r.kind \in {"llm", "fact"} -> ~r.patterns /\ ~r.exclude
    [] OTHER -> FALSE

Valid(r) ==
  /\ r.id # "none" /\ r.layer # "none" /\ r.category
  /\ r.severity \in Severities /\ r.judge.floor \in Floors
  /\ r.scope \in Scopes
  /\ r.globs
  /\ \A d \in r.decision : ValidDecision(d, r.severity)
  /\ ValidFields(r)
  /\ ValidKind(r)

Compiles(r) == Decides(r) /\ Valid(WithDecision(r)) /\ r.compiles

Compile(r) ==
  [WithDecision(r) EXCEPT !.scope = IF @ = "none" THEN "any" ELSE @]

-----------------------------------------------------------------------------
(* Load: the embedded files and those of the directory, a rule of the same  *)
(* id replacing the earlier one in its place; then the settings.            *)

IdsOf(rs) == {rs[i].id : i \in DOMAIN rs}

Merge(into, r) ==
  LET c == Compile(r)
  IN  IF c.id \in IdsOf(into)
      THEN [i \in DOMAIN into |-> IF into[i].id = c.id THEN c ELSE into[i]]
      ELSE Append(into, c)

Merged(files) ==
  LET all == FlattenSeq([i \in DOMAIN files |-> files[i].rules])
      merged[k \in 0..Len(all)] ==
        IF k = 0 THEN << >> ELSE Merge(merged[k - 1], all[k])
  IN  merged[Len(all)]

Readable(files) ==
  \A i \in DOMAIN files :
    files[i].decodes /\ \A j \in DOMAIN files[i].rules : Compiles(files[i].rules[j])

\* The value a setting gives, or the rule's own.
Set1(s, own) == IF s = {} THEN own ELSE CHOOSE v \in s : TRUE

Override(r, s) ==
  [r EXCEPT !.category = Set1(s.category, @), !.severity = Set1(s.severity, @),
            !.enabled = Set1(s.enabled, @), !.interrupt = Set1(s.interrupt, @),
            !.judge = [downgrade |-> Set1(s.downgrade, @.downgrade),
                       floor |-> Set1(s.floor, @.floor)]]

Applied(rs, byLayer) ==
  [i \in DOMAIN rs |->
     IF rs[i].id \in DOMAIN byLayer[rs[i].layer]
     THEN Override(rs[i], byLayer[rs[i].layer][rs[i].id]) ELSE rs[i]]

Applicable(rs, byLayer) ==
  /\ \A i \in DOMAIN rs : rs[i].layer \in DOMAIN byLayer
  /\ \A l \in DOMAIN byLayer : \A id \in DOMAIN byLayer[l] :
       \E i \in DOMAIN rs : rs[i].id = id /\ rs[i].layer = l

PlacesKnown(rs) ==
  \A i \in DOMAIN rs : \A id \in rs[i].places :
    \E j \in DOMAIN rs : rs[j].id = id /\ rs[j].layer = "static"

Loads(files, byLayer) ==
  /\ Readable(files)
  /\ Applicable(Merged(files), byLayer)
  /\ PlacesKnown(Merged(files))

\* The Set: every rule by its id, and which rules the static layer runs.
RuleSet(rs) ==
  LET placed == UNION {r.places : r \in {q \in ToSet(rs) : q.enabled}}
      static == {r \in ToSet(rs) : r.layer = "static"}
  IN  [byID      |-> [id \in IdsOf(rs) |-> CHOOSE r \in ToSet(rs) : r.id = id],
       static    |-> {r.id : r \in {q \in static : q.enabled}},
       placeOnly |-> {r.id : r \in {q \in static : ~q.enabled /\ q.id \in placed}}]

Load(files, byLayer) == RuleSet(Applied(Merged(files), byLayer))

ForLayer(set, layer) ==
  {id \in DOMAIN set.byID : set.byID[id].enabled /\ set.byID[id].layer = layer}
=============================================================================
