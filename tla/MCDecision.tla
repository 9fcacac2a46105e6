----------------------------- MODULE MCDecision -----------------------------
(***************************************************************************)
(* Cases for Decision: rules shaped like those of rules/data, small skills *)
(* with their findings and references, and for every question two or three *)
(* answers the model may give.  Sizes are in units, so that two places fit *)
(* in a request and three do not.                                          *)
(***************************************************************************)
EXTENDS Decision, MCPrograms

MCTemplates ==
  ("who"   :> [text |-> 3, focus |-> << >>, options |-> {"agent", "user", "doc"}])
  @@ ("usage" :> [text |-> 4, focus |-> << >>,
                  options |-> {"citation", "user-action", "tool-server", "agent-install"}])

\* Questions of a rule's own, and questions of the template "who".
Own(subject, text, options) ==
  [subject |-> subject, template |-> "none", from |-> "none", text |-> text, focus |-> << >>,
   options |-> options, chars |-> 1]
Who(subject, focus) ==
  [subject |-> subject, template |-> "who", from |-> "none", text |-> 0, focus |-> <<focus>>,
   options |-> {}, chars |-> 1]

Table(confirm, severity, dismiss, misfire) ==
  [confirm |-> confirm, severity |-> severity, dismiss |-> dismiss, misfire |-> misfire]

Rule ==
  [id |-> "none", layer |-> "static", category |-> TRUE, severity |-> 3, title |-> "t",
   kind |-> "heuristic", scope |-> "none", globs |-> TRUE, compiles |-> TRUE,
   patterns |-> TRUE, exclude |-> FALSE, usages |-> << >>, decision |-> {}, fields |-> {},
   places |-> {}, judge |-> [downgrade |-> TRUE, floor |-> NoFloor], enabled |-> TRUE,
   interrupt |-> FALSE]

WhoTable ==
  Table(<<"who" :> <<"agent">>>>, 2 :> <<"who" :> <<"user">>>>, <<"who" :> <<"doc">>>>, << >>)

Secret ==
  [Rule EXCEPT !.id = "secret", !.severity = 4, !.decision =
    {[questions |-> ("goes" :> Own("trace", 1, {"sent", "kept", "example"}))
                    @@ ("whose" :> Own("entry", 2, {"own", "other"})),
      outcome |-> Table(<<"goes" :> <<"sent">>>>, 2 :> <<"whose" :> <<"own">>>>,
                        <<("goes" :> <<"kept">>) @@ ("whose" :> <<"own">>)>>,
                        <<"goes" :> <<"example">>>>)]}]

\* The same asked about the call a match names.
Fetch ==
  [Secret EXCEPT !.id = "fetch", !.decision =
     {[d EXCEPT !.questions["goes"].from = "call"] : d \in Secret.decision}]

Pin == [Rule EXCEPT !.id = "pin", !.decision =
         {[questions |-> "who" :> Who("places", "pin"), outcome |-> WhoTable]}]
Fact == [Rule EXCEPT !.layer = "references", !.kind = "fact", !.patterns = FALSE]
Gone == [Fact EXCEPT !.id = "gone", !.severity = 4, !.judge.floor = 2, !.decision =
          {[questions |-> "who" :> Who("places", "gone"), outcome |-> WhoTable]}]
Squat == [Fact EXCEPT !.id = "squat", !.decision =
           {[questions |-> ("who" :> Who("places", "squat"))
                           @@ ("known" :> Own("facts", 6, {"yes", "no"})),
             outcome |-> [WhoTable EXCEPT !.dismiss =
                            <<("who" :> <<"doc">>) @@ ("known" :> <<"yes">>)>>]]}]
ToolServer == [Fact EXCEPT !.id = Untrusted, !.severity = 4, !.judge.downgrade = FALSE]
Install ==
  [Rule EXCEPT !.id = "REMOTE-CODE-AT-INSTALL", !.layer = "discovery", !.kind = "llm",
     !.patterns = FALSE, !.judge.floor = 1, !.decision =
       {[questions |-> "step" :> Own("places", 5, {"runs", "read"}),
         outcome |-> Table(<<"step" :> <<"runs">>>>, << >>, <<"step" :> <<"read">>>>, << >>)]}]
Hidden == [Install EXCEPT !.id = "TOOL-SERVER-REMOTE-HIDDEN", !.decision = {}, !.interrupt = TRUE]
Text == [Rule EXCEPT !.id = "TOOL-SERVER-REMOTE", !.places = {"pin"}]

Files(rs) == <<[decodes |-> TRUE, rules |-> rs]>>
AllRules == <<Secret, Fetch, Pin, Gone, Squat, ToolServer, Install, Hidden, Text>>
Layers == {"static", "references", "discovery"}
NoSettings == [l \in Layers |-> << >>]

Loc(file, line) == [file |-> file, line |-> line, end |-> line]
Spots == {"a", "b"} \X (1..3)
Skill ==
  [lines |-> ("a" :> 3) @@ ("b" :> 1), size |-> [s \in Spots |-> 10], fixed |-> 4,
   block |-> [s \in Spots |-> <<s[2], s[2] + 1>>], feeds |-> [s \in Spots |-> "none"],
   names |-> [a \in {"npm x", "npx X@latest", "npm y"} |->
                IF a = "npm y" THEN "y" ELSE "x"],
   entry |-> 20, facts |-> 10, trace |-> 12, code |-> << >>, values |-> << >>, brief |-> TRUE, refs |-> << >>, findings |-> << >>]

Found(rule, loc, about, ref, matches) ==
  [rule |-> rule, state |-> "none", at |-> loc, about |-> about, reference |-> ref,
   matches |-> matches, decision |-> {}]

\* Answers: an option the model is sure of, or two it wavers between.
Sure1(o) == [choice |-> o, mass |-> (o :> 97)]
Split(o, p) == [choice |-> o, mass |-> (o :> 60) @@ (p :> 40)]
Likely(o, p) == [choice |-> o, mass |-> (o :> 85) @@ (p :> 15)]
Replies ==
  (1 :> {Sure1("sent"), Likely("kept", "sent"), Sure1("example")})
  @@ (2 :> {Sure1("own"), Split("own", "other")})
  @@ (3 :> {Sure1("agent"), Likely("user", "doc"), Sure1("doc")})
  @@ (4 :> {Sure1("tool-server"), Split("citation", "tool-server"), Likely("agent-install", "citation")})
  @@ (5 :> {Sure1("runs"), Sure1("read")})
  @@ (6 :> {Sure1("yes"), Sure1("no")})

Case ==
  [files |-> Files(AllRules), byLayer |-> NoSettings, skill |-> Skill, late |-> FALSE,
   bars |-> [confirm |-> 50, dismiss |-> 80], maxState |-> 30, maxRequest |-> 40,
   replies |-> Replies, gaps |-> FALSE, faults |-> FALSE, ends |-> FALSE,
   twins |-> "TOOL-SERVER-REMOTE-HIDDEN" :> "TOOL-SERVER-REMOTE"]

\* Scripts: the secret left where it is, sent on, and two
\* calls of which one is the object of the other.
Unused == Python(<<Let("x", Literal)>>)
Sent == Python(<<Let("x", Literal), Send(Id("x"))>>)
Both == Python(<<Let("x", Literal), Let("k", Str(<< >>)), Send(Id("x"))>>)
Chained1Stmts == <<Let("x", CallTo(Member(Apply("get", <<Literal>>), "then"), <<Id("y")>>))>>
Chained1 == Python(Chained1Stmts)
Broken == Python(<<Bad(Let("x", Literal)), Send(Id("x"))>>)

\* The offset of the second literal of Both, of the object of Chained1.
Second == MatchAt(Laid(Body(<<Let("x", Literal), Let("k", Str(<< >>))>>), 1).kids[2].kids[1].kids[2].from)
Inner == FirstIn(Chained1, "call").from
Outer == Last(Laid(Body(Chained1Stmts), 1).kids[1].kids[1].kids[2].kids[1].kids).from
Traces ==
  {<< << >>, << >> >>, <<Unused, <<FirstIn(Unused, "string")>>>>, <<Sent, <<FirstIn(Sent, "string")>>>>,
   <<Both, <<FirstIn(Both, "string"), Second>>>>,
   <<Both, <<FirstIn(Both, "string"), FirstIn(Both, "string")>>>>,
   <<Broken, <<FirstIn(Broken, "string")>>>>}
TraceCases ==
  {[Case EXCEPT !.skill.findings = <<Found("secret", Loc("a", 1), "KEY", "none", t[2])>>,
                !.skill.code = t[1],
                !.gaps = TRUE, !.faults = TRUE, !.ends = TRUE, !.skill.entry = e,
                !.byLayer["static"] = s] :
     t \in Traces, e \in {0, 20}, s \in {<< >>, "secret" :> [category |-> {}, severity |-> {2}, enabled |-> {}, interrupt |-> {},
        downgrade |-> {FALSE}, floor |-> {}]}}

\* Two calls that begin at one place, the object asked about first.
CallCases ==
  {[Case EXCEPT !.skill.findings = <<Found("fetch", Loc("a", 1), "get", "none",
                                           [k \in DOMAIN at |-> MatchAt(at[k])])>>,
                !.skill.code = Chained1] :
     at \in {<<Inner>>, <<Inner, Outer>>, <<Outer, Inner>>, <<FirstIn(Chained1, "string").from>>}}

\* Every script with the one secret in it, and a sure model.
ScriptCases ==
  {[Case EXCEPT !.skill.findings = <<Found("secret", Loc("a", 1), "KEY", "none",
                                           <<FirstIn(script, "string")>>)>>,
                !.skill.code = script,
                !.replies = (1 :> {Sure1("sent")}) @@ (2 :> {Sure1("own")})] :
     script \in ToSet(Scripts)}

\* One package installed at three places, another at one, one line gone; the
\* places of a size that two, one or none fit.
Pins == <<Found("pin", Loc("a", 1), "npm x", "none", << >>),
          Found("pin", Loc("a", 2), "npx X@latest", "none", << >>),
          Found("pin", Loc("a", 4), "npm x", "none", << >>),
          Found("pin", Loc("b", 1), "npm y", "none", << >>)>>
PlaceCases ==
  {[Case EXCEPT !.skill.findings = Pins, !.skill.size = [s \in Spots |-> n],
                !.maxRequest = r, !.faults = f] :
     n \in {10, 13, 14, 27, 40}, r \in {28, 40}, f \in {FALSE}}
  \cup {[Case EXCEPT !.skill.findings = Pins, !.faults = TRUE, !.ends = TRUE, !.gaps = TRUE]}

\* A reference named at two places and one that is gone, with two findings of
\* the references layer, as a domain or a package.
Ref(kind) ==
  [value |-> "R", kind |-> kind, derived |-> FALSE,
   at |-> <<Loc("a", 1), Loc("a", 1), Loc("a", 3), Loc("b", 2)>>]
RefFindings == <<Found("gone", Loc("a", 1), "R", "R", << >>),
                 Found("squat", Loc("a", 3), "R", "R", << >>)>>
RefCases ==
  {[Case EXCEPT !.skill.refs = <<Ref(k)>>, !.skill.findings = f, !.maxState = 60,
                !.maxRequest = 60] :
     k \in {"domain", "package"}, f \in {<<RefFindings[1]>>, <<RefFindings[2]>>}}
  \cup {[Case EXCEPT !.skill.refs = <<Ref("repository"), [Ref("domain") EXCEPT !.value = "S"]>>,
                !.skill.findings = <<Found("TOOL-SERVER-REMOTE", Loc("a", 3), "npm x", "none", << >>)>>]}
  \cup {[Case EXCEPT !.skill.refs = <<Ref("package")>>, !.skill.findings = RefFindings]}

\* Two references in one line, the second used further down as well, and one of
\* another file.
SharedLine ==
  [Case EXCEPT !.skill.refs =
     <<[Ref("domain") EXCEPT !.at = <<Loc("a", 1)>>],
       [Ref("domain") EXCEPT !.value = "S", !.at = <<Loc("a", 1), Loc("a", 3)>>],
       [Ref("package") EXCEPT !.value = "T", !.at = <<Loc("b", 1)>>],
       [Ref("domain") EXCEPT !.value = "U", !.at = <<Loc("b", 1)>>]>>]

\* The late layer: a finding an earlier run asked about, and one of discovery.
LateCases ==
  {[Case EXCEPT !.late = TRUE, !.skill.findings =
      <<[Found("secret", Loc("a", 1), "KEY", "none", << >>) EXCEPT !.decision = {<< >>}],
        [Found("pin", Loc("a", 2), "npm x", "none", << >>) EXCEPT !.state = "confirmed"],
        Found("REMOTE-CODE-AT-INSTALL", Loc("a", 1), "curl", "none", << >>),
        Found("REMOTE-CODE-AT-INSTALL", Loc("b", 1), "wget", "none", << >>)>>]}

\* The loader: files and settings it takes or refuses, and a finding of what it
\* took.
PinWith(d) == [Pin EXCEPT !.decision = {d}]
PinTable == CHOOSE d \in Pin.decision : TRUE
OddRules ==
  {[Pin EXCEPT !.usages = <<"agent-install", "agent-fetch">>],
   [Pin EXCEPT !.usages = <<"agent-install">>, !.decision = {}],
   [Pin EXCEPT !.usages = <<"agent-install">>, !.decision = {}, !.severity = 2],
   PinWith([PinTable EXCEPT !.questions["who"].template = "whose"]),
   PinWith([PinTable EXCEPT !.questions["who"].text = 9]),
   PinWith([PinTable EXCEPT !.questions["who"].subject = "line"]),
   PinWith([PinTable EXCEPT !.questions["who"].from = "call"]),
   PinWith([PinTable EXCEPT !.outcome.confirm = <<"who" :> <<"agent", "user">>>>]),
   PinWith([PinTable EXCEPT !.outcome.dismiss = <<"who" :> <<"user", "doc">>>>]),
   PinWith([PinTable EXCEPT !.outcome.misfire = <<"who" :> <<"doc">>>>]),
   PinWith([PinTable EXCEPT !.outcome.dismiss = <<"who" :> <<"doc", "user", "user">>>>,
                            !.outcome.severity = << >>]),
   PinWith([PinTable EXCEPT !.outcome.severity = 3 :> <<"who" :> <<"user">>>>]),
   PinWith([PinTable EXCEPT !.outcome.confirm = <<"whom" :> <<"agent">>>>]),
   PinWith([PinTable EXCEPT !.outcome.confirm = <<"who" :> <<"platform">>>>]),
   PinWith([PinTable EXCEPT !.outcome.confirm = <<<< >>>>]),
   PinWith([questions |-> ("goes" :> Own("trace", 1, {"sent", "kept"}))
              @@ ("in" :> [Own("trace", 2, {"own", "other"}) EXCEPT !.from = "call"]),
            outcome |-> Table(<<"goes" :> <<"sent">>>>, << >>, << >>, << >>)]),
   [Pin EXCEPT !.kind = "fact"], [Pin EXCEPT !.patterns = FALSE], [Pin EXCEPT !.severity = 0],
   [Pin EXCEPT !.layer = "dynamic"], [Pin EXCEPT !.compiles = FALSE],
   [Pin EXCEPT !.places = {"gone"}],
   [Pin EXCEPT !.fields = {[question |-> 1, options |-> {"a", "b"}, accept |-> {"a"}]}],
   [Install EXCEPT !.fields = {[question |-> 1, options |-> {"a", "b"}, accept |-> {"c"}]}],
   [Install EXCEPT !.fields = {[question |-> 1, options |-> {"a", "b"}, accept |-> {"a"}]}]}

Setting == [category |-> {}, severity |-> {}, enabled |-> {}, interrupt |-> {},
            downgrade |-> {}, floor |-> {}]
Settings ==
  {<< >>, "pin" :> [Setting EXCEPT !.severity = {1}], "gone" :> Setting,
   "pin" :> [Setting EXCEPT !.enabled = {FALSE}],
   "pin" :> [Setting EXCEPT !.floor = {2}], "pin" :> [Setting EXCEPT !.downgrade = {FALSE}]}

RuleCases ==
  {[Case EXCEPT !.files = Files(AllRules) \o <<[decodes |-> TRUE, rules |-> <<r>>]>>,
                !.skill.findings = <<Pins[1]>>, !.byLayer["static"] = s] :
     r \in OddRules, s \in Settings}
  \cup {[Case EXCEPT !.files = Append(Files(AllRules), [decodes |-> FALSE, rules |-> << >>])]}

\* The scripts of a case as the layer takes them: their program, and the way of
\* the values in them.
AsksIn(c) ==
  UNION {[path : {f.at.file}, match : ToSet(f.matches), ofCall : BOOLEAN] :
           f \in ToSet(c.skill.findings)}
Coded(c) ==
  {[c EXCEPT !.skill.code = program, !.skill.values = WaysOf(c.skill.code, DOMAIN program.key)] :
     program \in {ProgramOf(p, AsksIn(c)) : p \in {Parsed(c.skill.code)}}}

MCCases ==
  LET all == RuleCases \cup TraceCases \cup CallCases \cup ScriptCases \cup PlaceCases
               \cup RefCases \cup LateCases \cup {SharedLine}
  IN  UNION {Coded(c) : c \in all}
SharedCases == LET all == {SharedLine} IN UNION {Coded(c) : c \in all}
=============================================================================
