------------------------------- MODULE Intake -------------------------------
(***************************************************************************)
(* How the text of a skill gets into a scan: the walk reads its files and  *)
(* tells what is over a limit (layers/walk), reveal cleans them            *)
(* (layers/reveal), ast parses the scripts and code blocks (layers/ast),   *)
(* and static matches its rules against the clean text (layers/static),    *)
(* one artifact after the other, under a context that may end and an       *)
(* interrupt that ends it.                                                 *)
(***************************************************************************)
EXTENDS Static

CONSTANT Cases   \* what a run starts from: entries, limits, rules

VARIABLES
  case,       \* one of Cases
  pc,         \* "walk", "reveal", "ast", "static" or "over"
  i,          \* the entry or artifact at hand
  stat,       \* the size the entry was measured by, as a set of at most one
  artifacts,  \* Skill.Artifacts
  sums,       \* limits.files, bundle and total
  once,       \* limits.done
  findings,   \* State.Findings
  places,     \* State.Places
  stop,       \* State.Interrupt
  ctx,        \* the context of the run: "live" or "done"
  units,      \* what ast has parsed so far
  code,       \* State.Code, as a set of at most one set of units
  seen,       \* static: the lines a rule was seen at
  links,      \* State.links: a line and a subject of it
  unlinked    \* State.unlinked: the lines with a match that has no subject

None == "none"   \* the empty string, where the code has it for nothing

\* The entries of a folder are files, each at a path of its own, whose runes
\* are known; no rule is told by name and by a limit or a hit too.
EntriesOK(es) ==
  /\ es \in Seq(ToSet(es))
  /\ \A j, k \in DOMAIN es : es[j].path = es[k].path => j = k
  /\ \A e \in ToSet(es) : {e.now, e.then} \subseteq Seq(DOMAIN Runes)

MeasuredOnce == {"BUNDLE-TOO-MANY-FILES", "BUNDLE-TOO-DEEP", "BUNDLE-TOO-LARGE"}
LimitRules == MeasuredOnce \cup {"FILE-TOO-LARGE", "BUNDLE-TOO-MUCH-TEXT"}

\* The rules of reveal (normalize.go's constants): no other layer has them.
HitRules == {LookAlike, Invisible}

\* Rules come in a sequence, each with a sequence of patterns and an id of its own.
RulesOK(rules) ==
  /\ rules \in Seq(ToSet(rules))
  /\ \A r \in ToSet(rules) : r.patterns \in Seq(ToSet(r.patterns)) /\ r.id \notin HitRules

CaseOK(c) ==
  /\ EntriesOK(c.entries)
  /\ RulesOK(c.static) /\ RulesOK(c.placeOnly)
  /\ {c.limits.files, c.limits.text} \subseteq Nat
  /\ c.named \in Seq(ToSet(c.named)) /\ \A r \in ToSet(c.named) : r.id \notin LimitRules \cup HitRules

ASSUME RunesAssumption ==
  /\ "rep" \in DOMAIN Runes
  /\ Newline \in DOMAIN Runes => /\ Runes[Newline].kind \notin {"letter", "hidden"}
                                 /\ {Runes[Newline].folded, Runes[Newline].mapped} = {<<Newline>>}
  /\ \A r \in DOMAIN Runes :
       /\ Runes[r].size \in Nat \ {0}
       /\ {Runes[r].folded, Runes[r].mapped} \subseteq Seq(DOMAIN Runes)
       /\ r # Newline => Newline \notin ToSet(Runes[r].folded) \cup ToSet(Runes[r].mapped)

ASSUME CasesAssumption == \A c \in Cases : CaseOK(c)

walked == <<stat, sums, once>>
linked == <<links, unlinked>>
vars == <<case, pc, i, walked, artifacts, findings, places, stop, ctx, units, code, seen, linked>>

Live == ctx = "live" /\ stop = None

Finding(id, file, line) ==
  [rule |-> id, file |-> file, severity |-> case.severity[id], start |-> 0,
   line |-> line, end |-> line]

\* State.Record: the first finding of a rule with interrupt ends the layer.
RecordAt(fs, at) ==
  /\ findings' = findings \o fs
  /\ stop' = IF stop = None /\ at # 0 THEN fs[at].rule ELSE stop
Record(fs) == RecordAt(fs, SelectInSeq(fs, LAMBDA f : f.rule \in case.interrupts))

\* limits.report: of the rules that are on.
Findings(ids, file) == [k \in DOMAIN ids |-> Finding(ids[k], file, 0)]
Allowed(ids) == Picked(ids, {k \in DOMAIN ids : ids[k] \in case.allowed})
Report(ids, file) == Record(Findings(Allowed(ids), file))

-----------------------------------------------------------------------------
(* walk: the entries of the folder, in the order of their paths. *)

EntriesThat(kinds) ==
  Picked(case.entries, {k \in DOMAIN case.entries : case.entries[k].kind \in kinds})
Pending == EntriesThat({"file", "symlink", "special"})
Lost == EntriesThat({"folder"})
Entry == Pending[i]

Artifact(path, type, ok, size, text, target) ==
  [path |-> path, kind |-> "content", type |-> type, ok |-> ok, size |-> size,
   text |-> text, clean |-> << >>, shifts |-> << >>, target |-> target]

Failed(e, type) == Artifact(e.path, type, FALSE, 0, << >>, << >>)

Init ==
  /\ case \in Cases
  /\ pc = "walk" /\ i = 1 /\ stat = {}
  /\ artifacts = [k \in DOMAIN Lost |-> Failed(Lost[k], "directory")]
  /\ sums = [files |-> 0, bundle |-> 0, text |-> 0] /\ once = {}
  /\ findings = << >> /\ places = << >> /\ stop = None /\ ctx = "live"
  /\ units = {} /\ code = {} /\ seen = {} /\ links = {} /\ unlinked = {}

AtEntry == pc = "walk" /\ i <= Len(Pending)
Walking == AtEntry /\ stat = {} /\ Live
Unread == UNCHANGED <<case, places, ctx, units, code, seen, linked>>

Once(id) == IF id \in once THEN << >> ELSE <<id>>

\* limits.count, the first thing done with every entry.
TooMany == sums.files + 1 > case.limits.files
Counted == IF TooMany THEN Once("BUNDLE-TOO-MANY-FILES") ELSE << >>
Count == /\ sums' = [sums EXCEPT !.files = @ + 1]
         /\ once' = once \cup ToSet(Counted)
         /\ Report(Counted, Entry.path)

AddArtifact(a) == artifacts' = Append(artifacts, a)

\* The entry is gone when it is looked at.
Vanish ==
  /\ Walking /\ case.faults
  /\ Count
  /\ AddArtifact(Failed(Entry, None)) /\ i' = i + 1
  /\ UNCHANGED <<pc, stat>> /\ Unread

TakeSpecial ==
  /\ Walking /\ Entry.kind \in {"symlink", "special"}
  /\ Count
  /\ AddArtifact(Artifact(Entry.path, Entry.kind, TRUE, 0, << >>, Entry.target)) /\ i' = i + 1
  /\ UNCHANGED <<pc, stat>> /\ Unread

\* limits.measure, by the size of the entry, not of what will be read.
Named == Picked(case.named, {k \in DOMAIN case.named : Last(Entry.path) \in case.named[k].files})
Measured(size) ==
  (IF Len(Entry.path) - 1 > case.limits.depth THEN Once("BUNDLE-TOO-DEEP") ELSE << >>)
    \o (IF size > case.limits.file THEN <<"FILE-TOO-LARGE">> ELSE << >>)
    \o (IF sums.bundle + size > case.limits.bundle THEN Once("BUNDLE-TOO-LARGE") ELSE << >>)
    \o [k \in DOMAIN Named |-> Named[k].id]

MeasureAs(size, told) ==
  /\ sums' = [sums EXCEPT !.files = @ + 1, !.bundle = @ + size]
  /\ once' = once \cup (ToSet(told) \cap MeasuredOnce)
  /\ Report(told, Entry.path)
  /\ IF size > case.limits.file
       THEN AddArtifact(Failed(Entry, None)) /\ i' = i + 1 /\ UNCHANGED stat
       ELSE stat' = {size} /\ UNCHANGED <<artifacts, i>>

Measure ==
  /\ Walking /\ Entry.kind = "file"
  /\ \E size \in {Size(Entry.now)} : MeasureAs(size, Counted \o Measured(size))
  /\ UNCHANGED pc /\ Unread

-----------------------------------------------------------------------------
(* What a file is: inventory.Regular, the archives and the formats. *)

\* decode: a byte that is no UTF-8 becomes a replacement rune.
Decode(raw) == [k \in DOMAIN raw |-> IF raw[k] = "bad" THEN "rep" ELSE raw[k]]

\* By the extension, without its dot; None is no extension.
Extensions == [md |-> "markdown", txt |-> "text", json |-> "data", py |-> "code"]

TypeOf(e, raw) ==
  IF e.media = "text" /\ "nul" \notin ToSet(raw)
    THEN IF e.ext \in DOMAIN Extensions THEN Extensions[e.ext]
         ELSE IF e.ext = None /\ (IsPrefix(<<"#!">>, raw) \/ Last(e.path) \in {"Makefile", "Dockerfile"})
           THEN "code" ELSE "text"
    ELSE IF e.media = "image" THEN "media" ELSE "unknown"

RegularAs(e, raw, type) ==
  Artifact(e.path, type, TRUE, Size(raw),
           IF type \in {"media", "unknown"} THEN << >> ELSE Decode(raw), << >>)
Regular(e, raw) == RegularAs(e, raw, TypeOf(e, raw))

\* The signatures in their order: the first that fits names the format.
Signature(rule, magic, fits) == [rule |-> rule, magic |-> magic, fits |-> fits]
Signatures(head) ==
  <<Signature("FILE-INSTALLER", "arch-debian", TRUE),
    Signature("FILE-INSTALLER", "installer", TRUE),
    Signature("FILE-BINARY", "executable", TRUE),
    Signature("FILE-BINARY", "MZ", head.len >= 64 /\ head.field + 4 <= head.len),
    Signature("FILE-BINARY", "cafebabe", head.len >= 8 /\ head.field < 45),
    Signature("FILE-BINARY", "cafebabe", head.len >= 8 /\ head.field >= 45),
    Signature("FILE-BINARY", "arch", TRUE),
    Signature("FILE-BINARY", "FOR1", head.len >= 12),
    Signature("FILE-BINARY", "pyc", head.len >= 4 /\ head.field \in 3000..3999)>>

FirstRule(all, fit) == IF fit = {} THEN << >> ELSE <<all[Least(fit)].rule>>
Fitting(e, all) == FirstRule(all, {k \in DOMAIN all : all[k].magic \in e.head.magics /\ all[k].fits})
Detected(e) == Fitting(e, Signatures(e.head))

\* A defect: the text is counted by the size the entry was measured by.
TextToldMeasured(a) ==
  IF a.type \in Textual /\ sums.text + Least(stat) > case.limits.text
  THEN Once("BUNDLE-TOO-MUCH-TEXT") ELSE << >>

\* limits.text, by what was read.
TextTold(a) ==
  IF a.type \in Textual /\ sums.text + a.size > case.limits.text
  THEN Once("BUNDLE-TOO-MUCH-TEXT") ELSE << >>

ReadAs(a) ==
  /\ Report((IF Entry.head.encrypted THEN <<"ARCHIVE-ENCRYPTED">> ELSE << >>) \o TextTold(a)
              \o (IF a.type = "unknown" THEN Detected(Entry) ELSE << >>), Entry.path)
  /\ once' = once \cup ToSet(TextTold(a))
  /\ sums' = IF a.type \in Textual THEN [sums EXCEPT !.text = @ + a.size] ELSE sums
  /\ AddArtifact(a)

ReadFile ==
  /\ AtEntry /\ stat # {} /\ Live
  /\ \E raw \in {Entry.now, Entry.then} : \E a \in {Regular(Entry, raw)} : ReadAs(a)
  /\ i' = i + 1 /\ stat' = {}
  /\ UNCHANGED pc /\ Unread

ReadFails ==
  /\ AtEntry /\ stat # {} /\ Live /\ case.faults
  /\ AddArtifact(Failed(Entry, None))
  /\ i' = i + 1 /\ stat' = {}
  /\ UNCHANGED <<pc, sums, once, findings, stop>> /\ Unread

-----------------------------------------------------------------------------
(* From layer to layer: a layer ends with its artifacts or its context.     *)

Order == [walk |-> "reveal", reveal |-> "ast", ast |-> "static"]
After(layer) == IF Live THEN Order[layer] ELSE "over"

EndWalk ==
  /\ pc = "walk" /\ (i > Len(Pending) \/ ~Live)
  /\ pc' = After("walk") /\ i' = 1 /\ stat' = {}
  /\ UNCHANGED <<case, sums, once, artifacts, findings, places, stop, ctx, units, code, seen, linked>>

EndReveal ==
  /\ pc = "reveal" /\ (i > Len(artifacts) \/ ~Live)
  /\ pc' = After("reveal") /\ i' = 1
  /\ UNCHANGED <<case, walked, artifacts, findings, places, stop, ctx, units, code, seen, linked>>

\* static/trace.go's brief: the traces of the values findings point at.
Linked(f) == IF Place(f) \in unlinked THEN {} ELSE {l.subject : l \in {m \in links : m.line = Place(f)}}
Traced == UNION {Linked(f) : f \in ToSet(findings)}

EndStatic ==
  /\ pc = "static" /\ (i > Len(artifacts) \/ ~Live)
  /\ pc' = "over" /\ i' = 1
  /\ artifacts' = IF i > Len(artifacts) /\ Traced # {}
                  THEN Append(artifacts, [Artifact(<<"traces">>, "markdown", TRUE, 1, << >>, << >>)
                                            EXCEPT !.kind = "brief"])
                  ELSE artifacts
  /\ UNCHANGED <<case, walked, findings, places, stop, ctx, units, code, seen, linked>>

ContextEnds ==
  /\ case.ends /\ pc # "over" /\ ctx = "live"
  /\ ctx' = "done"
  /\ UNCHANGED <<case, pc, i, walked, artifacts, findings, places, stop, units, code, seen, linked>>

-----------------------------------------------------------------------------
(* reveal *)

At == artifacts[i]
Wanted(a) == a.kind = "content" /\ a.type \in Textual

\* limit: MaxPerRule of each rule.
Limited(fs) ==
  Picked(fs, {k \in DOMAIN fs :
                Cardinality({j \in 1..(k - 1) : fs[j].rule = fs[k].rule}) < MaxPerRule})

FindingsOf(a, hits, starts) ==
  [k \in DOMAIN hits |->
     Finding(hits[k].rule, a.path, LineAt(starts, OffsetOf(a.text, hits[k].from)))]
HitFindings(a, hits, starts) ==
  FindingsOf(a, Picked(hits, {k \in DOMAIN hits : hits[k].rule \in case.allowed}), starts)

RevealAs(p) ==
  /\ Record(Limited(Unique(HitFindings(At, p.hits, LineStarts(At.text)), {}).out))
  /\ artifacts' = IF p.out = At.text THEN artifacts
                  ELSE [artifacts EXCEPT ![i].clean = p.out, ![i].shifts = p.shifts]

RevealArtifact ==
  /\ pc = "reveal" /\ i <= Len(artifacts) /\ Live
  /\ IF Wanted(At) /\ NeedsNormalize(At.text)
       THEN \E p \in {Normalize(At.text)} : RevealAs(p)
       ELSE UNCHANGED <<findings, stop, artifacts>>
  /\ i' = i + 1
  /\ UNCHANGED <<case, pc, walked, places, ctx, units, code, seen, linked>>

-----------------------------------------------------------------------------
(* ast: the parts of an artifact that are code; a part the parser refuses is *)
(* left out, and without its runtime there is no program.                    *)

Part(a, b) == [path |-> a.path, from |-> OffsetOf(a.text, b.from), to |-> OffsetOf(a.text, b.to)]
PartsIn(a) ==
  CASE a.kind = "content" /\ a.type = "markdown" -> ToSet(Blocks(a.text))
    [] a.kind = "content" /\ a.type \in {"code", "text"} /\ a.path \in case.scripts ->
         {[from |-> 1, to |-> Len(a.text) + 1]}
    [] OTHER -> {}
Parts(a) == {Part(a, b) : b \in PartsIn(a)}

ParseArtifact ==
  /\ pc = "ast" /\ i <= Len(artifacts) /\ (Live \/ Parts(At) = {})
  /\ \E all \in {Parts(At)} : \E parsed \in SUBSET all :
       /\ case.faults \/ parsed = all
       /\ units' = units \cup parsed
  /\ i' = i + 1
  /\ UNCHANGED <<case, pc, walked, artifacts, findings, places, stop, ctx, code, seen, linked>>

NoRuntime ==
  /\ pc = "ast" /\ i <= Len(artifacts) /\ Parts(At) # {} /\ Live /\ case.faults
  /\ pc' = After("ast") /\ i' = 1
  /\ UNCHANGED <<case, walked, artifacts, findings, places, stop, ctx, units, code, seen, linked>>

\* Only an ast layer that got through all artifacts leaves its program; it looks
\* at the context when it has parsed something.
EndAst ==
  /\ pc = "ast" /\ (i <= Len(artifacts) => ~Live /\ Parts(At) # {})
  /\ pc' = After("ast") /\ i' = 1
  /\ code' = IF i > Len(artifacts) THEN {units} ELSE {}
  /\ UNCHANGED <<case, walked, artifacts, findings, places, stop, ctx, units, seen, linked>>

-----------------------------------------------------------------------------
(* static *)

\* source.found, rule by rule: what is seen by one rule is seen for the next.
FoundNew(acc, new) == [seen |-> new.seen, out |-> acc.out \o Capped(new.out)]
Found(acc, r, a) ==
  IF Applies(r, a) /\ Installed(ToSet(artifacts), r, a)
  THEN FoundNew(acc, Unique(Matches(r, a, case.self), acc.seen)) ELSE acc

Finds(rules, a, before) ==
  LET find[k \in 0..Len(rules)] ==
        IF k = 0 THEN [seen |-> before, out |-> << >>] ELSE Found(find[k - 1], rules[k], a)
  IN  find
FoundBy(rules, a, before) == Finds(rules, a, before)[Len(rules)]

\* Program.At: the value at a place of parsed code, none in a comment.
InComment(f, t) ==
  \E k \in DOMAIN t : t[k] = "//" /\ Row(t, k) = f.line /\ OffsetOf(t, k) <= f.start

Subjects(f) ==
  {<<f.file, f.start>> : u \in {v \in UNION code :
     /\ v.path = f.file /\ f.start \in v.from..(v.to - 1)
     /\ \A a \in ToSet(artifacts) : a.path = f.file => ~InComment(f, a.text)}}

\* State.Link, for the matches of the rules that are traced: a match links its
\* line to its subject, and unlinks it when it has none.
Traceable(rules, a) ==
  IF code = {} THEN {}
  ELSE UNION {ToSet(Matches(r, a, case.self)) :
                r \in {q \in ToSet(rules) : q.traced /\ Applies(q, a) /\ Installed(ToSet(artifacts), q, a)}}

LinksOf(ms) == UNION {{[line |-> Place(m), subject |-> s] : s \in Subjects(m)} : m \in ms}

\* A defect: a match without a subject does not unlink its line.
UnlinkedNever(ms) == {}

UnlinkedBy(ms) == {Place(m) : m \in {n \in ms : Subjects(n) = {}}}

LinkAll(ms) ==
  /\ links' = links \cup LinksOf(ms)
  /\ unlinked' = unlinked \cup UnlinkedBy(ms)

ScanAs(static, placed) ==
  /\ Record(static.out)
  /\ places' = places \o placed.out
  /\ seen' = placed.seen

ScanArtifact ==
  /\ pc = "static" /\ i <= Len(artifacts) /\ Live
  /\ Wanted(At)
  /\ \E static \in {FoundBy(case.static, At, seen)} :
       \E placed \in {FoundBy(case.placeOnly, At, static.seen)} : ScanAs(static, placed)
  /\ LinkAll(Traceable(case.static \o case.placeOnly, At))
  /\ i' = i + 1
  /\ UNCHANGED <<case, pc, walked, artifacts, ctx, units, code>>

\* scanLink: the pattern of the rules about links, on where the link leads.
FindingsBy(rules, a) ==
  [k \in DOMAIN rules |-> [Finding(rules[k].id, a.path, 0) EXCEPT !.severity = rules[k].severity]]
LinkFindings(a) ==
  FindingsBy(Picked(case.static, {k \in DOMAIN case.static :
                                    Applies(case.static[k], a) /\ LeadsOut(ResolveLink(artifacts, a))}), a)

ScanLink ==
  /\ pc = "static" /\ i <= Len(artifacts) /\ Live
  /\ ~Wanted(At)
  /\ IF At.type = "symlink" THEN Record(LinkFindings(At)) ELSE UNCHANGED <<findings, stop>>
  /\ i' = i + 1
  /\ UNCHANGED <<case, pc, walked, artifacts, places, ctx, units, code, seen, linked>>

Over == pc = "over" /\ UNCHANGED vars

Next ==
  \/ Vanish \/ TakeSpecial \/ Measure \/ ReadFile \/ ReadFails \/ EndWalk
  \/ RevealArtifact \/ EndReveal \/ ParseArtifact \/ NoRuntime \/ EndAst
  \/ ScanArtifact \/ ScanLink \/ EndStatic \/ ContextEnds \/ Over

Spec == Init /\ [][Next]_vars

-----------------------------------------------------------------------------
(* Properties *)

Revealed == pc \in {"ast", "static"} \/ (pc = "over" /\ Live)
Complete == pc = "over" /\ Live

Files == {a \in ToSet(artifacts) : a.kind = "content"}
Kept == {a \in ToSet(artifacts) : Wanted(a)}
LinesOf(rule, a) == {f.line : f \in {g \in ToSet(findings) : g.rule = rule /\ g.file = a.path}}

\* Of a rule's lines in a file, all are found, or as many as the cap lets in.
UpToCap(lines, all) ==
  lines \subseteq all /\ Cardinality(lines) = Lower(Cardinality(all), MaxPerRule)

\* The artifacts of the entries walked, and their text, as far as each of them.
Walked == SubSeq(artifacts, Len(Lost) + 1, Len(artifacts))
TextIn(a) == IF a.type \in Textual THEN a.size ELSE 0
TextUpTo(files) ==
  LET sum[k \in 0..Len(files)] == IF k = 0 THEN 0 ELSE sum[k - 1] + TextIn(files[k]) IN sum
PastText(files) == {k \in DOMAIN files : TextUpTo(files)[k] > case.limits.text}

\* The files a rule is told of, in order.
FilesTold(id) ==
  Picked([k \in DOMAIN findings |-> findings[k].file], {k \in DOMAIN findings : findings[k].rule = id})
ToldOf(id, file) == \E f \in ToSet(findings) : f.rule = id /\ f.file = file
Large(e) == e.kind = "file" /\ Size(e.now) > case.limits.file

LimitsTold ==
  /\ "BUNDLE-TOO-MUCH-TEXT" \in case.allowed =>
       FilesTold("BUNDLE-TOO-MUCH-TEXT") =
         IF PastText(Walked) = {} THEN << >> ELSE <<Walked[Least(PastText(Walked))].path>>
  /\ "BUNDLE-TOO-MANY-FILES" \in case.allowed =>
       FilesTold("BUNDLE-TOO-MANY-FILES") =
         IF Len(Pending) <= case.limits.files THEN << >>
         ELSE <<Pending[case.limits.files + 1].path>>
  /\ Len(Walked) = Len(Pending)
  /\ \A k \in DOMAIN Pending :
       /\ ToldOf("FILE-TOO-LARGE", Pending[k].path) => Large(Pending[k]) /\ ~Walked[k].ok
       /\ Large(Pending[k]) /\ ~case.faults /\ "FILE-TOO-LARGE" \in case.allowed =>
            ToldOf("FILE-TOO-LARGE", Pending[k].path)
\* A limit is told once, at the first entry past it; the text of a skill is
\* counted by what was read, also of a file that grew after its size was
\* taken (walk.go's process, limits.go's text), and a file is too large by
\* the size that decided whether to read it.
LimitsAreTold == pc = "reveal" /\ i = 1 => LimitsTold

\* The words of a text: the runs of letters, digits and hidden runes, without
\* a letter right after a backslash.
WordsOf(t) ==
  LET in(s, e) == \A k \in s..(e - 1) : InWord(t[k])
      runs == {w \in (DOMAIN t) \X (DOMAIN t \cup {Len(t) + 1}) :
                 /\ w[1] < w[2] /\ in(w[1], w[2])
                 /\ (w[1] = 1 \/ ~InWord(t[w[1] - 1])) /\ (w[2] = Len(t) + 1 \/ ~InWord(t[w[2]]))}
      head(w) == IF w[1] > 1 /\ t[w[1] - 1] = "\\" THEN w[1] + 1 ELSE w[1]
  IN  {head(w)..(w[2] - 1) : w \in runs}

\* docs/user/detection.md:56-57 word by word: a look-alike is in a word with
\* Latin letters where every letter of another script prints like an ASCII
\* one, a hidden rune counts between two runes of a word, and a rule is found
\* at every such line, though the pass keeps its verdict on a word in memory
\* from rune to rune (normalize.go's swap).
HitsAreRight ==
  Revealed => \A a \in Kept :
    LET t == a.text
        alike == {k \in DOMAIN t : Foreign(t[k]) /\ ~Dropped(t[k]) /\ \E w \in WordsOf(t) :
                    /\ k \in w /\ \E j \in w : Runes[t[j]].kind = "letter" /\ Runes[t[j]].script = "latin"
                    /\ \A j \in w : Foreign(t[j]) => Concealed(t[j])}
        hidden == {k \in DOMAIN t : Dropped(t[k])
                     /\ \E b \in 1..(k - 1), c \in (k + 1)..Len(t) :
                          Joins(t[b]) /\ Joins(t[c]) /\ \A j \in (b + 1)..(c - 1) : Dropped(t[j])}
        rows(S) == {Cardinality({j \in 1..(k - 1) : t[j] = Newline}) + 1 : k \in S}
    IN  /\ LookAlike \in case.allowed => UpToCap(LinesOf(LookAlike, a), rows(alike))
        /\ Invisible \in case.allowed => UpToCap(LinesOf(Invisible, a), rows(hidden))

\* Every byte of a clean text leads back to the rune it came from: the runes
\* of one origin spell that rune, or its compatibility form, or the letters it
\* looks like; origins come in order, and no rune is lost but a hidden one
\* (normalize.go's write and mark, Artifact.Source).
SourceIsOrigin ==
  Revealed => \A a \in {b \in Kept : b.clean # << >>} :
    LET t == a.text
        c == a.clean
        holds(k, byte) == OffsetOf(t, k) <= byte /\ byte < OffsetOf(t, k + 1)
        sources(j) == {Source(a.shifts, OffsetOf(c, j) + b) : b \in 0..(Size(<<c[j]>>) - 1)}
        origin(k) == Picked(Indices(c), {j \in DOMAIN c : \A s \in sources(j) : holds(k, s)})
        image(k) == [n \in DOMAIN origin(k) |-> c[origin(k)[n]]]
    IN  /\ \A j \in DOMAIN c : \E k \in DOMAIN t : ~Dropped(t[k]) /\ \A s \in sources(j) : holds(k, s)
        /\ \A k \in DOMAIN t : ~Dropped(t[k]) =>
             image(k) \in {<<t[k]>>, Runes[t[k]].folded, Runes[t[k]].mapped}
        /\ \A k, l \in DOMAIN t : k < l =>
             \A x \in ToSet(origin(k)), y \in ToSet(origin(l)) : x < y
        /\ Source(a.shifts, Size(c)) <= Size(t)

\* A line of a file, cleaned by itself: a word ends at the end of its line.
CleanLine(a, n) == Normalize(Lines(a.text)[n]).out

\* A static finding names the line of the file that holds what was matched,
\* though the match was made in the clean text, whose lines are shorter and
\* whose offsets are not the file's (static.go's build).
MatchIsShown ==
  \A f \in ToSet(findings \o places) : f.line > 0 /\ f.rule \notin {LookAlike, Invisible} =>
    LET a == CHOOSE b \in ToSet(artifacts) : b.path = f.file
    IN  /\ f.line \in DOMAIN Lines(a.text) /\ f.line <= f.end /\ f.end <= Len(Lines(a.text))
        /\ \E r \in ToSet(case.static \o case.placeOnly) :
             r.id = f.rule /\ \E p \in ToSet(r.patterns) :
               Includes(CleanLine(a, f.line), SelectSeq(p, LAMBDA x : x # "\n"))

\* Nothing a rule matches goes unsaid: each line of a file that holds one of
\* its patterns where the rule applies has one finding of the rule, and no
\* second one, up to the cap, whatever was found of it in other files
\* (static.go's found and unique). Of rules whose patterns lie within a line,
\* in a skill that names no install of its own.
EveryLineOnce ==
  LET holds(r, a, n) ==
        /\ \E p \in ToSet(r.patterns) : Includes(CleanLine(a, n), p) /\ "skills/self" \notin ToSet(p)
        /\ r.exclude = << >> \/ ~Includes(CleanLine(a, n), r.exclude)
        /\ AllowedIn(a.type, r.scope, a.type = "markdown" /\ Fenced(Lines(TextOf(a)))[n])
      all(r, a) == {n \in DOMAIN Lines(a.text) : holds(r, a, n)}
      found(fs, r, a) == SelectSeq(fs, LAMBDA f : f.rule = r.id /\ f.file = a.path)
      lines(fs) == {f.line : f \in ToSet(fs)}
      told(fs, r, a) ==
        LET said == found(fs, r, a)
        IN  /\ Applies(r, a) /\ Installed(Files, r, a)
            /\ \A p \in ToSet(r.patterns) : "\n" \notin ToSet(p)
            =>
              Len(said) = Cardinality(lines(said)) /\ UpToCap(lines(said), all(r, a))
  IN  Complete /\ case.self = << >> => \A a \in Kept :
        /\ \A r \in ToSet(case.static) : told(findings, r, a)
        /\ \A r \in ToSet(case.placeOnly) : told(places, r, a)

\* A fence of the clean text that opens and closes what one of the file does.
SameFence(f, g) == f.mark = g.mark /\ f.n = g.n /\ (Trim(f.info) = << >> <=> Trim(g.info) = << >>)

\* The three readers of Markdown agree, though each looks at something else:
\* the static layer at the clean text (static.go:97-103), the frame of the
\* decision layer at the file past its frontmatter (frame.go's position), the
\* parser at the whole file (parse.go's Blocks). Cleaning keeps the number of
\* lines. Where the frontmatter has no fence, a line is fenced for the static
\* layer exactly when its frame is a block of code, up to a line whose fence
\* cleaning changes; and what the parser takes as code lies between fences of
\* the frame, past the line that opens them.
FencesAgree ==
  pc = "static" /\ i = 1 => \A a \in Kept :
    LET t == a.text
        lines == Lines(t)
        c == TextOf(a)
        clean == Lines(c)
        first == Body(lines)
        same(n) == \A k \in 1..n : SameFence(Fence(clean[k]), Fence(lines[k]))
        rowsOf(b) == {Row(t, k) : k \in b.from..(b.to - 1)}
    IN  /\ Len(clean) = Len(lines)
        /\ \A k \in DOMAIN c : LineAt(LineStarts(t), SourceOf(a, OffsetOf(c, k))) = Row(c, k)
        /\ (\A k \in DOMAIN lines : k < first => Fence(lines[k]) = NoFence) =>
             /\ \A n \in DOMAIN lines : same(n) => (Fenced(clean)[n] <=> TextBlock(lines, n).fence)
             /\ \A b \in ToSet(Blocks(t)) :
                  /\ \A n \in rowsOf(b) : Position(lines, first, n).open # NoFence
                  /\ \A n \in rowsOf(b) : Position(lines, first, n).at + 1 = Least(rowsOf(b))
                  /\ Position(lines, first, Upper(Least(rowsOf(b)) - 1, 1)).open = NoFence

\* What is shown of lines 1 to last around line n.
ShowsWell(out, n, last) ==
  /\ n \in ToSet(out) /\ ToSet(out) \subseteq 0..last
  /\ \A j, k \in DOMAIN out : j < k /\ out[j] > 0 /\ out[k] > 0 => out[j] < out[k]
  /\ \A k \in DOMAIN out : out[k] = 0 =>
       k > 1 /\ k < Len(out) /\ out[k - 1] > 0 /\ out[k + 1] > out[k - 1] + 1
  /\ \A k \in 2..Len(out) : out[k] > 0 /\ out[k - 1] > 0 => out[k] = out[k - 1] + 1

\* Whatever line of a text a finding names, the frame around it shows that line
\* exactly once and only lines of the file, each once and in order, with a mark
\* exactly where lines are left out (frame.go's textBlock, cut and render).
FramesShow ==
  pc = "static" /\ i = 1 => \A a \in Kept :
    LET lines == Lines(a.text)
        block(n) == IF a.type = "code" THEN Window(lines, n) ELSE TextBlock(lines, n)
    IN  \A n \in DOMAIN lines : ShowsWell(Render(block(n), n), n, Len(lines))

\* Where a path leads, part by part, when dest says where each link leads; what
\* has left the skill does not come back.
Out == <<"..">>
Follow(dest, from, target) ==
  LET enter(at) == IF at \in DOMAIN dest THEN dest[at] ELSE at
      step(at, name) ==
        CASE at = Out \/ name \in {"", "."} -> at
          [] at # Out /\ name = ".." -> IF at = << >> THEN Out ELSE Front(at)
          [] OTHER -> enter(Append(at, name))
  IN  IF target.root # "" THEN Out ELSE FoldLeft(step, from, target.parts)

\* A link is told exactly when it leads out of the skill, in one hop or by
\* other links, in whichever folder they lie; link.go follows them one part at
\* a time on one path that it rewrites, where the sense of a link is where the
\* links on its way lead.
LinksAreTold ==
  LET all == {a \in ToSet(artifacts) : a.type = "symlink"}
      by(dest) == [p \in {a.path : a \in all} |-> Follow(dest, Front(p), TargetOf(artifacts, p))]
      dest == FoldLeft(LAMBDA d, a : by(d), [p \in {a.path : a \in all} |-> Out], SetToSeq(all))
      told(r) == {f.file : f \in {g \in ToSet(findings) : g.rule = r.id}}
  IN  Complete => \A a \in all :
        LET at == ResolveLink(artifacts, a)
        IN  /\ at.parts = << >>
            /\ at.hops < MaxHops => \A r \in ToSet(case.static) : Applies(r, a) =>
                 (a.path \in told(r) <=> Follow(dest, Front(a.path), a.target) = Out)

\* A trace is shown for a finding only when all its matches are in traced code:
\* the values linked to it are those of every match of its rule at its line,
\* and none as soon as one match has none (pipeline.go's Link and Linked).
LinkedIsWhole ==
  Complete /\ code # {} => \A f \in ToSet(findings \o places) :
    LET a == CHOOSE b \in Files : b.path = f.file
        of == {r \in ToSet(case.static \o case.placeOnly) :
                 r.id = f.rule /\ r.traced /\ Applies(r, a) /\ Installed(Files, r, a)}
        at == {m \in UNION {ToSet(Matches(r, a, case.self)) : r \in of} : Place(m) = Place(f)}
    IN  of # {} /\ f.line > 0 =>
          Linked(f) = IF \E m \in at : Subjects(m) = {} THEN {} ELSE UNION {Subjects(m) : m \in at}
=============================================================================
