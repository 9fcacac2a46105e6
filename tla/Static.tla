------------------------------- MODULE Static -------------------------------
(***************************************************************************)
(* What the static layer finds in one artifact (layers/static): the        *)
(* matches of a rule in the clean text with their place in the source, and *)
(* where a symbolic link leads.  Operators only; Intake composes them.     *)
(*                                                                         *)
(* A regular expression is the sequence of runes it matches.  An artifact  *)
(* is [path, type, ok, size, text, clean, shifts, target, kind]; a rule is *)
(* [id, scope, files, patterns, exclude, severity, lowered, installers,    *)
(* lockfiles, traced, enabled, interrupt].                                 *)
(***************************************************************************)
EXTENDS Reveal

CONSTANTS
  MaxHops,     \* link.go
  MaxPerRule   \* static.go and reveal.go: findings of a rule in a file

ASSUME StaticAssumption == {MaxHops, MaxPerRule} \subseteq Nat \ {0}

Medium == 2
Edges == {" ", "\r", "\n", ";", "&", "|", "(", ")", "tick", ","}
Brackets == {"[", "]", "<", ">"}
ShellSigns == {"|", ";", "&", "<", ">", "tick", "$("}
Textual == {"markdown", "code", "text", "data"}

TextOf(a) == IF a.clean # << >> THEN a.clean ELSE a.text

\* A place [from, to) of text t where the runes of pat stand.
Stands(t, pat, k) == k + Len(pat) <= Len(t) + 1 /\ SubSeq(t, k, k + Len(pat) - 1) = pat

\* FindAllStringIndex: the leftmost matches that do not overlap.
NextMatch(acc, t, pat, k, to) ==
  IF k >= acc.next /\ Stands(t, pat, k)
  THEN [next |-> to, out |-> Append(acc.out, [from |-> k, to |-> to])] ELSE acc

Occurring(t, pat) ==
  LET find[k \in 0..Len(t)] ==
        IF k = 0 THEN [next |-> 1, out |-> << >>]
        ELSE NextMatch(find[k - 1], t, pat, k, k + Len(pat))
  IN  find
Occurrences(t, pat) == Occurring(t, pat)[Len(t)].out

Includes(t, pat) == \E k \in DOMAIN t : Stands(t, pat, k)

-----------------------------------------------------------------------------
(* Where a rule applies. *)

Applies(r, a) ==
  /\ r.files = {} \/ Last(a.path) \in r.files
  /\ (r.scope = "link") <=> (a.type = "symlink")

\* scope.go's allowed.
AllowedIn(type, scope, inFence) ==
  CASE scope = "any"   -> TRUE
    [] scope = "code"  -> type \in {"code", "data"} \/ (type = "markdown" /\ inFence)
    [] scope = "prose" -> type = "text" \/ (type = "markdown" /\ ~inFence)
    [] OTHER           -> FALSE

\* A manifest counts when a text of the skill names it or installs from it,
\* and no lock file lies beside it.
Installed(all, r, a) ==
  \/ r.installers = {}
  \/ /\ \A b \in all : ~(Front(b.path) = Front(a.path) /\ Last(b.path) \in r.lockfiles)
     /\ \E b \in all :
          /\ b # a /\ b.kind = "content" /\ b.type \in Textual
          /\ ToSet(TextOf(b)) \cap ({Last(a.path)} \cup r.installers) # {}

-----------------------------------------------------------------------------
(* One match m of rule r in artifact a: source.build. *)

Row(t, k) == LineAt(LineStarts(t), OffsetOf(t, k))

\* A leading newline only anchors the pattern.
Anchored(t, m) == IF t[m.from] = "\n" /\ m.to - m.from > 1 THEN [m EXCEPT !.from = @ + 1] ELSE m

\* The install of the skill by itself: a match within the command, but for a
\* sign at its edges, on a line that does not turn to another registry.
Within(t, self, from, to) ==
  \E k \in DOMAIN t : Stands(t, self, k) /\ k <= from /\ to <= k + Len(self)

SelfInstall(t, m, line, self) ==
  /\ self # << >> /\ "--registry" \notin ToSet(line)
  /\ Within(t, self, IF t[m.from] \in Edges THEN m.from + 1 ELSE m.from,
            IF t[m.to - 1] \in Edges /\ m.to - 1 > m.from THEN m.to - 1 ELSE m.to)

\* The path of the skill itself, but for signs around it, and no address.
Bare(text) == Inked(text, {k \in DOMAIN text : text[k] \notin Edges \cup Brackets})
PathAlone(text) == "skills/self" \in text /\ text \cap {" ", "://"} = {}
SelfPath(t, m) == PathAlone(ToSet(Bare(SubSeq(t, m.from, m.to - 1))))

\* One command that only reads, with no other one in it.
Plain(r, command) == ToSet(command) \cap ShellSigns = {} /\ Trim(command) \in r.lowered

Ticks(line) == Len(line) >= 3 /\ \A k \in 1..3 : line[k] = "tick"

PlainTo(r, lines, row, end) ==
  end # {} /\ \A k \in (row + 1)..(Least(end) - 1) : Trim(lines[k]) = << >> \/ Plain(r, lines[k])
FenceLowered(r, lines, row) ==
  PlainTo(r, lines, row, {k \in (row + 1)..Len(lines) : Ticks(lines[k])})

SpanLowered(r, match, n, opens) ==
  opens # {} /\ match[n] = "tick" /\ Plain(r, SubSeq(match, Least(opens) + 2, n - 1))

\* A command that runs as the skill loads is less severe when it only reads.
LoweredText(r, t, match, n, row) ==
  IF n >= 4 /\ Ticks(match) /\ match[4] = "!" THEN FenceLowered(r, Lines(t), row)
  ELSE SpanLowered(r, match, n, {k \in 1..(n - 2) : match[k] = "!" /\ match[k + 1] = "tick"})
LoweredMatch(r, t, m, row) ==
  r.lowered # {} /\ LoweredText(r, t, SubSeq(t, m.from, m.to - 1), m.to - m.from, row)

\* A finding of r at the bytes start to end of the file.
FindingAt(r, a, severity, starts, start, end) ==
  [rule |-> r.id, file |-> a.path, start |-> start, severity |-> severity,
   line |-> LineAt(starts, start), end |-> LineAt(starts, Upper(end, start + 1) - 1)]

Severity(r, t, m, row) ==
  IF r.severity > Medium /\ LoweredMatch(r, t, m, row) THEN Medium ELSE r.severity

SourceOf(a, offset) == IF a.clean # << >> THEN Source(a.shifts, offset) ELSE offset

\* A defect: the offsets of the clean text are taken for those of the file.
BuildAtOffset(r, a, t, m) ==
  FindingAt(r, a, Severity(r, t, m, Row(t, m.from)), LineStarts(a.text),
            OffsetOf(t, m.from), OffsetOf(t, m.to))

Build(r, a, t, m) ==
  FindingAt(r, a, Severity(r, t, m, Row(t, m.from)), LineStarts(a.text),
            SourceOf(a, OffsetOf(t, m.from)), SourceOf(a, OffsetOf(t, m.to)))

AcceptedAt(r, a, t, lines, m, row, self) ==
  /\ AllowedIn(a.type, r.scope, a.type = "markdown" /\ Fenced(lines)[row])
  /\ r.exclude = << >> \/ ~Includes(lines[row], r.exclude)
  /\ ~SelfInstall(t, m, lines[row], self) /\ ~SelfPath(t, m)

\* source.matches: what rule r finds in a, pattern by pattern.
AllAnchored(t, ms) == [k \in DOMAIN ms |-> Anchored(t, ms[k])]
Matching(r, t) ==
  LET match[k \in 0..Len(r.patterns)] ==
        IF k = 0 THEN << >>
        ELSE match[k - 1] \o AllAnchored(t, Occurrences(t, r.patterns[k]))
  IN  match
MatchesOf(r, t) == Matching(r, t)[Len(r.patterns)]

BuildAll(r, a, t, ms) == [k \in DOMAIN ms |-> Build(r, a, t, ms[k])]
AcceptedOf(r, a, t, lines, ms, self) ==
  Picked(ms, {k \in DOMAIN ms : AcceptedAt(r, a, t, lines, ms[k], Row(t, ms[k].from), self)})
MatchesIn(r, a, t, lines, self) ==
  BuildAll(r, a, t, AcceptedOf(r, a, t, lines, MatchesOf(r, t), self))

Matches(r, a, self) == MatchesIn(r, a, TextOf(a), Lines(TextOf(a)), self)

\* A defect: a line counts for all files.
PlaceOfLine(f) == <<f.rule, f.line>>

Place(f) == <<f.rule, f.file, f.line>>

\* unique: the first of a rule at a line, and of those MaxPerRule; every line
\* counts as seen.
SeeAt(acc, f, place) ==
  IF place \in acc.seen THEN acc
  ELSE [seen |-> acc.seen \cup {place}, out |-> Append(acc.out, f)]
Seeing(fs, seen) ==
  LET see[k \in 0..Len(fs)] ==
        IF k = 0 THEN [seen |-> seen, out |-> << >>] ELSE SeeAt(see[k - 1], fs[k], Place(fs[k]))
  IN  see
Unique(fs, seen) == Seeing(fs, seen)[Len(fs)]

Capped(fs) == SubSeq(fs, 1, Lower(Len(fs), MaxPerRule))

-----------------------------------------------------------------------------
(* link.go: a link's target, links inside the skill followed. *)

IsLink(artifacts, names) ==
  \E a \in ToSet(artifacts) : a.path = names /\ a.type = "symlink"
TargetOf(artifacts, names) ==
  (CHOOSE a \in ToSet(artifacts) : a.path = names /\ a.type = "symlink").target

\* A defect: an absolute target is read from the folder of the link.
StartBelow(at, target) == [at EXCEPT !.parts = target.parts \o @]

\* resolved.start: an absolute target, or one with a drive, starts over.
Start(at, target) ==
  IF target.root = "" THEN [at EXCEPT !.parts = target.parts \o @]
  ELSE [at EXCEPT !.root = target.root, !.up = 0, !.names = << >>, !.parts = target.parts \o @]

Parent(at) ==
  IF at.names # << >> THEN [at EXCEPT !.names = Front(@)]
  ELSE IF at.root = "" THEN [at EXCEPT !.up = @ + 1] ELSE at

EnterAt(artifacts, at, names) ==
  IF at.root = "" /\ at.up = 0 /\ IsLink(artifacts, names) /\ at.hops < MaxHops
  THEN Start([at EXCEPT !.hops = @ + 1], TargetOf(artifacts, names))
  ELSE [at EXCEPT !.names = names]

HopTo(artifacts, at, name) ==
  CASE name \in {"", "."} -> at
    [] name = ".." -> Parent(at)
    [] OTHER -> EnterAt(artifacts, at, Append(at.names, name))

Hop(artifacts, at) ==
  IF at.parts = << >> THEN at
  ELSE HopTo(artifacts, [at EXCEPT !.parts = Tail(@)], Head(at.parts))

\* MaxParts bounds the parts of one target, so that many turns empty them all.
MaxParts == 4
ResolveLink(artifacts, a) ==
  FoldLeft(LAMBDA at, k : Hop(artifacts, at),
           Start([root |-> "", up |-> 0, names |-> Front(a.path), parts |-> << >>, hops |-> 0],
                 a.target),
           [k \in 1..(MaxParts * (MaxHops + 1)) |-> k])

\* The pattern of SYMLINK-OUT-OF-SKILL.
LeadsOut(at) == at.root # "" \/ at.up > 0
=============================================================================
