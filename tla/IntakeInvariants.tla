-------------------------- MODULE IntakeInvariants --------------------------
(***************************************************************************)
(* The inductive invariants of Intake, and what they are made of: the      *)
(* predicates IntakeProofs states its lemmas with.                         *)
(***************************************************************************)
EXTENDS Intake

\* A sequence of whatever its elements are.
Sequence(s) == s \in Seq(ToSet(s))

\* The sequence of the elements of s that stand at indices h, which run up.
Along(s, h, p) ==
  /\ DOMAIN h = 1..Len(p)
  /\ \A j \in 1..Len(p) : p[j] = s[h[j]]
  /\ \A q, j \in 1..Len(p) : q < j => h[q] < h[j]

\* A text of known runes.
IsText(t) == t \in Seq(DOMAIN Runes)

\* Files with sizes that are numbers.
SizesOK(files) == Sequence(files) /\ \A k \in 1..Len(files) : files[k].size \in Nat

-----------------------------------------------------------------------------
(* Frames: the lines that are shown of a text. *)

\* The lines a frame may be cut from: in order, and within a text of len lines.
PartsOK(parts, len) ==
  /\ Sequence(parts)
  /\ \A k \in 1..Len(parts) : /\ parts[k][1] \in Nat /\ parts[k][2] \in Nat
                              /\ 0 < parts[k][1] /\ parts[k][1] <= parts[k][2] /\ parts[k][2] <= len
  /\ \A j, k \in 1..Len(parts) : j < k => parts[j][2] < parts[k][1]

\* Lines up to last are shown well.
OutOK(out, last) ==
  /\ out \in Seq(Nat)
  /\ \A k \in 1..Len(out) : out[k] <= last
  /\ \A j, k \in 1..Len(out) : j < k /\ out[j] > 0 /\ out[k] > 0 => out[j] < out[k]
  /\ \A k \in 1..Len(out) : out[k] = 0 =>
       k > 1 /\ k < Len(out) /\ out[k - 1] > 0 /\ out[k + 1] > out[k - 1] + 1
  /\ \A k \in 2..Len(out) : out[k] > 0 /\ out[k - 1] > 0 => out[k] = out[k - 1] + 1
  /\ last > 0 => Len(out) > 0 /\ out[Len(out)] = last
  /\ last = 0 => Len(out) = 0

\* c goes on with a mark (z = 1) or without, and the lines from a to b.
Continues(c, out, z, a, b) ==
  /\ c \in Seq(Nat) /\ Len(c) = Len(out) + z + (b - a) + 1
  /\ \A k \in 1..Len(out) : c[k] = out[k]
  /\ z = 1 => c[Len(out) + 1] = 0
  /\ \A k \in 1..Len(c) : k > Len(out) + z => c[k] = k + (a - Len(out) - z - 1)

\* What one more part adds to what is shown.
Added(new, acc, part) ==
  /\ new.last = part[2] /\ OutOK(new.out, part[2])
  /\ ToSet(acc.out) \subseteq ToSet(new.out) /\ part[1]..part[2] \subseteq ToSet(new.out)

\* Shown well, up to the last line of the k-th part, and all lines of the parts.
ShownTo(s, parts, k) ==
  /\ s.last \in Nat /\ OutOK(s.out, s.last)
  /\ IF k = 0 THEN s.last = 0 ELSE s.last = parts[k][2]
  /\ \A j \in 1..k : parts[j][1]..parts[j][2] \subseteq ToSet(s.out)

\* A block of lines around line n, in a text of len lines.
BlockOK(b, n, len) ==
  /\ b.from \in Nat /\ b.first \in Nat /\ b.last \in Nat
  /\ 0 < b.from /\ b.from <= b.first /\ b.first <= n /\ n <= b.last /\ b.last <= len

\* The lines of some part, and their limits.
PartsHold(parts, n) == \E k \in 1..Len(parts) : n \in parts[k][1]..parts[k][2]

-----------------------------------------------------------------------------
(* Fences, as the three readers of Markdown see them. *)

\* The lines of a text, each of them a text.
AreLines(lines) == Sequence(lines) /\ \A k \in 1..Len(lines) : Sequence(lines[k])

\* A fence open after line k was opened at a line up to there, with none open
\* before it, and is open since.
Opened(p, lines, k) ==
  p[k].open # NoFence =>
    /\ p[k].at \in 1..k /\ p[p[k].at - 1].open = NoFence
    /\ p[k].open.n \in Nat /\ p[k].open.n >= 3
    /\ \A j \in p[k].at..k : p[j].open = p[k].open /\ p[j].at = p[k].at

\* Whether line k is in a block of code, as the frame sees it.
InCode(p, lines, k) == p[k - 1].open # NoFence \/ Fence(lines[k]) # NoFence

\* The static layer reads the same fences as the frame.
SameFences(f, p, lines, k) ==
  /\ f.open = p[k].open
  /\ f.out \in Seq(BOOLEAN) /\ Len(f.out) = k
  /\ \A j \in 1..k : f.out[j] <=> InCode(p, lines, j)

\* Of two readers of fences, one is in a fence when the other is, and they close it alike.
Tied(x, y) ==
  (x.open = NoFence <=> y.open = NoFence) /\ x.open.mark = y.open.mark /\ x.open.n = y.open.n

\* The newlines among the first k runes.
Breaks(t, k) == {j \in 1..k : t[j] = Newline}

\* What was added to a for the rune r is a newline when the rune is one, or has none.
BreakWritten(a, b, r) ==
  /\ r = Newline => Len(b) = Len(a) + 1 /\ b[Len(b)] = Newline
  /\ r # Newline => \A j \in (Len(a) + 1)..Len(b) : b[j] # Newline

\* The ends of the lines of a text run up, to the end of the text, and are its newlines.
EndsOK(ends, t) ==
  /\ Len(ends) \in Nat \ {0} /\ ends[Len(ends)] = Len(t) + 1
  /\ \A j \in 1..Len(ends) : ends[j] \in 1..(Len(t) + 1)
  /\ \A j, k \in 1..Len(ends) : j < k => ends[j] < ends[k]
  /\ \A j \in 1..Len(ends) : j < Len(ends) => ends[j] <= Len(t) /\ t[ends[j]] = Newline
  /\ \A k \in 1..Len(t) : t[k] = Newline => \E j \in 1..(Len(ends) - 1) : ends[j] = k

\* The first rune of a line, for the lines of a text and the one past them.
FirstsOK(ends, t) ==
  /\ FromOf(ends, 1) = 1 /\ FromOf(ends, Len(ends) + 1) = Len(t) + 1
  /\ \A n \in 1..Len(ends) : n < Len(ends) => FromOf(ends, n + 1) = ends[n] + 1
  /\ \A n \in 1..(Len(ends) + 1) : FromOf(ends, n) \in 1..(Len(t) + 1)

\* A block opened at line a, and closed at line m or by the end of the text.
Between(b, p, ends, a, m) ==
  /\ a \in Nat \ {0} /\ m \in Nat /\ a < m /\ m <= Len(ends) + 1
  /\ b.from = FromOf(ends, a + 1) /\ b.to = FromOf(ends, m) /\ b.from < b.to
  /\ p[a - 1].open = NoFence
  /\ \A j \in a..(m - 1) : p[j].open # NoFence /\ p[j].at = a

Fencelike(b, p, ends) == \E a, m \in Nat : Between(b, p, ends, a, m)

\* The parser reads the same fences as the frame.
BlocksOK(c, p, ends, k) ==
  /\ c = [open |-> c.open, from |-> c.from, out |-> c.out]
  /\ c.open = p[k].open
  /\ c.open # NoFence => c.from = FromOf(ends, p[k].at + 1)
  /\ Sequence(c.out) /\ \A b \in ToSet(c.out) : Fencelike(b, p, ends)

\* The rows of a block of the parser lie in a fence that opens right before them.
BlockShown(lines, first, rows) ==
  /\ \A n \in rows : Position(lines, first, n).open # NoFence
  /\ \A n \in rows : Position(lines, first, n).at + 1 = Least(rows)
  /\ Position(lines, first, Upper(Least(rows) - 1, 1)).open = NoFence

\* The clean text c of a text t has its lines, and its runes are in theirs.
LinesKept(a, t, c) ==
  /\ Len(Lines(c)) = Len(Lines(t))
  /\ \A k \in DOMAIN c : LineAt(LineStarts(t), SourceOf(a, OffsetOf(c, k))) = Row(c, k)

\* Up to line n the fences are the same.
AlikeTo(c, lines, n) == \A k \in 1..n : SameFence(Fence(c[k]), Fence(lines[k]))

-----------------------------------------------------------------------------
(* The walk, and the limits it tells. *)

\* No id is the rule's; one is.
NoId(ids, id) == \A k \in 1..Len(ids) : ids[k] # id
OneId(ids, id) ==
  \E k \in 1..Len(ids) : ids[k] = id /\ \A j \in 1..Len(ids) : ids[j] = id => j = k

\* No finding of the rule; one, for the file.
ToldNone(fs, id) == \A k \in 1..Len(fs) : fs[k].rule # id
ToldOnce(fs, id, file) ==
  \E k \in 1..Len(fs) :
    /\ fs[k].rule = id /\ fs[k].file = file
    /\ \A j \in 1..Len(fs) : fs[j].rule = id => j = k

\* There is a finding of the rule for the file.
Told(fs, id, file) == \E k \in 1..Len(fs) : fs[k].rule = id /\ fs[k].file = file

\* One file more: more is files with a at its end, and the text counted up to it.
OneMore(files, a, more) ==
  /\ SizesOK(more) /\ Len(more) = Len(files) + 1
  /\ \A k \in 1..Len(files) : more[k] = files[k]
  /\ more[Len(more)] = a
  /\ TextUpTo(more)[Len(more)] = TextUpTo(files)[Len(files)] + TextIn(a)
  /\ PastText(more) # {} <=> TextUpTo(more)[Len(more)] > case.limits.text
  /\ PastText(files) # {} => more[Least(PastText(more))] = files[Least(PastText(files))]
  /\ PastText(files) = {} /\ PastText(more) # {} => more[Least(PastText(more))] = a

\* The limits that are told by what was counted so far, and by the size of one file.
Many == "BUNDLE-TOO-MANY-FILES"
MuchText == "BUNDLE-TOO-MUCH-TEXT"
TooLarge == "FILE-TOO-LARGE"

\* The entries counted so far: the one at hand is, once it was measured.
Entered == IF stat = {} THEN i - 1 ELSE i

\* Where the walk is: an artifact for each entry that is done.
WalkShape ==
  /\ case \in Cases
  /\ i \in 1..(Len(Pending) + 1)
  /\ Sequence(artifacts) /\ Len(artifacts) = Len(Lost) + (i - 1)
  /\ Sequence(findings)
  /\ stat # {} => i <= Len(Pending) /\ Entry.kind = "file" /\ ~Large(Entry)

WalkFiles ==
  /\ SizesOK(Walked) /\ Len(Walked) = i - 1
  /\ \A k \in 1..Len(Walked) : Walked[k].path = Pending[k].path

\* What was counted is what was walked.
WalkSums ==
  /\ sums \in [files : Nat, bundle : Nat, text : Nat]
  /\ sums.files = Entered
  /\ sums.text = TextUpTo(Walked)[Len(Walked)]

\* Each of these limits is told once it is passed, once, and of the first past it.
FilesLimit ==
  /\ Many \in once <=> sums.files > case.limits.files
  /\ Many \notin once => ToldNone(findings, Many)
  /\ Many \in once /\ Many \in case.allowed =>
       ToldOnce(findings, Many, Pending[case.limits.files + 1].path)

TextLimit ==
  /\ MuchText \in once <=> sums.text > case.limits.text
  /\ MuchText \in once <=> PastText(Walked) # {}
  /\ MuchText \notin once => ToldNone(findings, MuchText)
  /\ MuchText \in once /\ MuchText \in case.allowed =>
       ToldOnce(findings, MuchText, Walked[Least(PastText(Walked))].path)

\* A file is told as too large when it was looked at and is.
FileLimit ==
  \A k \in 1..Len(Pending) :
    /\ Told(findings, TooLarge, Pending[k].path) => k < i /\ Large(Pending[k]) /\ ~Walked[k].ok
    /\ k < i /\ Large(Pending[k]) /\ ~case.faults /\ TooLarge \in case.allowed =>
         Told(findings, TooLarge, Pending[k].path)

WalkInv == WalkShape /\ WalkFiles /\ WalkSums /\ FilesLimit /\ TextLimit /\ FileLimit

\* The inductive invariant of LimitsAreTold.
IInv ==
  /\ pc = "walk" => WalkInv
  /\ pc = "reveal" => i \in Nat \ {0}
  /\ LimitsAreTold

\* The rules that no name of a file is told by.
OwnRules == LimitRules \cup HitRules

-----------------------------------------------------------------------------
(* The artifacts, their texts and what is found in them. *)

\* An artifact has a text of known runes.
Texted(a) == "text" \in DOMAIN a /\ IsText(a.text)

TextsOK == Sequence(artifacts) /\ \A k \in 1..Len(artifacts) : Texted(artifacts[k])

\* Findings of one file.
FilesAre(fs, path) == Sequence(fs) /\ \A k \in 1..Len(fs) : fs[k].file = path

\* Findings of rules that are not of reveal.
OtherRules(fs) == Sequence(fs) /\ \A k \in 1..Len(fs) : fs[k].rule \notin HitRules

\* A pass has a text and hits.
PassOK(p) ==
  /\ DOMAIN p = {"out", "size", "shifts", "hits", "until", "swapped"}
  /\ Sequence(p.out) /\ Sequence(p.hits)

\* The fields of an artifact; what is no text has none.
Fields == {"path", "kind", "type", "ok", "size", "text", "clean", "shifts", "target"}

ArtifactOK(a) ==
  /\ DOMAIN a = Fields
  /\ Sequence(a.text) /\ Sequence(a.clean)
  /\ a.type \notin Textual => a.text = << >> /\ a.clean = << >>

\* The entries in the order of their artifacts.
Folder == Lost \o Pending

InFolder(a, k) == a.kind = "content" => k \in 1..Len(Folder) /\ a.path = Folder[k].path

\* The artifacts are those of the folder, each at its own place, and the brief.
ListOK ==
  /\ case \in Cases
  /\ Sequence(artifacts)
  /\ \A k \in 1..Len(artifacts) :
       /\ ArtifactOK(artifacts[k]) /\ InFolder(artifacts[k], k)
       /\ pc # "over" => artifacts[k].kind = "content"

\* What a step leaves of the artifacts.
PathsStay ==
  \A k \in 1..Len(artifacts) :
    /\ k \in 1..Len(artifacts')
    /\ artifacts'[k].kind = artifacts[k].kind /\ artifacts'[k].path = artifacts[k].path

\* A file with another clean text, or the same.
SameFile(a, b) ==
  /\ DOMAIN a = DOMAIN b /\ a.text = b.text
  /\ a.type = b.type /\ a.kind = b.kind /\ a.path = b.path

\* What is found at a line is found in one of the files of a list.
LocatedIn(f, list) ==
  f.line > 0 => \E k \in 1..Len(list) : list[k].kind = "content" /\ list[k].path = f.file

AllLocated(fs, list) == Sequence(fs) /\ \A k \in 1..Len(fs) : LocatedIn(fs[k], list)

FoundOK == AllLocated(findings, artifacts) /\ AllLocated(places, artifacts)

-----------------------------------------------------------------------------
(* The lines that are linked. *)

\* The rules of a run.
AllRules == case.static \o case.placeOnly

\* The matches of traced rules in a.
TracesOf(a) ==
  IF code = {} THEN {}
  ELSE UNION {ToSet(Matches(r, a, case.self)) :
                r \in {q \in ToSet(AllRules) : q.traced /\ Applies(q, a) /\ Installed(Files, q, a)}}

\* Those of the first n artifacts.
Scanned(n) == UNION {TracesOf(artifacts[k]) : k \in {j \in 1..n : Wanted(artifacts[j])}}

LinkedTo(ms) == links = LinksOf(ms) /\ unlinked = UnlinkedBy(ms)

\* The links are those of the artifacts scanned so far.
LinkInv ==
  /\ pc \in {"walk", "reveal", "ast"} => links = {} /\ unlinked = {}
  /\ pc = "static" => i \in 1..(Len(artifacts) + 1) /\ LinkedTo(Scanned(i - 1))
  /\ Complete => LinkedTo(Scanned(Len(artifacts)))

-----------------------------------------------------------------------------
(* The clean text, and the runes its bytes come from. *)

\* Marks stand at bytes of the clean text, in order.
MarksOK(shifts, size) ==
  /\ Sequence(shifts)
  /\ \A k \in 1..Len(shifts) :
       shifts[k].clean \in Nat /\ shifts[k].source \in Nat /\ shifts[k].clean < size
  /\ \A j, k \in 1..Len(shifts) : j < k => shifts[j].clean < shifts[k].clean

\* A pass has a text of runes that are known, its bytes, and their marks.
PassIs(p) ==
  PassOK(p) /\ IsText(p.out) /\ p.size = Size(p.out) /\ MarksOK(p.shifts, p.size)

\* From p to q the pass wrote s for the rune r at offset at: the bytes of s lead
\* back to that rune, and those before it where they led.
Wrote(p, q, s, r, at) ==
  /\ q.out = p.out \o s
  /\ \A x \in Nat : x < p.size => Source(q.shifts, x) = Source(p.shifts, x)
  /\ \A x \in Nat : p.size <= x /\ x < q.size =>
       at <= Source(q.shifts, x) /\ Source(q.shifts, x) < at + Runes[r].size
  /\ s = << >> => q.shifts = p.shifts /\ q.size = p.size
  /\ s # << >> => Source(q.shifts, q.size) <= at + Runes[r].size

\* A pass that has written the same.
Alike(p, q) == q.out = p.out /\ q.size = p.size /\ q.shifts = p.shifts

\* What a rune is written as.
Images(r) == {<<r>>, Runes[r].folded, Runes[r].mapped}

\* What is written stays, with its offsets and where they lead.
Grown(p, q) ==
  /\ Len(p.out) <= Len(q.out)
  /\ \A j \in 1..Len(p.out) : q.out[j] = p.out[j]
  /\ \A j \in 0..Len(p.out) : Offsets(q.out)[j] = Offsets(p.out)[j]
  /\ p.size <= q.size
  /\ \A x \in Nat : x < p.size => Source(q.shifts, x) = Source(p.shifts, x)

\* Where a byte leads, the bytes of a rune of the clean text, and the runes
\* that come from a rune of the source.
Holds(t, k, byte) == OffsetOf(t, k) <= byte /\ byte < OffsetOf(t, k + 1)
Sources(c, shifts, j) == {Source(shifts, OffsetOf(c, j) + b) : b \in 0..(Size(<<c[j]>>) - 1)}
Comes(t, c, shifts, k) == {j \in DOMAIN c : \A s \in Sources(c, shifts, j) : Holds(t, k, s)}
Origin(t, c, shifts, k) == Picked(Indices(c), Comes(t, c, shifts, k))

\* How far the clean text reaches after k runes.
Reach(t, k) == Len(Normalizing(t)[k].out)
Span(t, k) == (Reach(t, k - 1) + 1)..Reach(t, k)

\* Numbers from one, and those of them after a, up to b.
Counts(s, m) == Len(s) = m /\ \A k \in 1..m : s[k] = k
RunAfter(I, a, b) == I = (a + 1)..b
RunsFrom(p, a, n) == Sequence(p) /\ Len(p) = n /\ \A q \in 1..n : p[q] = a + q

\* Where the clean text of t leads back to.
OriginShown(t, c, shifts) ==
  /\ \A j \in DOMAIN c : \E k \in DOMAIN t : ~Dropped(t[k]) /\ \A s \in Sources(c, shifts, j) : Holds(t, k, s)
  /\ \A k \in DOMAIN t : ~Dropped(t[k]) =>
       [n \in DOMAIN Origin(t, c, shifts, k) |-> c[Origin(t, c, shifts, k)[n]]]
         \in {<<t[k]>>, Runes[t[k]].folded, Runes[t[k]].mapped}
  /\ \A k, l \in DOMAIN t : k < l =>
       \A x \in ToSet(Origin(t, c, shifts, k)), y \in ToSet(Origin(t, c, shifts, l)) : x < y
  /\ Source(shifts, Size(c)) <= Size(t)

\* The clean text of an artifact is what the pass over its text made.
CleanOf(a) ==
  a.clean # << >> => a.clean = Normalize(a.text).out /\ a.shifts = Normalize(a.text).shifts

CleanOK == \A k \in 1..Len(artifacts) : CleanOf(artifacts[k])

-----------------------------------------------------------------------------
(* The hits of reveal. *)

\* The runes from a to b - 1 are a whole run of what may be in a word.
RunIn(t, a, b) ==
  /\ a \in 1..Len(t) /\ b \in 1..(Len(t) + 1) /\ a < b
  /\ \A j \in a..(b - 1) : InWord(t[j])
  /\ a = 1 \/ ~InWord(t[a - 1])
  /\ b = Len(t) + 1 \/ ~InWord(t[b])

\* The word of rune k as the pass takes it, and whether it is disguised.
InDisguise(t, k) ==
  WordStart(t, k) <= k /\ Disguised(SubSeq(t, WordStart(t, k), WordEnd(t, k) - 1))

\* The runes that look like letters of the word they are in.
Alikes(t) ==
  {k \in DOMAIN t : Foreign(t[k]) /\ ~Dropped(t[k]) /\ \E w \in WordsOf(t) :
     /\ k \in w /\ \E j \in w : Runes[t[j]].kind = "letter" /\ Runes[t[j]].script = "latin"
     /\ \A j \in w : Foreign(t[j]) => Concealed(t[j])}
Hiddens(t) ==
  {k \in DOMAIN t : Dropped(t[k])
     /\ \E b \in 1..(k - 1), c \in (k + 1)..Len(t) :
          Joins(t[b]) /\ Joins(t[c]) /\ \A j \in (b + 1)..(c - 1) : Dropped(t[j])}

\* After k runes the pass knows of the word at hand whether it is disguised.
Remembers(p, t, k) ==
  /\ p.until \in Nat
  /\ \A j \in (k + 1)..Len(t) : j < p.until =>
       WordStart(t, j) <= j /\ (p.swapped <=> Disguised(SubSeq(t, WordStart(t, j), WordEnd(t, j) - 1)))

\* The places a rule of HitRules is about.
PlacesOf(t, rule) == IF rule = LookAlike THEN Alikes(t) ELSE Hiddens(t)

Covers(h, rule, x) == h.rule = rule /\ h.from <= x /\ x < h.to
HitOK(h, t, k) ==
  /\ DOMAIN h = {"rule", "from", "to"} /\ h.rule \in HitRules
  /\ h.from \in 1..k /\ h.to \in 2..(k + 1) /\ h.from < h.to
  /\ \A x \in h.from..(h.to - 1) : x \in PlacesOf(t, h.rule)

\* The hits of the first k runes: runs of such places, and no place is left out.
HitsOK(hits, t, k) ==
  /\ Sequence(hits) /\ \A j \in 1..Len(hits) : HitOK(hits[j], t, k)
  /\ \A rule \in HitRules : \A x \in PlacesOf(t, rule) : x <= k =>
       \E j \in 1..Len(hits) : Covers(hits[j], rule, x)

\* The lines of the places of a rule.
RowsOf(t, rule) == {Cardinality({j \in 1..(k - 1) : t[j] = Newline}) + 1 : k \in PlacesOf(t, rule)}

\* A place is told once, and every place is.
SeenOnce(out, told, fs, k) ==
  /\ Sequence(out) /\ \A j, l \in 1..Len(out) : Place(out[j]) = Place(out[l]) => j = l
  /\ \A j \in 1..Len(out) : Place(out[j]) \in told
  /\ \A x \in told : \E j \in 1..Len(out) : Place(out[j]) = x
  /\ \A q \in 1..k : Place(fs[q]) \in told

\* What reveal finds in a text: the hits of the rules that are on, by their lines.
HitsTold(fs, a, hits, row) ==
  /\ Sequence(fs) /\ \A k \in 1..Len(fs) : fs[k].file = a.path
  /\ \A k \in 1..Len(fs) : \E q \in 1..Len(hits) : fs[k].rule = hits[q].rule /\ fs[k].line = row[q]
  /\ \A q \in 1..Len(hits) : hits[q].rule \in case.allowed =>
       \E k \in 1..Len(fs) : fs[k].rule = hits[q].rule /\ fs[k].line = row[q]

\* The lines of a rule in a file, among findings.
LinesIn(fs, rule, path) == {f.line : f \in {g \in ToSet(fs) : g.rule = rule /\ g.file = path}}
Elsewhere(fs, path) == Sequence(fs) /\ \A k \in 1..Len(fs) : fs[k].rule \in HitRules => fs[k].file # path

\* The lines of the rules of reveal in a file, as they are to be.
HitsShown(fs, on, a) ==
  \A rule \in HitRules \cap on : UpToCap(LinesIn(fs, rule, a.path), RowsOf(a.text, rule))

\* Every file has its hits in the findings.
AllShown ==
  \A k \in 1..Len(artifacts) : Wanted(artifacts[k]) => HitsShown(findings, case.allowed, artifacts[k])

\* A file is Elsewhere until reveal comes to it, and its hits are shown after.
HitInv ==
  /\ Sequence(findings)
  /\ pc = "walk" => OtherRules(findings)
  /\ pc = "reveal" => \A k \in 1..Len(artifacts) :
       IF k < i THEN Wanted(artifacts[k]) => HitsShown(findings, case.allowed, artifacts[k])
       ELSE Elsewhere(findings, artifacts[k].path)
  /\ Revealed => AllShown
=============================================================================
