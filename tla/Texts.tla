------------------------------- MODULE Texts -------------------------------
(***************************************************************************)
(* The text of a file, as the layers read it: its lines (textutil), its    *)
(* fences as the static layer sees them (static/scope.go) and as the       *)
(* parser does (code/parse.go), and the block of lines the decision layer  *)
(* shows the model around a finding (decision/frame.go).                   *)
(*                                                                         *)
(* A text is a sequence of runes, names with what matters of them in       *)
(* Runes; a place in it is the index of a rune, an offset counts bytes.    *)
(***************************************************************************)
EXTENDS Integers, FiniteSets, SequencesExt

CONSTANTS
  Runes,           \* rune -> [size, kind, script, folded, mapped]
  Tags,            \* the runes that name a language the parser knows
  Around, Before,  \* frame.go: lines shown around a place and before a block
  MaxBlockLines, KeptLines

ASSUME FrameAssumption ==
  /\ {Around, Before} \subseteq Nat
  /\ {MaxBlockLines, KeptLines} \subseteq Nat \ {0} /\ 2 * KeptLines <= MaxBlockLines

Least(S) == CHOOSE x \in S : \A y \in S : x <= y
Greatest(S) == CHOOSE x \in S : \A y \in S : y <= x
Lower(a, b) == IF a < b THEN a ELSE b
Upper(a, b) == IF a > b THEN a ELSE b
Indices(s) == [k \in DOMAIN s |-> k]

\* The elements of s at the indices in I, in their order, as far as each index.
Picking(s, I) ==
  LET pick[k \in 0..Len(s)] ==
        IF k = 0 THEN << >>
        ELSE IF k \in I THEN Append(pick[k - 1], s[k]) ELSE pick[k - 1]
  IN  pick
Picked(s, I) == Picking(s, I)[Len(s)]

Newline == "\n"
Blanks == {" ", "\r", Newline}

\* The offset at which each rune of a text ends.
Offsets(text) ==
  LET end[k \in 0..Len(text)] == IF k = 0 THEN 0 ELSE end[k - 1] + Runes[text[k]].size
  IN  end
Size(text) == Offsets(text)[Len(text)]
OffsetOf(text, k) == Offsets(text)[k - 1]

LineStarts(text) ==
  {0} \cup {OffsetOf(text, k + 1) : k \in {j \in DOMAIN text : text[j] = Newline}}
LineAt(starts, offset) == Cardinality({s \in starts : s <= offset})

\* The indexes of the newlines, and of the end of the text: where lines end.
Ends(text) == Append(Picked(Indices(text), {k \in DOMAIN text : text[k] = Newline}), Len(text) + 1)
FromOf(ends, n) == IF n = 1 THEN 1 ELSE Lower(ends[n - 1] + 1, ends[Len(ends)])
From(text, n) == FromOf(Ends(text), n)

TrimReturn(line) == IF line # << >> /\ Last(line) = "\r" THEN Front(line) ELSE line
LinesTo(text, ends) ==
  [n \in DOMAIN ends |-> TrimReturn(SubSeq(text, FromOf(ends, n), ends[n] - 1))]
Lines(text) == LinesTo(text, Ends(text))

Inked(line, ink) == IF ink = {} THEN << >> ELSE SubSeq(line, Least(ink), Greatest(ink))
Trim(line) == Inked(line, {k \in DOMAIN line : line[k] \notin Blanks})

\* The length of the run of one rune a line starts with.
Run(line) == Least({k \in 1..(Len(line) + 1) : k = Len(line) + 1 \/ line[k] # line[1]}) - 1

-----------------------------------------------------------------------------
(* Fences: static/scope.go's fences, and code/parse.go's Blocks. *)

NoFence == [mark |-> "none", n |-> 0, info |-> << >>]

Marked(rest, n) == [mark |-> rest[1], n |-> n, info |-> SubSeq(rest, n + 1, Len(rest))]
RunAt(line, at) ==
  IF at \in 1..4 /\ line[at] \in {"tick", "tilde"}
  THEN Marked(SubSeq(line, at, Len(line)), Run(SubSeq(line, at, Len(line)))) ELSE NoFence
FenceRun(line) == RunAt(line, SelectInSeq(line, LAMBDA r : r # " "))

Long(f) == IF f.n < 3 THEN NoFence ELSE f
Fence(line) == Long(FenceRun(line))

Closes(f, open) == f.mark = open.mark /\ f.n >= open.n /\ Trim(f.info) = << >>

\* A defect: any fence closes an open one.
FencedByAny(acc, f) ==
  IF acc.open = NoFence /\ f.n >= 3 THEN [open |-> f, out |-> Append(acc.out, TRUE)]
  ELSE [open |-> IF f.n >= 3 THEN NoFence ELSE acc.open,
        out  |-> Append(acc.out, acc.open # NoFence)]

\* One more line is fenced when it opens a fence or stands in an open one.
FencedBy(acc, f) ==
  IF acc.open = NoFence /\ f.n >= 3 THEN [open |-> f, out |-> Append(acc.out, TRUE)]
  ELSE [open |-> IF acc.open # NoFence /\ Closes(f, acc.open) THEN NoFence ELSE acc.open,
        out  |-> Append(acc.out, acc.open # NoFence)]

Fencing(lines) ==
  LET read[k \in 0..Len(lines)] ==
        IF k = 0 THEN [open |-> NoFence, out |-> << >>]
        ELSE FencedBy(read[k - 1], FenceRun(lines[k]))
  IN  read
Fenced(lines) == Fencing(lines)[Len(lines)].out

\* The blocks whose tag the parser knows, as [from, to) of the text.
FirstOf(line) == IF line = << >> THEN "" ELSE line[1]
Known(f) == FirstOf(Trim(f.info)) \in Tags

\* A block ends before line n, which starts at rune at and ends before next.
BlockLine(acc, f, at, next) ==
  IF acc.open = NoFence
  THEN IF f = NoFence THEN acc ELSE [acc EXCEPT !.open = f, !.from = next]
  ELSE IF ~Closes(f, acc.open) THEN acc
  ELSE [open |-> NoFence, from |-> 0,
        out |-> IF Known(acc.open) /\ at > acc.from THEN Append(acc.out, [from |-> acc.from, to |-> at])
                ELSE acc.out]

OpenBlock(acc, end) ==
  IF acc.open # NoFence /\ Known(acc.open) /\ end > acc.from
  THEN Append(acc.out, [from |-> acc.from, to |-> end]) ELSE acc.out

Blocking(lines, ends) ==
  LET read[n \in 0..Len(lines)] ==
        IF n = 0 THEN [open |-> NoFence, from |-> 0, out |-> << >>]
        ELSE BlockLine(read[n - 1], Fence(lines[n]), FromOf(ends, n), FromOf(ends, n + 1))
  IN  read
BlocksOf(lines, ends) == OpenBlock(Blocking(lines, ends)[Len(lines)], ends[Len(ends)])
Blocks(text) == BlocksOf(Lines(text), Ends(text))

-----------------------------------------------------------------------------
(* frame.go: the block of lines around line n, and what of it is shown. *)

Body(lines) ==
  IF Trim(lines[1]) # <<"---">> THEN 1
  ELSE Least({k \in 2..Len(lines) : Trim(lines[k]) = <<"---">>} \cup {Len(lines)}) + 1

LevelOf(line, n) == IF n <= 6 /\ n < Len(line) /\ line[n + 1] = " " THEN n ELSE 0
HeadingLevel(line) == IF FirstOf(line) = "#" THEN LevelOf(line, Run(line)) ELSE 0

KindOf(line, ink) ==
  CASE ink = << >> -> "blank"
    [] Fence(line) # NoFence -> "fence"
    [] HeadingLevel(line) > 0 -> "heading"
    [] FirstOf(ink) = "|" -> "table"
    [] FirstOf(ink) = "-" /\ (Len(ink) = 1 \/ ink[2] = " ") -> "item"
    [] OTHER -> "text"
Kind(line) == KindOf(line, Trim(line))

\* The fence open before line n, and the line it opened at.
ReadFence(acc, f, k) ==
  IF acc.open = NoFence /\ f # NoFence THEN [open |-> f, at |-> k]
  ELSE IF acc.open # NoFence /\ Closes(f, acc.open) THEN [open |-> NoFence, at |-> 0]
  ELSE acc

Positions(lines, first) ==
  LET read[k \in 0..Len(lines)] ==
        IF k = 0 THEN [open |-> NoFence, at |-> 0]
        ELSE IF k < first THEN read[k - 1] ELSE ReadFence(read[k - 1], Fence(lines[k]), k)
  IN  read
Position(lines, first, n) == Positions(lines, first)[n - 1]

Closing(lines, from, open) ==
  Least({k \in from..Len(lines) : Closes(Fence(lines[k]), open)} \cup {Len(lines)})

TextFrom(lines, n, first) ==
  Least({k \in first..n : \A j \in k..n : Kind(lines[j]) = "text"})
TextTo(lines, n) ==
  Least({k \in (n + 1)..Len(lines) : Kind(lines[k]) # "text"} \cup {Len(lines) + 1}) - 1
ItemAbove(lines, k, first) == IF k > first /\ Kind(lines[k - 1]) = "item" THEN k - 1 ELSE k

Paragraph(lines, n, first) ==
  CASE Kind(lines[n]) = "text" ->
         <<ItemAbove(lines, TextFrom(lines, n, first), first), TextTo(lines, n)>>
    [] Kind(lines[n]) = "item" -> <<n, TextTo(lines, n)>>
    [] OTHER -> <<n, n>>

BlockOf(at, fence) ==
  [from |-> Upper(at[1] - Before, 1), first |-> at[1], last |-> at[2], fence |-> fence]

BlockFrom(lines, n, first, p) ==
  IF n < first
    THEN [from |-> 1, first |-> 1, last |-> Lower(first - 1, Len(lines)), fence |-> FALSE]
  ELSE IF p.open # NoFence THEN BlockOf(<<p.at, Closing(lines, n, p.open)>>, TRUE)
  ELSE IF Fence(lines[n]) # NoFence
    THEN BlockOf(<<n, Closing(lines, n + 1, Fence(lines[n]))>>, TRUE)
  ELSE BlockOf(Paragraph(lines, n, first), FALSE)

TextBlockFrom(lines, n, first) == BlockFrom(lines, n, first, Position(lines, first, n))
TextBlock(lines, n) == TextBlockFrom(lines, n, Body(lines))

\* function(): a script without a function around the line.
WindowOf(from, to) == [from |-> from, first |-> from, last |-> to, fence |-> FALSE]
Window(lines, n) == WindowOf(Upper(n - Around, 1), Lower(n + Around, Len(lines)))

\* A defect: a place in the tail gets its own part too.
CutTailed(first, last, n, head, tail) ==
  IF last - first + 1 <= MaxBlockLines THEN <<<<first, last>>>>
  ELSE IF n <= head THEN <<<<first, head>>, <<tail, last>>>>
  ELSE <<<<first, head>>, <<Upper(n - Around, head + 1), n + Around>>, <<tail, last>>>>

\* A long block keeps its head and tail, and the lines around the place.
CutAt(first, last, n, head, tail) ==
  IF last - first + 1 <= MaxBlockLines THEN <<<<first, last>>>>
  ELSE IF n <= head \/ n >= tail THEN <<<<first, head>>, <<tail, last>>>>
  ELSE <<<<first, head>>, <<Upper(n - Around, head + 1), Lower(n + Around, tail - 1)>>,
         <<tail, last>>>>

Cut(first, last, n) == CutAt(first, last, n, first + KeptLines - 1, last - KeptLines + 1)

\* The numbers of the lines shown, part by part; 0 stands for what is left out.
UpFrom(from, to) == [k \in 1..(to - from + 1) |-> from + k - 1]

Show(acc, part) ==
  [last |-> Upper(acc.last, part[2]),
   out  |-> acc.out \o (IF acc.last > 0 /\ part[1] > acc.last + 1 THEN <<0>> ELSE << >>)
              \o UpFrom(Upper(part[1], acc.last + 1), part[2])]

Shown(parts) ==
  LET show[k \in 0..Len(parts)] ==
        IF k = 0 THEN [last |-> 0, out |-> << >>] ELSE Show(show[k - 1], parts[k])
  IN  show

PartsOf(b, n) ==
  (IF b.from < b.first THEN <<<<b.from, b.first - 1>>>> ELSE << >>) \o Cut(b.first, b.last, n)

Render(b, n) == Shown(PartsOf(b, n))[Len(PartsOf(b, n))].out
=============================================================================
