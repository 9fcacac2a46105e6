------------------------------- MODULE Reveal -------------------------------
(***************************************************************************)
(* The clean text of a file (reveal/normalize.go): hidden runes dropped,   *)
(* compatibility forms folded, the letters of a disguised word replaced by *)
(* the Latin ones they look like, with the shifts that lead an offset of   *)
(* the clean text back to the source (inventory.Artifact.Source).          *)
(***************************************************************************)
EXTENDS Texts

Invisible == "WORD-INVISIBLE-CHARS"
LookAlike == "WORD-HOMOGLYPHS"

Dropped(r) == Runes[r].kind = "hidden"
Joins(r) == Runes[r].kind \in {"letter", "digit"}
InWord(r) == Joins(r) \/ Dropped(r)
Ascii(s) == \A r \in ToSet(s) : Runes[r].size = 1

\* A hidden rune may be a letter of another script, as a Hangul filler is.
Foreign(r) == Runes[r].kind \in {"letter", "hidden"} /\ Runes[r].script = "foreign"
Concealed(r) ==
  Runes[r].kind \in {"letter", "hidden"} /\ Runes[r].size > 1 /\ Ascii(Runes[r].mapped)

NeedsNormalize(text) == \E r \in ToSet(text) : Runes[r].size > 1 \/ Dropped(r)

\* The word around place i of text t; a letter after a backslash is not in it.
AfterEscape(t, s) == IF s > 1 /\ t[s - 1] = "\\" THEN s + 1 ELSE s
WordStart(t, i) == AfterEscape(t, Least({k \in 1..i : \A j \in k..(i - 1) : InWord(t[j])}))
WordEnd(t, i) == Least({k \in i..(Len(t) + 1) : k = Len(t) + 1 \/ ~InWord(t[k])})

\* prevRune and nextRune, of what is not dropped: do they join?
JoinsBefore(t, i) ==
  \E k \in 1..(i - 1) : Joins(t[k]) /\ \A j \in (k + 1)..(i - 1) : Dropped(t[j])
JoinsAfter(t, i) ==
  \E k \in (i + 1)..Len(t) : Joins(t[k]) /\ \A j \in (i + 1)..(k - 1) : Dropped(t[j])

Disguised(word) ==
  /\ \A r \in ToSet(word) : Foreign(r) => Concealed(r)
  /\ \E r \in ToSet(word) : Runes[r].kind = "letter" /\ Runes[r].script = "latin"

-----------------------------------------------------------------------------
(* One pass over the text: out and size are the clean text and its bytes,   *)
(* until and swapped remember the word at hand.                             *)

AddHit(hits, n, rule, i) ==
  IF n > 0 /\ hits[n].rule = rule /\ hits[n].to = i THEN [hits EXCEPT ![n].to = i + 1]
  ELSE Append(hits, [rule |-> rule, from |-> i, to |-> i + 1])
Add(hits, rule, i) == AddHit(hits, Len(hits), rule, i)

Shift(shifts) == IF shifts = << >> THEN 0 ELSE Last(shifts).source - Last(shifts).clean

Mark(shifts, clean, source) ==
  IF source - clean = Shift(shifts) THEN shifts
  ELSE Append(shifts, [clean |-> clean, source |-> source])

\* The bytes of s that are marked when it stands for rune r, and their marks.
MarkedBytes(s, r) == IF s = <<r>> THEN 1 ELSE Size(s)
Marking(shifts, clean, source, n) ==
  LET mark[j \in 0..n] == IF j = 0 THEN shifts ELSE Mark(mark[j - 1], clean + j - 1, source)
  IN  mark
MarkAll(shifts, clean, source, n) == Marking(shifts, clean, source, n)[n]

\* A defect: a replacement is marked where it starts only.
WriteStart(p, s, at, r) ==
  [p EXCEPT !.shifts = Mark(@, p.size, at), !.out = @ \o s, !.size = @ + Size(s)]

\* pass.write: every byte of a replacement comes from the rune it replaces.
Write(p, s, at, r) ==
  [p EXCEPT !.shifts = MarkAll(@, p.size, at, MarkedBytes(s, r)),
            !.out = @ \o s, !.size = @ + Size(s)]

Judged(p, t, start, end) ==
  [p EXCEPT !.until = end, !.swapped = Disguised(SubSeq(t, start, end - 1))]

\* A defect: the memory of a word is not dropped at its end.
SwapKept(p, t, i, start) ==
  IF p.until > 0 \/ i < start THEN p ELSE Judged(p, t, start, WordEnd(t, i))

\* pass.swap: the verdict on a word holds for all its runes.
Swap(p, t, i, start) ==
  IF i < p.until \/ i < start THEN p ELSE Judged(p, t, start, WordEnd(t, i))

\* expand: q is the pass once the word at i is judged.
Fold(q, r, i, at, swaps) ==
  [Write(q, IF swaps THEN Runes[r].mapped ELSE Runes[r].folded, at, r)
     EXCEPT !.hits = IF swaps THEN Add(@, LookAlike, i) ELSE @]
FoldForeign(q, r, i, at) == Fold(q, r, i, at, i < q.until /\ q.swapped)

KeepRune(p, t, i, at) ==
  IF Foreign(t[i]) THEN FoldForeign(Swap(p, t, i, WordStart(t, i)), t[i], i, at)
  ELSE Write(p, IF Runes[t[i]].size = 1 THEN <<t[i]>> ELSE Runes[t[i]].mapped, at, t[i])

NormalizeRune(p, t, i) ==
  IF ~Dropped(t[i]) THEN KeepRune(p, t, i, OffsetOf(t, i))
  ELSE IF JoinsBefore(t, i) /\ JoinsAfter(t, i) THEN [p EXCEPT !.hits = Add(@, Invisible, i)]
  ELSE p

FirstPass ==
  [out |-> << >>, size |-> 0, shifts |-> << >>, hits |-> << >>, until |-> 0, swapped |-> FALSE]
Normalizing(t) ==
  LET pass[i \in 0..Len(t)] == IF i = 0 THEN FirstPass ELSE NormalizeRune(pass[i - 1], t, i)
  IN  pass
Normalize(t) == Normalizing(t)[Len(t)]

\* Artifact.Source: the offset in the source of an offset of the clean text.
Shifted(at, s) == (at + s.source) - s.clean
SourceBy(shifts, at, before) ==
  IF before = {} THEN at ELSE Shifted(at, shifts[Greatest(before)])
Source(shifts, at) == SourceBy(shifts, at, {k \in DOMAIN shifts : shifts[k].clean <= at})
=============================================================================
