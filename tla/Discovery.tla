------------------------------ MODULE Discovery ------------------------------
(***************************************************************************)
(* The discovery layer (layers/discovery): a model records findings with   *)
(* the finding tool as it reads, may correct or withdraw them, and ends    *)
(* with submit_result.  What is on record when the session is over becomes *)
(* findings of the skill, with or without an error, except where the skill *)
(* has a finding for the same risk (State.Covered, State.Restated).        *)
(*                                                                         *)
(* An item is what the store tells apart: where it starts and ends, its    *)
(* rule, and the confidence.  An item of the store and a finding with the  *)
(* same file, rule and first line have the same identity.                  *)
(***************************************************************************)
EXTENDS Agent, Verdicts, SequencesExt

CONSTANTS
  Items,    \* the items that pass check()
  Bad,      \* an item that check() refuses
  SeverityOf,  \* the severity of each rule
  TwinOf,   \* the text rule a model rule restates (ADR 0018), or None
  None,
  Texts,    \* findings of text rules that may be on record before the layer
  Raised,   \* findings of model rules that usages() may have raised
  Covers    \* the places usages() may have covered with State.Cover

Places == Texts \cup Raised \cup Covers

ASSUME DiscoveryAssumption ==
  /\ \A it \in Items \cup Places :
       /\ it.first \in Nat \ {0} /\ it.last \in Nat /\ it.first <= it.last
       /\ it.rule \in DOMAIN SeverityOf /\ SeverityOf[it.rule] \in Severities
  /\ \A it \in Items : it.confidence \in Confidences
  /\ DOMAIN TwinOf = DOMAIN SeverityOf
  /\ \A r \in DOMAIN TwinOf : TwinOf[r] \in DOMAIN SeverityOf \cup {None}
  /\ Bad \notin Items
  /\ \A f \in Raised : f.first = f.last
  /\ \A f \in Texts, it \in Items : f.rule # it.rule
  /\ \A c \in Calls :
       /\ c.tool \in {"add", "remove", "submit", "read"}
       /\ c.entries \in Seq(Items \cup {Bad})
       /\ c.tool \in {"add", "remove"} => Len(c.entries) = 1
       /\ c.tool = "remove" => Head(c.entries) # Bad

VARIABLES
  covers,    \* State.covers
  findings,  \* State.Findings when the layer starts
  items,     \* store.items
  recorded,  \* what the layer adds to State.Findings
  over       \* Layer.Run has returned

vars == <<loop, covers, findings, items, recorded, over>>
layer == <<covers, findings, items, recorded, over>>

-----------------------------------------------------------------------------
(* What the skill has a finding for already. *)

SamePlace(a, b) == a.file = b.file /\ a.rule = b.rule
Same(a, b) == SamePlace(a, b) /\ a.first = b.first

\* State.Covered: an answer about the use of a reference covers some line of it.
Covered(it) ==
  \E c \in covers : SamePlace(c, it) /\ it.first <= c.last /\ it.last >= c.first

\* State.Restated: a text rule that is not the milder of the two has a finding
\* where the item starts.
Restated(it) ==
  \E f \in findings :
    /\ f.rule = TwinOf[it.rule] /\ SeverityOf[f.rule] >= SeverityOf[it.rule]
    /\ f.file = it.file /\ it.first \in f.first..f.last

-----------------------------------------------------------------------------
(* The store. *)

\* What the references brought: usages() covers each place it raises a rule at,
\* and does not raise it where the text rule has a finding.
Init ==
  /\ LoopInit
  /\ covers \in SUBSET Covers
  /\ \E texts \in SUBSET Texts, raised \in SUBSET Raised :
       /\ findings = texts \cup raised
       /\ \A f \in raised : Covered(f) /\ ~Restated(f)
  /\ items = << >> /\ recorded = << >>
  /\ over = FALSE

\* index: 0 is -1.
Index(its, it) == SelectInSeq(its, LAMBDA o : Same(o, it))

Removed(its, it) == IF Index(its, it) = 0 THEN its ELSE RemoveAt(its, Index(its, it))

\* A defect: an unsure item leaves the one before it on record.
AddIfSure(its, it) ==
  IF ~Confident(it.confidence) THEN its
  ELSE IF Index(its, it) = 0 THEN Append(its, it) ELSE ReplaceAt(its, Index(its, it), it)

\* add: a sure item takes the place of the one before, an unsure one only
\* withdraws it.
Added(its, it) ==
  IF ~Confident(it.confidence) THEN Removed(its, it)
  ELSE IF Index(its, it) = 0 THEN Append(its, it) ELSE ReplaceAt(its, Index(its, it), it)

\* check() of every entry: one that is refused, and the call is.
Accepted(c) == Bad \notin ToSet(c.entries)

\* add of one entry after the other.
AddedAll(its, entries) ==
  LET after[k \in 0..Len(entries)] ==
        IF k = 0 THEN its ELSE Added(after[k - 1], entries[k])
  IN  after[Len(entries)]

\* What a call does to the store.
Stored(c) ==
  IF c.tool = "remove" THEN Removed(items, Head(c.entries))
  ELSE IF c.tool \in {"add", "submit"} /\ Accepted(c)
    THEN AddedAll(items, c.entries)
  ELSE items

-----------------------------------------------------------------------------
Ask ==
  /\ \/ Compaction
     \/ \E calls \in Replies : Reply(calls)
  /\ UNCHANGED layer

\* The finding tool records and withdraws; submit_result records and, not
\* refused, ends the task.
CallTool ==
  /\ \E c \in Calls :
       /\ Answer(c, c.tool = "submit" /\ Accepted(c))
       /\ items' = Stored(c)
  /\ UNCHANGED <<covers, findings, recorded, over>>

Turn == LoopStep /\ UNCHANGED layer

\* A defect: covered only where the item starts in the place.
ToldAtStart(it) ==
  ~Restated(it) /\ ~(\E c \in covers : SamePlace(c, it) /\ it.first \in c.first..c.last)

\* convert: what is covered or restated is not a finding.
Told(it) == ~Covered(it) /\ ~Restated(it)

\* finding.Dedup: the first finding of an identity stays.
Report(its) ==
  LET out[k \in 0..Len(its)] ==
        IF k = 0 THEN << >>
        ELSE IF Told(its[k]) /\ Index(out[k - 1], its[k]) = 0 THEN Append(out[k - 1], its[k])
        ELSE out[k - 1]
  IN  out[Len(its)]

\* A defect: a session that failed records nothing.
ConcludeDone ==
  /\ stage = "returned" /\ ~over
  /\ recorded' = IF err = "none" THEN Report(items) ELSE << >>
  /\ over' = TRUE
  /\ UNCHANGED <<loop, covers, findings, items>>

\* The session is over, with or without an error.
Conclude ==
  /\ stage = "returned" /\ ~over
  /\ recorded' = Report(items)
  /\ over' = TRUE
  /\ UNCHANGED <<loop, covers, findings, items>>

Returned == over /\ UNCHANGED vars

Next == Ask \/ CallTool \/ Turn \/ Conclude \/ Returned

Spec == Init /\ [][Next]_vars

-----------------------------------------------------------------------------
TypeOK ==
  /\ LoopType
  /\ covers \subseteq Covers /\ findings \subseteq Texts \cup Raised
  /\ items \in Seq({it \in Items : Confident(it.confidence)})
  /\ recorded \in Seq(Items)
  /\ over \in BOOLEAN

\* The report has a place once: one finding for an identity, none on the lines of
\* a usage answer, and none of a rule that starts in a finding of its text rule
\* unless the text rule is the milder one.  What usages() raised counts too.
ReportedOnce ==
  over =>
    /\ \A i, j \in DOMAIN recorded : Same(recorded[i], recorded[j]) => i = j
    /\ \A i \in DOMAIN recorded, f \in findings :
         LET it == recorded[i]
         IN  /\ ~(SamePlace(f, it) /\ it.first <= f.last /\ it.last >= f.first)
             /\ (f.rule = TwinOf[it.rule] /\ f.file = it.file /\ it.first \in f.first..f.last)
                  => SeverityOf[f.rule] < SeverityOf[it.rule]

\* What is on record at the end is reported, however the session ended, unless a
\* usage answer covers a line of it or the report has a finding at its start that
\* is as severe: no risk is silenced by a milder one.
NothingDropped ==
  over => \A i \in DOMAIN items :
    LET it == items[i]
    IN  \/ it \in ToSet(recorded)
        \/ \E c \in covers : SamePlace(c, it) /\ c.first <= it.last /\ it.first <= c.last
        \/ \E f \in findings : /\ f.file = it.file /\ it.first \in f.first..f.last
                               /\ SeverityOf[f.rule] >= SeverityOf[it.rule]

\* The last word of a call about an identity: its index in the entries, or 0.
LastWord(c, it) == SelectLastInSeq(c.entries, LAMBDA e : e # Bad /\ Same(e, it))

\* The store holds the last word about each identity: after a call it has the
\* last item about it if the model is sure of that one, and none if it is not or
\* took it back; a refused call, and a call about others, changes nothing.
LastWordCounts ==
  [][\A it \in Items :
       LET c == Head(queue)
           n == LastWord(c, it)
           on(its) == {o \in ToSet(its) : Same(o, it)}
       IN  on(items') =
             IF stage # "answering" \/ queue = << >> THEN on(items)
             ELSE IF c.tool = "read" \/ Bad \in ToSet(c.entries) \/ n = 0 THEN on(items)
             ELSE IF c.tool = "remove" \/ c.entries[n].confidence < 3 THEN {}
             ELSE {c.entries[n]}]_vars
=============================================================================
