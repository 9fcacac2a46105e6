------------------------------- MODULE Engine -------------------------------
(***************************************************************************)
(* The decision engine (layers/decision/engine.go): what the answers to a  *)
(* finding's questions make of the finding under its rule's outcome table. *)
(* Operators only; Decision composes them.                                 *)
(*                                                                         *)
(* A probability is a whole number of percent.  The evidence of a finding  *)
(* is a function from its subjects to a sequence of instances, a place or  *)
(* a trace each: [label, replies], the replies by question name.  A reply  *)
(* is [skipped, mass, choice, of], with mass a function from options; "of" *)
(* is not in the code: it remembers what the reply is an answer to, for    *)
(* the properties of Decision.                                             *)
(***************************************************************************)
EXTENDS Verdicts, SequencesExt

NoReply == [skipped |-> "none", mass |-> << >>, choice |-> "none", of |-> << >>]

Sum(s) ==
  LET sum[k \in 0..Len(s)] == IF k = 0 THEN 0 ELSE sum[k - 1] + s[k]
  IN  sum[Len(s)]

\* reply.mass: an option a row lists twice counts twice.
Mass(reply, options) ==
  Sum([o \in DOMAIN options |->
         IF options[o] \in DOMAIN reply.mass THEN reply.mass[options[o]] ELSE 0])

\* c[question]: the zero reply for a question no instance of c holds.
Reply(c, question) == IF question \in DOMAIN c THEN c[question] ELSE NoReply

-----------------------------------------------------------------------------
(* One combination: an instance of every subject. *)

\* maps.Copy of f over g.
Overlay(f, g) ==
  [x \in DOMAIN f \cup DOMAIN g |-> IF x \in DOMAIN f THEN f[x] ELSE g[x]]

With(c, in) == Overlay(in.replies, c)

Joined(all, e, subject) ==
  IF subject \notin DOMAIN e THEN all
  ELSE FlattenSeq([i \in DOMAIN all |->
         [j \in DOMAIN e[subject] |-> With(all[i], e[subject][j])]])

\* The subjects in the order of their names.
Combinations(e) ==
  LET entry  == Joined(<< << >> >>, e, "entry")
      facts  == Joined(entry, e, "facts")
      frame  == Joined(facts, e, "frame")
      places == Joined(frame, e, "places")
  IN  Joined(places, e, "trace")

\* A defect: a question that got no answer is no condition.
MatchesAnswered(c, row, bar) ==
  \A q \in DOMAIN row : Reply(c, q).skipped = "none" => Mass(Reply(c, q), row[q]) >= bar

Matches(c, row, bar) == \A q \in DOMAIN row : Mass(Reply(c, q), row[q]) >= bar

\* matched.weakest.
Weakest(c, row) ==
  FoldSet(LAMBDA q, low : IF Mass(Reply(c, q), row[q]) < low
                          THEN Mass(Reply(c, q), row[q]) ELSE low, 100, DOMAIN row)

\* combination.first: the rows that match, as the first of them, or none.
First(c, rows, bar) ==
  LET hits == {i \in DOMAIN rows : Matches(c, rows[i], bar)}
  IN  IF hits = {} THEN {}
      ELSE {Weakest(c, rows[CHOOSE i \in hits : \A j \in hits : i <= j])}

Outcome(result, severity, weakest) ==
  [result |-> result, severity |-> severity, weakest |-> weakest]

Kept == Outcome("kept", NoFloor, 100)

LevelRows(table, s) == IF s \in DOMAIN table.severity THEN table.severity[s] ELSE << >>

Highest(hit) == CHOOSE s \in hit : \A t \in hit : s >= t

\* combination.decide.
DecideOne(c, table, bars, lowering) ==
  LET misfire == First(c, table.misfire, bars.dismiss)
      confirm == First(c, table.confirm, bars.confirm)
      hit     == {s \in Severities : First(c, LevelRows(table, s), bars.dismiss) # {}}
      dismiss == First(c, table.dismiss, bars.dismiss)
      the(m)  == CHOOSE w \in m : TRUE
  IN  IF misfire # {} /\ lowering THEN Outcome("misfired", NoFloor, the(misfire))
      ELSE IF confirm # {} THEN Outcome("confirmed", NoFloor, the(confirm))
      ELSE IF ~lowering THEN Kept
      ELSE IF hit # {} THEN
             LET s == Highest(hit)
             IN  Outcome("lowered", s, the(First(c, LevelRows(table, s), bars.dismiss)))
      ELSE IF dismiss # {} THEN Outcome("dismissed", NoFloor, the(dismiss))
      ELSE Kept

-----------------------------------------------------------------------------
(* All combinations: the worst wins. *)

Rank(o) ==
  CASE o.result = "misfired"  -> 0
    [] o.result = "dismissed" -> 1
    [] o.result = "lowered"   -> 1 + o.severity
    [] o.result = "kept"      -> 3 + 4
    [] o.result = "confirmed" -> 4 + 4

\* A defect: one place that can be lowered lowers the finding.
BetterOf(worst, o) == IF Rank(o) < Rank(worst) THEN o ELSE worst

WorseOf(worst, o) ==
  LET tied == Rank(o) = Rank(worst) /\ o.result # "confirmed" /\ o.weakest < worst.weakest
  IN  IF Rank(o) > Rank(worst) \/ tied THEN o ELSE worst

Decide(e, table, bars, lowering) ==
  LET all == Combinations(e)
      worst[k \in 1..Len(all)] ==
        LET o == DecideOne(all[k], table, bars, lowering)
        IN  IF k = 1 THEN o ELSE WorseOf(worst[k - 1], o)
  IN  IF all = << >> THEN Kept ELSE worst[Len(all)]

\* level: how sure a judgement is said to be.
Level(weakest) == IF weakest >= 95 THEN 4 ELSE 3

\* engine.go's judge: the finding's severity and state, or NoVerdict.
JudgeFinding(e, rule, severity, bars) ==
  LET o == Decide(e, (CHOOSE d \in rule.decision : TRUE).outcome, bars, rule.judge.downgrade)
  IN  EngineJudge(o, severity, rule.judge.floor)
=============================================================================
