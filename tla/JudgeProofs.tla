---------------------------- MODULE JudgeProofs ----------------------------
(***************************************************************************)
(* Proofs about Judge, for any findings, policies, calls and budgets: what *)
(* a session leaves on record, what is applied of it, and that the layer   *)
(* implements Judgement, the single step Scan takes it for.                *)
(***************************************************************************)
EXTENDS Judge, SequenceTheorems, WellFoundedInduction, TLAPS

(***************************************************************************)
(* The types of the loop (Agent), which the layer's store is joined to.    *)
(***************************************************************************)

\* A reply is a sequence of calls within the bound.
LEMMA RepliesAreSequences ==
  \A q : q \in Replies <=> (q \in Seq(Calls) /\ Len(q) <= MaxReply)
<1>1. ASSUME NEW q \in Replies PROVE q \in Seq(Calls) /\ Len(q) <= MaxReply
  <2>1. PICK n \in 0..MaxReply : q \in [1..n -> Calls]
    BY DEF Replies
  <2>2. n \in Nat /\ n <= MaxReply
    BY AgentAssumption
  <2>3. q \in Seq(Calls) /\ Len(q) = n
    BY <2>1, <2>2
  <2> QED
    BY <2>2, <2>3
<1>2. ASSUME NEW q \in Seq(Calls), Len(q) <= MaxReply PROVE q \in Replies
  <2>1. q \in [1..Len(q) -> Calls] /\ Len(q) \in Nat
    BY LenProperties
  <2>2. Len(q) \in 0..MaxReply
    BY <1>2, <2>1, AgentAssumption
  <2> QED
    BY <2>1, <2>2 DEF Replies
<1> QED
  BY <1>1, <1>2

\* What is left of a reply is a reply.
LEMMA TailIsReply ==
  ASSUME NEW q \in Replies, q # << >>
  PROVE  Tail(q) \in Replies /\ Head(q) \in Calls
<1>1. q \in Seq(Calls) /\ Len(q) <= MaxReply
  BY RepliesAreSequences
<1>2. Head(q) \in Calls /\ Tail(q) \in Seq(Calls) /\ Len(Tail(q)) = Len(q) - 1
  BY <1>1, HeadTailProperties
<1>3. Len(q) \in Nat
  BY <1>1
<1>4. Len(Tail(q)) <= MaxReply
  BY <1>1, <1>2, <1>3, AgentAssumption
<1> QED
  BY <1>2, <1>4, RepliesAreSequences

LEMMA LoopInitType == LoopInit => LoopType
<1> SUFFICES ASSUME LoopInit PROVE LoopType
  OBVIOUS
<1>1. << >> \in Seq(Calls) /\ Len(<< >>) <= MaxReply
  BY AgentAssumption
<1>2. << >> \in Replies
  BY <1>1, RepliesAreSequences, Zenon
<1>3. requests \in 0..Budget
  BY AgentAssumption DEF LoopInit
<1> QED
  BY <1>2, <1>3, Zenon DEF LoopInit, LoopType, Errors

\* A request more, while there is one left.
LEMMA RequestsBound ==
  ASSUME LoopType, requests < Budget
  PROVE  requests + 1 \in 0..Budget
BY AgentAssumption DEF LoopType

\* Every step of the loop keeps its types, whatever the tool it calls does.
LEMMA LoopKeepsType ==
  ASSUME LoopType,
         \/ \E calls \in Replies : Reply(calls)
         \/ Compaction
         \/ \E c \in Calls, final \in BOOLEAN : Answer(c, final)
         \/ LoopStep
         \/ UNCHANGED loop
  PROVE  LoopType'
<1>1. ASSUME NEW calls \in Replies, Reply(calls) PROVE LoopType'
  <2>1. requests' \in 0..Budget
    BY <1>1, RequestsBound DEF Reply
  <2> QED
    BY <1>1, <2>1, Zenon DEF Reply, LoopType
<1>2. CASE Compaction
  <2>1. requests' \in 0..Budget
    BY <1>2, RequestsBound DEF Compaction
  <2> QED
    BY <1>2, <2>1, Zenon DEF Compaction, Ends, LoopType, Errors
<1>3. ASSUME NEW c \in Calls, NEW final \in BOOLEAN, Answer(c, final) PROVE LoopType'
  <2>1. queue' \in Replies
    BY <1>3, TailIsReply DEF Answer, LoopType
  <2>2. done' \in BOOLEAN
    BY <1>3, Zenon DEF Answer, LoopType
  <2> QED
    BY <1>3, <2>1, <2>2, Zenon DEF Answer, LoopType
<1>4. CASE LoopStep
  <2>1. CASE Exhausted
    BY <2>1, Zenon DEF Exhausted, Ends, LoopType, Errors
  <2>2. CASE ProviderFails
    BY <2>2, Zenon DEF ProviderFails, Ends, LoopType, Errors
  <2>3. CASE TurnOver
    BY <2>3, Zenon DEF TurnOver, Ends, LoopType, Errors
  <2> QED
    BY <1>4, <2>1, <2>2, <2>3 DEF LoopStep
<1>5. CASE UNCHANGED loop
  BY <1>5 DEF loop, LoopType
<1> QED
  BY <1>1, <1>2, <1>3, <1>4, <1>5

-----------------------------------------------------------------------------

\* What either judging function may answer about a finding of severity `from`:
\* nothing, or a state with a severity no higher, lower only when downgraded.
\* (layers/decision/engine.go judge, layers/judge/tools.go resolve).
Allowed(v, from, p) ==
  /\ v.state \in States
  /\ v.state # "none" => v.severity \in Severities /\ v.severity <= from
  /\ v.state = "downgraded" =>
       p.downgrade /\ v.severity < from /\ v.severity >= p.floor
  /\ v.state \in {"confirmed", "upheld", "dismissed"} => v.severity = from
  /\ v.state = "dismissed" => p.downgrade

\* The model judge never raises a finding, never lowers one whose rule may not
\* be lowered, never goes below the floor, and dismisses only without a floor
\* (layers/judge/tools.go resolve, dismissal, lowest).
THEOREM ResolveAllowed ==
  ASSUME NEW from \in Severities, NEW p \in Policy, NEW want \in Wants
  PROVE  LET v == Resolve(from, p, want) IN
         /\ Allowed(v, from, p)
         /\ v.state # "none"
         /\ v.state = "dismissed" => p.floor = NoFloor
<1> DEFINE low == Lowest(from, p)
<1>1. p.downgrade \in BOOLEAN /\ p.floor \in Floors
  BY DEF Policy
<1>2. /\ low \in Severities
      /\ ~p.downgrade => low = from
      /\ p.downgrade => low >= p.floor
  BY <1>1 DEF Lowest, Severities, Floors, NoFloor, Low
<1>3. CASE want = Dismiss
  BY <1>1, <1>2, <1>3
  DEF Resolve, Dismissal, Judged, Allowed, States, JudgedStates, Severities,
      Floors, NoFloor
<1>4. CASE want # Dismiss
  <2>1. want \in Severities
    BY <1>4 DEF Wants
  <2> QED
    BY <1>1, <1>2, <1>4, <2>1
    DEF Resolve, Judged, Allowed, States, JudgedStates, Severities, Floors,
        NoFloor
<1> QED
  BY <1>3, <1>4

-----------------------------------------------------------------------------
\* The store only holds records of the findings it was given.
Stored ==
  /\ byID \in [Findings -> Records \cup {None}]
  /\ \A f \in Findings : byID[f] # None => f \in pending

AllOnRecord == \A f \in pending : byID[f] # None

\* A task ends without an error only when nothing is missing.
DoneIsComplete == (done \/ (stage = "returned" /\ err = "none")) => AllOnRecord

\* Until the layer returns it touches no finding.
Untouched ==
  ~over => /\ sev = SeverityOf
           /\ \A f \in Findings : f \in pending <=> state[f] = "none"

\* What it returns with.
Settled ==
  over => /\ stage = "returned" \/ pending = {}
          /\ OnlySureApplied

FindingTypes ==
  /\ pending \in SUBSET Findings
  /\ state \in [Findings -> States]
  /\ sev \in [Findings -> Severities]
  /\ over \in BOOLEAN

IInv == FindingTypes /\ Stored /\ DoneIsComplete /\ Untouched /\ Settled

-----------------------------------------------------------------------------
LEMMA LatestIsRecord ==
  ASSUME NEW rs \in Seq(Records \cup {Bad}), NEW f \in Findings, Last(rs, f) # {}
  PROVE  Latest(rs, f) \in Records /\ Latest(rs, f) # None
<1> DEFINE i == CHOOSE j \in Last(rs, f) : TRUE
<1>1. i \in Last(rs, f)
  OBVIOUS
<1>2. i \in DOMAIN rs /\ rs[i] # Bad
  BY <1>1 DEF Last, About
<1>3. rs[i] \in Records \cup {Bad}
  BY <1>2
<1> QED
  BY <1>2, <1>3, JudgeAssumption DEF Latest

LEMMA LastIsAbout ==
  ASSUME NEW rs \in Seq(Records \cup {Bad}), NEW f \in Findings, Last(rs, f) # {},
         \A i \in DOMAIN rs : Accepted(rs[i])
  PROVE  f \in pending
<1>1. PICK i \in DOMAIN rs : rs[i].finding = f
  BY DEF Last, About
<1> QED
  BY <1>1 DEF Accepted

LEMMA LastExists ==
  ASSUME NEW rs \in Seq(Records \cup {Bad}), NEW f \in Findings, About(rs, f) # {}
  PROVE  Last(rs, f) # {}
<1> DEFINE n == Len(rs)
           fromEnd == {k \in Nat : n - k \in About(rs, f)}
<1>1. n \in Nat /\ About(rs, f) \subseteq 1..n
  BY DEF About
<1>2. fromEnd \in SUBSET Nat /\ fromEnd # {}
  <2>1. PICK i \in About(rs, f) : TRUE
    OBVIOUS
  <2>2. n - i \in Nat /\ n - (n - i) = i
    BY <1>1, <2>1
  <2> QED
    BY <2>1, <2>2
<1> HIDE DEF n
<1>3. PICK k \in fromEnd : \A m \in fromEnd : k <= m
  <2> DEFINE less == OpToRel(<, Nat)
  <2>1. \A x, y \in Nat : x < y => <<x, y>> \in less
    BY DEF OpToRel
  <2>2. IsWellFoundedOn(less, Nat)
    BY NatLessThanWellFounded
  <2> HIDE DEF less, fromEnd
  <2>3. PICK k \in fromEnd : \A m \in fromEnd : <<m, k>> \notin less
    BY <1>2, <2>2, WFMin
  <2>4. ASSUME NEW m \in fromEnd PROVE k <= m
    <3>1. k \in Nat /\ m \in Nat
      BY <1>2
    <3>2. <<m, k>> \notin less
      BY <2>3
    <3>3. ~(m < k)
      BY <2>1, <3>1, <3>2
    <3> QED
      BY <3>1, <3>3
  <2> QED
    BY <2>4
<1>4. ASSUME NEW j \in About(rs, f) PROVE j <= n - k
  <2>1. j \in 1..n /\ n - j \in Nat /\ n - (n - j) = j
    BY <1>1, <1>4
  <2>2. n - j \in fromEnd
    BY <2>1, <1>4
  <2>3. k <= n - j /\ k \in Nat
    BY <1>3, <2>2
  <2> QED
    BY <1>1, <2>1, <2>3
<1>5. n - k \in About(rs, f)
  BY <1>3
<1> QED
  BY <1>4, <1>5 DEF Last

LEMMA TakeKeeps ==
  ASSUME FindingTypes, Stored, NEW rs \in Seq(Records \cup {Bad}), Take(rs)
  PROVE  /\ byID' \in [Findings -> Records \cup {None}]
         /\ \A f \in Findings : byID'[f] # None => f \in pending
         /\ \A f \in Findings : byID[f] # None => byID'[f] # None
<1>1. CASE \A i \in DOMAIN rs : Accepted(rs[i])
  <2>1. byID' = [f \in Findings |-> IF Last(rs, f) = {} THEN byID[f] ELSE Latest(rs, f)]
    BY <1>1 DEF Take, Put
  <2>2. \A f \in Findings : byID'[f] = IF Last(rs, f) = {} THEN byID[f] ELSE Latest(rs, f)
    BY <2>1
  <2>3. \A f \in Findings : byID[f] \in Records \cup {None}
    BY DEF Stored
  <2>4. \A f \in Findings :
          (IF Last(rs, f) = {} THEN byID[f] ELSE Latest(rs, f)) \in Records \cup {None}
    BY <2>3, LatestIsRecord
  <2>5. byID' \in [Findings -> Records \cup {None}]
    BY <2>1, <2>4
  <2> QED
    BY <2>2, <2>5, <1>1, LatestIsRecord, LastIsAbout DEF Stored
<1>2. CASE ~(\A i \in DOMAIN rs : Accepted(rs[i]))
  BY <1>2 DEF Take, Stored
<1> QED
  BY <1>1, <1>2

-----------------------------------------------------------------------------
LEMMA InitInv == Init => IInv
<1> SUFFICES ASSUME Init PROVE IInv
  OBVIOUS
<1>1. PICK judged \in SUBSET Judged0 :
        /\ pending = Findings \ judged
        /\ state = [f \in Findings |-> IF f \in judged THEN "confirmed" ELSE "none"]
  BY DEF Init
<1>2. FindingTypes
  BY <1>1, JudgeAssumption DEF Init, FindingTypes, States, JudgedStates
<1>3. Stored
  BY DEF Init, Stored
<1>4. DoneIsComplete
  BY DEF Init, LoopInit, DoneIsComplete
<1>5. Untouched /\ Settled
  BY <1>1, JudgeAssumption DEF Init, Untouched, Settled
<1> QED
  BY <1>2, <1>3, <1>4, <1>5 DEF IInv

\* The agent's own steps leave the store alone.
LEMMA LoopKeeps ==
  ASSUME IInv, UNCHANGED layer, stage # "returned",
         done' => done,
         (stage' = "returned" /\ err' = "none") => done
  PROVE  IInv'
<1>1. FindingTypes' /\ Stored' /\ Untouched'
  BY DEF IInv, layer, FindingTypes, Stored, Untouched
<1>2. DoneIsComplete'
  BY DEF IInv, layer, DoneIsComplete, AllOnRecord
<1>3. Settled'
  BY DEF IInv, layer, Settled, OnlySureApplied
<1> QED
  BY <1>1, <1>2, <1>3 DEF IInv

LEMMA CallToolKeeps ==
  ASSUME IInv, CallTool
  PROVE  IInv'
<1>1. PICK c \in Calls :
        /\ IF c.tool = "read" THEN UNCHANGED byID ELSE Take(c.entries)
        /\ Answer(c, c.tool = "submit" /\ Submitted(c.entries))
  BY DEF CallTool
<1>2. c.entries \in Seq(Records \cup {Bad})
  BY JudgeAssumption
<1>3. UNCHANGED <<pending, state, sev, over, stage, err>>
  BY <1>1 DEF CallTool, Answer
<1>4. /\ byID' \in [Findings -> Records \cup {None}]
      /\ \A f \in Findings : byID'[f] # None => f \in pending
      /\ \A f \in Findings : byID[f] # None => byID'[f] # None
  BY <1>1, <1>2, TakeKeeps DEF IInv, Stored
<1>5. FindingTypes' /\ Untouched' /\ Stored'
  BY <1>3, <1>4 DEF IInv, FindingTypes, Untouched, Stored
<1>6. pending \subseteq Findings
  BY DEF IInv, FindingTypes
<1>7. stage = "answering" /\ (done' => done \/ Submitted(c.entries))
  BY <1>1 DEF Answer
<1>8. DoneIsComplete'
  BY <1>3, <1>4, <1>6, <1>7 DEF IInv, DoneIsComplete, AllOnRecord, Submitted
<1>9. over => pending = {}
  BY <1>7 DEF IInv, Settled
<1>10. Settled'
  BY <1>3, <1>9 DEF IInv, Settled, OnlySureApplied
<1> QED
  BY <1>5, <1>8, <1>10 DEF IInv

\* What apply() makes of one record.
LEMMA AppliedIsAllowed ==
  ASSUME IInv, NEW f \in Findings, Applies(f)
  PROVE  LET v == Resolve(sev[f], PolicyOf[f], byID[f].want)
         IN  /\ byID[f] \in Records /\ f \in pending
             /\ Allowed(v, sev[f], PolicyOf[f]) /\ v.state # "none"
<1>1. byID[f] \in Records /\ f \in pending
  BY DEF IInv, Stored, Applies
<1>2. byID[f].want \in Wants /\ sev[f] \in Severities /\ PolicyOf[f] \in Policy
  BY <1>1, JudgeAssumption DEF Records, IInv, FindingTypes
<1> QED
  BY <1>1, <1>2, ResolveAllowed

LEMMA ConcludeKeeps ==
  ASSUME IInv, Conclude
  PROVE  IInv'
<1> DEFINE v(f) == Resolve(sev[f], PolicyOf[f], byID[f].want)
<1>1. /\ state' = [f \in Findings |-> IF Applies(f) THEN v(f).state ELSE state[f]]
      /\ sev' = [f \in Findings |-> IF Applies(f) THEN v(f).severity ELSE sev[f]]
      /\ UNCHANGED <<loop, pending, byID>>
      /\ ~over /\ over' = TRUE
      /\ stage = "returned" \/ pending = {}
  BY DEF Conclude
<1>2. \A f \in Findings : Applies(f) =>
        /\ byID[f] \in Records /\ f \in pending
        /\ Allowed(v(f), sev[f], PolicyOf[f]) /\ v(f).state # "none"
  BY AppliedIsAllowed
<1> HIDE DEF v
<1>3. \A f \in Findings : state[f] \in States /\ sev[f] \in Severities
  BY DEF IInv, FindingTypes
<1>4. \A f \in Findings :
        /\ (IF Applies(f) THEN v(f).state ELSE state[f]) \in States
        /\ (IF Applies(f) THEN v(f).severity ELSE sev[f]) \in Severities
  BY <1>2, <1>3 DEF Allowed
<1>5. FindingTypes'
  BY <1>1, <1>4 DEF IInv, FindingTypes
<1>6. Stored' /\ Untouched' /\ DoneIsComplete'
  BY <1>1 DEF IInv, loop, Stored, Untouched, DoneIsComplete, AllOnRecord
<1>7. ASSUME NEW f \in pending
      PROVE  /\ state'[f] # "none" <=> (byID[f] # None /\ byID[f].confidence >= 3)
             /\ sev'[f] # SeverityOf[f] => (PolicyOf[f].downgrade /\ byID[f].confidence >= 3)
  <2>1. f \in Findings /\ state[f] = "none" /\ sev[f] = SeverityOf[f]
    BY <1>1, <1>7 DEF IInv, FindingTypes, Untouched
  <2>2. /\ state'[f] = IF Applies(f) THEN v(f).state ELSE state[f]
        /\ sev'[f] = IF Applies(f) THEN v(f).severity ELSE sev[f]
    BY <1>1, <2>1
  <2>3. Applies(f) <=> (byID[f] # None /\ byID[f].confidence >= 3)
    <3>1. byID[f] # None => byID[f].confidence \in 1..4
      BY <2>1 DEF IInv, Stored, Records, Confidences
    <3> QED
      BY <3>1 DEF Applies, Confident, MinConfident
  <2>4. CASE Applies(f)
    <3>1. Allowed(v(f), sev[f], PolicyOf[f]) /\ v(f).state # "none"
      BY <1>2, <2>1, <2>4
    <3>2. v(f).severity # sev[f] => PolicyOf[f].downgrade
      BY <3>1 DEF Allowed, States, JudgedStates
    <3> QED
      BY <2>1, <2>2, <2>3, <2>4, <3>1, <3>2
  <2>5. CASE ~Applies(f)
    BY <2>1, <2>2, <2>3, <2>5
  <2> QED
    BY <2>4, <2>5
<1>8. OnlySureApplied'
  BY <1>1, <1>7 DEF OnlySureApplied
<1>9. Settled'
  BY <1>1, <1>8 DEF Settled, loop
<1> QED
  BY <1>5, <1>6, <1>9 DEF IInv

LEMMA NextInv == IInv /\ [Next]_vars => IInv'
<1> SUFFICES ASSUME IInv, [Next]_vars PROVE IInv'
  OBVIOUS
<1>1. CASE Ask
  <2>1. UNCHANGED layer /\ stage = "asking"
        /\ \/ ~done' /\ stage' = "answering"
           \/ UNCHANGED done /\ err' = "compaction"
    BY <1>1 DEF Ask, Reply, Compaction, Ends
  <2> QED
    BY <2>1, LoopKeeps
<1>2. CASE CallTool
  BY <1>2, CallToolKeeps
<1>3. CASE Turn
  <2>1. UNCHANGED layer /\ UNCHANGED done /\ stage # "returned"
        /\ ((stage' = "returned" /\ err' = "none") => done)
    BY <1>3 DEF Turn, LoopStep, Exhausted, ProviderFails, TurnOver, Ends
  <2> QED
    BY <2>1, LoopKeeps
<1>4. CASE Conclude
  BY <1>4, ConcludeKeeps
<1>5. CASE Returned \/ UNCHANGED vars
  <2>1. UNCHANGED <<done, stage, err, pending, byID, state, sev, over>>
    BY <1>5 DEF Returned, vars, loop
  <2>2. FindingTypes' /\ Stored' /\ Untouched' /\ DoneIsComplete'
    BY <2>1 DEF IInv, FindingTypes, Stored, Untouched, DoneIsComplete, AllOnRecord
  <2>3. Settled'
    BY <2>1 DEF IInv, Settled, OnlySureApplied
  <2> QED
    BY <2>2, <2>3 DEF IInv
<1> QED
  BY <1>1, <1>2, <1>3, <1>4, <1>5 DEF Next

THEOREM Invariance == Spec => []IInv
BY InitInv, NextInv, PTL DEF Spec

-----------------------------------------------------------------------------
\* A judge session without an error has a record of every finding it was given,
\* whatever calls follow submit_result (layers/judge/tools.go submit.Call).
THEOREM NothingIsMissing == Spec => []SubmittedIsComplete
<1>1. IInv => SubmittedIsComplete
  BY DEF IInv, Settled, DoneIsComplete, AllOnRecord, SubmittedIsComplete
<1> QED
  BY <1>1, Invariance, PTL

\* What the layer applies is what the model's last word was sure of, within the
\* policy (layers/judge/judge.go apply).
THEOREM SureWordsApplied == Spec => []OnlySureApplied
<1>1. IInv => OnlySureApplied
  BY DEF IInv, Settled, OnlySureApplied
<1> QED
  BY <1>1, Invariance, PTL

LEMMA LoopTyped == Spec => []LoopType
<1>1. Init => LoopType
  BY LoopInitType DEF Init
<1>2. LoopType /\ [Next]_vars => LoopType'
  <2> SUFFICES ASSUME LoopType, [Next]_vars PROVE LoopType'
    OBVIOUS
  <2>1. CASE Ask
    BY <2>1, LoopKeepsType DEF Ask
  <2>2. CASE CallTool
    <3>1. PICK c \in Calls : Answer(c, c.tool = "submit" /\ Submitted(c.entries))
      BY <2>2 DEF CallTool
    <3>2. (c.tool = "submit" /\ Submitted(c.entries)) \in BOOLEAN
      OBVIOUS
    <3> QED
      BY <3>1, <3>2, LoopKeepsType
  <2>3. CASE Turn
    BY <2>3, LoopKeepsType DEF Turn
  <2>4. CASE Conclude \/ Returned \/ UNCHANGED vars
    <3>1. UNCHANGED loop
      BY <2>4 DEF Conclude, Returned, vars
    <3> QED
      BY <3>1, LoopKeepsType
  <2> QED
    BY <2>1, <2>2, <2>3, <2>4 DEF Next
<1> QED
  BY <1>1, <1>2, PTL DEF Spec

\* Every variable of the session keeps its type (agent.Loop.Run, the store of
\* layers/judge/tools.go, the findings).
THEOREM TypeCorrect == Spec => []TypeOK
<1>1. IInv /\ LoopType => TypeOK
  BY DEF IInv, FindingTypes, Stored, TypeOK
<1> QED
  BY <1>1, Invariance, LoopTyped, PTL

\* A record changes only to the last entry about its finding, of a call that is
\* taken as a whole (store.take and store.put in layers/judge/tools.go).
THEOREM LastWordsStand == Spec => LastWordStands
<1> DEFINE Heard(f) ==
      LET rs == Head(queue).entries
      IN  IF stage = "answering" /\ queue # << >> /\ About(rs, f) # {}
               /\ \A i \in DOMAIN rs : Accepted(rs[i])
            THEN byID'[f] = Latest(rs, f)
            ELSE byID'[f] = byID[f]
<1>1. LoopType /\ IInv /\ [Next]_vars => [\A f \in Findings : Heard(f)]_vars
  <2> SUFFICES ASSUME LoopType, IInv, Next, vars' # vars, NEW f \in Findings
               PROVE  Heard(f)
    OBVIOUS
  <2>1. CASE CallTool
    <3>1. PICK c \in Calls :
            /\ IF c.tool = "read" THEN UNCHANGED byID ELSE Take(c.entries)
            /\ stage = "answering" /\ queue # << >> /\ c = Head(queue)
      BY <2>1 DEF CallTool, Answer
    <3> DEFINE rs == c.entries
    <3>2. rs \in Seq(Records \cup {Bad}) /\ (c.tool = "read" => rs = << >>)
      BY JudgeAssumption
    <3>3. About(rs, f) # {} => Last(rs, f) # {}
      BY <3>2, LastExists
    <3>4. Last(rs, f) # {} => About(rs, f) # {}
      BY DEF Last
    <3>5. CASE c.tool = "read"
      BY <3>1, <3>2, <3>5 DEF About
    <3>6. CASE c.tool # "read" /\ \A i \in DOMAIN rs : Accepted(rs[i])
      <4>1. byID' = [g \in Findings |-> IF Last(rs, g) = {} THEN byID[g] ELSE Latest(rs, g)]
        BY <3>1, <3>6 DEF Take, Put
      <4>2. byID'[f] = IF Last(rs, f) = {} THEN byID[f] ELSE Latest(rs, f)
        BY <4>1
      <4> QED
        BY <3>1, <3>3, <3>4, <3>6, <4>2
    <3>7. CASE c.tool # "read" /\ ~(\A i \in DOMAIN rs : Accepted(rs[i]))
      BY <3>1, <3>7 DEF Take
    <3> QED
      BY <3>5, <3>6, <3>7
  <2>2. CASE ~CallTool
    <3>1. UNCHANGED byID
      BY <2>2 DEF Next, Ask, Turn, Conclude, Returned, layer, vars
    <3>2. CASE stage = "answering" /\ queue # << >>
      <4>1. pending = {}
        BY <2>2, <3>2 DEF Next, Ask, Reply, Compaction, Turn, LoopStep, Exhausted,
                          ProviderFails, TurnOver, Conclude, Returned
      <4>2. \A r : ~Accepted(r)
        BY <4>1 DEF Accepted
      <4> QED
        BY <3>1, <4>2 DEF About
    <3> QED
      BY <3>1, <3>2
  <2> QED
    BY <2>1, <2>2
<1> QED
  BY <1>1, Invariance, LoopTyped, PTL DEF Spec, LastWordStands

\* Judgement has its own copy of the operators of Verdicts.
LEMMA SameVerdicts ==
  /\ Abstract!States = States /\ Abstract!Wants = Wants
  /\ \A from, p, want : Abstract!Resolve(from, p, want) = Resolve(from, p, want)
<1>1. Abstract!States = States /\ Abstract!Wants = Wants /\ Abstract!Dismiss = Dismiss
  BY DEF Abstract!States, Abstract!JudgedStates, Abstract!Wants, Abstract!Severities,
         Abstract!Dismiss, States, JudgedStates, Wants, Severities, Dismiss
<1>2. /\ \A sevr, st : Abstract!Judged(sevr, st) = Judged(sevr, st)
      /\ \A from, p : Abstract!Lowest(from, p) = Lowest(from, p)
  BY DEF Abstract!Judged, Judged, Abstract!Lowest, Lowest,
         Abstract!NoFloor, NoFloor, Abstract!Low, Low
<1>3. \A from, p : Abstract!Dismissal(from, p) = Dismissal(from, p)
  BY <1>2, Zenon DEF Abstract!Dismissal, Dismissal, Abstract!NoFloor, NoFloor
<1>4. \A from, p, want : Abstract!Resolve(from, p, want) = Resolve(from, p, want)
  BY <1>1, <1>2, <1>3, Zenon DEF Abstract!Resolve, Resolve
<1> QED
  BY <1>1, <1>4

\* The session, with its corrections, refusals and failures, is one step of the
\* pipeline that judges some findings once (layers/judge, Layer.Run).
THEOREM JudgeImplementsJudgement == Spec => ImplementsJudgement
<1>1. Init => Abstract!Init
  <2> SUFFICES ASSUME Init PROVE Abstract!Init
    OBVIOUS
  <2>1. FindingTypes /\ Untouched
    BY InitInv DEF IInv
  <2> QED
    BY <2>1, SameVerdicts DEF Init, Abstract!Init, FindingTypes, Untouched
<1>2. IInv /\ [Next]_vars => [Abstract!Apply]_(Abstract!judgement)
  <2> SUFFICES ASSUME IInv, [Next]_vars PROVE [Abstract!Apply]_(Abstract!judgement)
    OBVIOUS
  <2>1. CASE Conclude
    <3> DEFINE applied == {f \in Findings : Applies(f)}
               want == [f \in applied |-> byID[f].want]
               v(f) == Resolve(sev[f], PolicyOf[f], byID[f].want)
    <3>1. applied \in SUBSET pending
      BY AppliedIsAllowed
    <3>2. \A f \in applied : byID[f].want \in Wants
      BY AppliedIsAllowed DEF Records
    <3>3. want \in [applied -> Wants]
      BY <3>2
    <3>4. /\ state' = [f \in Findings |-> IF Applies(f) THEN v(f).state ELSE state[f]]
          /\ sev' = [f \in Findings |-> IF Applies(f) THEN v(f).severity ELSE sev[f]]
          /\ ~over /\ over' /\ UNCHANGED pending
      BY <2>1 DEF Conclude
    <3>5. \A f \in Findings : Applies(f) <=> f \in applied
      OBVIOUS
    <3>6. \A f \in applied : want[f] = byID[f].want
      OBVIOUS
    <3>7. /\ state' = [f \in Findings |->
                 IF f \in applied THEN Resolve(sev[f], PolicyOf[f], want[f]).state ELSE state[f]]
          /\ sev' = [f \in Findings |->
                 IF f \in applied THEN Resolve(sev[f], PolicyOf[f], want[f]).severity ELSE sev[f]]
      BY <3>4, <3>5, <3>6
    <3> HIDE DEF applied, want
    <3> QED
      BY <3>1, <3>3, <3>4, <3>7, SameVerdicts DEF Abstract!Apply
  <2>2. CASE ~Conclude
    <3>1. UNCHANGED <<pending, state, sev, over>>
      BY <2>2 DEF Next, Ask, CallTool, Turn, Returned, layer, vars
    <3> QED
      BY <3>1 DEF Abstract!judgement
  <2> QED
    BY <2>1, <2>2
<1> QED
  BY Invariance, <1>1, <1>2, PTL DEF Spec, ImplementsJudgement, Abstract!Spec
=============================================================================
