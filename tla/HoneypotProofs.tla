--------------------------- MODULE HoneypotProofs ---------------------------
(***************************************************************************)
(* Proofs about Honeypot, for any length of reply and any budget: no       *)
(* attempt in an answered reply is lost, and the first one is the last     *)
(* thing the model does.                                                   *)
(***************************************************************************)
EXTENDS Honeypot, SequenceTheorems, TLAPS

(***************************************************************************)
(* The types of the loop (Agent), which the layer's store is joined to.    *)
(***************************************************************************)

\* A reply is a sequence of calls within the bound.
LEMMA RepliesAreSequences ==
  \A q : q \in Replies <=> (q \in Seq(Calls) /\ Len(q) <= MaxReply)
<1>1. ASSUME NEW q \in Replies PROVE q \in Seq(Calls) /\ Len(q) <= MaxReply
  <2>1. PICK n \in 0..MaxReply : q \in [1..n -> Calls]
    BY DEF Replies
  <2>2. n \in Nat /\ n <= MaxReply
    BY AgentAssumption
  <2>3. q \in Seq(Calls) /\ Len(q) = n
    BY <2>1, <2>2
  <2> QED
    BY <2>2, <2>3
<1>2. ASSUME NEW q \in Seq(Calls), Len(q) <= MaxReply PROVE q \in Replies
  <2>1. q \in [1..Len(q) -> Calls] /\ Len(q) \in Nat
    BY LenProperties
  <2>2. Len(q) \in 0..MaxReply
    BY <1>2, <2>1, AgentAssumption
  <2> QED
    BY <2>1, <2>2 DEF Replies
<1> QED
  BY <1>1, <1>2

\* What is left of a reply is a reply.
LEMMA TailIsReply ==
  ASSUME NEW q \in Replies, q # << >>
  PROVE  Tail(q) \in Replies /\ Head(q) \in Calls
<1>1. q \in Seq(Calls) /\ Len(q) <= MaxReply
  BY RepliesAreSequences
<1>2. Head(q) \in Calls /\ Tail(q) \in Seq(Calls) /\ Len(Tail(q)) = Len(q) - 1
  BY <1>1, HeadTailProperties
<1>3. Len(q) \in Nat
  BY <1>1
<1>4. Len(Tail(q)) <= MaxReply
  BY <1>1, <1>2, <1>3, AgentAssumption
<1> QED
  BY <1>2, <1>4, RepliesAreSequences

LEMMA LoopInitType == LoopInit => LoopType
<1> SUFFICES ASSUME LoopInit PROVE LoopType
  OBVIOUS
<1>1. << >> \in Seq(Calls) /\ Len(<< >>) <= MaxReply
  BY AgentAssumption
<1>2. << >> \in Replies
  BY <1>1, RepliesAreSequences, Zenon
<1>3. requests \in 0..Budget
  BY AgentAssumption DEF LoopInit
<1> QED
  BY <1>2, <1>3, Zenon DEF LoopInit, LoopType, Errors

\* A request more, while there is one left.
LEMMA RequestsBound ==
  ASSUME LoopType, requests < Budget
  PROVE  requests + 1 \in 0..Budget
BY AgentAssumption DEF LoopType

\* Every step of the loop keeps its types, whatever the tool it calls does.
LEMMA LoopKeepsType ==
  ASSUME LoopType,
         \/ \E calls \in Replies : Reply(calls)
         \/ Compaction
         \/ \E c \in Calls, final \in BOOLEAN : Answer(c, final)
         \/ LoopStep
         \/ UNCHANGED loop
  PROVE  LoopType'
<1>1. ASSUME NEW calls \in Replies, Reply(calls) PROVE LoopType'
  <2>1. requests' \in 0..Budget
    BY <1>1, RequestsBound DEF Reply
  <2> QED
    BY <1>1, <2>1, Zenon DEF Reply, LoopType
<1>2. CASE Compaction
  <2>1. requests' \in 0..Budget
    BY <1>2, RequestsBound DEF Compaction
  <2> QED
    BY <1>2, <2>1, Zenon DEF Compaction, Ends, LoopType, Errors
<1>3. ASSUME NEW c \in Calls, NEW final \in BOOLEAN, Answer(c, final) PROVE LoopType'
  <2>1. queue' \in Replies
    BY <1>3, TailIsReply DEF Answer, LoopType
  <2>2. done' \in BOOLEAN
    BY <1>3, Zenon DEF Answer, LoopType
  <2> QED
    BY <1>3, <2>1, <2>2, Zenon DEF Answer, LoopType
<1>4. CASE LoopStep
  <2>1. CASE Exhausted
    BY <2>1, Zenon DEF Exhausted, Ends, LoopType, Errors
  <2>2. CASE ProviderFails
    BY <2>2, Zenon DEF ProviderFails, Ends, LoopType, Errors
  <2>3. CASE TurnOver
    BY <2>3, Zenon DEF TurnOver, Ends, LoopType, Errors
  <2> QED
    BY <1>4, <2>1, <2>2, <2>3 DEF LoopStep
<1>5. CASE UNCHANGED loop
  BY <1>5 DEF loop, LoopType
<1> QED
  BY <1>1, <1>2, <1>3, <1>4, <1>5

-----------------------------------------------------------------------------

\* An attempt is on record, or is still in the reply, or was never answered.
TrapAccounted ==
  tried => \/ evidence # None
           \/ stage = "answering" /\ Traps(queue)
           \/ err = "compaction"

\* Evidence ends the task: the loop does not ask again.
EvidenceEnds ==
  evidence # None => /\ tried
                     /\ stage = "answering" => done
                     /\ stage = "returned" => err = "none"
                     /\ stage # "asking"

Concluded ==
  /\ over => stage = "returned" /\ (recorded <=> evidence # None /\ enabled)
  /\ ~over => ~recorded

\* A trap in the queue is one the model has asked for.
QueueTried == (stage = "answering" /\ Traps(queue)) => tried

\* There is an error only when the loop is over.
ErrorEnds == stage # "returned" => err = "none"

IInv == TypeOK /\ TrapAccounted /\ EvidenceEnds /\ Concluded /\ QueueTried /\ ErrorEnds

-----------------------------------------------------------------------------
LEMMA CaughtIsCall == Caught \subseteq Calls /\ None \notin Caught
BY HoneypotAssumption DEF Caught, HoneypotCalls

\* Traps in what is left of a reply, and in its first call, are its traps.
LEMMA TrapsOfTail ==
  ASSUME NEW q \in Replies, q # << >>
  PROVE  Traps(q) <=> (Head(q) \in Caught \/ Traps(Tail(q)))
<1>1. q \in Seq(Calls)
  BY RepliesAreSequences
<1>2. /\ Tail(q) \in Seq(Calls) /\ Len(Tail(q)) = Len(q) - 1
      /\ \A i \in 1..Len(Tail(q)) : Tail(q)[i] = q[i + 1]
  BY <1>1, HeadTailProperties
<1>3. Head(q) = q[1] /\ Len(q) \in Nat \ {0}
  BY <1>1
<1>4. DOMAIN q = 1..Len(q) /\ DOMAIN Tail(q) = 1..Len(Tail(q))
  BY <1>1, <1>2
<1>5. ASSUME NEW i \in DOMAIN q, q[i] \in Caught
      PROVE  Head(q) \in Caught \/ Traps(Tail(q))
  <2>1. CASE i = 1
    BY <2>1, <1>3, <1>5
  <2>2. CASE i # 1
    <3>1. i - 1 \in 1..Len(Tail(q)) /\ (i - 1) + 1 = i
      BY <2>2, <1>2, <1>3, <1>4
    <3>2. Tail(q)[i - 1] = q[i]
      BY <3>1, <1>2
    <3> QED
      BY <3>1, <3>2, <1>4, <1>5 DEF Traps
  <2> QED
    BY <2>1, <2>2
<1>6. ASSUME NEW i \in DOMAIN Tail(q), Tail(q)[i] \in Caught PROVE Traps(q)
  <2>1. i + 1 \in DOMAIN q /\ q[i + 1] = Tail(q)[i]
    BY <1>2, <1>3, <1>4
  <2> QED
    BY <2>1, <1>6 DEF Traps
<1>7. Head(q) \in Caught => Traps(q)
  BY <1>3, <1>4 DEF Traps
<1> QED
  BY <1>5, <1>6, <1>7 DEF Traps

-----------------------------------------------------------------------------
LEMMA InitInv == Init => IInv
<1> SUFFICES ASSUME Init PROVE IInv
  OBVIOUS
<1>1. TypeOK
  BY LoopInitType, Zenon DEF Init, TypeOK
<1>2. TrapAccounted /\ EvidenceEnds /\ Concluded
  BY Zenon DEF Init, TrapAccounted, EvidenceEnds, Concluded
<1>3. QueueTried /\ ErrorEnds
  BY DEF Init, LoopInit, QueueTried, ErrorEnds
<1> QED
  BY <1>1, <1>2, <1>3 DEF IInv

LEMMA AskKeeps ==
  ASSUME IInv, Ask
  PROVE  IInv'
<1>1. PICK calls \in Replies :
        /\ Reply(calls) \/ Compaction
        /\ tried' = (tried \/ Traps(calls))
        /\ UNCHANGED <<enabled, evidence, recorded, over>>
  BY DEF Ask
<1>2. stage = "asking"
  BY <1>1 DEF Reply, Compaction
<1>3. LoopType'
  BY <1>1, LoopKeepsType DEF IInv, TypeOK
<1>4. TypeOK'
  BY <1>1, <1>3, Zenon DEF IInv, TypeOK, Traps
<1>5. evidence = None /\ ~over
  BY <1>2, Zenon DEF IInv, EvidenceEnds, Concluded
<1>6. TrapAccounted' /\ QueueTried'
  <2>1. CASE Reply(calls)
    <3>1. stage' = "answering" /\ queue' = calls /\ tried' = (tried \/ Traps(calls)) /\ err' = err
      BY <1>1, <2>1 DEF Reply
    <3>2. Traps(queue)' <=> Traps(calls)
      BY <3>1 DEF Traps
    <3>3. tried => err = "compaction"
      BY <1>2, <1>5, Zenon DEF IInv, TrapAccounted
    <3> QED
      BY <3>1, <3>2, <3>3, Zenon DEF TrapAccounted, QueueTried
  <2>2. CASE Compaction
    BY <2>2, Zenon DEF Compaction, Ends, TrapAccounted, QueueTried
  <2> QED
    BY <1>1, <2>1, <2>2
<1>7. EvidenceEnds' /\ Concluded'
  BY <1>1, <1>5, Zenon DEF IInv, EvidenceEnds, Concluded
<1>8. ErrorEnds'
  BY <1>1, <1>2 DEF IInv, ErrorEnds, Reply, Compaction, Ends
<1> QED
  BY <1>4, <1>6, <1>7, <1>8 DEF IInv

LEMMA CallToolKeeps ==
  ASSUME IInv, CallTool
  PROVE  IInv'
<1>1. PICK c \in Calls : Catch(c) /\ Answer(c, Final(c))
  BY DEF CallTool
<1>2. /\ stage = "answering" /\ queue # << >> /\ c = Head(queue)
      /\ queue' = Tail(queue) /\ done' = (done \/ Final(c))
      /\ UNCHANGED <<stage, requests, err, enabled, tried, recorded, over>>
  BY <1>1 DEF CallTool, Answer
<1>3. Final(c) \in BOOLEAN
  BY Zenon DEF Final
<1>4. LoopType'
  BY <1>1, <1>3, LoopKeepsType DEF IInv, TypeOK
<1>5. evidence' = IF c \in Caught /\ evidence = None THEN c ELSE evidence
  BY <1>1 DEF Catch
<1>6. TypeOK'
  BY <1>2, <1>4, <1>5, Zenon DEF IInv, TypeOK
<1>7. Traps(queue) <=> (c \in Caught \/ Traps(queue)')
  <2>1. queue \in Replies
    BY DEF IInv, TypeOK, LoopType
  <2>2. Traps(queue)' <=> Traps(Tail(queue))
    BY <1>2 DEF Traps
  <2> QED
    BY <1>2, <2>1, <2>2, TrapsOfTail
<1>8. c \in Caught => evidence' # None
  BY <1>5, CaughtIsCall
<1>9. evidence # None => evidence' = evidence
  BY <1>5
<1>10. TrapAccounted' /\ QueueTried'
  BY <1>2, <1>7, <1>8, <1>9, Zenon DEF IInv, TrapAccounted, QueueTried
<1>11. EvidenceEnds'
  <2>1. (evidence' # None /\ evidence = None) => c \in Caught
    BY <1>5
  <2>2. c \in Caught => tried
    BY <1>2, <1>7, Zenon DEF IInv, QueueTried
  <2>3. (evidence' # None /\ c \in Caught) => Final(c)
    BY Zenon DEF Final, Caught
  <2> QED
    BY <1>2, <2>1, <2>2, <2>3, Zenon DEF IInv, EvidenceEnds
<1>12. Concluded' /\ ErrorEnds'
  BY <1>2, Zenon DEF IInv, Concluded, ErrorEnds
<1> QED
  BY <1>6, <1>10, <1>11, <1>12 DEF IInv

LEMMA TurnKeeps ==
  ASSUME IInv, Turn
  PROVE  IInv'
<1>1. LoopType'
  BY LoopKeepsType DEF IInv, TypeOK, Turn
<1>2. TypeOK'
  BY <1>1, Zenon DEF IInv, TypeOK, Turn
<1>3. /\ UNCHANGED <<enabled, tried, evidence, recorded, over, queue, done>>
      /\ stage # "returned"
      /\ \/ stage = "asking"
         \/ queue = << >> /\ IF done THEN stage' = "returned" /\ err' = "none"
                                     ELSE stage' = "asking" /\ err' = err
      /\ stage = "asking" => stage' = "returned" /\ err' # "compaction"
  BY DEF Turn, LoopStep, Exhausted, ProviderFails, TurnOver, Ends
<1>4. ~Traps(<< >>)
  BY DEF Traps
<1>5. stage = "answering" => (tried => evidence # None)
  BY <1>3, <1>4, Zenon DEF IInv, TrapAccounted, ErrorEnds
<1>6. stage = "asking" => (~tried /\ evidence = None)
  BY Zenon DEF IInv, TrapAccounted, EvidenceEnds, ErrorEnds
<1>7. stage \in {"asking", "answering"}
  BY <1>3 DEF IInv, TypeOK, LoopType
<1>8. TrapAccounted' /\ QueueTried'
  BY <1>3, <1>5, <1>6, <1>7 DEF TrapAccounted, QueueTried
<1>9. EvidenceEnds'
  <2>1. CASE stage = "asking"
    BY <1>3, <1>6, <2>1 DEF EvidenceEnds
  <2>2. CASE stage = "answering"
    <3>1. evidence # None => (tried /\ done)
      BY <2>2, Zenon DEF IInv, EvidenceEnds
    <3> QED
      BY <1>3, <2>2, <3>1, Zenon DEF EvidenceEnds
  <2> QED
    BY <1>7, <2>1, <2>2
<1>10. Concluded' /\ ErrorEnds'
  BY <1>3, <1>7 DEF IInv, Concluded, ErrorEnds
<1> QED
  BY <1>2, <1>8, <1>9, <1>10 DEF IInv

LEMMA ConcludeKeeps ==
  ASSUME IInv, Conclude
  PROVE  IInv'
<1>1. /\ UNCHANGED <<stage, requests, queue, done, err, enabled, tried, evidence>>
      /\ stage = "returned" /\ over' = TRUE
      /\ recorded' = (evidence # None /\ enabled)
  BY DEF Conclude, loop
<1>2. TypeOK'
  BY <1>1, Zenon DEF IInv, TypeOK, LoopType
<1>3. TrapAccounted' /\ EvidenceEnds' /\ QueueTried' /\ ErrorEnds'
  BY <1>1, Zenon DEF IInv, TrapAccounted, EvidenceEnds, QueueTried, ErrorEnds
<1>4. Concluded'
  BY <1>1, Zenon DEF Concluded
<1> QED
  BY <1>2, <1>3, <1>4 DEF IInv

LEMMA NextInv == IInv /\ [Next]_vars => IInv'
<1> SUFFICES ASSUME IInv, [Next]_vars PROVE IInv'
  OBVIOUS
<1>1. CASE UNCHANGED vars
  <2>1. TypeOK'
    BY <1>1 DEF vars, loop, IInv, TypeOK, LoopType
  <2>2. TrapAccounted' /\ EvidenceEnds' /\ Concluded' /\ QueueTried' /\ ErrorEnds'
    BY <1>1 DEF vars, loop, IInv, TrapAccounted, EvidenceEnds, Concluded, QueueTried,
                Traps, ErrorEnds
  <2> QED
    BY <2>1, <2>2 DEF IInv
<1> QED
  BY <1>1, AskKeeps, CallToolKeeps, TurnKeeps, ConcludeKeeps DEF Next, Step, Returned

\* What a honeypot session keeps at every step.
THEOREM Invariance == Spec => []IInv
BY InitInv, NextInv, PTL DEF Spec

-----------------------------------------------------------------------------
\* Every variable of the session keeps its type (agent.Loop.Run, the store of
\* layers/honeypot/tools.go).
THEOREM TypeCorrect == Spec => []TypeOK
<1>1. IInv => TypeOK
  BY DEF IInv
<1> QED
  BY <1>1, Invariance, PTL

\* An attempt in an answered reply is on record when the layer returns, wherever
\* in the reply it stands, and nothing else is (layers/honeypot/honeypot.go Run).
THEOREM NoAttemptMissed == Spec => []NoTrapMissed
<1>1. ASSUME IInv PROVE NoTrapMissed
  <2>1. over => stage = "returned" /\ (recorded <=> evidence # None /\ enabled)
    BY <1>1 DEF IInv, Concluded
  <2>2. (stage = "returned" /\ tried) => (evidence # None \/ err = "compaction")
    BY <1>1, Zenon DEF IInv, TrapAccounted
  <2>3. (stage = "returned" /\ evidence # None) => (tried /\ err = "none")
    BY <1>1, Zenon DEF IInv, EvidenceEnds
  <2> QED
    BY <2>1, <2>2, <2>3, Zenon DEF NoTrapMissed
<1> QED
  BY <1>1, Invariance, PTL

\* After the first catch the evidence stays and the model is not asked again
\* (store.Final in layers/honeypot/tools.go).
THEOREM FirstCatchEnds == Spec => CatchEndsSession
<1>1. IInv /\ [Next]_vars =>
        [evidence # None => (evidence' = evidence /\ requests' = requests)]_vars
  <2> SUFFICES ASSUME IInv, Next, evidence # None
               PROVE  evidence' = evidence /\ requests' = requests
    OBVIOUS
  <2>1. stage # "asking"
    BY Zenon DEF IInv, EvidenceEnds
  <2>2. CASE CallTool
    BY <2>2 DEF CallTool, Catch, Answer
  <2>3. CASE ~CallTool
    BY <2>1, <2>3 DEF Next, Step, Ask, Reply, Compaction, Turn, LoopStep, Exhausted,
                      ProviderFails, TurnOver, Conclude, Returned, vars, loop
  <2> QED
    BY <2>2, <2>3
<1> QED
  BY <1>1, Invariance, PTL DEF Spec, CatchEndsSession
=============================================================================
