------------------------------- MODULE Agent -------------------------------
(***************************************************************************)
(* The model loop the model layers share: agent.Loop.Run (llm/agent).  One *)
(* reply at a time, its tool calls answered in order, until a tool that    *)
(* ends the task was called, or the budget of requests, the provider or    *)
(* the size of the conversation ends it.  What a tool does is the layer's: *)
(* a layer's module EXTENDS this one and joins its store to Answer.        *)
(***************************************************************************)
EXTENDS Naturals, Sequences

CONSTANTS
  Calls,     \* the tool calls a reply may hold, as the layer tells them apart
  MaxReply,  \* bound: the calls of one reply
  Budget,    \* Loop.Calls
  Compacts   \* Loop.CompactionAt > 0

ASSUME AgentAssumption ==
  /\ MaxReply \in Nat /\ Budget \in Nat
  /\ Compacts \in BOOLEAN

VARIABLES
  stage,     \* "asking", "answering" or "returned"
  requests,  \* outcome.Requests
  queue,     \* the calls of the reply that are not answered yet
  done,      \* a call of this reply ended the task
  err        \* what Run returned

loop == <<stage, requests, queue, done, err>>

Replies == UNION {[1..n -> Calls] : n \in 0..MaxReply}
Errors == {"none", "budget", "provider", "compaction"}

LoopInit ==
  /\ stage = "asking" /\ requests = 0
  /\ queue = << >> /\ done = FALSE
  /\ err = "none"

Ends(why) ==
  /\ stage' = "returned" /\ err' = why

Exhausted ==
  /\ stage = "asking" /\ requests >= Budget
  /\ Ends("budget")
  /\ UNCHANGED <<requests, queue, done>>

\* Complete fails: the service, its answer, or the context.
ProviderFails ==
  /\ stage = "asking" /\ requests < Budget
  /\ Ends("provider")
  /\ UNCHANGED <<requests, queue, done>>

\* A reply that fills the conversation: its calls are not answered.
Compaction ==
  /\ stage = "asking" /\ requests < Budget /\ Compacts
  /\ requests' = requests + 1
  /\ Ends("compaction")
  /\ UNCHANGED <<queue, done>>

\* A defect: a reply without calls costs nothing.
ReplyUncounted(calls) ==
  /\ stage = "asking" /\ requests < Budget
  /\ requests' = requests + (IF calls = << >> THEN 0 ELSE 1)
  /\ stage' = "answering" /\ queue' = calls /\ done' = FALSE
  /\ UNCHANGED err

\* A reply is taken, and counts as a request with calls in it or without.
Reply(calls) ==
  /\ stage = "asking" /\ requests < Budget
  /\ requests' = requests + 1
  /\ stage' = "answering" /\ queue' = calls /\ done' = FALSE
  /\ UNCHANGED err

\* A defect: the rest of the reply is dropped with the call that ends the task.
AnswerLast(c, final) ==
  /\ stage = "answering" /\ queue # << >> /\ c = Head(queue)
  /\ queue' = IF final THEN << >> ELSE Tail(queue)
  /\ done' = (done \/ final)
  /\ UNCHANGED <<stage, requests, err>>

\* One call of the reply is answered; final is a call without error of a tool
\* that says Final().
Answer(c, final) ==
  /\ stage = "answering" /\ queue # << >> /\ c = Head(queue)
  /\ queue' = Tail(queue)
  /\ done' = (done \/ final)
  /\ UNCHANGED <<stage, requests, err>>

\* The reply is answered: the task is over, or there is another turn.
TurnOver ==
  /\ stage = "answering" /\ queue = << >>
  /\ IF done THEN Ends("none") ELSE stage' = "asking" /\ UNCHANGED err
  /\ UNCHANGED <<requests, queue, done>>

LoopStep == Exhausted \/ ProviderFails \/ TurnOver

LoopType ==
  /\ stage \in {"asking", "answering", "returned"}
  /\ requests \in 0..Budget
  /\ queue \in Replies
  /\ done \in BOOLEAN
  /\ err \in Errors
=============================================================================
