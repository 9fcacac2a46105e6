---------------------------- MODULE PacerProofs ----------------------------
(***************************************************************************)
(* Proofs about Pacer, for any number of requests, URLs, hosts, slots and  *)
(* retries: what the locks protect, and that the pacer implements Lookups. *)
(***************************************************************************)
EXTENDS Pacer, FiniteSetTheorems, TLAPS

\* A request is past Lock and before Return exactly when it holds its host.
Locked ==
  \A r \in Requests : pc[r] \in Holding <=> lock[Host(r)] = r

\* Between Admit and its result a request's URL is not in memory and its host
\* not closed: only the holder of the host changes either.
Admitted ==
  \A r \in Requests :
    pc[r] \in Asking => Url(r) \notin answers /\ Host(r) \notin closed

\* A result is only set on the way out.
Unanswered ==
  \A r \in Requests :
    pc[r] \in Asking \cup {"start", "locking", "locked"} => result[r] = Unset

\* The pause that was over stays over while the request waits for a slot.
StillReady == \A r \in Requests : pc[r] = "slot" => Host(r) \in ready

\* Who backs off has an attempt left.
Retrying == \A r \in Requests : pc[r] = "backoff" => attempt[r] < Retries

SlotsFinite == IsFiniteSet(slots)

IInv == /\ TypeOK /\ Locked /\ Admitted /\ Unanswered /\ StillReady
        /\ Retrying /\ SlotsOnTheWire /\ SlotsFinite

\* Two requests to one host are never both past its lock.
LEMMA Alone ==
  ASSUME IInv, NEW r \in Requests, NEW q \in Requests,
         pc[r] \in Holding, pc[q] \in Holding, Host(q) = Host(r)
  PROVE  q = r
BY DEF IInv, Locked

LEMMA HostType ==
  ASSUME NEW r \in Requests
  PROVE  Host(r) \in Hosts /\ Url(r) \in Urls
BY PacerAssumption DEF Host, Url

LEMMA InitInv == Init => IInv
<1> SUFFICES ASSUME Init PROVE IInv
  OBVIOUS
<1> USE PacerAssumption
<1>1. TypeOK
  BY DEF Init, TypeOK, Steps, Holding, Asking, Responses
<1>2. Locked
  BY HostType DEF Init, Locked, Holding, Asking
<1>3. Admitted /\ Unanswered /\ StillReady /\ Retrying
  BY DEF Init, Admitted, Unanswered, StillReady, Retrying, Asking
<1>4. SlotsOnTheWire /\ SlotsFinite
  BY FS_EmptySet DEF Init, SlotsOnTheWire, SlotsFinite
<1> QED
  BY <1>1, <1>2, <1>3, <1>4 DEF IInv

\* A step that moves one request and leaves the wire, the locks, the memory and
\* the closed hosts alone.
LEMMA Moves ==
  ASSUME IInv, NEW r \in Requests, NEW w \in Steps \ {"flight"},
         pc' = [pc EXCEPT ![r] = w], pc[r] # "flight",
         UNCHANGED <<lock, ready, closed, slots, answers>>,
         pc[r] \in Holding <=> w \in Holding,
         w \in Asking => pc[r] \in Asking \/ (Url(r) \notin answers /\ Host(r) \notin closed),
         w = "slot" => Host(r) \in ready,
         \A q \in Requests \ {r} : result'[q] = result[q] /\ attempt'[q] = attempt[q],
         w = "backoff" => attempt'[r] < Retries,
         w \in Asking \cup {"start", "locking", "locked"} => result'[r] = Unset,
         TypeOK'
  PROVE  IInv'
<1>1. pc'[r] = w /\ \A q \in Requests \ {r} : pc'[q] = pc[q]
  BY DEF IInv, TypeOK
<1>2. Locked'
  BY <1>1 DEF IInv, Locked, Host
<1>3. Admitted'
  BY <1>1 DEF IInv, Admitted, Host, Url
<1>4. Unanswered'
  BY <1>1 DEF IInv, Unanswered
<1>5. StillReady'
  BY <1>1 DEF IInv, StillReady, Host
<1>6. Retrying'
  BY <1>1 DEF IInv, Retrying
<1>7. SlotsOnTheWire' /\ SlotsFinite'
  <2>1. {q \in Requests : pc'[q] = "flight"} = {q \in Requests : pc[q] = "flight"}
    BY <1>1
  <2> QED
    BY <2>1 DEF IInv, SlotsOnTheWire, SlotsFinite
<1> QED
  BY <1>2, <1>3, <1>4, <1>5, <1>6, <1>7 DEF IInv

LEMMA SimpleInv ==
  ASSUME IInv, NEW r \in Requests,
         Hit(r) \/ Miss(r) \/ Admit(r) \/ Pace(r) \/ PauseOver(r) \/ GivesUp(r)
         \/ BackOff(r) \/ Retry(r)
  PROVE  IInv'
<1> USE PacerAssumption DEF Steps, Holding, Asking, Responses, Results
<1>0. /\ TypeOK /\ (pc[r] \in Asking => result[r] = Unset)
      /\ (pc[r] = "backoff" => attempt[r] < Retries)
  BY DEF IInv, Unanswered, Retrying
<1>1. CASE Hit(r)
  <2>1. TypeOK'
    BY <1>0, <1>1 DEF Hit, Go, Forget, TypeOK
  <2>2. /\ pc' = [pc EXCEPT ![r] = "done"] /\ pc[r] = "start"
        /\ UNCHANGED <<lock, ready, closed, slots, answers>>
        /\ \A q \in Requests \ {r} : result'[q] = result[q] /\ attempt'[q] = attempt[q]
    BY <1>0, <1>1 DEF Hit, Go, Forget, TypeOK
  <2> QED
    BY <2>1, <2>2, Moves
<1>2. CASE Miss(r)
  <2>1. result[r] = Unset
    BY <1>2 DEF Miss, IInv, Unanswered
  <2> QED
    BY <1>0, <1>2, <2>1, Moves DEF Miss, Go, TypeOK
<1>3. CASE Admit(r)
  <2>1. result[r] = Unset /\ pc[r] = "locked"
    BY <1>3 DEF Admit, IInv, Unanswered
  <2>2. CASE Url(r) \in answers
    BY <1>0, <1>3, <2>1, <2>2, Moves DEF Admit, Answer, Go, TypeOK
  <2>3. CASE Url(r) \notin answers /\ Host(r) \in closed
    BY <1>0, <1>3, <2>1, <2>3, Moves DEF Admit, Answer, Go, TypeOK
  <2>4. CASE Url(r) \notin answers /\ Host(r) \notin closed
    BY <1>0, <1>3, <2>1, <2>4, Moves DEF Admit, Go, TypeOK
  <2> QED
    BY <2>2, <2>3, <2>4
<1>4. CASE Pace(r)
  <2>1. result[r] = Unset /\ pc[r] = "attempt"
    BY <1>0, <1>4 DEF Pace
  <2>2. CASE Host(r) \notin ready
    BY <1>0, <1>4, <2>1, <2>2, Moves DEF Pace, Go, TypeOK
  <2>3. CASE Host(r) \in ready /\ r \in gone
    BY <1>0, <1>4, <2>1, <2>3, Moves DEF Pace, Unsent, Go, TypeOK
  <2>4. CASE Host(r) \in ready /\ r \notin gone
    BY <1>0, <1>4, <2>1, <2>4, Moves DEF Pace, Go, TypeOK
  <2> QED
    BY <2>2, <2>3, <2>4
<1>5. CASE PauseOver(r)
  BY <1>0, <1>5, Moves DEF PauseOver, Go, TypeOK
<1>6. CASE GivesUp(r)
  BY <1>0, <1>6, Moves DEF GivesUp, Unsent, Go, TypeOK
<1>7. CASE BackOff(r)
  <2>1. CASE Go(r, "backoff") /\ UNCHANGED result
    BY <1>0, <1>7, <2>1, Moves DEF BackOff, Retriable, Go, TypeOK
  <2>2. CASE Answer(r, "failed")
    BY <1>0, <1>7, <2>2, Moves DEF BackOff, Retriable, Answer, Go, TypeOK
  <2> QED
    BY <1>7, <2>1, <2>2 DEF BackOff
<1>8. CASE Retry(r)
  <2>1. CASE Answer(r, "failed") /\ UNCHANGED attempt
    BY <1>0, <1>8, <2>1, Moves DEF Retry, Answer, Go, TypeOK
  <2>2. CASE Go(r, "attempt") /\ UNCHANGED result /\ attempt' = [attempt EXCEPT ![r] = @ + 1]
    <3>1. attempt[r] \in 0..Retries /\ attempt[r] < Retries /\ pc[r] = "backoff"
      BY <1>0, <1>8 DEF Retry, TypeOK
    <3>2. attempt' \in [Requests -> 0..Retries]
      BY <1>0, <2>2, <3>1 DEF TypeOK
    <3>3. TypeOK'
      BY <1>0, <1>8, <2>2, <3>2 DEF Retry, Go, TypeOK
    <3>4. /\ pc' = [pc EXCEPT ![r] = "attempt"] /\ UNCHANGED result
          /\ UNCHANGED <<lock, ready, closed, slots, answers>>
          /\ \A q \in Requests \ {r} : attempt'[q] = attempt[q]
      BY <1>0, <1>8, <2>2 DEF Retry, Go, TypeOK
    <3> QED
      BY <1>0, <3>1, <3>3, <3>4, Moves
  <2> QED
    BY <1>8, <2>1, <2>2 DEF Retry
<1> QED
  BY <1>1, <1>2, <1>3, <1>4, <1>5, <1>6, <1>7, <1>8

LEMMA LockInv == ASSUME IInv, NEW r \in Requests, Lock(r) PROVE IInv'
<1> USE DEF Steps, Holding, Asking
<1>1. /\ pc[r] = "locking" /\ lock[Host(r)] = Unset
      /\ pc' = [pc EXCEPT ![r] = "locked"] /\ lock' = [lock EXCEPT ![Host(r)] = r]
      /\ UNCHANGED <<attempt, last, result, gone, ready, closed, slots, answers>>
  BY DEF Lock, Go
<1>2. TypeOK'
  BY <1>1, HostType DEF IInv, TypeOK
<1>3. Locked'
  <2> SUFFICES ASSUME NEW q \in Requests
      PROVE  pc'[q] \in Holding <=> lock'[Host(q)] = q
    BY DEF Locked, Host
  <2>1. CASE Host(q) # Host(r)
    <3>1. q # r
      BY <2>1
    <3> QED
      BY <1>1, <2>1, <3>1, HostType DEF IInv, TypeOK, Locked
  <2>2. CASE Host(q) = Host(r)
    <3>1. lock'[Host(q)] = r
      BY <1>1, <2>2, HostType DEF IInv, TypeOK
    <3>2. lock[Host(q)] # q
      BY <1>1, <2>2, PacerAssumption
    <3>3. pc[q] \notin Holding
      BY <3>2 DEF IInv, Locked
    <3> QED
      BY <1>1, <3>1, <3>3 DEF IInv, TypeOK
  <2> QED
    BY <2>1, <2>2
<1>4. Admitted' /\ Unanswered' /\ StillReady' /\ Retrying'
  BY <1>1 DEF IInv, TypeOK, Admitted, Unanswered, StillReady, Retrying, Host, Url
<1>5. SlotsOnTheWire' /\ SlotsFinite'
  <2>1. {q \in Requests : pc'[q] = "flight"} = {q \in Requests : pc[q] = "flight"}
    BY <1>1 DEF IInv, TypeOK
  <2> QED
    BY <1>1, <2>1 DEF IInv, SlotsOnTheWire, SlotsFinite
<1> QED
  BY <1>2, <1>3, <1>4, <1>5 DEF IInv

LEMMA SendInv == ASSUME IInv, NEW r \in Requests, Send(r) PROVE IInv'
<1> USE DEF Steps, Holding, Asking
<1>1. /\ pc[r] = "slot" /\ Cardinality(slots) < Slots
      /\ pc' = [pc EXCEPT ![r] = "flight"] /\ slots' = slots \cup {r}
      /\ UNCHANGED <<attempt, last, result, gone, lock, ready, closed, answers>>
  BY DEF Send, Go
<1>2. TypeOK'
  BY <1>1 DEF IInv, TypeOK
<1>3. Locked' /\ Admitted' /\ Unanswered' /\ StillReady' /\ Retrying'
  BY <1>1 DEF IInv, TypeOK, Locked, Admitted, Unanswered, StillReady, Retrying, Host, Url
<1>4. slots' = {q \in Requests : pc'[q] = "flight"}
  BY <1>1 DEF IInv, TypeOK, SlotsOnTheWire
<1>5. IsFiniteSet(slots') /\ Cardinality(slots') <= Slots
  <2>1. r \notin slots
    BY <1>1 DEF IInv, SlotsOnTheWire
  <2>2. IsFiniteSet(slots) /\ Cardinality(slots) \in Nat
    BY FS_CardinalityType DEF IInv, SlotsFinite
  <2>3. IsFiniteSet(slots') /\ Cardinality(slots') = Cardinality(slots) + 1
    BY <1>1, <2>1, <2>2, FS_AddElement
  <2> QED
    BY <1>1, <2>2, <2>3, PacerAssumption
<1> QED
  BY <1>2, <1>3, <1>4, <1>5 DEF IInv, SlotsOnTheWire, SlotsFinite

LEMMA ReceiveInv == ASSUME IInv, NEW r \in Requests, Receive(r) PROVE IInv'
<1> USE DEF Steps, Holding, Asking
<1>1. /\ pc[r] = "flight"
      /\ pc' = [pc EXCEPT ![r] = "received"]
      /\ ready' = ready \ {Host(r)} /\ slots' = slots \ {r}
      /\ UNCHANGED <<attempt, result, gone, lock, closed, answers>>
  BY DEF Receive, Go
<1>2. TypeOK'
  <2>1. last' \in [Requests -> Responses]
    BY DEF Receive, IInv, TypeOK
  <2> QED
    BY <1>1, <2>1 DEF IInv, TypeOK
<1>3. Locked' /\ Admitted' /\ Unanswered' /\ Retrying'
  BY <1>1 DEF IInv, TypeOK, Locked, Admitted, Unanswered, Retrying, Host, Url
<1>4. StillReady'
  <2> SUFFICES ASSUME NEW q \in Requests, pc'[q] = "slot" PROVE Host(q) \in ready'
    BY DEF StillReady, Host
  <2>1. q # r /\ pc[q] = "slot"
    BY <1>1 DEF IInv, TypeOK
  <2>2. Host(q) # Host(r)
    BY <1>1, <2>1, Alone
  <2> QED
    BY <1>1, <2>1, <2>2 DEF IInv, StillReady
<1>5. slots' = {q \in Requests : pc'[q] = "flight"}
  BY <1>1 DEF IInv, TypeOK, SlotsOnTheWire
<1>6. IsFiniteSet(slots') /\ Cardinality(slots') <= Slots
  <2>1. IsFiniteSet(slots') /\ Cardinality(slots') <= Cardinality(slots)
    BY <1>1, FS_Subset DEF IInv, SlotsFinite
  <2>2. Cardinality(slots) \in Nat /\ Cardinality(slots') \in Nat
    BY <2>1, FS_CardinalityType DEF IInv, SlotsFinite
  <2> QED
    BY <2>1, <2>2, PacerAssumption DEF IInv, SlotsOnTheWire
<1> QED
  BY <1>2, <1>3, <1>4, <1>5, <1>6 DEF IInv, SlotsOnTheWire, SlotsFinite

\* The two steps that change the memory or the closed hosts: nobody else is
\* between Admit and its result for the same host.
LEMMA AnswerInv ==
  ASSUME IInv, NEW r \in Requests, Keep(r) \/ GiveUp(r)
  PROVE  IInv'
<1> USE DEF Steps, Holding, Asking
<1>1. PICK what \in Results :
        /\ pc' = [pc EXCEPT ![r] = "return"]
        /\ result' = [result EXCEPT ![r] = what]
  BY DEF Keep, GiveUp, Answer, Go, Results
<1>2. /\ pc[r] = "received"
      /\ answers' \subseteq answers \cup {Url(r)} /\ closed' \subseteq closed \cup {Host(r)}
      /\ UNCHANGED <<attempt, last, gone, lock, ready, slots>>
  BY DEF Keep, GiveUp, Retriable
<1>3. TypeOK'
  BY <1>1, <1>2, HostType DEF IInv, TypeOK
<1>4. Locked' /\ StillReady' /\ Retrying' /\ Unanswered'
  BY <1>1, <1>2 DEF IInv, TypeOK, Locked, StillReady, Retrying, Unanswered, Host
<1>5. Admitted'
  <2> SUFFICES ASSUME NEW q \in Requests, pc'[q] \in Asking
      PROVE  Url(q) \notin answers' /\ Host(q) \notin closed'
    BY DEF Admitted, Host, Url
  <2>1. q # r /\ pc[q] \in Asking
    BY <1>1 DEF IInv, TypeOK
  <2>2. Host(q) # Host(r)
    BY <1>2, <2>1, Alone
  <2>3. Url(q) # Url(r)
    BY <2>2 DEF Host, Url
  <2> QED
    BY <1>2, <2>1, <2>2, <2>3 DEF IInv, Admitted
<1>6. SlotsOnTheWire' /\ SlotsFinite'
  <2>1. {q \in Requests : pc'[q] = "flight"} = {q \in Requests : pc[q] = "flight"}
    BY <1>1, <1>2 DEF IInv, TypeOK
  <2> QED
    BY <1>2, <2>1 DEF IInv, SlotsOnTheWire, SlotsFinite
<1> QED
  BY <1>3, <1>4, <1>5, <1>6 DEF IInv

LEMMA ReturnInv == ASSUME IInv, NEW r \in Requests, Return(r) PROVE IInv'
<1> USE DEF Steps, Holding, Asking
<1>1. /\ pc[r] = "return"
      /\ pc' = [pc EXCEPT ![r] = "done"] /\ lock' = [lock EXCEPT ![Host(r)] = Unset]
      /\ attempt' = [attempt EXCEPT ![r] = 0] /\ last' = [last EXCEPT ![r] = "error"]
      /\ gone' = gone \ {r}
      /\ UNCHANGED <<result, ready, closed, slots, answers>>
  BY DEF Return, Go, Forget
<1>2. TypeOK'
  BY <1>1, HostType, PacerAssumption DEF IInv, TypeOK, Responses
<1>3. Locked'
  <2> SUFFICES ASSUME NEW q \in Requests
      PROVE  pc'[q] \in Holding <=> lock'[Host(q)] = q
    BY DEF Locked, Host
  <2>1. CASE Host(q) # Host(r)
    <3>1. q # r
      BY <2>1
    <3> QED
      BY <1>1, <2>1, <3>1, HostType DEF IInv, TypeOK, Locked
  <2>2. CASE Host(q) = Host(r)
    <3>1. lock'[Host(q)] = Unset /\ Unset # q
      BY <1>1, <2>2, HostType, PacerAssumption DEF IInv, TypeOK
    <3>2. q # r => pc[q] \notin Holding
      BY <1>1, <2>2, Alone
    <3> QED
      BY <1>1, <3>1, <3>2 DEF IInv, TypeOK
  <2> QED
    BY <2>1, <2>2
<1>4. Admitted' /\ Unanswered' /\ StillReady' /\ Retrying'
  BY <1>1 DEF IInv, TypeOK, Admitted, Unanswered, StillReady, Retrying, Host, Url
<1>5. SlotsOnTheWire' /\ SlotsFinite'
  <2>1. {q \in Requests : pc'[q] = "flight"} = {q \in Requests : pc[q] = "flight"}
    BY <1>1 DEF IInv, TypeOK
  <2> QED
    BY <1>1, <2>1 DEF IInv, SlotsOnTheWire, SlotsFinite
<1> QED
  BY <1>2, <1>3, <1>4, <1>5 DEF IInv

\* The world's steps: a context ends, a pause is over, nothing.
LEMMA WorldInv ==
  ASSUME IInv, (\E r \in Requests : ContextDone(r)) \/ (\E h \in Hosts : Elapse(h))
               \/ UNCHANGED vars
  PROVE  IInv'
<1>1. /\ UNCHANGED <<pc, attempt, last, result, lock, closed, slots, answers>>
      /\ ready \subseteq ready' /\ ready' \subseteq Hosts /\ gone' \subseteq Requests
  BY DEF ContextDone, Elapse, vars, IInv, TypeOK
<1>2. TypeOK'
  BY <1>1 DEF IInv, TypeOK
<1>3. Locked' /\ Admitted' /\ Unanswered' /\ StillReady' /\ Retrying'
  BY <1>1 DEF IInv, Locked, Admitted, Unanswered, StillReady, Retrying, Host, Url
<1>4. SlotsOnTheWire' /\ SlotsFinite'
  BY <1>1 DEF IInv, SlotsOnTheWire, SlotsFinite
<1> QED
  BY <1>2, <1>3, <1>4 DEF IInv

LEMMA StepInv == IInv /\ [Next]_vars => IInv'
<1> SUFFICES ASSUME IInv, [Next]_vars PROVE IInv'
  OBVIOUS
<1>1. ASSUME NEW r \in Requests, RoundTrip(r) PROVE IInv'
  BY <1>1, SimpleInv, LockInv, SendInv, ReceiveInv, AnswerInv, ReturnInv DEF RoundTrip
<1> QED
  BY <1>1, WorldInv DEF Next, AllDone

THEOREM Invariance == Spec => []IInv
BY InitInv, StepInv, PTL DEF Spec

-----------------------------------------------------------------------------
\* Every variable keeps its type, for any retries, slots and hosts.
THEOREM TypeCorrect == Spec => []TypeOK
BY Invariance, PTL DEF IInv

\* p.slots bounds the round trips, and only round trips hold a slot.
THEOREM SlotsBound == Spec => []SlotsOnTheWire
BY Invariance, PTL DEF IInv

\* Only Send puts a request on the wire.
LEMMA SentBySend ==
  ASSUME IInv, Next, NEW r \in Requests, Sent(r)
  PROVE  Send(r)
<1>1. pc[r] # "flight" /\ pc'[r] = "flight"
  BY DEF Sent
<1>2. ASSUME NEW q \in Requests, RoundTrip(q) PROVE Send(r)
  <2>1. q = r
    <3>1. SUFFICES ASSUME q # r PROVE FALSE
      OBVIOUS
    <3>2. \E w \in Steps : pc' = [pc EXCEPT ![q] = w]
      BY <1>2 DEF RoundTrip, Hit, Miss, Lock, Admit, Pace, PauseOver, GivesUp, Send,
                  Receive, Keep, GiveUp, BackOff, Retry, Return, Answer, Unsent, Go,
                  Steps, Holding, Asking
    <3> QED
      BY <1>1, <3>1, <3>2 DEF IInv, TypeOK
  <2>2. CASE Send(q)
    BY <2>1, <2>2
  <2>3. CASE ~Send(q)
    <3>1. \E w \in Steps \ {"flight"} : pc' = [pc EXCEPT ![q] = w]
      BY <1>2, <2>3
      DEF RoundTrip, Hit, Miss, Lock, Admit, Pace, PauseOver, GivesUp,
          Receive, Keep, GiveUp, BackOff, Retry, Return, Answer, Unsent, Go,
          Steps, Holding, Asking
    <3> QED
      BY <1>1, <2>1, <3>1 DEF IInv, TypeOK
  <2> QED
    BY <2>2, <2>3
<1>3. (\E q \in Requests : ContextDone(q)) \/ (\E h \in Hosts : Elapse(h)) \/ AllDone
      => pc' = pc
  BY DEF ContextDone, Elapse, AllDone, vars
<1> QED
  BY <1>1, <1>2, <1>3 DEF Next

\* Only Receive takes a request off the wire.
LEMMA HeardByReceive ==
  ASSUME IInv, Next, NEW r \in Requests, Heard(r)
  PROVE  Receive(r)
<1>1. pc[r] = "flight" /\ pc'[r] # "flight"
  BY DEF Heard
<1>2. ASSUME NEW q \in Requests, RoundTrip(q) PROVE Receive(r)
  <2>1. q = r
    <3>1. SUFFICES ASSUME q # r PROVE FALSE
      OBVIOUS
    <3>2. \E w \in Steps : pc' = [pc EXCEPT ![q] = w]
      BY <1>2 DEF RoundTrip, Hit, Miss, Lock, Admit, Pace, PauseOver, GivesUp, Send,
                  Receive, Keep, GiveUp, BackOff, Retry, Return, Answer, Unsent, Go,
                  Steps, Holding, Asking
    <3> QED
      BY <1>1, <3>1, <3>2 DEF IInv, TypeOK
  <2> QED
    BY <1>1, <1>2, <2>1
    DEF RoundTrip, Hit, Miss, Lock, Admit, Pace, PauseOver, GivesUp, Send, Keep,
        GiveUp, BackOff, Retry, Return, Retriable
<1>3. (\E q \in Requests : ContextDone(q)) \/ (\E h \in Hosts : Elapse(h)) \/ AllDone
      => pc' = pc
  BY DEF ContextDone, Elapse, AllDone, vars
<1> QED
  BY <1>1, <1>2, <1>3 DEF Next

\* A round trip leaves its host in its pause, the pause a request saw over is
\* over when it sends, and it is alone on the wire to its host: host.mu is held
\* from the look to the end of the round trip.
THEOREM SendsAreSpaced == Spec => Spaced
<1>1. IInv /\ [Next]_vars =>
        [\A r \in Requests :
           /\ Heard(r) => Host(r) \notin ready'
           /\ Sent(r) => /\ Host(r) \in ready
                         /\ \A q \in Requests : Host(q) = Host(r) => pc[q] # "flight"]_vars
  <2> SUFFICES ASSUME IInv, Next, NEW r \in Requests
      PROVE  /\ Heard(r) => Host(r) \notin ready'
             /\ Sent(r) => /\ Host(r) \in ready
                           /\ \A q \in Requests : Host(q) = Host(r) => pc[q] # "flight"
    OBVIOUS
  <2>1. ASSUME Heard(r) PROVE Host(r) \notin ready'
    BY <2>1, HeardByReceive DEF Receive
  <2>2. ASSUME Sent(r) PROVE pc[r] = "slot"
    BY <2>2, SentBySend DEF Send
  <2>3. ASSUME Sent(r) PROVE Host(r) \in ready
    BY <2>2, <2>3 DEF IInv, StillReady
  <2>4. ASSUME Sent(r), NEW q \in Requests, Host(q) = Host(r), pc[q] = "flight" PROVE FALSE
    BY <2>2, <2>4, Alone DEF Holding, Asking
  <2> QED
    BY <2>1, <2>3, <2>4
<1> QED
  BY Invariance, <1>1, PTL DEF Spec, Spaced

\* An URL whose answer is kept is not asked again (the second replay.get).
THEOREM KeptIsNotAsked == Spec => AskedOnce
<1>1. IInv /\ [Next]_vars =>
        [\A r \in Requests : Sent(r) => Url(r) \notin answers]_vars
  BY SentBySend DEF Send, IInv, Admitted, Asking
<1> QED
  BY Invariance, <1>1, PTL DEF Spec, AskedOnce

\* A closed host is not contacted again (h.closed).
THEOREM ClosedIsQuiet == Spec => ClosedIsLeftAlone
<1>1. IInv /\ [Next]_vars =>
        [\A r \in Requests : Sent(r) => Host(r) \notin closed]_vars
  BY SentBySend DEF Send, IInv, Admitted, Asking
<1> QED
  BY Invariance, <1>1, PTL DEF Spec, ClosedIsLeftAlone

-----------------------------------------------------------------------------
\* A round trip's step is one of Lookups' steps, taken when the result is set,
\* or changes nothing Lookups sees.
LEMMA StepRefines ==
  ASSUME IInv, NEW r \in Requests, RoundTrip(r)
  PROVE  [Abstract!Next]_(Abstract!vars)
<1> USE DEF Abstract!vars, Abstract!Open, Abstract!Answer, Abstract!Url, Abstract!Host,
            Url, Host
<1>1. CASE Hit(r)
  <2>1. Abstract!Replay(r)
    BY <1>1 DEF Hit, Abstract!Replay, IInv, Unanswered
  <2> QED
    BY <2>1 DEF Abstract!Next
<1>2. CASE Admit(r)
  <2>1. result[r] = Unset
    BY <1>2 DEF Admit, IInv, Unanswered
  <2>2. CASE Url(r) \in answers
    <3>1. Abstract!Replay(r)
      BY <1>2, <2>1, <2>2 DEF Admit, Answer, Abstract!Replay
    <3> QED
      BY <3>1 DEF Abstract!Next
  <2>3. CASE Url(r) \notin answers /\ Host(r) \in closed
    <3>1. Abstract!Refuse(r)
      BY <1>2, <2>1, <2>3 DEF Admit, Answer, Abstract!Refuse
    <3> QED
      BY <3>1 DEF Abstract!Next
  <2>4. CASE Url(r) \notin answers /\ Host(r) \notin closed
    BY <1>2, <2>4 DEF Admit
  <2> QED
    BY <2>2, <2>3, <2>4
<1>3. pc[r] \in Asking => /\ UrlOf[r] \notin answers /\ HostOf[UrlOf[r]] \notin closed
                          /\ result[r] = Unset
  BY DEF IInv, Admitted, Unanswered
<1>4. CASE Keep(r)
  <2>1. Abstract!Fetch(r) \/ Abstract!Fail(r)
    BY <1>3, <1>4 DEF Keep, Answer, Asking, Abstract!Fetch, Abstract!Fail
  <2> QED
    BY <2>1 DEF Abstract!Next
<1>5. CASE GiveUp(r)
  <2>1. Abstract!Limit(r) \/ Abstract!Fetch(r) \/ Abstract!Fail(r)
    BY <1>3, <1>5
    DEF GiveUp, Retriable, Answer, Asking, Abstract!Limit, Abstract!Fetch, Abstract!Fail
  <2> QED
    BY <2>1 DEF Abstract!Next
<1>6. CASE BackOff(r) \/ Retry(r)
  <2>1. UNCHANGED <<result, answers, closed>> \/ Abstract!Fail(r)
    BY <1>3, <1>6 DEF BackOff, Retriable, Retry, Answer, Asking, Abstract!Fail
  <2> QED
    BY <2>1 DEF Abstract!Next
<1>7. CASE \/ Miss(r) \/ Lock(r) \/ Pace(r) \/ PauseOver(r) \/ GivesUp(r) \/ Send(r)
           \/ Receive(r) \/ Return(r)
  BY <1>7 DEF Miss, Lock, Pace, PauseOver, GivesUp, Send, Receive, Return
<1> QED
  BY <1>1, <1>2, <1>4, <1>5, <1>6, <1>7 DEF RoundTrip

\* The pacer, with its locks, slots, pauses and retries, gives every request one
\* of the answers of Lookups, as if each had been made in one step.
THEOREM PacerImplementsLookups == Spec => ImplementsLookups
<1>1. Init => Abstract!Init
  BY DEF Init, Abstract!Init
<1>2. IInv /\ [Next]_vars => [Abstract!Next]_(Abstract!vars)
  <2> SUFFICES ASSUME IInv, [Next]_vars PROVE [Abstract!Next]_(Abstract!vars)
    OBVIOUS
  <2>1. ASSUME NEW r \in Requests, RoundTrip(r) PROVE [Abstract!Next]_(Abstract!vars)
    BY <2>1, StepRefines
  <2>2. (\E q \in Requests : ContextDone(q)) \/ (\E h \in Hosts : Elapse(h)) \/ AllDone
        \/ UNCHANGED vars => UNCHANGED Abstract!vars
    BY DEF ContextDone, Elapse, AllDone, vars, Abstract!vars
  <2> QED
    BY <2>1, <2>2 DEF Next
<1> QED
  BY Invariance, <1>1, <1>2, PTL DEF Spec, ImplementsLookups, Abstract!Spec
=============================================================================
