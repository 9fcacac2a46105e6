------------------------------ MODULE Lookups ------------------------------
(***************************************************************************)
(* What refcheck.Paced promises the collectors, each request in one step:  *)
(* an URL that was answered is answered from memory from then on, a host   *)
(* that rate limits is given up for the rest of the run, and a request     *)
(* fails only when its host was open and its URL not yet in memory.        *)
(***************************************************************************)
CONSTANTS
  Requests,  \* the requests of a run, each sent once
  UrlOf,     \* the URL of a request
  HostOf,    \* the host of an URL
  Unset      \* no answer yet

VARIABLES
  result,    \* what each request returned
  answers,   \* the URLs whose answers are kept
  closed     \* the hosts that are given up

vars == <<result, answers, closed>>

Url(r) == UrlOf[r]
Host(r) == HostOf[UrlOf[r]]

Init ==
  /\ result = [r \in Requests |-> Unset]
  /\ answers = {}
  /\ closed = {}

Answer(r, what) ==
  /\ result[r] = Unset
  /\ result' = [result EXCEPT ![r] = what]

Replay(r) ==
  /\ Url(r) \in answers
  /\ Answer(r, "answered")
  /\ UNCHANGED <<answers, closed>>

Open(r) == Url(r) \notin answers /\ Host(r) \notin closed

Fetch(r) ==
  /\ Open(r)
  /\ Answer(r, "answered")
  /\ answers' \in {answers, answers \cup {Url(r)}}
  /\ UNCHANGED closed

Limit(r) ==
  /\ Open(r)
  /\ Answer(r, "limited")
  /\ closed' = closed \cup {Host(r)}
  /\ UNCHANGED answers

Refuse(r) ==
  /\ Url(r) \notin answers /\ Host(r) \in closed
  /\ Answer(r, "limited")
  /\ UNCHANGED <<answers, closed>>

Fail(r) ==
  /\ Open(r)
  /\ Answer(r, "failed")
  /\ UNCHANGED <<answers, closed>>

Next == \E r \in Requests : Replay(r) \/ Fetch(r) \/ Limit(r) \/ Refuse(r) \/ Fail(r)

Spec == Init /\ [][Next]_vars
=============================================================================
