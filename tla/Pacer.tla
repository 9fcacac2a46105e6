------------------------------- MODULE Pacer -------------------------------
(***************************************************************************)
(* The HTTP transport the reference collectors share (refcheck/pace.go and *)
(* refcheck/replay.go): RoundTrip, one action per step another goroutine   *)
(* can come between.  One request per host at a time behind host.mu, at    *)
(* most Slots on the wire, a pause after each, retries of errors, 5xx and  *)
(* rate limits, a host closed by its last rate limit, and the answers kept *)
(* for the run.  Each request is made once and its context may end at any  *)
(* time; time is whether the host's pause is over and a timer has fired.   *)
(***************************************************************************)
EXTENDS Naturals, FiniteSets

CONSTANTS
  Requests,  \* the requests of a run
  Urls, Hosts,
  UrlOf,     \* the URL of a request
  HostOf,    \* the host of an URL
  Retries,   \* len(p.retries)
  Slots,     \* cap(p.slots)
  Unset      \* no holder of a lock, no result yet

ASSUME PacerAssumption ==
  /\ UrlOf \in [Requests -> Urls]
  /\ HostOf \in [Urls -> Hosts]
  /\ Retries \in Nat
  /\ Slots \in Nat \ {0}
  /\ Unset \notin Requests
  /\ Unset \notin {"answered", "limited", "failed"}

VARIABLES
  pc,        \* where each RoundTrip is
  attempt,   \* its attempt
  last,      \* what its last attempt got
  result,    \* what it returns
  gone,      \* the requests whose context is done
  lock,      \* the holder of each host.mu
  ready,     \* the hosts whose host.ready is past
  closed,    \* the hosts with host.closed
  slots,     \* the holders of p.slots
  answers    \* the URLs in replay.answers

vars == <<pc, attempt, last, result, gone, lock, ready, closed, slots, answers>>

Url(r) == UrlOf[r]
Host(r) == HostOf[UrlOf[r]]

\* 2xx or 404; any other below 500; 5xx; 429, or 403 that says so; no response.
Responses == {"good", "refused", "broken", "limited", "error"}
Results == {"answered", "limited", "failed"}

Asking == {"attempt", "pacing", "slot", "flight", "received", "backoff"}
Holding == Asking \cup {"locked", "return"}
Steps == Holding \cup {"start", "locking", "done"}

Init ==
  /\ pc = [r \in Requests |-> "start"]
  /\ attempt = [r \in Requests |-> 0]
  /\ last = [r \in Requests |-> "error"]
  /\ result = [r \in Requests |-> Unset]
  /\ gone = {}
  /\ lock = [h \in Hosts |-> Unset]
  /\ ready = Hosts
  /\ closed = {}
  /\ slots = {}
  /\ answers = {}

-----------------------------------------------------------------------------
Go(r, where) == pc' = [pc EXCEPT ![r] = where]

\* RoundTrip's return value; the deferred Unlock is still to run.
Answer(r, what) ==
  /\ result' = [result EXCEPT ![r] = what]
  /\ Go(r, "return")

\* The request is over, and with it its loop's locals and its context.
Forget(r) ==
  /\ attempt' = [attempt EXCEPT ![r] = 0]
  /\ last' = [last EXCEPT ![r] = "error"]
  /\ gone' = gone \ {r}

\* The first replay.get, without the host's lock.
Hit(r) ==
  /\ pc[r] = "start" /\ Url(r) \in answers
  /\ result' = [result EXCEPT ![r] = "answered"]
  /\ Go(r, "done") /\ Forget(r)
  /\ UNCHANGED <<lock, ready, closed, slots, answers>>

Miss(r) ==
  /\ pc[r] = "start" /\ Url(r) \notin answers
  /\ Go(r, "locking")
  /\ UNCHANGED <<attempt, last, result, gone, lock, ready, closed, slots, answers>>

\* h.mu.Lock() does not look at the context.
Lock(r) ==
  /\ pc[r] = "locking" /\ lock[Host(r)] = Unset
  /\ lock' = [lock EXCEPT ![Host(r)] = r]
  /\ Go(r, "locked")
  /\ UNCHANGED <<attempt, last, result, gone, ready, closed, slots, answers>>

\* A defect: no second look at the memory under the lock.
AdmitUnlessClosed(r) ==
  /\ pc[r] = "locked"
  /\ IF Host(r) \in closed THEN Answer(r, "limited")
     ELSE Go(r, "attempt") /\ UNCHANGED result
  /\ UNCHANGED <<attempt, last, gone, lock, ready, closed, slots, answers>>

\* The second replay.get, and h.closed.
Admit(r) ==
  /\ pc[r] = "locked"
  /\ IF Url(r) \in answers THEN Answer(r, "answered")
     ELSE IF Host(r) \in closed THEN Answer(r, "limited")
     ELSE Go(r, "attempt") /\ UNCHANGED result
  /\ UNCHANGED <<attempt, last, gone, lock, ready, closed, slots, answers>>

\* attempt() returns an error before anything is sent.
Unsent(r) ==
  /\ last' = [last EXCEPT ![r] = "error"]
  /\ Go(r, "received")

\* wait() for the host's pause: over already, or a timer.
Pace(r) ==
  /\ pc[r] = "attempt"
  /\ IF Host(r) \notin ready THEN Go(r, "pacing") /\ UNCHANGED last
     ELSE IF r \in gone THEN Unsent(r)
     ELSE Go(r, "slot") /\ UNCHANGED last
  /\ UNCHANGED <<attempt, result, gone, lock, ready, closed, slots, answers>>

PauseOver(r) ==
  /\ pc[r] = "pacing" /\ Host(r) \in ready
  /\ Go(r, "slot")
  /\ UNCHANGED <<attempt, last, result, gone, lock, ready, closed, slots, answers>>

\* The context ends a wait for the pause or for a slot.
GivesUp(r) ==
  /\ pc[r] \in {"pacing", "slot"} /\ r \in gone
  /\ Unsent(r)
  /\ UNCHANGED <<attempt, result, gone, lock, ready, closed, slots, answers>>

Send(r) ==
  /\ pc[r] = "slot" /\ Cardinality(slots) < Slots
  /\ slots' = slots \cup {r}
  /\ Go(r, "flight")
  /\ UNCHANGED <<attempt, last, result, gone, lock, ready, closed, answers>>

\* A defect: a failed round trip leaves attempt() without giving the slot back.
ReceiveLeaking(r) ==
  /\ pc[r] = "flight"
  /\ \E got \in Responses :
       /\ last' = [last EXCEPT ![r] = got]
       /\ slots' = IF got = "error" THEN slots ELSE slots \ {r}
  /\ ready' = ready \ {Host(r)}
  /\ Go(r, "received")
  /\ UNCHANGED <<attempt, result, gone, lock, closed, answers>>

\* A defect: the pause starts only after a response.
ReceiveUnpaced(r) ==
  /\ pc[r] = "flight"
  /\ \E got \in Responses :
       /\ last' = [last EXCEPT ![r] = got]
       /\ ready' = IF got = "error" THEN ready ELSE ready \ {Host(r)}
  /\ slots' = slots \ {r}
  /\ Go(r, "received")
  /\ UNCHANGED <<attempt, result, gone, lock, closed, answers>>

\* next.RoundTrip is back, by its timeout at the latest: the pause starts, then
\* the slot is given back.
Receive(r) ==
  /\ pc[r] = "flight"
  /\ \E got \in Responses : last' = [last EXCEPT ![r] = got]
  /\ ready' = ready \ {Host(r)}
  /\ slots' = slots \ {r}
  /\ Go(r, "received")
  /\ UNCHANGED <<attempt, result, gone, lock, closed, answers>>

\* replay.keep: a 2xx or 404 whose body can be read and is not too large.
Keep(r) ==
  /\ pc[r] = "received" /\ last[r] \in {"good", "refused"}
  /\ \/ /\ last[r] = "good"
        /\ answers' = answers \cup {Url(r)}
        /\ Answer(r, "answered")
     \/ /\ Answer(r, "answered") /\ UNCHANGED answers
     \/ /\ last[r] = "good"
        /\ Answer(r, "failed") /\ UNCHANGED answers
  /\ UNCHANGED <<attempt, last, gone, lock, ready, closed, slots>>

Retriable(r) == pc[r] = "received" /\ last[r] \in {"broken", "limited", "error"}

\* A defect: the host stays open after its last rate limit.
GiveUpOpen(r) ==
  /\ Retriable(r) /\ attempt[r] = Retries
  /\ Answer(r, IF last[r] = "limited" THEN "limited"
               ELSE IF last[r] = "broken" THEN "answered" ELSE "failed")
  /\ UNCHANGED <<attempt, last, gone, lock, ready, closed, slots, answers>>

\* The last attempt: a rate limit closes the host, a 5xx is what it is.
GiveUp(r) ==
  /\ Retriable(r) /\ attempt[r] = Retries
  /\ closed' = IF last[r] = "limited" THEN closed \cup {Host(r)} ELSE closed
  /\ Answer(r, IF last[r] = "limited" THEN "limited"
               ELSE IF last[r] = "broken" THEN "answered" ELSE "failed")
  /\ UNCHANGED <<attempt, last, gone, lock, ready, slots, answers>>

\* Not the last: discard() the body, which may fail, and wait().
BackOff(r) ==
  /\ Retriable(r) /\ attempt[r] < Retries
  /\ \/ Go(r, "backoff") /\ UNCHANGED result
     \/ last[r] # "error" /\ Answer(r, "failed")
  /\ UNCHANGED <<attempt, last, gone, lock, ready, closed, slots, answers>>

Retry(r) ==
  /\ pc[r] = "backoff"
  /\ \/ /\ attempt' = [attempt EXCEPT ![r] = @ + 1]
        /\ Go(r, "attempt") /\ UNCHANGED result
     \/ /\ r \in gone
        /\ Answer(r, "failed") /\ UNCHANGED attempt
  /\ UNCHANGED <<last, gone, lock, ready, closed, slots, answers>>

Return(r) ==
  /\ pc[r] = "return"
  /\ lock' = [lock EXCEPT ![Host(r)] = Unset]
  /\ Go(r, "done") /\ Forget(r)
  /\ UNCHANGED <<result, ready, closed, slots, answers>>

-----------------------------------------------------------------------------
\* The request's context ends: the reference's budget, or the caller.
ContextDone(r) ==
  /\ r \notin gone /\ pc[r] \notin {"return", "done"}
  /\ gone' = gone \cup {r}
  /\ UNCHANGED <<pc, attempt, last, result, lock, ready, closed, slots, answers>>

\* host.ready passes.
Elapse(h) ==
  /\ h \notin ready
  /\ ready' = ready \cup {h}
  /\ UNCHANGED <<pc, attempt, last, result, gone, lock, closed, slots, answers>>

RoundTrip(r) ==
  \/ Hit(r) \/ Miss(r) \/ Lock(r) \/ Admit(r)
  \/ Pace(r) \/ PauseOver(r) \/ GivesUp(r) \/ Send(r) \/ Receive(r)
  \/ Keep(r) \/ GiveUp(r) \/ BackOff(r) \/ Retry(r) \/ Return(r)

AllDone == (\A r \in Requests : pc[r] = "done") /\ UNCHANGED vars

Next ==
  \/ \E r \in Requests : RoundTrip(r) \/ ContextDone(r)
  \/ \E h \in Hosts : Elapse(h)
  \/ AllDone

\* The goroutines run, timers fire, and a round trip ends by its own timeout.
Spec ==
  /\ Init /\ [][Next]_vars
  /\ \A r \in Requests : WF_vars(RoundTrip(r))
  /\ \A h \in Hosts : WF_vars(Elapse(h))

-----------------------------------------------------------------------------
TypeOK ==
  /\ pc \in [Requests -> Steps]
  /\ attempt \in [Requests -> 0..Retries]
  /\ last \in [Requests -> Responses]
  /\ result \in [Requests -> Results \cup {Unset}]
  /\ gone \subseteq Requests
  /\ lock \in [Hosts -> Requests \cup {Unset}]
  /\ ready \subseteq Hosts
  /\ closed \subseteq Hosts
  /\ slots \subseteq Requests
  /\ answers \subseteq Urls

\* cap(p.slots) bounds the round trips, and whoever holds a slot is on the wire:
\* no request sleeps, backs off or waits for a lock with one.
SlotsOnTheWire ==
  /\ Cardinality(slots) <= Slots
  /\ slots = {r \in Requests : pc[r] = "flight"}

Sent(r) == pc[r] # "flight" /\ pc'[r] = "flight"

Heard(r) == pc[r] = "flight" /\ pc'[r] # "flight"

\* Between two requests to a host lies a pause, retries after an error included:
\* a round trip ends with the pause begun, and a request leaves only when it is
\* over and no other request to the host is on the wire, though it looked at
\* host.ready before it waited for a slot.
Spaced ==
  [][\A r \in Requests :
       /\ Heard(r) => Host(r) \notin ready'
       /\ Sent(r) => /\ Host(r) \in ready
                     /\ \A q \in Requests : Host(q) = Host(r) => pc[q] # "flight"]_vars

\* What is in memory is not asked again, though every request looked for it
\* before it queued for its host.
AskedOnce == [][\A r \in Requests : Sent(r) => Url(r) \notin answers]_vars

\* A host that rate limited to the last retry hears nothing more in this run.
ClosedIsLeftAlone == [][\A r \in Requests : Sent(r) => Host(r) \notin closed]_vars

\* Every request returns, whatever the network and the contexts do.
EveryRequestReturns == \A r \in Requests : <>(pc[r] = "done")

\* The many steps are one lookup.
Abstract == INSTANCE Lookups
ImplementsLookups == Abstract!Spec
=============================================================================
