----------------------------- MODULE Collectors -----------------------------
(***************************************************************************)
(* The references layer with its collectors: what a worker of References   *)
(* does between a job and its report (refcheck/domain.go, rdap.go,         *)
(* github.go, pkg.go).  A lookup is a chain of requests, each chosen by    *)
(* the answers before; the workers share the RDAP bootstrap with its lock, *)
(* the answers the transport keeps and the hosts it gave up.               *)
(*                                                                         *)
(* A request is one step, an answer of Lookups.  An URL is <<host, what>>. *)
(* Facts are left out, and the findings that a number or a name makes      *)
(* (PACKAGE-TYPOSQUAT, DOMAIN-PASTE and their like).                       *)
(***************************************************************************)
EXTENDS References

CONSTANTS
  Kinds,        \* the kinds the references may have: functions from Refs
  Platforms,    \* the domains under a platform: their registration is not asked
  Unclaimed,    \* those of the platform that has a page for a site that is gone
  Candidates,   \* the names RDAP is asked about for a domain, shortest first
  Up,           \* the names a host is, or is under
  Served,       \* the domains the bootstrap file has a server for
  RedirectsTo,  \* the domains a page may redirect to
  MaxRedirects, \* Config.MaxRedirects
  Shared,       \* the hosts more than one lookup asks
  Again,        \* the URLs more than one lookup asks
  None

ASSUME CollectorsAssumption ==
  /\ Kinds \subseteq [Refs -> {"package", "repository", "owner", "domain"}]
  /\ Platforms \cup Unclaimed \cup Served \subseteq Refs
  /\ \A r \in Refs :
       Len(Candidates[r]) \in Nat \ {0} /\ r \in Up[r] /\ RedirectsTo[r] \subseteq Refs
  /\ Refs \cap {"ecosystems", "registry", "counts", "github", "iana", "rdap"} = {}
  /\ MaxRedirects \in Nat
  /\ None \notin Refs \cup Workers

VARIABLES
  kind,     \* Ref.Kind; an "owner" is a GitHub reference without repository
  job,      \* the Collect of each worker
  loaded,   \* bootstrap.loaded is there
  lock,     \* the holder of bootstrap.mu
  kept,     \* what the transport keeps of URLs that are asked again
  closed    \* the shared hosts it gave up

lookups == <<kind, job, loaded, lock, kept, closed>>

Idle ==
  [step |-> "idle", heard |-> << >>, says |-> {}, err |-> "none", unpopular |-> FALSE,
   at |-> None, name |-> None, tried |-> 0, hops |-> 0]

WholeInit ==
  /\ Init
  /\ kind \in Kinds
  /\ job = [w \in Workers |-> Idle]
  /\ loaded = FALSE /\ lock = None
  /\ kept = << >> /\ closed = {}

Ref(w) == reports[at[w]].ref

-----------------------------------------------------------------------------
(* Requests. *)

\* An answer that is kept, a host that is given up, or what comes over the wire.
Answers(url, answers) ==
  IF url \in DOMAIN kept THEN {kept[url]}
  ELSE IF url[1] \in closed THEN {"limited"}
  ELSE answers \cup {"failed", "limited"}

\* f, and y at x.
With(f, x, y) == [z \in DOMAIN f \cup {x} |-> IF z = x THEN y ELSE f[z]]

\* Only 2xx and 404 are kept.
Remember(url, a) ==
  /\ kept' = IF url \in Again /\ a \in {"found", "missing", "garbled"}
               THEN With(kept, url, a) ELSE kept
  /\ closed' = IF url[1] \in Shared /\ a = "limited" THEN closed \cup {url[1]} ELSE closed

Errors == {"failed", "limited", "garbled"}

\* getJSON: an answer that does not decode is an error, and kept all the same.
Json(url) == {"found", "missing"} \cup (IF url \in Again THEN {"garbled"} ELSE {})

\* The request of worker w about what is answered with a; what comes of it is j.
Hear(w, what, url, a, j) ==
  /\ job' = [job EXCEPT ![w] = [j EXCEPT !.heard = With(@, what, a)]]
  /\ Remember(url, a)
  /\ UNCHANGED <<kind, vars>>

Ask(w, what, url, a, j) == Hear(w, what, url, a, j) /\ UNCHANGED <<loaded, lock>>

At(w, step) == at[w] # 0 /\ job[w].step = step
To(w, step) == [job[w] EXCEPT !.step = step]
Fails(w, a) == [To(w, "return") EXCEPT !.err = a]
Says(j, what) == [j EXCEPT !.says = @ \cup {what}]

-----------------------------------------------------------------------------
(* PackageCollector. *)

Stats(w) ==
  /\ At(w, "stats")
  /\ LET url == <<"ecosystems", Ref(w)>>
     IN  \E a \in Answers(url, {"counted", "uncounted", "missing"}) :
           Ask(w, "stats", url, a,
               To(w, IF a \in {"counted", "uncounted"} THEN "counts" ELSE "registry"))

\* A defect: a registry that does not answer has no such package.
RegistryOrMissing(w) ==
  /\ At(w, "registry")
  /\ LET url == <<"registry", Ref(w)>>
     IN  \E a \in Answers(url, Json(url)) :
           Ask(w, "registry", url, a,
               IF a = "found" THEN To(w, "counts") ELSE Says(To(w, "return"), "missing"))

\* published, when the statistics do not list the package.
Registry(w) ==
  /\ At(w, "registry")
  /\ LET url == <<"registry", Ref(w)>>
     IN  \E a \in Answers(url, Json(url)) :
           Ask(w, "registry", url, a,
               IF a \in Errors THEN Fails(w, a)
               ELSE IF a = "missing" THEN Says(To(w, "return"), "missing")
               ELSE To(w, "counts"))

\* count: the registry's own number, else the one of the statistics, else none,
\* unless one of them was not heard.
Counts(w) ==
  /\ At(w, "counts")
  /\ LET url == <<"counts", Ref(w)>>
         stats == job[w].heard["stats"]
     IN  \E a \in Answers(url, {"counted", "uncounted", "missing"}),
            few \in BOOLEAN :
           Ask(w, "counts", url, a,
               IF "counted" \in {a, stats} THEN [To(w, "return") EXCEPT !.unpopular = few]
               ELSE IF a \in Errors THEN Fails(w, a)
               ELSE IF stats \in Errors THEN Fails(w, stats)
               ELSE [To(w, "return") EXCEPT !.unpopular = TRUE])

-----------------------------------------------------------------------------
(* GitHubCollector. *)

Owner(w) ==
  /\ At(w, "owner")
  /\ LET url == <<"github", <<"owner", Ref(w)>>>>
     IN  \E a \in Answers(url, Json(url)) :
           Ask(w, "owner", url, a,
               IF a \in Errors THEN Fails(w, a)
               ELSE IF a = "missing" THEN Says(To(w, "return"), "missing")
               ELSE To(w, IF kind[Ref(w)] = "owner" THEN "return" ELSE "repo"))

\* The repository answers under its owner of today.
Repo(w) ==
  /\ At(w, "repo")
  /\ LET url == <<"github", <<"repo", Ref(w)>>>>
     IN  \E a \in Answers(url, Json(url)), few \in BOOLEAN, moved \in BOOLEAN :
           Ask(w, "repo", url, a,
               IF a \in Errors THEN Fails(w, a)
               ELSE IF a = "missing" THEN Says(To(w, "return"), "missing")
               ELSE [To(w, IF moved THEN "moved" ELSE "return") EXCEPT !.unpopular = few])

\* moved: only with the dates of both owners and of the repository is the owner
\* known to be replaced.
Moved(w) ==
  /\ At(w, "moved")
  /\ LET url == <<"github", <<"holder", Ref(w)>>>>
     IN  \E a \in Answers(url, Json(url)), younger \in BOOLEAN :
           Ask(w, "moved", url, a,
               IF a \in Errors THEN Fails(w, a)
               ELSE Says(To(w, "return"),
                         IF a = "found" /\ younger THEN "replaced" ELSE "moved"))

-----------------------------------------------------------------------------
(* DomainCollector and bootstrap. *)

\* bootstrap.mu.Lock does not look at the context.
Lock(w) ==
  /\ At(w, "lock") /\ lock = None
  /\ lock' = w
  /\ job' = [job EXCEPT ![w] = To(w, "boot")]
  /\ UNCHANGED <<kind, loaded, kept, closed, vars>>

\* register: RDAP where the file has a server, and then the page.
Register(w) == To(w, IF Ref(w) \in Served THEN "rdap" ELSE "page")

Loaded(w) ==
  /\ loaded
  /\ job' = [job EXCEPT ![w] = Register(w)]
  /\ UNCHANGED <<kind, loaded, kept, closed, vars>>

Load(w) ==
  /\ ~loaded
  /\ LET url == <<"iana", "dns">>
     IN  \E a \in Answers(url, Json(url)) :
           /\ loaded' = (a = "found")
           /\ Hear(w, "boot", url, a,
                   IF a = "found" THEN Register(w)
                   ELSE Fails(w, IF a = "missing" THEN "failed" ELSE a))

\* A defect: an error returns with the lock.
BootLocked(w) ==
  /\ At(w, "boot")
  /\ Loaded(w) \/ Load(w)
  /\ lock' = IF job'[w].err = "none" THEN None ELSE lock

\* server: the file is loaded by the first, or by the next if that fails; the
\* unlock is deferred.
Boot(w) ==
  /\ At(w, "boot")
  /\ Loaded(w) \/ Load(w)
  /\ lock' = None

\* rdapLookup and register: the longer name if the shorter is not registered.
Rdap(w) ==
  /\ At(w, "rdap")
  /\ LET names == Candidates[Ref(w)]
         n == job[w].tried + 1
         url == <<"rdap", names[n]>>
     IN  \E a \in Answers(url, Json(url)), young \in BOOLEAN :
           Ask(w, "rdap", url, a,
               IF a \in Errors THEN Fails(w, a)
               ELSE IF a = "found"
                 THEN LET j == [To(w, "page") EXCEPT !.name = names[n]]
                      IN  IF young THEN Says(j, "new") ELSE j
               ELSE IF n < Len(names) THEN [To(w, "rdap") EXCEPT !.tried = n]
               ELSE Says(To(w, "return"), "missing"))

Host(w) == IF job[w].at = None THEN Ref(w) ELSE job[w].at

\* The end of a chain of redirects: on another site it is a reference of its own,
\* and a young domain that leads there is told.
Arrive(w, a, gone) ==
  LET j == IF gone THEN Says(To(w, "return"), "gone")
           ELSE IF a \in {"missing", "bad"} THEN Says(To(w, "return"), "http-error")
           ELSE To(w, "return")
  IN  IF job[w].name \in Up[Host(w)] THEN [j EXCEPT !.at = None]
      ELSE IF "new" \in j.says THEN [Says(j, "new-redirect") EXCEPT !.at = Host(w)]
      ELSE [j EXCEPT !.at = Host(w)]

\* follow: redirects up to the limit, each a request through the transport.
Page(w) ==
  /\ At(w, "page")
  /\ LET url == <<Host(w), "page">>
         pages == {"found", "missing", "bad", "unreachable", "redirect"}
     IN  \E a \in Answers(url, pages), next \in RedirectsTo[Host(w)] \cup {None},
            gone \in BOOLEAN :
           /\ (a = "redirect") = (next # None)
           /\ gone => a = "missing" /\ {Ref(w), Host(w)} \subseteq Unclaimed
           /\ Ask(w, "page", url, a,
                  IF a \in Errors THEN Fails(w, a)
                  ELSE IF a = "unreachable"
                    THEN [Says(To(w, "return"), "unreachable") EXCEPT !.at = None]
                  ELSE IF next # None /\ job[w].hops < MaxRedirects
                    THEN [To(w, "page") EXCEPT !.at = next, !.hops = @ + 1]
                  ELSE Arrive(w, a, gone))

-----------------------------------------------------------------------------
(* Collect, from the job to the report. *)

First(ref) ==
  CASE kind[ref] = "package" -> "stats"
    [] kind[ref] \in {"owner", "repository"} -> "owner"
    [] kind[ref] = "domain" -> IF ref \in Platforms THEN "page" ELSE "lock"

Begin(w) ==
  /\ Take(w)
  /\ job' = IF at'[w] = 0 THEN job
            ELSE LET ref == reports[fed].ref
                 IN  [job EXCEPT ![w] = [Idle EXCEPT !.step = First(ref), !.name = ref]]
  /\ UNCHANGED <<kind, loaded, lock, kept, closed>>

Report(w, status, detail, leads, unpopular) ==
  /\ Put(at[w], status, detail, leads, unpopular)
  /\ at' = [at EXCEPT ![w] = 0]
  /\ job' = [job EXCEPT ![w] = Idle]
  /\ UNCHANGED <<tooMany, stage, first, fed, asked, capped, stopped, expired, findings,
                 kind, loaded, lock, kept, closed>>

\* A defect: a lookup that the budget ended has failed.
ReturnFailed(w) ==
  /\ At(w, "return")
  /\ LET j == job[w]
         leads == IF j.at \in Refs THEN j.at ELSE NoRef
     IN  \/ j.err = "none" /\ Report(w, "checked", "none", leads, j.unpopular)
         \/ j.err = "limited" /\ Report(w, "not-checked", "limited", NoRef, FALSE)
         \/ j.err \in {"failed", "garbled"} /\ Report(w, "failed", "error", NoRef, FALSE)

\* fail, and coordinator.work: a lookup that failed with the budget over was not
\* made.
Return(w) ==
  /\ At(w, "return")
  /\ LET j == job[w]
         leads == IF j.at \in Refs THEN j.at ELSE NoRef
     IN  \/ j.err = "none" /\ Report(w, "checked", "none", leads, j.unpopular)
         \/ j.err = "limited" /\ Report(w, "not-checked", "limited", NoRef, FALSE)
         \/ j.err \in {"failed", "garbled"} /\
              IF Done THEN Report(w, "not-checked", "budget", NoRef, FALSE)
              ELSE Report(w, "failed", "error", NoRef, FALSE)

Request(w) ==
  \/ Stats(w) \/ Registry(w) \/ Counts(w)
  \/ Owner(w) \/ Repo(w) \/ Moved(w)
  \/ Lock(w) \/ Boot(w) \/ Rdap(w) \/ Page(w)

\* With the last wave what was kept for the lookups has served.
Forget ==
  /\ loaded' = FALSE /\ kept' = << >> /\ closed' = {}
  /\ UNCHANGED <<kind, job, lock>>

WholeStep ==
  \/ (Extract \/ Derive \/ ReportFindings \/ Unpopular) /\ UNCHANGED lookups
  \/ Reported /\ Forget
  \/ \E w \in Workers : Begin(w) \/ Request(w) \/ Return(w)

WholeNext == WholeStep \/ ((Expire \/ Returned) /\ UNCHANGED lookups)

\* As in References: the goroutines run, and every request returns.
WholeSpec ==
  /\ WholeInit /\ [][WholeNext]_<<vars, lookups>>
  /\ WF_<<vars, lookups>>(WholeStep)

-----------------------------------------------------------------------------
\* What a lookup has heard of thing what: nothing at all is "silent".
Heard(w, what) == IF what \in DOMAIN job[w].heard THEN job[w].heard[what] ELSE "silent"

\* The fact that there is no such package, owner, repository or domain.
AbsenceKnown(w) ==
  \/ "missing" \in {Heard(w, "registry"), Heard(w, "owner"), Heard(w, "repo")}
  \/ Heard(w, "rdap") = "missing" /\ job[w].tried + 1 = Len(Candidates[Ref(w)])

\* A number of downloads, or that neither source has one.
DownloadsKnown(w) ==
  \/ "counted" \in {Heard(w, "stats"), Heard(w, "counts")}
  \/ {Heard(w, "stats"), Heard(w, "counts")} \subseteq {"uncounted", "missing"}

Unheard(w, what) == Heard(w, what) \in Errors

(* docs/adr/0005: "The scanner reports a finding only when it knows the      *)
(* fact".  A report says that something does not exist because that was the  *)
(* answer about it, and not an error or another source's silence; a report   *)
(* is checked if all it had to ask was answered, one of two sources for the  *)
(* number of downloads; and it is left to a rate limit only if one was met,  *)
(* by this lookup or by another at the same host.                            *)
ReportIsKnown ==
  [][\A w \in Workers : (at[w] # 0 /\ at'[w] = 0) =>
       LET rep == reports'[at[w]]
           j == job[w]
       IN  /\ "missing" \in j.says => AbsenceKnown(w)
           /\ rep.status = "checked" =>
                CASE kind[Ref(w)] = "package" ->
                       AbsenceKnown(w) \/ ( /\ DownloadsKnown(w)
                                            /\ \/ Heard(w, "registry") = "found"
                                               \/ Heard(w, "stats") \in {"counted", "uncounted"})
                  [] OTHER -> \A what \in DOMAIN j.heard : ~Unheard(w, what)
           /\ rep.detail = "limited" =>
                \E what \in DOMAIN j.heard : Heard(w, what) = "limited"
     ]_<<vars, lookups>>

\* Whatever is asked and answered, in whatever order, the layer does what
\* References says, so that what is proved of References holds here.
ImplementsReferences == Init /\ [][Next]_vars
=============================================================================
