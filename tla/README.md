# skill-verdict in TLA+

A verification development beside the code of `skill-verdict`, the scanner that
gives a skill (a directory of prompts, scripts and manifests for a coding agent)
a verdict: clean, review, incomplete or block. The modules here model the scan
as it runs, how the text of a skill gets into it, the layers that decide
something over several steps, the traces of values through scripts, and the
concurrent code under them. TLC checks them on small instances; the theorems in
the `*Proofs` modules hold for every value of the constants and are checked by
TLAPS.

## The system

`scan.Run` expands its arguments to skills and scans one after the other. A scan
is one `pipeline.State` that the enabled layers read and write in a fixed order,
each to its end before the next starts. Everything the layers know of each other
goes through that state.

| part | its state | its operations | what is hard about it |
|---|---|---|---|
| scan run (`scan`) | results, the caller's context | scan a target, publish it to `Each`, stop | a cancellation can come anywhere; a cancelled skill must not be published |
| pipeline (`internal/pipeline`) | findings, artifacts, reference reports, layer statuses, covered and linked places, the interrupt | `Record`, run a layer, skip a layer, `Cover`, `Link` | a finding may interrupt the scan from inside a layer that goes on to its return; a line is linked and unlinked by matches in any order |
| verdict (`scan/verdict.go`) | none | `Compute`, `Complete` | skipped and interrupted layers count as inspected |
| rules (`rules`) | none during a scan | merge of files and settings, refusal | settings may switch a rule's table, policy and interrupt on and off |
| walk layer | artifacts, sums of files and sizes | one pass over the entries | limits counted over entries, a size that is stale when the file is read, files that vanish |
| reveal layer | clean texts and their shifts | one pass over each text | offsets of the clean text drift from those of the file; the verdict on a word is kept over runes |
| ast layer, traces (`code`, `internal/trace`) | lowered programs; per trace its visits and budget | parse and lower, follow a value forward and backward | uses met in any order, one memory of visits, one budget, limits at depth and call sites |
| static layer | findings, links to traced values | match every rule, resolve links | three readers of the same Markdown keep their own fences; places of the clean text must be places of the file |
| references layer (`layers/references`, `refcheck/runner.go`) | reports, one per reference | extract, two waves of lookups by workers, findings of the reports, placing of unpopular installs | the limit over both waves, the budget, an interrupt from inside the collection |
| reference transport (`refcheck/pace.go`, `replay.go`) | a lock, a pause and a closed flag per host, shared slots, kept answers | `RoundTrip` | locks held over waits, look-ups before a lock used after it, retries, contexts that end |
| collectors (`refcheck/*.go`) | the RDAP bootstrap | `Extract`, `Collect` | a shared file fetched under a lock by whoever comes first; a request that fails after others were answered; what is not known must not be told as missing |
| decision layer (`layers/decision`) | groups of places with cached answers, one error for all | ask about the references, ask about and judge the findings | answers of one request used for later findings; batches cut by size; one failure stops all later requests |
| agent loop (`llm/agent`) | the conversation, the number of requests | one reply after the other, its calls in order | several calls in one reply, calls after the one that ends the task, the ends of the loop |
| honeypot, discovery, judge layers | a store per session | the tools of each, what is recorded or applied at the end | a session that fails half way; calls that are refused; corrections |
| configuration, reports, command line | none that changes during a scan | loading, rendering | pure functions of files |

The layers run in the order walk, reveal, ast, static, references, decision,
honeypot, discovery, decision again ("late"), judge. Findings flow from the
layers that record them to decision and judge, which may lower or dismiss them
within the policy of the finding's rule.

What makes each part correct, in one line each: a verdict is clean only after a
full scan; an interrupt stops the pipeline and its finding is judged by nobody;
a finding is judged once and within its rule's policy; what is left out of a
skill is told; a match is shown where it stands in the file, and in a block of
lines that has it; a trace lists every call its value comes to or says that it
is cut; the references of a skill are each looked up at most once, within the
limit, and each is answered for; a host is asked by one request at a time, after
its pause, for nothing that is already known, and never again after it was given
up; a finding is judged by the answers to its own questions, and by the worst of
its places; every request, wave, session and run ends; a trap the model steps on
is recorded; the last word of a model, and only a sure one, is what counts.

## Modules

| module | models | state and actions |
|---|---|---|
| `Verdicts` | severities, policies, `judge/tools.go` `resolve`, `scan/verdict.go` | operators only |
| `Scan` | `scan.run`, `pipeline.Run`, `State.Record`, and what each of the ten layers does to the shared state | variables are the fields of `State`, the position in the run, and the caller's context; one action per step of a layer at which an interrupt or a cancellation is looked at, per return, per skip, per published result |
| `Lookups` | what the transport promises: an answer per request, kept answers, given-up hosts | abstract specification, one action per kind of answer |
| `Pacer` | `pacer.RoundTrip`, `attempt`, `wait`, `replay` | a program counter per request; one action per step between which another goroutine can run; implements `Lookups` |
| `References` | `refcheck.Runner` and `references.Run` | the coordinator's fields, what each worker is on, what the layer recorded |
| `Collectors` | `References` with the collectors: `domain.go`, `rdap.go`, `github.go`, `pkg.go` | the request each worker is at and what it has heard, the bootstrap and its lock, kept answers and given-up hosts; one action per request; implements `References` |
| `Agent` | `agent.Loop.Run` and `answer` | the loop's variables; the modules of the layers join their store to `Answer` |
| `Honeypot` | the honeypot layer over `Agent` | the evidence, what is recorded |
| `Judgement` | what the judge layer promises the pipeline | one step that judges some pending findings; `Scan`'s `JudgeReturn` is this step |
| `Judge` | the judge layer over `Agent` | the store, the findings; implements `Judgement` |
| `Discovery` | the discovery layer over `Agent`, with `State.Covered`, `State.Restated` and `finding.Dedup` | the store, what the skill has findings for, what the layer adds |
| `Rules` | the rule files, the settings, what the loader merges, overrides and refuses | operators only |
| `Engine` | `decision/engine.go`: the answers about the places of a finding, combined and held against an outcome table | operators only |
| `Deciding` | what the decision layer promises: raising at once, deciding once, within the policy | abstract specification |
| `Decision` | the decision layer over one skill: loading, usages, groups, batches, requests with their attempts, judging | one action per attempt of a request, or per what is done between two; implements `Deciding` |
| `Texts` | lines and offsets (`textutil`), the fences of `static/scope.go` and of `code/parse.go`, the block of `decision/frame.go` | operators only |
| `Reveal` | `reveal/normalize.go` and the way back of `inventory.Artifact.Source` | operators only |
| `Static` | the static layer on one artifact, and the way of a link (`static/link.go`) | operators only |
| `Intake` | walk, reveal, ast and static over one skill | one action per entry or artifact in each layer; the context may end and a file may change between two |
| `Lowering` | `code/lower.go`, `collect.go`, `specs.go`: from a syntax tree to statements, calls and functions | operators only |
| `Trace` | `internal/trace`: the subjects of matches, forward and backward, the budget | operators only |
| `Values` | where a value goes, read off the syntax trees alone | the reference definition for `Trace`: a least set of places |
| `ScanProofs`, `PacerProofs`, `ReferencesProofs`, `HoneypotProofs`, `JudgeProofs`, `DiscoveryProofs`, `DecisionProofs`, `IntakeProofs` | | theorems and proofs |
| `IntakeInvariants` | | the inductive invariants of `Intake` and the predicates its lemmas are stated with, for `IntakeProofs` |
| `MCScan`, `MCPacer`, `MCReferences`, `MCCollectors`, `MCJudge`, `MCDiscovery`, `MCDecision`, `MCPrograms`, `MCIntake` | | the values of the constants for TLC |

How they compose: `Scan` has one step for what a layer does as a whole, and the
module of a layer says what that step may be. `Judge` and `Decision` are shown to
implement the specification of that step (`Judgement`, `Deciding`); `Pacer`
implements `Lookups`, and each request of `Collectors` is one of its answers. In
`Collectors` the workers of `References` make these requests one after the other
between a job and its report; it implements `References`, so what is proved of
`References` holds whatever the collectors ask and hear.
`Honeypot`, `Judge` and `Discovery` are each `Agent` with a store. `Intake` runs
`Reveal`, `Texts` and `Static`; `Decision` runs `Rules` and `Engine`, and the code
of its skills is what `Lowering` and `Trace` make of their scripts, worked out
before the run, as the ast layer is done before the decision layer starts.

The data is abstract: a finding is a model value or a record of what matters of
it; artifacts and reports are the statuses the verdict reads; time in `Pacer` is
whether a pause is over; a text is a sequence of runes with what the layers tell
apart, a regular expression is the run of runes it matches, a syntax tree has the
classes of nodes the lowering asks about; the wording of findings, prompts and
reports is left out. An entry of a model's call is what the store looks at, and
everything `check` refuses is one value, `Bad`. A probability is a whole number
of percent, a text of a request is the tuple that says what it shows and has a
size.

Definitions that begin with "A defect:" in their comment are not part of the
model. Each is what a definition would be after a plausible mistake in the code;
put in its place it makes a property of a run fail, which shows that the
property says something about that definition.

## Runs

| run | instance | what it shows |
|---|---|---|
| `scan` | two skills, eight layers, five findings: interrupting ones in references, by a report and by a usage; one the static layer records, one of discovery; every kind of policy | an interrupt stops the pipeline at once and for good, its finding keeps severity and life; three judging layers never break a policy and never judge twice; a clean verdict that is published rests on a full scan |
| `interrupted_incomplete` | one skill, five layers, four findings | violated, see below |
| `pacer` | three requests, two for one URL, two hosts, one slot, one retry | spacing, no second request for a kept answer, every request returns, `Lookups` is implemented |
| `references` | two references in the files, one of them a package, a repository, an owner or a domain and the other a domain under a registrable name; two more behind redirects, one on a platform; one redirect per lookup; two workers, a limit of three; hosts and URLs that several lookups share | nothing lost, the finding about the limit, the layer returns, a report says only what its requests were answered, `References` is implemented |
| `unpopular_unchecked` | the references without their requests, a limit of two | violated, see below |
| `honeypot` | replies of up to three calls, three requests | no caught call in an answered reply goes unrecorded, the session ends |
| `honeypot_attempt` | replies of up to two calls | violated, see below |
| `judge` | two findings, one with a floor and one that cannot be lowered and is judged already; calls of up to two entries, replies of up to two calls, two requests | a session without error leaves nothing unanswered; only sure last words are applied; refused calls leave nothing; `Judgement` is implemented |
| `discovery` | two model rules, one with a text rule as severe and one with a milder one, one file of three lines; submissions of up to two items, replies of up to two calls, two requests | the last word about an identity is what the store holds; a place is reported once; nothing is dropped for a milder finding, or because the session failed |
| `decision` | small skills with the rules and the settings a loader meets, with findings at shared, nested, repeated and missing places and references with usages; two places fit in a request; answers that are sure, unsure, missing or doubled; requests that fail, are sent again or end with the context; both passes of the layer. Beside them 603 small scripts through lowering and traces | requests fit, answers are a finding's own, every place is asked about, the worst place decides, usages are told, a trace is whole or says that it is not, the layer returns, `Deciding` is implemented |
| `usage_lost` | the skills in which two references are first used at one line | violated, see below |
| `intake` | folders at, one under and one over each limit; a file that grows, vanishes or fails; the heads of files at the edge of each format; every text of up to three runes over ten, with hidden runes (one of them a letter of another script), look-alikes, ligatures and escapes; every Markdown of four lines over six lines that open, close or fill a fence, and Markdown with hidden or folded runes in its fences, without and with frontmatter; pairs of links with every kind of target; rules of every scope with all that lowers a match | limits are told, what is disguised is found at its source, a match is in the file where it is shown and in the block that is shown, every line is matched once, the clean text has the file's lines and the readers of a fence agree up to a fence that cleaning changes, a link that leads out is told, what is linked is linked by all matches of its line |

Why the bounds are enough. In `scan` each kind of finding (interrupting or not,
decided with a request of its own, with a group's or with the references',
lowerable with and without a floor or not at all) occurs at least once, each
layer has its turn before and after an interrupt and a cancellation, and the
second skill starts from what the first left. Reveal and honeypot record as
static and discovery do and have no part in the instance. In `pacer`
two requests for one URL meet at the lock of its host, and the third holds the
slot they need. In `references` the limit falls into the second wave or is not
reached, depending on what redirects where; both workers may be in flight when
the budget ends. Replies of two and three calls put a call before and after the
one that ends a task; two entries in a call are enough for a correction or a
refused neighbour, and two requests for a second try. In `discovery` an item may
start before, in and after the lines that a usage answer or a text rule claims.
In `decision` a batch is cut by its size, by its number of questions and not at
all, and a place alone is over the size; two places make a finding's worst place
differ from its first. Of the 603 scripts, which store, use, pass on and return one
value in one or two functions and one or two files, about fifty exceed the
`MaxNodes` of 30, the `MaxDepth` of 4 or the `MaxCallSites` of 3 and about fifty give
a value to one call twice. In `intake` the limits are small enough that each is
met by a file's first, last or only byte; three runes are a word, its edge and
what hides in it; four lines are a fence with content and a line after it;
`MaxHops` is 5, so that a ring of links is left by the bound and a chain is not.

### Where the documents and the code disagree

* `InterruptedIsComplete`. ADR 0012 says that an interrupted scan is complete.
  `references.Run` drops the unchecked reports only for an interrupt that came
  before its own findings; with a finding of a report that interrupts, unchecked
  reports stay and the verdict is incomplete (unless a finding blocks).
* `UnpopularIsKnown`. ADR 0005 says that a finding needs a known fact. After an
  interrupt by REFERENCES-TOO-MANY the report of an unchecked reference is gone,
  and an install that names it is taken for one that names no reference.
* `AttemptIsRecorded`. The README says that an attempt to execute anything blocks
  the skill. A reply that reaches the compaction threshold ends the loop before
  its calls are looked at; the layer fails and the skill is incomplete instead.
* `EachReferenceTold`. The documents say that a reference gets one finding per
  rule, at the first such place. Two references first used at one line share one
  finding, as the second is a duplicate by rule, file and line, and the blocks of
  its other places are covered all the same.

### What the modelling came across

Behaviour the model keeps and no property forbids, listed because a reader of
the code may want to know of it.

* Rules and decision: the id `name-N` a group gives a repeated question may be
  the name of another question of a custom rule; a row that lists an option twice
  counts its probability twice.
* Walk: a file that grows past the file limit after its size was taken is read
  and not told, though its text counts; `docs/user/detection.md` says that the
  hash covers all regular files, and files over the limit or unreadable are not in
  it; the sums of archive headers are of 64 bits and may wrap.
* Texts: static works on the clean text, and the blocks of the parser and of the
  frames on the file; frames skip the frontmatter, the other two do not. So a
  hidden rune among the backticks of a fence, or a wide backtick, makes a fence for
  static and for neither of the others, and a fence within the frontmatter makes one
  for all but the frames; `FencesAgree` says that they agree everywhere else. A match
  that ends with a line break before a hidden rune is said to end one line
  further down.
* Traces: a call that takes the value in two arguments is followed into a
  function of the skill for the first only (`Values` excuses it as `TakenTwice`);
  a function with more call sites than `MaxCallSites` is left without a mark
  (`Crowded`), as are the limits of a backward trace; the memory of imported names
  keeps only the first of several; a second call of one function in a statement
  is skipped on the way back; the variable of a comprehension hides the same name
  in the whole expression; a field set in one method and used in another is
  followed forward and not backward; a literal piped on in a shell does not reach
  the command after the pipe; chained calls that begin at one place share the
  subject that was asked for first.

## Fairness

`Scan`, `Intake`, `Judge` and `Discovery` state no fairness; only safety is asked
of them. In `Pacer` every goroutine runs on and every timer fires; a round
trip ends by its own timeout (`p.timeout`), which is why `Receive` is fair. No
strong fairness is used: a request that waits for a host's lock gets it because
in the model each request is made once, as each lookup makes each request once.
In `References` and `Collectors` the fairness is of the layer as a whole: some
goroutine makes the next step, and a collector returns since each of its requests
does and a chain of them is bounded. In
`Honeypot` the provider answers or times out. In `Decision` it is weak fairness of
the layer's one goroutine, whose requests end by their timeout; it is written
out as `[]<>~Running \/ []<><<Step>>_vars`, since a step is enabled exactly while the
layer runs, and the end of the context is not forced.

## Proofs

Every theorem is for all values of the constants under the `ASSUME`s of the
modules, which state types and, in `Scan`, that the references layer alone
records what `usages()` asks about (`AskedAssumption`, a fact of the shipped rule
set and of `usage.go`).

* `ScanProofs`. `ResolveAllowed` (also in `JudgeProofs`) and `EngineAllowed`: what
  the two judging functions return is within the policy of the rule. The invariant
  adds to the properties how the interrupt, the
  statuses and the position in the pipeline hang together: a layer that runs
  has a status for each layer before it; an interrupt is a recorded finding with
  no judgement, and no finding of the running layer's cached answers
  interrupts. Without the last part a step of the decision layer could
  judge the interrupting finding, so `InterruptStands` alone is not inductive.
  A clean verdict rests on a full scan because an interrupt leaves a live finding,
  a layer is only skipped or interrupted after an interrupt or a cancellation, and
  `Complete` rules out the failures.
* `PacerProofs`. A request between `Lock` and `Return` holds its host's lock, so
  it is alone there; what it learned on admission (URL not kept, host not
  closed) stays true as only the holder changes either; a pause that is over
  stays over while it waits for a slot. From this follow spacing, no second
  request, quiet after closing, and that every step is a step of `Lookups` or a
  stutter. Beside the properties of the run it is proved that no more requests are
  on the wire than there are slots (`SlotsBound`).
* `ReferencesProofs`, for any order in which the references of a file or a wave
  come. While the waves run the reports are a list without repetition (`Once`),
  which grows only between the waves (`Listing`); a worker is on a report that was
  handed out in the wave that runs (`Crew`); the reports over the limit, and no
  others, are capped (`Caps`); what was asked about was handed out (`Handed`), and
  what was handed out is being looked up or answered for (`Settled`); what the
  first wave found is listed in the second (`Led`), and the one finding before
  those of the reports is about the limit (`Told`). `Handed` is needed for
  `AskedOnce`: a reference the next report names is not in `asked` because no
  report before it has its name. Beside the properties of the run the limit
  itself and `AskedOnce` are proved.
  The second part is about `Collectors`. `WholeInv` adds to the invariant what the
  lookup of each worker has heard (`JobInv`): an error that counts ends it
  (`Sure`), it says that something is missing only at its end and on that answer,
  and a lookup of a package that ends without an error knows that there is none or
  has what `count` needs (`OfPackage`). `KeptRight` is needed for it: what the
  transport kept of an URL is an answer to the question it is given for. A request
  leaves the state of `References` alone and a return is an answer it allows, so
  `Collectors` implements `References` (`CollectorsImplement`); `ReportIsKnown`
  follows from `JobInv` at the step that reports (`KnownReported`). The constants
  are assumed to name no service by the name of a reference: what is kept is kept
  by host.
* `HoneypotProofs`, `JudgeProofs` and `DiscoveryProofs` begin with the types of the
  agent loop, which each joins its store to.
* `HoneypotProofs`. The invariant says where an attempt is: still in the reply, or
  on record, or in a reply that was never answered; that evidence means the
  task is over, so the loop cannot ask again; and that there is no error before
  the loop ends. The last part is needed: without it an attempt could be excused
  by an error that the end of the loop then replaces.
* `JudgeProofs`. A record never goes away and is only of a pending finding; a
  task that is done has nothing missing; no finding changes before the layer
  returns. From this follow completeness of a submission, what is applied, and
  that the session is one step of `Judgement`. That the last word stands rests on
  `LastExists`: a call that speaks of a finding has a last entry about it.
* `DiscoveryProofs`. The store is a sequence with one item per identity, changed
  by a call entry by entry, and the report is made of it item by item. Both are
  functions on `0..n`; the first lemmas give induction over the numbers for sets,
  and that such a function exists with the values its equations say, without an
  operator as a parameter. On these rest `StoredOn` (after a call the
  store has, of an identity, what the last entry about it says) and `ReportIsOne`
  (the report has every told item of the store, and an identity once). The
  invariant is that the store has each identity once and only sure items, that
  what `usages()` raised is covered, and that the report of an ended layer is the
  report of its store.
* `DecisionProofs`, for any rule files, settings, skills, limits, answers, failures
  and end of the context that `DecisionAssumption` admits. It asks of a case what
  the parsers of rules and files, and the layers before this one, leave: lists are
  sequences, sizes are natural numbers and a line has its trailing newlines, the
  probabilities that count are not zero (`config.Validate`), a finding of an earlier
  run has a state and maybe evidence, a value is that of one reference
  (`refcheck.add`), and the block around a line has the line (`frame.go`, which
  `FramesShow` checks). `LoadedRules` proves from it that every rule of a set the
  loader accepts has a table the engine can read. The rest goes in four invariants,
  of which `Inv` carries the others and `AskedAndTold` carries `Evidenced`.
  `Inv` has the types, what the layer has turned to (a group is asked about only
  for a reference or for a finding that is pending and needs it) and that findings
  are decided in their order. Its `RequestsOK` has `BatchesFit`, which follows from
  `Batched`, that the sizes `askAll` counts while it fills a batch bound the text
  that `askPlaces` makes of the batch afterwards, newlines cut and empty lines
  put between, so that no batch of two places is over a limit.
  `AskedAndTold` says of every group that what it keeps under the id of a place and of a
  question is the model's answer to this question at this place, or the reason
  there is none (`Told`), that ids of questions and of places are not shared
  (`OwnGroup`), and that a group of a rule has a place for each finding that is
  still to be judged by it (`HasPlaces`). Without the last part the judgement of one
  finding could leave another one without a place, and `EveryPlaceIsAsked` alone is
  not inductive.
  `Evidenced` says of every finding judged in the run that its evidence has these
  answers and that its state and severity are what the engine makes of them
  (`Witnessed`). `AnswersAreOwn` and `EveryPlaceIsAsked` are read off it.
  `WorstPlaceWins` needs the engine itself: `CombinationsArePicks` shows that the
  combinations `engine.go` builds subject by subject are exactly the choices of an
  instance for every subject, `MatchesHolds` that a row matches one as the guide
  says it (a question without an answer weighs nothing, and no bar is zero), and
  `WorstWins` that the fold keeps a worst outcome.
  `UsesTold` is about the usages: of every use that means a rule its block is covered,
  and something raised says so at a place of the same reference; deduplication
  keeps a finding of the same rule at the same line, and what a text rule told
  before stays told. From it follows `UsageIsTold`.
  That the layer implements `Deciding` (`LayerImplementsDeciding`) is shown step by
  step: loading, raising, one decision and the return are those of `Deciding`,
  every other step leaves what it sees alone; a decision is within the policy
  because `Judges` gives the two outcomes of `EngineJudge`.

* `IntakeProofs`, for any folders, limits, runes, rules and changes of files that
  the `ASSUME`s of `Texts`, `Static` and `Intake` admit. These say that the paths of
  a folder's entries differ, that a rune has a size, that limits are natural numbers,
  that no rule which is told of a file by its name has the id of a limit's rule
  (ids are unique, and the limits' rules in `rules/data/walk.json` name no files),
  that no rule of another layer has the id of one of reveal's two
  (`rules/data/concealment.json`), and that a newline is neither a letter nor hidden,
  is folded and mapped to itself, and nothing else is folded or mapped to one.
  The numbers and sequences come first: induction up to a number, and of each recursive
  function of the model the equation it was defined by (the `...Course` lemmas).
  `WalkTellsLimits`. The property is about the end of the walk and is far from
  inductive; `WalkInv` says of each step before it what has been counted
  (`WalkSums`: the text counted so far is the sum over what was read, and the number of
  entries is that of the artifacts, with one more while a file is measured and not yet
  read), that a rule of `limits.done` was told at the first entry past its limit and
  otherwise no entry is past it (`FilesLimit`, `TextLimit`), and of every entry walked
  whether it was too large (`FileLimit`). That a text is told once is the harder half:
  it is counted by what was read, so `PastMore` has to show that a sum that
  passes the limit passes it with the last file and stays past it.
  `FramesShowTheirLine`. `BlockOK` is what the frames need of a block: it has the
  line, and lies within the file. Every way to a block gives it
  (`TextBlockOK`, `WindowOK`), `CutParts` makes parts of it that rise, do not
  overlap and hold the line, and `ShowAdds` adds a part to what is shown.
  `FenceReadersAgree`. The three readers of Markdown read different texts: the static
  layer the clean one, the frames the file past its frontmatter, the parser the whole
  file. First, the clean text has the lines of the file: cleaning writes as
  many newlines as it reads (`SpanBreaks`, `BreaksPassed`), so there are as many lines
  (`LinesMany`) and each rune is in its own (`RowHeld`, `CleanLines`). Then each pair
  of readers is shown to be in step line by line. Static keeps the fence that is open
  while it goes through the lines, the frames look it up from the top for each line
  and the parser collects blocks on its way: the same fence is open after the same
  line, since a run too short for a fence can neither open one nor close one
  (`FencesRead`, `BlocksRead`, `FenceLong`, `ClosesLong`). `FencesTied` keeps static's
  fences of the clean text in step with those of the file up to the first line whose
  fence cleaning changes, and `FirstFences` says that a frontmatter without a fence
  makes no difference. For the parser's blocks, which are places in the text, `RowIs`
  says at which line a place is, and `BlocksPlaced` that it lies between fences of the
  frame. `TextsOK`, that every text is of runes that are known, is the invariant for both
  theorems; `CleanOK` adds for this one that what reveal put out is the clean text.
  `LinksAreWhole`. The values shown with a finding are those of every match at its
  line, but the layer meets the matches one artifact and one rule at a time and drops the values
  of a line as soon as one of its matches has none. `LinkInv` says what it knows
  half way: the links are those of the matches in the artifacts scanned so far, and so
  are the lines that stay unlinked (`LinkInit`, `LinkScanned`, `LinkEnded`;
  `LinkStays` for the steps that leave them alone, `BriefStays` for the brief that the
  end of the layer adds to the artifacts). That the matches of a finding's line are all
  in one artifact needs two more: `ListOK`, that artifacts stand in the folder's order at
  the entries' own paths, so no two share one, and `FoundOK`, that a finding with a
  line is located in one of them. `RulesOK` in the `ASSUME` of `Intake` says that
  the rules of a case come in a sequence, each with a sequence of patterns.
  `SourceLeadsBack`. The layer reads the origin of a byte off a list of marks, one
  where the clean text starts to differ from the file by another offset, so a byte
  far behind a mark depends on all marks before it. `MarksOK` says that the marks stand in
  order at bytes of the clean text; then a mark that is added leaves the origins of
  what is written alone and sets those of what follows (`MarkAdds`, `MarksAdd`). `Wrote`
  says of one rune that its bytes, and no others, lead back to it, and `RuneWrote` that
  this holds whether it is kept, folded or replaced by what it looks like; `Grown`
  carries it past the runes after it (`PassGrown`). So each rune has a `Span`
  of the clean text, spans are apart and cover it, and a rune comes from `k` exactly
  when it is in the span of `k` (`ComesSpan`): what the property picks
  as the image of a rune is what was written for it (`OriginIs`). The invariant of the
  machine is `CleanOK`: the clean text of an artifact is what the pass makes of its text.
  `HitsFollowWords`. The pass decides on a look-alike where the word is met and
  carries the verdict to the end of the word; `Remembers` says that what it carries is
  the verdict on the whole word. With that, `HitsOK` says of the pass up to any rune
  that its hits are runs of the places the property speaks of and leave none of them
  out. Two lemmas bring hits to lines: since a newline is neither
  letter nor hidden a run stays within its line, so lines of hits are lines of places
  (`LinesJoin`), and of the findings that are made of them `Unique` keeps one of each line
  and the cap the first `MaxPerRule` (`HitsFound`). `HitInv` is the invariant: a file
  has no such finding until reveal comes to it and all it should have after, and no other
  layer adds one.

Only model-checked: every liveness property (`EveryRequestReturns`, `LayerReturns`
of `Collectors` and of `Decision`, `SessionEnds`), as the prover does not reach
fairness; `TraceIsWhole`, as the operators of the traces are recursive over trees
and programs, which the prover does not take, and `Decision` is given the traces by
its case; and of `Intake` the invariants `MatchIsShown`, `EveryLineOnce` and
`LinksAreTold`.
These hold what a pass makes of its input step by step against a definition of its own
that has no order of work: `TraceIsWhole` against `Values`, `MatchIsShown` against the
file, `EveryLineOnce` against its lines, `LinksAreTold` against where a path leads, which
is itself defined by following it.

## Not modelled

* Parsers: tree-sitter and its runtime are inputs (a tree, a refused part, a
  runtime that fails); of the lowering, the parts that are of one language alone
  (`code/shell.go`, `code/powershell.go`) are left out, and so is the text around the
  calls of a trace.
* Collectors: the extraction of references from text, the facts a report lists,
  and the findings that a name, a number or a certificate makes (`address.go`,
  `typosquat.go`, `tlscert.go`): pure functions of a text or an answer. What an
  answer says is an input of `Collectors`.
* The encodings of the model services, the configuration, reports, the terminal
  and the command line: pure functions and I/O, apart from the interrupt that
  cancels the run. The scripts and research of the repository are not part of the
  program.
* The walk's hash of the contents and the arithmetic of archive headers, of which
  only the answer is an input.

`PROJECT.json` lists each with its status.

## What is left

In this order:

1. The lowering of shell, whose pipes and substitutions carry values in their own
   way, with scripts of their own in `MCPrograms`.
2. More proofs about `Intake`: that a match has its place in the file
   (`MatchIsShown`) and every line one finding (`EveryLineOnce`), from `SourceLeadsBack`
   and the lemmas of `HitsFollowWords` on lines.
