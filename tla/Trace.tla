-------------------------------- MODULE Trace --------------------------------
(***************************************************************************)
(* Where a value goes in the code of a skill, and where what a call takes  *)
(* comes from (internal/trace).  Operators only; Decision asks about the   *)
(* values its findings are linked to.                                      *)
(*                                                                         *)
(* A program is the sequence of the lowered units.  A statement is named   *)
(* <<unit, number>>, a call <<unit, number, number in its statement>>, a   *)
(* function <<unit, number>>.  A subject is a statement with the span of a *)
(* value in it, or one of its calls.  The tree of nodes a trace shows is   *)
(* kept as the calls in their order and, per call, the statements its      *)
(* parameters come from; what is written around them is left out.          *)
(***************************************************************************)
EXTENDS Lowering

CONSTANTS
  MaxNodes,      \* forward.go: what one trace may spend
  MaxDepth,      \* forward.go
  MaxCallSites,  \* program.go
  Options        \* names of arguments that begin with a dash

ASSUME TraceAssumption == {MaxNodes, MaxDepth, MaxCallSites} \subseteq Nat

ShellAll == <<<<"@">>, <<"*">>>>
Where(p, st) == p[st[1]].stmts[st[2]]
CallAt(p, c) == p[c[1]].stmts[c[2]].calls[c[3]]
StmtOf(c) == <<c[1], c[2]>>
FuncAt(p, f) == p[f[1]].funcs[f[2]]
ScopeOf(p, st) == Where(p, st).scope

\* What is in order of units and statements: the statements with a property.
Stmts(p, Test(_)) ==
  SelectSeq(FlattenSeq([u \in DOMAIN p |-> [k \in DOMAIN p[u].stmts |-> <<u, k>>]]), Test)
CallsIn(p, st) == [c \in DOMAIN Where(p, st).calls |-> <<st[1], st[2], c>>]

InSpan(s, offset) == s.from <= offset /\ offset < s.to
Size(s) == s.to - s.from
Smaller1(p, a, b) == Size(CallAt(p, a)) < Size(CallAt(p, b))

-----------------------------------------------------------------------------
(* program.go: what stands where. *)

\* The smallest statement or call at an offset, the first of its size.
SmallestOf(found, size(_)) ==
  InTurn(LAMBDA best, x : IF best = << >> \/ size(x) < size(best) THEN x ELSE best, << >>, found)

StatementAt(p, path, offset) ==
  SmallestOf(Stmts(p, LAMBDA st : p[st[1]].path = path /\ InSpan(Where(p, st), offset)),
             LAMBDA st : Size(Where(p, st)))
CallSmallest(p, st, offset) ==
  SmallestOf(SelectSeq(CallsIn(p, st), LAMBDA c : InSpan(CallAt(p, c), offset)),
             LAMBDA c : Size(CallAt(p, c)))

Takes(p, c, offset) == \E k \in DOMAIN CallAt(p, c).args : InSpan(CallAt(p, c).args[k], offset)

\* Program.At: the subject of a match, as a set of at most one.
At(p, path, match, ofCall) ==
  LET st == StatementAt(p, path, match.from)
      c == CallSmallest(p, st, match.from)
      end == Where(p, st).to
      value == [stmt |-> st, call |-> {}, at |-> match.from,
                to |-> IF match.to < end THEN match.to ELSE end]
  IN  IF st = << >> \/ BrokenAt(p[st[1]], Where(p, st)) THEN {}
      ELSE IF ofCall /\ c # << >> /\ ~Takes(p, c, match.from)
      THEN {[stmt |-> st, call |-> {c}, at |-> CallAt(p, c).from, to |-> CallAt(p, c).to]}
      ELSE {value}

\* One is asked for by a match, in path, of a rule that may ask for the call, and
\* kept by its place.
PlaceKey(p, s) == <<p[s.stmt[1]].path, s.at, s.call # {}>>
SubjectAt(p, ask) == At(p, ask.path, ask.match, ask.ofCall)

\* The calls that take what stands at an offset, from the inside out.
Consumers(p, st, offset) ==
  SortSeq(SelectSeq(CallsIn(p, st), LAMBDA c : Takes(p, c, offset)), LAMBDA a, b : Smaller1(p, a, b))

Wide(p, name, def) ==
  ScopeOf(p, def) = 0 \/ p[def[1]].lang = "shell" \/ (Len(name) = 2 /\ name[1] \in {"self", "this"})
Refers(refs, name) == \E k \in DOMAIN refs : refs[k].name = name
Binds(p, st, name) == name \in ToSet(Where(p, st).binds)
TopBinds(p, u, name) ==
  \E k \in DOMAIN p[u].stmts : p[u].stmts[k].scope = 0 /\ name \in ToSet(p[u].stmts[k].binds)
Shares(p, other, home, name) ==
  p[other].path = p[home].path \/ name \in p[other].imports \/ Constant(name)

\* A defect: a name is only used in its own unit.
UsersAtHome(p, name, def) ==
  Stmts(p, LAMBDA st : st # def /\ st[1] = def[1] /\ Refers(Where(p, st).refs, name))

\* Program.users: the statements that use a name a statement binds.
After(p, st, def) ==
  /\ ScopeOf(p, st) # 0 /\ Within(p[def[1]], ScopeOf(p, st), ScopeOf(p, def))
  /\ Where(p, st).from > Where(p, def).from
Users(p, name, def) ==
  LET global == Wide(p, name, def)
      searched(u) == u = def[1] \/ (global /\ Shares(p, u, def[1], name) /\ ~TopBinds(p, u, name))
  IN  Stmts(p, LAMBDA st : searched(st[1]) /\ st # def /\ Refers(Where(p, st).refs, name)
                             /\ (global \/ After(p, st, def)))

\* Program.definition: the last binding before a use in its unit, else the first
\* at the top of a unit that shares the name.
Visible(p, st, at) ==
  \/ p[at[1]].lang = "shell" \/ ScopeOf(p, st) = 0
  \/ ScopeOf(p, at) # 0 /\ Within(p[at[1]], ScopeOf(p, at), ScopeOf(p, st))
Local(p, name, at) ==
  LET before(st) == Where(p, st).from < Where(p, at).from
      found == Stmts(p, LAMBDA st : /\ st[1] = at[1] /\ st # at /\ Binds(p, st, name)
                                    /\ Visible(p, st, at) /\ (before(st) \/ ScopeOf(p, st) = 0))
  IN  InTurn(LAMBDA best, st : IF best = << >> \/ before(st) THEN st ELSE best, << >>, found)
Elsewhere(p, name, at) ==
  Stmts(p, LAMBDA st : /\ st[1] # at[1] /\ Shares(p, st[1], at[1], name)
                       /\ ScopeOf(p, st) = 0 /\ Binds(p, st, name))
Definition(p, name, at) ==
  IF Local(p, name, at) # << >> THEN {Local(p, name, at)}
  ELSE IF Elsewhere(p, name, at) # << >> THEN {Elsewhere(p, name, at)[1]} ELSE {}

\* Program.param: the function a name is a parameter of, and which.
RECURSIVE ParamOf(_, _, _, _)
ParamOf(p, u, f, name) ==
  IF f = 0 THEN {}
  ELSE LET params == p[u].funcs[f].params
       IN  IF name \in ToSet(params)
           THEN {<<<<u, f>>, SelectInSeq(params, LAMBDA x : x = name)>>}
           ELSE ParamOf(p, u, p[u].funcs[f].parent, name)

Funcs(p, name) ==
  SelectSeq(FlattenSeq([u \in DOMAIN p |-> [f \in DOMAIN p[u].funcs |-> <<u, f>>]]),
            LAMBDA f : name # Nobody /\ FuncAt(p, f).name = name)
TargetOf(p, callee) ==
  IF callee = Nobody \/ Funcs(p, <<Last(callee)>>) = << >> THEN {}
  ELSE {Funcs(p, <<Last(callee)>>)[1]}

CallSites(p, f) ==
  LET all == FlattenSeq([k \in DOMAIN Stmts(p, LAMBDA st : TRUE) |->
               SelectSeq(CallsIn(p, Stmts(p, LAMBDA st : TRUE)[k]),
                         LAMBDA c : TargetOf(p, CallAt(p, c).callee) = {f})])
  IN  IF FuncAt(p, f).name = Nobody THEN << >>
      ELSE SubSeq(all, 1, IF Len(all) < MaxCallSites THEN Len(all) ELSE MaxCallSites)

\* program.go's argument: the one named like the parameter, or in its position,
\* whichever comes first.
ArgumentOf(call, f, index) ==
  LET offset == IF f.params # << >> /\ f.params[1] \in {<<"self">>, <<"cls">>} THEN 1 ELSE 0
      named(a) == a.name # "" /\ a.name \notin Options
      before(k) == Len(SelectSeq(SubSeq(call.args, 1, k - 1), LAMBDA a : ~named(a)))
      fits(k) == LET a == call.args[k]
                 IN  IF named(a) THEN f.params[index] = <<a.name>>
                     ELSE before(k) = index - 1 - offset
      found == {k \in DOMAIN call.args : fits(k)}
  IN  IF found = {} THEN {} ELSE {call.args[CHOOSE k \in found : \A j \in found : k <= j]}

-----------------------------------------------------------------------------
(* A trace at work: t is [budget, seen, truncated, calls, fed].              *)

Begun == [budget |-> MaxNodes, seen |-> {}, truncated |-> FALSE, calls |-> << >>, fed |-> {}]

Spent(t) == t.budget <= 0
Spend(t) == IF Spent(t) THEN [t EXCEPT !.truncated = TRUE] ELSE [t EXCEPT !.budget = @ - 1]
TooDeep(depth) == depth > MaxDepth
Cut(t) == [t EXCEPT !.truncated = TRUE]
See(t, key) == [t EXCEPT !.seen = @ \cup {key}]

\* backward.go: where what call c takes comes from.
RECURSIVE Origin(_, _, _, _, _, _), Sources(_, _, _, _, _, _)

\* Each name of an expression once, in the order of its uses.
NamesOf(refs) ==
  InTurn(LAMBDA names, r : IF r.name \in ToSet(names) THEN names ELSE Append(names, r.name),
           << >>, refs)
Sources(p, t, c, refs, at, depth) ==
  InTurn(LAMBDA s, name : Origin(p, s, c, name, at, depth), t, NamesOf(refs))

Fed(t, c, st) == [t EXCEPT !.fed = @ \cup {<<c, st>>}]

\* tracer.passed: the argument at a call of the function, or a shell's "$@".
Spread(call) ==
  SelectSeq(call.args, LAMBDA a : \E k \in DOMAIN a.refs : a.refs[k].name \in ToSet(ShellAll))
Passed(p, t, c, site, f, index, depth) ==
  LET call == CallAt(p, site)
      own == ArgumentOf(call, FuncAt(p, f), index)
      arg == IF own # {} THEN own ELSE IF Spread(call) # << >> THEN {Spread(call)[1]} ELSE {}
      seen == Fed(t, c, StmtOf(site))
  IN  IF arg = {} THEN seen
      ELSE Sources(p, seen, c, (CHOOSE a \in arg : TRUE).refs, StmtOf(site), depth)

OriginIn(p, t, c, name, at, depth) ==
  LET def == Definition(p, name, at)
      param == ParamOf(p, at[1], ScopeOf(p, at), name)
  IN  IF def # {}
      THEN LET st == CHOOSE x \in def : TRUE
           IN  Sources(p, Fed(t, c, st), c, Where(p, st).refs, st, depth + 1)
      ELSE IF param = {} THEN t
      ELSE LET of == CHOOSE x \in param : TRUE
           IN  InTurn(LAMBDA s, site : Passed(p, s, c, site, of[1], of[2], depth + 1),
                        t, CallSites(p, of[1]))
Origin(p, t, c, name, at, depth) ==
  IF name \in p[at[1]].imports \/ Funcs(p, name) # << >> \/ TooDeep(depth) THEN t
  ELSE IF Spent(t) THEN Spend(t)
  ELSE OriginIn(p, Spend(t), c, name, at, depth)

CallNode(p, t, c) ==
  LET call == CallAt(p, c)
      listed == [t EXCEPT !.calls = Append(@, c)]
      received == IF call.receiver = Nobody THEN listed
                  ELSE Origin(p, listed, c, call.receiver, StmtOf(c), 0)
  IN  InTurn(LAMBDA s, a : Sources(p, s, c, a.refs, StmtOf(c), 0), received, call.args)

-----------------------------------------------------------------------------
(* forward.go *)

RECURSIVE Flow(_, _, _, _, _), Follow(_, _, _, _, _), Bound(_, _, _, _), Chain(_, _, _, _, _, _),
          Into(_, _, _, _, _, _)

\* The offsets at which a statement uses one of the names.
OffsetsOf(p, st, names) ==
  LET refs == SelectSeq(Where(p, st).refs, LAMBDA r : r.name \in names)
  IN  [k \in DOMAIN refs |-> refs[k].from]

\* tracer.flow: a call that two places lead to is followed for the first.
Flow(p, t, st, offsets, depth) ==
  LET step(acc, at) ==
        LET chain == Consumers(p, st, at)
        IN  CASE chain = << >> -> [acc EXCEPT !.free = TRUE]
              [] chain # << >> /\ chain[1] \in acc.done -> acc
              [] OTHER -> [t |-> Chain(p, acc.t, chain, st, at, depth),
                           free |-> acc.free, done |-> acc.done \cup {chain[1]}]
      all == InTurn(step, [t |-> t, free |-> FALSE, done |-> {}], offsets)
  IN  IF all.free THEN Bound(p, all.t, st, depth) ELSE all.t

\* tracer.chain: the calls from the inside out, until nothing is left to spend.
Chain(p, t, calls, st, at, depth) ==
  LET enter(s, c) ==
        InTurn(LAMBDA r, f : Into(p, r, f, c, at, depth), s,
                 SetToSeq(TargetOf(p, CallAt(p, c).callee)))
      step(acc, c) ==
        IF acc.over THEN acc
        ELSE IF Spent(acc.t) THEN [acc EXCEPT !.t = Spend(@), !.over = TRUE]
        ELSE [t |-> enter(CallNode(p, Spend(acc.t), c), c), any |-> TRUE, over |-> FALSE]
      all == InTurn(step, [t |-> t, any |-> FALSE, over |-> FALSE], calls)
  IN  IF all.any THEN Bound(p, all.t, st, depth) ELSE all.t

\* tracer.returned: on to the statements that call the function.
Returned(p, t, st, depth) ==
  LET f == <<st[1], ScopeOf(p, st)>>
      step(s, site) ==
        LET key == <<StmtOf(site), FuncAt(p, f).name>>
        IN  IF key \in s.seen THEN s
            ELSE Flow(p, See(s, key), StmtOf(site), <<CallAt(p, site).from>>, depth + 1)
  IN  InTurn(step, t, CallSites(p, f))

\* tracer.bound: what the statement returns, and the names it saves it as.
Bound(p, t, st, depth) ==
  LET returned == IF Where(p, st).ret /\ ScopeOf(p, st) # 0 THEN Returned(p, t, st, depth) ELSE t
      save(s, name) == IF Spent(s) THEN Spend(s) ELSE Follow(p, Spend(s), name, st, depth + 1)
  IN  InTurn(save, returned, Where(p, st).binds)

Follow(p, t, name, def, depth) ==
  LET use(s, st) == IF <<st, name>> \in s.seen THEN s
                    ELSE Flow(p, See(s, <<st, name>>), st, OffsetsOf(p, st, {name}), depth)
  IN  IF TooDeep(depth) THEN Cut(t) ELSE InTurn(use, t, Users(p, name, def))

\* tracer.into: a value an own function takes, under the names of its parameters.
Into(p, t, f, c, at, depth) ==
  LET func == FuncAt(p, f)
      taken == SelectSeq([k \in DOMAIN func.params |-> k],
                 LAMBDA k : \E a \in ArgumentOf(CallAt(p, c), func, k) : InSpan(a, at))
      names == {func.params[taken[k]] : k \in DOMAIN taken}
                 \cup (IF p[f[1]].lang = "shell" THEN ToSet(ShellAll) ELSE {})
      key(st) == <<st, func.params[taken[1]]>>
      inside == Stmts(p, LAMBDA st : /\ st[1] = f[1] /\ ScopeOf(p, st) # 0
                                     /\ Within(p[f[1]], ScopeOf(p, st), f[2])
                                     /\ OffsetsOf(p, st, names) # << >>)
      step(s, st) == IF key(st) \in s.seen THEN s
                     ELSE Flow(p, See(s, key(st)), st, OffsetsOf(p, st, names), depth + 1)
  IN  IF taken = << >> THEN t
      ELSE IF TooDeep(depth) THEN Cut(t)
      ELSE IF Spent(t) THEN Spend(t)
      ELSE InTurn(step, Spend(t), inside)

\* Program.Trace: the call of a subject, or the way of its value; a match that
\* leads nowhere, so that nothing is spent, is followed as the constant it spells.
Shouted(p, s) ==
  NamesOf(SelectSeq(Where(p, s.stmt).refs, LAMBDA r :
            Constant(r.name) /\ r.from < s.to /\ s.at < r.to))
TraceOf(p, s) ==
  IF s.call # {} THEN CallNode(p, Begun, CHOOSE c \in s.call : TRUE)
  ELSE LET t == Flow(p, Begun, s.stmt, <<s.at>>, 0)
       IN  IF t.budget < MaxNodes THEN t
           ELSE InTurn(LAMBDA r, name : Follow(p, r, name, s.stmt, 0), t, Shouted(p, s))

-----------------------------------------------------------------------------
\* The program of scripts, as the decision layer takes it: what is asked of it.
Parsed(parts) == [k \in DOMAIN parts |-> Lowered(parts[k])]
Listed(p, t) == {<<c[1], CallAt(p, c).from, CallAt(p, c).to>> : c \in ToSet(t.calls)}
ProgramOf(p, asks) ==
  LET subjects == UNION {SubjectAt(p, a) : a \in asks}
      traced(t) == [calls |-> Listed(p, t), truncated |-> t.truncated]
  IN  [at |-> [a \in asks |-> SubjectAt(p, a)], key |-> [s \in subjects |-> PlaceKey(p, s)],
       trace |-> [s \in subjects |-> traced(TraceOf(p, s))]]
=============================================================================
