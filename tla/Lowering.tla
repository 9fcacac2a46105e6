------------------------------ MODULE Lowering ------------------------------
(***************************************************************************)
(* How the syntax tree of a script becomes the statements a trace walks    *)
(* over (code/lower.go, code/collect.go, code/model.go).  Operators only;  *)
(* Trace follows values through what they build.                           *)
(*                                                                         *)
(* A node is [kind, field, text, from, to, bad, kids]: its kind is the     *)
(* class its language puts it in (specs.go), its field the part it plays   *)
(* in its parent, and punctuation is left out.  A name is a tuple, so that *)
(* self.x is <<"self", "x">>; the empty tuple is no name.  A scope is the  *)
(* number of a function, 0 outside all of them.  Everything that is built  *)
(* goes into a unit, handed from node to node in the order of the code.    *)
(***************************************************************************)
EXTENDS Integers, FiniteSets, SequencesExt

CONSTANTS
  Capitals,   \* the words that are constants: capitals, four or more
  Selves      \* self, cls and this

Nobody == << >>
Simple == {"simple", "import", "return"}
Members == {"member", "index"}

Has(n, field) == \E k \in DOMAIN n.kids : n.kids[k].field = field
Child(n, field) == n.kids[SelectInSeq(n.kids, LAMBDA c : c.field = field)]
Without(n, kind) == SelectSeq(n.kids, LAMBDA c : c.kind # kind)
Constant(name) == Len(name) = 1 /\ name[1] \in Capitals

NewUnit(path, lang) ==
  [path |-> path, lang |-> lang, funcs |-> << >>, stmts |-> << >>,
   comments |-> {}, broken |-> {}, imports |-> {}]

\* From one to the next in order: what a step leaves is where the next begins.
InTurn(Step(_, _), start, seq) ==
  LET after[k \in 0..Len(seq)] ==
        IF k = 0 THEN start ELSE CHOOSE r \in {Step(g, seq[k]) : g \in {after[k - 1]}} : TRUE
  IN  after[Len(seq)]

Span(n) == [from |-> n.from, to |-> n.to]
Overlaps(s, t) == s.from < t.to /\ t.from < s.to
BrokenAt(u, s) == \E b \in u.broken : Overlaps(b, s)

\* Func.Within: a function or one it is nested in; everything is within no function.
RECURSIVE Within(_, _, _)
Within(u, f, outer) ==
  f = outer \/ outer = 0 \/ (f # 0 /\ Within(u, u.funcs[f].parent, outer))

\* lowerer.add: a statement, to be filled in by what follows.
Add(u, span, scope) ==
  [u EXCEPT !.stmts = Append(@, [from |-> span.from, to |-> span.to, scope |-> scope, ret |-> FALSE,
                                 binds |-> << >>, refs |-> << >>, calls |-> << >>])]
Added(u) == Len(u.stmts)

MarkBroken(u, n) == IF n.bad THEN [u EXCEPT !.broken = @ \cup {Span(n)}] ELSE u

-----------------------------------------------------------------------------
(* Names. *)

RECURSIVE Base(_), Spelled(_), Innermost(_)

\* lowerer.chain: what a chain of members hangs on, and the name it goes by:
\* that of its head, with the first property for self.
Base(n) == IF n.kind \in Members /\ Has(n, "object") THEN Base(Child(n, "object")) ELSE n
Innermost(n) == IF Child(n, "object").kind \in Members THEN Innermost(Child(n, "object")) ELSE n

OfSelf(n) ==
  /\ n.kind \in Members /\ Base(n).text \in Selves
  /\ Innermost(n).kind = "member" /\ Has(Innermost(n), "property")
ChainName(n) ==
  IF Base(n).kind # "ident" THEN Nobody
  ELSE IF OfSelf(n) THEN <<Base(n).text, Child(Innermost(n), "property").text>>
  ELSE <<Base(n).text>>

\* The text of an expression that is called or defined, part by part.
Spelled(n) ==
  CASE n.kind = "member" -> Spelled(Child(n, "object")) \o <<Child(n, "property").text>>
    [] n.kind = "index"  -> Spelled(Child(n, "object"))
    [] OTHER             -> <<n.text>>

RECURSIVE Idents(_), FirstIdent(_)
Ident(n) == n.kind \in {"ident", "shorthand_pattern"}
Idents(n) ==
  IF n.kind = "skipped" THEN << >>
  ELSE (IF Ident(n) THEN <<<<n.text>>>> ELSE << >>)
         \o FlattenSeq([k \in DOMAIN n.kids |-> Idents(n.kids[k])])

\* lowerer.targets: the names an assignment to a node binds.
BoundBy(left) ==
  IF left.kind \in Members THEN (IF ChainName(left) = Nobody THEN << >> ELSE <<ChainName(left)>>)
  ELSE Idents(left)

FirstIdent(n) ==
  IF n.kind = "skipped" \/ n.field \in {"value", "right"} THEN Nobody
  ELSE IF Ident(n) THEN <<n.text>>
  ELSE LET found == SelectSeq([k \in DOMAIN n.kids |-> FirstIdent(n.kids[k])], LAMBDA x : x # Nobody)
       IN  IF found = << >> THEN Nobody ELSE found[1]

ParamsOf(n) ==
  IF n.kind = "ident" THEN <<<<n.text>>>>
  ELSE [k \in DOMAIN Without(n, "comment") |-> FirstIdent(Without(n, "comment")[k])]

\* lowerer.callee and the receiver of a method.
Callee(fn) ==
  CASE fn.kind = "ident" -> <<fn.text>>
    [] fn.kind = "member" ->
         IF ChainName(fn) = Nobody THEN <<Child(fn, "property").text>> ELSE Spelled(fn)
    [] OTHER -> Nobody
Receiver(fn) == IF fn.kind = "member" THEN ChainName(fn) ELSE Nobody

-----------------------------------------------------------------------------
(* Expressions: g is [u, s, refs, locals], the unit, the statement at hand,  *)
(* the names used so far and those a comprehension binds.                    *)

RECURSIVE Gather(_, _), Collect(_, _, _), LowerCall(_, _), LowerFunction(_, _, _, _),
          LowerBlock(_, _, _), Statement(_, _, _)

GatherAll(g, nodes) == InTurn(Gather, g, nodes)
Use(g, name, n) == [g EXCEPT !.refs = Append(@, [name |-> name, from |-> n.from, to |-> n.to])]

Collect(u, s, n) ==
  LET g == Gather([u |-> u, s |-> s, refs |-> << >>, locals |-> {}], n)
  IN  [u |-> g.u, expr |-> [from |-> n.from, to |-> n.to,
                            refs |-> SelectSeq(g.refs, LAMBDA r : r.name \notin g.locals)]]

GatherMember(g, n) ==
  LET named == IF ChainName(n) # Nobody THEN Use(g, ChainName(n), n) ELSE Gather(g, Base(n))
      property(h) == IF ~Has(n, "property") THEN h
                     ELSE IF n.kind = "index" THEN Gather(h, Child(n, "property"))
                     ELSE IF Constant(<<Child(n, "property").text>>)
                       THEN Use(h, <<Child(n, "property").text>>, Child(n, "property"))
                     ELSE h
      RECURSIVE inner(_, _)
      inner(h, at) == IF at.kind \notin Members THEN h
                      ELSE LET own == IF at.kind = "index" /\ Has(at, "property")
                                      THEN Gather(h, Child(at, "property")) ELSE h
                           IN  IF Has(at, "object") THEN inner(own, Child(at, "object")) ELSE own
  IN  IF Has(n, "object") THEN inner(property(named), Child(n, "object")) ELSE property(named)

GatherKids(g, n) ==
  InTurn(LAMBDA h, c : IF n.kind = "comprehension" /\ c.field = "left"
                         THEN [h EXCEPT !.locals = @ \cup ToSet(BoundBy(c))] ELSE Gather(h, c),
           g, n.kids)

\* lowerer.gather and leaf: a broken node is noted and gathered all the same.
Gather(g0, n) ==
  LET g == [g0 EXCEPT !.u = MarkBroken(@, n)]
  IN  CASE ~n.bad /\ n.kind = "comment" -> [g EXCEPT !.u.comments = @ \cup {Span(n)}]
        [] ~n.bad /\ n.kind = "skipped" -> g
        [] ~n.bad /\ n.kind = "function" ->
             [g EXCEPT !.u = LowerFunction(@, n, g.u.stmts[g.s].scope, Nobody)]
        [] ~n.bad /\ n.kind \in {"ident", "shorthand"} -> Use(g, <<n.text>>, n)
        [] ~n.bad /\ n.kind = "string" ->
             GatherAll(g, SelectSeq(n.kids, LAMBDA c : c.kind # "fragment"))
        [] n.kind = "call" -> LowerCall(g, n)
        [] n.kind \in Members -> GatherMember(g, n)
        [] n.kind \in {"keyword", "pair"} ->
             IF Has(n, "value") THEN Gather(g, Child(n, "value")) ELSE g
        [] OTHER -> GatherKids(g, n)

\* lowerer.args: an object is an argument per entry.
ArgNodes(a) ==
  LET arg(name, node) == [name |-> name, node |-> node]
      entry(p) == IF Has(p, "key") /\ Has(p, "value")
                  THEN arg(Child(p, "key").text, Child(p, "value")) ELSE arg(p.text, p)
  IN  CASE a.kind = "keyword" /\ Has(a, "value") -> <<arg(Child(a, "name").text, Child(a, "value"))>>
        [] a.kind = "object" -> [k \in DOMAIN Without(a, "comment") |-> entry(Without(a, "comment")[k])]
        [] OTHER -> <<arg("", a)>>

\* One argument of call number c, collected by itself and merged.
TakeArg(g, c, arg) ==
  LET got == Collect(g.u, g.s, arg.node)
  IN  [g EXCEPT !.u = [got.u EXCEPT !.stmts[g.s].calls[c].args =
                         Append(@, [name |-> arg.name, from |-> got.expr.from, to |-> got.expr.to,
                                    refs |-> got.expr.refs])],
                !.refs = @ \o got.expr.refs]

LowerCall(g, n) ==
  LET known == Has(n, "function")
      fn == Child(n, "function")
      call == [from |-> n.from, to |-> n.to, args |-> << >>,
               callee |-> IF known THEN Callee(fn) ELSE Nobody,
               receiver |-> IF known THEN Receiver(fn) ELSE Nobody]
      begun == [g EXCEPT !.u.stmts[g.s].calls = Append(@, call)]
      c == Len(begun.u.stmts[g.s].calls)
      through == CASE ~known -> begun
                   [] known /\ call.receiver # Nobody -> Use(begun, call.receiver, fn)
                   [] known /\ call.receiver = Nobody /\ fn.kind # "ident" -> Gather(begun, fn)
                   [] OTHER -> begun
      args == IF Has(n, "arguments")
              THEN FlattenSeq([k \in DOMAIN Without(Child(n, "arguments"), "comment") |->
                     ArgNodes(Without(Child(n, "arguments"), "comment")[k])])
              ELSE << >>
  IN  InTurn(LAMBDA h, a : TakeArg(h, c, a), through, args)

-----------------------------------------------------------------------------
(* Statements. *)

\* The value of statement s is what node n uses.
Valued(u, s, n) ==
  LET got == Collect(u, s, n) IN [got.u EXCEPT !.stmts[s].refs = got.expr.refs]
Binding(u, s, names) == [u EXCEPT !.stmts[s].binds = @ \o names]

LowerExpression(u0, n, whole, scope) ==
  LET u == Add(u0, Span(whole), scope)
      s == Added(u)
  IN  IF n.kind = "alias" /\ Len(n.kids) = 2
      THEN Valued(Binding(u, s, BoundBy(n.kids[2])), s, n.kids[1])
      ELSE Valued([u EXCEPT !.stmts[s].ret = n.kind = "return"], s, n)

\* lowerer.chained: a = b = value binds both.
Assigns(n) == n.kind \in {"assign", "augmented"}
RECURSIVE Chained(_)
Chained(right) ==
  IF Assigns(right) /\ Has(right, "left") /\ Has(right, "right")
  THEN LET rest == Chained(Child(right, "right"))
       IN  [binds |-> BoundBy(Child(right, "left")) \o rest.binds, value |-> rest.value]
  ELSE [binds |-> << >>, value |-> right]

Required(u, s) ==
  LET st == u.stmts[s]
  IN  IF st.calls # << >> /\ st.calls[1].callee = <<"require">>
      THEN [u EXCEPT !.imports = @ \cup ToSet(st.binds)] ELSE u

LowerAssign(u0, n, whole, scope) ==
  IF ~Has(n, "left") \/ ~Has(n, "right") THEN u0
  ELSE IF Child(n, "right").kind = "function"
  THEN LowerFunction(u0, Child(n, "right"), scope, Spelled(Child(n, "left")))
  ELSE LET u == Add(u0, Span(whole), scope)
           s == Added(u)
           chain == Chained(Child(n, "right"))
           bound == Binding(u, s, BoundBy(Child(n, "left")) \o chain.binds)
       IN  Required(Valued(bound, s, IF n.kind = "augmented" THEN n ELSE chain.value), s)

RECURSIVE AllIdents(_)
AllIdents(n) == (IF n.kind = "ident" THEN {<<n.text>>} ELSE {})
                  \cup UNION {AllIdents(n.kids[k]) : k \in DOMAIN n.kids}

LowerSimple(u, n, scope) ==
  LET assigned == SelectSeq(n.kids, Assigns)
  IN  CASE n.kind = "import" -> [u EXCEPT !.imports = @ \cup AllIdents(n)]
        [] n.kind # "import" /\ assigned # << >> ->
             InTurn(LAMBDA v, c : LowerAssign(v, c, n, scope), u, assigned)
        [] OTHER -> LowerExpression(u, n, n, scope)

\* lowerer.loop: the header is a statement of its own.
LowerLoop(u0, n, scope) ==
  LET headed == Has(n, "left") /\ Has(n, "right")
      left == Child(n, "left")
      right == Child(n, "right")
      u == Add(u0, [from |-> left.from, to |-> right.to], scope)
      header == IF headed THEN Valued(Binding(u, Added(u), BoundBy(left)), Added(u), right) ELSE u0
      rest == SelectSeq(n.kids, LAMBDA c : ~headed \/ c \notin {left, right})
  IN  InTurn(LAMBDA v, c : Statement(v, c, scope), header, rest)

LowerFunction(u0, n, scope, name) ==
  LET f == [name |-> IF name # Nobody THEN name
                     ELSE IF Has(n, "name") THEN <<Child(n, "name").text>> ELSE Nobody,
            params |-> IF Has(n, "parameters") THEN ParamsOf(Child(n, "parameters")) ELSE << >>,
            parent |-> scope]
      u == [u0 EXCEPT !.funcs = Append(@, f)]
      me == Len(u.funcs)
      body == Child(n, "body")
      one == Add(u, Span(body), me)
  IN  CASE ~Has(n, "body") -> u
        [] Has(n, "body") /\ body.kind = "block" -> LowerBlock(u, body, me)
        [] OTHER -> Valued([one EXCEPT !.stmts[Added(one)].ret = TRUE], Added(one), body)

Docstring(n) ==
  n.kind = "string" \/ (n.kind \in Simple /\ Len(n.kids) = 1 /\ n.kids[1].kind = "string")
LowerBlock(u, n, scope) ==
  InTurn(LAMBDA v, k :
             IF k = 1 /\ u.lang = "python" /\ Docstring(n.kids[k])
             THEN [v EXCEPT !.comments = @ \cup {Span(n.kids[k])}]
             ELSE Statement(v, n.kids[k], scope),
           u, [k \in DOMAIN n.kids |-> k])

Compound(n) == \E k \in DOMAIN n.kids : n.kids[k].kind \in {"block", "function"} \cup Simple
Statement(u, n, scope) ==
  CASE n.bad -> MarkBroken(u, n)
    [] ~n.bad /\ n.kind = "comment" -> [u EXCEPT !.comments = @ \cup {Span(n)}]
    [] ~n.bad /\ n.kind = "function" -> LowerFunction(u, n, scope, Nobody)
    [] ~n.bad /\ n.kind = "block" -> LowerBlock(u, n, scope)
    [] ~n.bad /\ n.kind \in Simple -> LowerSimple(u, n, scope)
    [] ~n.bad /\ Assigns(n) -> LowerAssign(u, n, n, scope)
    [] ~n.bad /\ n.kind = "loop" -> LowerLoop(u, n, scope)
    [] ~n.bad /\ n.kind \notin {"comment", "function", "block", "loop"} \cup Simple
         /\ ~Assigns(n) /\ Compound(n) ->
         InTurn(LAMBDA v, c : Statement(v, c, scope), u, n.kids)
    [] OTHER -> LowerExpression(u, n, n, scope)

\* Parser.Parse of a script: a tree without a root is broken as a whole.
Lowered(part) ==
  LET u == NewUnit(part.path, part.lang)
  IN  IF part.tree = {} THEN [u EXCEPT !.broken = {part.span}]
      ELSE LowerBlock(u, CHOOSE n \in part.tree : TRUE, 0)
=============================================================================
