----------------------------- MODULE MCPrograms -----------------------------
(***************************************************************************)
(* Small scripts for Trace, as trees: constructors for nodes, the layout   *)
(* that gives every node its span, and families of scripts in which one    *)
(* literal, the secret, is stored, used, passed on and returned.           *)
(***************************************************************************)
EXTENDS Values

Node(kind, text, kids) ==
  [kind |-> kind, field |-> "", text |-> text, from |-> 0, to |-> 0, bad |-> FALSE, kids |-> kids]
As(field, n) == [n EXCEPT !.field = field]
Id(x) == Node("ident", x, << >>)
Str(kids) == Node("string", "", kids)
Literal == Str(<<Node("fragment", "", << >>)>>)
Member(o, p) == Node("member", "", <<As("object", o), As("property", Id(p))>>)
Index(o, i) == Node("index", "", <<As("object", o), As("property", i)>>)
CallTo(fn, args) ==
  Node("call", "", <<As("function", fn), As("arguments", Node("list", "", args))>>)
Apply(f, args) == CallTo(Id(f), args)
Keyword(name, v) == Node("keyword", "", <<As("name", Id(name)), As("value", v)>>)
Assign(l, r) == Node("assign", "", <<As("left", l), As("right", r)>>)
Augment(l, r) == Node("augmented", "", <<As("left", l), As("right", r)>>)
Do(n) == Node("simple", "", <<n>>)
Let(x, r) == Do(Assign(Id(x), r))
Send(e) == Do(Apply("send", <<e>>))
Yields(n) == Node("return", "", <<n>>)
Body(stmts) == Node("block", "", stmts)
Params(names) == Node("list", "", [k \in DOMAIN names |-> Id(names[k])])
Def(name, params, stmts) ==
  Node("function", "", <<As("name", Id(name)), As("parameters", Params(params)),
                         As("body", Body(stmts))>>)
Lambda(params, e) == Node("function", "", <<As("parameters", Params(params)), As("body", e)>>)
For(x, e, stmts) ==
  Node("loop", "", <<As("left", Id(x)), As("right", e), As("body", Body(stmts))>>)
Import(x) == Node("import", "", <<Id(x)>>)
ListOf(elt, x, e) ==
  Node("list", "", <<elt, Node("comprehension", "", <<As("left", Id(x)), As("right", e)>>)>>)
Opened(e, x, stmts) ==
  Node("other", "", <<Body(<<Body(<<Node("alias", "", <<e, Id(x)>>)>>)>>), Body(stmts)>>)
If(e, stmts) == Node("other", "", <<e, Body(stmts)>>)
Entry(key, v) == Node("pair", "", <<As("key", Id(key)), As("value", v)>>)
Object(entries) == Node("object", "", entries)
Comment == Node("comment", "", << >>)
Bad(n) == [Node("other", "", <<n>>) EXCEPT !.bad = TRUE]

\* Every leaf is one offset wide, and one offset lies between two nodes.
RECURSIVE Laid(_, _), LaidAll(_, _)
LaidAll(nodes, at) ==
  IF nodes = << >> THEN << >>
  ELSE LET first == Laid(Head(nodes), at) IN <<first>> \o LaidAll(Tail(nodes), first.to + 1)
Laid(n, at) ==
  LET kids == LaidAll(n.kids, at)
  IN  [n EXCEPT !.kids = kids, !.from = at,
                !.to = IF kids = << >> THEN at + 1 ELSE Last(kids).to + 1]

PartAt(path, stmts, at) ==
  [path |-> path, lang |-> "python", span |-> [from |-> at, to |-> at + 1],
   tree |-> {Laid(Body(stmts), at)}]
Python(stmts) == <<PartAt("a", stmts, 1)>>

\* Where the first literal of a script stands, and the first call.
RECURSIVE FirstOf(_, _)
FirstOf(n, kind) ==
  IF n.kind = kind THEN {n.from}
  ELSE LET found == UNION {FirstOf(n.kids[k], kind) : k \in DOMAIN n.kids}
       IN  IF found = {} THEN {} ELSE {CHOOSE o \in found : \A q \in found : o <= q}
MatchAt(at) == [from |-> at, to |-> at + 1]
FirstIn(parts, kind) ==
  MatchAt(CHOOSE o \in UNION {FirstOf(n, kind) : n \in parts[1].tree} : TRUE)

-----------------------------------------------------------------------------
(* How the secret is stored, and what is done with its name. *)

Stored ==
  <<Let("x", Literal), Let("x", Apply("read", <<Literal>>)),
   Do(Assign(Id("x"), Assign(Id("y"), Literal))), Do(Assign(Member(Id("self"), "x"), Literal)),
   Do(Assign(Index(Id("x"), Id("y")), Literal)), For("x", Literal, <<Send(Id("x"))>>),
   Opened(Apply("open", <<Literal>>), "x", <<Send(Id("x"))>>), Do(Augment(Id("x"), Literal)),
   Let("KEYS", Literal)>>

Passed1 ==
  <<Let("y", Member(Id("x"), "p")), Let("y", Apply("f", <<Id("z"), Id("x")>>)),
   Do(Apply("f", <<Keyword("b", Id("x"))>>)), Do(Apply("f", <<Id("x"), Id("x")>>)),
   Let("x", Apply("g", <<Apply("h", <<Id("x")>>), Id("x")>>)),
   Do(Augment(Id("y"), Id("x"))), Let("y", Literal),
   Do(CallTo(Member(Id("self"), "run"), <<Member(Id("self"), "x")>>)), Yields(Id("x"))>>

Used1 ==
  <<Send(Id("y")), Send(ListOf(Id("y"), "y", Id("x"))), Send(ListOf(Id("x"), "x", Id("z"))), Do(CallTo(Member(Id("x"), "write"), <<Id("y")>>)),
   Send(Lambda(<<"z">>, Apply("g", <<Id("x")>>))), If(Apply("t", <<Id("x")>>), <<Send(Id("y"))>>),
   Send(Member(Id("c"), "KEYS")), Send(Str(<<Node("other", "", <<Id("x")>>)>>)),
   Do(Apply("put", <<Object(<<Entry("k", Id("x")), Comment>>)>>)), Bad(Apply("send", <<Id("x")>>))>>

OwnF == Def("f", <<"a", "b">>,
            <<Send(Id("a")), Let("c", Id("b")), Yields(Apply("g", <<Id("c")>>))>>)

\* At the top of a script, in a function of its own, and over two scripts of
\* which the second imports the name.
AtTop(s, p, u) == Python(<<Import("os"), OwnF, s, p, u>>)
InMain(s, p, u) ==
  Python(<<OwnF, Def("main", <<"y">>, <<s, p, u>>), Do(Apply("main", <<Id("z")>>)),
           Let("w", Apply("main", << >>)), Send(Id("w"))>>)
OverParts(s, p, u) ==
  Python(<<OwnF, s>>) \o <<PartAt("b", <<Import("x"), p, u>>, 1), PartAt("a", <<p, u>>, 90),
                           PartAt("c", <<p, u>>, 1)>>
\* A sequence of the scripts a construction makes of the members of two.
Made2(Make(_, _), first, second) ==
  FlattenSeq([j \in DOMAIN first |-> [k \in DOMAIN second |-> Make(first[j], second[k])]])
Scripts ==
  Made2(LAMBDA s, p : AtTop(s, p, Send(Id("y"))), Stored, Passed1)
    \o Made2(LAMBDA s, p : InMain(s, p, Send(Id("y"))), Stored, Passed1)
    \o Made2(LAMBDA s, p : OverParts(s, p, Send(Id("y"))), Stored, Passed1)
    \o Made2(LAMBDA p, u : AtTop(Stored[1], p, u), Passed1, Used1)
    \o Made2(LAMBDA p, u : InMain(Stored[1], p, u), Passed1, Used1)
    \o Made2(LAMBDA p, u : OverParts(Stored[1], p, u), Passed1, Used1)
    \o Made2(LAMBDA s, u : InMain(s, Passed1[1], u), Stored, Used1)
=============================================================================
