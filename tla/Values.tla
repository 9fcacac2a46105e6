------------------------------- MODULE Values -------------------------------
(***************************************************************************)
(* Where a value goes, read off the syntax trees of a skill: what          *)
(* docs/user/detection.md promises of a trace ("the value is stored under  *)
(* a name, that name is used in other statements, and some of those uses   *)
(* are calls; every call that takes the value is listed").  No statements, *)
(* no order of work, no budget: a place is <<part, path>>, a path leads    *)
(* from the root of a part's tree from child to child, and Reach is the    *)
(* least set of places the value comes to.  T maps the places to their     *)
(* nodes, paths the parts to their files.                                  *)
(***************************************************************************)
EXTENDS Trace

RECURSIVE Places(_, _), NodeAt(_, _)
Places(n, place) ==
  {place} \cup UNION {Places(n.kids[k], <<place[1], Append(place[2], k)>>) : k \in DOMAIN n.kids}
NodeAt(n, path) == IF path = << >> THEN n ELSE NodeAt(n.kids[Head(path)], Tail(path))
TreeOf(parts) ==
  LET root(k) == CHOOSE n \in parts[k].tree : TRUE
      parsed == {k \in DOMAIN parts : parts[k].tree # {}}
  IN  [x \in UNION {Places(root(k), <<k, << >>>>) : k \in parsed} |-> NodeAt(root(x[1]), x[2])]

Above(x) == {<<x[1], SubSeq(x[2], 1, j)>> : j \in 0..(Len(x[2]) - 1)}
Kid(x, k) == <<x[1], Append(x[2], k)>>
Field(T, x, field) == Kid(x, SelectInSeq(T[x].kids, LAMBDA c : c.field = field))
Under(x, y) == x = y \/ y \in Above(x)
UnderField(T, x, y, field) == Has(T[y], field) /\ Under(x, Field(T, y, field))
Function(T, x) ==
  LET fs == {y \in Above(x) : T[y].kind = "function"}
  IN  {y \in fs : \A z \in fs : Len(z[2]) <= Len(y[2])}

\* What is above a place in the same function.
Around(T, x, kinds) ==
  {y \in Above(x) : T[y].kind \in kinds /\ Function(T, y) = Function(T, x)}

-----------------------------------------------------------------------------
(* Names in use. *)

NameAt(T, x) ==
  IF /\ T[x].text \in Selves /\ x[2] # << >> /\ T[x].field = "object"
     /\ T[<<x[1], Front(x[2])>>].kind = "member"
  THEN <<T[x].text, Child(T[<<x[1], Front(x[2])>>], "property").text>> ELSE <<T[x].text>>

\* A comprehension below y binds the name of x, and x is not what it runs over.
HiddenBelow(T, x, y) ==
  \E k \in DOMAIN T[y].kids :
    /\ T[y].kids[k].kind = "comprehension"
    /\ NameAt(T, x) \in ToSet(BoundBy(Child(T[y].kids[k], "left")))
    /\ ~UnderField(T, x, Kid(y, k), "right")

\* A name is used where it is written, but not where it is bound, or names a
\* property, an argument, a key, a function or a parameter, and not in a
\* statement with a syntax error ("a place with a syntax error gets no trace").
Used(T, x) ==
  LET bound(y) == T[y].kind \in {"assign", "loop", "comprehension"} /\ UnderField(T, x, y, "left")
      aside(y) == \/ T[y].kind \in {"import", "skipped", "comment"}
                  \/ UnderField(T, x, y, "parameters")
                  \/ T[y].kind = "alias" /\ Under(x, Kid(y, 2))
                  \/ T[y].bad /\ T[<<y[1], Front(y[2])>>].kind = "block"
  IN  /\ T[x].kind = "ident" /\ T[x].field \notin {"property", "name", "key"}
      /\ \A y \in Above(x) : ~bound(y) /\ ~aside(y) /\ ~HiddenBelow(T, x, y)
\* A constant counts wherever it is spelled.
Spells(T, x) == T[x].kind = "ident" /\ T[x].field = "property" /\ Constant(<<T[x].text>>)

UsesOf(T, name) ==
  {x \in DOMAIN T : (NameAt(T, x) = name /\ Used(T, x)) \/ (<<T[x].text>> = name /\ Spells(T, x))}

-----------------------------------------------------------------------------
(* One step of a value. *)

\* The assignments and loops that take it, and the names it gets there.
Takers(T, x) ==
  {y \in Around(T, x, {"assign", "augmented", "loop"}) : UnderField(T, x, y, "right")}
Aliased(T, x) == {y \in Around(T, x, {"alias"}) : Under(x, Kid(y, 1))}
NewNames(T, x) ==
  UNION {ToSet(BoundBy(Child(T[y], "left"))) : y \in Takers(T, x)}
    \cup UNION {ToSet(BoundBy(T[y].kids[2])) : y \in Aliased(T, x)}

TopNames(T, k) ==
  UNION {ToSet(BoundBy(Child(T[y], "left"))) :
           y \in {z \in DOMAIN T : z[1] = k /\ Function(T, z) = {}
                                     /\ T[z].kind \in {"assign", "augmented", "loop"}}}
Imported(T, k) ==
  UNION {AllIdents(T[y]) : y \in {z \in DOMAIN T : z[1] = k /\ T[z].kind = "import"}}

\* A name of the top level, or a field of an object, is seen everywhere in its
\* file, and where it is imported; another in its function from there on.
SeenAgain(T, paths, x, name) ==
  LET global == Function(T, x) = {} \/ (Len(name) = 2 /\ name[1] \in {"self", "this"})
      known(k) == paths[k] = paths[x[1]] \/ name \in Imported(T, k) \/ Constant(name)
      saved(y) == \E a \in Takers(T, x) : UnderField(T, y, a, "left") \/ UnderField(T, y, a, "right")
      seen(y) == IF y[1] # x[1] THEN global /\ known(y[1]) /\ name \notin TopNames(T, y[1])
                 ELSE global \/ (T[y].from > T[x].from /\ \E f \in Function(T, x) : Under(y, f))
  IN  {y \in UsesOf(T, name) : ~saved(y) /\ seen(y)}

CallsOf(T, x) == {c \in Around(T, x, {"call"}) : UnderField(T, x, c, "arguments")}

\* The functions of the skill that go by the name of a call, and their calls.
OwnFunctions(T, c) ==
  LET callee == Callee(Child(T[c], "function"))
      called(f) == /\ T[f].kind = "function" /\ Has(T[f], "name")
                   /\ Child(T[f], "name").text = Last(callee)
  IN  IF callee = Nobody THEN {} ELSE {f \in DOMAIN T : called(f)}
SitesOf(T, f) == {c \in DOMAIN T : T[c].kind = "call" /\ f \in OwnFunctions(T, c)}

\* The parameters of f that get x at call c: by name, or by position.
Passes(T, c, x, f) ==
  LET list == Field(T, c, "arguments")
      k == x[2][Len(list[2]) + 1]
      arg == T[Kid(list, k)]
      params == ParamsOf(Child(T[f], "parameters"))
      position == Cardinality({j \in 1..k : T[Kid(list, j)].kind # "keyword"})
  IN  IF arg.kind = "keyword" THEN {<<Child(arg, "name").text>>} \cap ToSet(params)
      ELSE {params[j] : j \in {position} \cap DOMAIN params}

Entered(T, x) ==
  UNION {{y \in UsesOf(T, name) : Under(y, f)} :
           <<f, name>> \in UNION {UNION {{f} \X Passes(T, c, x, f) : f \in OwnFunctions(T, c)} :
                                    c \in CallsOf(T, x)}}

ReturnedTo(T, x) ==
  UNION {SitesOf(T, f) : f \in
    {g \in Function(T, x) : Around(T, x, {"return"}) # {} \/ T[Field(T, g, "body")].kind # "block"}}

-----------------------------------------------------------------------------
(* The whole way. *)

RECURSIVE Closure(_, _, _, _)
Closure(T, paths, found, fresh) ==
  LET step(x) == UNION {SeenAgain(T, paths, x, name) : name \in NewNames(T, x)}
                   \cup Entered(T, x) \cup ReturnedTo(T, x)
      next == UNION {step(x) : x \in fresh} \ found
  IN  IF fresh = {} THEN found ELSE Closure(T, paths, found \cup next, next)

\* The smallest node at an offset of part k.
PlaceOf(T, k, offset) ==
  LET all == {x \in DOMAIN T : x[1] = k /\ InSpan(T[x], offset)}
  IN  CHOOSE x \in all : \A y \in all : Len(y[2]) <= Len(x[2])
Reach(T, paths, k, offset) ==
  LET start == {PlaceOf(T, k, offset)} IN Closure(T, paths, start, start)

\* The calls that take it, each by its part and span.
Owed(T, reach) ==
  {<<c[1], T[c].from, T[c].to>> : c \in UNION {CallsOf(T, x) : x \in reach}}

\* What a trace does without: a call that takes the value twice is followed into
\* its function for one of them, and of a function called all over the skill
\* only the first calls are followed.
TakenTwice(T, reach) ==
  \E c \in UNION {CallsOf(T, x) : x \in reach} :
    OwnFunctions(T, c) # {} /\ Cardinality({x \in reach : c \in CallsOf(T, x)}) > 1
Crowded(T) == \E f \in DOMAIN T : T[f].kind = "function" /\ Cardinality(SitesOf(T, f)) > MaxCallSites

\* The way of the values asked about.
WaysOf(parts, subjects) ==
  LET ways(T) ==
        LET reach(s) == Reach(T, [k \in DOMAIN parts |-> parts[k].path], s.stmt[1], s.at)
            way(r) == [owed |-> Owed(T, r), excused |-> TakenTwice(T, r) \/ Crowded(T)]
        IN  [s \in subjects |-> CHOOSE w \in {way(r) : r \in {reach(s)}} : TRUE]
  IN  CHOOSE w \in {ways(T) : T \in {TreeOf(parts)}} : TRUE
=============================================================================
