------------------------------ MODULE MCIntake ------------------------------
(***************************************************************************)
(* Cases for Intake: small folders with every limit at its edge, a file    *)
(* that grows between its measure and its reading, every short text over   *)
(* an alphabet of disguises, every short Markdown file over the lines that *)
(* open, close and fill a fence, pairs of links with every kind of target, *)
(* and files that the rules of the static layer match in all their ways.   *)
(***************************************************************************)
EXTENDS Intake

Rune(size, kind, script, folded, mapped) ==
  [size |-> size, kind |-> kind, script |-> script, folded |-> folded, mapped |-> mapped]
Plain1(r) == Rune(1, "other", "", <<r>>, <<r>>)
Latin(r) == Rune(1, "letter", "latin", <<r>>, <<r>>)

Signs == {" ", "\n", "\r", "tick", "tilde", "#", "|", "-", "!", "\\", "//", "nul", "bad", "#!",
          ";", "<"}
Digits == {"1", "2"}
Words == {"a", "b", "sh", "ls", "--registry", "setup.py", "skills/self"}
MCRunes ==
  [r \in Signs |-> Plain1(r)] @@ [r \in Words |-> Latin(r)]
    @@ [r \in Digits |-> [Plain1(r) EXCEPT !.kind = "digit"]]
    @@ ("slash" :> Rune(3, "other", "", <<"/">>, <<"/">>))
    @@ ("/"   :> Plain1("/"))
    @@ ("half" :> Rune(2, "other", "", <<"1", "slash", "2">>, <<"1", "/", "2">>))
    @@ ("tel" :> Rune(3, "other", "", <<"a", "b", "a", "b">>, <<"a", "b", "a", "b">>))
    @@ ("---" :> Rune(3, "other", "", <<"---">>, <<"---">>))
    @@ ("rep" :> Rune(3, "other", "", <<"rep">>, <<"rep">>))
    @@ ("zw"  :> Rune(3, "hidden", "", <<"zw">>, <<"zw">>))
    @@ ("fil" :> Rune(3, "hidden", "foreign", <<"fil">>, <<"fil">>))
    @@ ("wide" :> Rune(3, "other", "", <<"tick">>, <<"tick">>))
    @@ ("cyr" :> Rune(2, "letter", "foreign", <<"cyr">>, <<"a">>))
    @@ ("grk" :> Rune(2, "letter", "foreign", <<"grk">>, <<"grk">>))
    @@ ("fi"  :> Rune(3, "letter", "latin", <<"a", "b">>, <<"a", "b">>))

-----------------------------------------------------------------------------

NoHead == [magics |-> {}, len |-> 0, field |-> 0, encrypted |-> FALSE]
Nowhere == [root |-> "", parts |-> << >>]

Text(path, text) ==
  [path |-> path, kind |-> "file", now |-> text, then |-> text, media |-> "text",
   ext |-> "md", head |-> NoHead, target |-> Nowhere]
Script(path, text) == [Text(path, text) EXCEPT !.ext = "py"]
Blob(path, size, head) ==
  [Text(path, [k \in 1..size |-> "nul"]) EXCEPT !.media = "none", !.ext = None, !.head = head]
To(path, root, parts) ==
  [Text(path, << >>) EXCEPT !.kind = "symlink", !.target = [root |-> root, parts |-> parts]]
Other(path, kind) == [Text(path, << >>) EXCEPT !.kind = kind]

TextRule ==
  [id |-> "SEEN", scope |-> "any", files |-> {}, patterns |-> <<<<"a", "b">>>>, exclude |-> << >>,
   severity |-> 3, lowered |-> {}, installers |-> {}, lockfiles |-> {}, traced |-> FALSE]
LinkRule == [TextRule EXCEPT !.id = "SYMLINK-OUT-OF-SKILL", !.scope = "link", !.patterns = << >>]

Limits == {"BUNDLE-TOO-MANY-FILES", "BUNDLE-TOO-DEEP", "FILE-TOO-LARGE", "BUNDLE-TOO-LARGE",
           "BUNDLE-TOO-MUCH-TEXT"}
Formats == {"FILE-BINARY", "FILE-INSTALLER", "ARCHIVE-ENCRYPTED", "HOOK"}
All == Limits \cup Formats \cup {LookAlike, Invisible}

Skill ==
  [entries |-> << >>,
   limits |-> [files |-> 9, file |-> 99, bundle |-> 99, text |-> 99, depth |-> 3],
   allowed |-> All, severity |-> [id \in All \cup {"SEEN", "LATER", "CODE", "SYMLINK-OUT-OF-SKILL"} |-> 3],
   named |-> <<[id |-> "HOOK", files |-> {"hook"}]>>,
   static |-> <<TextRule, LinkRule>>, placeOnly |-> << >>, interrupts |-> {},
   self |-> << >>, scripts |-> {}, faults |-> FALSE, ends |-> FALSE]

Of(entries) == [Skill EXCEPT !.entries = entries]

-----------------------------------------------------------------------------
(* Limits, files that grow, faults, interrupts, an ending context. *)

ab == <<"a", "b">>
Folder ==
  <<Text(<<"a">>, ab),
    [Text(<<"grows">>, ab) EXCEPT !.then = ab \o ab],
    Other(<<"lost">>, "folder"),
    Blob(<<"x", "big">>, 5, NoHead),
    Text(<<"x", "y", "z">>, ab \o <<"bad">>)>>

Trees ==
  {[Of(Folder) EXCEPT !.limits = [files |-> n, file |-> 4, bundle |-> b, text |-> t, depth |-> 1],
                      !.allowed = on, !.faults = faults, !.ends = ~faults, !.interrupts = ids] :
     n \in {3, 4}, b \in {8, 20}, t \in {3, 4, 6, 7, 9}, on \in {All, All \ {"BUNDLE-TOO-MUCH-TEXT"}},
     faults \in BOOLEAN, ids \in {{}, {"BUNDLE-TOO-MUCH-TEXT"}, {"SEEN"}}}

Magic(magic, len, field) == [NoHead EXCEPT !.magics = {magic}, !.len = len, !.field = field]
Blobs ==
  {Of(<<Blob(<<"f">>, 3, h), Text(<<"hook">>, ab), Other(<<"pipe">>, "special")>>) :
     h \in {Magic("MZ", len, 60) : len \in {63, 64}} \cup {Magic("cafebabe", 8, n) : n \in {44, 45}}
           \cup {Magic(m, 12, 0) : m \in {"installer", "executable", "FOR1", "arch"}}
           \cup {Magic("pyc", 4, n) : n \in {2999, 3000, 3999, 4000}}
           \cup {[NoHead EXCEPT !.encrypted = TRUE]}}

-----------------------------------------------------------------------------
(* Disguises. *)

Alphabet == {"a", "b", "zw", "fil", "cyr", "grk", "fi", "\\", "\n", " "}
Disguises ==
  {Of(<<Text(<<"t">>, t)>>) : t \in UNION {[1..n -> Alphabet] : n \in 1..3}}
    \cup {Of(<<Text(<<"t">>, t), Script(<<"u">>, t)>>) :
            t \in {<<"a", "half", "b", "\n", "tel", "\n", "half", "a", "b">>,
                   <<"zw", "\n", "cyr", "b", "\n", "a", "zw", "b", "\n", "cyr", "zw", "b">>,
                   <<"a", "cyr", " ", "cyr", "\\", "cyr", "a">>,
                   <<"zw", "zw", "zw", "\n", "fi", "\n", "\n", "fi", "fi">>,
                   <<"a", "zw", "b", "\n", "a", "zw", "b", "\n", "a", "zw", "cyr", "\n", "b">>}}

-----------------------------------------------------------------------------
(* Markdown. *)

Join(lines) == FoldLeft(LAMBDA t, l : IF t = << >> THEN l ELSE t \o <<"\n">> \o l,
                        << >>, lines)
T3 == <<"tick", "tick", "tick">>
FenceLines == {T3, T3 \o <<"sh">>, T3 \o <<"tick">>, <<"tilde", "tilde", "tilde">>, ab,
               <<" ">> \o T3 \o <<" ">>}
Deep == <<" ", " ", " ", " ">> \o T3
Hiding == {<<"zw">> \o T3, T3 \o <<"zw">>, <<"wide", "tick", "tick">>, <<"tick", "zw">>, T3}
Heads == {<<"#", " ", "a">>, <<"#", "#", " ", "b">>, <<"-", " ", "a">>, <<"|", "a">>, <<" ">>, Deep}

Pages ==
  {Of(<<Text(<<"t">>, Join(ls))>>) : ls \in [1..4 -> FenceLines]}
    \cup {Of(<<Text(<<"t">>, Join(ls))>>) : ls \in [1..2 -> Hiding] \cup {<<T3, x, ab>> : x \in Hiding}}
    \cup {Of(<<Text(<<"t">>, Join(<<<<"---">>, x, <<"---">>, y, ab>>))>>) : x \in {ab, T3}, y \in Hiding}
    \cup {Of(<<Text(<<"t">>, Join(<<x, y, <<"a">>, ab, z>>))>>) :
            x \in Heads \cup {<<"---">>}, y \in Heads \cup {ab, T3}, z \in Heads \cup {<<"---">>, T3}}
    \cup {Of(<<Text(<<"t">>, Join(<<T3 \o <<"sh">>>> \o [k \in 1..n |-> ab] \o <<T3>>)),
               Script(<<"u">>, Join([k \in 1..n |-> ab]))>>) : n \in {0, 3, 6}}
    \cup {Of(<<Text(<<"t">>, Join([k \in 1..n |-> <<"a">>]))>>) : n \in 4..9}

-----------------------------------------------------------------------------
(* Links: two in the folder, one below, each with every kind of target. *)

Targets == {<<>>, <<"b">>, <<"..">>, <<"d", "c">>, <<"d", "c", "..">>, <<"..", "b">>, <<"..", "..">>}
Roots == {[root |-> "", parts |-> p] : p \in Targets}
           \cup {[root |-> "/", parts |-> <<"..", "b">>], [root |-> "C:/", parts |-> <<"d">>]}
Links ==
  {Of(<<To(<<"b">>, s.root, s.parts), To(<<"d", "c">>, t.root, t.parts),
        To(<<"d", "e">>, "", <<".", "c", "..", "x">>), To(<<"f">>, "", <<"d", "e", "..", "..">>)>>) :
     s \in Roots, t \in Roots}

-----------------------------------------------------------------------------
(* The rules of the static layer. *)

CodeRule == [TextRule EXCEPT !.id = "CODE", !.scope = "code", !.traced = TRUE]
Page(lines) == Text(<<"SKILL.md">>, Join(lines))
Code == <<T3 \o <<"sh">>, ab, ab \o <<"//">> \o ab, <<"//">> \o ab, T3, ab>>

With(entries, static) == [Of(entries) EXCEPT !.static = static]
Traces ==
  {[With(<<Page(Code), Script(<<"run">>, Join(<<ab, ab \o <<"//">> \o ab>>))>>,
         <<[CodeRule EXCEPT !.scope = scope], TextRule>>)
      EXCEPT !.scripts = {<<"run">>}, !.faults = faults, !.ends = faults,
             !.placeOnly = <<[CodeRule EXCEPT !.id = "LATER"]>>, !.interrupts = ids] :
     scope \in {"any", "code", "prose"}, faults \in BOOLEAN, ids \in {{}, {"CODE"}}}

Manifest(extra) == <<Page(<<<<"ls", " ">> \o ab>>), Script(<<"m">>, ab)>> \o extra
Installs ==
  {With(Manifest(extra), <<[TextRule EXCEPT !.files = {"m"}, !.installers = {names},
                                            !.lockfiles = {"lock"}]>>) :
     names \in {"ls", "sh"}, extra \in {<< >>, <<Script(<<"lock">>, ab)>>, <<Script(<<"x", "lock">>, ab)>>}}

Load(command) == <<"!", "tick">> \o command \o <<"tick">>
Commands == {<<"ls">>, <<"ls", ";">>, <<"a">>}
Loads == <<Load(<<"ls">>), Load(<<"ls", ";">>), Load(<<"a">>), T3 \o <<"!">>, <<"ls">>, T3,
           T3 \o <<"!">>, <<"b">>, T3>>
Severities ==
  {With(<<Page(Loads)>>,
        <<[TextRule EXCEPT !.patterns = SetToSeq({Load(c) : c \in Commands}) \o <<T3 \o <<"!">>>>,
                           !.lowered = {<<"ls">>, <<"ls", ";">>}]>>)}

Selves ==
  {[With(<<Page(<<<<"ls", " ">> \o ab, <<" ">> \o ab, <<"skills/self", "b">>, <<"\r">>, ab \o <<"\r">>,
                   <<"ls", " ", "a", "b", "--registry">>>>)>>,
         <<[TextRule EXCEPT !.patterns = ps, !.exclude = x]>>)
      EXCEPT !.self = self] :
     self \in {<< >>, <<"ls", " ", "a", "b">>}, x \in {<< >>, <<"\r">>, <<" ">>},
     ps \in {<<ab, <<"skills/self", "b">>>>, <<<<"\n", "a">>, <<" ", "a", "b", "\n">>>>}}

MCCases == Trees \cup Blobs \cup Disguises \cup Pages \cup Links \cup Traces \cup Installs
             \cup Severities \cup Selves
=============================================================================
