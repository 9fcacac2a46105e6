---------------------------- MODULE MCDiscovery ----------------------------
(***************************************************************************)
(* An instance of Discovery for TLC: two model rules, one whose text rule  *)
(* is as severe and one whose text rule is milder, in one file of three    *)
(* lines.                                                                  *)
(***************************************************************************)
EXTENDS Discovery

CONSTANTS file, hidden, text, graver, milder

Place(rule, first, last) == [file |-> file, rule |-> rule, first |-> first, last |-> last]
Item(rule, first, last, confidence) ==
  [file |-> file, rule |-> rule, first |-> first, last |-> last, confidence |-> confidence]

Sure == Item(hidden, 1, 1, 3)
Longer == Item(hidden, 1, 2, 4)
Unsure == Item(hidden, 1, 1, 2)
Later == Item(hidden, 2, 3, 3)
Graver == Item(graver, 1, 1, 3)
MCItems == {Sure, Longer, Unsure, Later, Graver}

MCSeverityOf == [r \in {hidden, text, graver, milder} |-> IF r = milder THEN 1 ELSE 3]
MCTwinOf == [r \in {hidden, text, graver, milder} |->
               IF r = hidden THEN text ELSE IF r = graver THEN milder ELSE None]

MCTexts == {Place(text, 2, 3), Place(milder, 1, 1)}
MCRaised == {Place(hidden, 2, 2), Place(graver, 3, 3)}
MCCovers == {Place(hidden, 2, 2), Place(graver, 2, 3)}

\* The finding tool with every item, submit_result with up to two entries: in
\* both orders of each pair about one identity, and before a refused one.
Submissions == {<< >>, <<Later>>, <<Graver, Sure>>, <<Sure, Later>>, <<Unsure, Bad>>, <<Later, Bad>>}
                 \cup {<<it, other>> : it, other \in {Sure, Longer, Unsure}}
MCCalls == {[tool |-> "add", entries |-> <<it>>] : it \in MCItems \cup {Bad}}
             \cup {[tool |-> "remove", entries |-> <<it>>] : it \in {Unsure, Later}}
             \cup {[tool |-> "submit", entries |-> es] : es \in Submissions}
             \cup {[tool |-> "read", entries |-> << >>]}
=============================================================================
