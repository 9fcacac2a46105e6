---------------------------- MODULE MCReferences ----------------------------
(***************************************************************************)
(* An instance of References for TLC: two references of the files, two     *)
(* more that a site may redirect to, a place that names a reference and    *)
(* one that names none.                                                    *)
(***************************************************************************)
EXTENDS References

CONSTANTS lib, site, target, mirror, install, clone, w1, w2

MCNamesOf == [p \in Places |-> IF p = install THEN {lib} ELSE {}]
=============================================================================
