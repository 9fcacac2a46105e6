------------------------------ MODULE MCPacer ------------------------------
(***************************************************************************)
(* An instance of Pacer for TLC: two requests for one URL, and one for     *)
(* another host that shares the slots.                                     *)
(***************************************************************************)
EXTENDS Pacer

CONSTANTS r1, r2, r3, repo, domain, github, rdap

MCUrlOf == [r \in Requests |-> IF r = r3 THEN domain ELSE repo]
MCHostOf == [u \in Urls |-> IF u = domain THEN rdap ELSE github]
=============================================================================
