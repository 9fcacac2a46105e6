---------------------------- MODULE MCCollectors ----------------------------
(***************************************************************************)
(* An instance of Collectors for TLC: what the files name is a package, a  *)
(* repository, an owner or a domain, and a domain whose registrable name   *)
(* is shorter; sites redirect to two more, one of them on a platform.      *)
(***************************************************************************)
EXTENDS Collectors

CONSTANTS lib, site, target, mirror, zone, install, clone, w1, w2

MCNamesOf == [p \in Places |-> IF p = install THEN {lib} ELSE {}]
MCKinds ==
  {[r \in Refs |-> IF r = lib THEN k ELSE "domain"] :
     k \in {"package", "repository", "owner", "domain"}}
MCCandidates == [r \in Refs |-> IF r = site THEN <<zone, site>> ELSE <<r>>]
MCUp == [r \in Refs |-> IF r = site THEN {zone, site} ELSE {r}]
MCRedirectsTo ==
  [r \in Refs |-> CASE r = site -> {target, mirror} [] r = mirror -> {} [] OTHER -> {mirror}]
MCShared == {"iana", "rdap", target, mirror}
MCAgain == {<<"iana", "dns">>, <<target, "page">>, <<mirror, "page">>}
=============================================================================
