----------------------------- MODULE MCRosterRoom -----------------------------
(* Five ids: p comes back as q or q as p, r is someone else, m and n are     *)
(* this app's.                                                               *)
EXTENDS RosterRoom

CONSTANTS m, n, p, q, r

Alike == Permutations({m, n}) \cup Permutations({p, q})

MCIds == {m, n, p, q, r}
MCName == [id \in MCIds |->
             CASE id \in {p, q} -> "peer" [] id = r -> "other" [] OTHER -> "me"]
MCMayPublish == [id \in {p, q, r} |-> IF id = r THEN {1, 2} ELSE {1}]
===============================================================================
