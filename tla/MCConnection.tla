--------------------------- MODULE MCConnection ---------------------------
(* Instances of Connection for TLC. *)
EXTENDS Connection, TLC

CONSTANTS ann, bob, lan, wan

\* Every path works to begin with; or one loses, or one end's system refuses,
\* what that end sends on it; or one is dead.
AllWell == [e \in Ends |-> [p \in Paths |-> "works"]]
OneWay == [AllWell EXCEPT ![ann][wan] = "loses"]
Refused == [AllWell EXCEPT ![ann][lan] = "refused"]
Dead == [e \in Ends |-> [p \in Paths |-> IF p = wan THEN "loses" ELSE "works"]]
JustWell == {AllWell}
SomeWell == {AllWell, OneWay}
Several == {AllWell, OneWay, Refused, Dead}
=============================================================================
