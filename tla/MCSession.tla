------------------------------ MODULE MCSession ------------------------------
(***************************************************************************)
(* Session with model values: one or two other participants, and bounds    *)
(* under which every step can end every other.                             *)
(***************************************************************************)
EXTENDS Session

CONSTANTS me, ann, nobody

MCName == [id \in Ids |-> id]
NoOne == <<>>
Ann == <<[id |-> ann, addr |-> 1]>>
MCRoomLists == {NoOne, Ann}
JustAnn == {Ann}
===============================================================================
