------------------------------- MODULE MCCore -------------------------------
(***************************************************************************)
(* Ours is authority 0.  Of the three authorities, 1 has the stake of two  *)
(* and is in every quorum; 2 leads rounds 2 and 3.                         *)
(***************************************************************************)
EXTENDS MysticetiCore

Authorities == 0..2
Stakes == [a \in Authorities |-> IF a = 1 THEN 2 ELSE 1]
Quorums == [a \in Authorities |-> IF a = 2 THEN {1, 2} ELSE {0, 1}]
Leaders == <<1, 2, 2, 1, 2, 1>>
=============================================================================
