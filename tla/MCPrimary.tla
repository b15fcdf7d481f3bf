------------------------------ MODULE MCPrimary ------------------------------
(***************************************************************************)
(* Small instances of PrimaryCore.  A table gives every digest its header; *)
(* "g1" is the digest of authority 1's genesis certificate.                *)
(***************************************************************************)
EXTENDS PrimaryCore

H(a, r, P, B) == [author |-> a, round |-> r, parents |-> P, payload |-> B]

------------------------------------------------------------------------------
(* Twins: four authorities of stake 1.  Authority 4 is faulty and signs    *)
(* two headers for round 1 that differ in their parents, and one with too  *)
(* few of them.                                                            *)

TwinStake == [a \in 1..4 |-> 1]

TwinHeader ==
    [g1 |-> H(1, 0, {}, {}), g2 |-> H(2, 0, {}, {}),
     g3 |-> H(3, 0, {}, {}), g4 |-> H(4, 0, {}, {}),
     d1 |-> H(4, 1, {"g1", "g2", "g3", "g4"}, {}),
     twin |-> H(4, 1, {"g1", "g2", "g3"}, {}),
     few |-> H(4, 1, {"g1", "g4"}, {})]

TwinDigest == DOMAIN TwinHeader

------------------------------------------------------------------------------
(* Pair: two correct primaries of stake 1.  A quorum is both, so each      *)
(* needs the other's votes and certificates to leave a round.  Four rounds *)
(* let the consensus commit and the garbage collection follow.             *)

PairStake == [a \in 1..2 |-> 1]

PairHeader ==
    [g1 |-> H(1, 0, {}, {}), g2 |-> H(2, 0, {}, {}),
     a1 |-> H(1, 1, {"g1", "g2"}, {}), b1 |-> H(2, 1, {"g1", "g2"}, {}),
     a2 |-> H(1, 2, {"a1", "b1"}, {}), b2 |-> H(2, 2, {"a1", "b1"}, {}),
     a3 |-> H(1, 3, {"a2", "b2"}, {}), b3 |-> H(2, 3, {"a2", "b2"}, {}),
     a4 |-> H(1, 4, {"a3", "b3"}, {}), b4 |-> H(2, 4, {"a3", "b3"}, {})]

PairDigest == DOMAIN PairHeader

------------------------------------------------------------------------------
(* One correct primary, 1, among authorities that send anything.  Stakes   *)
(* 1, 1 and 2: a quorum is 3, authority 3 with one of the others.          *)
(* Authority 3 signs two headers for round 1.                              *)

SoloStake == [a \in 1..3 |-> IF a = 3 THEN 2 ELSE 1]

SoloGenesis == {"g1", "g2", "g3"}

(* Proposing: o1, o2, ... are the headers authority 1 may come to propose  *)
(* for round 2; x1, x2, ... are ones it should not.                        *)
ProposeHeader ==
    [g1 |-> H(1, 0, {}, {}), g2 |-> H(2, 0, {}, {}), g3 |-> H(3, 0, {}, {}),
     a1 |-> H(1, 1, SoloGenesis, {}), b1 |-> H(2, 1, SoloGenesis, {}),
     c1 |-> H(3, 1, SoloGenesis, {}), twin |-> H(3, 1, SoloGenesis, {"b"}),
     c2 |-> H(3, 2, {"b1", "c1"}, {}),
     o1 |-> H(1, 2, {"a1", "c1"}, {}), o2 |-> H(1, 2, {"b1", "c1"}, {}),
     o3 |-> H(1, 2, {"a1", "b1", "c1"}, {}), o4 |-> H(1, 2, {"b1", "c1"}, {"b"}),
     o5 |-> H(1, 2, {"a1", "twin"}, {}), o6 |-> H(1, 2, {"b1", "twin"}, {}),
     o7 |-> H(1, 2, {"a1", "b1", "twin"}, {}),
     x1 |-> H(1, 2, {"c1"}, {}), x2 |-> H(1, 2, {"a1", "b1"}, {}),
     x3 |-> H(1, 2, {"twin"}, {}), x4 |-> H(1, 3, {"b1", "c1"}, {})]

ProposeDigest == DOMAIN ProposeHeader

------------------------------------------------------------------------------
(* Fast peer: two correct primaries with stakes 1 and 3.  Authority 2 is a *)
(* quorum by itself and runs ahead over five rounds.                       *)

PeerStake == [a \in 1..2 |-> IF a = 1 THEN 1 ELSE 3]

PeerHeader ==
    [g1 |-> H(1, 0, {}, {}), g2 |-> H(2, 0, {}, {}),
     a1 |-> H(1, 1, {"g1", "g2"}, {}), b1 |-> H(2, 1, {"g1", "g2"}, {}),
     b2 |-> H(2, 2, {"b1"}, {}), b3 |-> H(2, 3, {"b2"}, {}),
     b4 |-> H(2, 4, {"b3"}, {}), b5 |-> H(2, 5, {"b4"}, {})]

PeerDigest == DOMAIN PeerHeader
==============================================================================
