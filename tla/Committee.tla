------------------------------ MODULE Committee ------------------------------
(***************************************************************************)
(* The committee of config/src/lib.rs: authorities with voting stake and   *)
(* the two thresholds every other component compares a stake with.         *)
(*                                                                         *)
(* The stake of a set of authorities is the number of its "units", the     *)
(* pairs <<a, i>> with i in 1..stake[a].  Stake is then a cardinality and   *)
(* the facts about finite sets apply to weighted committees as well.       *)
(***************************************************************************)
EXTENDS Integers, FiniteSets

CONSTANTS
    Authority,  \* the public keys of the committee
    stake,      \* the voting power of each authority
    MaxStake    \* bound of one authority's stake (the code's u32)

ASSUME CommitteeAssumption ==
    /\ IsFiniteSet(Authority)
    /\ MaxStake \in Nat
    /\ stake \in [Authority -> 0..MaxStake]

Units(S) == {u \in S \X (1..MaxStake) : u[2] <= stake[u[1]]}

StakeOf(S) == Cardinality(Units(S))

TotalStake == StakeOf(Authority)

(* Faulty variant: 2f instead of 2f+1. *)
TwoThirds == (2 * TotalStake) \div 3

(* Committee::quorum_threshold, 2f+1. *)
QuorumThreshold == (2 * TotalStake) \div 3 + 1

(* Faulty variant: f instead of f+1. *)
OneThird == TotalStake \div 3

(* Committee::validity_threshold, f+1. *)
ValidityThreshold == (TotalStake + 2) \div 3

IsQuorum(S) == StakeOf(S) >= QuorumThreshold
==============================================================================
