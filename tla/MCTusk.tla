------------------------------- MODULE MCTusk -------------------------------
(***************************************************************************)
(* Four authorities of stake 1 and two dags.  The certificate of authority *)
(* a in round r has digest 10 * r + a, or 10 * r + a + 4 for one that       *)
(* excludes the former.  The leader of round 2 is of authority 3, of round *)
(* 3 of 4, of round 4 of 1 and of round 6 of 3.                            *)
(***************************************************************************)
EXTENDS Tusk

MCStake == [a \in 1..4 |-> 1]

Symmetric == Permutations(Replica)

MCKeys == <<1, 2, 3, 4>>

Certificates(parentsOf) ==
    [d \in DOMAIN parentsOf |->
        [origin |-> IF d < 10 THEN d ELSE (((d % 10) - 1) % 4) + 1,
         round |-> d \div 10, parents |-> parentsOf[d]]]

FirstRounds ==
    [d \in {1, 2, 3, 4} |-> {}] @@
    [d \in {11, 12, 13, 14} |-> {1, 2, 3, 4}] @@
    [d \in {21, 22, 24} |-> {11, 12, 14}] @@ (23 :> {11, 12, 13}) @@
    (32 :> {22, 23, 24}) @@ [d \in {33, 34} |-> {21, 22, 24}]

(* Leader 23 has the support of 31 and 32, but only 31 is in the history   *)
(* of round 4: a replica that is sent 32 late does not commit 23 by        *)
(* itself.  If authority 1 certifies 35 instead, 23 has too little support *)
(* and is in nobody's history.  Authority 4 stops after round 3.           *)
ForkParents ==
    FirstRounds @@
    (31 :> {21, 22, 23}) @@ [d \in {41, 42, 43} |-> {31, 33, 34}] @@
    [d \in {51, 52, 53} |-> {41, 42, 43}] @@
    [d \in {61, 62, 63} |-> {51, 52, 53}] @@ [d \in {71, 72} |-> {61, 62, 63}] @@
    (35 :> {21, 22, 24}) @@ [d \in {45, 46, 47} |-> {35, 33, 34}] @@
    (55 :> {45, 46, 47})

(* Leader 41 commits 33 of authority 3 without its 23, which only comes    *)
(* into the history of the next leader, 63, by way of 32 and 42.           *)
LateParents ==
    FirstRounds @@
    (31 :> {21, 22, 24}) @@ [d \in {41, 43, 44} |-> {31, 33, 34}] @@
    (42 :> {32, 33, 34}) @@ [d \in {51, 53, 54} |-> {41, 43, 44}] @@
    (52 :> {42, 43, 44}) @@ (63 :> {52, 53, 54}) @@
    [d \in {61, 64} |-> {51, 53, 54}] @@ [d \in {71, 73, 74} |-> {61, 63, 64}] @@
    [d \in {81, 83, 84} |-> {71, 73, 74}] @@ (91 :> {81, 83, 84})

ForkCertificate == Certificates(ForkParents)
ForkDigest == DOMAIN ForkParents

LateCertificate == Certificates(LateParents)
LateDigest == DOMAIN LateParents
=============================================================================
