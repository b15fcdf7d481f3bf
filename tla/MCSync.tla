------------------------------- MODULE MCSync -------------------------------
(***************************************************************************)
(* A chain of certificates of rounds 1 to 2 that we do not hold, and a     *)
(* header of round 3 that needs them.  Header 99 claims round 1 but names  *)
(* a certificate of round 2 as its parent, as only a faulty author does.   *)
(***************************************************************************)
EXTENDS PrimarySync

Malformed ==
    [h \in {0, 11, 21, 31, 99} |->
        CASE h = 0 -> [author |-> 1, round |-> 0, parents |-> {}]
          [] h = 11 -> [author |-> 1, round |-> 1, parents |-> {0}]
          [] h = 21 -> [author |-> 1, round |-> 2, parents |-> {11}]
          [] h = 31 -> [author |-> 1, round |-> 3, parents |-> {21}]
          [] h = 99 -> [author |-> 2, round |-> 1, parents |-> {21}]]
MalformedDigest == DOMAIN Malformed

(* Two headers of round 2 need certificate 11, a third one certificate 12. *)
Crossing ==
    [h \in {0, 11, 12, 21, 22, 23} |->
        CASE h = 0 -> [author |-> 1, round |-> 0, parents |-> {}]
          [] h \in {11, 12} -> [author |-> 1, round |-> 1, parents |-> {0}]
          [] h \in {21, 22} -> [author |-> 1, round |-> 2, parents |-> {11}]
          [] h = 23 -> [author |-> 1, round |-> 2, parents |-> {12}]]
CrossingDigest == DOMAIN Crossing
AuthorHolds == [p \in {1} |-> {11, 12}]

(* The author of most headers does not answer; primary 2 holds them all. *)
OneHolder == [p \in {1, 2} |-> IF p = 2 THEN {11, 21} ELSE {}]
==============================================================================
