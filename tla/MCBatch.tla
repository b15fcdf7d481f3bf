------------------------------ MODULE MCBatch ------------------------------
(***************************************************************************)
(* Authority 1 misses batch 100, which worker 2 has.                       *)
(***************************************************************************)
EXTENDS BatchSync

Headers ==
    [h \in {21, 22} |->
        [author |-> 2, round |-> h - 20, payload |-> {100}]]

HoldersOnly == [n \in Node |-> IF n = 1 THEN {} ELSE {100}]

(* Our worker is asked for the batch with an unknown node as target, so    *)
(* that only its timer can get it.                                         *)
OneCommand == {Synchronize(1, 100, 9)}
=============================================================================
