------------------------------ MODULE MCWorker ------------------------------
(***************************************************************************)
(* Four workers of equal stake, one of which never answers.                *)
(***************************************************************************)
EXTENDS Worker

Equal == [a \in {1, 2, 3, 4} |-> 1]
==============================================================================
