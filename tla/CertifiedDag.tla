---------------------------- MODULE CertifiedDag ----------------------------
(***************************************************************************)
(* What the mempool promises to the consensus, as long as nothing is       *)
(* garbage collected: the dags of the correct primaries grow by one        *)
(* certificate at a time, a certificate comes after its parents, which are *)
(* a quorum of the round before, and no two of them hold different         *)
(* certificates for one slot.                                              *)
(***************************************************************************)
EXTENDS Naturals

CONSTANTS
    Primary,                  \* the correct primaries
    Digest,                   \* digests of certificates
    author, round, parents,   \* of the certificate of a digest
    IsQuorum(_)               \* the sets of authorities with 2f+1 stake

VARIABLE dag   \* the certificates each primary sent to its consensus

DagInit == dag = [n \in Primary |-> {}]

InDag(n, c) == round[c] = 0 \/ c \in dag[n]

QuorumOfParents(c) ==
    /\ \A p \in parents[c] : round[p] + 1 = round[c]
    /\ IsQuorum({author[p] : p \in parents[c]})

SlotFree(c) ==
    \A n \in Primary : \A d \in dag[n] :
        author[d] = author[c] /\ round[d] = round[c] => d = c

DagDeliver(n, c) ==
    /\ \A p \in parents[c] : InDag(n, p)
    /\ round[c] # 0 => QuorumOfParents(c)
    /\ SlotFree(c)
    /\ dag' = [dag EXCEPT ![n] = @ \cup {c}]

DagNext == \E n \in Primary, c \in Digest : DagDeliver(n, c)

DagSpec == DagInit /\ [][DagNext]_dag
=============================================================================
