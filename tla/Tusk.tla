-------------------------------- MODULE Tusk --------------------------------
(***************************************************************************)
(* The consensus of narwhal-tusk (consensus/src/lib.rs): every replica     *)
(* turns the certificates its primary sends it into a total order, without *)
(* exchanging a message.                                                   *)
(*                                                                         *)
(* Certificates are referred to by digest; digests are numbers, because    *)
(* order_dag sorts by digest.  The primary sends a certificate after its    *)
(* parents (PrimaryCore, CausalDelivery), possibly more than once, and all *)
(* primaries agree on the certificate of a slot, that is of an origin and  *)
(* a round (PrimaryCore, CertificateUnique).                               *)
(***************************************************************************)
EXTENDS Committee, SequencesExt

CONSTANTS
    Replica,        \* the correct authorities' consensus tasks
    Digest,         \* digests of certificates
    certificate,    \* the certificate of a digest: origin, round, parents
    keys,           \* the authorities in the order of their public keys
    GCDepth,        \* gc_depth, rounds kept behind the last commit
    Again           \* bound: the certificates a primary sends twice

origin == [d \in Digest |-> certificate[d].origin]
round == [d \in Digest |-> certificate[d].round]
parents == [d \in Digest |-> certificate[d].parents]

Genesis == {d \in Digest : round[d] = 0}

ASSUME TuskAssumption ==
    /\ Digest \subseteq Nat /\ IsFiniteSet(Digest)
    /\ certificate \in [Digest -> [origin : Authority, round : Nat,
                                   parents : SUBSET Digest]]
    /\ keys \in [1..Cardinality(Authority) -> Authority]
    /\ GCDepth \in Nat
    /\ Again \subseteq Digest
    /\ \A d \in Digest \ Genesis :
          /\ \A p \in parents[d] : round[p] + 1 = round[d]
          /\ IsQuorum({origin[p] : p \in parents[d]})

VARIABLES
    state,       \* State of every replica, and whether an expect() failed
    delivered,   \* the certificates each replica was sent
    duplicates,  \* those it was sent twice
    output,      \* the sequence each replica committed
    leaders      \* the leaders it committed, oldest first

vars == <<state, delivered, duplicates, output, leaders>>

------------------------------------------------------------------------------
(* Choosing leaders *)

(* Round-robin election; the leader's certificate if it is in the dag. *)
Leader(dag, r) ==
    {d \in dag : round[d] = r /\ origin[d] = keys[(r % Len(keys)) + 1]}

AtRound(dag, r) == {d \in dag : round[d] = r}

(* The stake of the certificates of the next round that link to a leader. *)
Support(dag, l) ==
    StakeOf({origin[d] : d \in {x \in AtRound(dag, round[l] + 1) : l \in parents[x]}})

(* Descending layer by layer from one leader: is there a path to another? *)
Linked(dag, l, p) ==
    LET layer[k \in 0..(round[l] - round[p])] ==
            IF k = 0 THEN {l}
            ELSE {d \in AtRound(dag, round[l] - k) :
                     \E x \in layer[k - 1] : d \in parents[x]}
    IN  p \in layer[round[l] - round[p]]

(* The rounds (low..high - 1).rev().step_by(2) enumerates. *)
StepDown(low, high) ==
    [i \in 1..((high - low + 1) \div 2) |-> high + 1 - 2 * i]

(* The leader of round r is committed too if the last one chosen links to it. *)
Visit(dag, to_commit, r) ==
    IF \E p \in Leader(dag, r) : Linked(dag, Last(to_commit), p)
    THEN Append(to_commit, CHOOSE p \in Leader(dag, r) : TRUE)
    ELSE to_commit

(* order_leaders, newest first: leaders we skipped that the current one    *)
(* links to.                                                               *)
OrderLeaders(s, leader) ==
    LET rounds == StepDown(s.last_committed_round + 2, round[leader])
        to_commit[i \in 0..Len(rounds)] ==
            IF i = 0 THEN <<leader>> ELSE Visit(s.dag, to_commit[i - 1], rounds[i])
    IN  to_commit[Len(rounds)]

------------------------------------------------------------------------------
(* Committing *)

(* Faulty variant: orders what the dag holds, not what the leader references. *)
AllBelow(s, leader) ==
    {d \in s.dag : round[d] <= round[leader] /\ s.last_committed[origin[d]] < round[d]}

(* What order_dag's traverse visits: it does not pass a certificate of a   *)
(* round that is committed already for its origin.                         *)
SubDag(s, leader) ==
    LET Open(d) == s.last_committed[origin[d]] < round[d]
        layer[k \in 0..round[leader]] ==
            IF k = 0 THEN {d \in {leader} : Open(d)}
            ELSE {d \in AtRound(s.dag, round[leader] - k) :
                     Open(d) /\ \E x \in layer[k - 1] : d \in parents[x]}
    IN  UNION {layer[k] : k \in 0..round[leader]}

(* Faulty variant: rounds descending. *)
ChildrenFirst(d, e) == round[d] > round[e] \/ (round[d] = round[e] /\ d > e)

(* Lower rounds first, then larger digests first. *)
Before(d, e) == round[d] < round[e] \/ (round[d] = round[e] /\ d > e)

Sorted(S) ==
    [i \in 1..Cardinality(S) |->
        CHOOSE d \in S : Cardinality({e \in S : Before(e, d)}) = i - 1]

OrderDag(s, leader) ==
    Sorted({d \in SubDag(s, leader) :
               round[d] + GCDepth >= s.last_committed_round})

(* Faulty variant: keeps the last collected round instead of the committed one. *)
CollectedRound(s, d) ==
    [s EXCEPT !.last_committed[origin[d]] = round[d] - GCDepth - 1,
              !.last_committed_round = IF @ > round[d] THEN @ ELSE round[d]]

(* Faulty variant: last_committed is not updated. *)
NoneCommitted(s, d) ==
    [s EXCEPT !.last_committed_round = IF @ > round[d] THEN @ ELSE round[d],
              !.dag = {x \in @ : round[x] + GCDepth >= s.last_committed_round}]

(* State::update, with its cleanup of the dag. *)
Update(s, d) ==
    LET last == [s.last_committed EXCEPT
                   ![origin[d]] = IF @ > round[d] THEN @ ELSE round[d]]
        lcr == Max({last[a] : a \in Authority})
    IN  [s EXCEPT
           !.last_committed = last,
           !.last_committed_round = lcr,
           !.dag = {x \in @ : /\ round[x] >= last[origin[x]]
                              /\ round[x] + GCDepth >= lcr}]

(* State::update for every certificate of a sequence. *)
Updated(s, order) ==
    LET after[i \in 0..Len(order)] ==
            IF i = 0 THEN s ELSE Update(after[i - 1], order[i])
    IN  after[Len(order)]

(* Flatten the sub-dag of one leader.  A batch pairs the state with the    *)
(* sequence committed so far.                                              *)
CommitLeader(batch, leader) ==
    LET order == OrderDag(batch.state, leader)
    IN  [state |-> Updated(batch.state, order),
         sequence |-> batch.sequence \o order]

(* Flatten the sub-dags of a chain of leaders, the oldest first. *)
Flatten(s, chain) ==
    LET batch[i \in 0..Len(chain)] ==
            IF i = 0 THEN [state |-> s, sequence |-> << >>]
            ELSE CommitLeader(batch[i - 1], chain[i])
    IN  batch[Len(chain)]

Insert(s, d) ==
    [s EXCEPT !.dag =
        {x \in @ : origin[x] # origin[d] \/ round[x] # round[d]} \cup {d}]

(* The leader that certificate d makes us look at: two rounds below the    *)
(* even round r that d's parents belong to.                                *)
Elected(s, d) ==
    LET r == round[d] - 1
    IN  {l \in Leader(s.dag, r - 2) :
            r % 2 = 0 /\ r >= 4 /\ r - 2 > s.last_committed_round}

Supported(s, l) == Support(s.dag, l) >= ValidityThreshold

(* The two expect("We should have the whole history by now"): the round of *)
(* the leader's children, and every round down to the leaders we skipped.  *)
HistoryMissing(s, l) ==
    \/ AtRound(s.dag, round[l] + 1) = {}
    \/ /\ Supported(s, l)
       /\ \E p \in Range(StepDown(s.last_committed_round + 2, round[l])) :
             /\ Leader(s.dag, p) # {}
             /\ \E r \in p..round[l] : AtRound(s.dag, r) = {}

------------------------------------------------------------------------------
Init ==
    /\ state = [r \in Replica |->
                  [last_committed_round |-> 0,
                   last_committed |-> [a \in Authority |-> 0],
                   dag |-> Genesis, missing |-> FALSE]]
    /\ delivered = [r \in Replica |-> Genesis]
    /\ duplicates = [r \in Replica |-> {}]
    /\ output = [r \in Replica |-> << >>]
    /\ leaders = [r \in Replica |-> << >>]

(* Order a leader together with the leaders we skipped, oldest first. *)
CommitFrom(r, s, leader) ==
    LET chain == Reverse(OrderLeaders(s, leader))
        batch == Flatten(s, chain)
    IN  /\ state' = [state EXCEPT ![r] = batch.state]
        /\ output' = [output EXCEPT ![r] = @ \o batch.sequence]
        /\ leaders' = [leaders EXCEPT ![r] = @ \o chain]

(* The body of Consensus::run for certificate d. *)
Process(r, d) ==
    LET s == Insert(state[r], d)
        ready == {l \in Elected(s, d) : Supported(s, l)}
    IN  /\ ~state[r].missing
        /\ IF \E l \in Elected(s, d) : HistoryMissing(s, l)
           THEN /\ state' = [state EXCEPT ![r].missing = TRUE]
                /\ UNCHANGED <<output, leaders>>
           ELSE IF ready = {}
           THEN /\ state' = [state EXCEPT ![r] = s]
                /\ UNCHANGED <<output, leaders>>
           ELSE CommitFrom(r, s, CHOOSE l \in ready : TRUE)

(* One certificate per slot, the same for all. *)
SlotFree(d) ==
    \A r \in Replica : \A x \in delivered[r] :
        origin[x] = origin[d] /\ round[x] = round[d] => x = d

(* Faulty variant: the primary does not wait for the parents. *)
DeliverAnyOrder(r) ==
    \E d \in Digest \ delivered[r] :
        /\ SlotFree(d)
        /\ Process(r, d)
        /\ delivered' = [delivered EXCEPT ![r] = @ \cup {d}]
        /\ UNCHANGED duplicates

(* The primary sends a certificate once it sent all its parents. *)
Deliver(r) ==
    \E d \in Digest \ delivered[r] :
        /\ parents[d] \subseteq delivered[r]
        /\ SlotFree(d)
        /\ Process(r, d)
        /\ delivered' = [delivered EXCEPT ![r] = @ \cup {d}]
        /\ UNCHANGED duplicates

(* It received the certificate again and sends it again.  For a genesis     *)
(* certificate the code's round - 1 wraps to an odd number, here -1.       *)
Redeliver(r) ==
    \E d \in (delivered[r] \cap Again) \ duplicates[r] :
        /\ Process(r, d)
        /\ duplicates' = [duplicates EXCEPT ![r] = @ \cup {d}]
        /\ UNCHANGED delivered

Next == \E r \in Replica : Deliver(r) \/ Redeliver(r)

Spec == Init /\ [][Next]_vars

------------------------------------------------------------------------------
(* Properties *)

TypeOK ==
    /\ state \in [Replica -> [last_committed_round : Nat,
                              last_committed : [Authority -> Nat],
                              dag : SUBSET Digest, missing : BOOLEAN]]
    /\ delivered \in [Replica -> SUBSET Digest]
    /\ duplicates \in [Replica -> SUBSET Again]
    /\ output \in [Replica -> Seq(Digest)]
    /\ leaders \in [Replica -> Seq(Digest)]

(* "ensure we don't commit twice the same certificate": also when the      *)
(* primary sends it again after it was committed and cleaned up.           *)
CommitOnce == \A r \in Replica : IsInjective(output[r])

(* A parent that is ever committed is committed before its child. *)
ParentsFirst ==
    \A r \in Replica : \A i, j \in DOMAIN output[r] :
        output[r][j] \in parents[output[r][i]] => j < i

(* The order is a function of the leaders alone: what else a replica was   *)
(* sent, when, and how often, does not show in what it commits.            *)
OrderFollowsLeaders ==
    \A r, q \in Replica :
        IsPrefix(leaders[r], leaders[q]) => IsPrefix(output[r], output[q])

(* The dag holds "the whole history" when a leader is ordered. *)
WholeHistory == \A r \in Replica : ~state[r].missing

ancestors[d \in Digest] == {d} \cup UNION {ancestors[p] : p \in parents[d]}

(* A leader that is committed for its support is in the history of every  *)
(* certificate from two rounds above on, whichever replica is sent it: the *)
(* f+1 children meet every quorum of parents.                              *)
LeaderInHistory ==
    \A r, q \in Replica : \A d \in delivered[q] :
        leaders[r] # << >> /\ round[d] >= round[Last(leaders[r])] + 2
            => Last(leaders[r]) \in ancestors[d]

(* "Committing a leader block means committing all its dependencies", down *)
(* to the depth of the garbage collection.                                 *)
(* It does not hold; README.md, section 3, says where.                      *)
DependenciesCommitted ==
    \A r \in Replica : \A i \in DOMAIN leaders[r] :
        \A d \in ancestors[leaders[r][i]] \ Genesis :
            round[d] + GCDepth >= state[r].last_committed_round
                => d \in Range(output[r])

(* All replicas commit the same sequence, some of them later than others. *)
Agreement ==
    \A r, q \in Replica :
        IsPrefix(output[r], output[q]) \/ IsPrefix(output[q], output[r])
==============================================================================
