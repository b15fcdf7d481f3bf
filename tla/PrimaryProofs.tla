---------------------------- MODULE PrimaryProofs ----------------------------
(***************************************************************************)
(* Proofs about PrimaryCore for every committee, every set of faulty       *)
(* authorities and every universe of headers.  First: no step leaves the   *)
(* types, and certificates are unique.  Second: the store of a correct     *)
(* primary is a dag: certificates come after their ancestors, votes are    *)
(* cast for what is stored, and the Proposer proposes what every other     *)
(* primary accepts.  With the uniqueness of certificates the primaries     *)
(* implement CertifiedDag.                                                 *)
(***************************************************************************)
EXTENDS PrimaryCore, BasicProofs, SequenceTheorems

------------------------------------------------------------------------------
(* Types *)

(* The fields of a header, as functions of its digest. *)
LEMMA HeaderType ==
    ASSUME NEW h \in Digest
    PROVE  /\ author[h] \in Authority
           /\ round[h] \in Rounds /\ round[h] \in Nat
           /\ parents[h] \in SUBSET Digest
           /\ payload[h] \in SUBSET Batch
  BY PrimaryAssumption DEF author, round, parents, payload, Rounds

LEMMA RoundsType == Rounds \subseteq Nat
  BY HeaderType DEF Rounds

LEMMA StakeNat == \A a \in Authority : stake[a] \in Nat
  BY CommitteeAssumption

LEMMA QuorumNat == QuorumThreshold \in Nat
<1>1. TotalStake \in Nat
  BY StakeType DEF TotalStake
<1> QED
  BY <1>1 DEF QuorumThreshold

(* CertificatesAggregator::append keeps the type of the aggregator. *)
LEMMA AppendCertificateType ==
    ASSUME NEW agg \in Aggregator, NEW c \in Digest
    PROVE  AppendCertificate(agg, c) \in Aggregator
  BY HeaderType, StakeNat DEF AppendCertificate, Aggregator

LEMMA DeliverCertificateType ==
    ASSUME NEW s \in PrimaryState, NEW c \in Digest
    PROVE  DeliverCertificate(s, c) \in PrimaryState
<1> DEFINE agg == s.aggregators[round[c]]
           t == [s EXCEPT !.certificates = @ \cup {c}]
           m == [parents |-> agg.certificates \cup {c}, round |-> round[c]]
<1>1. /\ agg \in Aggregator
      /\ s.tx_proposer \in Seq([parents : SUBSET Digest, round : Rounds])
      /\ m \in [parents : SUBSET Digest, round : Rounds]
  BY HeaderType DEF PrimaryState, Aggregator
<1>2. t \in PrimaryState
  BY DEF PrimaryState
<1>3. [s EXCEPT !.certificate_waiter = @ \cup {c}] \in PrimaryState
  BY DEF PrimaryState
<1>4. AppendCertificate(agg, c) \in Aggregator
  BY <1>1, AppendCertificateType
<1>5. Append(s.tx_proposer, m) \in Seq([parents : SUBSET Digest, round : Rounds])
  BY <1>1
<1> DEFINE queue == IF agg.weight + stake[author[c]] >= QuorumThreshold
                    THEN Append(s.tx_proposer, m) ELSE s.tx_proposer
<1>6. queue \in Seq([parents : SUBSET Digest, round : Rounds])
  BY <1>1, <1>5
<1>7. [t EXCEPT !.aggregators[round[c]] = AppendCertificate(agg, c),
                !.tx_proposer = queue] \in PrimaryState
  <2> HIDE DEF queue
  <2> QED
    BY <1>4, <1>6, HeaderType DEF PrimaryState
<1> QED
  BY <1>2, <1>3, <1>7 DEF DeliverCertificate

LEMMA AppendVoteType ==
    ASSUME NEW s \in PrimaryState, NEW a \in Authority, NEW h \in Digest
    PROVE  AppendVote(s, a, h) \in PrimaryState
<1>1. s.weight + stake[a] \in Nat
  BY StakeNat DEF PrimaryState
<1>2. [s EXCEPT !.voters = @ \cup {a}, !.weight = 0,
                !.sent_certificates = @ \cup {h}] \in PrimaryState
  BY DEF PrimaryState
<1>3. [s EXCEPT !.voters = @ \cup {a}, !.weight = s.weight + stake[a]] \in PrimaryState
  BY <1>1 DEF PrimaryState
<1> QED
  BY <1>2, <1>3 DEF AppendVote

LEMMA OwnVoteType ==
    ASSUME NEW n \in Authority, NEW s \in PrimaryState, NEW h \in Digest
    PROVE  OwnVote(n, s, h) \in PrimaryState
<1> DEFINE u == [s EXCEPT !.sent_votes = @ \cup {h}]
           t == AppendVote(u, n, h)
<1>1. u \in PrimaryState
  BY DEF PrimaryState
<1>2. t \in PrimaryState
  BY <1>1, AppendVoteType
<1>3. DeliverCertificate(t, h) \in PrimaryState
  BY <1>2, DeliverCertificateType
<1>4. [s EXCEPT !.panicked = TRUE] \in PrimaryState
  BY DEF PrimaryState
<1> QED
  BY <1>2, <1>3, <1>4 DEF OwnVote

LEMMA VoteForType ==
    ASSUME NEW n \in Authority, NEW s \in PrimaryState, NEW h \in Digest
    PROVE  VoteFor(n, s, h) \in PrimaryState
<1> DEFINE t == [s EXCEPT !.last_voted = @ \cup {<<round[h], author[h]>>}]
<1>1. t \in PrimaryState
  BY HeaderType DEF PrimaryState
<1>2. OwnVote(n, t, h) \in PrimaryState
  BY <1>1, OwnVoteType
<1>3. [t EXCEPT !.sent_votes = @ \cup {h}] \in PrimaryState
  BY <1>1 DEF PrimaryState
<1> QED
  BY <1>2, <1>3 DEF VoteFor

LEMMA SuspendType ==
    ASSUME NEW s \in PrimaryState, NEW what \in {"parents", "batches"},
           NEW h \in Digest
    PROVE  Suspend(s, what, h) \in PrimaryState
<1> DEFINE Entries == {"parents", "batches"} \X Digest
           waiting == s.header_waiter \cup {<<what, h>>}
<1>1. waiting \in SUBSET Entries
  BY DEF PrimaryState
<1>2. [s EXCEPT !.header_waiter = waiting] \in PrimaryState
  <2> HIDE DEF waiting
  <2> QED
    BY <1>1 DEF PrimaryState
<1> QED
  BY <1>2 DEF Suspend

(* Each handler of Core returns a state of a primary. *)
LEMMA ProcessHeaderType ==
    ASSUME NEW n \in Authority, NEW s \in PrimaryState, NEW h \in Digest
    PROVE  ProcessHeader(n, s, h) \in PrimaryState
<1> DEFINE t == [s EXCEPT !.processing = @ \cup {h}]
           u == [t EXCEPT !.headers = @ \cup {h}]
<1>1. t \in PrimaryState /\ u \in PrimaryState
  BY DEF PrimaryState
<1>2. /\ Suspend(t, "parents", h) \in PrimaryState
      /\ Suspend(t, "batches", h) \in PrimaryState
  BY <1>1, SuspendType
<1>3. VoteFor(n, u, h) \in PrimaryState
  BY <1>1, VoteForType
<1> QED
  BY <1>1, <1>2, <1>3 DEF ProcessHeader

LEMMA ProcessCertificateType ==
    ASSUME NEW n \in Authority, NEW s \in PrimaryState, NEW c \in Digest
    PROVE  ProcessCertificate(n, s, c) \in PrimaryState
<1> DEFINE t == IF c \in s.processing THEN s ELSE ProcessHeader(n, s, c)
<1>1. t \in PrimaryState
  BY ProcessHeaderType
<1>2. DeliverCertificate(t, c) \in PrimaryState
  BY <1>1, DeliverCertificateType
<1> QED
  BY <1>1, <1>2 DEF ProcessCertificate

LEMMA ProcessVoteType ==
    ASSUME NEW n \in Authority, NEW s \in PrimaryState, NEW a \in Authority,
           s.current_header \in Digest
    PROVE  ProcessVote(n, s, a) \in PrimaryState
<1> DEFINE t == AppendVote(s, a, s.current_header)
<1>1. t \in PrimaryState
  BY AppendVoteType
<1>2. ProcessCertificate(n, t, s.current_header) \in PrimaryState
  BY <1>1, ProcessCertificateType
<1>3. [t EXCEPT !.panicked = TRUE] \in PrimaryState
  BY <1>1 DEF PrimaryState
<1> QED
  BY <1>1, <1>2, <1>3 DEF ProcessVote

LEMMA ProcessOwnHeaderType ==
    ASSUME NEW n \in Authority, NEW s \in PrimaryState, NEW h \in Digest
    PROVE  ProcessOwnHeader(n, s, h) \in PrimaryState
<1> DEFINE t == [s EXCEPT !.current_header = h, !.voters = {}, !.weight = 0,
                          !.sent_headers = @ \cup {h}]
<1>1. t \in PrimaryState
  BY DEF PrimaryState
<1> QED
  BY <1>1, ProcessHeaderType DEF ProcessOwnHeader

LEMMA CleanupType ==
    ASSUME NEW s \in PrimaryState, NEW last \in Nat
    PROVE  Cleanup(s, last) \in PrimaryState
<1>1. CASE last > GCDepth
  <2> DEFINE gc == last - GCDepth
             agg == [r \in Rounds |-> IF r >= gc THEN s.aggregators[r] ELSE NewAggregator]
  <2>1. gc \in Nat
    BY <1>1, PrimaryAssumption
  <2>2. agg \in [Rounds -> Aggregator]
    BY DEF PrimaryState, Aggregator, NewAggregator
  <2> HIDE DEF gc
  <2>3. [s EXCEPT !.gc_round = gc,
                  !.last_voted = {v \in @ : v[1] >= gc},
                  !.processing = {h \in @ : round[h] >= gc},
                  !.aggregators = agg] \in PrimaryState
    <3> HIDE DEF agg
    <3> QED
      BY <2>1, <2>2 DEF PrimaryState
  <2> QED
    BY <1>1, <2>3 DEF Cleanup, gc
<1>2. CASE ~(last > GCDepth)
  BY <1>2 DEF Cleanup
<1> QED
  BY <1>1, <1>2

(* What the steps outside the handlers do to one field. *)
LEMMA FieldTypes ==
    ASSUME NEW s \in PrimaryState
    PROVE  /\ \A e \in s.header_waiter : e[2] \in Digest
           /\ \A W \in SUBSET s.header_waiter : [s EXCEPT !.header_waiter = W] \in PrimaryState
           /\ s.certificate_waiter \subseteq Digest /\ s.certificates \subseteq Digest
           /\ \A c : [s EXCEPT !.certificate_waiter = @ \ {c}] \in PrimaryState
           /\ \A b \in Batch : [s EXCEPT !.payload = @ \cup {b}] \in PrimaryState
  BY ZenonT(60) DEF PrimaryState

LEMMA QueueType ==
    ASSUME NEW s \in PrimaryState,
           NEW q \in Seq([parents : SUBSET Digest, round : Rounds])
    PROVE  [s EXCEPT !.tx_proposer = q] \in PrimaryState
  BY DEF PrimaryState

(* An iteration of Core's loop ends with the cleanup. *)
LEMMA CoreStepType ==
    ASSUME TypeOK, NEW n \in Correct, NEW s \in PrimaryState, CoreStep(n, s)
    PROVE  /\ primary' \in [Correct -> PrimaryState]
           /\ consensus_round' \in [Correct -> Nat]
<1>1. Cleanup(s, consensus_round[n]) \in PrimaryState
  BY CleanupType DEF TypeOK
<1> QED
  BY <1>1 DEF CoreStep, TypeOK

LEMMA InitType == Init => TypeOK
<1> SUFFICES ASSUME Init PROVE TypeOK
  OBVIOUS
<1>1. InitPrimary \in PrimaryState
  <2>1. [r \in Rounds |-> NewAggregator] \in [Rounds -> Aggregator]
    BY DEF NewAggregator, Aggregator
  <2> DEFINE agg == [r \in Rounds |-> NewAggregator]
  <2> HIDE DEF agg
  <2> QED
    BY <2>1 DEF InitPrimary, PrimaryState, agg
<1>2. InitProposer \in ProposerState
  BY DEF InitProposer, ProposerState, Genesis
<1> QED
  BY <1>1, <1>2 DEF Init, TypeOK

LEMMA NextType == TypeOK /\ [Next]_vars => TypeOK'
<1> SUFFICES ASSUME TypeOK, [Next]_vars PROVE TypeOK'
  OBVIOUS
<1> USE DEF Correct
<1>1. ASSUME NEW n \in Correct, ReceiveHeader(n) PROVE TypeOK'
  <2>1. PICK h \in Digest :
          /\ CoreStep(n, IF primary[n].gc_round <= round[h]
                         THEN ProcessHeader(n, primary[n], h) ELSE primary[n])
          /\ UNCHANGED proposer
    BY <1>1 DEF ReceiveHeader, HeaderArrives
  <2>2. primary[n] \in PrimaryState /\ ProcessHeader(n, primary[n], h) \in PrimaryState
    BY ProcessHeaderType DEF TypeOK
  <2> QED
    BY <2>1, <2>2, CoreStepType DEF TypeOK
<1>2. ASSUME NEW n \in Correct, ReceiveVote(n) PROVE TypeOK'
  <2>1. PICK a \in Authority :
          /\ primary[n].current_header # NoHeader
          /\ CoreStep(n, ProcessVote(n, primary[n], a))
          /\ UNCHANGED proposer
    BY <1>2 DEF ReceiveVote, VoteArrives
  <2>2. primary[n] \in PrimaryState /\ primary[n].current_header \in Digest
    BY <2>1 DEF TypeOK, PrimaryState
  <2>3. ProcessVote(n, primary[n], a) \in PrimaryState
    BY <2>2, ProcessVoteType
  <2> QED
    BY <2>1, <2>3, CoreStepType DEF TypeOK
<1>3. ASSUME NEW n \in Correct, ReceiveCertificate(n) PROVE TypeOK'
  <2>1. PICK c \in Digest :
          /\ CoreStep(n, IF primary[n].gc_round <= round[c]
                         THEN ProcessCertificate(n, primary[n], c) ELSE primary[n])
          /\ UNCHANGED proposer
    BY <1>3 DEF ReceiveCertificate, CertificateArrives
  <2>2. primary[n] \in PrimaryState /\ ProcessCertificate(n, primary[n], c) \in PrimaryState
    BY ProcessCertificateType DEF TypeOK
  <2> QED
    BY <2>1, <2>2, CoreStepType DEF TypeOK
<1>4. ASSUME NEW n \in Correct, LoopbackHeader(n) PROVE TypeOK'
  <2>1. PICK e \in primary[n].header_waiter :
          /\ CoreStep(n, ProcessHeader(n, [primary[n] EXCEPT !.header_waiter = @ \ {e}], e[2]))
          /\ UNCHANGED proposer
    BY <1>4 DEF LoopbackHeader
  <2>2. /\ e[2] \in Digest
        /\ [primary[n] EXCEPT !.header_waiter = @ \ {e}] \in PrimaryState
    BY FieldTypes DEF TypeOK
  <2>3. ProcessHeader(n, [primary[n] EXCEPT !.header_waiter = @ \ {e}], e[2])
          \in PrimaryState
    BY <2>2, ProcessHeaderType
  <2> QED
    BY <2>1, <2>3, CoreStepType DEF TypeOK
<1>5. ASSUME NEW n \in Correct, LoopbackCertificate(n) PROVE TypeOK'
  <2>1. PICK c \in primary[n].certificate_waiter :
          /\ CoreStep(n, ProcessCertificate(n,
                            [primary[n] EXCEPT !.certificate_waiter = @ \ {c}], c))
          /\ UNCHANGED proposer
    BY <1>5 DEF LoopbackCertificate
  <2>2. /\ c \in Digest
        /\ [primary[n] EXCEPT !.certificate_waiter = @ \ {c}] \in PrimaryState
    BY FieldTypes DEF TypeOK
  <2>3. ProcessCertificate(n, [primary[n] EXCEPT !.certificate_waiter = @ \ {c}], c)
          \in PrimaryState
    BY <2>2, ProcessCertificateType
  <2> QED
    BY <2>1, <2>3, CoreStepType DEF TypeOK
<1>6. ASSUME NEW n \in Correct, ReceiveOwnHeader(n) PROVE TypeOK'
  <2>1. /\ proposer[n] \in ProposerState /\ proposer[n].tx_core \in Seq(Digest)
        /\ proposer[n].tx_core # << >>
    BY <1>6 DEF TypeOK, ProposerState, ReceiveOwnHeader
  <2>2. Head(proposer[n].tx_core) \in Digest /\ Tail(proposer[n].tx_core) \in Seq(Digest)
    BY <2>1
  <2>3. ProcessOwnHeader(n, primary[n], Head(proposer[n].tx_core)) \in PrimaryState
    BY <2>2, ProcessOwnHeaderType DEF TypeOK
  <2>4. proposer' \in [Correct -> ProposerState]
    <3>1. [proposer[n] EXCEPT !.tx_core = Tail(@)] \in ProposerState
      BY <2>1, <2>2 DEF ProposerState
    <3> QED
      BY <3>1, <1>6 DEF ReceiveOwnHeader, TypeOK
  <2> QED
    BY <1>6, <2>3, <2>4, CoreStepType DEF TypeOK, ReceiveOwnHeader
<1>7. ASSUME NEW n \in Correct, CancelHeaders(n) PROVE TypeOK'
  <2>1. PICK old, late :
          /\ late \subseteq primary[n].header_waiter
          /\ primary' = [primary EXCEPT ![n].header_waiter = (@ \ old) \cup late]
    BY <1>7, Zenon DEF CancelHeaders
  <2>2. [primary[n] EXCEPT !.header_waiter = (@ \ old) \cup late] \in PrimaryState
    BY <2>1, FieldTypes DEF TypeOK
  <2> QED
    BY <1>7, <2>1, <2>2 DEF TypeOK, CancelHeaders
<1>8. ASSUME NEW n \in Correct, MakeHeader(n) PROVE TypeOK'
  <2>1. PICK h \in Digest :
          /\ proposer' = [proposer EXCEPT ![n].last_parents = {},
                                          ![n].tx_core = Append(@, h),
                                          ![n].made = @ \cup {h}]
          /\ UNCHANGED <<primary, consensus_round>>
    BY <1>8 DEF MakeHeader
  <2>2. [proposer[n] EXCEPT !.last_parents = {}, !.tx_core = Append(@, h),
                            !.made = @ \cup {h}] \in ProposerState
    <3>1. Append(proposer[n].tx_core, h) \in Seq(Digest)
      BY DEF TypeOK, ProposerState
    <3> QED
      BY <3>1 DEF TypeOK, ProposerState
  <2> QED
    BY <2>1, <2>2 DEF TypeOK
<1>9. ASSUME NEW n \in Correct, ReceiveParents(n) PROVE TypeOK'
  <2> DEFINE m == Head(primary[n].tx_proposer)
             Q == [parents : SUBSET Digest, round : Rounds]
  <2>1. primary[n].tx_proposer \in Seq(Q) /\ primary[n].tx_proposer # << >>
    BY <1>9 DEF TypeOK, PrimaryState, ReceiveParents
  <2>2. m \in Q /\ Tail(primary[n].tx_proposer) \in Seq(Q)
    <3> HIDE DEF Q
    <3> QED
      BY <2>1
  <2>3. [primary[n] EXCEPT !.tx_proposer = Tail(@)] \in PrimaryState
    BY <2>2, QueueType DEF TypeOK
  <2>4. [proposer[n] EXCEPT !.round = m.round + 1, !.last_parents = m.parents]
          \in ProposerState
    <3>1. m.round + 1 \in Nat /\ m.parents \in SUBSET Digest
      <4>1. ASSUME NEW q \in Q PROVE q.round + 1 \in Nat /\ q.parents \in SUBSET Digest
        <5>1. q.round \in Rounds /\ q.parents \in SUBSET Digest
          OBVIOUS
        <5>2. q.round \in Nat
          BY <5>1, RoundsType
        <5> QED
          BY <5>1, <5>2
      <4> QED
        BY <2>2, <4>1
    <3> QED
      BY <3>1 DEF TypeOK, ProposerState
  <2> QED
    BY <1>9, <2>3, <2>4 DEF TypeOK, ReceiveParents
<1>10. ASSUME NEW n \in Correct, ReceivePayload(n) PROVE TypeOK'
  <2>1. PICK b \in Batch :
          /\ primary' = [primary EXCEPT ![n].payload = @ \cup {b}]
          /\ UNCHANGED <<proposer, consensus_round>>
    BY <1>10 DEF ReceivePayload
  <2>2. [primary[n] EXCEPT !.payload = @ \cup {b}] \in PrimaryState
    BY FieldTypes DEF TypeOK
  <2> QED
    BY <2>1, <2>2 DEF TypeOK
<1>11. ASSUME NEW n \in Correct, Commit(n) PROVE TypeOK'
  <2>1. PICK c \in primary[n].certificates :
          /\ consensus_round' = [consensus_round EXCEPT ![n] = round[c]]
          /\ UNCHANGED <<primary, proposer>>
    BY <1>11 DEF Commit
  <2>2. round[c] \in Nat
    <3>1. c \in Digest
      BY DEF TypeOK, PrimaryState
    <3> QED
      BY <3>1, HeaderType
  <2> QED
    BY <2>1, <2>2 DEF TypeOK
<1>12. CASE UNCHANGED vars
  BY <1>12 DEF vars, TypeOK
<1> QED
  BY <1>1, <1>2, <1>3, <1>4, <1>5, <1>6, <1>7, <1>8, <1>9, <1>10, <1>11, <1>12 DEF Next

(* TypeOK holds in every reachable state: whatever the other authorities   *)
(* send, no handler of Core leaves the types the code declares.            *)
THEOREM TypeCorrect == Spec => []TypeOK
<1>1. Init => TypeOK
  BY InitType
<1>2. TypeOK /\ [Next]_vars => TypeOK'
  BY NextType
<1> QED
  BY <1>1, <1>2, PTL DEF Spec

------------------------------------------------------------------------------
(***************************************************************************)
(* The safety of the mempool: a correct primary votes once per slot and    *)
(* proposes once per round, hence at most one header of a slot gets a      *)
(* certificate, for every committee whose faulty authorities hold less     *)
(* than f+1 stake and every universe of headers.                           *)
(***************************************************************************)

------------------------------------------------------------------------------
(* One vote per slot *)

(* last_voted remembers every vote of a round that is not yet collected.   *)
VotesRecorded(s) ==
    \A h \in s.sent_votes :
        round[h] >= s.gc_round => <<round[h], author[h]>> \in s.last_voted

VotesDistinct(s) ==
    \A h1, h2 \in s.sent_votes :
        SameSlot(h1, h2) /\ h1 # h2 => round[h1] < s.gc_round

VotesGood(s) == VotesRecorded(s) /\ VotesDistinct(s)

(* The step does not touch what the two facts speak of. *)
SameVotes(t, s) ==
    /\ t.sent_votes = s.sent_votes
    /\ t.last_voted = s.last_voted
    /\ t.gc_round = s.gc_round

LEMMA SameVotesGood ==
    ASSUME NEW s, NEW t, SameVotes(t, s), VotesGood(s)
    PROVE  VotesGood(t)
  BY DEF SameVotes, VotesGood, VotesRecorded, VotesDistinct

LEMMA DeliverCertificateVotes ==
    ASSUME NEW s \in PrimaryState, NEW c \in Digest
    PROVE  SameVotes(DeliverCertificate(s, c), s)
  BY DEF DeliverCertificate, SameVotes, PrimaryState

LEMMA AppendVoteVotes ==
    ASSUME NEW s \in PrimaryState, NEW a \in Authority, NEW h \in Digest
    PROVE  SameVotes(AppendVote(s, a, h), s)
  BY DEF AppendVote, SameVotes, PrimaryState

LEMMA SuspendVotes ==
    ASSUME NEW s \in PrimaryState, NEW what, NEW h \in Digest
    PROVE  SameVotes(Suspend(s, what, h), s)
  BY DEF Suspend, SameVotes, PrimaryState

(* Voting in a slot that is not yet in last_voted, and recording it. *)
LEMMA NewVote ==
    ASSUME NEW s \in PrimaryState, NEW t \in PrimaryState, NEW h \in Digest,
           VotesGood(s),
           <<round[h], author[h]>> \notin s.last_voted,
           t.sent_votes = s.sent_votes \cup {h},
           t.last_voted = s.last_voted \cup {<<round[h], author[h]>>},
           t.gc_round = s.gc_round
    PROVE  VotesGood(t)
<1>1. s.gc_round \in Nat /\ s.sent_votes \subseteq Digest
  BY DEF PrimaryState
<1>2. VotesRecorded(t)
  BY DEF VotesGood, VotesRecorded
<1>3. VotesDistinct(t)
  <2> SUFFICES ASSUME NEW h1 \in t.sent_votes, NEW h2 \in t.sent_votes,
                      SameSlot(h1, h2), h1 # h2
               PROVE  round[h1] < t.gc_round
    BY DEF VotesDistinct
  <2>1. round[h1] \in Nat /\ round[h1] = round[h2] /\ author[h1] = author[h2]
    BY <1>1, HeaderType DEF SameSlot
  <2>2. CASE h1 = h \/ h2 = h
    <3>1. PICK g \in s.sent_votes : round[g] = round[h] /\ author[g] = author[h]
                                   /\ round[g] = round[h1]
      BY <2>1, <2>2
    <3>2. ~(round[g] >= s.gc_round)
      BY <3>1, Zenon DEF VotesGood, VotesRecorded
    <3> QED
      BY <1>1, <2>1, <3>1, <3>2
  <2>3. CASE h1 # h /\ h2 # h
    BY <2>3 DEF VotesGood, VotesDistinct
  <2> QED
    BY <2>2, <2>3
<1> QED
  BY <1>2, <1>3 DEF VotesGood

(* What every handler of Core does to the votes. *)
KeepsVotes(t, s) == (VotesGood(s) => VotesGood(t)) /\ t.gc_round = s.gc_round

LEMMA SameKeeps ==
    ASSUME NEW s, NEW t, SameVotes(t, s)
    PROVE  KeepsVotes(t, s)
  BY SameVotesGood DEF KeepsVotes, SameVotes

LEMMA KeepsTransitive ==
    ASSUME NEW s, NEW t, NEW u, KeepsVotes(t, s), KeepsVotes(u, t)
    PROVE  KeepsVotes(u, s)
  BY DEF KeepsVotes

LEMMA VoteForVotes ==
    ASSUME NEW n \in Authority, NEW s \in PrimaryState, NEW h \in Digest
    PROVE  KeepsVotes(VoteFor(n, s, h), s)
<1> DEFINE slot == <<round[h], author[h]>>
           t == [s EXCEPT !.last_voted = @ \cup {slot}]
           u == [t EXCEPT !.sent_votes = @ \cup {h}]
           w == AppendVote(u, n, h)
<1>1. CASE slot \in s.last_voted
  <2>1. VoteFor(n, s, h) = s
    BY <1>1 DEF VoteFor
  <2> QED
    BY <2>1 DEF KeepsVotes
<1>2. CASE slot \notin s.last_voted
  <2>1. t \in PrimaryState /\ u \in PrimaryState /\ w \in PrimaryState
    <3>1. t \in PrimaryState
      BY HeaderType DEF PrimaryState
    <3>2. \A v \in PrimaryState : [v EXCEPT !.sent_votes = @ \cup {h}] \in PrimaryState
      BY SMTT(30) DEF PrimaryState
    <3> HIDE DEF t
    <3>3. u \in PrimaryState
      BY <3>1, <3>2
    <3> QED
      BY <3>1, <3>3, AppendVoteType
  <2>2. /\ u.sent_votes = s.sent_votes \cup {h}
        /\ u.last_voted = s.last_voted \cup {slot}
        /\ u.gc_round = s.gc_round
    BY DEF PrimaryState
  <2>3. KeepsVotes(u, s)
    <3> HIDE DEF u
    <3> QED
      BY <1>2, <2>1, <2>2, NewVote DEF KeepsVotes
  <2>4. KeepsVotes(w, u) /\ KeepsVotes(DeliverCertificate(w, h), w)
    BY <2>1, AppendVoteVotes, DeliverCertificateVotes, SameKeeps
  <2>5. KeepsVotes(w, s) /\ KeepsVotes(DeliverCertificate(w, h), s)
    BY <2>3, <2>4, KeepsTransitive
  <2>6. KeepsVotes([t EXCEPT !.panicked = TRUE], s)
    <3> DEFINE p == [t EXCEPT !.panicked = TRUE]
    <3>1. /\ p.sent_votes = s.sent_votes
          /\ p.last_voted = s.last_voted \cup {slot}
          /\ p.gc_round = s.gc_round
      BY DEF PrimaryState
    <3> HIDE DEF p
    <3>2. KeepsVotes(p, s)
      BY <3>1 DEF KeepsVotes, VotesGood, VotesRecorded, VotesDistinct
    <3> QED
      BY <3>2 DEF p
  <2>7. VoteFor(n, s, h) \in {u, w, DeliverCertificate(w, h), [t EXCEPT !.panicked = TRUE]}
    BY <1>2 DEF VoteFor, OwnVote
  <2> QED
    BY <2>3, <2>5, <2>6, <2>7
<1> QED
  BY <1>1, <1>2

LEMMA ProcessHeaderVotes ==
    ASSUME NEW n \in Authority, NEW s \in PrimaryState, NEW h \in Digest
    PROVE  KeepsVotes(ProcessHeader(n, s, h), s)
<1> DEFINE t == [s EXCEPT !.processing = @ \cup {h}]
           u == [t EXCEPT !.headers = @ \cup {h}]
<1>1. t \in PrimaryState /\ u \in PrimaryState
  BY DEF PrimaryState
<1>2. KeepsVotes(t, s) /\ KeepsVotes(u, s)
  <2>1. SameVotes(t, s) /\ SameVotes(u, s)
    BY DEF SameVotes, PrimaryState
  <2> QED
    BY <2>1, SameKeeps
<1>3. ASSUME NEW what PROVE KeepsVotes(Suspend(t, what, h), s)
  <2>1. KeepsVotes(Suspend(t, what, h), t)
    BY <1>1, SuspendVotes, SameKeeps
  <2> QED
    BY <1>2, <2>1, KeepsTransitive
<1>4. KeepsVotes(VoteFor(n, u, h), s)
  <2>1. KeepsVotes(VoteFor(n, u, h), u)
    BY <1>1, VoteForVotes
  <2> QED
    BY <1>2, <2>1, KeepsTransitive
<1>5. ProcessHeader(n, s, h) \in
        {t, Suspend(t, "parents", h), Suspend(t, "batches", h), VoteFor(n, u, h)}
  BY DEF ProcessHeader
<1> QED
  BY <1>2, <1>3, <1>4, <1>5

LEMMA ProcessCertificateVotes ==
    ASSUME NEW n \in Authority, NEW s \in PrimaryState, NEW c \in Digest
    PROVE  KeepsVotes(ProcessCertificate(n, s, c), s)
<1> DEFINE t == IF c \in s.processing THEN s ELSE ProcessHeader(n, s, c)
<1>1. t \in PrimaryState
  BY ProcessHeaderType
<1>2. KeepsVotes(t, s)
  BY ProcessHeaderVotes DEF KeepsVotes
<1>3. KeepsVotes(DeliverCertificate(t, c), t)
  BY <1>1, DeliverCertificateVotes, SameKeeps
<1>4. KeepsVotes(DeliverCertificate(t, c), s)
  BY <1>2, <1>3, KeepsTransitive
<1>5. ProcessCertificate(n, s, c) \in {t, DeliverCertificate(t, c)}
  BY DEF ProcessCertificate
<1> QED
  BY <1>2, <1>4, <1>5

LEMMA ProcessVoteVotes ==
    ASSUME NEW n \in Authority, NEW s \in PrimaryState, NEW a \in Authority,
           s.current_header \in Digest
    PROVE  KeepsVotes(ProcessVote(n, s, a), s)
<1> DEFINE c == s.current_header
           t == AppendVote(s, a, c)
           p == [t EXCEPT !.panicked = TRUE]
<1>1. t \in PrimaryState
  BY AppendVoteType
<1>2. KeepsVotes(t, s)
  BY AppendVoteVotes, SameKeeps
<1>3. KeepsVotes(p, t)
  <2>1. SameVotes(p, t)
    <3> HIDE DEF t
    <3> QED
      BY <1>1 DEF SameVotes, PrimaryState
  <2> QED
    BY <2>1, SameKeeps
<1>4. KeepsVotes(ProcessCertificate(n, t, c), t)
  BY <1>1, ProcessCertificateVotes
<1>5. KeepsVotes(p, s) /\ KeepsVotes(ProcessCertificate(n, t, c), s)
  BY <1>2, <1>3, <1>4, KeepsTransitive
<1>6. ProcessVote(n, s, a) \in {s, t, p, ProcessCertificate(n, t, c)}
  BY DEF ProcessVote
<1>7. KeepsVotes(s, s)
  BY DEF KeepsVotes
<1> QED
  BY <1>2, <1>5, <1>6, <1>7

LEMMA ProcessOwnHeaderVotes ==
    ASSUME NEW n \in Authority, NEW s \in PrimaryState, NEW h \in Digest
    PROVE  KeepsVotes(ProcessOwnHeader(n, s, h), s)
<1> DEFINE t == [s EXCEPT !.current_header = h, !.voters = {}, !.weight = 0,
                          !.sent_headers = @ \cup {h}]
<1>1. t \in PrimaryState /\ SameVotes(t, s)
  BY DEF PrimaryState, SameVotes
<1>2. KeepsVotes(t, s) /\ KeepsVotes(ProcessHeader(n, t, h), t)
  BY <1>1, SameKeeps, ProcessHeaderVotes
<1> QED
  BY <1>2, KeepsTransitive DEF ProcessOwnHeader

(* gc_round trails the last committed round by gc_depth: it never moves    *)
(* back, since the GarbageCollector only moves the committed round up.     *)
Trails(gc, last) == gc = 0 \/ gc + GCDepth <= last

VoteInv ==
    \A n \in Correct :
        VotesGood(primary[n]) /\ Trails(primary[n].gc_round, consensus_round[n])

LEMMA CleanupVotes ==
    ASSUME NEW s \in PrimaryState, NEW last \in Nat,
           VotesGood(s), Trails(s.gc_round, last)
    PROVE  /\ VotesGood(Cleanup(s, last))
           /\ Trails(Cleanup(s, last).gc_round, last)
<1>1. CASE last > GCDepth
  <2> DEFINE gc == last - GCDepth
             t == Cleanup(s, last)
  <2>1. /\ t.gc_round = gc
        /\ t.sent_votes = s.sent_votes
        /\ t.last_voted = {v \in s.last_voted : v[1] >= gc}
    BY <1>1 DEF Cleanup, PrimaryState
  <2>2. gc \in Nat /\ s.gc_round \in Nat /\ s.gc_round <= gc /\ gc + GCDepth = last
    BY <1>1, PrimaryAssumption DEF Trails, PrimaryState
  <2>3. \A h \in s.sent_votes : round[h] \in Nat
    BY HeaderType DEF PrimaryState
  <2> HIDE DEF gc, t
  <2>4. VotesRecorded(t)
    <3> SUFFICES ASSUME NEW h \in s.sent_votes, round[h] >= gc
                 PROVE  <<round[h], author[h]>> \in t.last_voted
      BY <2>1 DEF VotesRecorded
    <3>1. round[h] >= s.gc_round
      BY <2>2, <2>3
    <3>2. <<round[h], author[h]>> \in s.last_voted
      BY <3>1 DEF VotesGood, VotesRecorded
    <3> QED
      BY <3>2, <2>1
  <2>5. VotesDistinct(t)
    <3> SUFFICES ASSUME NEW h1 \in s.sent_votes, NEW h2 \in s.sent_votes,
                        SameSlot(h1, h2), h1 # h2
                 PROVE  round[h1] < gc
      BY <2>1 DEF VotesDistinct
    <3>1. round[h1] < s.gc_round
      BY DEF VotesGood, VotesDistinct
    <3> QED
      BY <3>1, <2>2, <2>3
  <2>6. Trails(t.gc_round, last)
    BY <2>1, <2>2 DEF Trails
  <2> QED
    BY <2>4, <2>5, <2>6 DEF VotesGood, t
<1>2. CASE ~(last > GCDepth)
  BY <1>2 DEF Cleanup
<1> QED
  BY <1>1, <1>2

LEMMA CoreStepVotes ==
    ASSUME TypeOK, VoteInv, NEW n \in Correct, NEW s \in PrimaryState,
           KeepsVotes(s, primary[n]), CoreStep(n, s)
    PROVE  VoteInv'
<1>1. VotesGood(s) /\ Trails(s.gc_round, consensus_round[n])
  BY DEF VoteInv, KeepsVotes
<1>2. /\ VotesGood(Cleanup(s, consensus_round[n]))
      /\ Trails(Cleanup(s, consensus_round[n]).gc_round, consensus_round[n])
  BY <1>1, CleanupVotes DEF TypeOK
<1>3. primary' = [primary EXCEPT ![n] = primary'[n]] /\ UNCHANGED consensus_round
  BY DEF CoreStep, TypeOK
<1>4. VotesGood(primary'[n]) /\ Trails(primary'[n].gc_round, consensus_round[n])
  BY <1>1, <1>2 DEF CoreStep, TypeOK
<1>5. ASSUME NEW m \in Correct
      PROVE  VotesGood(primary'[m]) /\ Trails(primary'[m].gc_round, consensus_round[m])
  <2>1. CASE m = n
    BY <1>4, <2>1
  <2>2. CASE m # n
    <3>1. primary'[m] = primary[m]
      BY <1>3, <2>2 DEF TypeOK
    <3> QED
      BY <3>1 DEF VoteInv
  <2> QED
    BY <2>1, <2>2
<1> QED
  BY <1>3, <1>5 DEF VoteInv

(* A step outside Core leaves the votes alone. *)
LEMMA OtherStepVotes ==
    ASSUME TypeOK, VoteInv,
           \A m \in Correct : SameVotes(primary'[m], primary[m]),
           UNCHANGED consensus_round
    PROVE  VoteInv'
<1>1. ASSUME NEW m \in Correct
      PROVE  VotesGood(primary'[m]) /\ Trails(primary'[m].gc_round, consensus_round[m])
  <2>1. VotesGood(primary'[m])
    BY SameVotesGood DEF VoteInv
  <2>2. primary'[m].gc_round = primary[m].gc_round
    BY DEF SameVotes
  <2> QED
    BY <2>1, <2>2 DEF VoteInv
<1> QED
  BY <1>1 DEF VoteInv

LEMMA NextVotes == TypeOK /\ VoteInv /\ [Next]_vars => VoteInv'
<1> SUFFICES ASSUME TypeOK, VoteInv, [Next]_vars PROVE VoteInv'
  OBVIOUS
<1> USE DEF Correct
<1>0. \A n \in Correct : primary[n] \in PrimaryState
  BY DEF TypeOK
<1>1. ASSUME NEW n \in Correct, ReceiveHeader(n) PROVE VoteInv'
  <2>1. PICK h \in Digest :
          CoreStep(n, IF primary[n].gc_round <= round[h]
                      THEN ProcessHeader(n, primary[n], h) ELSE primary[n])
    BY <1>1 DEF ReceiveHeader, HeaderArrives
  <2>2. /\ ProcessHeader(n, primary[n], h) \in PrimaryState
        /\ KeepsVotes(ProcessHeader(n, primary[n], h), primary[n])
        /\ KeepsVotes(primary[n], primary[n])
    BY <1>0, ProcessHeaderType, ProcessHeaderVotes DEF KeepsVotes
  <2> QED
    BY <1>0, <2>1, <2>2, CoreStepVotes
<1>2. ASSUME NEW n \in Correct, ReceiveVote(n) PROVE VoteInv'
  <2>1. PICK a \in Authority :
          /\ primary[n].current_header # NoHeader
          /\ CoreStep(n, ProcessVote(n, primary[n], a))
    BY <1>2 DEF ReceiveVote, VoteArrives
  <2>2. primary[n].current_header \in Digest
    BY <1>0, <2>1 DEF PrimaryState
  <2>3. /\ ProcessVote(n, primary[n], a) \in PrimaryState
        /\ KeepsVotes(ProcessVote(n, primary[n], a), primary[n])
    BY <1>0, <2>2, ProcessVoteType, ProcessVoteVotes
  <2> QED
    BY <2>1, <2>3, CoreStepVotes
<1>3. ASSUME NEW n \in Correct, ReceiveCertificate(n) PROVE VoteInv'
  <2>1. PICK c \in Digest :
          CoreStep(n, IF primary[n].gc_round <= round[c]
                      THEN ProcessCertificate(n, primary[n], c) ELSE primary[n])
    BY <1>3 DEF ReceiveCertificate, CertificateArrives
  <2>2. /\ ProcessCertificate(n, primary[n], c) \in PrimaryState
        /\ KeepsVotes(ProcessCertificate(n, primary[n], c), primary[n])
        /\ KeepsVotes(primary[n], primary[n])
    BY <1>0, ProcessCertificateType, ProcessCertificateVotes DEF KeepsVotes
  <2> QED
    BY <1>0, <2>1, <2>2, CoreStepVotes
<1>4. ASSUME NEW n \in Correct, LoopbackHeader(n) PROVE VoteInv'
  <2>1. PICK e \in primary[n].header_waiter :
          CoreStep(n, ProcessHeader(n, [primary[n] EXCEPT !.header_waiter = @ \ {e}], e[2]))
    BY <1>4 DEF LoopbackHeader
  <2> DEFINE t == [primary[n] EXCEPT !.header_waiter = @ \ {e}]
  <2>2. e[2] \in Digest /\ t \in PrimaryState
    BY <1>0, FieldTypes
  <2>3. KeepsVotes(t, primary[n])
    <3>1. SameVotes(t, primary[n])
      BY <1>0 DEF SameVotes, PrimaryState
    <3> QED
      BY <3>1, SameKeeps
  <2> HIDE DEF t
  <2>4. /\ ProcessHeader(n, t, e[2]) \in PrimaryState
        /\ KeepsVotes(ProcessHeader(n, t, e[2]), t)
    BY <2>2, ProcessHeaderType, ProcessHeaderVotes
  <2>5. KeepsVotes(ProcessHeader(n, t, e[2]), primary[n])
    BY <2>3, <2>4, KeepsTransitive
  <2> QED
    BY <2>1, <2>4, <2>5, CoreStepVotes DEF t
<1>5. ASSUME NEW n \in Correct, LoopbackCertificate(n) PROVE VoteInv'
  <2>1. PICK c \in primary[n].certificate_waiter :
          CoreStep(n, ProcessCertificate(n,
                         [primary[n] EXCEPT !.certificate_waiter = @ \ {c}], c))
    BY <1>5 DEF LoopbackCertificate
  <2> DEFINE t == [primary[n] EXCEPT !.certificate_waiter = @ \ {c}]
  <2>2. c \in Digest /\ t \in PrimaryState
    BY <1>0, FieldTypes
  <2>3. KeepsVotes(t, primary[n])
    <3>1. SameVotes(t, primary[n])
      BY <1>0 DEF SameVotes, PrimaryState
    <3> QED
      BY <3>1, SameKeeps
  <2> HIDE DEF t
  <2>4. /\ ProcessCertificate(n, t, c) \in PrimaryState
        /\ KeepsVotes(ProcessCertificate(n, t, c), t)
    BY <2>2, ProcessCertificateType, ProcessCertificateVotes
  <2>5. KeepsVotes(ProcessCertificate(n, t, c), primary[n])
    BY <2>3, <2>4, KeepsTransitive
  <2> QED
    BY <2>1, <2>4, <2>5, CoreStepVotes DEF t
<1>6. ASSUME NEW n \in Correct, ReceiveOwnHeader(n) PROVE VoteInv'
  <2> DEFINE h == Head(proposer[n].tx_core)
  <2>1. h \in Digest
    <3>1. proposer[n].tx_core \in Seq(Digest) /\ proposer[n].tx_core # << >>
      BY <1>6 DEF TypeOK, ProposerState, ReceiveOwnHeader
    <3> QED
      BY <3>1
  <2>2. /\ ProcessOwnHeader(n, primary[n], h) \in PrimaryState
        /\ KeepsVotes(ProcessOwnHeader(n, primary[n], h), primary[n])
    BY <1>0, <2>1, ProcessOwnHeaderType, ProcessOwnHeaderVotes
  <2> QED
    BY <1>6, <2>2, CoreStepVotes DEF ReceiveOwnHeader
<1>7. ASSUME NEW n \in Correct, CancelHeaders(n) PROVE VoteInv'
  <2>1. PICK W : primary' = [primary EXCEPT ![n].header_waiter = W]
    BY <1>7 DEF CancelHeaders
  <2>2. \A m \in Correct : SameVotes(primary'[m], primary[m])
    BY <1>0, <2>1 DEF SameVotes, PrimaryState, TypeOK
  <2> QED
    BY <1>7, <2>2, OtherStepVotes DEF CancelHeaders
<1>8. ASSUME NEW n \in Correct, MakeHeader(n) PROVE VoteInv'
  <2>1. UNCHANGED <<primary, consensus_round>>
    BY <1>8 DEF MakeHeader
  <2> QED
    BY <2>1, OtherStepVotes DEF SameVotes
<1>9. ASSUME NEW n \in Correct, ReceiveParents(n) PROVE VoteInv'
  <2>1. PICK q : primary' = [primary EXCEPT ![n].tx_proposer = q]
    BY <1>9 DEF ReceiveParents
  <2>2. \A m \in Correct : SameVotes(primary'[m], primary[m])
    BY <1>0, <2>1 DEF SameVotes, PrimaryState, TypeOK
  <2> QED
    BY <1>9, <2>2, OtherStepVotes DEF ReceiveParents
<1>10. ASSUME NEW n \in Correct, ReceivePayload(n) PROVE VoteInv'
  <2>1. PICK P : primary' = [primary EXCEPT ![n].payload = P]
    BY <1>10 DEF ReceivePayload
  <2>2. \A m \in Correct : SameVotes(primary'[m], primary[m])
    BY <1>0, <2>1 DEF SameVotes, PrimaryState, TypeOK
  <2> QED
    BY <1>10, <2>2, OtherStepVotes DEF ReceivePayload
<1>11. ASSUME NEW n \in Correct, Commit(n) PROVE VoteInv'
  <2>1. PICK c \in primary[n].certificates :
          /\ round[c] > consensus_round[n]
          /\ consensus_round' = [consensus_round EXCEPT ![n] = round[c]]
          /\ UNCHANGED primary
    BY <1>11 DEF Commit
  <2>2. c \in Digest /\ round[c] \in Nat
    BY <1>0, FieldTypes, HeaderType
  <2>3. ASSUME NEW m \in Correct
        PROVE  Trails(primary[m].gc_round, consensus_round'[m])
    <3>1. /\ consensus_round[m] \in Nat /\ primary[m].gc_round \in Nat
          /\ consensus_round'[m] \in Nat
          /\ consensus_round'[m] >= consensus_round[m]
      BY <1>0, <2>1, <2>2 DEF TypeOK, PrimaryState
    <3> QED
      BY <3>1, PrimaryAssumption DEF VoteInv, Trails
  <2> QED
    BY <2>1, <2>3 DEF VoteInv
<1>12. CASE UNCHANGED vars
  BY <1>12 DEF vars, VoteInv
<1> QED
  BY <1>1, <1>2, <1>3, <1>4, <1>5, <1>6, <1>7, <1>8, <1>9, <1>10, <1>11, <1>12 DEF Next

(* The inductive invariant behind VoteOnce. *)
LEMMA VoteInvariant == Spec => []VoteInv
<1>1. Init => VoteInv
  BY DEF Init, InitPrimary, VoteInv, VotesGood, VotesRecorded, VotesDistinct, Trails
<1> QED
  BY <1>1, NextVotes, TypeCorrect, PTL DEF Spec

(* VoteOnce: a correct primary signs at most one vote per author and       *)
(* round, down to the round its garbage collection has reached, whatever   *)
(* it is sent and however its tasks interleave.                            *)
THEOREM OneVotePerSlot == Spec => []VoteOnce
<1>1. VoteInv => VoteOnce
  BY DEF VoteInv, VotesGood, VotesDistinct, VoteOnce
<1> QED
  BY <1>1, VoteInvariant, PTL

------------------------------------------------------------------------------
(***************************************************************************)
(* A correct primary signs one header per round, and what it certifies is  *)
(* what it proposed; with one vote per slot and the intersection of        *)
(* quorums, certificates are unique.                                       *)
(***************************************************************************)

------------------------------------------------------------------------------
(* The Proposer *)

(* The Proposer holds parents only while it has not yet proposed in its    *)
(* round, and it never proposed beyond its round.                          *)
ProposerInv ==
    \A n \in Correct :
        /\ \A h \in proposer[n].made : author[h] = n /\ round[h] <= proposer[n].round
        /\ proposer[n].last_parents # {}
              => \A h \in proposer[n].made : round[h] < proposer[n].round
        /\ \A h1, h2 \in proposer[n].made : round[h1] = round[h2] => h1 = h2

LEMMA NextProposer == TypeOK /\ ProposerInv /\ [Next]_vars => ProposerInv'
<1> SUFFICES ASSUME TypeOK, ProposerInv, [Next]_vars PROVE ProposerInv'
  OBVIOUS
<1>0. \A n \in Correct : /\ proposer[n].made \subseteq Digest
                         /\ proposer[n].round \in Nat
  BY DEF TypeOK, ProposerState
<1>1. ASSUME NEW n \in Correct, MakeHeader(n) PROVE ProposerInv'
  <2>1. PICK h \in Digest :
          /\ proposer[n].last_parents # {}
          /\ author[h] = n
          /\ round[h] = proposer[n].round
          /\ proposer' = [proposer EXCEPT ![n].last_parents = {},
                                          ![n].tx_core = Append(@, h),
                                          ![n].made = @ \cup {h}]
    BY <1>1 DEF MakeHeader
  <2>2. /\ proposer'[n].last_parents = {}
        /\ proposer'[n].round = proposer[n].round
        /\ proposer'[n].made = proposer[n].made \cup {h}
        /\ \A m \in Correct \ {n} : proposer'[m] = proposer[m]
    BY <2>1 DEF TypeOK, ProposerState
  <2>3. \A g \in proposer[n].made : round[g] \in Nat /\ round[g] < round[h]
    BY <1>0, <2>1, HeaderType DEF ProposerInv
  <2> DEFINE M == proposer[n].made
  <2>4. /\ \A h1, h2 \in M : round[h1] = round[h2] => h1 = h2
        /\ \A g \in M : author[g] = n
    BY DEF ProposerInv
  <2>5. round[h] \in Nat
    BY HeaderType
  <2> HIDE DEF M
  <2>6. \A h1, h2 \in M \cup {h} : round[h1] = round[h2] => h1 = h2
    BY <2>3, <2>4, <2>5 DEF M
  <2>7. \A g \in M \cup {h} : author[g] = n /\ round[g] <= round[h]
    BY <2>1, <2>3, <2>4, <2>5 DEF M
  <2>8. proposer'[n].made = M \cup {h} /\ proposer'[n].round = round[h]
    BY <2>1, <2>2 DEF M
  <2> QED
    BY <2>2, <2>6, <2>7, <2>8 DEF ProposerInv
<1>2. ASSUME NEW n \in Correct, ReceiveParents(n) PROVE ProposerInv'
  <2> DEFINE m == Head(primary[n].tx_proposer)
             q == m.round
  <2>1. CASE UNCHANGED proposer
    BY <2>1 DEF ProposerInv
  <2>2. CASE /\ ~(q < proposer[n].round)
             /\ proposer' = [proposer EXCEPT ![n].round = q + 1,
                                             ![n].last_parents = m.parents]
    <3>1. q \in Nat
      <4> DEFINE Q == [parents : SUBSET Digest, round : Rounds]
      <4>1. primary[n].tx_proposer \in Seq(Q) /\ primary[n].tx_proposer # << >>
        BY <1>2 DEF TypeOK, PrimaryState, ReceiveParents
      <4>2. m \in Q
        <5> HIDE DEF Q
        <5> QED
          BY <4>1
      <4>3. \A x \in Q : x.round \in Rounds
        OBVIOUS
      <4> QED
        BY <4>2, <4>3, RoundsType
    <3> HIDE DEF q
    <3>2. /\ proposer'[n].round = q + 1
          /\ proposer'[n].made = proposer[n].made
          /\ \A k \in Correct \ {n} : proposer'[k] = proposer[k]
      BY <2>2 DEF TypeOK, ProposerState
    <3>3. \A g \in proposer[n].made : round[g] \in Nat /\ round[g] < q + 1
      BY <1>0, <2>2, <3>1, HeaderType DEF ProposerInv
    <3> QED
      BY <3>1, <3>2, <3>3 DEF ProposerInv
  <2> QED
    BY <1>2, <2>1, <2>2 DEF ReceiveParents
<1>3. ASSUME NEW n \in Correct, ReceiveOwnHeader(n) PROVE ProposerInv'
  <2>1. \A m \in Correct : /\ proposer'[m].made = proposer[m].made
                           /\ proposer'[m].round = proposer[m].round
                           /\ proposer'[m].last_parents = proposer[m].last_parents
    BY <1>3 DEF ReceiveOwnHeader, TypeOK, ProposerState
  <2> QED
    BY <2>1 DEF ProposerInv
<1>4. CASE UNCHANGED proposer
  BY <1>4 DEF ProposerInv
<1> QED
  BY <1>1, <1>2, <1>3, <1>4
  DEF Next, vars, ReceiveHeader, HeaderArrives, ReceiveVote, VoteArrives,
      ReceiveCertificate, CertificateArrives, LoopbackHeader, LoopbackCertificate,
      CancelHeaders, ReceivePayload, Commit

LEMMA ProposerInvariant == Spec => []ProposerInv
<1>1. Init => ProposerInv
  BY DEF Init, InitProposer, ProposerInv
<1> QED
  BY <1>1, NextProposer, TypeCorrect, PTL DEF Spec

(* OneHeaderPerRound: the Proposer never signs two headers for one round,  *)
(* however often its timer fires and whichever parents Core sends it.      *)
THEOREM OneProposalPerRound == Spec => []OneHeaderPerRound
<1>1. ProposerInv => OneHeaderPerRound
  BY DEF ProposerInv, OneHeaderPerRound
<1> QED
  BY <1>1, ProposerInvariant, PTL

------------------------------------------------------------------------------
(* Own headers in Core *)

(* h is no header of n, or one of M. *)
IsOwn(n, M, h) == author[h] = n /\ h \notin Genesis => h \in M

(* Wherever Core keeps or sends a header of its own primary, it is in M.   *)
OwnGood(n, M, s) ==
    /\ s.sent_headers \subseteq M
    /\ s.sent_certificates \subseteq M
    /\ s.current_header # NoHeader => s.current_header \in M
    /\ \A e \in s.header_waiter : IsOwn(n, M, e[2])
    /\ \A c \in s.certificate_waiter : IsOwn(n, M, c)

LEMMA DeliverCertificateOwn ==
    ASSUME NEW n, NEW M, NEW s \in PrimaryState, NEW c \in Digest,
           OwnGood(n, M, s), IsOwn(n, M, c)
    PROVE  OwnGood(n, M, DeliverCertificate(s, c))
<1> DEFINE t == DeliverCertificate(s, c)
<1>1. /\ t.sent_headers = s.sent_headers
      /\ t.sent_certificates = s.sent_certificates
      /\ t.current_header = s.current_header
      /\ t.header_waiter = s.header_waiter
      /\ t.certificate_waiter \subseteq s.certificate_waiter \cup {c}
  BY DEF DeliverCertificate, PrimaryState
<1> HIDE DEF t
<1>2. OwnGood(n, M, t)
  BY <1>1 DEF OwnGood
<1> QED
  BY <1>2 DEF t

LEMMA AppendVoteOwn ==
    ASSUME NEW n, NEW M, NEW s \in PrimaryState, NEW a \in Authority,
           NEW h \in Digest, OwnGood(n, M, s), h \in M
    PROVE  OwnGood(n, M, AppendVote(s, a, h))
<1> DEFINE t == AppendVote(s, a, h)
<1>1. /\ t.sent_headers = s.sent_headers
      /\ t.sent_certificates \subseteq s.sent_certificates \cup {h}
      /\ t.current_header = s.current_header
      /\ t.header_waiter = s.header_waiter
      /\ t.certificate_waiter = s.certificate_waiter
  BY DEF AppendVote, PrimaryState
<1> HIDE DEF t
<1>2. OwnGood(n, M, t)
  BY <1>1 DEF OwnGood
<1> QED
  BY <1>2 DEF t

LEMMA VoteForOwn ==
    ASSUME NEW n \in Authority, NEW M, NEW s \in PrimaryState, NEW h \in Digest,
           OwnGood(n, M, s), author[h] = n => h \in M, IsOwn(n, M, h)
    PROVE  OwnGood(n, M, VoteFor(n, s, h))
<1> DEFINE t == [s EXCEPT !.last_voted = @ \cup {<<round[h], author[h]>>}]
           u == [t EXCEPT !.sent_votes = @ \cup {h}]
           p == [t EXCEPT !.panicked = TRUE]
           w == AppendVote(u, n, h)
<1>1. t \in PrimaryState /\ u \in PrimaryState
  <2>1. t \in PrimaryState
    BY HeaderType DEF PrimaryState
  <2> QED
    BY <2>1 DEF PrimaryState
<1>2. OwnGood(n, M, t) /\ OwnGood(n, M, u) /\ OwnGood(n, M, p)
  BY DEF OwnGood, PrimaryState
<1>3. CASE author[h] = n
  <2>1. w \in PrimaryState /\ OwnGood(n, M, w)
    BY <1>1, <1>2, <1>3, AppendVoteType, AppendVoteOwn
  <2>2. OwnGood(n, M, DeliverCertificate(w, h))
    BY <2>1, DeliverCertificateOwn
  <2>3. VoteFor(n, s, h) \in {s, p, w, DeliverCertificate(w, h)}
    BY <1>3 DEF VoteFor, OwnVote
  <2> QED
    BY <1>2, <2>1, <2>2, <2>3
<1>4. CASE author[h] # n
  <2>1. VoteFor(n, s, h) \in {s, u}
    BY <1>4 DEF VoteFor
  <2> QED
    BY <1>2, <2>1
<1> QED
  BY <1>3, <1>4

LEMMA ProcessHeaderOwn ==
    ASSUME NEW n \in Authority, NEW M, NEW s \in PrimaryState, NEW h \in Digest,
           OwnGood(n, M, s), IsOwn(n, M, h)
    PROVE  OwnGood(n, M, ProcessHeader(n, s, h))
<1> DEFINE t == [s EXCEPT !.processing = @ \cup {h}]
           u == [t EXCEPT !.headers = @ \cup {h}]
<1>1. t \in PrimaryState /\ u \in PrimaryState
  BY DEF PrimaryState
<1>2. OwnGood(n, M, t) /\ OwnGood(n, M, u)
  BY DEF OwnGood, PrimaryState
<1>3. ASSUME NEW what PROVE OwnGood(n, M, Suspend(t, what, h))
  <2> DEFINE r == Suspend(t, what, h)
  <2>1. /\ r.sent_headers = t.sent_headers
        /\ r.sent_certificates = t.sent_certificates
        /\ r.current_header = t.current_header
        /\ r.header_waiter \subseteq t.header_waiter \cup {<<what, h>>}
        /\ r.certificate_waiter = t.certificate_waiter
    <3> HIDE DEF t
    <3> QED
      BY <1>1 DEF Suspend, PrimaryState
  <2> HIDE DEF r, t
  <2>2. OwnGood(n, M, r)
    BY <1>2, <2>1 DEF OwnGood
  <2> QED
    BY <2>2 DEF r
<1>4. CASE parents[h] # {}
  <2>1. h \notin Genesis
    BY <1>4, PrimaryAssumption
  <2>2. OwnGood(n, M, VoteFor(n, u, h))
    BY <1>1, <1>2, <2>1, VoteForOwn DEF IsOwn
  <2>3. ProcessHeader(n, s, h) \in
          {t, Suspend(t, "parents", h), Suspend(t, "batches", h), VoteFor(n, u, h)}
    BY DEF ProcessHeader
  <2> QED
    BY <1>2, <1>3, <2>2, <2>3
<1>5. CASE parents[h] = {}
  <2>1. ProcessHeader(n, s, h) = t
    BY <1>5 DEF ProcessHeader
  <2> QED
    BY <1>2, <2>1
<1> QED
  BY <1>4, <1>5

LEMMA ProcessCertificateOwn ==
    ASSUME NEW n \in Authority, NEW M, NEW s \in PrimaryState, NEW c \in Digest,
           OwnGood(n, M, s), IsOwn(n, M, c)
    PROVE  OwnGood(n, M, ProcessCertificate(n, s, c))
<1> DEFINE t == IF c \in s.processing THEN s ELSE ProcessHeader(n, s, c)
<1>1. t \in PrimaryState /\ OwnGood(n, M, t)
  BY ProcessHeaderType, ProcessHeaderOwn
<1>2. OwnGood(n, M, DeliverCertificate(t, c))
  BY <1>1, DeliverCertificateOwn
<1>3. ProcessCertificate(n, s, c) \in {t, DeliverCertificate(t, c)}
  BY DEF ProcessCertificate
<1> QED
  BY <1>1, <1>2, <1>3

LEMMA ProcessVoteOwn ==
    ASSUME NEW n \in Authority, NEW M, NEW s \in PrimaryState, NEW a \in Authority,
           s.current_header \in Digest, s.current_header # NoHeader,
           OwnGood(n, M, s)
    PROVE  OwnGood(n, M, ProcessVote(n, s, a))
<1> DEFINE c == s.current_header
           t == AppendVote(s, a, c)
           p == [t EXCEPT !.panicked = TRUE]
<1>1. c \in M /\ IsOwn(n, M, c)
  BY DEF OwnGood, IsOwn
<1>2. t \in PrimaryState /\ OwnGood(n, M, t)
  BY <1>1, AppendVoteType, AppendVoteOwn
<1>3. OwnGood(n, M, p)
  <2> HIDE DEF t
  <2> QED
    BY <1>2 DEF OwnGood, PrimaryState
<1>4. OwnGood(n, M, ProcessCertificate(n, t, c))
  BY <1>1, <1>2, ProcessCertificateOwn
<1>5. ProcessVote(n, s, a) \in {s, t, p, ProcessCertificate(n, t, c)}
  BY DEF ProcessVote
<1> QED
  BY <1>2, <1>3, <1>4, <1>5

LEMMA ProcessOwnHeaderOwn ==
    ASSUME NEW n \in Authority, NEW M, NEW s \in PrimaryState, NEW h \in Digest,
           OwnGood(n, M, s), h \in M
    PROVE  OwnGood(n, M, ProcessOwnHeader(n, s, h))
<1> DEFINE t == [s EXCEPT !.current_header = h, !.voters = {}, !.weight = 0,
                          !.sent_headers = @ \cup {h}]
<1>1. t \in PrimaryState /\ OwnGood(n, M, t)
  BY DEF PrimaryState, OwnGood
<1>2. OwnGood(n, M, ProcessHeader(n, t, h))
  BY <1>1, ProcessHeaderOwn DEF IsOwn
<1> QED
  BY <1>2 DEF ProcessOwnHeader

(* Everything of its own that a primary keeps, sends or queues was made by *)
(* its Proposer.                                                           *)
OwnInv ==
    \A n \in Correct :
        /\ OwnGood(n, proposer[n].made, primary[n])
        /\ \A i \in 1..Len(proposer[n].tx_core) : proposer[n].tx_core[i] \in proposer[n].made

LEMMA CleanupOwn ==
    ASSUME NEW n, NEW M, NEW s \in PrimaryState, NEW last \in Nat, OwnGood(n, M, s)
    PROVE  OwnGood(n, M, Cleanup(s, last))
<1> DEFINE t == Cleanup(s, last)
<1>1. /\ t.sent_headers = s.sent_headers
      /\ t.sent_certificates = s.sent_certificates
      /\ t.current_header = s.current_header
      /\ t.header_waiter = s.header_waiter
      /\ t.certificate_waiter = s.certificate_waiter
  BY DEF Cleanup, PrimaryState
<1> HIDE DEF t
<1>2. OwnGood(n, M, t)
  BY <1>1 DEF OwnGood
<1> QED
  BY <1>2 DEF t

LEMMA CoreStepOwn ==
    ASSUME TypeOK, OwnInv, NEW n \in Correct, NEW s \in PrimaryState,
           OwnGood(n, proposer[n].made, s), CoreStep(n, s)
    PROVE  \A m \in Correct : OwnGood(m, proposer[m].made, primary'[m])
<1>1. OwnGood(n, proposer[n].made, Cleanup(s, consensus_round[n]))
  BY CleanupOwn DEF TypeOK
<1>2. OwnGood(n, proposer[n].made, primary'[n])
  BY <1>1 DEF CoreStep, TypeOK
<1>3. ASSUME NEW m \in Correct, m # n PROVE OwnGood(m, proposer[m].made, primary'[m])
  <2>1. primary'[m] = primary[m]
    BY <1>3 DEF CoreStep, TypeOK
  <2> QED
    BY <2>1 DEF OwnInv
<1> QED
  BY <1>2, <1>3

(* Steps that send nothing and may only take headers from the waiters. *)
LEMMA OtherStepOwn ==
    ASSUME TypeOK, OwnInv, UNCHANGED proposer,
           \A m \in Correct :
              /\ primary'[m].sent_headers = primary[m].sent_headers
              /\ primary'[m].sent_certificates = primary[m].sent_certificates
              /\ primary'[m].current_header = primary[m].current_header
              /\ primary'[m].header_waiter \subseteq primary[m].header_waiter
              /\ primary'[m].certificate_waiter = primary[m].certificate_waiter
    PROVE  OwnInv'
<1>1. ASSUME NEW m \in Correct PROVE OwnGood(m, proposer[m].made, primary'[m])
  BY DEF OwnInv, OwnGood
<1> QED
  BY <1>1 DEF OwnInv

LEMMA NextOwn == TypeOK /\ OwnInv /\ [Next]_vars => OwnInv'
<1> SUFFICES ASSUME TypeOK, OwnInv, [Next]_vars PROVE OwnInv'
  OBVIOUS
<1> USE DEF Correct
<1>0. \A n \in Correct : /\ primary[n] \in PrimaryState
                         /\ OwnGood(n, proposer[n].made, primary[n])
  BY DEF TypeOK, OwnInv
<1>1. ASSUME NEW n \in Correct, ReceiveHeader(n) PROVE OwnInv'
  <2>1. PICK h \in Digest :
          /\ HeaderSent(h)
          /\ CoreStep(n, IF primary[n].gc_round <= round[h]
                         THEN ProcessHeader(n, primary[n], h) ELSE primary[n])
          /\ UNCHANGED proposer
    BY <1>1 DEF ReceiveHeader, HeaderArrives
  <2>2. IsOwn(n, proposer[n].made, h)
    BY <1>0, <2>1 DEF HeaderSent, IsOwn, OwnGood
  <2>3. /\ ProcessHeader(n, primary[n], h) \in PrimaryState
        /\ OwnGood(n, proposer[n].made, ProcessHeader(n, primary[n], h))
    BY <1>0, <2>2, ProcessHeaderType, ProcessHeaderOwn
  <2>4. \A m \in Correct : OwnGood(m, proposer[m].made, primary'[m])
    BY <1>0, <2>1, <2>3, CoreStepOwn
  <2> QED
    BY <2>1, <2>4 DEF OwnInv
<1>2. ASSUME NEW n \in Correct, ReceiveVote(n) PROVE OwnInv'
  <2>1. PICK a \in Authority :
          /\ primary[n].current_header # NoHeader
          /\ CoreStep(n, ProcessVote(n, primary[n], a))
          /\ UNCHANGED proposer
    BY <1>2 DEF ReceiveVote, VoteArrives
  <2>2. primary[n].current_header \in Digest
    BY <1>0, <2>1 DEF PrimaryState
  <2>3. /\ ProcessVote(n, primary[n], a) \in PrimaryState
        /\ OwnGood(n, proposer[n].made, ProcessVote(n, primary[n], a))
    BY <1>0, <2>1, <2>2, ProcessVoteType, ProcessVoteOwn
  <2>4. \A m \in Correct : OwnGood(m, proposer[m].made, primary'[m])
    BY <2>1, <2>3, CoreStepOwn
  <2> QED
    BY <2>1, <2>4 DEF OwnInv
<1>3. ASSUME NEW n \in Correct, ReceiveCertificate(n) PROVE OwnInv'
  <2>1. PICK c \in Digest :
          /\ CertificateSent(c)
          /\ CoreStep(n, IF primary[n].gc_round <= round[c]
                         THEN ProcessCertificate(n, primary[n], c) ELSE primary[n])
          /\ UNCHANGED proposer
    BY <1>3 DEF ReceiveCertificate, CertificateArrives
  <2>2. IsOwn(n, proposer[n].made, c)
    BY <1>0, <2>1 DEF CertificateSent, IsOwn, OwnGood
  <2>3. /\ ProcessCertificate(n, primary[n], c) \in PrimaryState
        /\ OwnGood(n, proposer[n].made, ProcessCertificate(n, primary[n], c))
    BY <1>0, <2>2, ProcessCertificateType, ProcessCertificateOwn
  <2>4. \A m \in Correct : OwnGood(m, proposer[m].made, primary'[m])
    BY <1>0, <2>1, <2>3, CoreStepOwn
  <2> QED
    BY <2>1, <2>4 DEF OwnInv
<1>4. ASSUME NEW n \in Correct, LoopbackHeader(n) PROVE OwnInv'
  <2>1. PICK e \in primary[n].header_waiter :
          /\ CoreStep(n, ProcessHeader(n, [primary[n] EXCEPT !.header_waiter = @ \ {e}], e[2]))
          /\ UNCHANGED proposer
    BY <1>4 DEF LoopbackHeader
  <2> DEFINE t == [primary[n] EXCEPT !.header_waiter = @ \ {e}]
  <2>2. e[2] \in Digest /\ t \in PrimaryState
    BY <1>0, FieldTypes
  <2>3. IsOwn(n, proposer[n].made, e[2]) /\ OwnGood(n, proposer[n].made, t)
    BY <1>0 DEF OwnGood, PrimaryState
  <2> HIDE DEF t
  <2>4. /\ ProcessHeader(n, t, e[2]) \in PrimaryState
        /\ OwnGood(n, proposer[n].made, ProcessHeader(n, t, e[2]))
    BY <2>2, <2>3, ProcessHeaderType, ProcessHeaderOwn
  <2>5. \A m \in Correct : OwnGood(m, proposer[m].made, primary'[m])
    BY <2>1, <2>4, CoreStepOwn DEF t
  <2> QED
    BY <2>1, <2>5 DEF OwnInv
<1>5. ASSUME NEW n \in Correct, LoopbackCertificate(n) PROVE OwnInv'
  <2>1. PICK c \in primary[n].certificate_waiter :
          /\ CoreStep(n, ProcessCertificate(n,
                            [primary[n] EXCEPT !.certificate_waiter = @ \ {c}], c))
          /\ UNCHANGED proposer
    BY <1>5 DEF LoopbackCertificate
  <2> DEFINE t == [primary[n] EXCEPT !.certificate_waiter = @ \ {c}]
  <2>2. c \in Digest /\ t \in PrimaryState
    BY <1>0, FieldTypes
  <2>3. IsOwn(n, proposer[n].made, c) /\ OwnGood(n, proposer[n].made, t)
    BY <1>0 DEF OwnGood, PrimaryState
  <2> HIDE DEF t
  <2>4. /\ ProcessCertificate(n, t, c) \in PrimaryState
        /\ OwnGood(n, proposer[n].made, ProcessCertificate(n, t, c))
    BY <2>2, <2>3, ProcessCertificateType, ProcessCertificateOwn
  <2>5. \A m \in Correct : OwnGood(m, proposer[m].made, primary'[m])
    BY <2>1, <2>4, CoreStepOwn DEF t
  <2> QED
    BY <2>1, <2>5 DEF OwnInv
<1>6. ASSUME NEW n \in Correct, ReceiveOwnHeader(n) PROVE OwnInv'
  <2> DEFINE q == proposer[n].tx_core
             h == Head(q)
  <2>1. q \in Seq(Digest) /\ q # << >>
    BY <1>6 DEF TypeOK, ProposerState, ReceiveOwnHeader
  <2>2. h \in Digest /\ h = q[1] /\ Len(q) \in Nat \ {0}
    BY <2>1
  <2>3. h \in proposer[n].made
    BY <2>2 DEF OwnInv
  <2>4. /\ ProcessOwnHeader(n, primary[n], h) \in PrimaryState
        /\ OwnGood(n, proposer[n].made, ProcessOwnHeader(n, primary[n], h))
    BY <1>0, <2>2, <2>3, ProcessOwnHeaderType, ProcessOwnHeaderOwn
  <2>5. \A m \in Correct : OwnGood(m, proposer[m].made, primary'[m])
    BY <1>6, <2>4, CoreStepOwn DEF ReceiveOwnHeader
  <2>6. /\ \A m \in Correct : proposer'[m].made = proposer[m].made
        /\ proposer'[n].tx_core = Tail(q)
        /\ \A m \in Correct \ {n} : proposer'[m].tx_core = proposer[m].tx_core
    BY <1>6 DEF ReceiveOwnHeader, TypeOK, ProposerState
  <2>7. \A i \in 1..Len(Tail(q)) : Tail(q)[i] \in proposer[n].made
    <3> SUFFICES ASSUME NEW i \in 1..Len(Tail(q)) PROVE Tail(q)[i] \in proposer[n].made
      OBVIOUS
    <3>1. Tail(q)[i] = q[i + 1] /\ i + 1 \in 1..Len(q)
      BY <2>1
    <3> QED
      BY <3>1 DEF OwnInv
  <2> HIDE DEF q
  <2> QED
    BY <2>5, <2>6, <2>7 DEF OwnInv
<1>7. ASSUME NEW n \in Correct, CancelHeaders(n) PROVE OwnInv'
  <2>1. PICK W : W \subseteq primary[n].header_waiter
                 /\ primary' = [primary EXCEPT ![n].header_waiter = W]
    <3>1. PICK old, late :
            /\ late \subseteq primary[n].header_waiter
            /\ primary' = [primary EXCEPT ![n].header_waiter = (@ \ old) \cup late]
      BY <1>7, Zenon DEF CancelHeaders
    <3> QED
      BY <3>1
  <2>2. \A m \in Correct :
            /\ primary'[m].sent_headers = primary[m].sent_headers
            /\ primary'[m].sent_certificates = primary[m].sent_certificates
            /\ primary'[m].current_header = primary[m].current_header
            /\ primary'[m].header_waiter \subseteq primary[m].header_waiter
            /\ primary'[m].certificate_waiter = primary[m].certificate_waiter
    BY <2>1 DEF PrimaryState, TypeOK
  <2> QED
    BY <1>0, <1>7, <2>2, OtherStepOwn DEF CancelHeaders
<1>8. ASSUME NEW n \in Correct, MakeHeader(n) PROVE OwnInv'
  <2>1. PICK h \in Digest :
          /\ proposer' = [proposer EXCEPT ![n].last_parents = {},
                                          ![n].tx_core = Append(@, h),
                                          ![n].made = @ \cup {h}]
          /\ UNCHANGED primary
    BY <1>8 DEF MakeHeader
  <2> DEFINE q == proposer[n].tx_core
  <2>2. /\ proposer'[n].made = proposer[n].made \cup {h}
        /\ proposer'[n].tx_core = Append(q, h)
        /\ q \in Seq(Digest)
        /\ \A m \in Correct \ {n} : proposer'[m] = proposer[m]
    BY <2>1 DEF TypeOK, ProposerState
  <2>3. \A i \in 1..Len(Append(q, h)) : Append(q, h)[i] \in proposer[n].made \cup {h}
    <3> SUFFICES ASSUME NEW i \in 1..Len(Append(q, h))
                 PROVE  Append(q, h)[i] \in proposer[n].made \cup {h}
      OBVIOUS
    <3>1. Append(q, h)[i] = h \/ (i \in 1..Len(q) /\ Append(q, h)[i] = q[i])
      BY <2>2
    <3> QED
      BY <3>1 DEF OwnInv
  <2>4. OwnGood(n, proposer[n].made \cup {h}, primary[n])
    BY <1>0 DEF OwnGood, IsOwn
  <2> HIDE DEF q
  <2> QED
    BY <1>0, <2>1, <2>2, <2>3, <2>4 DEF OwnInv
<1>9. ASSUME NEW n \in Correct, ReceiveParents(n) PROVE OwnInv'
  <2>1. PICK x : primary' = [primary EXCEPT ![n].tx_proposer = x]
    BY <1>9 DEF ReceiveParents
  <2>2. \A m \in Correct : /\ proposer'[m].made = proposer[m].made
                           /\ proposer'[m].tx_core = proposer[m].tx_core
    <3>1. ASSUME NEW r, NEW P,
                 proposer' = [proposer EXCEPT ![n].round = r, ![n].last_parents = P]
          PROVE  \A m \in Correct : /\ proposer'[m].made = proposer[m].made
                                    /\ proposer'[m].tx_core = proposer[m].tx_core
      BY <3>1 DEF TypeOK, ProposerState
    <3>2. CASE UNCHANGED proposer
      BY <3>2
    <3> QED
      BY <1>9, <3>1, <3>2 DEF ReceiveParents
  <2>3. \A m \in Correct : OwnGood(m, proposer[m].made, primary'[m])
    BY <1>0, <2>1 DEF OwnGood, PrimaryState, TypeOK
  <2> QED
    BY <2>2, <2>3 DEF OwnInv
<1>10. ASSUME NEW n \in Correct, ReceivePayload(n) PROVE OwnInv'
  <2>1. PICK P : primary' = [primary EXCEPT ![n].payload = P]
    BY <1>10 DEF ReceivePayload
  <2>2. \A m \in Correct :
            /\ primary'[m].sent_headers = primary[m].sent_headers
            /\ primary'[m].sent_certificates = primary[m].sent_certificates
            /\ primary'[m].current_header = primary[m].current_header
            /\ primary'[m].header_waiter = primary[m].header_waiter
            /\ primary'[m].certificate_waiter = primary[m].certificate_waiter
    BY <2>1 DEF PrimaryState, TypeOK
  <2> QED
    BY <1>0, <1>10, <2>2, OtherStepOwn DEF ReceivePayload
<1>11. ASSUME NEW n \in Correct, Commit(n) PROVE OwnInv'
  BY <1>11 DEF Commit, OwnInv
<1>12. CASE UNCHANGED vars
  BY <1>12 DEF vars, OwnInv
<1> QED
  BY <1>1, <1>2, <1>3, <1>4, <1>5, <1>6, <1>7, <1>8, <1>9, <1>10, <1>11, <1>12 DEF Next

LEMMA OwnInvariant == Spec => []OwnInv
<1>1. Init => OwnInv
  BY DEF Init, InitPrimary, InitProposer, OwnInv, OwnGood
<1> QED
  BY <1>1, NextOwn, TypeCorrect, PTL DEF Spec

------------------------------------------------------------------------------
(* CertificateUnique: if the faulty authorities hold less than f+1 stake,  *)
(* two certificates for one author and round exist only once some correct  *)
(* primary garbage collected that round.                                   *)
THEOREM UniqueCertificates ==
    ASSUME StakeOf(Faulty) < ValidityThreshold
    PROVE  Spec => []CertificateUnique
<1>1. VoteOnce /\ ProposerInv /\ OwnInv => CertificateUnique
  <2> SUFFICES ASSUME VoteOnce, ProposerInv, OwnInv,
                      NEW c1 \in Digest, NEW c2 \in Digest,
                      CertificateSent(c1), CertificateSent(c2),
                      SameSlot(c1, c2), c1 # c2
               PROVE  \E n \in Correct : round[c1] < primary[n].gc_round
    BY DEF CertificateUnique
  <2>1. /\ author[c1] = author[c2] /\ round[c1] = round[c2]
        /\ author[c1] \in Authority
    BY HeaderType DEF SameSlot
  <2>2. c1 \notin Genesis /\ c2 \notin Genesis
    BY <2>1, PrimaryAssumption DEF Genesis
  <2>3. CASE author[c1] \in Faulty
    <3> DEFINE Voters(c) == {a \in Authority : VoteSent(a, c)}
    <3>1. IsQuorum(Voters(c1)) /\ IsQuorum(Voters(c2))
      BY <2>1, <2>2, <2>3 DEF CertificateSent
    <3>2. PICK a \in Voters(c1) \cap Voters(c2) : a \notin Faulty
      <4>1. Voters(c1) \in SUBSET Authority /\ Voters(c2) \in SUBSET Authority
        OBVIOUS
      <4> HIDE DEF Voters
      <4> QED
        BY <3>1, <4>1, QuorumIntersection, PrimaryAssumption
    <3>3. a \in Correct /\ c1 \in primary[a].sent_votes /\ c2 \in primary[a].sent_votes
      BY <3>2 DEF Correct, VoteSent
    <3> QED
      BY <3>3 DEF VoteOnce
  <2>4. CASE author[c1] \notin Faulty
    <3> DEFINE n == author[c1]
    <3>1. /\ n \in Correct
          /\ c1 \in primary[n].sent_certificates /\ c2 \in primary[n].sent_certificates
      BY <2>1, <2>2, <2>4 DEF CertificateSent, Correct
    <3>2. c1 \in proposer[n].made /\ c2 \in proposer[n].made
      BY <3>1 DEF OwnInv, OwnGood
    <3>3. c1 = c2
      BY <2>1, <3>1, <3>2 DEF ProposerInv
    <3> QED
      BY <3>3
  <2> QED
    BY <2>3, <2>4
<1> QED
  BY <1>1, OneVotePerSlot, ProposerInvariant, OwnInvariant, PTL

------------------------------------------------------------------------------
(* The stake of a set of certificates, one term per certificate *)

StakeIn(S) ==
    Cardinality({u \in S \X (1..MaxStake) : u[2] <= stake[author[u[1]]]})

LEMMA ParentStakeIn == \A h \in Digest : ParentStake(h) = StakeIn(parents[h])
  BY DEF ParentStake, StakeIn

LEMMA StakeInEmpty == StakeIn({}) = 0
<1>1. {u \in {} \X (1..MaxStake) : u[2] <= stake[author[u[1]]]} = {}
  OBVIOUS
<1> QED
  BY <1>1, FS_EmptySet DEF StakeIn

(* CertificatesAggregator::append adds the stake of a new certificate. *)
LEMMA StakeInAdd ==
    ASSUME NEW S \in SUBSET Digest, IsFiniteSet(S), NEW c \in Digest, c \notin S
    PROVE  StakeIn(S \cup {c}) = StakeIn(S) + stake[author[c]]
<1> DEFINE U(X) == {u \in X \X (1..MaxStake) : u[2] <= stake[author[u[1]]]}
           k == stake[author[c]]
<1>1. k \in 0..MaxStake /\ MaxStake \in Nat
  BY HeaderType, CommitteeAssumption
<1>2. IsFiniteSet(1..MaxStake) /\ IsFiniteSet(1..k) /\ Cardinality(1..k) = k
  <2>1. 1 \in Int /\ MaxStake \in Int /\ k \in Int /\ k >= 0
    BY <1>1
  <2> HIDE DEF k
  <2>2. Cardinality(1..k) = IF 1 > k THEN 0 ELSE k - 1 + 1
    BY <2>1, FS_Interval
  <2> QED
    BY <2>1, <2>2, FS_Interval
<1>3. IsFiniteSet(U(S))
  <2>1. IsFiniteSet(S \X (1..MaxStake))
    BY <1>2, FS_Product
  <2> QED
    BY <2>1, FS_Subset
<1>4. IsFiniteSet({c} \X (1..k)) /\ Cardinality({c} \X (1..k)) = k
  <2>1. IsFiniteSet({c}) /\ Cardinality({c}) = 1
    BY FS_Singleton
  <2>2. /\ IsFiniteSet({c} \X (1..k))
        /\ Cardinality({c} \X (1..k)) = Cardinality({c}) * Cardinality(1..k)
    BY <1>2, <2>1, FS_Product
  <2> QED
    BY <1>1, <1>2, <2>1, <2>2
<1>5. U(S \cup {c}) = U(S) \cup ({c} \X (1..k))
  BY <1>1
<1>6. U(S) \cap ({c} \X (1..k)) = {}
  OBVIOUS
<1>7. Cardinality(U(S \cup {c})) = Cardinality(U(S)) + k - 0
  <2> DEFINE K == {c} \X (1..k)
  <2> HIDE DEF U, k, K
  <2>1. Cardinality(U(S) \cup K) = Cardinality(U(S)) + Cardinality(K) - Cardinality(U(S) \cap K)
    BY <1>3, <1>4, FS_Union DEF K
  <2> QED
    BY <1>4, <1>5, <1>6, <2>1, FS_EmptySet, Zenon DEF K
<1>8. Cardinality(U(S)) \in Nat
  BY <1>3, FS_CardinalityType
<1> QED
  BY <1>1, <1>7, <1>8 DEF StakeIn

(* Certificates of distinct authors carry the stake of their authors. *)
LEMMA StakeInAuthors ==
    ASSUME NEW S \in SUBSET Digest,
           \A p, q \in S : author[p] = author[q] => p = q
    PROVE  IsFiniteSet(S) /\ StakeIn(S) = StakeOf({author[p] : p \in S})
<1> DEFINE A == {author[p] : p \in S}
           U == {u \in S \X (1..MaxStake) : u[2] <= stake[author[u[1]]]}
           f == [u \in U |-> <<author[u[1]], u[2]>>]
           g == [p \in S |-> author[p]]
<1>1. A \in SUBSET Authority
  BY HeaderType
<1>2. IsFiniteSet(S)
  <2>1. g \in Injection(S, A)
    BY DEF Injection, IsInjective
  <2>2. IsFiniteSet(A)
    BY <1>1, CommitteeAssumption, FS_Subset
  <2> QED
    BY <2>1, <2>2, FS_Injection
<1>3. f \in Bijection(U, Units(A))
  <2>1. f \in [U -> Units(A)]
    BY DEF Units
  <2>2. \A u, v \in U : f[u] = f[v] => u = v
    OBVIOUS
  <2>3. \A w \in Units(A) : \E u \in U : f[u] = w
    <3> SUFFICES ASSUME NEW w \in Units(A) PROVE \E u \in U : f[u] = w
      OBVIOUS
    <3>1. PICK p \in S : w[1] = author[p] /\ w = <<w[1], w[2]>>
                         /\ w[2] \in 1..MaxStake /\ w[2] <= stake[w[1]]
      BY DEF Units
    <3>2. <<p, w[2]>> \in U
      BY <3>1
    <3>3. f[<<p, w[2]>>] = <<author[p], w[2]>>
      BY <3>2
    <3> QED
      BY <3>1, <3>2, <3>3, Zenon
  <2> QED
    BY <2>1, <2>2, <2>3, ZenonT(60) DEF Bijection, Injection, Surjection, IsInjective
<1>4. IsFiniteSet(U)
  <2>1. IsFiniteSet(1..MaxStake)
    BY CommitteeAssumption, FS_Interval
  <2>2. IsFiniteSet(S \X (1..MaxStake))
    BY <1>2, <2>1, FS_Product
  <2> QED
    BY <2>2, FS_Subset
<1>5. Cardinality(Units(A)) = Cardinality(U)
  <2> HIDE DEF U, A, f
  <2> QED
    BY <1>3, <1>4, FS_Bijection DEF ExistsBijection
<1> QED
  BY <1>2, <1>5 DEF StakeIn, StakeOf

(* The genesis certificates are a quorum of parents for the first round. *)
LEMMA GenesisQuorum ==
    ASSUME TotalStake > 0
    PROVE  StakeIn(Genesis) >= QuorumThreshold
<1>1. Genesis \in SUBSET Digest /\ \A p, q \in Genesis : author[p] = author[q] => p = q
  BY PrimaryAssumption DEF Genesis
<1>2. StakeIn(Genesis) = TotalStake
  BY <1>1, StakeInAuthors, GenesisAssumption DEF TotalStake
<1>3. TotalStake \in Nat
  BY StakeType DEF TotalStake
<1> QED
  BY <1>2, <1>3 DEF QuorumThreshold

(* A header that passes process_header's checks has parents. *)
LEMMA ValidHasParents ==
    ASSUME NEW h \in Digest, ValidParents(h)
    PROVE  parents[h] # {} /\ h \notin Genesis
<1>1. StakeIn({}) < QuorumThreshold
  <2>1. TotalStake \in Nat
    BY StakeType DEF TotalStake
  <2> QED
    BY <2>1, StakeInEmpty DEF QuorumThreshold
<1>2. parents[h] # {}
  <2> SUFFICES ASSUME parents[h] = {} PROVE FALSE
    OBVIOUS
  <2>1. StakeIn({}) >= QuorumThreshold
    BY ParentStakeIn, Zenon DEF ValidParents
  <2> QED
    BY <1>1, <2>1, StakeInEmpty, QuorumNat
<1> QED
  BY <1>2, PrimaryAssumption

------------------------------------------------------------------------------
(* What a handler of Core does to the store *)

(* What process_header checks before it votes. *)
Votable(n, s, h) ==
    /\ h \in s.headers
    /\ ParentsStored(s, h)
    /\ ValidParents(h)
    /\ ~MissingPayload(n, s, h)

(* A quorum of certificates to propose with in round r. *)
ParentQuorum(s, P, r) ==
    /\ P \subseteq (Genesis \cup s.certificates)
    /\ \A p \in P : round[p] + 1 = r
    /\ StakeIn(P) >= QuorumThreshold

(* The aggregator of round r counts each certificate it holds once. *)
AggregatorGood(s, r) ==
    LET agg == s.aggregators[r]
    IN  /\ agg.certificates \subseteq s.certificates
        /\ IsFiniteSet(agg.certificates)
        /\ \A c \in agg.certificates : round[c] = r /\ author[c] \in agg.used
        /\ agg.weight = StakeIn(agg.certificates)

ProposalGood(s) ==
    /\ \A r \in Rounds : AggregatorGood(s, r)
    /\ \A i \in 1..Len(s.tx_proposer) :
          ParentQuorum(s, s.tx_proposer[i].parents, s.tx_proposer[i].round + 1)

(* The store keeps what it holds, and what was sent stays sent. *)
Grows(t, s) ==
    /\ s.headers \subseteq t.headers
    /\ s.certificates \subseteq t.certificates
    /\ s.sent_headers \subseteq t.sent_headers
    /\ s.sent_votes \subseteq t.sent_votes
    /\ s.sent_certificates \subseteq t.sent_certificates
    /\ s.payload \subseteq t.payload

(* A step from s to t of a handler of n that is given the header or the    *)
(* certificate h, where C are the certificates known to be sent: it stores *)
(* at most h, after its parents, it votes for what is votable, and every   *)
(* certificate it stores or lets wait is in C or was sent by n itself.     *)
StoreStep(n, C, t, s, h) ==
    /\ Grows(t, s)
    /\ \A c \in t.certificates \ s.certificates : c = h /\ ParentsStored(s, h)
    /\ \A g \in t.sent_votes \ s.sent_votes : Votable(n, t, g)
    /\ t.certificates \cup t.certificate_waiter
          \subseteq s.certificates \cup s.certificate_waiter \cup C \cup t.sent_certificates
    /\ ProposalGood(s) => ProposalGood(t)

LEMMA GrowsKeeps ==
    ASSUME NEW n, NEW s, NEW t, Grows(t, s)
    PROVE  /\ \A h : ParentsStored(s, h) => ParentsStored(t, h)
           /\ \A h : Votable(n, s, h) => Votable(n, t, h)
           /\ \A P, r : ParentQuorum(s, P, r) => ParentQuorum(t, P, r)
<1>1. \A h : ParentsStored(s, h) => ParentsStored(t, h)
  BY DEF Grows, ParentsStored
<1>2. \A h : Votable(n, s, h) => Votable(n, t, h)
  BY <1>1 DEF Grows, Votable, MissingPayload
<1>3. \A P, r : ParentQuorum(s, P, r) => ParentQuorum(t, P, r)
  BY DEF Grows, ParentQuorum
<1> QED
  BY <1>1, <1>2, <1>3

(* A step that leaves the aggregators and the channel alone. *)
LEMMA SameProposal ==
    ASSUME NEW s, NEW t, Grows(t, s), t.aggregators = s.aggregators,
           t.tx_proposer = s.tx_proposer, ProposalGood(s)
    PROVE  ProposalGood(t)
<1>1. \A P, r : ParentQuorum(s, P, r) => ParentQuorum(t, P, r)
  BY GrowsKeeps
<1>2. \A r \in Rounds : AggregatorGood(t, r)
  BY DEF ProposalGood, AggregatorGood, Grows
<1> QED
  BY <1>1, <1>2 DEF ProposalGood

LEMMA StoreStepTransitive ==
    ASSUME NEW n, NEW C, NEW s, NEW t, NEW u, NEW h,
           StoreStep(n, C, t, s, h), StoreStep(n, C, u, t, h)
    PROVE  StoreStep(n, C, u, s, h)
<1>1. Grows(u, s)
  BY DEF StoreStep, Grows
<1>2. ASSUME NEW c \in u.certificates \ s.certificates
      PROVE  c = h /\ ParentsStored(s, h)
  <2>1. CASE h \in t.certificates \ s.certificates
    BY <2>1 DEF StoreStep
  <2>2. CASE h \notin t.certificates \ s.certificates
    <3>1. t.certificates = s.certificates
      BY <2>2 DEF StoreStep, Grows
    <3> QED
      BY <3>1 DEF StoreStep, ParentsStored
  <2> QED
    BY <2>1, <2>2 DEF StoreStep
<1>3. ASSUME NEW g \in u.sent_votes \ s.sent_votes PROVE Votable(n, u, g)
  <2>1. \A x : Votable(n, t, x) => Votable(n, u, x)
    BY GrowsKeeps DEF StoreStep
  <2> QED
    BY <2>1 DEF StoreStep
<1>4. u.certificates \cup u.certificate_waiter
        \subseteq s.certificates \cup s.certificate_waiter \cup C \cup u.sent_certificates
  BY DEF StoreStep, Grows
<1>5. ProposalGood(s) => ProposalGood(u)
  BY DEF StoreStep
<1> QED
  BY <1>1, <1>2, <1>3, <1>4, <1>5 DEF StoreStep

(* A step that stores no certificate and sends nothing to the Proposer;    *)
(* an idle one casts no vote either.                                       *)
Quiet(t, s) ==
    /\ Grows(t, s)
    /\ t.certificates = s.certificates
    /\ t.certificate_waiter \subseteq s.certificate_waiter
    /\ t.aggregators = s.aggregators
    /\ t.tx_proposer = s.tx_proposer

Idle(t, s) == Quiet(t, s) /\ t.sent_votes = s.sent_votes

(* What the HeaderWaiter cancels and what the PayloadReceiver stores. *)
LEMMA IdleUpdate ==
    ASSUME NEW s \in PrimaryState, NEW W, NEW B
    PROVE  /\ Idle([s EXCEPT !.header_waiter = W], s)
           /\ Idle([s EXCEPT !.payload = @ \cup B], s)
<1>1. Idle([s EXCEPT !.header_waiter = W], s)
  BY DEF Idle, Quiet, Grows, PrimaryState
<1>2. Idle([s EXCEPT !.payload = @ \cup B], s)
  BY DEF Idle, Quiet, Grows, PrimaryState
<1> QED
  BY <1>1, <1>2

LEMMA IdleStore ==
    ASSUME NEW n, NEW C, NEW s, NEW t, NEW h, Idle(t, s)
    PROVE  StoreStep(n, C, t, s, h)
<1>1. ProposalGood(s) => ProposalGood(t)
  BY SameProposal DEF Idle, Quiet
<1> QED
  BY <1>1 DEF Idle, Quiet, StoreStep

(* CertificatesAggregator::append: a quorum leaves as a whole. *)
LEMMA AppendCertificateGood ==
    ASSUME NEW s \in PrimaryState, NEW c \in Digest, NEW t,
           AggregatorGood(s, round[c]),
           author[c] \notin s.aggregators[round[c]].used,
           Grows(t, s), c \in t.certificates,
           t.aggregators[round[c]] = AppendCertificate(s.aggregators[round[c]], c)
    PROVE  /\ AggregatorGood(t, round[c])
           /\ s.aggregators[round[c]].weight + stake[author[c]] >= QuorumThreshold
                 => ParentQuorum(t, s.aggregators[round[c]].certificates \cup {c},
                                 round[c] + 1)
<1> DEFINE agg == s.aggregators[round[c]]
           new == t.aggregators[round[c]]
           all == agg.certificates \cup {c}
<1>1. /\ agg \in Aggregator /\ agg.certificates \in SUBSET Digest
      /\ s.certificates \subseteq t.certificates
  BY HeaderType DEF PrimaryState, Aggregator, Grows
<1>2. /\ agg.certificates \subseteq s.certificates
      /\ IsFiniteSet(agg.certificates)
      /\ \A x \in agg.certificates : round[x] = round[c] /\ author[x] \in agg.used
      /\ agg.weight = StakeIn(agg.certificates)
  BY DEF AggregatorGood
<1>3. c \notin agg.certificates
  BY <1>2
<1>4. /\ StakeIn(all) = agg.weight + stake[author[c]]
      /\ IsFiniteSet(all)
  BY <1>1, <1>2, <1>3, StakeInAdd, FS_AddElement
<1>5. all \subseteq t.certificates /\ \A x \in all : round[x] = round[c]
  BY <1>1, <1>2
<1>6. /\ new.used = agg.used \cup {author[c]}
      /\ \/ new.certificates = {} /\ new.weight = 0
         \/ new.certificates = all /\ new.weight = agg.weight + stake[author[c]]
  BY DEF AppendCertificate
<1>7. AggregatorGood(t, round[c])
  <2>1. CASE new.certificates = {} /\ new.weight = 0
    BY <2>1, StakeInEmpty, FS_EmptySet DEF AggregatorGood
  <2>2. CASE new.certificates = all /\ new.weight = agg.weight + stake[author[c]]
    <3> HIDE DEF new
    <3>1. \A x \in all : author[x] \in new.used
      BY <1>2, <1>6
    <3> HIDE DEF all, agg
    <3>2. /\ new.certificates \subseteq t.certificates
          /\ IsFiniteSet(new.certificates)
          /\ \A x \in new.certificates : round[x] = round[c] /\ author[x] \in new.used
          /\ new.weight = StakeIn(new.certificates)
      BY <1>4, <1>5, <2>2, <3>1
    <3> QED
      BY <3>2 DEF AggregatorGood, new
  <2> QED
    BY <1>6, <2>1, <2>2
<1>8. ASSUME agg.weight + stake[author[c]] >= QuorumThreshold
      PROVE  ParentQuorum(t, all, round[c] + 1)
  BY <1>4, <1>5, <1>8 DEF ParentQuorum
<1> QED
  BY <1>7, <1>8

LEMMA DeliverCertificateStore ==
    ASSUME NEW n, NEW C, NEW s \in PrimaryState, NEW c \in Digest,
           c \in C \cup s.sent_certificates
    PROVE  StoreStep(n, C, DeliverCertificate(s, c), s, c)
<1> DEFINE t == DeliverCertificate(s, c)
           agg == s.aggregators[round[c]]
           m == [parents |-> agg.certificates \cup {c}, round |-> round[c]]
           Q == [parents : SUBSET Digest, round : Rounds]
<1>1. /\ t.headers = s.headers /\ t.payload = s.payload
      /\ t.sent_headers = s.sent_headers /\ t.sent_votes = s.sent_votes
      /\ t.sent_certificates = s.sent_certificates
      /\ t.certificate_waiter \subseteq s.certificate_waiter \cup {c}
      /\ \/ t.certificates = s.certificates
         \/ t.certificates = s.certificates \cup {c} /\ ParentsStored(s, c)
  BY DEF DeliverCertificate, PrimaryState
<1>2. \/ t.aggregators = s.aggregators /\ t.tx_proposer = s.tx_proposer
      \/ /\ author[c] \notin agg.used
         /\ c \in t.certificates
         /\ t.aggregators = [s.aggregators EXCEPT ![round[c]] = AppendCertificate(agg, c)]
         /\ t.tx_proposer = IF agg.weight + stake[author[c]] >= QuorumThreshold
                            THEN Append(s.tx_proposer, m) ELSE s.tx_proposer
  BY DEF DeliverCertificate, PrimaryState
<1> HIDE DEF t
<1>3. Grows(t, s)
  BY <1>1 DEF Grows
<1>4. ASSUME ProposalGood(s) PROVE ProposalGood(t)
  <2>1. CASE t.aggregators = s.aggregators /\ t.tx_proposer = s.tx_proposer
    BY <1>3, <1>4, <2>1, SameProposal
  <2>2. CASE /\ author[c] \notin agg.used
             /\ c \in t.certificates
             /\ t.aggregators = [s.aggregators EXCEPT ![round[c]] = AppendCertificate(agg, c)]
             /\ t.tx_proposer = IF agg.weight + stake[author[c]] >= QuorumThreshold
                                THEN Append(s.tx_proposer, m) ELSE s.tx_proposer
    <3>1. /\ s.aggregators \in [Rounds -> Aggregator] /\ round[c] \in Rounds
          /\ s.tx_proposer \in Seq(Q) /\ m \in Q
      BY HeaderType DEF PrimaryState, Aggregator
    <3>2. t.aggregators[round[c]] = AppendCertificate(agg, c)
      BY <2>2, <3>1
    <3>3. /\ AggregatorGood(t, round[c])
          /\ agg.weight + stake[author[c]] >= QuorumThreshold
                => ParentQuorum(t, m.parents, m.round + 1)
      <4>1. AggregatorGood(s, round[c])
        BY <1>4, <3>1 DEF ProposalGood
      <4> QED
        BY <1>3, <2>2, <3>2, <4>1, AppendCertificateGood
    <3>4. ASSUME NEW r \in Rounds PROVE AggregatorGood(t, r)
      <4>1. CASE r = round[c]
        BY <3>3, <4>1
      <4>2. CASE r # round[c]
        <5>1. t.aggregators[r] = s.aggregators[r]
          BY <2>2, <3>1, <4>2
        <5>2. AggregatorGood(s, r) /\ s.certificates \subseteq t.certificates
          BY <1>3, <1>4 DEF ProposalGood, Grows
        <5> QED
          BY <5>1, <5>2 DEF AggregatorGood
      <4> QED
        BY <4>1, <4>2
    <3>5. ASSUME NEW i \in 1..Len(t.tx_proposer)
          PROVE  ParentQuorum(t, t.tx_proposer[i].parents, t.tx_proposer[i].round + 1)
      <4>1. \A j \in 1..Len(s.tx_proposer) :
               ParentQuorum(t, s.tx_proposer[j].parents, s.tx_proposer[j].round + 1)
        BY <1>3, <1>4, GrowsKeeps DEF ProposalGood
      <4>2. CASE t.tx_proposer = s.tx_proposer
        BY <4>1, <4>2
      <4>3. CASE /\ agg.weight + stake[author[c]] >= QuorumThreshold
                 /\ t.tx_proposer = Append(s.tx_proposer, m)
        <5> HIDE DEF m, Q
        <5>1. \/ t.tx_proposer[i] = m
              \/ i \in 1..Len(s.tx_proposer) /\ t.tx_proposer[i] = s.tx_proposer[i]
          BY <3>1, <4>3
        <5> QED
          BY <3>3, <4>1, <4>3, <5>1
      <4> QED
        BY <2>2, <4>2, <4>3
    <3> QED
      BY <3>4, <3>5 DEF ProposalGood
  <2> QED
    BY <1>2, <2>1, <2>2
<1>5. StoreStep(n, C, t, s, c)
  BY <1>1, <1>3, <1>4 DEF StoreStep
<1> QED
  BY <1>5 DEF t

LEMMA AppendVoteStore ==
    ASSUME NEW n, NEW C, NEW s \in PrimaryState, NEW a \in Authority, NEW h \in Digest
    PROVE  /\ StoreStep(n, C, AppendVote(s, a, h), s, h)
           /\ ReachesQuorum(s, a) => h \in AppendVote(s, a, h).sent_certificates
<1> DEFINE t == AppendVote(s, a, h)
<1>1. Idle(t, s) /\ (ReachesQuorum(s, a) => h \in t.sent_certificates)
  BY DEF AppendVote, ReachesQuorum, Idle, Quiet, Grows, PrimaryState
<1> QED
  BY <1>1, IdleStore

(* A vote for what is votable. *)
LEMMA CastStore ==
    ASSUME NEW n, NEW C, NEW s, NEW u, NEW h, Votable(n, s, h), Quiet(u, s),
           u.sent_votes = s.sent_votes \cup {h}
    PROVE  StoreStep(n, C, u, s, h)
<1>1. ProposalGood(s) => ProposalGood(u)
  BY SameProposal DEF Quiet
<1>2. Votable(n, u, h)
  BY GrowsKeeps DEF Quiet
<1> QED
  BY <1>1, <1>2 DEF Quiet, StoreStep

LEMMA VoteForStore ==
    ASSUME NEW n \in Authority, NEW C, NEW s \in PrimaryState, NEW h \in Digest,
           Votable(n, s, h)
    PROVE  StoreStep(n, C, VoteFor(n, s, h), s, h)
<1> DEFINE t == [s EXCEPT !.last_voted = @ \cup {<<round[h], author[h]>>}]
           u == [t EXCEPT !.sent_votes = @ \cup {h}]
           p == [t EXCEPT !.panicked = TRUE]
           w == AppendVote(u, n, h)
<1>1. t \in PrimaryState /\ u \in PrimaryState
  <2>1. t \in PrimaryState
    BY HeaderType DEF PrimaryState
  <2> QED
    BY <2>1 DEF PrimaryState
<1>2. StoreStep(n, C, s, s, h) /\ StoreStep(n, C, p, s, h)
  <2>1. Idle(s, s) /\ Idle(p, s)
    BY DEF Idle, Quiet, Grows, PrimaryState
  <2> QED
    BY <2>1, IdleStore
<1>3. StoreStep(n, C, u, s, h)
  <2>1. u.sent_votes = s.sent_votes \cup {h} /\ Quiet(u, s)
    BY DEF Quiet, Grows, PrimaryState
  <2> HIDE DEF u
  <2> QED
    BY <1>1, <2>1, CastStore
<1>4. w \in PrimaryState /\ StoreStep(n, C, w, s, h)
  <2> HIDE DEF u
  <2>1. w \in PrimaryState /\ StoreStep(n, C, w, u, h)
    BY <1>1, AppendVoteType, AppendVoteStore
  <2> QED
    BY <1>3, <2>1, StoreStepTransitive
<1>5. CASE ReachesQuorum(t, n)
  <2>1. h \in w.sent_certificates
    <3>1. ReachesQuorum(u, n)
      BY <1>5 DEF ReachesQuorum, PrimaryState
    <3> QED
      BY <1>1, <3>1, AppendVoteStore
  <2>2. StoreStep(n, C, DeliverCertificate(w, h), w, h)
    BY <1>4, <2>1, DeliverCertificateStore
  <2>3. StoreStep(n, C, DeliverCertificate(w, h), s, h)
    BY <1>4, <2>2, StoreStepTransitive
  <2>4. VoteFor(n, s, h) \in {s, u, p, DeliverCertificate(w, h)}
    BY <1>5 DEF VoteFor, OwnVote
  <2> QED
    BY <1>2, <1>3, <2>3, <2>4
<1>6. CASE ~ReachesQuorum(t, n)
  <2>1. VoteFor(n, s, h) \in {s, u, p, w}
    BY <1>6 DEF VoteFor, OwnVote
  <2> QED
    BY <1>2, <1>3, <1>4, <2>1
<1> QED
  BY <1>5, <1>6

LEMMA ProcessHeaderStore ==
    ASSUME NEW n \in Authority, NEW C, NEW s \in PrimaryState, NEW h \in Digest
    PROVE  StoreStep(n, C, ProcessHeader(n, s, h), s, h)
<1> DEFINE t == [s EXCEPT !.processing = @ \cup {h}]
           u == [t EXCEPT !.headers = @ \cup {h}]
<1>1. t \in PrimaryState /\ u \in PrimaryState
  BY DEF PrimaryState
<1>2. StoreStep(n, C, t, s, h) /\ StoreStep(n, C, u, s, h)
  <2>1. Idle(t, s) /\ Idle(u, s)
    BY DEF Idle, Quiet, Grows, PrimaryState
  <2> QED
    BY <2>1, IdleStore
<1>3. ASSUME NEW what PROVE StoreStep(n, C, Suspend(t, what, h), s, h)
  <2>1. Idle(Suspend(t, what, h), t)
    <3> HIDE DEF t
    <3> QED
      BY <1>1 DEF Suspend, Idle, Quiet, Grows, PrimaryState
  <2> QED
    BY <1>2, <2>1, IdleStore, StoreStepTransitive
<1>4. CASE /\ ~(parents[h] = {} \/ HeaderFails(s, h))
           /\ ParentsStored(s, h) /\ ~MissingPayload(n, s, h)
  <2>1. Votable(n, u, h)
    <3>1. h \in u.headers /\ Grows(u, s) /\ u.payload = s.payload
      BY DEF Grows, PrimaryState
    <3>2. ParentsStored(u, h)
      BY <1>4, <3>1, GrowsKeeps
    <3>3. ValidParents(h)
      BY <1>4 DEF HeaderFails
    <3> HIDE DEF u
    <3> QED
      BY <1>4, <3>1, <3>2, <3>3 DEF Votable, MissingPayload
  <2>2. StoreStep(n, C, VoteFor(n, u, h), s, h)
    BY <1>1, <1>2, <2>1, VoteForStore, StoreStepTransitive
  <2>3. ProcessHeader(n, s, h) = VoteFor(n, u, h)
    BY <1>4 DEF ProcessHeader
  <2> QED
    BY <2>2, <2>3
<1>5. CASE ~(/\ ~(parents[h] = {} \/ HeaderFails(s, h))
             /\ ParentsStored(s, h) /\ ~MissingPayload(n, s, h))
  <2>1. ProcessHeader(n, s, h) \in {t, Suspend(t, "parents", h), Suspend(t, "batches", h)}
    BY <1>5 DEF ProcessHeader
  <2> QED
    BY <1>2, <1>3, <2>1
<1> QED
  BY <1>4, <1>5

LEMMA ProcessCertificateStore ==
    ASSUME NEW n \in Authority, NEW C, NEW s \in PrimaryState, NEW c \in Digest,
           c \in C \cup s.sent_certificates
    PROVE  StoreStep(n, C, ProcessCertificate(n, s, c), s, c)
<1> DEFINE t == IF c \in s.processing THEN s ELSE ProcessHeader(n, s, c)
<1>1. t \in PrimaryState
  BY ProcessHeaderType
<1>2. StoreStep(n, C, t, s, c)
  <2>1. Idle(s, s)
    BY DEF Idle, Quiet, Grows
  <2> QED
    BY <2>1, IdleStore, ProcessHeaderStore
<1>3. c \in C \cup t.sent_certificates
  BY <1>2 DEF StoreStep, Grows
<1>4. StoreStep(n, C, DeliverCertificate(t, c), s, c)
  BY <1>1, <1>2, <1>3, DeliverCertificateStore, StoreStepTransitive
<1>5. ProcessCertificate(n, s, c) \in {t, DeliverCertificate(t, c)}
  BY DEF ProcessCertificate
<1> QED
  BY <1>2, <1>4, <1>5

LEMMA ProcessVoteStore ==
    ASSUME NEW n \in Authority, NEW C, NEW s \in PrimaryState, NEW a \in Authority,
           s.current_header \in Digest
    PROVE  StoreStep(n, C, ProcessVote(n, s, a), s, s.current_header)
<1> DEFINE c == s.current_header
           t == AppendVote(s, a, c)
           p == [t EXCEPT !.panicked = TRUE]
<1>1. t \in PrimaryState /\ StoreStep(n, C, t, s, c)
  BY AppendVoteType, AppendVoteStore
<1>2. StoreStep(n, C, s, s, c)
  BY IdleStore DEF Idle, Quiet, Grows
<1>3. StoreStep(n, C, p, s, c)
  <2>1. Idle(p, t)
    <3> HIDE DEF t
    <3> QED
      BY <1>1 DEF Idle, Quiet, Grows, PrimaryState
  <2> QED
    BY <1>1, <2>1, IdleStore, StoreStepTransitive
<1>4. CASE ReachesQuorum(s, a)
  <2>1. c \in t.sent_certificates
    BY <1>4, AppendVoteStore
  <2>2. StoreStep(n, C, ProcessCertificate(n, t, c), s, c)
    BY <1>1, <2>1, ProcessCertificateStore, StoreStepTransitive
  <2>3. ProcessVote(n, s, a) \in {s, p, ProcessCertificate(n, t, c)}
    BY <1>4 DEF ProcessVote
  <2> QED
    BY <1>2, <1>3, <2>2, <2>3
<1>5. CASE ~ReachesQuorum(s, a)
  <2>1. ProcessVote(n, s, a) \in {s, t}
    BY <1>5 DEF ProcessVote
  <2> QED
    BY <1>1, <1>2, <2>1
<1> QED
  BY <1>4, <1>5

LEMMA ProcessOwnHeaderStore ==
    ASSUME NEW n \in Authority, NEW C, NEW s \in PrimaryState, NEW h \in Digest
    PROVE  StoreStep(n, C, ProcessOwnHeader(n, s, h), s, h)
<1> DEFINE t == [s EXCEPT !.current_header = h, !.voters = {}, !.weight = 0,
                          !.sent_headers = @ \cup {h}]
<1>1. t \in PrimaryState /\ Idle(t, s)
  BY DEF PrimaryState, Idle, Quiet, Grows
<1>2. StoreStep(n, C, ProcessHeader(n, t, h), s, h)
  BY <1>1, IdleStore, ProcessHeaderStore, StoreStepTransitive
<1> QED
  BY <1>2 DEF ProcessOwnHeader

(* The cleanup empties aggregators. *)
LEMMA CleanupStore ==
    ASSUME NEW n, NEW C, NEW s \in PrimaryState, NEW last \in Nat, NEW h
    PROVE  StoreStep(n, C, Cleanup(s, last), s, h)
<1> DEFINE t == Cleanup(s, last)
<1>1. /\ t.headers = s.headers /\ t.payload = s.payload
      /\ t.certificates = s.certificates
      /\ t.certificate_waiter = s.certificate_waiter
      /\ t.sent_headers = s.sent_headers /\ t.sent_votes = s.sent_votes
      /\ t.sent_certificates = s.sent_certificates
      /\ t.tx_proposer = s.tx_proposer
      /\ \A r \in Rounds : t.aggregators[r] \in {s.aggregators[r], NewAggregator}
  BY DEF Cleanup, PrimaryState
<1> HIDE DEF t
<1>2. Grows(t, s)
  BY <1>1 DEF Grows
<1>3. ASSUME ProposalGood(s) PROVE ProposalGood(t)
  <2>1. ASSUME NEW r \in Rounds PROVE AggregatorGood(t, r)
    <3>1. CASE t.aggregators[r] = s.aggregators[r]
      BY <1>1, <1>3, <3>1 DEF ProposalGood, AggregatorGood
    <3>2. CASE t.aggregators[r] = NewAggregator
      BY <3>2, StakeInEmpty, FS_EmptySet DEF AggregatorGood, NewAggregator
    <3> QED
      BY <1>1, <3>1, <3>2
  <2> QED
    BY <1>1, <1>2, <1>3, <2>1, GrowsKeeps DEF ProposalGood
<1>4. StoreStep(n, C, t, s, h)
  BY <1>1, <1>2, <1>3 DEF StoreStep
<1> QED
  BY <1>4 DEF t

LEMMA CoreStepStore ==
    ASSUME TypeOK, NEW n \in Correct, NEW C, NEW h, NEW s \in PrimaryState,
           StoreStep(n, C, s, primary[n], h), CoreStep(n, s)
    PROVE  /\ StoreStep(n, C, primary'[n], primary[n], h)
           /\ \A m \in Correct \ {n} : primary'[m] = primary[m]
<1>1. StoreStep(n, C, Cleanup(s, consensus_round[n]), primary[n], h)
  BY CleanupStore, StoreStepTransitive DEF TypeOK
<1>2. primary'[n] \in {s, Cleanup(s, consensus_round[n])}
  BY DEF CoreStep, TypeOK
<1> QED
  BY <1>1, <1>2 DEF CoreStep, TypeOK

------------------------------------------------------------------------------
(* Every step of the system is a store step of one primary *)

(* The certificates that the authorities have sent. *)
Certified == {c \in Digest : CertificateSent(c)}

StoreStepOf(n, h) ==
    /\ StoreStep(n, Certified, primary'[n], primary[n], h)
    /\ \A m \in Correct \ {n} : primary'[m] = primary[m]

LEMMA NextStore ==
    ASSUME TypeOK, Next
    PROVE  \E n \in Correct : \E h : StoreStepOf(n, h)
<1> USE DEF Correct
<1> DEFINE C == Certified
<1>0. \A n \in Correct : primary[n] \in PrimaryState
  BY DEF TypeOK
<1>1. ASSUME NEW n \in Correct, ReceiveHeader(n) PROVE \E h : StoreStepOf(n, h)
  <2>1. PICK h \in Digest :
          CoreStep(n, IF primary[n].gc_round <= round[h]
                      THEN ProcessHeader(n, primary[n], h) ELSE primary[n])
    BY <1>1 DEF ReceiveHeader, HeaderArrives
  <2>2. /\ ProcessHeader(n, primary[n], h) \in PrimaryState
        /\ StoreStep(n, C, ProcessHeader(n, primary[n], h), primary[n], h)
        /\ StoreStep(n, C, primary[n], primary[n], h)
    <3> HIDE DEF C
    <3> QED
      BY <1>0, ProcessHeaderType, ProcessHeaderStore, IdleStore DEF Idle, Quiet, Grows
  <2> QED
    BY <1>0, <2>1, <2>2, CoreStepStore DEF StoreStepOf
<1>2. ASSUME NEW n \in Correct, ReceiveVote(n) PROVE \E h : StoreStepOf(n, h)
  <2>1. PICK a \in Authority :
          /\ primary[n].current_header # NoHeader
          /\ CoreStep(n, ProcessVote(n, primary[n], a))
    BY <1>2 DEF ReceiveVote, VoteArrives
  <2>2. primary[n].current_header \in Digest
    BY <1>0, <2>1 DEF PrimaryState
  <2>3. /\ ProcessVote(n, primary[n], a) \in PrimaryState
        /\ StoreStep(n, C, ProcessVote(n, primary[n], a), primary[n], primary[n].current_header)
    <3> HIDE DEF C
    <3> QED
      BY <1>0, <2>2, ProcessVoteType, ProcessVoteStore
  <2> QED
    BY <2>1, <2>3, CoreStepStore DEF StoreStepOf
<1>3. ASSUME NEW n \in Correct, ReceiveCertificate(n) PROVE \E h : StoreStepOf(n, h)
  <2>1. PICK c \in Digest :
          /\ CertificateSent(c)
          /\ CoreStep(n, IF primary[n].gc_round <= round[c]
                         THEN ProcessCertificate(n, primary[n], c) ELSE primary[n])
    BY <1>3 DEF ReceiveCertificate, CertificateArrives
  <2>2. c \in C
    BY <2>1 DEF Certified
  <2>3. /\ ProcessCertificate(n, primary[n], c) \in PrimaryState
        /\ StoreStep(n, C, ProcessCertificate(n, primary[n], c), primary[n], c)
        /\ StoreStep(n, C, primary[n], primary[n], c)
    <3> HIDE DEF C
    <3> QED
      BY <1>0, <2>2, ProcessCertificateType, ProcessCertificateStore, IdleStore
      DEF Idle, Quiet, Grows
  <2> QED
    BY <1>0, <2>1, <2>3, CoreStepStore DEF StoreStepOf
<1>4. ASSUME NEW n \in Correct, LoopbackHeader(n) PROVE \E h : StoreStepOf(n, h)
  <2>1. PICK e \in primary[n].header_waiter :
          CoreStep(n, ProcessHeader(n, [primary[n] EXCEPT !.header_waiter = @ \ {e}], e[2]))
    BY <1>4 DEF LoopbackHeader
  <2> DEFINE t == [primary[n] EXCEPT !.header_waiter = @ \ {e}]
  <2>2. e[2] \in Digest /\ t \in PrimaryState
    BY <1>0, FieldTypes
  <2>3. Idle(t, primary[n])
    BY <1>0, IdleUpdate
  <2> HIDE DEF t, C
  <2>4. /\ ProcessHeader(n, t, e[2]) \in PrimaryState
        /\ StoreStep(n, C, ProcessHeader(n, t, e[2]), primary[n], e[2])
    BY <2>2, <2>3, ProcessHeaderType, ProcessHeaderStore, IdleStore, StoreStepTransitive, ZenonT(60)
  <2> QED
    BY <2>1, <2>4, CoreStepStore DEF StoreStepOf, t, C
<1>5. ASSUME NEW n \in Correct, LoopbackCertificate(n) PROVE \E h : StoreStepOf(n, h)
  <2>1. PICK c \in primary[n].certificate_waiter :
          CoreStep(n, ProcessCertificate(n,
                         [primary[n] EXCEPT !.certificate_waiter = @ \ {c}], c))
    BY <1>5 DEF LoopbackCertificate
  <2> DEFINE t == [primary[n] EXCEPT !.certificate_waiter = @ \ {c}]
             u == ProcessCertificate(n, t, c)
  <2>2. c \in Digest /\ t \in PrimaryState
    BY <1>0, FieldTypes
  <2>3. Idle(t, primary[n])
    BY <1>0 DEF Idle, Quiet, Grows, PrimaryState
  <2> HIDE DEF t, C
  <2>4. u \in PrimaryState /\ StoreStep(n, C \cup {c}, u, primary[n], c)
    <3>1. u \in PrimaryState /\ StoreStep(n, C \cup {c}, u, t, c)
      BY <2>2, ProcessCertificateType, ProcessCertificateStore
    <3> QED
      BY <2>3, <3>1, IdleStore, StoreStepTransitive
  <2> HIDE DEF u
  <2>5. StoreStep(n, C, u, primary[n], c)
    BY <2>1, <2>4 DEF StoreStep
  <2> QED
    BY <2>1, <2>4, <2>5, CoreStepStore DEF StoreStepOf, t, u, C
<1>6. ASSUME NEW n \in Correct, ReceiveOwnHeader(n) PROVE \E h : StoreStepOf(n, h)
  <2> DEFINE h == Head(proposer[n].tx_core)
  <2>1. h \in Digest
    <3>1. proposer[n].tx_core \in Seq(Digest) /\ proposer[n].tx_core # << >>
      BY <1>6 DEF TypeOK, ProposerState, ReceiveOwnHeader
    <3> QED
      BY <3>1
  <2>2. CoreStep(n, ProcessOwnHeader(n, primary[n], h))
    BY <1>6 DEF ReceiveOwnHeader
  <2> HIDE DEF h
  <2>3. /\ ProcessOwnHeader(n, primary[n], h) \in PrimaryState
        /\ StoreStep(n, C, ProcessOwnHeader(n, primary[n], h), primary[n], h)
    <3> HIDE DEF C
    <3> QED
      BY <1>0, <2>1, ProcessOwnHeaderType, ProcessOwnHeaderStore
  <2> QED
    BY <2>2, <2>3, CoreStepStore DEF StoreStepOf
<1>7. ASSUME NEW n \in Correct, Idle(primary'[n], primary[n]),
             \A m \in Correct \ {n} : primary'[m] = primary[m]
      PROVE  \E h : StoreStepOf(n, h)
  BY <1>7, IdleStore DEF StoreStepOf
<1>8. ASSUME NEW n \in Correct, CancelHeaders(n) PROVE \E h : StoreStepOf(n, h)
  <2>1. PICK W : primary' = [primary EXCEPT ![n].header_waiter = W]
    BY <1>8 DEF CancelHeaders
  <2>2. /\ primary'[n] = [primary[n] EXCEPT !.header_waiter = W]
        /\ \A m \in Correct \ {n} : primary'[m] = primary[m]
    BY <2>1 DEF TypeOK
  <2> QED
    BY <1>0, <1>7, <2>2, IdleUpdate, ZenonT(60)
<1>9. ASSUME NEW n \in Correct, MakeHeader(n) \/ Commit(n) PROVE \E h : StoreStepOf(n, h)
  <2>1. UNCHANGED primary
    BY <1>9 DEF MakeHeader, Commit
  <2> QED
    BY <1>7, <2>1 DEF Idle, Quiet, Grows
<1>10. ASSUME NEW n \in Correct, ReceiveParents(n) PROVE \E h : StoreStepOf(n, h)
  <2> DEFINE s == primary[n]
             t == [s EXCEPT !.tx_proposer = Tail(@)]
             q == s.tx_proposer
             Q == [parents : SUBSET Digest, round : Rounds]
  <2>1. primary' = [primary EXCEPT ![n] = t] /\ q \in Seq(Q) /\ q # << >>
    BY <1>0, <1>10 DEF ReceiveParents, PrimaryState
  <2>2. /\ t.headers = s.headers /\ t.certificates = s.certificates
        /\ t.certificate_waiter = s.certificate_waiter
        /\ t.sent_headers = s.sent_headers /\ t.sent_votes = s.sent_votes
        /\ t.sent_certificates = s.sent_certificates /\ t.payload = s.payload
        /\ t.aggregators = s.aggregators /\ t.tx_proposer = Tail(q)
    BY <1>0 DEF PrimaryState
  <2>3. primary'[n] = t /\ \A m \in Correct \ {n} : primary'[m] = primary[m]
    BY <2>1 DEF TypeOK
  <2>4. \A i \in 1..Len(Tail(q)) : Tail(q)[i] = q[i + 1] /\ i + 1 \in 1..Len(q)
    <3> HIDE DEF q, Q
    <3> QED
      BY <2>1
  <2> HIDE DEF t
  <2>5. ProposalGood(s) => ProposalGood(t)
    <3> SUFFICES ASSUME ProposalGood(s) PROVE ProposalGood(t)
      OBVIOUS
    <3>1. \A r \in Rounds : AggregatorGood(t, r)
      BY <2>2 DEF ProposalGood, AggregatorGood
    <3>2. ASSUME NEW i \in 1..Len(t.tx_proposer)
          PROVE  ParentQuorum(t, t.tx_proposer[i].parents, t.tx_proposer[i].round + 1)
      <4>1. ParentQuorum(s, q[i + 1].parents, q[i + 1].round + 1)
        BY <2>2, <2>4 DEF ProposalGood
      <4> QED
        BY <2>2, <2>4, <4>1 DEF ParentQuorum
    <3> QED
      BY <3>1, <3>2 DEF ProposalGood
  <2>6. \A h : StoreStep(n, C, t, s, h)
    BY <2>2, <2>5 DEF StoreStep, Grows
  <2> QED
    BY <2>3, <2>6 DEF StoreStepOf
<1>11. ASSUME NEW n \in Correct, ReceivePayload(n) PROVE \E h : StoreStepOf(n, h)
  <2>1. PICK b \in Batch : primary' = [primary EXCEPT ![n].payload = @ \cup {b}]
    BY <1>11 DEF ReceivePayload
  <2>2. /\ primary'[n] = [primary[n] EXCEPT !.payload = @ \cup {b}]
        /\ \A m \in Correct \ {n} : primary'[m] = primary[m]
    BY <2>1 DEF TypeOK
  <2> QED
    BY <1>0, <1>7, <2>2, IdleUpdate, ZenonT(60)
<1> QED
  BY <1>1, <1>2, <1>3, <1>4, <1>5, <1>6, <1>8, <1>9, <1>10, <1>11 DEF Next

------------------------------------------------------------------------------
(* The invariant of the store *)

StoreInv ==
    \A n \in Correct :
        /\ \A c \in primary[n].certificates : ParentsStored(primary[n], c)
        /\ \A h \in primary[n].sent_votes : Votable(n, primary[n], h)
        /\ ProposalGood(primary[n])

LEMMA InitStore == Init => StoreInv
<1> SUFFICES ASSUME Init, NEW n \in Correct
             PROVE  /\ \A c \in primary[n].certificates : ParentsStored(primary[n], c)
                    /\ \A h \in primary[n].sent_votes : Votable(n, primary[n], h)
                    /\ ProposalGood(primary[n])
  BY DEF StoreInv
<1>1. /\ primary[n].certificates = {} /\ primary[n].sent_votes = {}
      /\ primary[n].tx_proposer = << >>
      /\ \A r \in Rounds : primary[n].aggregators[r] = NewAggregator
  BY DEF Init, InitPrimary
<1>2. \A r \in Rounds : AggregatorGood(primary[n], r)
  <2> SUFFICES ASSUME NEW r \in Rounds PROVE AggregatorGood(primary[n], r)
    OBVIOUS
  <2>1. primary[n].aggregators[r] = NewAggregator
    BY <1>1
  <2> QED
    BY <2>1, StakeInEmpty, FS_EmptySet DEF AggregatorGood, NewAggregator
<1> QED
  BY <1>1, <1>2 DEF ProposalGood

LEMMA NextStoreInv == TypeOK /\ StoreInv /\ [Next]_vars => StoreInv'
<1>1. ASSUME TypeOK, StoreInv, Next PROVE StoreInv'
  <2>0. PICK n \in Correct : \E h : StoreStepOf(n, h)
    BY <1>1, NextStore
  <2>1. PICK h : StoreStepOf(n, h)
    BY <2>0
  <2> DEFINE s == primary[n]
             t == primary'[n]
  <2>2. Grows(t, s)
    BY <2>1 DEF StoreStepOf, StoreStep
  <2>3. ASSUME NEW c \in t.certificates PROVE ParentsStored(t, c)
    <3>1. ParentsStored(s, c)
      BY <1>1, <2>1 DEF StoreStepOf, StoreStep, StoreInv
    <3> QED
      BY <2>2, <3>1, GrowsKeeps
  <2>4. ASSUME NEW g \in t.sent_votes PROVE Votable(n, t, g)
    <3>1. CASE g \in s.sent_votes
      <4>1. Votable(n, s, g)
        BY <1>1, <3>1 DEF StoreInv
      <4> QED
        BY <2>2, <4>1, GrowsKeeps
    <3>2. CASE g \notin s.sent_votes
      BY <2>1, <3>2 DEF StoreStepOf, StoreStep
    <3> QED
      BY <3>1, <3>2
  <2>5. ProposalGood(t)
    BY <1>1, <2>1 DEF StoreStepOf, StoreStep, StoreInv
  <2> QED
    BY <1>1, <2>1, <2>3, <2>4, <2>5 DEF StoreInv, StoreStepOf
<1>2. ASSUME StoreInv, UNCHANGED vars PROVE StoreInv'
  BY <1>2 DEF StoreInv, vars
<1> QED
  BY <1>1, <1>2

LEMMA StoreInvariant == Spec => []StoreInv
  BY InitStore, NextStoreInv, TypeCorrect, PTL DEF Spec

(* CausalDelivery: a certificate is stored and sent to the consensus only  *)
(* after all its parents, whichever way it reached Core (the network, the  *)
(* CertificateWaiter, its own votes).                                      *)
THEOREM AncestorsFirst == Spec => []CausalDelivery
<1>1. StoreInv => CausalDelivery
  BY DEF StoreInv, CausalDelivery
<1> QED
  BY <1>1, StoreInvariant, PTL

(* VotedAvailable: a vote is cast only for a stored header whose parents   *)
(* are a stored quorum and whose batches the workers hold.                 *)
THEOREM VotesAreBacked == Spec => []VotedAvailable
<1>1. StoreInv => VotedAvailable
  BY DEF StoreInv, VotedAvailable, Votable
<1> QED
  BY <1>1, StoreInvariant, PTL

------------------------------------------------------------------------------
(* What is proposed *)

(* Nothing leaves the store, and what was sent stays sent. *)
LEMMA NextGrows ==
    ASSUME TypeOK, [Next]_vars
    PROVE  \A m \in Correct : Grows(primary'[m], primary[m])
<1>1. CASE Next
  <2>0. PICK n \in Correct : \E h : StoreStepOf(n, h)
    BY <1>1, NextStore
  <2>1. PICK h : StoreStepOf(n, h)
    BY <2>0
  <2>2. Grows(primary'[n], primary[n])
    BY <2>1 DEF StoreStepOf, StoreStep
  <2>3. \A m \in Correct \ {n} : Grows(primary'[m], primary[m])
    BY <2>1 DEF StoreStepOf, Grows
  <2> QED
    BY <2>2, <2>3
<1>2. CASE UNCHANGED vars
  BY <1>2 DEF vars, Grows
<1> QED
  BY <1>1, <1>2

(* The parents the Proposer holds are a quorum of the round before, and so *)
(* are the parents of what it made.                                        *)
ProposedInv ==
    \A n \in Correct :
        /\ proposer[n].last_parents # {}
              => ParentQuorum(primary[n], proposer[n].last_parents, proposer[n].round)
        /\ \A h \in proposer[n].made : ValidParents(h) /\ ParentsStored(primary[n], h)

LEMMA InitProposed ==
    ASSUME TotalStake > 0
    PROVE  Init => ProposedInv
<1> SUFFICES ASSUME Init, NEW n \in Correct
             PROVE  /\ ParentQuorum(primary[n], proposer[n].last_parents, proposer[n].round)
                    /\ proposer[n].made = {}
  BY DEF ProposedInv
<1>1. /\ proposer[n].last_parents = Genesis /\ proposer[n].round = 1
      /\ proposer[n].made = {}
  BY DEF Init, InitProposer
<1>2. \A p \in Genesis : round[p] + 1 = 1
  BY DEF Genesis
<1> QED
  BY <1>1, <1>2, GenesisQuorum DEF ParentQuorum

LEMMA NextProposed ==
    TypeOK /\ StoreInv /\ ProposedInv /\ [Next]_vars => ProposedInv'
<1> SUFFICES ASSUME TypeOK, StoreInv, ProposedInv, [Next]_vars PROVE ProposedInv'
  OBVIOUS
<1>0. ASSUME NEW m \in Correct
      PROVE  /\ \A h : ParentsStored(primary[m], h) => ParentsStored(primary'[m], h)
             /\ \A P, r : ParentQuorum(primary[m], P, r) => ParentQuorum(primary'[m], P, r)
  BY NextGrows, GrowsKeeps
<1>1. ASSUME NEW n \in Correct, MakeHeader(n) PROVE ProposedInv'
  <2>1. PICK h \in Digest :
          /\ proposer[n].last_parents # {}
          /\ round[h] = proposer[n].round
          /\ parents[h] = proposer[n].last_parents
          /\ proposer' = [proposer EXCEPT ![n].last_parents = {},
                                          ![n].tx_core = Append(@, h),
                                          ![n].made = @ \cup {h}]
          /\ UNCHANGED primary
    BY <1>1 DEF MakeHeader
  <2>2. /\ proposer'[n].last_parents = {}
        /\ proposer'[n].made = proposer[n].made \cup {h}
        /\ \A m \in Correct \ {n} : proposer'[m] = proposer[m]
    BY <2>1 DEF TypeOK, ProposerState
  <2>3. ParentQuorum(primary[n], parents[h], round[h])
    BY <2>1 DEF ProposedInv
  <2>4. ValidParents(h) /\ ParentsStored(primary[n], h)
    BY <2>3, ParentStakeIn DEF ParentQuorum, ValidParents, ParentsStored
  <2> QED
    BY <2>1, <2>2, <2>4 DEF ProposedInv
<1>2. ASSUME NEW n \in Correct, ReceiveParents(n) PROVE ProposedInv'
  <2> DEFINE q == primary[n].tx_proposer
             m == Head(q)
             Q == [parents : SUBSET Digest, round : Rounds]
  <2>1. CASE UNCHANGED proposer
    BY <1>0, <2>1 DEF ProposedInv
  <2>2. CASE proposer' = [proposer EXCEPT ![n].round = m.round + 1,
                                          ![n].last_parents = m.parents]
    <3>1. m = q[1] /\ 1 \in 1..Len(q)
      <4>1. q \in Seq(Q) /\ q # << >>
        BY <1>2 DEF TypeOK, PrimaryState, ReceiveParents
      <4> HIDE DEF q, Q
      <4> QED
        BY <4>1
    <3>2. ParentQuorum(primary[n], m.parents, m.round + 1)
      BY <3>1 DEF StoreInv, ProposalGood
    <3> HIDE DEF m
    <3>3. /\ proposer'[n].round = m.round + 1
          /\ proposer'[n].last_parents = m.parents
          /\ proposer'[n].made = proposer[n].made
          /\ \A k \in Correct \ {n} : proposer'[k] = proposer[k]
      BY <2>2 DEF TypeOK, ProposerState
    <3>4. ParentQuorum(primary'[n], proposer'[n].last_parents, proposer'[n].round)
      BY <1>0, <3>2, <3>3
    <3> QED
      BY <1>0, <3>3, <3>4 DEF ProposedInv
  <2> QED
    BY <1>2, <2>1, <2>2 DEF ReceiveParents
<1>3. ASSUME NEW n \in Correct, ReceiveOwnHeader(n) PROVE ProposedInv'
  <2>1. \A m \in Correct : /\ proposer'[m].made = proposer[m].made
                           /\ proposer'[m].round = proposer[m].round
                           /\ proposer'[m].last_parents = proposer[m].last_parents
    BY <1>3 DEF ReceiveOwnHeader, TypeOK, ProposerState
  <2> QED
    BY <1>0, <2>1 DEF ProposedInv
<1>4. CASE UNCHANGED proposer
  BY <1>0, <1>4 DEF ProposedInv
<1> QED
  BY <1>1, <1>2, <1>3, <1>4
  DEF Next, vars, ReceiveHeader, HeaderArrives, ReceiveVote, VoteArrives,
      ReceiveCertificate, CertificateArrives, LoopbackHeader, LoopbackCertificate,
      CancelHeaders, ReceivePayload, Commit

LEMMA ProposedInvariant ==
    ASSUME TotalStake > 0
    PROVE  Spec => []ProposedInv
<1>1. Init => ProposedInv
  BY InitProposed
<1> QED
  BY <1>1, NextProposed, TypeCorrect, StoreInvariant, PTL DEF Spec

(* ProposedValid: every header a correct primary proposes has a quorum of  *)
(* parents of the round before, all in its store, so that no other primary *)
(* refuses it for its parents.                                             *)
THEOREM ProposalsAreValid ==
    ASSUME TotalStake > 0
    PROVE  Spec => []ProposedValid
<1>1. ProposedInv => ProposedValid
  BY DEF ProposedInv, ProposedValid
<1> QED
  BY <1>1, ProposedInvariant, PTL

------------------------------------------------------------------------------
(***************************************************************************)
(* How a primary counts the votes for its own headers: the aggregator      *)
(* holds its own vote from the start, counts every vote once and for the   *)
(* header it was cast for, and reaches the quorum once.  A certificate     *)
(* then rests on a quorum of votes, and the primaries implement            *)
(* CertifiedDag as long as nothing is garbage collected.                   *)
(***************************************************************************)

------------------------------------------------------------------------------
(* Handlers that do not count a vote *)

SameTally(t, s) ==
    /\ t.current_header = s.current_header
    /\ t.voters = s.voters
    /\ t.weight = s.weight
    /\ t.sent_headers = s.sent_headers
    /\ t.sent_certificates = s.sent_certificates

(* A step that is given h counts no vote and may record a vote for h. *)
TallyStep(t, s, h) ==
    /\ SameTally(t, s)
    /\ t.last_voted \subseteq s.last_voted \cup {<<round[h], author[h]>>}
    /\ parents[h] = {} => t.last_voted = s.last_voted

LEMMA TallyTransitive ==
    ASSUME NEW s, NEW t, NEW u, NEW h, TallyStep(t, s, h), TallyStep(u, t, h)
    PROVE  TallyStep(u, s, h)
  BY DEF TallyStep, SameTally

LEMMA DeliverCertificateTally ==
    ASSUME NEW s \in PrimaryState, NEW c \in Digest
    PROVE  TallyStep(DeliverCertificate(s, c), s, c)
  BY DEF DeliverCertificate, TallyStep, SameTally, PrimaryState

(* Our vote is counted already: a second one for an own header is refused  *)
(* (the expect() in process_header), and others' headers go elsewhere.     *)
LEMMA ProcessHeaderTally ==
    ASSUME NEW n \in Authority, NEW s \in PrimaryState, NEW h \in Digest,
           author[h] = n /\ parents[h] # {} => n \in s.voters
    PROVE  TallyStep(ProcessHeader(n, s, h), s, h)
<1> DEFINE t == [s EXCEPT !.processing = @ \cup {h}]
           u == [t EXCEPT !.headers = @ \cup {h}]
           v == [u EXCEPT !.last_voted = @ \cup {<<round[h], author[h]>>}]
<1>1. t \in PrimaryState /\ TallyStep(t, s, h)
  BY DEF PrimaryState, TallyStep, SameTally
<1>2. CASE parents[h] = {}
  <2>1. ProcessHeader(n, s, h) = t
    BY <1>2 DEF ProcessHeader
  <2> QED
    BY <1>1, <2>1
<1>3. CASE parents[h] # {}
  <2>1. ASSUME NEW what PROVE TallyStep(Suspend(t, what, h), s, h)
    <3>1. TallyStep(Suspend(t, what, h), t, h)
      <4> HIDE DEF t
      <4> QED
        BY <1>1 DEF Suspend, TallyStep, SameTally, PrimaryState
    <3> QED
      BY <1>1, <3>1, TallyTransitive
  <2>2. /\ TallyStep(u, s, h)
        /\ TallyStep([v EXCEPT !.panicked = TRUE], s, h)
        /\ TallyStep([v EXCEPT !.sent_votes = @ \cup {h}], s, h)
    BY <1>3 DEF PrimaryState, TallyStep, SameTally
  <2>3. VoteFor(n, u, h) \in {u, [v EXCEPT !.panicked = TRUE],
                              [v EXCEPT !.sent_votes = @ \cup {h}]}
    <3>1. v.voters = s.voters
      BY DEF PrimaryState
    <3> QED
      BY <1>3, <3>1 DEF VoteFor, OwnVote
  <2>4. ProcessHeader(n, s, h) \in
          {t, Suspend(t, "parents", h), Suspend(t, "batches", h), VoteFor(n, u, h)}
    BY DEF ProcessHeader
  <2> HIDE DEF t, u, v
  <2> QED
    BY <1>1, <2>1, <2>2, <2>3, <2>4
<1> QED
  BY <1>2, <1>3

LEMMA ProcessCertificateTally ==
    ASSUME NEW n \in Authority, NEW s \in PrimaryState, NEW c \in Digest,
           author[c] = n /\ parents[c] # {} => n \in s.voters
    PROVE  TallyStep(ProcessCertificate(n, s, c), s, c)
<1> DEFINE t == IF c \in s.processing THEN s ELSE ProcessHeader(n, s, c)
<1>1. t \in PrimaryState /\ TallyStep(t, s, c)
  BY ProcessHeaderType, ProcessHeaderTally DEF TallyStep, SameTally
<1>2. TallyStep(DeliverCertificate(t, c), s, c)
  BY <1>1, DeliverCertificateTally, TallyTransitive
<1>3. ProcessCertificate(n, s, c) \in {t, DeliverCertificate(t, c)}
  BY DEF ProcessCertificate
<1> QED
  BY <1>1, <1>2, <1>3

(* A vote for the current header is refused, or counted once. *)
LEMMA ProcessVoteTally ==
    ASSUME NEW n \in Authority, NEW s \in PrimaryState, NEW a \in Authority,
           s.current_header \in Digest, n \in s.voters
    PROVE  \/ ProcessVote(n, s, a) = s
           \/ /\ a \notin s.voters
              /\ TallyStep(ProcessVote(n, s, a), AppendVote(s, a, s.current_header),
                           s.current_header)
<1> DEFINE c == s.current_header
           t == AppendVote(s, a, c)
           p == [t EXCEPT !.panicked = TRUE]
<1>1. t \in PrimaryState /\ n \in t.voters
  <2>1. t \in PrimaryState
    BY AppendVoteType
  <2> QED
    BY <2>1 DEF AppendVote, PrimaryState
<1>2. TallyStep(t, t, c) /\ TallyStep(p, t, c)
  <2> HIDE DEF t
  <2> QED
    BY <1>1 DEF TallyStep, SameTally, PrimaryState
<1>3. TallyStep(ProcessCertificate(n, t, c), t, c)
  BY <1>1, ProcessCertificateTally
<1>4. \/ ProcessVote(n, s, a) = s
      \/ a \notin s.voters /\ ProcessVote(n, s, a) \in {t, p, ProcessCertificate(n, t, c)}
  BY DEF ProcessVote
<1> QED
  BY <1>2, <1>3, <1>4

LEMMA RecordVoteType ==
    ASSUME NEW s \in PrimaryState, NEW h \in Digest
    PROVE  [s EXCEPT !.last_voted = @ \cup {<<round[h], author[h]>>}] \in PrimaryState
<1>1. {<<round[h], author[h]>>} \subseteq Rounds \X Authority
  BY HeaderType
<1> QED
  BY <1>1 DEF PrimaryState

(* process_own_header starts a new tally with our own vote. *)
LEMMA ProcessOwnHeaderTally ==
    ASSUME NEW n \in Authority, NEW s \in PrimaryState, NEW h \in Digest,
           author[h] = n, ValidParents(h), ParentsStored(s, h),
           <<round[h], n>> \notin s.last_voted
    PROVE  \E w \in PrimaryState :
              /\ w.current_header = h /\ w.voters = {} /\ w.weight = 0
              /\ w.sent_headers = s.sent_headers \cup {h}
              /\ w.sent_certificates = s.sent_certificates
              /\ w.last_voted = s.last_voted \cup {<<round[h], n>>}
              /\ w.sent_votes = s.sent_votes \cup {h}
              /\ TallyStep(ProcessOwnHeader(n, s, h), AppendVote(w, n, h), h)
              /\ h \in ProcessOwnHeader(n, s, h).sent_votes
<1> DEFINE r == [s EXCEPT !.current_header = h, !.voters = {}, !.weight = 0,
                          !.sent_headers = @ \cup {h}]
           t == [r EXCEPT !.processing = @ \cup {h}]
           u == [t EXCEPT !.headers = @ \cup {h}]
           v == [u EXCEPT !.last_voted = @ \cup {<<round[h], author[h]>>}]
           w == [v EXCEPT !.sent_votes = @ \cup {h}]
           x == AppendVote(w, n, h)
<1>1. r \in PrimaryState /\ u \in PrimaryState
  <2>1. r \in PrimaryState
    BY DEF PrimaryState
  <2>2. t \in PrimaryState
    <3> HIDE DEF r
    <3> QED
      BY <2>1 DEF PrimaryState
  <2> HIDE DEF t
  <2> QED
    BY <2>1, <2>2 DEF PrimaryState
<1>2. w \in PrimaryState
  <2>1. v \in PrimaryState
    <3> HIDE DEF u
    <3> QED
      BY <1>1, RecordVoteType
  <2> HIDE DEF v
  <2> QED
    BY <2>1 DEF PrimaryState
<1>3. /\ w.current_header = h /\ w.voters = {} /\ w.weight = 0
      /\ w.sent_headers = s.sent_headers \cup {h}
      /\ w.sent_certificates = s.sent_certificates
      /\ w.last_voted = s.last_voted \cup {<<round[h], n>>}
      /\ w.sent_votes = s.sent_votes \cup {h}
  BY DEF PrimaryState
<1>4. parents[h] # {} /\ ~HeaderFails(r, h)
  BY ValidHasParents DEF HeaderFails
<1>5. ParentsStored(r, h) /\ ~MissingPayload(n, r, h)
  BY DEF ParentsStored, MissingPayload, PrimaryState
<1>6. ProcessOwnHeader(n, s, h) = VoteFor(n, u, h)
  BY <1>4, <1>5 DEF ProcessOwnHeader, ProcessHeader
<1>7. VoteFor(n, u, h) = OwnVote(n, v, h)
  <2>1. u.last_voted = s.last_voted
    BY DEF PrimaryState
  <2> HIDE DEF u
  <2> QED
    BY <2>1 DEF VoteFor
<1>8. OwnVote(n, v, h) \in {x, DeliverCertificate(x, h)}
  <2>1. v.voters = {}
    BY DEF PrimaryState
  <2> HIDE DEF v
  <2> QED
    BY <2>1 DEF OwnVote
<1> HIDE DEF r, t, u, v, w
<1>9. x \in PrimaryState /\ x.sent_votes = w.sent_votes
  <2>1. x \in PrimaryState
    BY <1>2, AppendVoteType
  <2> QED
    BY <1>2, <2>1, AppendVoteVotes DEF SameVotes
<1>10. TallyStep(x, x, h) /\ TallyStep(DeliverCertificate(x, h), x, h)
  BY <1>9, DeliverCertificateTally DEF TallyStep, SameTally
<1>11. DeliverCertificate(x, h).sent_votes = x.sent_votes
  BY <1>9, DeliverCertificateVotes DEF SameVotes
<1>12. h \in ProcessOwnHeader(n, s, h).sent_votes
  BY <1>3, <1>6, <1>7, <1>8, <1>9, <1>11
<1>13. TallyStep(ProcessOwnHeader(n, s, h), x, h)
  BY <1>6, <1>7, <1>8, <1>10
<1> QED
  BY <1>2, <1>3, <1>12, <1>13

------------------------------------------------------------------------------
(* What the weight stands for *)

LEMMA StakeAdd ==
    ASSUME NEW S \in SUBSET Authority, NEW a \in Authority, a \notin S
    PROVE  StakeOf(S \cup {a}) = StakeOf(S) + stake[a]
<1> DEFINE k == stake[a]
<1>1. k \in 0..MaxStake /\ MaxStake \in Nat
  BY CommitteeAssumption
<1>2. Units({a}) = {a} \X (1..k)
  BY <1>1 DEF Units
<1>3. Cardinality({a} \X (1..k)) = k
  <2>1. 1 \in Int /\ k \in Int /\ k >= 0
    BY <1>1
  <2> HIDE DEF k
  <2>2. IsFiniteSet(1..k) /\ Cardinality(1..k) = IF 1 > k THEN 0 ELSE k - 1 + 1
    BY <2>1, FS_Interval
  <2>3. IsFiniteSet({a}) /\ Cardinality({a}) = 1
    BY FS_Singleton
  <2>4. Cardinality({a} \X (1..k)) = Cardinality({a}) * Cardinality(1..k)
    BY <2>2, <2>3, FS_Product
  <2> QED
    BY <2>1, <2>2, <2>3, <2>4
<1>4. StakeOf({a}) = k
  BY <1>2, <1>3 DEF StakeOf
<1>5. StakeOf(S \cup {a}) = StakeOf(S) + StakeOf({a}) - StakeOf(S \cap {a})
  BY StakeUnion
<1>6. S \cap {a} = {} /\ StakeOf({}) = 0
  BY FS_EmptySet DEF StakeOf, Units
<1>7. StakeOf(S) \in Nat
  BY StakeType
<1>8. StakeOf(S \cup {a}) = StakeOf(S) + k - 0
  BY <1>4, <1>5, <1>6, Zenon
<1> QED
  BY <1>1, <1>7, <1>8

(* The weight is the stake of the voters that came after the quorum Q.     *)
CountedFrom(s, Q) ==
    /\ s.weight = StakeOf(s.voters \ Q)
    /\ s.current_header \in s.sent_certificates => IsQuorum(Q)
    /\ s.current_header \notin s.sent_certificates => Q = {}

CountGood(s) == \E Q \in SUBSET s.voters : CountedFrom(s, Q)

LEMMA AppendVoteCount ==
    ASSUME NEW s \in PrimaryState, NEW a \in Authority, a \notin s.voters,
           s.current_header \in Digest, CountGood(s)
    PROVE  LET t == AppendVote(s, a, s.current_header)
           IN  /\ CountGood(t)
               /\ t.current_header = s.current_header
               /\ t.voters = s.voters \cup {a}
               /\ t.sent_headers = s.sent_headers
               /\ t.last_voted = s.last_voted
               /\ \/ t.sent_certificates = s.sent_certificates
                  \/ /\ t.sent_certificates = s.sent_certificates \cup {s.current_header}
                     /\ IsQuorum(t.voters)
<1> DEFINE c == s.current_header
           t == AppendVote(s, a, c)
           V == s.voters \cup {a}
<1>1. PICK Q \in SUBSET s.voters : CountedFrom(s, Q)
  BY DEF CountGood
<1>2. s.voters \in SUBSET Authority /\ V \in SUBSET Authority
  BY DEF PrimaryState
<1>3. StakeOf(V \ Q) = s.weight + stake[a]
  <2>1. V \ Q = (s.voters \ Q) \cup {a} /\ a \notin s.voters \ Q
    OBVIOUS
  <2>2. StakeOf((s.voters \ Q) \cup {a}) = StakeOf(s.voters \ Q) + stake[a]
    BY <1>2, <2>1, StakeAdd
  <2> QED
    BY <1>1, <2>1, <2>2, Zenon DEF CountedFrom
<1>4. /\ t.current_header = c /\ t.voters = V /\ t.sent_headers = s.sent_headers
      /\ t.last_voted = s.last_voted
      /\ \/ /\ s.weight + stake[a] >= QuorumThreshold
            /\ t.weight = 0 /\ t.sent_certificates = s.sent_certificates \cup {c}
         \/ /\ t.weight = s.weight + stake[a]
            /\ t.sent_certificates = s.sent_certificates
  BY DEF AppendVote, PrimaryState
<1> HIDE DEF t, c, V
<1>5. CASE /\ s.weight + stake[a] >= QuorumThreshold
           /\ t.weight = 0 /\ t.sent_certificates = s.sent_certificates \cup {c}
  <2>1. IsQuorum(V)
    <3>1. StakeOf(V \ Q) <= StakeOf(V) /\ StakeOf(V) \in Nat /\ StakeOf(V \ Q) \in Nat
      BY <1>2, StakeMonotone, StakeType
    <3> QED
      BY <1>3, <1>5, <3>1, QuorumNat DEF IsQuorum
  <2>2. StakeOf(V \ V) = 0
    BY FS_EmptySet DEF StakeOf, Units
  <2>3. CountedFrom(t, V)
    BY <1>4, <1>5, <2>1, <2>2 DEF CountedFrom
  <2> QED
    BY <1>4, <1>5, <2>1, <2>3 DEF CountGood, t, c, V
<1>6. CASE /\ t.weight = s.weight + stake[a]
           /\ t.sent_certificates = s.sent_certificates
  <2>1. CountedFrom(t, Q)
    BY <1>1, <1>3, <1>4, <1>6 DEF CountedFrom, c
  <2>2. Q \in SUBSET t.voters
    BY <1>4 DEF V
  <2> QED
    BY <1>4, <1>6, <2>1, <2>2 DEF CountGood, t, c, V
<1> QED
  BY <1>4, <1>5, <1>6

------------------------------------------------------------------------------
(* The invariant of the tally *)

(* A primary that sent a header has a current one and its own vote for it, *)
(* and it voted as an author only for headers it sent.                     *)
TallyGood(n, s) ==
    /\ s.sent_headers # {} => s.current_header # NoHeader
    /\ s.current_header # NoHeader => n \in s.voters
    /\ \A v \in s.last_voted : v[2] = n => \E g \in s.sent_headers : round[g] = v[1]
    /\ CountGood(s)

(* The headers on their way to Core were not sent, and each is there once. *)
Fresh(q, M) ==
    \A i \in 1..Len(q) : q[i] \notin M /\ \A j \in 1..Len(q) : q[i] = q[j] => i = j

TallyInv ==
    \A n \in Correct :
        /\ TallyGood(n, primary[n])
        /\ OwnGood(n, primary[n].sent_headers, primary[n])
        /\ Fresh(proposer[n].tx_core, primary[n].sent_headers)

(* Who is counted voted for the current header, and every certificate sent *)
(* has its quorum of votes.                                                *)
VotersInv ==
    \A n \in Correct :
        /\ primary[n].current_header # NoHeader
              => \A a \in primary[n].voters : VoteSent(a, primary[n].current_header)
        /\ \A c \in primary[n].sent_certificates :
              IsQuorum({a \in Authority : VoteSent(a, c)})

LEMMA SameTallyCount ==
    ASSUME NEW s, NEW t, SameTally(t, s), CountGood(s)
    PROVE  CountGood(t)
<1>1. PICK Q \in SUBSET s.voters : CountedFrom(s, Q)
  BY DEF CountGood
<1>2. Q \in SUBSET t.voters /\ CountedFrom(t, Q)
  BY <1>1 DEF CountedFrom, SameTally
<1> QED
  BY <1>2 DEF CountGood

LEMMA TallyStepGood ==
    ASSUME NEW n, NEW s, NEW t, NEW h \in Digest,
           TallyGood(n, s), TallyStep(t, s, h), IsOwn(n, s.sent_headers, h)
    PROVE  TallyGood(n, t)
<1>1. CountGood(t)
  BY SameTallyCount DEF TallyGood, TallyStep
<1>2. ASSUME NEW v \in t.last_voted, v[2] = n
      PROVE  \E g \in t.sent_headers : round[g] = v[1]
  <2>1. CASE v \in s.last_voted
    BY <1>2, <2>1 DEF TallyGood, TallyStep, SameTally
  <2>2. CASE v \notin s.last_voted
    <3>1. v = <<round[h], author[h]>> /\ parents[h] # {}
      BY <2>2 DEF TallyStep
    <3>2. author[h] = n /\ h \notin Genesis /\ v[1] = round[h]
      BY <1>2, <3>1, PrimaryAssumption
    <3>3. h \in s.sent_headers
      BY <3>2 DEF IsOwn
    <3> QED
      BY <3>2, <3>3 DEF TallyStep, SameTally
  <2> QED
    BY <2>1, <2>2
<1> QED
  BY <1>1, <1>2 DEF TallyGood, TallyStep, SameTally

(* What a step of n does to its tally: nothing, or it counts a vote that   *)
(* was cast for the header that is current then.                           *)
Counts(n, t, s) ==
    /\ \A a \in t.voters :
          \/ a \in s.voters /\ t.current_header = s.current_header
          \/ VoteSent(a, t.current_header)
          \/ a = n /\ t.current_header \in t.sent_votes
    /\ \/ t.sent_certificates = s.sent_certificates
       \/ /\ t.sent_certificates = s.sent_certificates \cup {t.current_header}
          /\ t.current_header \in Digest
          /\ IsQuorum(t.voters)

TallyOf(n, t, s) ==
    /\ TallyGood(n, t)
    /\ OwnGood(n, t.sent_headers, t)
    /\ Counts(n, t, s)

LEMMA CleanupTally ==
    ASSUME NEW n, NEW s \in PrimaryState, NEW last \in Nat, NEW p, TallyOf(n, s, p)
    PROVE  /\ TallyOf(n, Cleanup(s, last), p)
           /\ Cleanup(s, last).sent_headers = s.sent_headers
<1> DEFINE t == Cleanup(s, last)
<1>1. /\ SameTally(t, s) /\ t.last_voted \subseteq s.last_voted
      /\ t.sent_votes = s.sent_votes
  BY DEF Cleanup, SameTally, PrimaryState
<1>2. OwnGood(n, s.sent_headers, t)
  BY CleanupOwn DEF TallyOf
<1> HIDE DEF t
<1>3. TallyGood(n, t)
  <2>1. CountGood(t)
    BY <1>1, SameTallyCount DEF TallyOf, TallyGood
  <2> QED
    BY <1>1, <2>1 DEF TallyOf, TallyGood, SameTally
<1>4. Counts(n, t, p)
  BY <1>1 DEF TallyOf, Counts, SameTally
<1>5. TallyOf(n, t, p) /\ t.sent_headers = s.sent_headers
  BY <1>1, <1>2, <1>3, <1>4 DEF TallyOf, SameTally
<1> QED
  BY <1>5 DEF t

(* Every handler but process_own_header and process_vote counts nothing. *)
LEMMA ProcessHeaderTallyOf ==
    ASSUME NEW n \in Authority, NEW s \in PrimaryState, NEW h \in Digest,
           TallyOf(n, s, s), IsOwn(n, s.sent_headers, h)
    PROVE  /\ TallyOf(n, ProcessHeader(n, s, h), s)
           /\ ProcessHeader(n, s, h).sent_headers = s.sent_headers
<1> DEFINE t == ProcessHeader(n, s, h)
<1>1. author[h] = n /\ parents[h] # {} => n \in s.voters
  BY PrimaryAssumption DEF IsOwn, TallyOf, TallyGood
<1>2. TallyStep(t, s, h)
  BY <1>1, ProcessHeaderTally
<1>3. OwnGood(n, s.sent_headers, t)
  BY ProcessHeaderOwn DEF TallyOf
<1> HIDE DEF t
<1>4. TallyOf(n, t, s) /\ t.sent_headers = s.sent_headers
  BY <1>2, <1>3, TallyStepGood DEF TallyOf, TallyStep, SameTally, Counts
<1> QED
  BY <1>4 DEF t

LEMMA ProcessCertificateTallyOf ==
    ASSUME NEW n \in Authority, NEW s \in PrimaryState, NEW c \in Digest,
           TallyOf(n, s, s), IsOwn(n, s.sent_headers, c)
    PROVE  /\ TallyOf(n, ProcessCertificate(n, s, c), s)
           /\ ProcessCertificate(n, s, c).sent_headers = s.sent_headers
<1> DEFINE t == ProcessCertificate(n, s, c)
<1>1. author[c] = n /\ parents[c] # {} => n \in s.voters
  BY PrimaryAssumption DEF IsOwn, TallyOf, TallyGood
<1>2. TallyStep(t, s, c)
  BY <1>1, ProcessCertificateTally
<1>3. OwnGood(n, s.sent_headers, t)
  BY ProcessCertificateOwn DEF TallyOf
<1> HIDE DEF t
<1>4. TallyOf(n, t, s) /\ t.sent_headers = s.sent_headers
  BY <1>2, <1>3, TallyStepGood DEF TallyOf, TallyStep, SameTally, Counts
<1> QED
  BY <1>4 DEF t

LEMMA ProcessVoteTallyOf ==
    ASSUME NEW n \in Authority, NEW s \in PrimaryState, NEW a \in Authority,
           s.current_header \in Digest, s.current_header # NoHeader,
           VoteSent(a, s.current_header), TallyOf(n, s, s)
    PROVE  /\ TallyOf(n, ProcessVote(n, s, a), s)
           /\ ProcessVote(n, s, a).sent_headers = s.sent_headers
<1> DEFINE c == s.current_header
           t == AppendVote(s, a, c)
           u == ProcessVote(n, s, a)
<1>1. n \in s.voters /\ CountGood(s) /\ OwnGood(n, s.sent_headers, s)
  BY DEF TallyOf, TallyGood
<1>2. OwnGood(n, s.sent_headers, u)
  BY <1>1, ProcessVoteOwn
<1>3. CASE u = s
  BY <1>3
<1>4. CASE a \notin s.voters /\ TallyStep(u, t, c)
  <2>1. /\ CountGood(t) /\ t.current_header = c /\ t.voters = s.voters \cup {a}
        /\ t.sent_headers = s.sent_headers /\ t.last_voted = s.last_voted
        /\ \/ t.sent_certificates = s.sent_certificates
           \/ /\ t.sent_certificates = s.sent_certificates \cup {c}
              /\ IsQuorum(t.voters)
    BY <1>1, <1>4, AppendVoteCount
  <2> HIDE DEF t, u
  <2>2. TallyGood(n, t)
    BY <1>1, <2>1 DEF TallyOf, TallyGood
  <2>3. IsOwn(n, t.sent_headers, c)
    BY <1>1, <2>1 DEF OwnGood, IsOwn
  <2>4. TallyGood(n, u)
    BY <1>4, <2>2, <2>3, TallyStepGood
  <2>5. /\ u.current_header = c /\ u.voters = s.voters \cup {a}
        /\ u.sent_headers = s.sent_headers
        /\ \/ u.sent_certificates = s.sent_certificates
           \/ /\ u.sent_certificates = s.sent_certificates \cup {c}
              /\ IsQuorum(u.voters)
    BY <1>4, <2>1 DEF TallyStep, SameTally
  <2>6. Counts(n, u, s)
    BY <2>5 DEF Counts
  <2>7. TallyOf(n, u, s) /\ u.sent_headers = s.sent_headers
    BY <1>2, <2>4, <2>5, <2>6 DEF TallyOf
  <2> QED
    BY <2>7 DEF u
<1> QED
  BY <1>1, <1>3, <1>4, ProcessVoteTally

LEMMA ProcessOwnHeaderTallyOf ==
    ASSUME NEW n \in Authority, NEW s \in PrimaryState, NEW h \in Digest,
           TallyOf(n, s, s), author[h] = n, ValidParents(h), ParentsStored(s, h),
           \A g \in s.sent_headers : round[g] # round[h]
    PROVE  /\ TallyOf(n, ProcessOwnHeader(n, s, h), s)
           /\ ProcessOwnHeader(n, s, h).sent_headers = s.sent_headers \cup {h}
<1> DEFINE u == ProcessOwnHeader(n, s, h)
           M == s.sent_headers \cup {h}
<1>1. <<round[h], n>> \notin s.last_voted
  <2> SUFFICES ASSUME <<round[h], n>> \in s.last_voted PROVE FALSE
    OBVIOUS
  <2> QED
    BY DEF TallyOf, TallyGood
<1>2. PICK w \in PrimaryState :
        /\ w.current_header = h /\ w.voters = {} /\ w.weight = 0
        /\ w.sent_headers = M
        /\ w.sent_certificates = s.sent_certificates
        /\ w.last_voted = s.last_voted \cup {<<round[h], n>>}
        /\ TallyStep(u, AppendVote(w, n, h), h)
        /\ h \in u.sent_votes
  BY <1>1, ProcessOwnHeaderTally
<1> DEFINE t == AppendVote(w, n, h)
<1>3. OwnGood(n, M, u)
  <2>1. OwnGood(n, M, s)
    BY DEF TallyOf, OwnGood, IsOwn
  <2> QED
    BY <2>1, ProcessOwnHeaderOwn
<1>4. h \notin s.sent_certificates
  BY DEF TallyOf, OwnGood
<1>5. CountGood(w)
  <2>1. StakeOf({}) = 0
    BY FS_EmptySet DEF StakeOf, Units
  <2>2. {} \in SUBSET w.voters /\ w.voters \ {} = {}
    BY <1>2
  <2>3. CountedFrom(w, {})
    BY <1>2, <1>4, <2>1, <2>2 DEF CountedFrom
  <2> QED
    BY <2>2, <2>3 DEF CountGood
<1>6. /\ CountGood(t) /\ t.current_header = h /\ t.voters = {n}
      /\ t.sent_headers = M /\ t.last_voted = s.last_voted \cup {<<round[h], n>>}
      /\ \/ t.sent_certificates = s.sent_certificates
         \/ t.sent_certificates = s.sent_certificates \cup {h} /\ IsQuorum(t.voters)
  <2>1. n \notin w.voters /\ w.current_header = h
    BY <1>2
  <2>2. /\ CountGood(t) /\ t.current_header = h /\ t.voters = w.voters \cup {n}
        /\ t.sent_headers = w.sent_headers /\ t.last_voted = w.last_voted
        /\ \/ t.sent_certificates = w.sent_certificates
           \/ t.sent_certificates = w.sent_certificates \cup {h} /\ IsQuorum(t.voters)
    BY <1>5, <2>1, AppendVoteCount
  <2> HIDE DEF t, M
  <2> QED
    BY <1>2, <2>2
<1> HIDE DEF t, u
<1>7. TallyGood(n, t)
  <2>1. t.current_header # NoHeader
    BY <1>6, PrimaryAssumption
  <2>2. ASSUME NEW v \in t.last_voted, v[2] = n
        PROVE  \E g \in t.sent_headers : round[g] = v[1]
    <3>1. CASE v \in s.last_voted
      BY <1>6, <2>2, <3>1 DEF TallyOf, TallyGood
    <3>2. CASE v = <<round[h], n>>
      BY <1>6, <3>2
    <3> QED
      BY <1>6, <3>1, <3>2
  <2> QED
    BY <1>6, <2>1, <2>2 DEF TallyGood
<1>8. TallyGood(n, u)
  <2>1. IsOwn(n, t.sent_headers, h)
    BY <1>6 DEF IsOwn
  <2> QED
    BY <1>2, <1>7, <2>1, TallyStepGood DEF t
<1>9. /\ u.current_header = h /\ u.voters = {n} /\ u.sent_headers = M
      /\ \/ u.sent_certificates = s.sent_certificates
         \/ u.sent_certificates = s.sent_certificates \cup {h} /\ IsQuorum(u.voters)
  BY <1>2, <1>6 DEF TallyStep, SameTally, t
<1>10. Counts(n, u, s)
  BY <1>2, <1>9 DEF Counts
<1>11. TallyOf(n, u, s) /\ u.sent_headers = M
  BY <1>3, <1>8, <1>9, <1>10 DEF TallyOf
<1> QED
  BY <1>11 DEF u

TallyStepOf(n) ==
    /\ TallyOf(n, primary'[n], primary[n])
    /\ Fresh(proposer'[n].tx_core, primary'[n].sent_headers)
    /\ \A m \in Correct \ {n} : /\ primary'[m] = primary[m]
                                /\ proposer'[m].tx_core = proposer[m].tx_core

LEMMA CoreStepTally ==
    ASSUME TypeOK, NEW n \in Correct, NEW s \in PrimaryState,
           TallyOf(n, s, primary[n]), CoreStep(n, s)
    PROVE  /\ TallyOf(n, primary'[n], primary[n])
           /\ primary'[n].sent_headers = s.sent_headers
           /\ \A m \in Correct \ {n} : primary'[m] = primary[m]
<1>1. /\ TallyOf(n, Cleanup(s, consensus_round[n]), primary[n])
      /\ Cleanup(s, consensus_round[n]).sent_headers = s.sent_headers
  BY CleanupTally DEF TypeOK
<1>2. primary'[n] \in {s, Cleanup(s, consensus_round[n])}
  BY DEF CoreStep, TypeOK
<1> QED
  BY <1>1, <1>2 DEF CoreStep, TypeOK

(* A step that takes from a waiter does not touch the tally. *)
LEMMA TakenTally ==
    ASSUME NEW n, NEW s, NEW t, TallyOf(n, s, s), SameTally(t, s),
           t.last_voted = s.last_voted,
           t.header_waiter \subseteq s.header_waiter,
           t.certificate_waiter \subseteq s.certificate_waiter
    PROVE  TallyOf(n, t, t) /\ TallyOf(n, t, s)
<1>1. CountGood(t)
  BY SameTallyCount DEF TallyOf, TallyGood
<1>2. TallyGood(n, t)
  BY <1>1 DEF TallyOf, TallyGood, SameTally
<1>3. OwnGood(n, t.sent_headers, t)
  BY DEF TallyOf, OwnGood, SameTally
<1> QED
  BY <1>2, <1>3 DEF TallyOf, Counts, SameTally

LEMMA SameTallyTransitive ==
    ASSUME NEW n, NEW s, NEW t, NEW u, SameTally(t, s), TallyOf(n, u, t)
    PROVE  TallyOf(n, u, s)
  BY DEF SameTally, TallyOf, Counts

LEMMA NextTally ==
    ASSUME TypeOK, ProposerInv, OwnInv, ProposedInv, TallyInv, Next
    PROVE  \E n \in Correct : TallyStepOf(n)
<1> USE DEF Correct
<1>0. \A n \in Correct : /\ primary[n] \in PrimaryState
                         /\ TallyOf(n, primary[n], primary[n])
                         /\ OwnGood(n, primary[n].sent_headers, primary[n])
                         /\ Fresh(proposer[n].tx_core, primary[n].sent_headers)
  BY DEF TypeOK, TallyInv, TallyOf, Counts
<1>1. ASSUME NEW n \in Correct, ReceiveHeader(n) PROVE TallyStepOf(n)
  <2>1. PICK h \in Digest :
          /\ HeaderSent(h)
          /\ CoreStep(n, IF primary[n].gc_round <= round[h]
                         THEN ProcessHeader(n, primary[n], h) ELSE primary[n])
          /\ UNCHANGED proposer
    BY <1>1 DEF ReceiveHeader, HeaderArrives
  <2>2. IsOwn(n, primary[n].sent_headers, h)
    BY <2>1 DEF HeaderSent, IsOwn
  <2>3. /\ ProcessHeader(n, primary[n], h) \in PrimaryState
        /\ TallyOf(n, ProcessHeader(n, primary[n], h), primary[n])
        /\ ProcessHeader(n, primary[n], h).sent_headers = primary[n].sent_headers
    BY <1>0, <2>2, ProcessHeaderType, ProcessHeaderTallyOf
  <2>4. /\ TallyOf(n, primary'[n], primary[n])
        /\ primary'[n].sent_headers = primary[n].sent_headers
        /\ \A m \in Correct \ {n} : primary'[m] = primary[m]
    BY <1>0, <2>1, <2>3, CoreStepTally
  <2> QED
    BY <1>0, <2>1, <2>4 DEF TallyStepOf
<1>2. ASSUME NEW n \in Correct, ReceiveVote(n) PROVE TallyStepOf(n)
  <2>1. PICK a \in Authority :
          /\ primary[n].current_header # NoHeader
          /\ VoteSent(a, primary[n].current_header)
          /\ CoreStep(n, ProcessVote(n, primary[n], a))
          /\ UNCHANGED proposer
    BY <1>2 DEF ReceiveVote, VoteArrives
  <2>2. primary[n].current_header \in Digest
    BY <1>0, <2>1 DEF PrimaryState
  <2>3. /\ ProcessVote(n, primary[n], a) \in PrimaryState
        /\ TallyOf(n, ProcessVote(n, primary[n], a), primary[n])
        /\ ProcessVote(n, primary[n], a).sent_headers = primary[n].sent_headers
    BY <1>0, <2>1, <2>2, ProcessVoteType, ProcessVoteTallyOf
  <2>4. /\ TallyOf(n, primary'[n], primary[n])
        /\ primary'[n].sent_headers = primary[n].sent_headers
        /\ \A m \in Correct \ {n} : primary'[m] = primary[m]
    BY <2>1, <2>3, CoreStepTally
  <2> QED
    BY <1>0, <2>1, <2>4 DEF TallyStepOf
<1>3. ASSUME NEW n \in Correct, ReceiveCertificate(n) PROVE TallyStepOf(n)
  <2>1. PICK c \in Digest :
          /\ CertificateSent(c)
          /\ CoreStep(n, IF primary[n].gc_round <= round[c]
                         THEN ProcessCertificate(n, primary[n], c) ELSE primary[n])
          /\ UNCHANGED proposer
    BY <1>3 DEF ReceiveCertificate, CertificateArrives
  <2>2. IsOwn(n, primary[n].sent_headers, c)
    BY <1>0, <2>1 DEF CertificateSent, IsOwn, OwnGood
  <2>3. /\ ProcessCertificate(n, primary[n], c) \in PrimaryState
        /\ TallyOf(n, ProcessCertificate(n, primary[n], c), primary[n])
        /\ ProcessCertificate(n, primary[n], c).sent_headers = primary[n].sent_headers
    BY <1>0, <2>2, ProcessCertificateType, ProcessCertificateTallyOf
  <2>4. /\ TallyOf(n, primary'[n], primary[n])
        /\ primary'[n].sent_headers = primary[n].sent_headers
        /\ \A m \in Correct \ {n} : primary'[m] = primary[m]
    BY <1>0, <2>1, <2>3, CoreStepTally
  <2> QED
    BY <1>0, <2>1, <2>4 DEF TallyStepOf
<1>4. ASSUME NEW n \in Correct, LoopbackHeader(n) PROVE TallyStepOf(n)
  <2>1. PICK e \in primary[n].header_waiter :
          /\ CoreStep(n, ProcessHeader(n, [primary[n] EXCEPT !.header_waiter = @ \ {e}], e[2]))
          /\ UNCHANGED proposer
    BY <1>4 DEF LoopbackHeader
  <2> DEFINE t == [primary[n] EXCEPT !.header_waiter = @ \ {e}]
             u == ProcessHeader(n, t, e[2])
  <2>2. e[2] \in Digest /\ t \in PrimaryState
    BY <1>0, FieldTypes
  <2>3. SameTally(t, primary[n]) /\ TallyOf(n, t, t)
    <3>1. /\ SameTally(t, primary[n]) /\ t.last_voted = primary[n].last_voted
          /\ t.header_waiter \subseteq primary[n].header_waiter
          /\ t.certificate_waiter \subseteq primary[n].certificate_waiter
      BY <1>0 DEF SameTally, PrimaryState
    <3> HIDE DEF t
    <3> QED
      BY <1>0, <3>1, TakenTally
  <2>4. IsOwn(n, t.sent_headers, e[2])
    BY <1>0, <2>3 DEF SameTally, OwnGood
  <2> HIDE DEF t
  <2>5. /\ u \in PrimaryState /\ TallyOf(n, u, primary[n])
        /\ u.sent_headers = primary[n].sent_headers
    <3>1. u \in PrimaryState /\ TallyOf(n, u, t) /\ u.sent_headers = t.sent_headers
      BY <2>2, <2>3, <2>4, ProcessHeaderType, ProcessHeaderTallyOf
    <3> QED
      BY <2>3, <3>1, SameTallyTransitive DEF SameTally
  <2>6. /\ TallyOf(n, primary'[n], primary[n])
        /\ primary'[n].sent_headers = primary[n].sent_headers
        /\ \A m \in Correct \ {n} : primary'[m] = primary[m]
    BY <2>1, <2>5, CoreStepTally DEF t, u
  <2> QED
    BY <1>0, <2>1, <2>6 DEF TallyStepOf
<1>5. ASSUME NEW n \in Correct, LoopbackCertificate(n) PROVE TallyStepOf(n)
  <2>1. PICK c \in primary[n].certificate_waiter :
          /\ CoreStep(n, ProcessCertificate(n,
                            [primary[n] EXCEPT !.certificate_waiter = @ \ {c}], c))
          /\ UNCHANGED proposer
    BY <1>5 DEF LoopbackCertificate
  <2> DEFINE t == [primary[n] EXCEPT !.certificate_waiter = @ \ {c}]
             u == ProcessCertificate(n, t, c)
  <2>2. c \in Digest /\ t \in PrimaryState
    BY <1>0, FieldTypes
  <2>3. SameTally(t, primary[n]) /\ TallyOf(n, t, t)
    <3>1. /\ SameTally(t, primary[n]) /\ t.last_voted = primary[n].last_voted
          /\ t.header_waiter \subseteq primary[n].header_waiter
          /\ t.certificate_waiter \subseteq primary[n].certificate_waiter
      BY <1>0 DEF SameTally, PrimaryState
    <3> HIDE DEF t
    <3> QED
      BY <1>0, <3>1, TakenTally
  <2>4. IsOwn(n, t.sent_headers, c)
    BY <1>0, <2>3 DEF SameTally, OwnGood
  <2> HIDE DEF t
  <2>5. /\ u \in PrimaryState /\ TallyOf(n, u, primary[n])
        /\ u.sent_headers = primary[n].sent_headers
    <3>1. u \in PrimaryState /\ TallyOf(n, u, t) /\ u.sent_headers = t.sent_headers
      BY <2>2, <2>3, <2>4, ProcessCertificateType, ProcessCertificateTallyOf
    <3> QED
      BY <2>3, <3>1, SameTallyTransitive DEF SameTally
  <2>6. /\ TallyOf(n, primary'[n], primary[n])
        /\ primary'[n].sent_headers = primary[n].sent_headers
        /\ \A m \in Correct \ {n} : primary'[m] = primary[m]
    BY <2>1, <2>5, CoreStepTally DEF t, u
  <2> QED
    BY <1>0, <2>1, <2>6 DEF TallyStepOf
<1>6. ASSUME NEW n \in Correct, ReceiveOwnHeader(n) PROVE TallyStepOf(n)
  <2> DEFINE q == proposer[n].tx_core
             h == Head(q)
             M == primary[n].sent_headers
  <2>1. q \in Seq(Digest) /\ q # << >>
    BY <1>6 DEF TypeOK, ProposerState, ReceiveOwnHeader
  <2>2. h \in Digest /\ h = q[1] /\ 1 \in 1..Len(q)
    BY <2>1
  <2>3. h \in proposer[n].made /\ M \subseteq proposer[n].made /\ h \notin M
    BY <1>0, <2>2 DEF OwnInv, OwnGood, Fresh
  <2>4. author[h] = n /\ \A g \in M : round[g] # round[h]
    BY <2>3 DEF ProposerInv
  <2>5. ValidParents(h) /\ ParentsStored(primary[n], h)
    BY <2>3 DEF ProposedInv
  <2>6. CoreStep(n, ProcessOwnHeader(n, primary[n], h))
    BY <1>6 DEF ReceiveOwnHeader
  <2>7. \A i \in 1..Len(Tail(q)) : Tail(q)[i] = q[i + 1] /\ i + 1 \in 1..Len(q) /\ i + 1 # 1
    BY <2>1
  <2>8. Fresh(Tail(q), M \cup {h})
    <3> SUFFICES ASSUME NEW i \in 1..Len(Tail(q))
                 PROVE  /\ Tail(q)[i] \notin M \cup {h}
                        /\ \A j \in 1..Len(Tail(q)) : Tail(q)[i] = Tail(q)[j] => i = j
      BY DEF Fresh
    <3>1. q[i + 1] \notin M /\ q[i + 1] # q[1]
      BY <1>0, <2>2, <2>7 DEF Fresh
    <3>2. ASSUME NEW j \in 1..Len(Tail(q)), Tail(q)[i] = Tail(q)[j] PROVE i = j
      <4>1. q[i + 1] = q[j + 1] /\ i \in Int /\ j \in Int
        BY <2>7, <3>2
      <4>2. i + 1 = j + 1
        BY <1>0, <2>7, <4>1 DEF Fresh
      <4> QED
        BY <4>1, <4>2
    <3> QED
      BY <2>2, <2>7, <3>1, <3>2
  <2>9. /\ proposer'[n].tx_core = Tail(q)
        /\ \A m \in Correct \ {n} : proposer'[m].tx_core = proposer[m].tx_core
    BY <1>6 DEF ReceiveOwnHeader, TypeOK, ProposerState
  <2> HIDE DEF q, h
  <2>10. /\ ProcessOwnHeader(n, primary[n], h) \in PrimaryState
         /\ TallyOf(n, ProcessOwnHeader(n, primary[n], h), primary[n])
         /\ ProcessOwnHeader(n, primary[n], h).sent_headers = M \cup {h}
    BY <1>0, <2>2, <2>4, <2>5, ProcessOwnHeaderType, ProcessOwnHeaderTallyOf
  <2>11. /\ TallyOf(n, primary'[n], primary[n])
         /\ primary'[n].sent_headers = M \cup {h}
         /\ \A m \in Correct \ {n} : primary'[m] = primary[m]
    BY <2>6, <2>10, CoreStepTally
  <2> QED
    BY <2>8, <2>9, <2>11 DEF TallyStepOf
<1>7. ASSUME NEW n \in Correct, NEW t, t \in PrimaryState,
             primary' = [primary EXCEPT ![n] = t],
             SameTally(t, primary[n]), t.last_voted = primary[n].last_voted,
             t.header_waiter \subseteq primary[n].header_waiter,
             t.certificate_waiter \subseteq primary[n].certificate_waiter,
             \A m \in Correct : proposer'[m].tx_core = proposer[m].tx_core
      PROVE  TallyStepOf(n)
  <2>1. TallyOf(n, t, primary[n])
    BY <1>0, <1>7, TakenTally
  <2>2. primary'[n] = t /\ \A m \in Correct \ {n} : primary'[m] = primary[m]
    BY <1>7 DEF TypeOK
  <2> QED
    BY <1>0, <1>7, <2>1, <2>2 DEF TallyStepOf, SameTally
<1>8. ASSUME NEW n \in Correct, CancelHeaders(n) PROVE TallyStepOf(n)
  <2>1. PICK W : /\ W \subseteq primary[n].header_waiter
                 /\ primary' = [primary EXCEPT ![n].header_waiter = W]
    <3>1. PICK old, late :
            /\ late \subseteq primary[n].header_waiter
            /\ primary' = [primary EXCEPT ![n].header_waiter = (@ \ old) \cup late]
      BY <1>8, Zenon DEF CancelHeaders
    <3> QED
      BY <3>1
  <2> DEFINE t == [primary[n] EXCEPT !.header_waiter = W]
  <2>2. /\ primary' = [primary EXCEPT ![n] = t] /\ t \in PrimaryState
        /\ SameTally(t, primary[n]) /\ t.last_voted = primary[n].last_voted
        /\ t.header_waiter \subseteq primary[n].header_waiter
        /\ t.certificate_waiter \subseteq primary[n].certificate_waiter
    <3>1. primary[n] \in PrimaryState
      BY <1>0
    <3>2. t \in PrimaryState /\ t.header_waiter = W
      BY <2>1, <3>1 DEF PrimaryState
    <3>3. /\ SameTally(t, primary[n]) /\ t.last_voted = primary[n].last_voted
          /\ t.certificate_waiter = primary[n].certificate_waiter
      BY <3>1 DEF SameTally, PrimaryState
    <3> QED
      BY <2>1, <3>2, <3>3
  <2> HIDE DEF t
  <2>3. UNCHANGED proposer
    BY <1>8 DEF CancelHeaders
  <2> QED
    BY <1>7, <2>2, <2>3
<1>9. ASSUME NEW n \in Correct, MakeHeader(n) PROVE TallyStepOf(n)
  <2>1. PICK h \in Digest :
          /\ proposer[n].last_parents # {}
          /\ round[h] = proposer[n].round
          /\ proposer' = [proposer EXCEPT ![n].last_parents = {},
                                          ![n].tx_core = Append(@, h),
                                          ![n].made = @ \cup {h}]
          /\ UNCHANGED primary
    BY <1>9 DEF MakeHeader
  <2> DEFINE q == proposer[n].tx_core
             M == primary[n].sent_headers
  <2>2. /\ proposer'[n].tx_core = Append(q, h) /\ q \in Seq(Digest)
        /\ \A m \in Correct \ {n} : proposer'[m] = proposer[m]
    BY <2>1 DEF TypeOK, ProposerState
  <2>3. h \notin proposer[n].made
    <3>1. \A g \in proposer[n].made : round[g] < proposer[n].round
      BY <2>1 DEF ProposerInv
    <3>2. proposer[n].round \in Nat
      BY DEF TypeOK, ProposerState
    <3> QED
      BY <2>1, <3>1, <3>2
  <2>4. h \notin M /\ \A i \in 1..Len(q) : q[i] # h
    BY <2>3 DEF OwnInv, OwnGood
  <2>5. \A i \in 1..Len(Append(q, h)) :
           \/ i \in 1..Len(q) /\ Append(q, h)[i] = q[i]
           \/ i = Len(q) + 1 /\ Append(q, h)[i] = h
    BY <2>2
  <2>6. Fresh(q, M)
    BY <1>0
  <2> HIDE DEF q, M
  <2>7. Fresh(Append(q, h), M)
    BY <2>4, <2>5, <2>6 DEF Fresh
  <2> QED
    BY <1>0, <2>1, <2>2, <2>7 DEF TallyStepOf, M
<1>10. ASSUME NEW n \in Correct, ReceiveParents(n) PROVE TallyStepOf(n)
  <2>1. primary' = [primary EXCEPT ![n].tx_proposer = Tail(@)]
    BY <1>10 DEF ReceiveParents
  <2>2. \A m \in Correct : proposer'[m].tx_core = proposer[m].tx_core
    <3>1. ASSUME NEW r, NEW P,
                 proposer' = [proposer EXCEPT ![n].round = r, ![n].last_parents = P]
          PROVE  \A m \in Correct : proposer'[m].tx_core = proposer[m].tx_core
      BY <3>1 DEF TypeOK, ProposerState
    <3> QED
      BY <1>10, <3>1 DEF ReceiveParents
  <2> DEFINE t == [primary[n] EXCEPT !.tx_proposer = Tail(@)]
             Q == [parents : SUBSET Digest, round : Rounds]
  <2>3. t \in PrimaryState
    <3>1. primary[n].tx_proposer \in Seq(Q) /\ primary[n].tx_proposer # << >>
      BY <1>0, <1>10 DEF PrimaryState, ReceiveParents
    <3>2. Tail(primary[n].tx_proposer) \in Seq(Q)
      <4> HIDE DEF Q
      <4> QED
        BY <3>1
    <3> QED
      BY <1>0, <3>2, QueueType
  <2>4. /\ primary' = [primary EXCEPT ![n] = t]
        /\ SameTally(t, primary[n]) /\ t.last_voted = primary[n].last_voted
        /\ t.header_waiter \subseteq primary[n].header_waiter
        /\ t.certificate_waiter \subseteq primary[n].certificate_waiter
    BY <1>0, <2>1 DEF SameTally, PrimaryState
  <2> HIDE DEF t
  <2> QED
    BY <1>7, <2>2, <2>3, <2>4
<1>11. ASSUME NEW n \in Correct, ReceivePayload(n) PROVE TallyStepOf(n)
  <2>1. PICK b \in Batch : /\ primary' = [primary EXCEPT ![n].payload = @ \cup {b}]
                           /\ UNCHANGED proposer
    BY <1>11 DEF ReceivePayload
  <2> DEFINE t == [primary[n] EXCEPT !.payload = @ \cup {b}]
  <2>2. /\ primary' = [primary EXCEPT ![n] = t] /\ t \in PrimaryState
        /\ SameTally(t, primary[n]) /\ t.last_voted = primary[n].last_voted
        /\ t.header_waiter \subseteq primary[n].header_waiter
        /\ t.certificate_waiter \subseteq primary[n].certificate_waiter
    <3>1. primary[n] \in PrimaryState
      BY <1>0
    <3>2. t \in PrimaryState
      BY <3>1 DEF PrimaryState
    <3>3. /\ SameTally(t, primary[n]) /\ t.last_voted = primary[n].last_voted
          /\ t.header_waiter = primary[n].header_waiter
          /\ t.certificate_waiter = primary[n].certificate_waiter
      BY <3>1 DEF SameTally, PrimaryState
    <3> QED
      BY <2>1, <3>2, <3>3
  <2> HIDE DEF t
  <2> QED
    BY <1>7, <2>1, <2>2
<1>12. ASSUME NEW n \in Correct, Commit(n) PROVE TallyStepOf(n)
  BY <1>0, <1>12 DEF Commit, TallyStepOf
<1> QED
  BY <1>1, <1>2, <1>3, <1>4, <1>5, <1>6, <1>8, <1>9, <1>10, <1>11, <1>12 DEF Next

LEMMA InitTally == Init => TallyInv /\ VotersInv
<1> SUFFICES ASSUME Init, NEW n \in Correct
             PROVE  /\ TallyGood(n, primary[n])
                    /\ OwnGood(n, primary[n].sent_headers, primary[n])
                    /\ Fresh(proposer[n].tx_core, primary[n].sent_headers)
                    /\ primary[n].current_header = NoHeader
                    /\ primary[n].sent_certificates = {}
  BY DEF TallyInv, VotersInv
<1>1. /\ primary[n].sent_headers = {} /\ primary[n].sent_certificates = {}
      /\ primary[n].current_header = NoHeader /\ primary[n].last_voted = {}
      /\ primary[n].voters = {} /\ primary[n].weight = 0
      /\ primary[n].header_waiter = {} /\ primary[n].certificate_waiter = {}
      /\ proposer[n].tx_core = << >>
  BY DEF Init, InitPrimary, InitProposer
<1>2. CountGood(primary[n])
  <2>1. StakeOf({}) = 0
    BY FS_EmptySet DEF StakeOf, Units
  <2>2. CountedFrom(primary[n], {})
    BY <1>1, <2>1 DEF CountedFrom
  <2> QED
    BY <2>2 DEF CountGood
<1> QED
  BY <1>1, <1>2 DEF TallyGood, OwnGood, Fresh

LEMMA NextTallyInv ==
    /\ TypeOK /\ ProposerInv /\ OwnInv /\ ProposedInv /\ TallyInv
    /\ [Next]_vars
    => TallyInv'
<1>1. ASSUME TypeOK, ProposerInv, OwnInv, ProposedInv, TallyInv, Next PROVE TallyInv'
  <2>1. PICK n \in Correct : TallyStepOf(n)
    BY <1>1, NextTally
  <2> QED
    BY <1>1, <2>1 DEF TallyStepOf, TallyOf, TallyInv
<1>2. ASSUME TallyInv, UNCHANGED vars PROVE TallyInv'
  BY <1>2 DEF TallyInv, vars
<1> QED
  BY <1>1, <1>2

(* The votes for h among what the primaries in P sent. *)
VotesIn(P, h) == {a \in Authority : a \in Correct => h \in P[a].sent_votes}

LEMMA VotesInSent == \A h : VotesIn(primary, h) = {a \in Authority : VoteSent(a, h)}
  BY DEF VotesIn, VoteSent

(* A vote that was sent stays sent. *)
LEMMA VotesInStable ==
    ASSUME TypeOK, [Next]_vars, NEW h
    PROVE  /\ VotesIn(primary, h) \subseteq VotesIn(primary', h)
           /\ IsQuorum(VotesIn(primary, h)) => IsQuorum(VotesIn(primary', h))
<1>1. VotesIn(primary, h) \subseteq VotesIn(primary', h)
  BY NextGrows DEF VotesIn, Grows
<1>2. VotesIn(primary', h) \in SUBSET Authority /\ VotesIn(primary, h) \in SUBSET Authority
  BY DEF VotesIn
<1>3. /\ StakeOf(VotesIn(primary, h)) <= StakeOf(VotesIn(primary', h))
      /\ StakeOf(VotesIn(primary, h)) \in Nat /\ StakeOf(VotesIn(primary', h)) \in Nat
  BY <1>1, <1>2, StakeMonotone, StakeType
<1> QED
  BY <1>1, <1>3, QuorumNat DEF IsQuorum

(* VotersInv, for the primaries in P. *)
VotersGood(P, n) ==
    /\ P[n].current_header # NoHeader => P[n].voters \subseteq VotesIn(P, P[n].current_header)
    /\ \A c \in P[n].sent_certificates : IsQuorum(VotesIn(P, c))

LEMMA VotersGoodInv ==
    ASSUME TypeOK
    PROVE  VotersInv <=> \A n \in Correct : VotersGood(primary, n)
<1>1. \A n \in Correct : primary[n].voters \subseteq Authority
  BY DEF TypeOK, PrimaryState
<1>2. \A n \in Correct :
         (\A a \in primary[n].voters : VoteSent(a, primary[n].current_header))
            <=> primary[n].voters \subseteq VotesIn(primary, primary[n].current_header)
  BY <1>1, VotesInSent
<1>3. \A n \in Correct :
         (\A c \in primary[n].sent_certificates : IsQuorum({a \in Authority : VoteSent(a, c)}))
            <=> (\A c \in primary[n].sent_certificates : IsQuorum(VotesIn(primary, c)))
  BY VotesInSent, Zenon
<1> QED
  BY <1>2, <1>3 DEF VotersInv, VotersGood

LEMMA NextVoters ==
    /\ TypeOK /\ ProposerInv /\ OwnInv /\ ProposedInv /\ TallyInv /\ VotersInv
    /\ [Next]_vars
    => VotersInv'
<1> SUFFICES ASSUME TypeOK, ProposerInv, OwnInv, ProposedInv, TallyInv, VotersInv,
                    [Next]_vars
             PROVE  VotersInv'
  OBVIOUS
<1>0. \A n \in Correct : VotersGood(primary, n)
  BY VotersGoodInv
<1>1. ASSUME NEW m \in Correct, primary'[m] = primary[m] PROVE VotersGood(primary', m)
  BY <1>0, <1>1, VotesInStable DEF VotersGood
<1>2. ASSUME NEW n \in Correct, TallyStepOf(n) PROVE VotersGood(primary', n)
  <2> DEFINE s == primary[n]
             t == primary'[n]
             h == t.current_header
  <2>1. Counts(n, t, s) /\ t \in PrimaryState
    BY <1>2, NextType DEF TallyStepOf, TallyOf, TypeOK
  <2>2. t.voters \in SUBSET Authority
    BY <2>1 DEF PrimaryState
  <2>3. ASSUME h # NoHeader PROVE t.voters \subseteq VotesIn(primary', h)
    <3> SUFFICES ASSUME NEW a \in t.voters PROVE a \in VotesIn(primary', h)
      OBVIOUS
    <3>1. CASE a \in s.voters /\ h = s.current_header
      BY <1>0, <2>3, <3>1, VotesInStable DEF VotersGood
    <3>2. CASE VoteSent(a, h)
      <4>1. a \in VotesIn(primary, h)
        BY <2>2, <3>2, VotesInSent
      <4> QED
        BY <4>1, VotesInStable
    <3>3. CASE a = n /\ h \in t.sent_votes
      BY <2>2, <3>3 DEF VotesIn
    <3> QED
      BY <2>1, <3>1, <3>2, <3>3 DEF Counts
  <2>4. ASSUME NEW c \in t.sent_certificates PROVE IsQuorum(VotesIn(primary', c))
    <3>1. CASE c \in s.sent_certificates
      BY <1>0, <3>1, VotesInStable DEF VotersGood
    <3>2. CASE c \notin s.sent_certificates
      <4>1. c = h /\ h \in Digest /\ IsQuorum(t.voters)
        BY <2>1, <3>2 DEF Counts
      <4>2. t.voters \subseteq VotesIn(primary', h) /\ VotesIn(primary', h) \in SUBSET Authority
        BY <2>3, <4>1, PrimaryAssumption DEF VotesIn
      <4>3. /\ StakeOf(t.voters) <= StakeOf(VotesIn(primary', h))
            /\ StakeOf(t.voters) \in Nat /\ StakeOf(VotesIn(primary', h)) \in Nat
        BY <2>2, <4>2, StakeMonotone, StakeType
      <4> QED
        BY <4>1, <4>3, QuorumNat DEF IsQuorum
    <3> QED
      BY <3>1, <3>2
  <2> QED
    BY <2>3, <2>4 DEF VotersGood
<1>3. \A n \in Correct : VotersGood(primary', n)
  <2>1. CASE Next
    <3>1. PICK n \in Correct : TallyStepOf(n)
      BY <2>1, NextTally
    <3> QED
      BY <1>1, <1>2, <3>1 DEF TallyStepOf
  <2>2. CASE UNCHANGED vars
    BY <1>1, <2>2 DEF vars
  <2> QED
    BY <2>1, <2>2
<1>4. ASSUME NEW n \in Correct
      PROVE  /\ primary'[n].current_header # NoHeader
                   => \A a \in primary'[n].voters :
                         a \in Correct => primary'[n].current_header \in primary'[a].sent_votes
             /\ \A c \in primary'[n].sent_certificates :
                   IsQuorum({a \in Authority : a \in Correct => c \in primary'[a].sent_votes})
  BY <1>3 DEF VotersGood, VotesIn
<1> QED
  BY <1>4 DEF VotersInv, VoteSent

LEMMA TallyInvariant ==
    ASSUME TotalStake > 0
    PROVE  Spec => [](TallyInv /\ VotersInv)
<1>1. Spec => []ProposedInv
  BY ProposedInvariant
<1> QED
  BY <1>1, InitTally, NextTallyInv, NextVoters, TypeCorrect, ProposerInvariant,
     OwnInvariant, PTL DEF Spec

(* OwnVoteCounted: the aggregator holds our own vote from the moment a     *)
(* header is current, so a later own vote is refused and never counted for *)
(* another header.                                                         *)
THEOREM OwnVoteHeld ==
    ASSUME TotalStake > 0
    PROVE  Spec => []OwnVoteCounted
<1>1. TallyInv => OwnVoteCounted
  BY DEF TallyInv, TallyGood, OwnVoteCounted
<1> QED
  BY <1>1, TallyInvariant, PTL

(* CertificateHasVotes: a certificate that a correct primary assembles     *)
(* rests on a quorum of votes for that very header, whichever headers it   *)
(* proposed before and whenever the votes arrive.                          *)
THEOREM CertificatesHaveQuorums ==
    ASSUME TotalStake > 0
    PROVE  Spec => []CertificateHasVotes
<1>1. VotersInv => CertificateHasVotes
  BY DEF VotersInv, CertificateHasVotes
<1> QED
  BY <1>1, TallyInvariant, PTL

(* AssembledOnce: after the quorum, the weight and all votes still to come *)
(* stay below the quorum.                                                  *)
THEOREM QuorumReachedOnce ==
    ASSUME TotalStake > 0
    PROVE  Spec => []AssembledOnce
<1>1. TypeOK /\ TallyInv => AssembledOnce
  <2> SUFFICES ASSUME TypeOK, TallyInv, NEW n \in Correct,
                      primary[n].current_header \in primary[n].sent_certificates
               PROVE  primary[n].weight + StakeOf(Authority \ primary[n].voters)
                         < QuorumThreshold
    BY DEF AssembledOnce
  <2> DEFINE V == primary[n].voters
  <2>1. PICK Q \in SUBSET V : CountedFrom(primary[n], Q)
    BY DEF TallyInv, TallyGood, CountGood
  <2>2. V \in SUBSET Authority
    BY DEF TypeOK, PrimaryState
  <2>3. IsQuorum(Q) /\ primary[n].weight = StakeOf(V \ Q)
    BY <2>1 DEF CountedFrom
  <2> HIDE DEF V
  <2>4. StakeOf((V \ Q) \cup (Authority \ V))
          = StakeOf(V \ Q) + StakeOf(Authority \ V) - StakeOf((V \ Q) \cap (Authority \ V))
    BY <2>2, StakeUnion
  <2>5. (V \ Q) \cup (Authority \ V) = Authority \ Q /\ (V \ Q) \cap (Authority \ V) = {}
    BY <2>2
  <2>6. StakeOf({}) = 0
    BY FS_EmptySet DEF StakeOf, Units
  <2>7. StakeOf(Authority \ Q) = StakeOf(V \ Q) + StakeOf(Authority \ V) - 0
    BY <2>4, <2>5, <2>6, Zenon
  <2>8. ~IsQuorum(Authority \ Q)
    BY <2>2, <2>3, QuorumOnce
  <2>9. StakeOf(V \ Q) \in Nat /\ StakeOf(Authority \ V) \in Nat
    BY <2>2, StakeType
  <2> QED
    BY <2>3, <2>7, <2>8, <2>9, QuorumNat DEF IsQuorum, V
<1> QED
  BY <1>1, TypeCorrect, TallyInvariant, PTL

------------------------------------------------------------------------------
(* The primaries implement CertifiedDag *)

(* Every certificate that is stored or waits was sent by its author. *)
CertifiedInv ==
    \A n \in Correct :
        primary[n].certificates \cup primary[n].certificate_waiter \subseteq Certified

LEMMA OwnCertified ==
    TypeOK /\ OwnInv /\ ProposerInv /\ ProposedInv
       => \A n \in Correct : primary[n].sent_certificates \subseteq Certified
<1> SUFFICES ASSUME TypeOK, OwnInv, ProposerInv, ProposedInv, NEW n \in Correct,
                    NEW c \in primary[n].sent_certificates
             PROVE  c \in Certified
  OBVIOUS
<1>1. c \in Digest /\ c \in proposer[n].made
  BY DEF TypeOK, PrimaryState, OwnInv, OwnGood
<1>2. author[c] = n /\ ValidParents(c)
  BY <1>1 DEF ProposerInv, ProposedInv
<1>3. c \notin Genesis /\ author[c] \notin Faulty
  BY <1>1, <1>2, ValidHasParents DEF Correct
<1> QED
  BY <1>1, <1>2, <1>3 DEF Certified, CertificateSent

LEMMA CertifiedStable ==
    ASSUME TypeOK, [Next]_vars
    PROVE  Certified \subseteq Certified'
<1> SUFFICES ASSUME NEW c \in Digest, CertificateSent(c) PROVE CertificateSent(c)'
  BY DEF Certified
<1>1. CASE c \in Genesis
  BY <1>1 DEF CertificateSent
<1>2. CASE c \notin Genesis /\ author[c] \in Faulty
  <2>1. IsQuorum(VotesIn(primary, c))
    BY <1>2, VotesInSent DEF CertificateSent
  <2>2. IsQuorum(VotesIn(primary', c))
    BY <2>1, VotesInStable
  <2>3. IsQuorum({a \in Authority : a \in Correct => c \in primary'[a].sent_votes})
    BY <2>2 DEF VotesIn
  <2> QED
    BY <1>2, <2>3 DEF CertificateSent, VoteSent
<1>3. CASE c \notin Genesis /\ author[c] \notin Faulty
  <2>1. author[c] \in Correct
    BY <1>3, HeaderType DEF Correct
  <2>2. primary[author[c]].sent_certificates \subseteq primary'[author[c]].sent_certificates
    BY <2>1, NextGrows DEF Grows
  <2> QED
    BY <1>3, <2>2 DEF CertificateSent
<1> QED
  BY <1>1, <1>2, <1>3

LEMMA NextCertified ==
    /\ TypeOK /\ CertifiedInv /\ [Next]_vars
    /\ (\A n \in Correct : primary[n].sent_certificates \subseteq Certified)'
    => CertifiedInv'
<1> SUFFICES ASSUME TypeOK, CertifiedInv, [Next]_vars,
                    \A n \in Correct : primary'[n].sent_certificates \subseteq Certified'
             PROVE  CertifiedInv'
  OBVIOUS
<1>1. Certified \subseteq Certified'
  BY CertifiedStable
<1>2. CASE Next
  <2>0. PICK n \in Correct : \E h : StoreStepOf(n, h)
    BY <1>2, NextStore
  <2>1. PICK h : StoreStepOf(n, h)
    BY <2>0
  <2>2. primary'[n].certificates \cup primary'[n].certificate_waiter \subseteq
          primary[n].certificates \cup primary[n].certificate_waiter
             \cup Certified \cup primary'[n].sent_certificates
    BY <2>1 DEF StoreStepOf, StoreStep
  <2>3. primary'[n].certificates \cup primary'[n].certificate_waiter \subseteq Certified'
    BY <1>1, <2>2 DEF CertifiedInv
  <2>4. \A m \in Correct \ {n} :
           primary'[m].certificates \cup primary'[m].certificate_waiter \subseteq Certified'
    BY <1>1, <2>1 DEF StoreStepOf, CertifiedInv
  <2> QED
    BY <2>3, <2>4 DEF CertifiedInv
<1>3. CASE UNCHANGED vars
  <2>1. \A m \in Correct :
           primary'[m].certificates \cup primary'[m].certificate_waiter \subseteq Certified'
    BY <1>1, <1>3 DEF vars, CertifiedInv
  <2> QED
    BY <2>1 DEF CertifiedInv
<1> QED
  BY <1>2, <1>3

LEMMA CertifiedInvariant ==
    ASSUME TotalStake > 0
    PROVE  Spec => []CertifiedInv
<1>1. Init => CertifiedInv
  BY DEF Init, InitPrimary, CertifiedInv
<1>2. Spec => []ProposedInv
  BY ProposedInvariant
<1> QED
  BY <1>1, <1>2, NextCertified, OwnCertified, TypeCorrect, OwnInvariant,
     ProposerInvariant, PTL DEF Spec

(* No correct primary has collected a round yet. *)
NothingCollected == \A n \in Correct : primary[n].gc_round = 0

(* What CertifiedDag asks of a certificate, of every one in a store. *)
DagGood ==
    \A n \in Correct : \A c \in primary[n].certificates :
        /\ round[c] # 0 => DagView!QuorumOfParents(c)
        /\ \A m \in Correct : \A d \in primary[m].certificates :
              author[d] = author[c] /\ round[d] = round[c] => d = c

(* A certificate has a correct voter, in whose store its parents are a     *)
(* quorum of certificates of different authors.                            *)
LEMMA DagIsGood ==
    ASSUME StakeOf(Faulty) < ValidityThreshold
    PROVE  /\ TypeOK /\ StoreInv /\ VotersInv /\ CertifiedInv /\ CertificateUnique
           /\ NothingCollected
           => DagGood
<1> SUFFICES ASSUME TypeOK, StoreInv, VotersInv, CertifiedInv, CertificateUnique,
                    NothingCollected
             PROVE  DagGood
  OBVIOUS
<1>1. ASSUME NEW c \in Certified, NEW d \in Certified,
             author[d] = author[c], round[d] = round[c]
      PROVE  d = c
  <2>1. c \in Digest /\ d \in Digest /\ CertificateSent(c) /\ CertificateSent(d)
    BY DEF Certified
  <2>2. ~ \E n \in Correct : round[d] < primary[n].gc_round
    BY <2>1, HeaderType DEF NothingCollected
  <2> QED
    BY <1>1, <2>1, <2>2 DEF CertificateUnique, SameSlot
<1>2. ASSUME NEW c \in Certified, round[c] # 0 PROVE DagView!QuorumOfParents(c)
  <2>1. c \in Digest /\ c \notin Genesis /\ CertificateSent(c)
    BY <1>2 DEF Certified, Genesis
  <2> DEFINE V == {a \in Authority : VoteSent(a, c)}
  <2>2. IsQuorum(V)
    <3>1. CASE author[c] \in Faulty
      BY <2>1, <3>1 DEF CertificateSent
    <3>2. CASE author[c] \notin Faulty
      <4>1. author[c] \in Correct
        BY <2>1, <3>2, HeaderType DEF Correct
      <4> QED
        BY <2>1, <3>2, <4>1 DEF CertificateSent, VotersInv
    <3> QED
      BY <3>1, <3>2
  <2>3. PICK a \in V : a \notin Faulty
    <3>1. V \in SUBSET Authority /\ Faulty \in SUBSET Authority
      BY PrimaryAssumption
    <3> HIDE DEF V
    <3>2. \E a \in V \cap V : a \notin Faulty
      BY <2>2, <3>1, QuorumIntersection
    <3> QED
      BY <3>2
  <2>4. a \in Correct /\ Votable(a, primary[a], c)
    BY <2>3 DEF Correct, VoteSent, StoreInv
  <2>5. /\ parents[c] \in SUBSET Digest /\ round[c] \in Nat
        /\ parents[c] \subseteq Genesis \cup primary[a].certificates
        /\ \A p \in parents[c] : round[p] + 1 = round[c] /\ round[p] \in Nat
        /\ StakeIn(parents[c]) >= QuorumThreshold
    BY <2>1, <2>4, HeaderType, ParentStakeIn DEF Votable, ParentsStored, ValidParents
  <2>6. ASSUME NEW p \in parents[c], NEW q \in parents[c], author[p] = author[q]
        PROVE  p = q
    <3>1. round[p] = round[q]
      BY <2>5
    <3>2. CASE round[p] = 0
      <4>1. p \in Genesis /\ q \in Genesis
        BY <2>5, <3>1, <3>2 DEF Genesis
      <4> QED
        BY <2>6, <4>1, PrimaryAssumption
    <3>3. CASE round[p] # 0
      <4>1. p \in primary[a].certificates /\ q \in primary[a].certificates
        BY <2>5, <3>1, <3>3 DEF Genesis
      <4>2. p \in Certified /\ q \in Certified
        BY <2>4, <4>1 DEF CertifiedInv
      <4> QED
        BY <1>1, <2>6, <3>1, <4>2
    <3> QED
      BY <3>2, <3>3
  <2>7. StakeOf({author[p] : p \in parents[c]}) = StakeIn(parents[c])
    BY <2>5, <2>6, StakeInAuthors
  <2>8. IsQuorum({author[p] : p \in parents[c]})
    BY <2>5, <2>7 DEF IsQuorum
  <2> QED
    BY <2>5, <2>8 DEF DagView!QuorumOfParents
<1> QED
  BY <1>1, <1>2 DEF DagGood, CertifiedInv

(* One step of the primaries delivers at most one certificate. *)
LEMMA DagStep ==
    TypeOK /\ TypeOK' /\ DagGood' /\ [Next]_vars
       => [DagView!DagNext]_([n \in Correct |-> primary[n].certificates])
<1> SUFFICES ASSUME TypeOK, TypeOK', DagGood', [Next]_vars
             PROVE  \/ DagView!DagNext
                    \/ [n \in Correct |-> primary'[n].certificates]
                         = [n \in Correct |-> primary[n].certificates]
  OBVIOUS
<1>1. CASE Next
  <2>0. PICK n \in Correct : \E h : StoreStepOf(n, h)
    BY <1>1, NextStore
  <2>1. PICK h : StoreStepOf(n, h)
    BY <2>0
  <2>2. \A m \in Correct \ {n} : primary'[m].certificates = primary[m].certificates
    BY <2>1 DEF StoreStepOf
  <2>3. CASE primary'[n].certificates = primary[n].certificates
    BY <2>2, <2>3
  <2>4. CASE primary'[n].certificates # primary[n].certificates
    <3>1. /\ primary'[n].certificates = primary[n].certificates \cup {h}
          /\ ParentsStored(primary[n], h)
      <4>1. primary[n].certificates \subseteq primary'[n].certificates
        BY <2>1 DEF StoreStepOf, StoreStep, Grows
      <4>2. \A c \in primary'[n].certificates \ primary[n].certificates :
               c = h /\ ParentsStored(primary[n], h)
        BY <2>1 DEF StoreStepOf, StoreStep
      <4> QED
        BY <2>4, <4>1, <4>2
    <3>2. h \in Digest /\ h \in primary'[n].certificates
      BY <3>1 DEF TypeOK, PrimaryState
    <3>3. \A p \in parents[h] : DagView!InDag(n, p)
      BY <3>1 DEF ParentsStored, Genesis, DagView!InDag
    <3>4. round[h] # 0 => DagView!QuorumOfParents(h)
      BY <3>2 DEF DagGood
    <3>5. DagView!SlotFree(h)
      <4> SUFFICES ASSUME NEW m \in Correct, NEW d \in primary[m].certificates,
                          author[d] = author[h], round[d] = round[h]
                   PROVE  d = h
        BY DEF DagView!SlotFree
      <4>1. d \in primary'[m].certificates
        BY <2>2, <3>1
      <4> QED
        BY <3>2, <4>1 DEF DagGood
    <3>6. [m \in Correct |-> primary'[m].certificates]
            = [[m \in Correct |-> primary[m].certificates] EXCEPT ![n] = @ \cup {h}]
      BY <2>2, <3>1
    <3>7. DagView!DagDeliver(n, h)
      BY <3>3, <3>4, <3>5, <3>6 DEF DagView!DagDeliver
    <3> QED
      BY <3>2, <3>7 DEF DagView!DagNext
  <2> QED
    BY <2>3, <2>4
<1>2. CASE UNCHANGED vars
  BY <1>2 DEF vars
<1> QED
  BY <1>1, <1>2

(* ImplementsCertifiedDag: as long as no correct primary collects a round, *)
(* the consensus of every correct authority is fed from one dag, ancestors *)
(* first, whatever is lost, repeated or reordered and whatever authorities *)
(* of less than f+1 stake sign.                                            *)
THEOREM PrimariesImplementDag ==
    ASSUME StakeOf(Faulty) < ValidityThreshold
    PROVE  Spec /\ []NothingCollected => ImplementsCertifiedDag
<1>1. TotalStake > 0
  <2>1. TotalStake \in Nat /\ StakeOf(Faulty) \in Nat
    BY StakeType, PrimaryAssumption DEF TotalStake
  <2> QED
    BY <2>1 DEF ValidityThreshold
<1>2. Spec => [](TallyInv /\ VotersInv)
  BY <1>1, TallyInvariant
<1>3. Spec => []CertifiedInv
  BY <1>1, CertifiedInvariant
<1>4. Spec => []CertificateUnique
  BY UniqueCertificates
<1>5. /\ TypeOK /\ StoreInv /\ VotersInv /\ CertifiedInv /\ CertificateUnique
      /\ NothingCollected
      => DagGood
  BY DagIsGood
<1>6. Init => DagView!DagInit
  BY DEF Init, InitPrimary, DagView!DagInit
<1> QED
  BY <1>2, <1>3, <1>4, <1>5, <1>6, DagStep, TypeCorrect, StoreInvariant, PTL
  DEF Spec, ImplementsCertifiedDag, DagView!DagSpec
==============================================================================
