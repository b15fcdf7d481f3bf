----------------------------- MODULE PrimaryCore -----------------------------
(***************************************************************************)
(* The mempool protocol of narwhal-tusk as its primaries run it: the Core  *)
(* task with its two aggregators, the Proposer, the Synchronizer with the  *)
(* HeaderWaiter and the CertificateWaiter, the PayloadReceiver and the     *)
(* GarbageCollector of every correct primary.                              *)
(*                                                                         *)
(* Headers are referred to by digest: header[d] is the well-formed header  *)
(* whose digest is d.  A certificate's digest covers only its header, so d *)
(* names the certificate of header[d] as well; a vote is a pair of a voter *)
(* and a digest.                                                           *)
(*                                                                         *)
(* A message that was sent stays available for ever: it may be received    *)
(* late, several times, in any order, or never.  Authorities in Faulty     *)
(* keep no state: whatever they can sign they may have sent (several       *)
(* headers for one round, votes for every header).                         *)
(*                                                                         *)
(* One action is one iteration of a task's select! loop, with the cleanup  *)
(* that ends Core's iteration.  The tokio channels Proposer -> Core and    *)
(* Core -> Proposer are queues; a message to a waiter is received with the *)
(* step that sends it, and a waiter's answer with the step that uses it.   *)
(***************************************************************************)
EXTENDS Committee, Sequences

CONSTANTS
    Faulty,       \* authorities that do not follow the protocol
    Digest,       \* digests of headers
    header,       \* the header of a digest: author, round, parents, payload
    Batch,        \* digests of the workers' batches
    GenesisSent,  \* bound: the genesis certificates faulty authorities send
    GCDepth,      \* gc_depth, rounds kept behind the last commit
    CommitLag,    \* rounds a certificate must be behind the newest to be committed
    NoHeader      \* Header::default(), before the first own header

Correct == Authority \ Faulty

author == [h \in Digest |-> header[h].author]
round == [h \in Digest |-> header[h].round]
parents == [h \in Digest |-> header[h].parents]
payload == [h \in Digest |-> header[h].payload]

Genesis == {h \in Digest : round[h] = 0}

Rounds == {round[h] : h \in Digest}

ASSUME PrimaryAssumption ==
    /\ Faulty \subseteq Authority
    /\ GenesisSent \subseteq Genesis
    /\ GCDepth \in Nat
    /\ CommitLag \in Nat
    /\ NoHeader \notin Digest
    /\ header \in [Digest -> [author : Authority, round : Nat,
                              parents : SUBSET Digest, payload : SUBSET Batch]]
    /\ \A g \in Genesis : parents[g] = {} /\ payload[g] = {}
    /\ \A g1, g2 \in Genesis : author[g1] = author[g2] => g1 = g2

(* Certificate::genesis makes one certificate for every authority. *)
ASSUME GenesisAssumption == {author[g] : g \in Genesis} = Authority

VARIABLES
    primary,          \* Core's state, the store, the waiters and what was sent
    proposer,         \* the Proposer's state and its channel to Core
    consensus_round   \* the counter shared with the GarbageCollector

vars == <<primary, proposer, consensus_round>>

Aggregator == [weight : Nat, certificates : SUBSET Digest, used : SUBSET Authority]

NewAggregator == [weight |-> 0, certificates |-> {}, used |-> {}]

------------------------------------------------------------------------------
(* Headers and their parents *)

(* Faulty variant: one parent in the store is enough. *)
OneParentStored(s, h) ==
    parents[h] = {} \/ \E p \in parents[h] : p \in Genesis \cup s.certificates

(* Every parent is a genesis certificate or a certificate in the store. *)
ParentsStored(s, h) == parents[h] \subseteq (Genesis \cup s.certificates)

(* The stake that process_header adds up, one term per parent. *)
ParentStake(h) ==
    Cardinality({u \in parents[h] \X (1..MaxStake) : u[2] <= stake[author[u[1]]]})

(* Faulty variant: the stake of the parents is not checked. *)
FewParentsValid(h) == \A p \in parents[h] : round[p] + 1 = round[h]

ValidParents(h) ==
    /\ \A p \in parents[h] : round[p] + 1 = round[h]
    /\ ParentStake(h) >= QuorumThreshold

(* missing_payload: an own header is never missing its payload. *)
MissingPayload(n, s, h) == author[h] # n /\ ~(payload[h] \subseteq s.payload)

(* process_header returns an error, which process_certificate propagates. *)
HeaderFails(s, h) == parents[h] # {} /\ ParentsStored(s, h) /\ ~ValidParents(h)

(* The HeaderWaiter takes a header once, until it hands it back. *)
Suspend(s, what, h) ==
    IF \E e \in s.header_waiter : e[2] = h
    THEN s
    ELSE [s EXCEPT !.header_waiter = @ \cup {<<what, h>>}]

------------------------------------------------------------------------------
(* Certificates *)

(* CertificatesAggregator::append for a certificate of a new origin. *)
AppendCertificate(agg, c) ==
    LET w == agg.weight + stake[author[c]]
        all == agg.certificates \cup {c}
    IN  IF w >= QuorumThreshold
        THEN [weight |-> 0, certificates |-> {}, used |-> agg.used \cup {author[c]}]
        ELSE [weight |-> w, certificates |-> all, used |-> agg.used \cup {author[c]}]

(* Faulty variant: deliver_certificate is not called. *)
NoAncestorCheck(s, c) == [s EXCEPT !.certificates = @ \cup {c}]

(* Faulty variant: parents are sent at f+1 stake. *)
ParentsAtValidity(s, c) ==
    [s EXCEPT !.certificates = @ \cup {c},
              !.tx_proposer =
                 IF stake[author[c]] >= ValidityThreshold
                 THEN Append(@, [parents |-> {c}, round |-> round[c]]) ELSE @]

(* process_certificate from the ancestors' check on.  The certificate is   *)
(* sent to the consensus whenever it is stored, so the certificates in the *)
(* store are the ones the consensus received.                              *)
DeliverCertificate(s, c) ==
    LET agg == s.aggregators[round[c]]
        t == [s EXCEPT !.certificates = @ \cup {c}]
    IN  CASE ~ParentsStored(s, c) ->
                [s EXCEPT !.certificate_waiter = @ \cup {c}]
          [] ParentsStored(s, c) /\ author[c] \in agg.used -> t
          [] OTHER ->
                [t EXCEPT
                   !.aggregators[round[c]] = AppendCertificate(agg, c),
                   !.tx_proposer =
                      IF agg.weight + stake[author[c]] >= QuorumThreshold
                      THEN Append(@, [parents |-> agg.certificates \cup {c},
                                      round   |-> round[c]])
                      ELSE @]

------------------------------------------------------------------------------
(* Votes *)

(* Faulty variant: the weight stays after the quorum. *)
WeightNotReset(s, a, h) ==
    [s EXCEPT !.voters = @ \cup {a}, !.weight = @ + stake[a],
              !.sent_certificates =
                 IF s.weight + stake[a] >= QuorumThreshold THEN @ \cup {h} ELSE @]

(* VotesAggregator::append of a first vote for the current header h, and   *)
(* the broadcast of its certificate.                                       *)
AppendVote(s, a, h) ==
    LET w == s.weight + stake[a]
    IN  IF w >= QuorumThreshold
        THEN [s EXCEPT !.voters = @ \cup {a}, !.weight = 0,
                       !.sent_certificates = @ \cup {h}]
        ELSE [s EXCEPT !.voters = @ \cup {a}, !.weight = w]

ReachesQuorum(s, a) == s.weight + stake[a] >= QuorumThreshold

(* A primary's vote for its own header.  The aggregator's error on a second *)
(* vote of one authority meets an expect() here.  It holds our vote since   *)
(* process_own_header (OwnVoteCounted), so a vote it accepts is one for the *)
(* header just made current; that one is being processed already, and its   *)
(* certificate goes straight to the ancestors' check.                       *)
OwnVote(n, s, h) ==
    IF n \in s.voters
    THEN [s EXCEPT !.panicked = TRUE]
    ELSE LET t == AppendVote([s EXCEPT !.sent_votes = @ \cup {h}], n, h)
         IN  IF ReachesQuorum(s, n) THEN DeliverCertificate(t, h) ELSE t

(* The end of process_header: vote unless this author had its vote. *)
VoteFor(n, s, h) ==
    LET t == [s EXCEPT !.last_voted = @ \cup {<<round[h], author[h]>>}]
    IN  CASE <<round[h], author[h]>> \in s.last_voted -> s
          [] <<round[h], author[h]>> \notin s.last_voted /\ author[h] = n ->
                OwnVote(n, t, h)
          [] OTHER -> [t EXCEPT !.sent_votes = @ \cup {h}]

------------------------------------------------------------------------------
(* The handlers of Core *)

(* Faulty variant: missing_payload is not called. *)
PayloadNotChecked(n, s, h) ==
    LET t == [s EXCEPT !.processing = @ \cup {h}]
    IN  IF h \in Genesis \/ ~ParentsStored(s, h) \/ ~ValidParents(h) THEN t
        ELSE VoteFor(n, [t EXCEPT !.headers = @ \cup {h}], h)

ProcessHeader(n, s, h) ==
    LET t == [s EXCEPT !.processing = @ \cup {h}]
    IN  IF parents[h] = {} \/ HeaderFails(s, h) THEN t
        ELSE IF ~ParentsStored(s, h) THEN Suspend(t, "parents", h)
        ELSE IF MissingPayload(n, s, h) THEN Suspend(t, "batches", h)
        ELSE VoteFor(n, [t EXCEPT !.headers = @ \cup {h}], h)

ProcessCertificate(n, s, c) ==
    LET t == IF c \in s.processing THEN s ELSE ProcessHeader(n, s, c)
    IN  IF t.panicked \/ (c \notin s.processing /\ HeaderFails(s, c))
        THEN t
        ELSE DeliverCertificate(t, c)

(* A second vote of one authority is refused by the aggregator.  A         *)
(* certificate we assembled ourselves must not fail: another expect().     *)
ProcessVote(n, s, a) ==
    LET c == s.current_header
        t == AppendVote(s, a, c)
    IN  IF a \in s.voters THEN s
        ELSE IF ~ReachesQuorum(s, a) THEN t
        ELSE IF c \notin s.processing /\ HeaderFails(s, c)
        THEN [t EXCEPT !.panicked = TRUE]
        ELSE ProcessCertificate(n, t, c)

ProcessOwnHeader(n, s, h) ==
    ProcessHeader(n, [s EXCEPT !.current_header = h,
                               !.voters = {}, !.weight = 0,
                               !.sent_headers = @ \cup {h}], h)

(* Faulty variant: the subtraction is not guarded. *)
CleanupNotGuarded(s, last) == [s EXCEPT !.gc_round = last - GCDepth]

(* Faulty variant: last_voted keeps k > gc_round only. *)
CleanupOneTooMany(s, last) ==
    [s EXCEPT !.gc_round = IF last > GCDepth THEN last - GCDepth ELSE @,
              !.last_voted = {v \in @ : last <= GCDepth \/ v[1] > last - GCDepth}]

(* The cleanup at the end of every iteration of Core's loop. *)
Cleanup(s, last) ==
    IF last > GCDepth
    THEN LET gc == last - GCDepth
         IN  [s EXCEPT
                !.gc_round = gc,
                !.last_voted = {v \in @ : v[1] >= gc},
                !.processing = {h \in @ : round[h] >= gc},
                !.aggregators =
                   [r \in Rounds |-> IF r >= gc THEN @[r] ELSE NewAggregator]]
    ELSE s

CoreStep(n, s) ==
    /\ ~primary[n].panicked
    /\ primary' = [primary EXCEPT
                     ![n] = IF s.panicked THEN s ELSE Cleanup(s, consensus_round[n])]
    /\ UNCHANGED consensus_round

------------------------------------------------------------------------------
(* What was sent: signatures of faulty authorities are always available. *)

HeaderSent(h) ==
    /\ h \notin Genesis
    /\ author[h] \in Correct => h \in primary[author[h]].sent_headers

VoteSent(a, h) == a \in Correct => h \in primary[a].sent_votes

(* Certificate::verify accepts a quorum of votes of distinct authorities.  *)
(* A correct author assembles its certificate itself; a faulty author may  *)
(* do so as soon as the votes exist.  Genesis certificates are valid as    *)
(* they are, but no correct primary sends one.                             *)
CertificateSent(c) ==
    CASE c \in Genesis -> c \in GenesisSent
      [] c \notin Genesis /\ author[c] \in Faulty ->
            IsQuorum({a \in Authority : VoteSent(a, c)})
      [] OTHER -> c \in primary[author[c]].sent_certificates

------------------------------------------------------------------------------
(* Core's loop *)

HeaderArrives(n, h) ==
    /\ HeaderSent(h)
    /\ CoreStep(n, IF primary[n].gc_round <= round[h]
                   THEN ProcessHeader(n, primary[n], h)
                   ELSE primary[n])
    /\ UNCHANGED proposer

ReceiveHeader(n) == \E h \in Digest : HeaderArrives(n, h)

(* Faulty variant: a vote for an earlier own header passes. *)
VoteForAnyHeader(n, a) ==
    \E h \in primary[n].sent_headers :
        /\ VoteSent(a, h)
        /\ CoreStep(n, ProcessVote(n, primary[n], a))
        /\ UNCHANGED proposer

(* sanitize_vote: only votes for the current header are expected. *)
VoteArrives(n, a) ==
    /\ primary[n].current_header # NoHeader
    /\ VoteSent(a, primary[n].current_header)
    /\ CoreStep(n, ProcessVote(n, primary[n], a))
    /\ UNCHANGED proposer

ReceiveVote(n) == \E a \in Authority : VoteArrives(n, a)

CertificateArrives(n, c) ==
    /\ CertificateSent(c)
    /\ CoreStep(n, IF primary[n].gc_round <= round[c]
                   THEN ProcessCertificate(n, primary[n], c)
                   ELSE primary[n])
    /\ UNCHANGED proposer

ReceiveCertificate(n) == \E c \in Digest : CertificateArrives(n, c)

(* What the store holds by now of what a suspended header waits for. *)
Available(s, e) ==
    IF e[1] = "parents" THEN ParentsStored(s, e[2]) ELSE payload[e[2]] \subseteq s.payload

(* A header comes back from the HeaderWaiter; it is not sanitized again. *)
LoopbackHeader(n) ==
    \E e \in primary[n].header_waiter :
        /\ Available(primary[n], e)
        /\ CoreStep(n, ProcessHeader(n, [primary[n] EXCEPT !.header_waiter = @ \ {e}], e[2]))
        /\ UNCHANGED proposer

LoopbackCertificate(n) ==
    \E c \in primary[n].certificate_waiter :
        /\ ParentsStored(primary[n], c)
        /\ CoreStep(n, ProcessCertificate(n,
                          [primary[n] EXCEPT !.certificate_waiter = @ \ {c}], c))
        /\ UNCHANGED proposer

ReceiveOwnHeader(n) ==
    /\ proposer[n].tx_core # << >>
    /\ CoreStep(n, ProcessOwnHeader(n, primary[n], Head(proposer[n].tx_core)))
    /\ proposer' = [proposer EXCEPT ![n].tx_core = Tail(@)]

------------------------------------------------------------------------------
(* The other tasks of a primary *)

(* The HeaderWaiter cancels what is too old.  A header whose data arrived   *)
(* may be on its way to Core already, or win the race with its             *)
(* cancellation: any subset of those survives.                             *)
CancelHeaders(n) ==
    LET s == primary[n]
        old == {e \in s.header_waiter : round[e[2]] <= consensus_round[n] - GCDepth}
    IN  /\ consensus_round[n] > GCDepth
        /\ old # {}
        /\ \E late \in SUBSET {e \in old : Available(s, e)} :
              primary' = [primary EXCEPT ![n].header_waiter = (@ \ old) \cup late]
        /\ UNCHANGED <<proposer, consensus_round>>

(* Faulty variant: last_parents stay after a proposal. *)
ParentsNotDrained(n) ==
    \E h \in Digest :
        /\ author[h] = n
        /\ round[h] = proposer[n].round
        /\ parents[h] = proposer[n].last_parents
        /\ proposer' = [proposer EXCEPT ![n].tx_core = Append(@, h),
                                        ![n].made = @ \cup {h}]
        /\ UNCHANGED <<primary, consensus_round>>

(* make_header, when the timer has expired or there are enough digests:    *)
(* both are left to the scheduler, and so is the payload.                  *)
MakeHeader(n) ==
    \E h \in Digest :
        /\ proposer[n].last_parents # {}
        /\ author[h] = n
        /\ round[h] = proposer[n].round
        /\ parents[h] = proposer[n].last_parents
        /\ proposer' = [proposer EXCEPT ![n].last_parents = {},
                                        ![n].tx_core = Append(@, h),
                                        ![n].made = @ \cup {h}]
        /\ UNCHANGED <<primary, consensus_round>>

(* Faulty variant: round <= self.round is ignored. *)
SameRoundIgnored(n) ==
    /\ primary[n].tx_proposer # << >>
    /\ primary' = [primary EXCEPT ![n].tx_proposer = Tail(@)]
    /\ proposer' = [proposer EXCEPT ![n].last_parents =
                       IF Head(primary[n].tx_proposer).round <= proposer[n].round
                       THEN @ ELSE Head(primary[n].tx_proposer).parents]
    /\ UNCHANGED consensus_round

(* The Proposer receives a quorum of parents from Core. *)
ReceiveParents(n) ==
    LET m == Head(primary[n].tx_proposer)
    IN  /\ primary[n].tx_proposer # << >>
        /\ primary' = [primary EXCEPT ![n].tx_proposer = Tail(@)]
        /\ IF m.round < proposer[n].round
           THEN UNCHANGED proposer
           ELSE proposer' = [proposer EXCEPT ![n].round = m.round + 1,
                                             ![n].last_parents = m.parents]
        /\ UNCHANGED consensus_round

(* The PayloadReceiver stores the digest of a batch our worker holds. *)
ReceivePayload(n) ==
    \E b \in Batch \ primary[n].payload :
        /\ primary' = [primary EXCEPT ![n].payload = @ \cup {b}]
        /\ UNCHANGED <<proposer, consensus_round>>

(* The GarbageCollector hears of a commit.  Which certificate that is, is  *)
(* the consensus' choice: Tusk orders a leader when it is sent a            *)
(* certificate three rounds above it.                                      *)
Commit(n) ==
    \E c \in primary[n].certificates :
        /\ \E d \in primary[n].certificates : round[d] >= round[c] + CommitLag
        /\ round[c] > consensus_round[n]
        /\ consensus_round' = [consensus_round EXCEPT ![n] = round[c]]
        /\ UNCHANGED <<primary, proposer>>

------------------------------------------------------------------------------
InitPrimary ==
    [gc_round |-> 0, last_voted |-> {}, processing |-> {},
     current_header |-> NoHeader, voters |-> {}, weight |-> 0,
     aggregators |-> [r \in Rounds |-> NewAggregator],
     headers |-> {}, certificates |-> {}, payload |-> {},
     header_waiter |-> {}, certificate_waiter |-> {},
     tx_proposer |-> << >>,
     sent_headers |-> {}, sent_votes |-> {}, sent_certificates |-> {},
     panicked |-> FALSE]

InitProposer == [round |-> 1, last_parents |-> Genesis, tx_core |-> << >>, made |-> {}]

Init ==
    /\ primary = [n \in Correct |-> InitPrimary]
    /\ proposer = [n \in Correct |-> InitProposer]
    /\ consensus_round = [n \in Correct |-> 0]

Next ==
    \E n \in Correct :
        \/ ReceiveHeader(n)
        \/ ReceiveVote(n)
        \/ ReceiveCertificate(n)
        \/ LoopbackHeader(n)
        \/ LoopbackCertificate(n)
        \/ ReceiveOwnHeader(n)
        \/ CancelHeaders(n)
        \/ MakeHeader(n)
        \/ ReceiveParents(n)
        \/ ReceivePayload(n)
        \/ Commit(n)

Spec == Init /\ [][Next]_vars

(* A correct sender keeps retrying a message until the cleanup drops its   *)
(* cancel_handlers.                                                        *)
Retried(a, r) == a \in Correct /\ primary[a].gc_round <= r

VoteRetried(n, a) ==
    /\ primary[n].current_header # NoHeader
    /\ Retried(a, round[primary[n].current_header])

(* What the tasks of a correct primary owe: a retried message arrives, a   *)
(* task takes from a channel what it can take, and the Proposer's timer    *)
(* expires.  Nothing is owed of faulty authorities, workers and consensus. *)
Fairness ==
    \A n \in Correct :
        /\ WF_vars(\E h \in Digest : Retried(author[h], round[h]) /\ HeaderArrives(n, h))
        /\ WF_vars(\E a \in Authority : VoteRetried(n, a) /\ VoteArrives(n, a))
        /\ WF_vars(\E c \in Digest : Retried(author[c], round[c]) /\ CertificateArrives(n, c))
        /\ WF_vars(LoopbackHeader(n))
        /\ WF_vars(LoopbackCertificate(n))
        /\ WF_vars(ReceiveOwnHeader(n))
        /\ WF_vars(MakeHeader(n))
        /\ WF_vars(ReceiveParents(n))

FairSpec == Spec /\ Fairness

------------------------------------------------------------------------------
(* Properties *)

PrimaryState ==
    [gc_round : Nat,
     last_voted : SUBSET (Rounds \X Authority),
     processing : SUBSET Digest,
     current_header : Digest \cup {NoHeader},
     voters : SUBSET Authority,
     weight : Nat,
     aggregators : [Rounds -> Aggregator],
     headers : SUBSET Digest,
     certificates : SUBSET Digest,
     payload : SUBSET Batch,
     header_waiter : SUBSET ({"parents", "batches"} \X Digest),
     certificate_waiter : SUBSET Digest,
     tx_proposer : Seq([parents : SUBSET Digest, round : Rounds]),
     sent_headers : SUBSET Digest,
     sent_votes : SUBSET Digest,
     sent_certificates : SUBSET Digest,
     panicked : BOOLEAN]

ProposerState ==
    [round : Nat, last_parents : SUBSET Digest, tx_core : Seq(Digest),
     made : SUBSET Digest]

(* Every task of a primary keeps its state in the types the code declares. *)
TypeOK ==
    /\ primary \in [Correct -> PrimaryState]
    /\ proposer \in [Correct -> ProposerState]
    /\ consensus_round \in [Correct -> Nat]

SameSlot(h1, h2) == author[h1] = author[h2] /\ round[h1] = round[h2]

(* A primary signs at most one vote per author and round, down to the      *)
(* round its own garbage collection has reached (Core::last_voted).        *)
VoteOnce ==
    \A n \in Correct : \A h1, h2 \in primary[n].sent_votes :
        SameSlot(h1, h2) /\ h1 # h2 => round[h1] < primary[n].gc_round

(* A correct primary never signs two headers for one round: the Proposer   *)
(* drains its parents and only moves to higher rounds.                     *)
OneHeaderPerRound ==
    \A n \in Correct : \A h1, h2 \in proposer[n].made :
        round[h1] = round[h2] => h1 = h2

(* Two certificates for one author and round exist only if some correct    *)
(* primary already garbage collected that round.                           *)
CertificateUnique ==
    \A c1, c2 \in Digest :
        /\ CertificateSent(c1) /\ CertificateSent(c2)
        /\ SameSlot(c1, c2) /\ c1 # c2
        => \E n \in Correct : round[c1] < primary[n].gc_round

(* A certificate that a correct primary assembled rests on a quorum of     *)
(* votes for that very header: no vote of an earlier header is counted.    *)
CertificateHasVotes ==
    \A n \in Correct : \A c \in primary[n].sent_certificates :
        IsQuorum({a \in Authority : VoteSent(a, c)})

(* Once the certificate of the current header is out, the votes still to   *)
(* come cannot reach the quorum again (VotesAggregator resets its weight). *)
AssembledOnce ==
    \A n \in Correct :
        primary[n].current_header \in primary[n].sent_certificates
            => primary[n].weight + StakeOf(Authority \ primary[n].voters)
                  < QuorumThreshold

(* The consensus receives a certificate only after all its ancestors. *)
CausalDelivery ==
    \A n \in Correct : \A c \in primary[n].certificates :
        ParentsStored(primary[n], c)

(* A primary votes only for headers it stored, whose parents form a quorum *)
(* of the previous round in its store and whose batches its workers hold.  *)
VotedAvailable ==
    \A n \in Correct : \A h \in primary[n].sent_votes :
        /\ h \in primary[n].headers
        /\ ParentsStored(primary[n], h)
        /\ ValidParents(h)
        /\ ~MissingPayload(n, primary[n], h)

(* Every header a correct primary proposes passes the checks of the others: *)
(* a quorum of parents of the round before, all in its own store.           *)
ProposedValid ==
    \A n \in Correct : \A h \in proposer[n].made :
        ValidParents(h) /\ ParentsStored(primary[n], h)

(* From the moment a header is current, the aggregator holds our own vote: *)
(* our vote is never counted for another header than the current one.      *)
(* OwnVote relies on it; PrimaryProofs proves it (OwnVoteHeld).            *)
OwnVoteCounted ==
    \A n \in Correct :
        primary[n].current_header # NoHeader => n \in primary[n].voters

(* Every correct Proposer leaves every round that headers exist for: the   *)
(* exchange of headers, votes and certificates does not block.             *)
RoundAdvances ==
    \A n \in Correct, r \in Rounds : <>(proposer[n].round > r)

(* Core never fails its expect("Failed to process our own vote"). *)
OwnVoteAccepted == \A n \in Correct : ~primary[n].panicked

DagView ==
    INSTANCE CertifiedDag
        WITH Primary <- Correct, dag <- [n \in Correct |-> primary[n].certificates]

(* The primaries implement CertifiedDag: whatever is lost, repeated or     *)
(* reordered, and whatever faulty authorities sign, the consensus of every *)
(* correct authority is fed from one dag, ancestors first.                 *)
ImplementsCertifiedDag == DagView!DagSpec
==============================================================================
