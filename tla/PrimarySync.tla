----------------------------- MODULE PrimarySync -----------------------------
(***************************************************************************)
(* How a primary fetches the certificates it misses: the HeaderWaiter with *)
(* its requests, retries and cancellations, the Helper of the other        *)
(* primaries that answers, and what Core makes of the answers.             *)
(*                                                                         *)
(* Requests and answers travel over SimpleSender: each may be lost.  A     *)
(* request for several certificates is modelled as one request for each.   *)
(* Digests name headers and their certificates, as in PrimaryCore.         *)
(***************************************************************************)
EXTENDS Naturals, Sequences, FiniteSets

CONSTANTS
    Digest,
    header,          \* the header of a digest: author, round, parents
    Peer,            \* the other primaries
    Holds,           \* Holds[p]: the certificates in the store of primary p
    SentHeaders,     \* headers that reach us without being asked for
    SentCertificates,\* certificates that reach us without being asked for
    RetryNodes,      \* sync_retry_nodes
    GCDepth,         \* gc_depth
    Capacity,        \* CHANNEL_CAPACITY of the two channels between the tasks
    LastCommit,      \* bound: the last round the consensus commits
    MaxReceived      \* bound: how many times we receive a header of SentHeaders

round == [h \in Digest |-> header[h].round]
parents == [h \in Digest |-> header[h].parents]

Genesis == {h \in Digest : round[h] = 0}

ASSUME SyncAssumption ==
    /\ \A h \in Digest : round[h] \in Nat /\ parents[h] \subseteq Digest
    /\ SentHeaders \subseteq Digest /\ SentCertificates \subseteq Digest
    /\ GCDepth \in Nat

VARIABLES
    certificates,       \* certificates in our store
    processing,         \* Core: headers being processed
    processed,          \* Core: headers whose parents were all found
    certificate_waiter, \* certificates whose parents are missing
    rx_synchronizer,    \* Core -> HeaderWaiter: <<header, missing parents>>
    rx_core,            \* HeaderWaiter -> Core: headers returned
    core_blocked,       \* what Core waits to send: << >> or one message
    waiter_blocked,     \* what the HeaderWaiter waits to send
    pending,            \* HeaderWaiter::pending
    waiting,            \* its futures: [header, missing, cancelled]
    parent_requests,    \* <<certificate, round>> it sent a request for
    requests,           \* <<peer, certificate>> on their way to a Helper
    replies,            \* certificates on their way to us
    consensus_round,
    received            \* counts the headers received, for the bound

coreVars == <<certificates, processing, processed, certificate_waiter>>
roundVars == <<consensus_round, received>>
toWaiter == <<rx_synchronizer, core_blocked>>
toCore == <<rx_core, waiter_blocked>>
waiterVars == <<pending, waiting, parent_requests>>
vars == <<coreVars, toWaiter, toCore, waiterVars, requests, replies, roundVars>>

Missing(h, stored) == parents[h] \ (Genesis \cup stored)

------------------------------------------------------------------------------
(* Core *)

(* sanitize_header and sanitize_certificate *)
NotTooOld(h) == consensus_round <= GCDepth + round[h]

(* Core awaits the send of a message to a full channel: until then it     *)
(* takes no other step.                                                    *)
SendToWaiter(m) ==
    IF Len(rx_synchronizer) < Capacity
    THEN rx_synchronizer' = Append(rx_synchronizer, m) /\ UNCHANGED core_blocked
    ELSE core_blocked' = <<m>> /\ UNCHANGED rx_synchronizer

CoreUnblocks ==
    /\ core_blocked # << >>
    /\ Len(rx_synchronizer) < Capacity
    /\ rx_synchronizer' = rx_synchronizer \o core_blocked
    /\ core_blocked' = << >>
    /\ UNCHANGED <<coreVars, toCore, waiterVars, requests, replies, roundVars>>

(* process_header: suspend the header or go on. *)
ProcessHeader(h) ==
    /\ processing' = processing \cup {h}
    /\ IF Missing(h, certificates) = {}
       THEN processed' = processed \cup {h} /\ UNCHANGED toWaiter
       ELSE SendToWaiter(<<h, Missing(h, certificates)>>) /\ UNCHANGED processed

ReceiveHeader ==
    \E h \in SentHeaders :
        /\ core_blocked = << >>
        /\ received < MaxReceived
        /\ received' = received + 1
        /\ NotTooOld(h)
        /\ ProcessHeader(h)
        /\ UNCHANGED <<certificates, certificate_waiter, toCore, waiterVars,
                       requests, replies, consensus_round>>

LoopbackHeader ==
    /\ core_blocked = << >>
    /\ rx_core # << >>
    /\ ProcessHeader(Head(rx_core))
    /\ rx_core' = Tail(rx_core)
    /\ UNCHANGED <<certificates, certificate_waiter, waiter_blocked,
                   waiterVars, requests, replies, roundVars>>

(* process_certificate *)
ProcessCertificate(c) ==
    /\ IF c \in processing
       THEN UNCHANGED <<processing, processed, toWaiter>>
       ELSE ProcessHeader(c)
    /\ IF Missing(c, certificates) = {}
       THEN /\ certificates' = certificates \cup {c}
            /\ certificate_waiter' = certificate_waiter \ {c}
       ELSE /\ certificate_waiter' = certificate_waiter \cup {c}
            /\ UNCHANGED certificates

CertificateArrives(c) ==
    /\ core_blocked = << >>
    /\ IF NotTooOld(c)
       THEN ProcessCertificate(c)
       ELSE UNCHANGED <<coreVars, toWaiter>>
    /\ UNCHANGED <<toCore, waiterVars, requests, roundVars>>

ReceiveCertificate ==
    \E c \in SentCertificates \ (certificates \cup certificate_waiter) :
        /\ CertificateArrives(c)
        /\ UNCHANGED replies

ReceiveReply(c) ==
    /\ c \in replies
    /\ replies' = replies \ {c}
    /\ CertificateArrives(c)

LoopbackCertificate ==
    \E c \in certificate_waiter :
        /\ core_blocked = << >>
        /\ Missing(c, certificates) = {}
        /\ ProcessCertificate(c)
        /\ UNCHANGED <<toCore, waiterVars, requests, replies, roundVars>>

------------------------------------------------------------------------------
(* HeaderWaiter *)

(* Faulty variant: the cleanup forgets the requests one round too early. *)
CleanupEarly(p, w, q) ==
    LET gc == consensus_round - GCDepth
    IN  IF consensus_round <= GCDepth
        THEN pending' = p /\ waiting' = w /\ parent_requests' = q
        ELSE /\ pending' = {h \in p : round[h] > gc}
             /\ waiting' = {[f EXCEPT !.cancelled =
                               @ \/ (f.header \in p /\ round[f.header] <= gc)] : f \in w}
             /\ parent_requests' = {x \in q : x[2] > gc + 1}

(* The cleanup that ends an iteration which left pending = p, the futures  *)
(* w and the requests q.                                                   *)
Cleanup(p, w, q) ==
    LET gc == consensus_round - GCDepth
    IN  IF consensus_round <= GCDepth
        THEN pending' = p /\ waiting' = w /\ parent_requests' = q
        ELSE /\ pending' = {h \in p : round[h] > gc}
             /\ waiting' = {[f EXCEPT !.cancelled =
                               @ \/ (f.header \in p /\ round[f.header] <= gc)] : f \in w}
             /\ parent_requests' = {x \in q : x[2] > gc}

Requested == {x[1] : x \in parent_requests}

(* SyncParents.  A header that is pending already is skipped, and so is    *)
(* the cleanup then.                                                       *)
SyncParents ==
    LET h == Head(rx_synchronizer)[1]
        missing == Head(rx_synchronizer)[2]
        requires_sync == missing \ Requested
    IN  /\ waiter_blocked = << >>
        /\ rx_synchronizer # << >>
        /\ rx_synchronizer' = Tail(rx_synchronizer)
        /\ IF h \in pending
           THEN UNCHANGED <<waiterVars, requests>>
           ELSE /\ Cleanup(pending \cup {h},
                           waiting \cup {[header |-> h, missing |-> missing,
                                          cancelled |-> FALSE]},
                           parent_requests \cup (requires_sync \X {round[h]}))
                /\ requests' = requests \cup ({header[h].author} \X requires_sync)
        /\ UNCHANGED <<coreVars, core_blocked, toCore, replies, roundVars>>

(* The iteration in which a header is returned ends when it is sent; only  *)
(* then comes the cleanup.                                                 *)
SendToCore(h, p, w, q) ==
    IF Len(rx_core) < Capacity
    THEN /\ rx_core' = Append(rx_core, h)
         /\ Cleanup(p, w, q)
         /\ UNCHANGED waiter_blocked
    ELSE /\ waiter_blocked' = <<h>>
         /\ pending' = p /\ waiting' = w /\ parent_requests' = q
         /\ UNCHANGED rx_core

WaiterUnblocks ==
    /\ waiter_blocked # << >>
    /\ Len(rx_core) < Capacity
    /\ rx_core' = rx_core \o waiter_blocked
    /\ waiter_blocked' = << >>
    /\ Cleanup(pending, waiting, parent_requests)
    /\ UNCHANGED <<coreVars, toWaiter, requests, replies, roundVars>>

(* Faulty variant: pending is not updated when a header is returned. *)
ReturnNotForgotten(f) ==
    /\ waiter_blocked = << >>
    /\ f.missing \subseteq certificates
    /\ SendToCore(f.header, pending, waiting \ {f},
                  {x \in parent_requests : x[1] \notin parents[f.header]})
    /\ UNCHANGED <<coreVars, toWaiter, requests, replies, roundVars>>

(* Faulty variant: parent_requests is not updated when a header is returned. *)
RequestsKept(f) ==
    /\ waiter_blocked = << >>
    /\ f.missing \subseteq certificates
    /\ SendToCore(f.header, pending \ {f.header}, waiting \ {f}, parent_requests)
    /\ UNCHANGED <<coreVars, toWaiter, requests, replies, roundVars>>

(* All data arrived.  Removing the entry of pending drops its cancel       *)
(* handler: a younger future of the same header is cancelled by that.      *)
Return(f) ==
    LET h == f.header
    IN  /\ waiter_blocked = << >>
        /\ f.missing \subseteq certificates
        /\ SendToCore(h, pending \ {h},
                      {[g EXCEPT !.cancelled = @ \/ g.header = h] : g \in waiting \ {f}},
                      {x \in parent_requests : x[1] \notin parents[h]})
        /\ UNCHANGED <<coreVars, toWaiter, requests, replies, roundVars>>

Cancelled(f) ==
    /\ waiter_blocked = << >>
    /\ f.cancelled
    /\ Cleanup(pending, waiting \ {f}, parent_requests)
    /\ UNCHANGED <<coreVars, toWaiter, toCore, requests, replies, roundVars>>

(* Faulty variant: the author is asked again and again. *)
RetryToAuthor(nodes, expired) ==
    /\ waiter_blocked = << >>
    /\ requests' = requests \cup {<<header[c].author, c>> : c \in expired}
    /\ Cleanup(pending, waiting, parent_requests)
    /\ UNCHANGED <<coreVars, toWaiter, toCore, replies, roundVars>>

(* The timer: what is older than sync_retry_delay (any part of the         *)
(* requests) is asked of a few random primaries.                           *)
Retry(nodes, expired) ==
    /\ waiter_blocked = << >>
    /\ requests' = requests \cup (nodes \X expired)
    /\ Cleanup(pending, waiting, parent_requests)
    /\ UNCHANGED <<coreVars, toWaiter, toCore, replies, roundVars>>

TimerExpires ==
    \E nodes \in SUBSET Peer, expired \in SUBSET Requested :
        /\ Cardinality(nodes) = RetryNodes
        /\ Retry(nodes, expired)

------------------------------------------------------------------------------
(* The other primaries and the network *)

(* Helper::run, for one certificate of a request. *)
Answer(p, c) ==
    /\ <<p, c>> \in requests
    /\ requests' = requests \ {<<p, c>>}
    /\ replies' = IF c \in Holds[p] THEN replies \cup {c} ELSE replies
    /\ UNCHANGED <<coreVars, toWaiter, toCore, waiterVars, roundVars>>

Lose ==
    \/ \E x \in requests :
          /\ requests' = requests \ {x}
          /\ UNCHANGED <<coreVars, toWaiter, toCore, waiterVars, replies,
                         roundVars>>
    \/ \E c \in replies :
          /\ replies' = replies \ {c}
          /\ UNCHANGED <<coreVars, toWaiter, toCore, waiterVars, requests,
                         roundVars>>

(* The GarbageCollector publishes a newly committed round; Core's cleanup  *)
(* forgets the headers it processes.                                       *)
Commit ==
    /\ consensus_round < LastCommit
    /\ consensus_round' = consensus_round + 1
    /\ processing' = {h \in processing : round[h] + GCDepth >= consensus_round + 1}
    /\ UNCHANGED <<certificates, processed, certificate_waiter, toWaiter, toCore,
                   waiterVars, requests, replies, received>>

------------------------------------------------------------------------------
Init ==
    /\ certificates = {} /\ processing = {} /\ processed = {}
    /\ certificate_waiter = {}
    /\ rx_synchronizer = << >> /\ core_blocked = << >>
    /\ rx_core = << >> /\ waiter_blocked = << >>
    /\ pending = {} /\ waiting = {} /\ parent_requests = {}
    /\ requests = {} /\ replies = {}
    /\ consensus_round = 0 /\ received = 0

Next ==
    \/ ReceiveHeader \/ LoopbackHeader
    \/ ReceiveCertificate \/ LoopbackCertificate
    \/ \E c \in Digest : ReceiveReply(c)
    \/ CoreUnblocks
    \/ SyncParents
    \/ \E f \in waiting : Return(f) \/ Cancelled(f)
    \/ TimerExpires \/ WaiterUnblocks
    \/ \E p \in Peer, c \in Digest : Answer(p, c)
    \/ Lose
    \/ Commit

Spec == Init /\ [][Next]_vars

(* The tasks run and the timer expires.  What is retried for ever reaches  *)
(* every peer in the end, because the peers are drawn at random, and a     *)
(* message that is sent again and again is not always lost.                *)
Fairness ==
    /\ WF_vars(LoopbackHeader) /\ WF_vars(LoopbackCertificate) /\ WF_vars(CoreUnblocks)
    /\ WF_vars(SyncParents) /\ WF_vars(TimerExpires) /\ WF_vars(WaiterUnblocks)
    /\ WF_vars(\E f \in waiting : Return(f)) /\ WF_vars(\E f \in waiting : Cancelled(f))
    /\ \A p \in Peer :
          /\ SF_vars(\E nodes \in SUBSET Peer :
                        /\ p \in nodes /\ Cardinality(nodes) = RetryNodes
                        /\ Retry(nodes, Requested))
          /\ \A c \in Holds[p] : SF_vars(Answer(p, c)) /\ SF_vars(ReceiveReply(c))

FairSpec == Spec /\ Fairness

------------------------------------------------------------------------------
(* Properties *)

(* A future waits for a certificate that the timer does not ask for. *)
Forgotten(f) == ~f.cancelled /\ ~(f.missing \subseteq certificates \cup Requested)

(* What a header in HeaderWaiter::pending still misses is in               *)
(* parent_requests, so that the timer asks for it again: "Optimistically   *)
(* send the sync request to the node that created the certificate.  If     *)
(* this fails (after a timeout), we broadcast the sync request".           *)
(* It does not hold; README.md, section 3, says where.                      *)
RequestsCovered == \A f \in waiting : ~Forgotten(f)

(* A header k of an earlier round than h names the same parent c, which a  *)
(* well-formed header cannot, and k is collected.                          *)
Collected(h, c) ==
    \E k \in Digest :
        c \in parents[k] /\ round[k] < round[h] /\ round[k] + GCDepth <= consensus_round

(* The timer asks for every certificate that a suspended header waits for, *)
(* malformed headers (Core asks for their parents before it refuses them)  *)
(* included, but for one case: parent_requests keeps the round of the      *)
(* first header that named the certificate, and the cleanup forgets the    *)
(* request with that header though a later one still waits.                *)
LostWithEarlier ==
    \A f \in waiting :
        ~f.cancelled =>
            \A c \in f.missing \ (certificates \cup Requested) : Collected(f.header, c)

(* The timer asks for nothing that no header waits for. *)
RequestsBelong ==
    \A c \in Requested : \E h \in pending : c \in parents[h]

(* An entry of pending stands for a future that will return the header; an *)
(* entry without one would make every later sync of the header be skipped. *)
PendingIsWaiting ==
    \A h \in Digest :
        h \in pending <=> \E f \in waiting : f.header = h /\ ~f.cancelled

(* A header whose ancestors some peer holds does not stay suspended: its   *)
(* ancestors are fetched, theirs before them, or it is cancelled, unless   *)
(* a request is forgotten, of which LostWithEarlier says when.             *)
HeaderResumes ==
    \A h \in Digest :
        h \in pending ~> h \notin pending \/ \E f \in waiting : f.header = h /\ Forgotten(f)

(* A header that the HeaderWaiter returned is processed by Core: the two   *)
(* tasks do not wait for each other for ever.  "Loops back to the core     *)
(* headers for which we got all parents and batches."                      *)
(* It does not hold; README.md, section 3, says where.                      *)
LoopedBack ==
    \A h \in Digest : (rx_core # << >> /\ rx_core[1] = h) ~> h \in processed
==============================================================================
