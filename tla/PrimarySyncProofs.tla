-------------------------- MODULE PrimarySyncProofs --------------------------
(***************************************************************************)
(* The HeaderWaiter's three collections (pending, the futures and          *)
(* parent_requests) stay consistent, for every set of headers, whatever is *)
(* lost or answered late and however returns, cancellations and cleanups   *)
(* interleave.                                                             *)
(*                                                                         *)
(* SyncInv strengthens the three properties.  A request for a parent was   *)
(* recorded with the round of a header that is still pending, so that the  *)
(* cleanup forgets both together (and takes a request from another header  *)
(* only if that one claims a later round); and what a future waits for,    *)
(* with what was stored when its header was suspended, are all the         *)
(* parents, so that a header that returns takes only requests with it that *)
(* were answered.                                                          *)
(***************************************************************************)
EXTENDS PrimarySync, SequenceTheorems, TLAPS

Future == [header : Digest, missing : SUBSET Digest, cancelled : BOOLEAN]

Message == Digest \X SUBSET Digest

TypeInv ==
    /\ certificate_waiter \subseteq Digest
    /\ rx_synchronizer \in Seq(Message)
    /\ core_blocked \in Seq(Message)
    /\ rx_core \in Seq(Digest)
    /\ waiter_blocked \in Seq(Digest)
    /\ pending \subseteq Digest
    /\ waiting \subseteq Future
    /\ parent_requests \subseteq Digest \X Nat
    /\ consensus_round \in Nat

(* Header h, suspended for what it misses, needs nothing else from others. *)
Suspends(h, missing, stored) ==
    /\ missing \subseteq parents[h] \ Genesis
    /\ parents[h] \subseteq Genesis \cup stored \cup missing

MessagesSuspend ==
    /\ \A i \in DOMAIN rx_synchronizer :
          Suspends(rx_synchronizer[i][1], rx_synchronizer[i][2], certificates)
    /\ \A i \in DOMAIN core_blocked :
          Suspends(core_blocked[i][1], core_blocked[i][2], certificates)

FuturesSuspend == \A f \in waiting : Suspends(f.header, f.missing, certificates)

(* The entries p of pending are those of the uncancelled futures in w. *)
Consistent(p, w) ==
    \A h \in Digest : h \in p <=> \E f \in w : f.header = h /\ ~f.cancelled

(* Every request of q was recorded for a header of p. *)
Recorded(p, q) ==
    \A x \in q : \E h \in p : x[1] \in parents[h] /\ x[2] = round[h]

(* What an uncancelled future of w waits for is stored or requested, or    *)
(* its request went with a collected header of an earlier round.           *)
Covered(w, q, stored) ==
    \A f \in w : ~f.cancelled =>
        \A c \in f.missing :
            c \in stored \/ (\E x \in q : x[1] = c) \/ Collected(f.header, c)

Coverage == Covered(waiting, parent_requests, certificates)

SyncInv ==
    /\ TypeInv
    /\ MessagesSuspend
    /\ FuturesSuspend
    /\ Consistent(pending, waiting)
    /\ Recorded(pending, parent_requests)
    /\ Coverage

------------------------------------------------------------------------------
(* Futures *)

(* What cancelling the futures of the headers in K makes of w. *)
Cancel(w, K) == {[f EXCEPT !.cancelled = @ \/ f.header \in K] : f \in w}

LEMMA CancelFutures ==
    ASSUME NEW w \in SUBSET Future, NEW K
    PROVE  /\ Cancel(w, K) \subseteq Future
           /\ \A g \in Cancel(w, K) : \E f \in w :
                 /\ g.header = f.header /\ g.missing = f.missing
                 /\ ~g.cancelled <=> ~f.cancelled /\ f.header \notin K
           /\ \A f \in w : ~f.cancelled /\ f.header \notin K => f \in Cancel(w, K)
<1>1. ASSUME NEW f \in w
      PROVE  LET g == [f EXCEPT !.cancelled = @ \/ f.header \in K]
             IN  /\ g \in Future
                 /\ g.header = f.header /\ g.missing = f.missing
                 /\ ~g.cancelled <=> ~f.cancelled /\ f.header \notin K
                 /\ ~f.cancelled /\ f.header \notin K => g = f
  <2>1. f \in Future
    OBVIOUS
  <2> QED
    BY <2>1 DEF Future
<1>2. Cancel(w, K) \subseteq Future
  <2> SUFFICES ASSUME NEW g \in Cancel(w, K)
               PROVE  g \in Future
    OBVIOUS
  <2>1. PICK f \in w : g = [f EXCEPT !.cancelled = @ \/ f.header \in K]
    BY Zenon DEF Cancel
  <2> QED
    BY <1>1, <2>1, Zenon
<1>3. ASSUME NEW g \in Cancel(w, K)
      PROVE  \E f \in w :
               /\ g.header = f.header /\ g.missing = f.missing
               /\ ~g.cancelled <=> ~f.cancelled /\ f.header \notin K
  <2>1. PICK f \in w : g = [f EXCEPT !.cancelled = @ \/ f.header \in K]
    BY Zenon DEF Cancel
  <2> QED
    BY <1>1, <2>1, Zenon
<1>4. ASSUME NEW f \in w, ~f.cancelled, f.header \notin K
      PROVE  f \in Cancel(w, K)
  <2>1. f = [f EXCEPT !.cancelled = @ \/ f.header \in K]
    BY <1>1, <1>4, Zenon
  <2> QED
    BY <2>1, Zenon DEF Cancel
<1> QED
  BY <1>2, <1>3, <1>4

(* Cancelling the futures of K and forgetting the entries of K go together, *)
(* whether or not some futures of K are done.                              *)
LEMMA CancelConsistent ==
    ASSUME NEW p \in SUBSET Digest, NEW w \in SUBSET Future, NEW K,
           NEW v \in SUBSET w, \A f \in w \ v : f.header \in K,
           Consistent(p, w)
    PROVE  Consistent(p \ K, Cancel(v, K))
<1> SUFFICES ASSUME NEW h \in Digest
             PROVE  h \in p \ K
                      <=> \E g \in Cancel(v, K) : g.header = h /\ ~g.cancelled
  BY DEF Consistent
<1>1. ASSUME h \in p \ K
      PROVE  \E g \in Cancel(v, K) : g.header = h /\ ~g.cancelled
  <2>1. PICK f \in w : f.header = h /\ ~f.cancelled
    BY <1>1 DEF Consistent
  <2>2. f \in v
    BY <1>1, <2>1
  <2>3. f \in Cancel(v, K)
    BY <1>1, <2>1, <2>2, CancelFutures
  <2> QED
    BY <2>1, <2>3
<1>2. ASSUME NEW g \in Cancel(v, K), g.header = h, ~g.cancelled
      PROVE  h \in p \ K
  <2>1. PICK f \in v : /\ g.header = f.header
                       /\ ~f.cancelled /\ f.header \notin K
    BY <1>2, CancelFutures
  <2> QED
    BY <1>2, <2>1 DEF Consistent
<1> QED
  BY <1>1, <1>2

(* The cleanup forgets the headers, futures and requests of old rounds. *)
LEMMA CleanupKeeps ==
    ASSUME NEW p \in SUBSET Digest, NEW w \in SUBSET Future,
           NEW q \in SUBSET (Digest \X Nat), consensus_round \in Nat,
           Consistent(p, w), Recorded(p, q), Cleanup(p, w, q)
    PROVE  /\ pending' \subseteq p
           /\ waiting' \subseteq Future
           /\ parent_requests' \subseteq q
           /\ Consistent(pending', waiting')
           /\ Recorded(pending', parent_requests')
           /\ \A g \in waiting' : \E f \in w :
                 /\ g.header = f.header /\ g.missing = f.missing
                 /\ ~g.cancelled => ~f.cancelled
           /\ \A g \in waiting' : ~g.cancelled =>
                 \A x \in q : x[1] \in parents[g.header] =>
                     x \in parent_requests' \/ Collected(g.header, x[1])
<1>1. CASE consensus_round <= GCDepth
  <2>1. pending' = p /\ waiting' = w /\ parent_requests' = q
    BY <1>1 DEF Cleanup
  <2> QED
    BY <2>1, Zenon
<1>2. CASE ~(consensus_round <= GCDepth)
  <2> DEFINE gc == consensus_round - GCDepth
             K == {h \in p : round[h] <= gc}
  <2>1. /\ pending' = {h \in p : round[h] > gc}
        /\ waiting' = {[f EXCEPT !.cancelled =
                          @ \/ (f.header \in p /\ round[f.header] <= gc)] : f \in w}
        /\ parent_requests' = {x \in q : x[2] > gc}
    BY <1>2, Zenon DEF Cleanup
  <2>2. waiting' = Cancel(w, K)
    BY <2>1, Zenon DEF Cancel
  <2>3. \A r \in Nat : ~(r <= gc) <=> r > gc
    BY SyncAssumption
  <2>4. pending' = p \ K
    BY <2>1, <2>3, SyncAssumption, Zenon
  <2> HIDE DEF K
  <2>5. Consistent(pending', waiting')
    <3>1. \A f \in w \ w : f.header \in K
      OBVIOUS
    <3> QED
      BY <2>2, <2>4, <3>1, CancelConsistent
  <2>6. waiting' \subseteq Future
    BY <2>2, CancelFutures
  <2>7. \A g \in waiting' : \E f \in w :
           /\ g.header = f.header /\ g.missing = f.missing
           /\ ~g.cancelled => ~f.cancelled
    <3> SUFFICES ASSUME NEW g \in Cancel(w, K)
                 PROVE  \E f \in w :
                          /\ g.header = f.header /\ g.missing = f.missing
                          /\ ~g.cancelled => ~f.cancelled
      BY <2>2, Zenon
    <3>1. PICK f \in w :
             /\ g.header = f.header /\ g.missing = f.missing
             /\ ~g.cancelled <=> ~f.cancelled /\ f.header \notin K
      BY CancelFutures
    <3> QED
      BY <3>1, Zenon
  <2>8. Recorded(pending', parent_requests')
    <3> SUFFICES ASSUME NEW x \in q, x[2] > gc
                 PROVE  \E h \in pending' : x[1] \in parents[h] /\ x[2] = round[h]
      BY <2>1 DEF Recorded
    <3>1. PICK h \in p : x[1] \in parents[h] /\ x[2] = round[h]
      BY DEF Recorded
    <3>2. h \in pending'
      BY <2>1, <3>1, Zenon
    <3> QED
      BY <3>1, <3>2
  <2>9. ASSUME NEW g \in waiting', ~g.cancelled,
               NEW x \in q, x[1] \in parents[g.header], x \notin parent_requests'
        PROVE  Collected(g.header, x[1])
    <3>1. g.header \in Digest
      BY <2>6 DEF Future
    <3>2. g.header \in pending'
      BY <2>5, <2>9, <3>1 DEF Consistent
    <3>3. PICK k \in p : x[1] \in parents[k] /\ x[2] = round[k]
      BY DEF Recorded
    <3>4. round[g.header] > gc /\ ~(round[k] > gc)
      BY <2>1, <2>9, <3>2, <3>3, Zenon
    <3>5. round[k] < round[g.header] /\ round[k] + GCDepth <= consensus_round
      BY <3>1, <3>4, SyncAssumption
    <3> QED
      BY <3>3, <3>5 DEF Collected
  <2>10. pending' \subseteq p /\ parent_requests' \subseteq q
    BY <2>1
  <2> QED
    BY <2>5, <2>6, <2>7, <2>8, <2>9, <2>10
<1> QED
  BY <1>1, <1>2

------------------------------------------------------------------------------
(* What a step of Core, or of the HeaderWaiter, keeps *)

(* What is collected stays collected. *)
LEMMA CollectedStays ==
    ASSUME NEW h, NEW c, Collected(h, c), consensus_round \in Nat,
           consensus_round' \in {consensus_round, consensus_round + 1}
    PROVE  Collected(h, c)'
<1>1. PICK k \in Digest : /\ c \in parents[k] /\ round[k] < round[h]
                          /\ round[k] + GCDepth <= consensus_round
  BY DEF Collected
<1>2. round[k] + GCDepth <= consensus_round'
  BY <1>1, SyncAssumption
<1> QED
  BY <1>1, <1>2 DEF Collected

LEMMA MessagesStay ==
    ASSUME SyncInv, UNCHANGED toWaiter, certificates \subseteq certificates'
    PROVE  MessagesSuspend'
BY DEF SyncInv, MessagesSuspend, Suspends, toWaiter

(* A step of Core leaves the collections alone and may store certificates. *)
LEMMA CoreStep ==
    ASSUME SyncInv, UNCHANGED waiterVars, certificates \subseteq certificates',
           consensus_round' \in {consensus_round, consensus_round + 1}
    PROVE  /\ FuturesSuspend'
           /\ Consistent(pending', waiting')
           /\ Recorded(pending', parent_requests')
           /\ Coverage'
<1>1. pending' = pending /\ waiting' = waiting /\ parent_requests' = parent_requests
  BY DEF waiterVars
<1>2. FuturesSuspend'
  BY <1>1 DEF SyncInv, FuturesSuspend, Suspends
<1>3. Consistent(pending', waiting') /\ Recorded(pending', parent_requests')
  BY <1>1, Zenon DEF SyncInv
<1>4. Coverage'
  <2> SUFFICES ASSUME NEW f \in waiting, ~f.cancelled, NEW c \in f.missing
               PROVE  \/ c \in certificates' \/ \E x \in parent_requests : x[1] = c
                      \/ Collected(f.header, c)'
    BY <1>1, Zenon DEF Coverage, Covered
  <2>1. \/ c \in certificates \/ \E x \in parent_requests : x[1] = c
        \/ Collected(f.header, c)
    BY Zenon DEF SyncInv, Coverage, Covered
  <2>2. consensus_round \in Nat
    BY DEF SyncInv, TypeInv
  <2> QED
    BY <2>1, <2>2, CollectedStays
<1> QED
  BY <1>2, <1>3, <1>4

(* Synchronizer::get_parents sends what is missing to the HeaderWaiter. *)
LEMMA SendStep ==
    ASSUME SyncInv, NEW h \in Digest,
           SendToWaiter(<<h, Missing(h, certificates)>>),
           certificates \subseteq certificates'
    PROVE  /\ rx_synchronizer' \in Seq(Message)
           /\ core_blocked' \in Seq(Message)
           /\ MessagesSuspend'
<1> DEFINE m == <<h, Missing(h, certificates)>>
<1>1. m \in Message /\ m[1] = h /\ m[2] = Missing(h, certificates)
  BY SyncAssumption DEF Message, Missing
<1>2. Suspends(m[1], m[2], certificates')
  BY DEF Suspends, Missing
<1>3. /\ rx_synchronizer \in Seq(Message)
      /\ core_blocked \in Seq(Message)
  BY DEF SyncInv, TypeInv
<1>4. \/ rx_synchronizer' = Append(rx_synchronizer, m) /\ core_blocked' = core_blocked
      \/ core_blocked' = <<m>> /\ rx_synchronizer' = rx_synchronizer
  BY DEF SendToWaiter
<1> HIDE DEF m
<1>5. /\ \A i \in DOMAIN rx_synchronizer :
            Suspends(rx_synchronizer[i][1], rx_synchronizer[i][2], certificates')
      /\ \A i \in DOMAIN core_blocked :
            Suspends(core_blocked[i][1], core_blocked[i][2], certificates')
  BY DEF SyncInv, MessagesSuspend, Suspends
<1>6. CASE rx_synchronizer' = Append(rx_synchronizer, m) /\ core_blocked' = core_blocked
  <2>1. \A i \in DOMAIN rx_synchronizer' :
           \/ i \in DOMAIN rx_synchronizer /\ rx_synchronizer'[i] = rx_synchronizer[i]
           \/ rx_synchronizer'[i] = m
    BY <1>1, <1>3, <1>6
  <2>2. MessagesSuspend'
    BY <1>2, <1>5, <1>6, <2>1, Zenon DEF MessagesSuspend
  <2> QED
    BY <1>1, <1>3, <1>6, <2>2
<1>7. CASE core_blocked' = <<m>> /\ rx_synchronizer' = rx_synchronizer
  <2>1. \A i \in DOMAIN core_blocked' : core_blocked'[i] = m
    BY <1>7
  <2>2. MessagesSuspend'
    BY <1>2, <1>5, <1>7, <2>1, Zenon DEF MessagesSuspend
  <2> QED
    BY <1>1, <1>3, <1>7, <2>2
<1> QED
  BY <1>4, <1>6, <1>7

(* An iteration of the HeaderWaiter that left p, w and q ends with the     *)
(* cleanup, or is interrupted before it by a full channel.                 *)
LEMMA WaiterStep ==
    ASSUME NEW p \in SUBSET Digest, NEW w \in SUBSET Future,
           NEW q \in SUBSET (Digest \X Nat), consensus_round \in Nat,
           Consistent(p, w), Recorded(p, q),
           \A f \in w : Suspends(f.header, f.missing, certificates),
           Covered(w, q, certificates),
           UNCHANGED <<certificates, consensus_round>>,
           \/ Cleanup(p, w, q)
           \/ pending' = p /\ waiting' = w /\ parent_requests' = q
    PROVE  /\ pending' \subseteq Digest
           /\ waiting' \subseteq Future
           /\ parent_requests' \subseteq Digest \X Nat
           /\ FuturesSuspend'
           /\ Consistent(pending', waiting')
           /\ Recorded(pending', parent_requests')
           /\ Coverage'
<1>1. CASE Cleanup(p, w, q)
  <2>1. /\ pending' \subseteq p
        /\ waiting' \subseteq Future
        /\ parent_requests' \subseteq q
        /\ Consistent(pending', waiting')
        /\ Recorded(pending', parent_requests')
    BY <1>1, CleanupKeeps
  <2>2. \A g \in waiting' : \E f \in w :
           /\ g.header = f.header /\ g.missing = f.missing
           /\ ~g.cancelled => ~f.cancelled
    BY <1>1, CleanupKeeps
  <2>3. \A g \in waiting' : ~g.cancelled =>
           \A x \in q : x[1] \in parents[g.header] =>
               x \in parent_requests' \/ Collected(g.header, x[1])
    BY <1>1, CleanupKeeps
  <2>4. FuturesSuspend'
    <3> SUFFICES ASSUME NEW g \in waiting'
                 PROVE  Suspends(g.header, g.missing, certificates)
      BY DEF FuturesSuspend
    <3>1. PICK f \in w : g.header = f.header /\ g.missing = f.missing
      BY <2>2
    <3> QED
      BY <3>1, Zenon
  <2>5. ASSUME NEW g \in waiting', ~g.cancelled, NEW c \in g.missing,
               c \notin certificates, ~Collected(g.header, c)
        PROVE  \E x \in parent_requests' : x[1] = c
    <3>1. PICK f \in w : /\ g.header = f.header /\ g.missing = f.missing
                         /\ ~f.cancelled
      BY <2>2, <2>5
    <3>2. PICK x \in q : x[1] = c
      BY <2>5, <3>1 DEF Covered
    <3>3. x[1] \in parents[g.header]
      BY <3>1, <3>2 DEF Suspends
    <3> QED
      BY <2>3, <2>5, <3>2, <3>3
  <2>6. Coverage'
    <3>1. \A h, c : Collected(h, c)' <=> Collected(h, c)
      BY DEF Collected
    <3>2. Covered(waiting', parent_requests', certificates)
      BY <2>5, Zenon DEF Covered
    <3> QED
      BY <3>1, <3>2, Zenon DEF Coverage, Covered
  <2> QED
    BY <2>1, <2>4, <2>6
<1>2. CASE pending' = p /\ waiting' = w /\ parent_requests' = q
  <2>1. FuturesSuspend'
    BY <1>2 DEF FuturesSuspend
  <2>2. Coverage'
    <3>1. \A h, c : Collected(h, c)' <=> Collected(h, c)
      BY DEF Collected
    <3> QED
      BY <1>2, <3>1, Zenon DEF Coverage, Covered
  <2> QED
    BY <1>2, <2>1, <2>2, Zenon
<1> QED
  BY <1>1, <1>2

------------------------------------------------------------------------------
(* Core, action by action *)

LEMMA ProcessHeaderKeeps ==
    ASSUME SyncInv, NEW h \in Digest, ProcessHeader(h),
           certificates \subseteq certificates'
    PROVE  /\ rx_synchronizer' \in Seq(Message)
           /\ core_blocked' \in Seq(Message)
           /\ MessagesSuspend'
<1>1. CASE UNCHANGED toWaiter
  <2>1. MessagesSuspend'
    BY <1>1, MessagesStay
  <2> QED
    BY <1>1, <2>1 DEF SyncInv, TypeInv, toWaiter
<1>2. CASE SendToWaiter(<<h, Missing(h, certificates)>>)
  BY <1>2, SendStep
<1> QED
  BY <1>1, <1>2 DEF ProcessHeader

LEMMA ReceiveHeaderKeeps ==
    ASSUME SyncInv, ReceiveHeader
    PROVE  SyncInv'
<1>1. PICK h \in SentHeaders :
         /\ ProcessHeader(h)
         /\ UNCHANGED <<certificates, certificate_waiter, toCore, waiterVars,
                        consensus_round>>
  BY Zenon DEF ReceiveHeader
<1>2. h \in Digest
  BY SyncAssumption
<1>3. /\ rx_synchronizer' \in Seq(Message) /\ core_blocked' \in Seq(Message)
      /\ MessagesSuspend'
  BY <1>1, <1>2, ProcessHeaderKeeps
<1>4. /\ FuturesSuspend' /\ Coverage'
      /\ Consistent(pending', waiting') /\ Recorded(pending', parent_requests')
  BY <1>1, CoreStep
<1>5. TypeInv'
  BY <1>1, <1>3 DEF SyncInv, TypeInv, toCore, waiterVars
<1> QED
  BY <1>3, <1>4, <1>5 DEF SyncInv

LEMMA LoopbackHeaderKeeps ==
    ASSUME SyncInv, LoopbackHeader
    PROVE  SyncInv'
<1>1. /\ Head(rx_core) \in Digest /\ Tail(rx_core) \in Seq(Digest)
  BY DEF LoopbackHeader, SyncInv, TypeInv
<1>2. /\ ProcessHeader(Head(rx_core))
      /\ rx_core' = Tail(rx_core)
      /\ UNCHANGED <<certificates, certificate_waiter, waiter_blocked, waiterVars,
                     consensus_round>>
  BY DEF LoopbackHeader, roundVars
<1>3. /\ rx_synchronizer' \in Seq(Message) /\ core_blocked' \in Seq(Message)
      /\ MessagesSuspend'
  BY <1>1, <1>2, ProcessHeaderKeeps
<1>4. /\ FuturesSuspend' /\ Coverage'
      /\ Consistent(pending', waiting') /\ Recorded(pending', parent_requests')
  BY <1>2, CoreStep
<1>5. TypeInv'
  BY <1>1, <1>2, <1>3 DEF SyncInv, TypeInv, waiterVars
<1> QED
  BY <1>3, <1>4, <1>5 DEF SyncInv

LEMMA ProcessCertificateKeeps ==
    ASSUME SyncInv, NEW c \in Digest,
           \/ ProcessCertificate(c)
           \/ UNCHANGED <<coreVars, toWaiter>>,
           UNCHANGED <<toCore, waiterVars, consensus_round>>
    PROVE  SyncInv'
<1>1. /\ certificates \subseteq certificates'
      /\ certificate_waiter' \subseteq Digest
  BY DEF ProcessCertificate, coreVars, SyncInv, TypeInv
<1>2. /\ rx_synchronizer' \in Seq(Message) /\ core_blocked' \in Seq(Message)
      /\ MessagesSuspend'
  <2>1. CASE UNCHANGED toWaiter
    <3>1. MessagesSuspend'
      BY <1>1, <2>1, MessagesStay
    <3> QED
      BY <2>1, <3>1 DEF SyncInv, TypeInv, toWaiter
  <2>2. CASE ProcessHeader(c)
    BY <1>1, <2>2, ProcessHeaderKeeps
  <2> QED
    BY <2>1, <2>2 DEF ProcessCertificate
<1>3. /\ FuturesSuspend' /\ Coverage'
      /\ Consistent(pending', waiting') /\ Recorded(pending', parent_requests')
  BY <1>1, CoreStep
<1>4. TypeInv'
  BY <1>1, <1>2 DEF SyncInv, TypeInv, toCore, waiterVars
<1> QED
  BY <1>2, <1>3, <1>4 DEF SyncInv

(* Certificates arrive unasked, as answers, or return from the waiter. *)
LEMMA CertificateKeeps ==
    ASSUME SyncInv,
           \/ ReceiveCertificate \/ LoopbackCertificate
           \/ \E c \in Digest : ReceiveReply(c)
    PROVE  SyncInv'
<1>1. ASSUME NEW c \in Digest, CertificateArrives(c)
      PROVE  SyncInv'
  BY <1>1, ProcessCertificateKeeps, Zenon DEF CertificateArrives, roundVars
<1>2. CASE ReceiveCertificate
  BY <1>1, <1>2, SyncAssumption DEF ReceiveCertificate
<1>3. CASE \E c \in Digest : ReceiveReply(c)
  BY <1>1, <1>3 DEF ReceiveReply
<1>4. CASE LoopbackCertificate
  <2>1. PICK c \in certificate_waiter :
           /\ ProcessCertificate(c)
           /\ UNCHANGED <<toCore, waiterVars, consensus_round>>
    BY <1>4 DEF LoopbackCertificate, roundVars
  <2>2. c \in Digest
    BY DEF SyncInv, TypeInv
  <2> QED
    BY <2>1, <2>2, ProcessCertificateKeeps
<1> QED
  BY <1>2, <1>3, <1>4

LEMMA CoreUnblocksKeeps ==
    ASSUME SyncInv, CoreUnblocks
    PROVE  SyncInv'
<1>1. /\ rx_synchronizer' = rx_synchronizer \o core_blocked
      /\ core_blocked' = << >>
      /\ UNCHANGED <<certificates, certificate_waiter, toCore, waiterVars,
                     consensus_round>>
  BY DEF CoreUnblocks, coreVars, roundVars
<1>2. rx_synchronizer \in Seq(Message) /\ core_blocked \in Seq(Message)
  BY DEF SyncInv, TypeInv
<1>3. \A i \in DOMAIN rx_synchronizer' :
         \/ i \in DOMAIN rx_synchronizer /\ rx_synchronizer'[i] = rx_synchronizer[i]
         \/ \E j \in DOMAIN core_blocked : rx_synchronizer'[i] = core_blocked[j]
  <2> SUFFICES ASSUME NEW i \in DOMAIN rx_synchronizer',
                      i \notin DOMAIN rx_synchronizer
               PROVE  \E j \in DOMAIN core_blocked :
                         rx_synchronizer'[i] = core_blocked[j]
    BY <1>1, <1>2
  <2>1. /\ i - Len(rx_synchronizer) \in DOMAIN core_blocked
        /\ rx_synchronizer'[i] = core_blocked[i - Len(rx_synchronizer)]
    BY <1>1, <1>2
  <2> QED
    BY <2>1
<1>4. MessagesSuspend'
  <2>1. \A i \in DOMAIN rx_synchronizer' :
           Suspends(rx_synchronizer'[i][1], rx_synchronizer'[i][2], certificates)
    BY <1>3, Zenon DEF SyncInv, MessagesSuspend
  <2>2. DOMAIN core_blocked' = {}
    BY <1>1
  <2> QED
    BY <1>1, <2>1, <2>2, Zenon DEF MessagesSuspend
<1>5. /\ FuturesSuspend' /\ Coverage'
      /\ Consistent(pending', waiting') /\ Recorded(pending', parent_requests')
  BY <1>1, CoreStep
<1>6. rx_synchronizer' \in Seq(Message) /\ core_blocked' \in Seq(Message)
  BY <1>1, <1>2
<1>7. TypeInv'
  BY <1>1, <1>6 DEF SyncInv, TypeInv, toCore, waiterVars
<1> QED
  BY <1>4, <1>5, <1>7 DEF SyncInv

(* The other primaries, the network and the GarbageCollector do not touch  *)
(* what the properties are about.                                          *)
LEMMA OthersKeep ==
    ASSUME SyncInv,
           \/ \E p \in Peer, c \in Digest : Answer(p, c)
           \/ Lose \/ Commit \/ UNCHANGED vars
    PROVE  SyncInv'
<1>1. /\ UNCHANGED <<certificates, certificate_waiter, toWaiter, toCore, waiterVars>>
      /\ consensus_round' \in Nat
      /\ consensus_round' \in {consensus_round, consensus_round + 1}
  <2>1. consensus_round \in Nat
    BY DEF SyncInv, TypeInv
  <2>2. CASE \E p \in Peer, c \in Digest : Answer(p, c)
    BY <2>1, <2>2 DEF Answer, coreVars, roundVars
  <2>3. CASE Lose
    BY <2>1, <2>3 DEF Lose, coreVars, roundVars
  <2>4. CASE Commit
    BY <2>1, <2>4 DEF Commit
  <2>5. CASE UNCHANGED vars
    BY <2>1, <2>5 DEF vars, coreVars, roundVars
  <2> QED
    BY <2>2, <2>3, <2>4, <2>5
<1>2. MessagesSuspend'
  BY <1>1, MessagesStay
<1>3. /\ FuturesSuspend' /\ Coverage'
      /\ Consistent(pending', waiting') /\ Recorded(pending', parent_requests')
  BY <1>1, CoreStep
<1>4. TypeInv'
  BY <1>1 DEF SyncInv, TypeInv, toWaiter, toCore, waiterVars
<1> QED
  BY <1>2, <1>3, <1>4 DEF SyncInv

------------------------------------------------------------------------------
(* The HeaderWaiter, action by action *)

LEMMA IterationKeeps ==
    ASSUME SyncInv, NEW p \in SUBSET Digest, NEW w \in SUBSET Future,
           NEW q \in SUBSET (Digest \X Nat),
           Consistent(p, w), Recorded(p, q),
           \A f \in w : Suspends(f.header, f.missing, certificates),
           Covered(w, q, certificates),
           \/ Cleanup(p, w, q)
           \/ pending' = p /\ waiting' = w /\ parent_requests' = q,
           rx_synchronizer' \in Seq(Message), MessagesSuspend',
           rx_core' \in Seq(Digest), waiter_blocked' \in Seq(Digest),
           UNCHANGED <<coreVars, core_blocked, consensus_round>>
    PROVE  SyncInv'
<1>1. consensus_round \in Nat /\ UNCHANGED <<certificates, certificate_waiter>>
  BY DEF SyncInv, TypeInv, coreVars
<1>2. /\ pending' \subseteq Digest
      /\ waiting' \subseteq Future
      /\ parent_requests' \subseteq Digest \X Nat
      /\ FuturesSuspend'
      /\ Consistent(pending', waiting')
      /\ Recorded(pending', parent_requests')
      /\ Coverage'
  BY <1>1, WaiterStep
<1>3. TypeInv'
  BY <1>1, <1>2 DEF SyncInv, TypeInv
<1> QED
  BY <1>2, <1>3 DEF SyncInv

LEMMA SyncParentsKeeps ==
    ASSUME SyncInv, SyncParents
    PROVE  SyncInv'
<1> DEFINE h == Head(rx_synchronizer)[1]
           missing == Head(rx_synchronizer)[2]
           requires_sync == missing \ Requested
<1>1. /\ rx_synchronizer # << >>
      /\ rx_synchronizer' = Tail(rx_synchronizer)
      /\ UNCHANGED <<coreVars, core_blocked, toCore, consensus_round>>
  BY DEF SyncParents, roundVars
<1>2. /\ rx_synchronizer \in Seq(Message)
      /\ Tail(rx_synchronizer) \in Seq(Message)
      /\ Head(rx_synchronizer) = rx_synchronizer[1]
      /\ 1 \in DOMAIN rx_synchronizer
      /\ Head(rx_synchronizer) \in Message
  BY <1>1 DEF SyncInv, TypeInv
<1>3. h \in Digest /\ missing \in SUBSET Digest
  BY <1>2 DEF Message
<1>4. Suspends(h, missing, certificates)
  BY <1>2, Zenon DEF SyncInv, MessagesSuspend
<1>5. MessagesSuspend'
  <2>1. \A i \in DOMAIN rx_synchronizer' :
           i + 1 \in DOMAIN rx_synchronizer
             /\ rx_synchronizer'[i] = rx_synchronizer[i + 1]
    BY <1>1, <1>2
  <2>2. \A i \in DOMAIN rx_synchronizer' :
           Suspends(rx_synchronizer'[i][1], rx_synchronizer'[i][2], certificates)
    BY <2>1, Zenon DEF SyncInv, MessagesSuspend
  <2> QED
    BY <1>1, <2>2, Zenon DEF SyncInv, MessagesSuspend, coreVars
<1>6. rx_core' \in Seq(Digest) /\ waiter_blocked' \in Seq(Digest)
  BY <1>1 DEF SyncInv, TypeInv, toCore
<1>7. CASE h \in pending
  <2>1. UNCHANGED waiterVars
    BY <1>7, Zenon DEF SyncParents
  <2>2. /\ FuturesSuspend' /\ Coverage'
        /\ Consistent(pending', waiting') /\ Recorded(pending', parent_requests')
    BY <1>1, <2>1, CoreStep DEF coreVars
  <2>3. TypeInv'
    BY <1>1, <1>2, <1>6, <2>1 DEF SyncInv, TypeInv, coreVars, waiterVars
  <2> QED
    BY <1>5, <2>2, <2>3 DEF SyncInv
<1>8. CASE h \notin pending
  <2> DEFINE g == [header |-> h, missing |-> missing, cancelled |-> FALSE]
             p == pending \cup {h}
             w == waiting \cup {g}
             q == parent_requests \cup (requires_sync \X {round[h]})
  <2>1. Cleanup(p, w, q)
    BY <1>8, Zenon DEF SyncParents
  <2>2. \A r \in requires_sync : r \in missing /\ r \notin Requested
    OBVIOUS
  <2>3. \A c \in missing : c \in requires_sync \/ c \in Requested
    OBVIOUS
  <2>4. q = parent_requests \cup (requires_sync \X {round[h]})
    OBVIOUS
  <2> HIDE DEF h, missing, requires_sync, q
  <2>5. /\ g \in Future
        /\ g.header = h /\ g.missing = missing /\ ~g.cancelled
    BY <1>3 DEF Future
  <2> HIDE DEF g
  <2>6. p \in SUBSET Digest /\ w \in SUBSET Future
    BY <1>3, <2>5 DEF SyncInv, TypeInv
  <2>7. q \in SUBSET (Digest \X Nat)
    BY <1>3, <2>2, <2>4, SyncAssumption DEF SyncInv, TypeInv
  <2>8. Consistent(p, w)
    BY <1>8, <2>5 DEF SyncInv, Consistent
  <2>9. Recorded(p, q)
    <3> SUFFICES ASSUME NEW x \in q
                 PROVE  \E k \in p : x[1] \in parents[k] /\ x[2] = round[k]
      BY DEF Recorded
    <3>1. CASE x \in parent_requests
      BY <3>1 DEF SyncInv, Recorded
    <3>2. CASE x \in requires_sync \X {round[h]}
      <4>1. x[1] \in missing /\ x[2] = round[h]
        BY <2>2, <3>2
      <4>2. x[1] \in parents[h]
        BY <1>4, <4>1 DEF Suspends
      <4> QED
        BY <4>1, <4>2
    <3> QED
      BY <2>4, <3>1, <3>2
  <2>10. \A f \in w : Suspends(f.header, f.missing, certificates)
    BY <1>4, <2>5, Zenon DEF SyncInv, FuturesSuspend
  <2>11. Covered(w, q, certificates)
    <3> SUFFICES ASSUME NEW f \in w, ~f.cancelled, NEW c \in f.missing,
                        c \notin certificates, ~Collected(f.header, c)
                 PROVE  \E x \in q : x[1] = c
      BY Zenon DEF Covered
    <3>1. CASE f \in waiting
      <4>1. \E x \in parent_requests : x[1] = c
        BY <3>1, Zenon DEF SyncInv, Coverage, Covered
      <4> QED
        BY <2>4, <4>1
    <3>2. CASE f = g
      <4>1. c \in requires_sync \/ c \in Requested
        BY <2>3, <2>5, <3>2
      <4>2. CASE c \in requires_sync
        <5>1. <<c, round[h]>> \in q
          BY <2>4, <4>2
        <5> QED
          BY <5>1
      <4>3. CASE c \in Requested
        BY <2>4, <4>3 DEF Requested
      <4> QED
        BY <4>1, <4>2, <4>3
    <3> QED
      BY <3>1, <3>2
  <2> HIDE DEF p, w
  <2> QED
    BY <1>1, <1>2, <1>5, <1>6, <2>1, <2>6, <2>7, <2>8, <2>9, <2>10, <2>11,
       IterationKeeps
<1> QED
  BY <1>7, <1>8

(* What the HeaderWaiter sends to Core, now or later. *)
LEMMA SendToCoreStep ==
    ASSUME SyncInv, NEW h \in Digest, NEW p, NEW w, NEW q, SendToCore(h, p, w, q)
    PROVE  /\ rx_core' \in Seq(Digest) /\ waiter_blocked' \in Seq(Digest)
           /\ \/ Cleanup(p, w, q)
              \/ pending' = p /\ waiting' = w /\ parent_requests' = q
<1>1. rx_core \in Seq(Digest) /\ waiter_blocked \in Seq(Digest)
  BY DEF SyncInv, TypeInv
<1>2. \/ /\ rx_core' = Append(rx_core, h) /\ waiter_blocked' = waiter_blocked
         /\ Cleanup(p, w, q)
      \/ /\ waiter_blocked' = <<h>> /\ rx_core' = rx_core
         /\ pending' = p /\ waiting' = w /\ parent_requests' = q
  BY Zenon DEF SendToCore
<1>3. Append(rx_core, h) \in Seq(Digest) /\ <<h>> \in Seq(Digest)
  BY <1>1
<1> QED
  BY <1>1, <1>2, <1>3, Zenon

(* A header returns: its entry, its requests and its other futures go.  No *)
(* other header waits for a certificate it needed, because by now all its  *)
(* parents are stored.                                                     *)
LEMMA ReturnKeeps ==
    ASSUME SyncInv, NEW f \in waiting, Return(f)
    PROVE  SyncInv'
<1> DEFINE h == f.header
           K == {h}
           v == waiting \ {f}
           p == pending \ K
           w == Cancel(v, K)
           q == {x \in parent_requests : x[1] \notin parents[h]}
<1>1. /\ f \in Future /\ h \in Digest
      /\ v \in SUBSET waiting /\ waiting \in SUBSET Future
      /\ v \in SUBSET Future
      /\ pending \in SUBSET Digest
      /\ parent_requests \in SUBSET (Digest \X Nat)
  BY DEF SyncInv, TypeInv, Future
<1>2. /\ f.missing \subseteq certificates
      /\ SendToCore(h, pending \ {h},
                    {[g EXCEPT !.cancelled = @ \/ g.header = h] : g \in v}, q)
      /\ UNCHANGED <<coreVars, toWaiter, consensus_round>>
  BY Zenon DEF Return, roundVars
<1>3. w = {[g EXCEPT !.cancelled = @ \/ g.header = h] : g \in v}
  <2>1. \A g \in v : g.header \in K <=> g.header = h
    OBVIOUS
  <2>2. \A g \in v : [g EXCEPT !.cancelled = @ \/ g.header \in K]
                       = [g EXCEPT !.cancelled = @ \/ g.header = h]
    BY <2>1
  <2> QED
    BY <2>2, Zenon DEF Cancel
<1>4. SendToCore(h, p, w, q)
  BY <1>2, <1>3, Zenon
<1>5. \A x \in q : x \in parent_requests /\ x[1] \notin parents[h]
  OBVIOUS
<1>6. \A x \in parent_requests : x[1] \notin parents[h] => x \in q
  OBVIOUS
<1>7. \A k \in K : k = h
  OBVIOUS
<1>8. \A g \in waiting \ v : g.header \in K
  OBVIOUS
<1>9. \A g \in v : g \in waiting
  OBVIOUS
<1> HIDE DEF h, K, v, q
<1>10. p \in SUBSET Digest
  BY <1>1
<1>11. w \in SUBSET Future
  BY <1>1, CancelFutures
<1>12. q \in SUBSET (Digest \X Nat)
  BY <1>1, <1>5
<1>13. Consistent(p, w)
  BY <1>1, <1>8, CancelConsistent DEF SyncInv
<1>14. Recorded(p, q)
  <2> SUFFICES ASSUME NEW x \in q
               PROVE  \E k \in p : x[1] \in parents[k] /\ x[2] = round[k]
    BY DEF Recorded
  <2>1. PICK k \in pending : x[1] \in parents[k] /\ x[2] = round[k]
    BY <1>5 DEF SyncInv, Recorded
  <2>2. k \notin K
    BY <1>5, <1>7, <2>1
  <2> QED
    BY <2>1, <2>2
<1>15. \A g \in w : Suspends(g.header, g.missing, certificates)
  <2> SUFFICES ASSUME NEW g \in w
               PROVE  Suspends(g.header, g.missing, certificates)
    OBVIOUS
  <2>1. PICK e \in v : g.header = e.header /\ g.missing = e.missing
    BY <1>1, CancelFutures
  <2> QED
    BY <1>9, <2>1, Zenon DEF SyncInv, FuturesSuspend
<1>16. Covered(w, q, certificates)
  <2> SUFFICES ASSUME NEW g \in w, ~g.cancelled, NEW c \in g.missing,
                      c \notin certificates, ~Collected(g.header, c)
               PROVE  \E x \in q : x[1] = c
    BY Zenon DEF Covered
  <2>1. PICK e \in v : /\ g.header = e.header /\ g.missing = e.missing
                       /\ ~g.cancelled <=> ~e.cancelled /\ e.header \notin K
    BY <1>1, CancelFutures
  <2>2. PICK x \in parent_requests : x[1] = c
    BY <1>9, <2>1 DEF SyncInv, Coverage, Covered
  <2>3. c \notin parents[h]
    <3>1. c \notin Genesis
      BY <1>9, <2>1 DEF SyncInv, FuturesSuspend, Suspends
    <3>2. parents[h] \subseteq Genesis \cup certificates
      BY <1>2 DEF SyncInv, FuturesSuspend, Suspends, h
    <3> QED
      BY <3>1, <3>2
  <2> QED
    BY <1>6, <2>2, <2>3
<1>17. /\ rx_core' \in Seq(Digest) /\ waiter_blocked' \in Seq(Digest)
       /\ \/ Cleanup(p, w, q)
          \/ pending' = p /\ waiting' = w /\ parent_requests' = q
  BY <1>1, <1>4, SendToCoreStep
<1>18. rx_synchronizer' \in Seq(Message) /\ MessagesSuspend'
  <2>1. MessagesSuspend'
    BY <1>2, MessagesStay DEF coreVars
  <2> QED
    BY <1>2, <2>1 DEF SyncInv, TypeInv, toWaiter
<1>19. UNCHANGED <<coreVars, core_blocked, consensus_round>>
  BY <1>2 DEF toWaiter
<1> HIDE DEF p, w
<1> QED
  BY <1>10, <1>11, <1>12, <1>13, <1>14, <1>15, <1>16, <1>17, <1>18, <1>19,
     IterationKeeps

LEMMA CancelledKeeps ==
    ASSUME SyncInv, NEW f \in waiting, Cancelled(f)
    PROVE  SyncInv'
<1> DEFINE w == waiting \ {f}
<1>1. /\ f.cancelled
      /\ Cleanup(pending, w, parent_requests)
      /\ UNCHANGED <<coreVars, toWaiter, toCore, consensus_round>>
  BY Zenon DEF Cancelled, roundVars
<1>2. Consistent(pending, w)
  BY <1>1 DEF SyncInv, Consistent
<1>3. \A g \in w : Suspends(g.header, g.missing, certificates)
  BY DEF SyncInv, FuturesSuspend
<1>4. Covered(w, parent_requests, certificates)
  BY Zenon DEF SyncInv, Coverage, Covered
<1>5. /\ pending \in SUBSET Digest /\ w \in SUBSET Future
      /\ parent_requests \in SUBSET (Digest \X Nat)
      /\ Recorded(pending, parent_requests)
  BY DEF SyncInv, TypeInv
<1>6. MessagesSuspend'
  BY <1>1, MessagesStay DEF coreVars
<1>7. /\ rx_synchronizer' \in Seq(Message)
      /\ rx_core' \in Seq(Digest) /\ waiter_blocked' \in Seq(Digest)
      /\ UNCHANGED <<coreVars, core_blocked, consensus_round>>
  BY <1>1 DEF SyncInv, TypeInv, toWaiter, toCore
<1> HIDE DEF w
<1> QED
  BY <1>1, <1>2, <1>3, <1>4, <1>5, <1>6, <1>7, IterationKeeps

(* A retry, and the end of an iteration that waited for a full channel. *)
LEMMA CleanupOnlyKeeps ==
    ASSUME SyncInv, TimerExpires \/ WaiterUnblocks
    PROVE  SyncInv'
<1>1. /\ Cleanup(pending, waiting, parent_requests)
      /\ UNCHANGED <<coreVars, toWaiter, consensus_round>>
  BY Zenon DEF TimerExpires, Retry, WaiterUnblocks, roundVars
<1>2. rx_core' \in Seq(Digest) /\ waiter_blocked' \in Seq(Digest)
  <2>1. rx_core \in Seq(Digest) /\ waiter_blocked \in Seq(Digest)
    BY DEF SyncInv, TypeInv
  <2>2. CASE TimerExpires
    BY <2>1, <2>2 DEF TimerExpires, Retry, toCore
  <2>3. CASE WaiterUnblocks
    BY <2>1, <2>3 DEF WaiterUnblocks
  <2> QED
    BY <2>2, <2>3
<1>3. \A g \in waiting : Suspends(g.header, g.missing, certificates)
  BY DEF SyncInv, FuturesSuspend
<1>4. /\ pending \in SUBSET Digest /\ waiting \in SUBSET Future
      /\ parent_requests \in SUBSET (Digest \X Nat)
      /\ Consistent(pending, waiting) /\ Recorded(pending, parent_requests)
      /\ Covered(waiting, parent_requests, certificates)
  BY DEF SyncInv, TypeInv, Coverage
<1>5. MessagesSuspend'
  BY <1>1, MessagesStay DEF coreVars
<1>6. /\ rx_synchronizer' \in Seq(Message)
      /\ UNCHANGED <<coreVars, core_blocked, consensus_round>>
  BY <1>1 DEF SyncInv, TypeInv, toWaiter
<1> QED
  BY <1>1, <1>2, <1>3, <1>4, <1>5, <1>6, IterationKeeps

------------------------------------------------------------------------------
LEMMA SyncInit ==
    ASSUME Init
    PROVE  SyncInv
<1>1. TypeInv
  BY DEF Init, TypeInv
<1>2. MessagesSuspend /\ FuturesSuspend
  BY DEF Init, MessagesSuspend, FuturesSuspend
<1>3. /\ Consistent(pending, waiting) /\ Recorded(pending, parent_requests)
      /\ Coverage
  BY DEF Init, Consistent, Recorded, Coverage, Covered
<1> QED
  BY <1>1, <1>2, <1>3 DEF SyncInv

LEMMA SyncStep ==
    ASSUME SyncInv, [Next]_vars
    PROVE  SyncInv'
<1>1. CASE ReceiveHeader
  BY <1>1, ReceiveHeaderKeeps
<1>2. CASE LoopbackHeader
  BY <1>2, LoopbackHeaderKeeps
<1>3. CASE \/ ReceiveCertificate \/ LoopbackCertificate
           \/ \E c \in Digest : ReceiveReply(c)
  BY <1>3, CertificateKeeps
<1>4. CASE CoreUnblocks
  BY <1>4, CoreUnblocksKeeps
<1>5. CASE SyncParents
  BY <1>5, SyncParentsKeeps
<1>6. CASE \E f \in waiting : Return(f) \/ Cancelled(f)
  BY <1>6, ReturnKeeps, CancelledKeeps
<1>7. CASE TimerExpires \/ WaiterUnblocks
  BY <1>7, CleanupOnlyKeeps
<1>8. CASE \/ \E p \in Peer, c \in Digest : Answer(p, c)
           \/ Lose \/ Commit \/ UNCHANGED vars
  BY <1>8, OthersKeep
<1> QED
  BY <1>1, <1>2, <1>3, <1>4, <1>5, <1>6, <1>7, <1>8, Zenon DEF Next

LEMMA SyncInvHolds ==
    Spec => []SyncInv
<1>1. Init => SyncInv
  BY SyncInit
<1>2. SyncInv /\ [Next]_vars => SyncInv'
  BY SyncStep
<1> QED
  BY <1>1, <1>2, PTL DEF Spec

(* Every entry of HeaderWaiter::pending has a future that will return its  *)
(* header, and every future that is not cancelled has its entry: no header *)
(* is skipped for ever as "pending already".                               *)
THEOREM EntriesHaveFutures ==
    Spec => []PendingIsWaiting
<1>1. SyncInv => PendingIsWaiting
  BY DEF SyncInv, Consistent, PendingIsWaiting
<1> QED
  BY <1>1, SyncInvHolds, PTL

(* The timer never asks for a certificate that no pending header needs:    *)
(* returns and cleanups forget requests with the headers they were for.    *)
THEOREM RequestsAreNeeded ==
    Spec => []RequestsBelong
<1>1. SyncInv => RequestsBelong
  <2> SUFFICES ASSUME SyncInv, NEW x \in parent_requests
               PROVE  \E h \in pending : x[1] \in parents[h]
    BY DEF RequestsBelong, Requested
  <2> QED
    BY DEF SyncInv, Recorded
<1> QED
  BY <1>1, SyncInvHolds, PTL

(* A request that a suspended header waits for is forgotten only with a    *)
(* header of an earlier round that names the same parent, so at least one  *)
(* of the two is malformed: else the timer asks until the answer is there. *)
(* Of malformed headers too, nothing else is ever lost.                    *)
THEOREM WaitedForIsRequested ==
    Spec => []LostWithEarlier
<1>1. SyncInv => LostWithEarlier
  <2> SUFFICES ASSUME SyncInv, NEW f \in waiting, ~f.cancelled,
                      NEW c \in f.missing \ (certificates \cup Requested)
               PROVE  Collected(f.header, c)
    BY DEF LostWithEarlier
  <2>1. ~\E x \in parent_requests : x[1] = c
    BY DEF Requested
  <2> QED
    BY <2>1, Zenon DEF SyncInv, Coverage, Covered
<1> QED
  BY <1>1, SyncInvHolds, PTL
==============================================================================
