--------------------------- MODULE BatchSyncProofs ---------------------------
(***************************************************************************)
(* The bookkeeping that fetches missing batches, for every set of headers, *)
(* workers and commands, whatever the network loses: every batch a         *)
(* worker's Synchronizer waits for has one entry and one live future, and  *)
(* what the HeaderWaiter asked for belongs to a header that still waits.   *)
(*                                                                         *)
(* EntryHasFuture is inductive with the types alone: no entry is added for *)
(* a batch that has one, and whatever removes an entry cancels its future. *)
(* A request of the HeaderWaiter must be known with the round of a header  *)
(* that waits for it, so that the cleanup forgets both together.           *)
(***************************************************************************)
EXTENDS BatchSync, SequenceTheorems, TLAPS

SyncFuture == [batch : Batch, cancelled : BOOLEAN]

Future == [header : Header, missing : SUBSET Batch, cancelled : BOOLEAN]

Suspension == Header \X SUBSET Batch

(* The worker's Synchronizer. *)
SyncTypes ==
    /\ \A m \in messages : /\ m.type = "synchronize" => m.batch \in Batch
                           /\ m.type = "cleanup" => m.round \in Nat
    /\ sync_round \in [Node -> Nat]
    /\ sync_pending \in [Node -> SUBSET (Batch \X Nat)]
    /\ sync_waiting \in [Node -> SUBSET SyncFuture]

(* The primary's Core and HeaderWaiter. *)
WaiterTypes ==
    /\ consensus_round \in Nat
    /\ rx_synchronizer \in Seq(Suspension)
    /\ rx_core \in Seq(Header)
    /\ waiting \subseteq Future

(* What is suspended misses batches of its own payload. *)
MissesPayload ==
    \A i \in DOMAIN rx_synchronizer :
        rx_synchronizer[i][2] \subseteq header[rx_synchronizer[i][1]].payload

(* Every request of q was recorded for a header of p. *)
Recorded(p, q) ==
    \A x \in q : \E h \in p : /\ x[1] \in header[h].payload
                              /\ x[2] = header[h].round

SyncInv == SyncTypes /\ consensus_round \in Nat /\ EntryHasFuture

WaiterInv == WaiterTypes /\ MissesPayload /\ Recorded(pending, batch_requests)

------------------------------------------------------------------------------
(* The Synchronizer of a worker *)

(* The entries e and the futures w of one worker belong together. *)
Paired(e, w) ==
    /\ \A x, y \in e : x[1] = y[1] => x = y
    /\ {x[1] : x \in e} = {f.batch : f \in {g \in w : ~g.cancelled}}

LEMMA EntriesPaired ==
    EntryHasFuture <=> \A n \in Node : Paired(sync_pending[n], sync_waiting[n])
BY DEF EntryHasFuture, Paired, SyncRequested

LEMMA PairedEntries ==
    ASSUME \A n \in Node : Paired(sync_pending'[n], sync_waiting'[n])
    PROVE  EntryHasFuture'
BY DEF EntryHasFuture, Paired, SyncRequested

(* What cancelling the futures of the batches in K makes of w. *)
Cancel(w, K) == {[f EXCEPT !.cancelled = @ \/ f.batch \in K] : f \in w}

LEMMA CancelFutures ==
    ASSUME NEW w \in SUBSET SyncFuture, NEW K
    PROVE  /\ Cancel(w, K) \subseteq SyncFuture
           /\ \A g \in Cancel(w, K) : \E f \in w :
                 /\ g.batch = f.batch
                 /\ ~g.cancelled <=> ~f.cancelled /\ f.batch \notin K
           /\ \A f \in w : ~f.cancelled /\ f.batch \notin K => f \in Cancel(w, K)
<1>1. ASSUME NEW f \in w
      PROVE  LET g == [f EXCEPT !.cancelled = @ \/ f.batch \in K]
             IN  /\ g \in SyncFuture
                 /\ g.batch = f.batch
                 /\ ~g.cancelled <=> ~f.cancelled /\ f.batch \notin K
                 /\ ~f.cancelled /\ f.batch \notin K => g = f
  <2>1. f \in SyncFuture
    OBVIOUS
  <2> QED
    BY <2>1 DEF SyncFuture
<1>2. Cancel(w, K) \subseteq SyncFuture
  <2> SUFFICES ASSUME NEW g \in Cancel(w, K)
               PROVE  g \in SyncFuture
    OBVIOUS
  <2>1. PICK f \in w : g = [f EXCEPT !.cancelled = @ \/ f.batch \in K]
    BY Zenon DEF Cancel
  <2> QED
    BY <1>1, <2>1, Zenon
<1>3. ASSUME NEW g \in Cancel(w, K)
      PROVE  \E f \in w : /\ g.batch = f.batch
                          /\ ~g.cancelled <=> ~f.cancelled /\ f.batch \notin K
  <2>1. PICK f \in w : g = [f EXCEPT !.cancelled = @ \/ f.batch \in K]
    BY Zenon DEF Cancel
  <2> QED
    BY <1>1, <2>1, Zenon
<1>4. ASSUME NEW f \in w, ~f.cancelled, f.batch \notin K
      PROVE  f \in Cancel(w, K)
  <2>1. f = [f EXCEPT !.cancelled = @ \/ f.batch \in K]
    BY <1>1, <1>4, Zenon
  <2> QED
    BY <2>1, Zenon DEF Cancel
<1> QED
  BY <1>2, <1>3, <1>4

(* Entries and futures of the batches K go together, whether or not some   *)
(* of the futures are done.                                                *)
LEMMA CancelPaired ==
    ASSUME NEW e, NEW w \in SUBSET SyncFuture, NEW v \in SUBSET w, NEW K,
           NEW d \in SUBSET e, \A x \in e : x \in d <=> x[1] \notin K,
           \A f \in w \ v : f.batch \in K \/ f.cancelled,
           Paired(e, w)
    PROVE  Paired(d, Cancel(v, K))
<1>1. \A x, y \in d : x[1] = y[1] => x = y
  BY DEF Paired
<1>2. ASSUME NEW x \in d
      PROVE  \E g \in Cancel(v, K) : ~g.cancelled /\ g.batch = x[1]
  <2>1. PICK f \in w : ~f.cancelled /\ f.batch = x[1]
    BY DEF Paired
  <2>2. f \in v /\ f.batch \notin K
    BY <2>1
  <2>3. f \in Cancel(v, K)
    BY <2>1, <2>2, CancelFutures
  <2> QED
    BY <2>1, <2>3
<1>3. ASSUME NEW g \in Cancel(v, K), ~g.cancelled
      PROVE  \E x \in d : x[1] = g.batch
  <2>1. PICK f \in v : /\ g.batch = f.batch
                       /\ ~g.cancelled <=> ~f.cancelled /\ f.batch \notin K
    BY CancelFutures
  <2>2. PICK x \in e : x[1] = f.batch
    BY <1>3, <2>1 DEF Paired
  <2> QED
    BY <1>3, <2>1, <2>2
<1>4. {x[1] : x \in d} = {f.batch : f \in {g \in Cancel(v, K) : ~g.cancelled}}
  BY <1>2, <1>3
<1> QED
  BY <1>1, <1>4 DEF Paired

(* Removing a cancelled future changes no pairing. *)
LEMMA DropPaired ==
    ASSUME NEW e, NEW w, NEW f \in w, f.cancelled, Paired(e, w)
    PROVE  Paired(e, w \ {f})
<1>1. {g \in w \ {f} : ~g.cancelled} = {g \in w : ~g.cancelled}
  OBVIOUS
<1> QED
  BY <1>1, Zenon DEF Paired

LEMMA AddPaired ==
    ASSUME NEW e, NEW w, NEW b, NEW r, Paired(e, w), \A x \in e : x[1] # b
    PROVE  Paired(e \cup {<<b, r>>}, w \cup {[batch |-> b, cancelled |-> FALSE]})
<1> DEFINE y == <<b, r>>
           g == [batch |-> b, cancelled |-> FALSE]
<1>1. y[1] = b /\ g.batch = b /\ ~g.cancelled
  OBVIOUS
<1> HIDE DEF y, g
<1>2. \A x, z \in e \cup {y} : x[1] = z[1] => x = z
  BY <1>1 DEF Paired
<1>3. {x[1] : x \in e \cup {y}} = {f.batch : f \in {h \in w \cup {g} : ~h.cancelled}}
  <2>1. {x[1] : x \in e \cup {y}} = {x[1] : x \in e} \cup {b}
    BY <1>1
  <2>2. {f.batch : f \in {h \in w \cup {g} : ~h.cancelled}}
          = {f.batch : f \in {h \in w : ~h.cancelled}} \cup {b}
    BY <1>1
  <2> QED
    BY <2>1, <2>2 DEF Paired
<1> QED
  BY <1>2, <1>3 DEF Paired, y, g

(* The steps of other tasks and of the network. *)
LEMMA SyncUntouched ==
    ASSUME SyncInv, UNCHANGED syncVars, consensus_round' \in Nat,
           \A m \in messages' :
               \/ m \in messages
               \/ m.type = "synchronize" /\ m.batch \in Batch
               \/ m.type = "cleanup" /\ m.round \in Nat
    PROVE  SyncInv'
<1>1. SyncTypes'
  BY DEF SyncInv, SyncTypes, syncVars
<1>2. EntryHasFuture'
  BY DEF SyncInv, EntryHasFuture, SyncRequested, syncVars
<1> QED
  BY <1>1, <1>2 DEF SyncInv

LEMMA ReceiveSynchronizeKeeps ==
    ASSUME SyncInv, NEW n \in Node, ReceiveSynchronize(n)
    PROVE  SyncInv'
<1> USE DEF SyncInv, SyncTypes
<1>1. PICK m \in messages :
         /\ m.type = "synchronize"
         /\ messages' = messages \ {m}
         /\ IF m.batch \in SyncRequested(n)
            THEN UNCHANGED <<sync_pending, sync_waiting>>
            ELSE /\ sync_pending' = [sync_pending EXCEPT ![n] =
                                       @ \cup {<<m.batch, sync_round[n]>>}]
                 /\ sync_waiting' = [sync_waiting EXCEPT ![n] =
                                       @ \cup {[batch |-> m.batch, cancelled |-> FALSE]}]
         /\ UNCHANGED <<sync_round, consensus_round>>
  BY Zenon DEF ReceiveSynchronize
<1>2. CASE m.batch \in SyncRequested(n)
  BY <1>1, <1>2, SyncUntouched DEF syncVars
<1>3. CASE m.batch \notin SyncRequested(n)
  <2> DEFINE y == <<m.batch, sync_round[n]>>
             g == [batch |-> m.batch, cancelled |-> FALSE]
  <2>1. /\ sync_pending' = [sync_pending EXCEPT ![n] = @ \cup {y}]
        /\ sync_waiting' = [sync_waiting EXCEPT ![n] = @ \cup {g}]
    BY <1>1, <1>3
  <2>2. y \in Batch \X Nat /\ g \in SyncFuture
    BY <1>1 DEF SyncFuture
  <2>3. Paired(sync_pending[n] \cup {y}, sync_waiting[n] \cup {g})
    <3>1. \A x \in sync_pending[n] : x[1] # m.batch
      BY <1>3 DEF SyncRequested
    <3> QED
      BY <3>1, EntriesPaired, AddPaired
  <2> HIDE DEF y, g
  <2>4. SyncTypes'
    BY <1>1, <2>1, <2>2
  <2>5. \A k \in Node : Paired(sync_pending'[k], sync_waiting'[k])
    <3> TAKE k \in Node
    <3>1. CASE k = n
      BY <2>1, <2>3, <3>1
    <3>2. CASE k # n
      BY <2>1, <3>2, EntriesPaired
    <3> QED
      BY <3>1, <3>2
  <2> QED
    BY <1>1, <2>4, <2>5, PairedEntries
<1> QED
  BY <1>2, <1>3

LEMMA ReceiveCleanupKeeps ==
    ASSUME SyncInv, NEW n \in Node, ReceiveCleanup(n)
    PROVE  SyncInv'
<1> USE DEF SyncInv, SyncTypes
<1>1. PICK m \in messages :
         LET old == {x \in sync_pending[n] : x[2] + GCDepth <= m.round}
         IN  /\ m.type = "cleanup"
             /\ messages' = messages \ {m}
             /\ sync_round' = [sync_round EXCEPT ![n] = m.round]
             /\ sync_pending' = [sync_pending EXCEPT ![n] = @ \ old]
             /\ sync_waiting' = [sync_waiting EXCEPT ![n] =
                   {[f EXCEPT !.cancelled = @ \/ f.batch \in {x[1] : x \in old}] : f \in @}]
             /\ UNCHANGED consensus_round
  BY Zenon DEF ReceiveCleanup
<1> DEFINE old == {x \in sync_pending[n] : x[2] + GCDepth <= m.round}
           K == {x[1] : x \in old}
           e == sync_pending[n]
           w == sync_waiting[n]
           d == e \ old
           v == Cancel(w, K)
<1>2. /\ messages' = messages \ {m}
      /\ sync_round' = [sync_round EXCEPT ![n] = m.round]
      /\ sync_pending' = [sync_pending EXCEPT ![n] = d]
      /\ sync_waiting' = [sync_waiting EXCEPT ![n] = v]
      /\ m.round \in Nat
  BY <1>1, Zenon DEF Cancel
<1>3. old \subseteq e /\ \A b : b \in K <=> \E x \in old : b = x[1]
  OBVIOUS
<1> HIDE DEF old, K
<1>4. /\ w \in SUBSET SyncFuture /\ Paired(e, w)
  BY EntriesPaired
<1>5. \A x \in e : x \in d <=> x[1] \notin K
  <2> SUFFICES ASSUME NEW x \in e
               PROVE  x \in old <=> x[1] \in K
    OBVIOUS
  <2> QED
    BY <1>3, <1>4 DEF Paired
<1>6. Paired(d, v)
  <2>1. \A f \in w \ w : f.batch \in K \/ f.cancelled
    OBVIOUS
  <2>2. d \in SUBSET e /\ w \in SUBSET w
    OBVIOUS
  <2> HIDE DEF d, e, w
  <2> QED
    BY <1>4, <1>5, <2>1, <2>2, CancelPaired
<1>7. v \subseteq SyncFuture /\ d \subseteq Batch \X Nat
  BY <1>4, CancelFutures
<1> HIDE DEF v, d
<1>8. SyncTypes'
  BY <1>2, <1>7
<1>9. \A k \in Node : Paired(sync_pending'[k], sync_waiting'[k])
  <2> TAKE k \in Node
  <2>1. CASE k = n
    BY <1>2, <1>6, <2>1
  <2>2. CASE k # n
    BY <1>2, <2>2, EntriesPaired
  <2> QED
    BY <2>1, <2>2
<1> QED
  BY <1>1, <1>8, <1>9, PairedEntries

LEMMA SyncDoneKeeps ==
    ASSUME SyncInv, NEW n \in Node, SyncDone(n)
    PROVE  SyncInv'
<1> USE DEF SyncInv, SyncTypes
<1> DEFINE e == sync_pending[n]
           w == sync_waiting[n]
<1>1. w \in SUBSET SyncFuture /\ e \in SUBSET (Batch \X Nat) /\ Paired(e, w)
  BY EntriesPaired
<1>2. PICK f \in w :
         /\ \/ /\ sync_pending' = [sync_pending EXCEPT ![n] = {x \in @ : x[1] # f.batch}]
               /\ sync_waiting' = [sync_waiting EXCEPT ![n] =
                     {[g EXCEPT !.cancelled = @ \/ g.batch = f.batch] : g \in @ \ {f}}]
            \/ /\ f.cancelled
               /\ sync_waiting' = [sync_waiting EXCEPT ![n] = @ \ {f}]
               /\ UNCHANGED sync_pending
         /\ UNCHANGED <<sync_round, messages, consensus_round>>
  BY Zenon DEF SyncDone
<1>3. ASSUME NEW d \in SUBSET (Batch \X Nat), NEW v \in SUBSET SyncFuture,
             Paired(d, v),
             sync_pending' = [sync_pending EXCEPT ![n] = d],
             sync_waiting' = [sync_waiting EXCEPT ![n] = v]
      PROVE  SyncInv'
  <2>1. SyncTypes'
    BY <1>2, <1>3
  <2>2. \A k \in Node : Paired(sync_pending'[k], sync_waiting'[k])
    <3> TAKE k \in Node
    <3>1. CASE k = n
      BY <1>3, <3>1
    <3>2. CASE k # n
      BY <1>3, <3>2, EntriesPaired
    <3> QED
      BY <3>1, <3>2
  <2> QED
    BY <1>2, <2>1, <2>2, PairedEntries
<1>4. CASE /\ sync_pending' = [sync_pending EXCEPT ![n] = {x \in @ : x[1] # f.batch}]
           /\ sync_waiting' = [sync_waiting EXCEPT ![n] =
                 {[g EXCEPT !.cancelled = @ \/ g.batch = f.batch] : g \in @ \ {f}}]
  <2> DEFINE K == {f.batch}
             d == {x \in e : x[1] # f.batch}
             u == w \ {f}
             v == Cancel(u, K)
  <2>1. v = {[g EXCEPT !.cancelled = @ \/ g.batch = f.batch] : g \in u}
    <3>1. \A g \in u : [g EXCEPT !.cancelled = @ \/ g.batch \in K]
                         = [g EXCEPT !.cancelled = @ \/ g.batch = f.batch]
      OBVIOUS
    <3> QED
      BY <3>1, Zenon DEF Cancel
  <2>2. \A x \in e : x \in d <=> x[1] \notin K
    OBVIOUS
  <2>3. /\ \A g \in w \ u : g.batch \in K \/ g.cancelled
        /\ d \in SUBSET e /\ u \in SUBSET w
    OBVIOUS
  <2>4. sync_pending' = [sync_pending EXCEPT ![n] = d]
    BY <1>4
  <2>5. sync_waiting' = [sync_waiting EXCEPT ![n] = v]
    BY <1>4, <2>1, Zenon
  <2> HIDE DEF K, d, u, e, w
  <2>6. Paired(d, v)
    BY <1>1, <2>2, <2>3, CancelPaired
  <2>7. v \in SUBSET SyncFuture /\ d \in SUBSET (Batch \X Nat)
    BY <1>1, <2>3, CancelFutures
  <2> HIDE DEF v
  <2> QED
    BY <1>3, <2>4, <2>5, <2>6, <2>7
<1>5. CASE /\ f.cancelled
           /\ sync_waiting' = [sync_waiting EXCEPT ![n] = @ \ {f}]
           /\ UNCHANGED sync_pending
  <2>1. Paired(e, w \ {f})
    BY <1>1, <1>5, DropPaired
  <2>2. /\ sync_pending' = [sync_pending EXCEPT ![n] = e]
        /\ sync_waiting' = [sync_waiting EXCEPT ![n] = w \ {f}]
    BY <1>5
  <2> QED
    BY <1>1, <1>3, <2>1, <2>2
<1> QED
  BY <1>2, <1>4, <1>5

------------------------------------------------------------------------------
(* The HeaderWaiter *)

(* The cleanup keeps the types of the futures, and forgets a request with  *)
(* the headers of the round it was recorded with.                          *)
LEMMA CleanupKeeps ==
    ASSUME NEW p, NEW w \in SUBSET Future, NEW q, Recorded(p, q), Cleanup(p, w, q)
    PROVE  waiting' \subseteq Future /\ Recorded(pending', batch_requests')
<1>1. CASE consensus_round <= GCDepth
  <2>1. pending' = p /\ waiting' = w /\ batch_requests' = q
    BY <1>1 DEF Cleanup
  <2> QED
    BY <2>1, Zenon
<1>2. CASE ~(consensus_round <= GCDepth)
  <2> DEFINE gc == consensus_round - GCDepth
             C(f) == f.header \in p /\ header[f.header].round <= gc
  <2>1. /\ pending' = {h \in p : header[h].round > gc}
        /\ waiting' = {[f EXCEPT !.cancelled = @ \/ C(f)] : f \in w}
        /\ batch_requests' = {x \in q : x[2] > gc}
    BY <1>2, Zenon DEF Cleanup
  <2>2. waiting' \subseteq Future
    <3> SUFFICES ASSUME NEW f \in w
                 PROVE  [f EXCEPT !.cancelled = @ \/ C(f)] \in Future
      BY <2>1
    <3>1. C(f) \in BOOLEAN
      OBVIOUS
    <3> HIDE DEF C
    <3> QED
      BY <3>1 DEF Future
  <2>3. ASSUME NEW x \in q, x[2] > gc
        PROVE  \E h \in pending' : /\ x[1] \in header[h].payload
                                   /\ x[2] = header[h].round
    <3>1. PICK h \in p : x[1] \in header[h].payload /\ x[2] = header[h].round
      BY DEF Recorded
    <3>2. h \in pending'
      BY <2>1, <2>3, <3>1, Zenon
    <3> QED
      BY <3>1, <3>2
  <2>4. Recorded(pending', batch_requests')
    BY <2>1, <2>3, Zenon DEF Recorded
  <2> QED
    BY <2>2, <2>4
<1> QED
  BY <1>1, <1>2

(* Core sends what it misses of a payload, never another batch. *)
LEMMA ProcessHeaderKeeps ==
    ASSUME WaiterInv, NEW h \in Header, ProcessHeader(h)
    PROVE  rx_synchronizer' \in Seq(Suspension) /\ MissesPayload'
<1> DEFINE m == <<h, MissingPayload(h)>>
<1>1. /\ m \in Suspension
      /\ m[2] \subseteq header[m[1]].payload
  BY BatchAssumption DEF Suspension, MissingPayload
<1>2. \/ rx_synchronizer' = rx_synchronizer
      \/ rx_synchronizer' = Append(rx_synchronizer, m)
  BY DEF ProcessHeader
<1>3. rx_synchronizer \in Seq(Suspension)
  BY DEF WaiterInv, WaiterTypes
<1> HIDE DEF m
<1>4. CASE rx_synchronizer' = rx_synchronizer
  BY <1>3, <1>4 DEF WaiterInv, MissesPayload
<1>5. CASE rx_synchronizer' = Append(rx_synchronizer, m)
  <2>1. \A i \in DOMAIN rx_synchronizer' :
           \/ i \in DOMAIN rx_synchronizer /\ rx_synchronizer'[i] = rx_synchronizer[i]
           \/ rx_synchronizer'[i] = m
    BY <1>1, <1>3, <1>5
  <2>2. MissesPayload'
    BY <1>1, <2>1, Zenon DEF WaiterInv, MissesPayload
  <2> QED
    BY <1>1, <1>3, <1>5, <2>2
<1> QED
  BY <1>2, <1>4, <1>5

LEMMA CoreKeeps ==
    ASSUME WaiterInv, ReceiveHeader \/ LoopbackHeader
    PROVE  WaiterInv'
<1>1. rx_core \in Seq(Header)
  BY DEF WaiterInv, WaiterTypes
<1>2. PICK h \in Header : ProcessHeader(h) /\ rx_core' \in Seq(Header)
  <2>1. CASE ReceiveHeader
    BY <1>1, <2>1 DEF ReceiveHeader
  <2>2. CASE LoopbackHeader
    <3>1. Head(rx_core) \in Header /\ Tail(rx_core) \in Seq(Header)
      BY <1>1, <2>2 DEF LoopbackHeader
    <3> QED
      BY <2>2, <3>1 DEF LoopbackHeader
  <2> QED
    BY <2>1, <2>2
<1>3. rx_synchronizer' \in Seq(Suspension) /\ MissesPayload'
  BY <1>2, ProcessHeaderKeeps
<1>4. UNCHANGED <<waiterVars, consensus_round>>
  BY DEF ReceiveHeader, LoopbackHeader
<1> QED
  BY <1>2, <1>3, <1>4 DEF WaiterInv, WaiterTypes, waiterVars

LEMMA SyncBatchesKeeps ==
    ASSUME WaiterInv, SyncBatches
    PROVE  WaiterInv'
<1> USE DEF WaiterInv, WaiterTypes
<1> DEFINE h == Head(rx_synchronizer)[1]
           missing == Head(rx_synchronizer)[2]
           requires_sync == RequiresSync(missing)
<1>1. /\ rx_synchronizer # << >>
      /\ rx_synchronizer' = Tail(rx_synchronizer)
      /\ UNCHANGED <<rx_core, consensus_round>>
  BY DEF SyncBatches, coreVars
<1>2. /\ Tail(rx_synchronizer) \in Seq(Suspension)
      /\ Head(rx_synchronizer) = rx_synchronizer[1]
      /\ 1 \in DOMAIN rx_synchronizer
      /\ Head(rx_synchronizer) \in Suspension
  BY <1>1
<1>3. h \in Header /\ missing \in SUBSET Batch
  BY <1>2 DEF Suspension
<1>4. missing \subseteq header[h].payload
  BY <1>2, Zenon DEF MissesPayload
<1>5. MissesPayload'
  <2>1. \A i \in DOMAIN rx_synchronizer' :
           i + 1 \in DOMAIN rx_synchronizer
             /\ rx_synchronizer'[i] = rx_synchronizer[i + 1]
    BY <1>1, <1>2
  <2> QED
    BY <2>1, Zenon DEF MissesPayload
<1>6. CASE h \in pending
  <2>1. UNCHANGED waiterVars
    BY <1>6, Zenon DEF SyncBatches
  <2> QED
    BY <1>1, <1>2, <1>5, <2>1 DEF waiterVars
<1>7. CASE h \notin pending
  <2> DEFINE g == [header |-> h, missing |-> missing, cancelled |-> FALSE]
             q == batch_requests \cup (requires_sync \X {header[h].round})
  <2>1. Cleanup(pending \cup {h}, waiting \cup {g}, q)
    BY <1>7, Zenon DEF SyncBatches
  <2>2. waiting \cup {g} \in SUBSET Future
    <3>1. g \in Future
      BY <1>3 DEF Future
    <3> HIDE DEF g
    <3> QED
      BY <3>1
  <2>3. Recorded(pending \cup {h}, q)
    <3> SUFFICES ASSUME NEW x \in q
                 PROVE  \E k \in pending \cup {h} :
                           x[1] \in header[k].payload /\ x[2] = header[k].round
      BY DEF Recorded
    <3>1. CASE x \in batch_requests
      BY <3>1 DEF Recorded
    <3>2. CASE x \in requires_sync \X {header[h].round}
      <4>1. x[1] \in missing /\ x[2] = header[h].round
        BY <3>2 DEF RequiresSync
      <4> QED
        BY <1>4, <4>1
    <3> QED
      BY <3>1, <3>2
  <2> HIDE DEF g, q, h
  <2>4. waiting' \subseteq Future /\ Recorded(pending', batch_requests')
    BY <2>1, <2>2, <2>3, CleanupKeeps
  <2> QED
    BY <1>1, <1>2, <1>5, <2>4
<1> QED
  BY <1>6, <1>7

(* A header returns and takes with it the requests for its payload. *)
LEMMA ReturnKeeps ==
    ASSUME WaiterInv, Return
    PROVE  WaiterInv'
<1> USE DEF WaiterInv, WaiterTypes
<1>1. PICK f \in waiting :
         /\ rx_core' = Append(rx_core, f.header)
         /\ Cleanup(pending \ {f.header},
                    {[g EXCEPT !.cancelled = @ \/ g.header = f.header]
                       : g \in waiting \ {f}},
                    {x \in batch_requests : x[1] \notin header[f.header].payload})
         /\ UNCHANGED <<rx_synchronizer, consensus_round>>
  BY Zenon DEF Return
<1> DEFINE p == pending \ {f.header}
           w == {[g EXCEPT !.cancelled = @ \/ g.header = f.header] : g \in waiting \ {f}}
           q == {x \in batch_requests : x[1] \notin header[f.header].payload}
<1>2. w \in SUBSET Future
  BY DEF Future
<1>3. Recorded(p, q)
  <2> SUFFICES ASSUME NEW x \in q
               PROVE  \E k \in p : x[1] \in header[k].payload /\ x[2] = header[k].round
    BY DEF Recorded
  <2>1. PICK k \in pending : x[1] \in header[k].payload /\ x[2] = header[k].round
    BY DEF Recorded
  <2> QED
    BY <2>1
<1>4. rx_core' \in Seq(Header)
  <2>1. f.header \in Header
    BY DEF Future
  <2> QED
    BY <1>1, <2>1
<1>5. waiting' \subseteq Future /\ Recorded(pending', batch_requests')
  <2>1. Cleanup(p, w, q)
    BY <1>1
  <2> HIDE DEF p, w, q
  <2> QED
    BY <1>2, <1>3, <2>1, CleanupKeeps
<1> QED
  BY <1>1, <1>4, <1>5 DEF MissesPayload

LEMMA CleanupOnlyKeeps ==
    ASSUME WaiterInv, Cancelled \/ WaiterTimer
    PROVE  WaiterInv'
<1> USE DEF WaiterInv, WaiterTypes
<1>1. PICK w \in SUBSET waiting : Cleanup(pending, w, batch_requests)
  BY Zenon DEF Cancelled, WaiterTimer
<1>2. waiting' \subseteq Future /\ Recorded(pending', batch_requests')
  BY <1>1, CleanupKeeps
<1>3. UNCHANGED <<rx_synchronizer, rx_core, consensus_round>>
  BY DEF Cancelled, WaiterTimer, coreVars
<1> QED
  BY <1>2, <1>3 DEF MissesPayload

LEMMA WaiterStep ==
    ASSUME WaiterInv, [Next]_vars
    PROVE  WaiterInv'
<1>1. ASSUME UNCHANGED <<rx_synchronizer, rx_core, waiterVars>>,
             consensus_round' \in Nat
      PROVE  WaiterInv'
  BY <1>1 DEF WaiterInv, WaiterTypes, MissesPayload, waiterVars
<1>2. consensus_round \in Nat
  BY DEF WaiterInv, WaiterTypes
<1>3. CASE ReceiveHeader \/ LoopbackHeader
  BY <1>3, CoreKeeps
<1>4. CASE SyncBatches
  BY <1>4, SyncBatchesKeeps
<1>5. CASE Return
  BY <1>5, ReturnKeeps
<1>6. CASE Cancelled \/ WaiterTimer
  BY <1>6, CleanupOnlyKeeps
<1>7. CASE Commit
  BY <1>1, <1>2, <1>7 DEF Commit, coreVars
<1>8. CASE PrimaryTold \/ OtherCommand \/ Lose \/ UNCHANGED vars
  <2>1. UNCHANGED <<rx_synchronizer, rx_core, waiterVars, consensus_round>>
    BY <1>8, Zenon DEF PrimaryTold, OtherCommand, Lose, vars, coreVars
  <2> QED
    BY <1>1, <1>2, <2>1
<1>9. ASSUME NEW n \in Node,
             \/ ReceiveSynchronize(n) \/ ReceiveCleanup(n) \/ SyncDone(n)
             \/ SyncTimer(n) \/ Process(n)
             \/ \E m \in Node, b \in Batch : Answer(n, m, b)
             \/ \E b \in Batch : ReceiveBatch(n, b)
      PROVE  WaiterInv'
  <2>1. UNCHANGED <<rx_synchronizer, rx_core, waiterVars, consensus_round>>
    BY <1>9, Zenon DEF ReceiveSynchronize, ReceiveCleanup, SyncDone, SyncTimer,
       Retry, Process, Answer, ReceiveBatch, coreVars
  <2> QED
    BY <1>1, <1>2, <2>1
<1> QED
  BY <1>3, <1>4, <1>5, <1>6, <1>7, <1>8, <1>9, Zenon DEF Next

------------------------------------------------------------------------------
(* The Synchronizer again: every step of the whole system *)

LEMMA SyncStep ==
    ASSUME SyncInv, WaiterInv, [Next]_vars
    PROVE  SyncInv'
<1> DEFINE Known(m) == \/ m \in messages
                       \/ m.type = "synchronize" /\ m.batch \in Batch
                       \/ m.type = "cleanup" /\ m.round \in Nat
<1>1. consensus_round \in Nat
  BY DEF SyncInv
<1>2. ASSUME UNCHANGED syncVars, consensus_round' \in Nat, messages' \subseteq messages
      PROVE  SyncInv'
  BY <1>2, SyncUntouched
<1>3. CASE \/ ReceiveHeader \/ LoopbackHeader \/ PrimaryTold
           \/ Return \/ Cancelled \/ WaiterTimer
           \/ Lose \/ UNCHANGED vars
  <2>1. /\ UNCHANGED <<syncVars, consensus_round>>
        /\ messages' \subseteq messages
    <3>1. CASE Lose
      BY <3>1 DEF Lose
    <3>2. CASE \/ ReceiveHeader \/ LoopbackHeader \/ PrimaryTold
               \/ Return \/ Cancelled \/ WaiterTimer \/ UNCHANGED vars
      BY <3>2 DEF ReceiveHeader, LoopbackHeader, PrimaryTold, Return, Cancelled,
                  WaiterTimer, vars
    <3> QED
      BY <1>3, <3>1, <3>2
  <2> QED
    BY <1>1, <1>2, <2>1
<1>4. CASE SyncBatches
  <2> DEFINE h == Head(rx_synchronizer)[1]
             missing == Head(rx_synchronizer)[2]
             a == header[h].author
             sent == {Synchronize(a, b, a) : b \in RequiresSync(missing)}
  <2>1. /\ messages' = messages \/ messages' = messages \cup sent
        /\ UNCHANGED <<syncVars, consensus_round>>
    BY <1>4, Zenon DEF SyncBatches
  <2>2. missing \in SUBSET Batch
    <3>1. Head(rx_synchronizer) \in Suspension
      BY <1>4 DEF SyncBatches, WaiterInv, WaiterTypes
    <3> QED
      BY <3>1 DEF Suspension
  <2>3. \A m \in sent : m.type = "synchronize" /\ m.batch \in Batch
    BY <2>2 DEF Synchronize, RequiresSync
  <2> HIDE DEF sent
  <2>4. \A m \in messages' : Known(m)
    BY <2>1, <2>3
  <2> QED
    BY <1>1, <2>1, <2>4, SyncUntouched
<1>5. CASE Commit
  <2> DEFINE m == CleanupMessage(consensus_round + 1)
  <2>1. m.type = "cleanup" /\ m.round \in Nat
    BY <1>1 DEF CleanupMessage
  <2> HIDE DEF m
  <2>2. /\ UNCHANGED syncVars
        /\ consensus_round' \in Nat
        /\ \A x \in messages' : Known(x)
    BY <1>1, <1>5, <2>1 DEF Commit, m
  <2> QED
    BY <2>2, SyncUntouched
<1>6. CASE OtherCommand
  <2>1. PICK m \in Commands : messages' = messages \cup {m}
    BY <1>6 DEF OtherCommand
  <2>2. UNCHANGED <<syncVars, consensus_round>>
    BY <1>6 DEF OtherCommand
  <2>3. \A x \in messages' : Known(x)
    BY <2>1, BatchAssumption
  <2> QED
    BY <1>1, <2>2, <2>3, SyncUntouched
<1>7. ASSUME NEW n \in Node,
             \/ SyncTimer(n) \/ Process(n)
             \/ \E m \in Node, b \in Batch : Answer(n, m, b)
             \/ \E b \in Batch : ReceiveBatch(n, b)
      PROVE  SyncInv'
  <2>1. UNCHANGED <<syncVars, consensus_round, messages>>
    BY <1>7, Zenon DEF SyncTimer, Retry, Process, Answer, ReceiveBatch
  <2> QED
    BY <1>1, <1>2, <2>1
<1>8. ASSUME NEW n \in Node,
             ReceiveSynchronize(n) \/ ReceiveCleanup(n) \/ SyncDone(n)
      PROVE  SyncInv'
  BY <1>8, ReceiveSynchronizeKeeps, ReceiveCleanupKeeps, SyncDoneKeeps
<1> QED
  BY <1>3, <1>4, <1>5, <1>6, <1>7, <1>8, Zenon DEF Next

LEMMA BatchInvHolds ==
    Spec => [](SyncInv /\ WaiterInv)
<1>1. Init => SyncInv /\ WaiterInv
  <2> SUFFICES ASSUME Init
               PROVE  SyncInv /\ WaiterInv
    OBVIOUS
  <2>1. SyncTypes /\ EntryHasFuture /\ consensus_round \in Nat
    BY DEF Init, SyncTypes, EntryHasFuture, SyncRequested
  <2>2. WaiterTypes /\ MissesPayload /\ Recorded(pending, batch_requests)
    BY DEF Init, WaiterTypes, MissesPayload, Recorded
  <2> QED
    BY <2>1, <2>2 DEF SyncInv, WaiterInv
<1>2. SyncInv /\ WaiterInv /\ [Next]_vars => (SyncInv /\ WaiterInv)'
  BY SyncStep, WaiterStep
<1> QED
  BY <1>1, <1>2, PTL DEF Spec

(* Every batch in Synchronizer::pending has one entry and one live future, *)
(* and no live future is without its entry, for any mix of duplicate       *)
(* requests, cleanups and arrivals: a batch is not retried for ever, and   *)
(* no request for it is refused for ever.                                  *)
THEOREM EntriesAreWaitedFor ==
    Spec => []EntryHasFuture
<1>1. SyncInv => EntryHasFuture
  BY DEF SyncInv
<1> QED
  BY <1>1, BatchInvHolds, PTL

(* The HeaderWaiter keeps a batch as requested only while a header waits   *)
(* for it, whatever the rounds of the headers that share it: a batch that  *)
(* nobody waits for can be requested again.                                *)
THEOREM RequestedIsWaitedFor ==
    Spec => []RequestsAreWaitedFor
<1>1. WaiterInv => RequestsAreWaitedFor
  <2> SUFFICES ASSUME WaiterInv, NEW x \in batch_requests
               PROVE  \E h \in pending : x[1] \in header[h].payload
    BY DEF RequestsAreWaitedFor, Requested
  <2> QED
    BY DEF WaiterInv, Recorded
<1> QED
  BY <1>1, BatchInvHolds, PTL
==============================================================================
