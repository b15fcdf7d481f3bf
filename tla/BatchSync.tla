------------------------------ MODULE BatchSync ------------------------------
(***************************************************************************)
(* How an authority gets the batches of a header it misses: Core suspends  *)
(* the header, the HeaderWaiter asks a worker to synchronize, the worker's *)
(* Synchronizer asks other workers, whose Helpers answer, and the batch    *)
(* comes back through Processor, PrimaryConnector and PayloadReceiver.     *)
(*                                                                         *)
(* The primary is the one of authority name; every authority runs one      *)
(* worker.  All messages travel over SimpleSender and may be lost; one for *)
(* several batches is modelled as one for each batch.                      *)
(***************************************************************************)
EXTENDS Naturals, Sequences, FiniteSets

CONSTANTS
    Node, name,      \* the authorities, and the one whose primary this is
    Batch,
    Header,
    header,          \* the header of a digest: author, round, payload
    Holds,           \* Holds[n]: batches in the store of worker n at the start
    Commands,        \* Synchronize messages that reach workers by other ways
    RetryNodes,      \* sync_retry_nodes
    GCDepth,         \* gc_depth
    Lossy,           \* whether SimpleSender ever drops a message
    LastCommit       \* bound: the last round the consensus commits

ASSUME BatchAssumption ==
    /\ \A h \in Header : header[h].round \in Nat /\ header[h].payload \subseteq Batch
    /\ \A m \in Commands : m.type = "synchronize" /\ m.batch \in Batch

VARIABLES
    (* the primary *)
    payload,         \* batches of others in its store
    processed,       \* headers whose payload Core found complete
    rx_synchronizer, \* Core -> HeaderWaiter: <<header, missing batches>>
    rx_core,         \* HeaderWaiter -> Core
    pending,         \* HeaderWaiter::pending
    waiting,         \* its futures: [header, missing, cancelled]
    batch_requests,  \* <<batch, round>> it sent a request for
    consensus_round,
    (* the workers *)
    store,           \* batches each worker stored
    rx_processor,    \* batches received from other workers, not stored yet
    sync_pending,    \* Synchronizer::pending, as <<batch, round>>
    sync_waiting,    \* its futures: [batch, cancelled]
    sync_round,      \* Synchronizer::round
    (* the network *)
    messages,        \* from primaries to workers
    requests,        \* <<requestor, worker, batch>>
    replies,         \* <<requestor, batch>>
    reports,         \* OthersBatch messages to the primary of name
    received,        \* headers that have arrived
    sent_commands    \* the Commands that have arrived

coreVars == <<payload, processed, rx_core>>
waiterVars == <<pending, waiting, batch_requests>>
syncVars == <<sync_pending, sync_waiting, sync_round>>
workerVars == <<store, rx_processor>>
netVars == <<requests, replies, reports>>
envVars == <<received, sent_commands>>
vars == <<coreVars, rx_synchronizer, waiterVars, consensus_round, workerVars,
          syncVars, messages, netVars, envVars>>

Synchronize(worker, batch, target) ==
    [type |-> "synchronize", to |-> worker, batch |-> batch, target |-> target]

CleanupMessage(round) == [type |-> "cleanup", to |-> name, round |-> round]

------------------------------------------------------------------------------
(* Core and Synchronizer of the primary *)

(* missing_payload; the payload of our own workers is not in our store. *)
MissingPayload(h) ==
    IF header[h].author = name THEN {} ELSE header[h].payload \ payload

ProcessHeader(h) ==
    IF MissingPayload(h) = {}
    THEN processed' = processed \cup {h} /\ UNCHANGED rx_synchronizer
    ELSE /\ rx_synchronizer' = Append(rx_synchronizer, <<h, MissingPayload(h)>>)
         /\ UNCHANGED processed

ReceiveHeader ==
    \E h \in Header \ received :
        /\ consensus_round <= GCDepth + header[h].round
        /\ received' = received \cup {h}
        /\ ProcessHeader(h)
        /\ UNCHANGED <<payload, rx_core, waiterVars, consensus_round, workerVars,
                       syncVars, messages, netVars, sent_commands>>

LoopbackHeader ==
    /\ rx_core # << >>
    /\ rx_core' = Tail(rx_core)
    /\ ProcessHeader(Head(rx_core))
    /\ UNCHANGED <<payload, waiterVars, consensus_round, workerVars, syncVars,
                   messages, netVars, envVars>>

(* WorkerReceiverHandler and PayloadReceiver *)
PrimaryTold ==
    \E b \in reports :
        /\ reports' = reports \ {b}
        /\ payload' = payload \cup {b}
        /\ UNCHANGED <<processed, rx_core, rx_synchronizer, waiterVars, consensus_round,
                       workerVars, syncVars, messages, requests, replies, envVars>>

------------------------------------------------------------------------------
(* HeaderWaiter *)

(* The cleanup that ends an iteration: see PrimarySync. *)
Cleanup(p, w, q) ==
    LET gc == consensus_round - GCDepth
    IN  IF consensus_round <= GCDepth
        THEN pending' = p /\ waiting' = w /\ batch_requests' = q
        ELSE /\ pending' = {h \in p : header[h].round > gc}
             /\ waiting' = {[f EXCEPT !.cancelled =
                               @ \/ (f.header \in p /\ header[f.header].round <= gc)]
                            : f \in w}
             /\ batch_requests' = {x \in q : x[2] > gc}

Requested == {x[1] : x \in batch_requests}

(* Ensure we didn't already send a sync request. *)
RequiresSync(missing) == missing \ Requested

(* SyncBatches.  The request goes to the worker of the header's author,    *)
(* who is also the node to synchronize with.                               *)
SyncBatches ==
    LET h == Head(rx_synchronizer)[1]
        missing == Head(rx_synchronizer)[2]
        author == header[h].author
    IN  /\ rx_synchronizer # << >>
        /\ rx_synchronizer' = Tail(rx_synchronizer)
        /\ IF h \in pending
           THEN UNCHANGED <<waiterVars, messages>>
           ELSE /\ Cleanup(pending \cup {h},
                           waiting \cup {[header |-> h, missing |-> missing,
                                          cancelled |-> FALSE]},
                           batch_requests \cup
                              (RequiresSync(missing) \X {header[h].round}))
                /\ messages' = messages \cup
                      {Synchronize(author, b, author) : b \in RequiresSync(missing)}
        /\ UNCHANGED <<coreVars, consensus_round, workerVars, syncVars, netVars, envVars>>

(* Faulty variant: a batch stays requested when its header is returned. *)
ReturnKeepsRequests ==
    \E f \in waiting :
        /\ f.missing \subseteq payload
        /\ rx_core' = Append(rx_core, f.header)
        /\ Cleanup(pending \ {f.header},
                   {[g EXCEPT !.cancelled = @ \/ g.header = f.header] : g \in waiting \ {f}},
                   batch_requests)
        /\ UNCHANGED <<payload, processed, rx_synchronizer, consensus_round, workerVars,
                       syncVars, messages, netVars, envVars>>

(* All batches were reported. *)
Return ==
    \E f \in waiting :
        /\ f.missing \subseteq payload
        /\ rx_core' = Append(rx_core, f.header)
        /\ Cleanup(pending \ {f.header},
                   {[g EXCEPT !.cancelled = @ \/ g.header = f.header] : g \in waiting \ {f}},
                   {x \in batch_requests : x[1] \notin header[f.header].payload})
        /\ UNCHANGED <<payload, processed, rx_synchronizer, consensus_round, workerVars,
                       syncVars, messages, netVars, envVars>>

Cancelled ==
    \E f \in waiting :
        /\ f.cancelled
        /\ Cleanup(pending, waiting \ {f}, batch_requests)
        /\ UNCHANGED <<coreVars, rx_synchronizer, consensus_round, workerVars, syncVars,
                       messages, netVars, envVars>>

(* The timer of the HeaderWaiter only retries requests for certificates,   *)
(* and then cleans up.                                                     *)
WaiterTimer ==
    /\ Cleanup(pending, waiting, batch_requests)
    /\ UNCHANGED <<coreVars, rx_synchronizer, consensus_round, workerVars, syncVars,
                   messages, netVars, envVars>>

(* GarbageCollector: publish the round and tell our worker. *)
Commit ==
    /\ consensus_round < LastCommit
    /\ consensus_round' = consensus_round + 1
    /\ messages' = messages \cup {CleanupMessage(consensus_round + 1)}
    /\ UNCHANGED <<coreVars, rx_synchronizer, waiterVars, workerVars, syncVars, netVars,
                   envVars>>

------------------------------------------------------------------------------
(* Synchronizer of the worker of authority n *)

SyncRequested(n) == {x[1] : x \in sync_pending[n]}

ReceiveSynchronize(n) ==
    \E m \in messages :
        /\ m.type = "synchronize" /\ m.to = n
        /\ messages' = messages \ {m}
        /\ IF m.batch \in SyncRequested(n)
           THEN UNCHANGED <<sync_pending, sync_waiting, requests>>
           ELSE /\ sync_pending' = [sync_pending EXCEPT ![n] =
                                      @ \cup {<<m.batch, sync_round[n]>>}]
                /\ sync_waiting' = [sync_waiting EXCEPT ![n] =
                                      @ \cup {[batch |-> m.batch, cancelled |-> FALSE]}]
                /\ requests' = IF m.target \in Node /\ m.batch \notin store[n]
                               THEN requests \cup {<<n, m.target, m.batch>>}
                               ELSE requests
        /\ UNCHANGED <<coreVars, rx_synchronizer, waiterVars, consensus_round, workerVars,
                       sync_round, replies, reports, envVars>>

(* Faulty variant: the futures of what is cleaned up are not cancelled. *)
CleanupNotCancelled(n) ==
    \E m \in messages :
        LET old == {x \in sync_pending[n] : x[2] + GCDepth <= m.round}
        IN  /\ m.type = "cleanup" /\ m.to = n
            /\ messages' = messages \ {m}
            /\ sync_round' = [sync_round EXCEPT ![n] = m.round]
            /\ sync_pending' = [sync_pending EXCEPT ![n] = @ \ old]
            /\ UNCHANGED <<coreVars, rx_synchronizer, waiterVars, consensus_round,
                           workerVars, sync_waiting, netVars, envVars>>

(* Cleanup: nothing is older than a round below gc_depth. *)
ReceiveCleanup(n) ==
    \E m \in messages :
        LET old == {x \in sync_pending[n] : x[2] + GCDepth <= m.round}
        IN  /\ m.type = "cleanup" /\ m.to = n
            /\ messages' = messages \ {m}
            /\ sync_round' = [sync_round EXCEPT ![n] = m.round]
            /\ sync_pending' = [sync_pending EXCEPT ![n] = @ \ old]
            /\ sync_waiting' = [sync_waiting EXCEPT ![n] =
                  {[f EXCEPT !.cancelled = @ \/ f.batch \in {x[1] : x \in old}] : f \in @}]
            /\ UNCHANGED <<coreVars, rx_synchronizer, waiterVars, consensus_round,
                           workerVars, netVars, envVars>>

(* A future is ready: its batch is in the store, or it was cancelled.      *)
(* Removing the entry drops its cancel handler, so that a younger future   *)
(* for the same batch is cancelled too.                                    *)
SyncDone(n) ==
    \E f \in sync_waiting[n] :
        /\ \/ /\ f.batch \in store[n]
              /\ sync_pending' = [sync_pending EXCEPT ![n] = {x \in @ : x[1] # f.batch}]
              /\ sync_waiting' = [sync_waiting EXCEPT ![n] =
                    {[g EXCEPT !.cancelled = @ \/ g.batch = f.batch] : g \in @ \ {f}}]
           \/ /\ f.cancelled
              /\ sync_waiting' = [sync_waiting EXCEPT ![n] = @ \ {f}]
              /\ UNCHANGED sync_pending
        /\ UNCHANGED <<coreVars, rx_synchronizer, waiterVars, consensus_round, workerVars,
                       sync_round, messages, netVars, envVars>>

(* Faulty variant: the timer asks nobody. *)
NoRetry(n, nodes, expired) == FALSE

(* What is older than sync_retry_delay is asked of a few random workers. *)
Retry(n, nodes, expired) ==
    /\ expired # {}
    /\ requests' = requests \cup ({n} \X nodes \X expired)
    /\ UNCHANGED <<coreVars, rx_synchronizer, waiterVars, consensus_round, workerVars,
                   syncVars, messages, replies, reports, envVars>>

SyncTimer(n) ==
    \E nodes \in SUBSET (Node \ {n}), expired \in SUBSET SyncRequested(n) :
        /\ Cardinality(nodes) = RetryNodes
        /\ Retry(n, nodes, expired)

------------------------------------------------------------------------------
(* Helper, WorkerReceiverHandler, Processor, and the network *)

Answer(n, m, b) ==
    /\ <<n, m, b>> \in requests
    /\ requests' = requests \ {<<n, m, b>>}
    /\ replies' = IF b \in store[m] THEN replies \cup {<<n, b>>} ELSE replies
    /\ UNCHANGED <<coreVars, rx_synchronizer, waiterVars, consensus_round, workerVars,
                   syncVars, messages, reports, envVars>>

ReceiveBatch(n, b) ==
    /\ <<n, b>> \in replies
    /\ replies' = replies \ {<<n, b>>}
    /\ rx_processor' = [rx_processor EXCEPT ![n] = @ \cup {b}]
    /\ UNCHANGED <<coreVars, rx_synchronizer, waiterVars, consensus_round, store, syncVars,
                   messages, requests, reports, envVars>>

Process(n) ==
    \E b \in rx_processor[n] :
        /\ rx_processor' = [rx_processor EXCEPT ![n] = @ \ {b}]
        /\ store' = [store EXCEPT ![n] = @ \cup {b}]
        /\ reports' = IF n = name THEN reports \cup {b} ELSE reports
        /\ UNCHANGED <<coreVars, rx_synchronizer, waiterVars, consensus_round, syncVars,
                       messages, requests, replies, envVars>>

(* A Synchronize message arrives that this primary's HeaderWaiter did not  *)
(* send: the workers take them from whoever connects.                      *)
OtherCommand ==
    \E m \in Commands \ sent_commands :
        /\ sent_commands' = sent_commands \cup {m}
        /\ messages' = messages \cup {m}
        /\ UNCHANGED <<coreVars, rx_synchronizer, waiterVars, consensus_round, workerVars,
                       syncVars, netVars, received>>

Lose ==
    /\ Lossy
    /\ \/ \E m \in messages : messages' = messages \ {m} /\ UNCHANGED netVars
       \/ \E x \in requests : /\ requests' = requests \ {x}
                              /\ UNCHANGED <<messages, replies, reports>>
       \/ \E x \in replies : /\ replies' = replies \ {x}
                             /\ UNCHANGED <<messages, requests, reports>>
       \/ \E b \in reports : /\ reports' = reports \ {b}
                             /\ UNCHANGED <<messages, requests, replies>>
    /\ UNCHANGED <<coreVars, rx_synchronizer, waiterVars, consensus_round, workerVars,
                   syncVars, envVars>>

------------------------------------------------------------------------------
Init ==
    /\ payload = {} /\ processed = {} /\ rx_core = << >>
    /\ rx_synchronizer = << >>
    /\ pending = {} /\ waiting = {} /\ batch_requests = {}
    /\ consensus_round = 0
    /\ store = Holds
    /\ rx_processor = [n \in Node |-> {}]
    /\ sync_pending = [n \in Node |-> {}]
    /\ sync_waiting = [n \in Node |-> {}]
    /\ sync_round = [n \in Node |-> 0]
    /\ messages = {} /\ requests = {} /\ replies = {} /\ reports = {}
    /\ received = {} /\ sent_commands = {}

Next ==
    \/ ReceiveHeader \/ LoopbackHeader \/ PrimaryTold
    \/ SyncBatches \/ Return \/ Cancelled \/ WaiterTimer
    \/ Commit
    \/ \E n \in Node :
          \/ ReceiveSynchronize(n) \/ ReceiveCleanup(n) \/ SyncDone(n) \/ SyncTimer(n)
          \/ Process(n)
          \/ \E m \in Node, b \in Batch : Answer(n, m, b)
          \/ \E b \in Batch : ReceiveBatch(n, b)
    \/ OtherCommand \/ Lose

Spec == Init /\ [][Next]_vars

(* The workers' tasks run; the peers of a retry are drawn at random, so    *)
(* that each of them is asked in the end; a message that is sent again and *)
(* again is not always lost.                                               *)
Fairness ==
    /\ \A n \in Node : WF_vars(SyncDone(n))
    /\ \A n, m \in Node : \A b \in Holds[m] \ Holds[n] :
          /\ WF_vars(\E nodes \in SUBSET (Node \ {n}) :
                        /\ m \in nodes /\ Cardinality(nodes) = RetryNodes
                        /\ b \in SyncRequested(n) /\ Retry(n, nodes, {b}))
          /\ SF_vars(Answer(n, m, b))
          /\ SF_vars(ReceiveBatch(n, b))
          /\ WF_vars(Process(n))

FairSpec == Spec /\ Fairness

(* The tasks of the primary run as well, and messages reach it. *)
PrimaryFairness ==
    /\ WF_vars(LoopbackHeader) /\ WF_vars(SyncBatches)
    /\ WF_vars(Return) /\ WF_vars(Cancelled) /\ SF_vars(PrimaryTold)
    /\ \A n \in Node : SF_vars(ReceiveSynchronize(n))

FullyFairSpec == FairSpec /\ PrimaryFairness

------------------------------------------------------------------------------
(* Properties *)

(* Every batch a worker is asked for has one future while it is in         *)
(* Synchronizer::pending: a future left without its entry, or an entry     *)
(* without its future, would retry for ever or refuse a later request.     *)
EntryHasFuture ==
    \A n \in Node :
        /\ \A x, y \in sync_pending[n] : x[1] = y[1] => x = y
        /\ SyncRequested(n) = {f.batch : f \in {g \in sync_waiting[n] : ~g.cancelled}}

(* "Ensure we sync only once per header", and ask once for every batch:    *)
(* the entries of batch_requests are those of headers that still wait, so  *)
(* that a batch nobody waits for any more can be requested again.          *)
RequestsAreWaitedFor ==
    \A b \in Requested : \E h \in pending : b \in header[h].payload

(* What a worker was told to synchronize it fetches from whoever holds it, *)
(* or stops to want it; its timer asks the other workers until then.       *)
BatchFetched ==
    \A n \in Node, b \in Batch :
        b \in SyncRequested(n) ~> b \notin SyncRequested(n)

(* A header suspended for its payload is resumed: "synchronize with other  *)
(* nodes (through our workers), and re-schedule processing of the header   *)
(* for when we will have its complete payload".                            *)
(* It does not hold; README.md, section 3, says where.                      *)
PayloadResumes == \A h \in Header : h \in pending ~> h \notin pending
==============================================================================
