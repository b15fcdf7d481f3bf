------------------------------- MODULE Worker -------------------------------
(***************************************************************************)
(* How the workers spread client transactions: BatchMaker, QuorumWaiter    *)
(* and Processor of every worker, and the primary that is told of the      *)
(* batches.  Every authority runs one worker.                              *)
(*                                                                         *)
(* A batch is the worker that sealed it and its transactions; it stands    *)
(* for its digest too.  Batches travel over ReliableSender, of which only  *)
(* what AtLeastOnce promises is used; the reports to the primary travel    *)
(* over SimpleSender and may be lost.                                      *)
(***************************************************************************)
EXTENDS Committee, Sequences

CONSTANTS
    BatchSize,    \* batch_size, in transactions
    Clients,      \* the workers that have clients
    Silent,       \* workers that never answer
    MaxTransactions \* bound: transactions each worker of Clients receives

ASSUME WorkerAssumption ==
    /\ BatchSize \in Nat \ {0}
    /\ Clients \subseteq Authority \ Silent
    /\ MaxTransactions \in Nat

VARIABLES
    transactions,  \* how many transactions each worker received
    current_batch, \* BatchMaker::current_batch
    sending,       \* <<batch, worker>>: broadcast and not received yet
    acked,         \* <<batch, worker>>: CancelHandlers that resolved
    rx_message,    \* BatchMaker -> QuorumWaiter; it waits for the first one
    counted,       \* workers whose handler QuorumWaiter saw, for that batch
    rx_own,        \* QuorumWaiter -> Processor of our own batches
    rx_others,     \* network -> Processor of the batches of others
    store,         \* batches in the store of each worker
    to_primary,    \* <<"our" or "others", batch>> on the way to the primary
    our_digests,   \* own batches the primary passes to its Proposer
    payload        \* batches of others in the primary's store

makerVars == <<transactions, current_batch>>
networkVars == <<sending, acked>>
quorumVars == <<rx_message, counted>>
primaryVars == <<our_digests, payload>>
vars == <<makerVars, networkVars, quorumVars, rx_own, rx_others, store,
          to_primary, primaryVars>>

Others(n) == Authority \ {n}

------------------------------------------------------------------------------
(* BatchMaker *)

(* seal: broadcast the batch of the transactions txs and pass it on to the *)
(* QuorumWaiter with the handlers of the broadcast.                        *)
Seal(n, txs) ==
    LET batch == <<n, txs>>
    IN  /\ current_batch' = [current_batch EXCEPT ![n] = << >>]
        /\ sending' = sending \cup ({batch} \X Others(n))
        /\ rx_message' = [rx_message EXCEPT ![n] = Append(@, batch)]

ReceiveTransaction(n) ==
    LET txs == Append(current_batch[n], transactions[n] + 1)
    IN  /\ n \in Clients
        /\ transactions[n] < MaxTransactions
        /\ transactions' = [transactions EXCEPT ![n] = @ + 1]
        /\ IF Len(txs) >= BatchSize
           THEN Seal(n, txs)
           ELSE /\ current_batch' = [current_batch EXCEPT ![n] = txs]
                /\ UNCHANGED <<sending, rx_message>>
        /\ UNCHANGED <<acked, counted, rx_own, rx_others, store, to_primary,
                       primaryVars>>

(* Faulty variant: the timer seals full batches only. *)
TimerNeedsFullBatch(n) ==
    /\ Len(current_batch[n]) >= BatchSize
    /\ Seal(n, current_batch[n])
    /\ UNCHANGED <<transactions, acked, counted, rx_own, rx_others, store,
                   to_primary, primaryVars>>

BatchTimer(n) ==
    /\ current_batch[n] # << >>
    /\ Seal(n, current_batch[n])
    /\ UNCHANGED <<transactions, acked, counted, rx_own, rx_others, store,
                   to_primary, primaryVars>>

------------------------------------------------------------------------------
(* The network and WorkerReceiverHandler *)

(* Worker m acknowledges the batch and passes it on to its Processor. *)
ReceiveBatch(m) ==
    \E b \in {x[1] : x \in {s \in sending : s[2] = m}} :
        /\ m \notin Silent
        /\ sending' = sending \ {<<b, m>>}
        /\ acked' = acked \cup {<<b, m>>}
        /\ rx_others' = [rx_others EXCEPT ![m] = @ \cup {b}]
        /\ UNCHANGED <<makerVars, quorumVars, rx_own, store, to_primary, primaryVars>>

(* A message whose handler was dropped may never be sent again. *)
CancelSend ==
    \E x \in sending :
        /\ \A i \in DOMAIN rx_message[x[1][1]] : rx_message[x[1][1]][i] # x[1]
        /\ sending' = sending \ {x}
        /\ UNCHANGED <<makerVars, acked, quorumVars, rx_own, rx_others, store,
                       to_primary, primaryVars>>

------------------------------------------------------------------------------
(* QuorumWaiter *)

(* Faulty variant: it goes on with 2f of the stake instead of 2f+1. *)
EnoughWithTwoThirds(n, c) == StakeOf({n} \cup c) >= TwoThirds

(* total_stake starts at our own stake. *)
Enough(n, c) == StakeOf({n} \cup c) >= QuorumThreshold

(* wait_for_quorum yields the handler of worker m.  When the stake is      *)
(* enough the remaining handlers are dropped with wait_for_quorum.         *)
CountAck(n, m) ==
    /\ rx_message[n] # << >>
    /\ m \notin counted[n]
    /\ <<Head(rx_message[n]), m>> \in acked
    /\ IF Enough(n, counted[n] \cup {m})
       THEN /\ rx_own' = [rx_own EXCEPT ![n] = Append(@, Head(rx_message[n]))]
            /\ rx_message' = [rx_message EXCEPT ![n] = Tail(@)]
            /\ counted' = [counted EXCEPT ![n] = {}]
       ELSE /\ counted' = [counted EXCEPT ![n] = @ \cup {m}]
            /\ UNCHANGED <<rx_own, rx_message>>
    /\ UNCHANGED <<makerVars, networkVars, rx_others, store, to_primary, primaryVars>>

------------------------------------------------------------------------------
(* Processor and PrimaryConnector *)

ProcessOwn(n) ==
    /\ rx_own[n] # << >>
    /\ rx_own' = [rx_own EXCEPT ![n] = Tail(@)]
    /\ store' = [store EXCEPT ![n] = @ \cup {Head(rx_own[n])}]
    /\ to_primary' = [to_primary EXCEPT ![n] = @ \cup {<<"our", Head(rx_own[n])>>}]
    /\ UNCHANGED <<makerVars, networkVars, quorumVars, rx_others, primaryVars>>

(* Faulty variant: the digest is reported before the batch is stored. *)
ReportedFirst(n) ==
    \E b \in rx_others[n] :
        /\ to_primary' = [to_primary EXCEPT ![n] = @ \cup {<<"others", b>>}]
        /\ \/ rx_others' = [rx_others EXCEPT ![n] = @ \ {b}]
              /\ store' = [store EXCEPT ![n] = @ \cup {b}]
           \/ UNCHANGED <<rx_others, store>>
        /\ UNCHANGED <<makerVars, networkVars, quorumVars, rx_own, primaryVars>>

ProcessOthers(n) ==
    \E b \in rx_others[n] :
        /\ rx_others' = [rx_others EXCEPT ![n] = @ \ {b}]
        /\ store' = [store EXCEPT ![n] = @ \cup {b}]
        /\ to_primary' = [to_primary EXCEPT ![n] = @ \cup {<<"others", b>>}]
        /\ UNCHANGED <<makerVars, networkVars, quorumVars, rx_own, primaryVars>>

LoseReport(n) ==
    \E x \in to_primary[n] :
        /\ to_primary' = [to_primary EXCEPT ![n] = @ \ {x}]
        /\ UNCHANGED <<makerVars, networkVars, quorumVars, rx_own, rx_others,
                       store, primaryVars>>

(* WorkerReceiverHandler of the primary, and PayloadReceiver. *)
PrimaryTold(n) ==
    \E x \in to_primary[n] :
        /\ to_primary' = [to_primary EXCEPT ![n] = @ \ {x}]
        /\ IF x[1] = "our"
           THEN /\ our_digests' = [our_digests EXCEPT ![n] = @ \cup {x[2]}]
                /\ UNCHANGED payload
           ELSE /\ payload' = [payload EXCEPT ![n] = @ \cup {x[2]}]
                /\ UNCHANGED our_digests
        /\ UNCHANGED <<makerVars, networkVars, quorumVars, rx_own, rx_others, store>>

------------------------------------------------------------------------------
Init ==
    /\ transactions = [n \in Authority |-> 0]
    /\ current_batch = [n \in Authority |-> << >>]
    /\ sending = {} /\ acked = {}
    /\ rx_message = [n \in Authority |-> << >>]
    /\ counted = [n \in Authority |-> {}]
    /\ rx_own = [n \in Authority |-> << >>]
    /\ rx_others = [n \in Authority |-> {}]
    /\ store = [n \in Authority |-> {}]
    /\ to_primary = [n \in Authority |-> {}]
    /\ our_digests = [n \in Authority |-> {}]
    /\ payload = [n \in Authority |-> {}]

Next ==
    \/ \E n \in Authority :
          \/ ReceiveTransaction(n) \/ BatchTimer(n)
          \/ ReceiveBatch(n)
          \/ \E m \in Others(n) : CountAck(n, m)
          \/ ProcessOwn(n) \/ ProcessOthers(n)
          \/ LoseReport(n) \/ PrimaryTold(n)
    \/ CancelSend

Spec == Init /\ [][Next]_vars

(* The tasks run, and what ReliableSender still holds is received. *)
Fairness ==
    \A n \in Authority :
        /\ WF_vars(BatchTimer(n)) /\ WF_vars(ReceiveBatch(n))
        /\ WF_vars(\E m \in Others(n) : CountAck(n, m))
        /\ WF_vars(ProcessOwn(n))

FairSpec == Spec /\ Fairness

------------------------------------------------------------------------------
(* Properties *)

Received(m) == rx_others[m] \cup store[m]

Batches(n) == {x[2] : x \in to_primary[n]} \cup our_digests[n] \cup payload[n]

(* "Wait for the first 2f nodes to send back an Ack.  Then we consider the *)
(* batch delivered and we send its digest to the primary": a batch the     *)
(* primary may put into a header is held by workers with a quorum of the   *)
(* stake, although those that did not answer are no longer sent it.        *)
ReportedIsAvailable ==
    \A n \in Authority : \A b \in Batches(n) :
        b[1] = n => IsQuorum({m \in Authority : b \in Received(m)})

(* The primary votes for a header once its payload is in the primary's     *)
(* store: its worker then has the batches, and can serve them to others.   *)
PayloadIsStored == \A n \in Authority : Batches(n) \subseteq store[n]

(* A transaction that a worker accepted gets into a batch that its worker  *)
(* stores once a quorum holds it: the batch delay passes, a quorum         *)
(* answers, and no batch waits for ever behind another in the QuorumWaiter. *)
(* The report to the primary that follows is sent once and may be lost.    *)
TransactionsBatched ==
    \A n \in Clients, t \in 1..MaxTransactions :
        transactions[n] >= t
            ~> \E b \in store[n] : b[1] = n /\ \E i \in DOMAIN b[2] : b[2][i] = t
==============================================================================
