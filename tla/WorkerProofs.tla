---------------------------- MODULE WorkerProofs ----------------------------
(***************************************************************************)
(* A batch that the primary is told of is stored by its worker, and one of *)
(* our own is held by workers with a quorum of the stake: proofs that the  *)
(* tasks of Worker keep this for every committee, whoever stays silent and *)
(* however many reports are lost.                                          *)
(*                                                                         *)
(* WorkerInv follows a batch along its path.  What is broadcast or waits   *)
(* for its quorum was sealed here; who acknowledged it has received it;    *)
(* whom the QuorumWaiter counted acknowledged the batch it waits for; and  *)
(* what it let through is held by a quorum, counting the worker itself     *)
(* (whose Processor has yet to store it).                                  *)
(***************************************************************************)
EXTENDS Worker, BasicProofs, SequenceTheorems

Batch == Authority \X Seq(Nat)

TypeInv ==
    /\ transactions \in [Authority -> Nat]
    /\ current_batch \in [Authority -> Seq(Nat)]
    /\ sending \in SUBSET (Batch \X Authority)
    /\ acked \in SUBSET (Batch \X Authority)
    /\ rx_message \in [Authority -> Seq(Batch)]
    /\ counted \in [Authority -> SUBSET Authority]
    /\ rx_own \in [Authority -> Seq(Batch)]
    /\ rx_others \in [Authority -> SUBSET Batch]
    /\ store \in [Authority -> SUBSET Batch]
    /\ to_primary \in [Authority -> SUBSET ({"our", "others"} \X Batch)]
    /\ our_digests \in [Authority -> SUBSET Batch]
    /\ payload \in [Authority -> SUBSET Batch]

(* The workers that received b: its Processor stored it or will. *)
Holders(b) == {m \in Authority : b \in Received(m)}

SentToOthers == \A x \in sending : x[1][1] # x[2]

AckedReceived == \A x \in acked : x[1] \in Received(x[2])

WaitingIsOurs ==
    \A n \in Authority : \A i \in DOMAIN rx_message[n] : rx_message[n][i][1] = n

CountedAcked ==
    \A n \in Authority : \A m \in counted[n] :
        rx_message[n] # << >> /\ <<Head(rx_message[n]), m>> \in acked

OwnIsHeld ==
    \A n \in Authority : \A i \in DOMAIN rx_own[n] :
        IsQuorum({n} \cup Holders(rx_own[n][i]))

OthersAreNotOurs == \A n \in Authority : \A b \in rx_others[n] : b[1] # n

StoreIsHeld ==
    \A n \in Authority : \A b \in store[n] : b[1] = n => IsQuorum(Holders(b))

WorkerInv ==
    /\ TypeInv
    /\ SentToOthers
    /\ AckedReceived
    /\ WaitingIsOurs
    /\ CountedAcked
    /\ OwnIsHeld
    /\ OthersAreNotOurs
    /\ StoreIsHeld
    /\ PayloadIsStored

------------------------------------------------------------------------------
(* Types *)

LEMMA SealType ==
    ASSUME TypeInv, NEW n \in Authority, NEW txs \in Seq(Nat), Seal(n, txs)
    PROVE  /\ current_batch' \in [Authority -> Seq(Nat)]
           /\ sending' \in SUBSET (Batch \X Authority)
           /\ rx_message' \in [Authority -> Seq(Batch)]
<1>1. <<n, txs>> \in Batch
  BY DEF Batch
<1>2. Append(rx_message[n], <<n, txs>>) \in Seq(Batch)
  BY <1>1 DEF TypeInv
<1>3. << >> \in Seq(Nat)
  OBVIOUS
<1>4. sending' \in SUBSET (Batch \X Authority)
  BY <1>1, Zenon DEF TypeInv, Seal, Others
<1> QED
  BY <1>2, <1>3, <1>4 DEF TypeInv, Seal

LEMMA TypeStep ==
    ASSUME TypeInv, [Next]_vars
    PROVE  TypeInv'
<1>1. ASSUME NEW n \in Authority, ReceiveTransaction(n)
      PROVE  TypeInv'
  <2> DEFINE txs == Append(current_batch[n], transactions[n] + 1)
  <2>1. txs \in Seq(Nat)
    BY DEF TypeInv
  <2>2. transactions' \in [Authority -> Nat]
    BY <1>1 DEF ReceiveTransaction, TypeInv
  <2>3. CASE Seal(n, txs)
    <3> HIDE DEF txs
    <3> QED
      BY <1>1, <2>1, <2>2, <2>3, SealType
         DEF ReceiveTransaction, TypeInv, primaryVars
  <2>4. CASE /\ current_batch' = [current_batch EXCEPT ![n] = txs]
             /\ UNCHANGED <<sending, rx_message>>
    <3> HIDE DEF txs
    <3> QED
      BY <1>1, <2>1, <2>2, <2>4 DEF ReceiveTransaction, TypeInv, primaryVars
  <2> QED
    BY <1>1, <2>3, <2>4 DEF ReceiveTransaction
<1>2. ASSUME NEW n \in Authority, BatchTimer(n)
      PROVE  TypeInv'
  <2>1. current_batch[n] \in Seq(Nat)
    BY DEF TypeInv
  <2> QED
    BY <1>2, <2>1, SealType DEF BatchTimer, TypeInv, primaryVars
<1>3. ASSUME NEW m \in Authority, ReceiveBatch(m)
      PROVE  TypeInv'
  <2>1. PICK b \in {x[1] : x \in {s \in sending : s[2] = m}} :
           /\ sending' = sending \ {<<b, m>>}
           /\ acked' = acked \cup {<<b, m>>}
           /\ rx_others' = [rx_others EXCEPT ![m] = @ \cup {b}]
           /\ UNCHANGED <<makerVars, quorumVars, rx_own, store, to_primary,
                          primaryVars>>
    BY <1>3, Zenon DEF ReceiveBatch
  <2>2. b \in Batch
    BY DEF TypeInv
  <2> QED
    BY <2>1, <2>2 DEF TypeInv, makerVars, quorumVars, primaryVars
<1>4. ASSUME NEW n \in Authority, NEW m \in Others(n), CountAck(n, m)
      PROVE  TypeInv'
  <2>1. m \in Authority
    BY DEF Others
  <2>2. /\ Head(rx_message[n]) \in Batch
        /\ Tail(rx_message[n]) \in Seq(Batch)
        /\ Append(rx_own[n], Head(rx_message[n])) \in Seq(Batch)
    BY <1>4 DEF CountAck, TypeInv
  <2>3. /\ rx_own' \in [Authority -> Seq(Batch)]
        /\ rx_message' \in [Authority -> Seq(Batch)]
        /\ counted' \in [Authority -> SUBSET Authority]
    <3>1. CASE Enough(n, counted[n] \cup {m})
      <4>1. /\ rx_own' = [rx_own EXCEPT ![n] = Append(@, Head(rx_message[n]))]
            /\ rx_message' = [rx_message EXCEPT ![n] = Tail(@)]
            /\ counted' = [counted EXCEPT ![n] = {}]
        BY <1>4, <3>1, Zenon DEF CountAck
      <4> QED
        BY <2>2, <4>1 DEF TypeInv
    <3>2. CASE ~Enough(n, counted[n] \cup {m})
      <4>1. /\ counted' = [counted EXCEPT ![n] = @ \cup {m}]
            /\ UNCHANGED <<rx_own, rx_message>>
        BY <1>4, <3>2, Zenon DEF CountAck
      <4> QED
        BY <2>1, <4>1 DEF TypeInv
    <3> QED
      BY <3>1, <3>2
  <2> QED
    BY <1>4, <2>3
       DEF CountAck, TypeInv, makerVars, networkVars, primaryVars
<1>5. ASSUME NEW n \in Authority, ProcessOwn(n)
      PROVE  TypeInv'
  <2>1. Head(rx_own[n]) \in Batch /\ Tail(rx_own[n]) \in Seq(Batch)
    BY <1>5 DEF ProcessOwn, TypeInv
  <2>2. rx_own' \in [Authority -> Seq(Batch)]
    BY <1>5, <2>1 DEF ProcessOwn, TypeInv
  <2>3. store' \in [Authority -> SUBSET Batch]
    BY <1>5, <2>1 DEF ProcessOwn, TypeInv
  <2>4. to_primary' \in [Authority -> SUBSET ({"our", "others"} \X Batch)]
    BY <1>5, <2>1 DEF ProcessOwn, TypeInv
  <2> QED
    BY <1>5, <2>2, <2>3, <2>4
       DEF ProcessOwn, TypeInv, makerVars, networkVars, quorumVars, primaryVars
<1>6. ASSUME NEW n \in Authority, ProcessOthers(n)
      PROVE  TypeInv'
  <2>1. PICK b \in rx_others[n] :
          /\ rx_others' = [rx_others EXCEPT ![n] = @ \ {b}]
          /\ store' = [store EXCEPT ![n] = @ \cup {b}]
          /\ to_primary' = [to_primary EXCEPT ![n] = @ \cup {<<"others", b>>}]
    BY <1>6 DEF ProcessOthers
  <2>2. b \in Batch
    BY DEF TypeInv
  <2>3. /\ rx_others' \in [Authority -> SUBSET Batch]
        /\ store' \in [Authority -> SUBSET Batch]
    BY <2>1, <2>2 DEF TypeInv
  <2>4. to_primary' \in [Authority -> SUBSET ({"our", "others"} \X Batch)]
    BY <2>1, <2>2 DEF TypeInv
  <2> QED
    BY <1>6, <2>3, <2>4
       DEF ProcessOthers, TypeInv, makerVars, networkVars, quorumVars, primaryVars
<1>7. ASSUME NEW n \in Authority, LoseReport(n)
      PROVE  TypeInv'
  BY <1>7
     DEF LoseReport, TypeInv, makerVars, networkVars, quorumVars, primaryVars
<1>8. ASSUME NEW n \in Authority, PrimaryTold(n)
      PROVE  TypeInv'
  <2>1. PICK x \in to_primary[n] :
           /\ to_primary' = [to_primary EXCEPT ![n] = @ \ {x}]
           /\ \/ /\ our_digests' = [our_digests EXCEPT ![n] = @ \cup {x[2]}]
                 /\ UNCHANGED payload
              \/ /\ payload' = [payload EXCEPT ![n] = @ \cup {x[2]}]
                 /\ UNCHANGED our_digests
           /\ UNCHANGED <<makerVars, networkVars, quorumVars, rx_own, rx_others,
                          store>>
    BY <1>8, Zenon DEF PrimaryTold
  <2>2. x[2] \in Batch
    BY DEF TypeInv
  <2>3. /\ to_primary' \in [Authority -> SUBSET ({"our", "others"} \X Batch)]
    BY <2>1 DEF TypeInv
  <2>4. /\ our_digests' \in [Authority -> SUBSET Batch]
        /\ payload' \in [Authority -> SUBSET Batch]
    <3>1. PICK d \in Batch : d = x[2]
      BY <2>2, Zenon
    <3>2. \/ /\ our_digests' = [our_digests EXCEPT ![n] = @ \cup {d}]
             /\ payload' = payload
          \/ /\ payload' = [payload EXCEPT ![n] = @ \cup {d}]
             /\ our_digests' = our_digests
      BY <2>1, <3>1, Zenon
    <3>3. /\ our_digests \in [Authority -> SUBSET Batch]
          /\ payload \in [Authority -> SUBSET Batch]
      BY DEF TypeInv
    <3>4. CASE /\ our_digests' = [our_digests EXCEPT ![n] = @ \cup {d}]
               /\ payload' = payload
      BY <3>3, <3>4
    <3>5. CASE /\ payload' = [payload EXCEPT ![n] = @ \cup {d}]
               /\ our_digests' = our_digests
      BY <3>3, <3>5
    <3> QED
      BY <3>2, <3>4, <3>5
  <2> QED
    BY <2>1, <2>3, <2>4 DEF TypeInv, makerVars, networkVars, quorumVars
<1>9. ASSUME CancelSend
      PROVE  TypeInv'
  BY <1>9 DEF CancelSend, TypeInv, makerVars, quorumVars, primaryVars
<1>10. ASSUME UNCHANGED vars
       PROVE  TypeInv'
  BY <1>10 DEF vars, TypeInv, makerVars, networkVars, quorumVars, primaryVars
<1> QED
  BY <1>1, <1>2, <1>3, <1>4, <1>5, <1>6, <1>7, <1>8, <1>9, <1>10 DEF Next

------------------------------------------------------------------------------
(* What a worker received stays with it: its Processor moves a batch from  *)
(* its channel into the store.                                             *)

LEMMA ReceivedGrows ==
    ASSUME TypeInv, [Next]_vars, NEW b
    PROVE  /\ \A m \in Authority : Received(m) \subseteq Received(m)'
           /\ Holders(b) \subseteq Holders(b)'
<1> SUFFICES \A m \in Authority : Received(m) \subseteq Received(m)'
  BY Zenon DEF Holders
<1>1. ASSUME NEW n \in Authority, ProcessOwn(n)
      PROVE  \A m \in Authority : Received(m) \subseteq Received(m)'
  BY <1>1 DEF ProcessOwn, TypeInv, Received
<1>2. ASSUME NEW n \in Authority, ProcessOthers(n)
      PROVE  \A m \in Authority : Received(m) \subseteq Received(m)'
  BY <1>2 DEF ProcessOthers, TypeInv, Received
<1>3. ASSUME NEW n \in Authority, ReceiveBatch(n)
      PROVE  \A m \in Authority : Received(m) \subseteq Received(m)'
  BY <1>3 DEF ReceiveBatch, TypeInv, Received
<1>4. ASSUME UNCHANGED <<rx_others, store>>
      PROVE  \A m \in Authority : Received(m) \subseteq Received(m)'
  BY <1>4 DEF Received
<1>5. ASSUME NEW n \in Authority,
             \/ ReceiveTransaction(n) \/ BatchTimer(n)
             \/ \E m \in Others(n) : CountAck(n, m)
             \/ LoseReport(n) \/ PrimaryTold(n)
      PROVE  UNCHANGED <<rx_others, store>>
  BY <1>5 DEF ReceiveTransaction, BatchTimer, CountAck, LoseReport, PrimaryTold
<1>6. ASSUME CancelSend \/ UNCHANGED vars
      PROVE  UNCHANGED <<rx_others, store>>
  BY <1>6 DEF CancelSend, vars
<1> QED
  BY <1>1, <1>2, <1>3, <1>4, <1>5, <1>6 DEF Next

LEMMA HoldersQuorumGrows ==
    ASSUME TypeInv, [Next]_vars, NEW b, NEW S \in SUBSET Authority
    PROVE  IsQuorum(S \cup Holders(b)) => IsQuorum(S \cup Holders(b)')
<1> DEFINE H == S \cup Holders(b)
           K == S \cup Holders(b)'
<1>1. H \subseteq K /\ K \subseteq Authority
  BY ReceivedGrows, Zenon DEF Holders
<1>2. StakeOf(H) <= StakeOf(K)
  BY <1>1, StakeMonotone
<1>3. StakeOf(H) \in Nat /\ StakeOf(K) \in Nat /\ TotalStake \in Nat
  BY <1>1, StakeType DEF TotalStake
<1> HIDE DEF H, K
<1>4. IsQuorum(H) => IsQuorum(K)
  BY <1>2, <1>3 DEF IsQuorum, QuorumThreshold
<1> QED
  BY <1>4 DEF H, K

------------------------------------------------------------------------------
(* The invariant, action by action.  Held states the parts that only grow  *)
(* with Received; Queues those about the two channels of our own batches.  *)

(* What an action does to the queues of our own batches. *)
LEMMA SealStep ==
    ASSUME WorkerInv, NEW n \in Authority, NEW txs \in Seq(Nat), Seal(n, txs),
           UNCHANGED <<acked, counted>>
    PROVE  SentToOthers' /\ WaitingIsOurs' /\ CountedAcked'
<1> DEFINE b == <<n, txs>>
<1>1. /\ b \in Batch
      /\ b[1] = n
  BY DEF Batch
<1>2. /\ sending' = sending \cup ({b} \X Others(n))
      /\ rx_message' = [rx_message EXCEPT ![n] = Append(@, b)]
  BY DEF Seal
<1> HIDE DEF b
<1>3. SentToOthers'
  <2> SUFFICES ASSUME NEW x \in sending'
               PROVE  x[1][1] # x[2]
    BY DEF SentToOthers
  <2>1. CASE x \in sending
    BY <2>1 DEF WorkerInv, SentToOthers
  <2>2. CASE x \in {b} \X Others(n)
    <3>1. x[1] = b /\ x[2] # n
      BY <2>2 DEF Others
    <3> QED
      BY <1>1, <3>1, Zenon
  <2> QED
    BY <1>2, <2>1, <2>2
<1>4. rx_message \in [Authority -> Seq(Batch)]
  BY DEF WorkerInv, TypeInv
<1>5. WaitingIsOurs'
  <2> SUFFICES ASSUME NEW k \in Authority, NEW i \in DOMAIN rx_message'[k]
               PROVE  rx_message'[k][i][1] = k
    BY DEF WaitingIsOurs
  <2>1. CASE i \in DOMAIN rx_message[k]
    <3>1. rx_message'[k][i] = rx_message[k][i]
      BY <1>1, <1>2, <1>4, <2>1
    <3>2. rx_message[k][i][1] = k
      BY <2>1 DEF WorkerInv, WaitingIsOurs
    <3> QED
      BY <3>1, <3>2, Zenon
  <2>2. CASE i \notin DOMAIN rx_message[k]
    <3>1. k = n /\ rx_message'[k][i] = b
      BY <1>1, <1>2, <1>4, <2>2
    <3> QED
      BY <1>1, <3>1, Zenon
  <2> QED
    BY <2>1, <2>2
<1>6. CountedAcked'
  <2> SUFFICES ASSUME NEW k \in Authority, NEW m \in counted[k]
               PROVE  /\ rx_message'[k] # << >>
                      /\ <<Head(rx_message'[k]), m>> \in acked
    BY DEF CountedAcked
  <2>1. rx_message[k] # << >> /\ <<Head(rx_message[k]), m>> \in acked
    BY DEF WorkerInv, CountedAcked
  <2>2. rx_message'[k] # << >> /\ Head(rx_message'[k]) = Head(rx_message[k])
    BY <1>1, <1>2, <1>4, <2>1
  <2> QED
    BY <2>1, <2>2, Zenon
<1> QED
  BY <1>3, <1>5, <1>6

(* The parts about received batches, for a step that receives nothing,     *)
(* stores nothing and puts nothing into the channels.                      *)
LEMMA NothingReceived ==
    ASSUME WorkerInv, UNCHANGED <<acked, rx_own, rx_others, store>>
    PROVE  AckedReceived' /\ OwnIsHeld' /\ OthersAreNotOurs' /\ StoreIsHeld'
<1>1. \A m \in Authority : Received(m)' = Received(m)
  BY DEF Received
<1>2. \A b : Holders(b)' = Holders(b)
  BY <1>1, Zenon DEF Holders
<1>3. AckedReceived'
  BY DEF WorkerInv, AckedReceived, Received
<1>4. OwnIsHeld'
  BY <1>2, Zenon DEF WorkerInv, OwnIsHeld
<1>5. OthersAreNotOurs'
  BY DEF WorkerInv, OthersAreNotOurs
<1>6. StoreIsHeld'
  BY <1>2, Zenon DEF WorkerInv, StoreIsHeld
<1> QED
  BY <1>3, <1>4, <1>5, <1>6

LEMMA QueuesUnchanged ==
    ASSUME WorkerInv, UNCHANGED <<rx_message, counted>>,
           sending' \subseteq sending, acked \subseteq acked'
    PROVE  SentToOthers' /\ WaitingIsOurs' /\ CountedAcked'
BY DEF WorkerInv, SentToOthers, WaitingIsOurs, CountedAcked

LEMMA ReportsUnchanged ==
    ASSUME WorkerInv, UNCHANGED <<store, to_primary, primaryVars>>
    PROVE  PayloadIsStored'
BY DEF WorkerInv, PayloadIsStored, Batches, primaryVars

(* BatchMaker *)

LEMMA SealKeeps ==
    ASSUME WorkerInv, TypeInv', NEW n \in Authority, NEW txs \in Seq(Nat),
           Seal(n, txs),
           UNCHANGED <<acked, counted, rx_own, rx_others, store, to_primary,
                       primaryVars>>
    PROVE  WorkerInv'
<1>1. SentToOthers' /\ WaitingIsOurs' /\ CountedAcked'
  BY SealStep
<1>2. AckedReceived' /\ OwnIsHeld' /\ OthersAreNotOurs' /\ StoreIsHeld'
  BY NothingReceived
<1>3. PayloadIsStored'
  BY ReportsUnchanged
<1> QED
  BY <1>1, <1>2, <1>3 DEF WorkerInv

LEMMA ReceiveTransactionKeeps ==
    ASSUME WorkerInv, TypeInv', NEW n \in Authority, ReceiveTransaction(n)
    PROVE  WorkerInv'
<1> DEFINE txs == Append(current_batch[n], transactions[n] + 1)
<1>1. txs \in Seq(Nat)
  BY DEF WorkerInv, TypeInv
<1>2. UNCHANGED <<acked, counted, rx_own, rx_others, store, to_primary,
                  primaryVars>>
  BY DEF ReceiveTransaction
<1>3. Seal(n, txs) \/ UNCHANGED <<sending, rx_message>>
  BY DEF ReceiveTransaction
<1> HIDE DEF txs
<1>4. CASE Seal(n, txs)
  BY <1>1, <1>2, <1>4, SealKeeps
<1>5. CASE UNCHANGED <<sending, rx_message>>
  <2>1. SentToOthers' /\ WaitingIsOurs' /\ CountedAcked'
    BY <1>2, <1>5, QueuesUnchanged
  <2>2. AckedReceived' /\ OwnIsHeld' /\ OthersAreNotOurs' /\ StoreIsHeld'
    BY <1>2, NothingReceived
  <2>3. PayloadIsStored'
    BY <1>2, ReportsUnchanged
  <2> QED
    BY <2>1, <2>2, <2>3 DEF WorkerInv
<1> QED
  BY <1>3, <1>4, <1>5

LEMMA BatchTimerKeeps ==
    ASSUME WorkerInv, TypeInv', NEW n \in Authority, BatchTimer(n)
    PROVE  WorkerInv'
<1>1. current_batch[n] \in Seq(Nat)
  BY DEF WorkerInv, TypeInv
<1> QED
  BY <1>1, SealKeeps DEF BatchTimer

(* The network *)

LEMMA CancelSendKeeps ==
    ASSUME WorkerInv, TypeInv', CancelSend
    PROVE  WorkerInv'
<1>1. /\ sending' \subseteq sending
      /\ UNCHANGED <<acked, rx_message, counted, rx_own, rx_others, store,
                     to_primary, primaryVars>>
  BY DEF CancelSend, quorumVars
<1>2. SentToOthers' /\ WaitingIsOurs' /\ CountedAcked'
  BY <1>1, QueuesUnchanged
<1>3. AckedReceived' /\ OwnIsHeld' /\ OthersAreNotOurs' /\ StoreIsHeld'
  BY <1>1, NothingReceived
<1>4. PayloadIsStored'
  BY <1>1, ReportsUnchanged
<1> QED
  BY <1>2, <1>3, <1>4 DEF WorkerInv

LEMMA QuorumOfHoldersGrows ==
    ASSUME TypeInv, [Next]_vars, NEW b, IsQuorum(Holders(b))
    PROVE  IsQuorum(Holders(b)')
<1>1. IsQuorum({} \cup Holders(b)) => IsQuorum({} \cup Holders(b)')
  BY HoldersQuorumGrows
<1>2. {} \cup Holders(b) = Holders(b) /\ {} \cup Holders(b)' = Holders(b)'
  OBVIOUS
<1> QED
  BY <1>1, <1>2, Zenon

(* A worker acknowledges what it received, and it was sent by another. *)
LEMMA ReceiveBatchKeeps ==
    ASSUME WorkerInv, TypeInv', Next, NEW m \in Authority, ReceiveBatch(m)
    PROVE  WorkerInv'
<1>1. PICK b \in {x[1] : x \in {s \in sending : s[2] = m}} :
         /\ sending' = sending \ {<<b, m>>}
         /\ acked' = acked \cup {<<b, m>>}
         /\ rx_others' = [rx_others EXCEPT ![m] = @ \cup {b}]
         /\ UNCHANGED <<rx_message, counted, rx_own, store, to_primary,
                        primaryVars>>
  BY Zenon DEF ReceiveBatch, quorumVars
<1> USE DEF WorkerInv
<1>2. b[1] # m
  <2>1. PICK x \in sending : x[2] = m /\ b = x[1]
    OBVIOUS
  <2> QED
    BY <2>1, Zenon DEF SentToOthers
<1>3. rx_others \in [Authority -> SUBSET Batch]
  BY DEF TypeInv
<1>4. SentToOthers' /\ WaitingIsOurs' /\ CountedAcked'
  BY <1>1, QueuesUnchanged
<1>5. AckedReceived'
  <2> SUFFICES ASSUME NEW x \in acked'
               PROVE  x[1] \in Received(x[2])'
    BY DEF AckedReceived
  <2>1. CASE x \in acked
    <3>1. x[1] \in Received(x[2]) /\ x[2] \in Authority
      BY <2>1 DEF AckedReceived, TypeInv
    <3> QED
      BY <3>1, ReceivedGrows, Zenon
  <2>2. CASE x = <<b, m>>
    <3>1. b \in Received(m)'
      BY <1>1, <1>3 DEF Received
    <3> QED
      BY <2>2, <3>1
  <2> QED
    BY <1>1, <2>1, <2>2
<1>6. OwnIsHeld'
  BY <1>1, HoldersQuorumGrows, Zenon DEF OwnIsHeld
<1>7. OthersAreNotOurs'
  BY <1>1, <1>2, <1>3 DEF OthersAreNotOurs
<1>8. StoreIsHeld'
  <2> SUFFICES ASSUME NEW n \in Authority, NEW c \in store[n], c[1] = n
               PROVE  IsQuorum(Holders(c)')
    BY <1>1 DEF StoreIsHeld
  <2>1. IsQuorum(Holders(c))
    BY DEF StoreIsHeld
  <2> QED
    BY <2>1, QuorumOfHoldersGrows
<1>9. PayloadIsStored'
  BY <1>1, ReportsUnchanged
<1> QED
  BY <1>4, <1>5, <1>6, <1>7, <1>8, <1>9

(* QuorumWaiter: whom it counted holds the batch, and with the last answer *)
(* their stake and ours is a quorum.                                       *)
LEMMA CountAckKeeps ==
    ASSUME WorkerInv, TypeInv', NEW n \in Authority, NEW m \in Others(n),
           CountAck(n, m)
    PROVE  WorkerInv'
<1> USE DEF WorkerInv
<1> DEFINE b == Head(rx_message[n])
<1>1. /\ rx_message[n] # << >>
      /\ <<b, m>> \in acked
      /\ UNCHANGED <<sending, acked, rx_others, store, to_primary, primaryVars>>
      /\ m \in Authority
  BY DEF CountAck, networkVars, Others
<1>2. /\ rx_message \in [Authority -> Seq(Batch)]
      /\ rx_own \in [Authority -> Seq(Batch)]
      /\ counted \in [Authority -> SUBSET Authority]
      /\ b \in Batch
  BY <1>1 DEF TypeInv
<1>3. \A c : Holders(c)' = Holders(c)
  BY <1>1, Zenon DEF Holders, Received
<1>4. SentToOthers' /\ AckedReceived' /\ OthersAreNotOurs' /\ StoreIsHeld'
  <2>1. SentToOthers' /\ AckedReceived' /\ OthersAreNotOurs'
    BY <1>1 DEF SentToOthers, AckedReceived, OthersAreNotOurs, Received
  <2>2. StoreIsHeld'
    BY <1>1, <1>3, Zenon DEF StoreIsHeld
  <2> QED
    BY <2>1, <2>2
<1>5. PayloadIsStored'
  BY <1>1, ReportsUnchanged
<1>6. CASE Enough(n, counted[n] \cup {m})
  <2>1. /\ rx_own' = [rx_own EXCEPT ![n] = Append(@, b)]
        /\ rx_message' = [rx_message EXCEPT ![n] = Tail(@)]
        /\ counted' = [counted EXCEPT ![n] = {}]
    BY <1>6, Zenon DEF CountAck
  <2> HIDE DEF b
  <2>2. WaitingIsOurs'
    <3> SUFFICES ASSUME NEW k \in Authority, NEW i \in DOMAIN rx_message'[k]
                 PROVE  rx_message'[k][i][1] = k
      BY DEF WaitingIsOurs
    <3>1. PICK j \in DOMAIN rx_message[k] : rx_message'[k][i] = rx_message[k][j]
      <4>1. CASE k = n
        <5>1. /\ i + 1 \in DOMAIN rx_message[k]
              /\ rx_message'[k][i] = rx_message[k][i + 1]
          BY <1>1, <1>2, <2>1, <4>1
        <5> QED
          BY <5>1
      <4>2. CASE k # n
        BY <1>2, <2>1, <4>2
      <4> QED
        BY <4>1, <4>2
    <3>2. rx_message[k][j][1] = k
      BY DEF WaitingIsOurs
    <3> QED
      BY <3>1, <3>2, Zenon
  <2>3. CountedAcked'
    <3> SUFFICES ASSUME NEW k \in Authority, NEW c \in counted'[k]
                 PROVE  /\ rx_message'[k] # << >>
                        /\ <<Head(rx_message'[k]), c>> \in acked'
      BY DEF CountedAcked
    <3>1. k # n /\ c \in counted[k] /\ rx_message'[k] = rx_message[k]
      BY <1>2, <2>1
    <3> QED
      BY <1>1, <3>1 DEF CountedAcked
  <2>4. IsQuorum({n} \cup Holders(b))
    <3> DEFINE C == {n} \cup (counted[n] \cup {m})
               H == {n} \cup Holders(b)
    <3>1. \A c \in counted[n] \cup {m} : <<b, c>> \in acked /\ c \in Authority
      BY <1>1, <1>2 DEF CountedAcked, b
    <3>2. \A c \in counted[n] \cup {m} : c \in Holders(b)
      <4> SUFFICES ASSUME NEW c \in counted[n] \cup {m}
                   PROVE  b \in Received(c)
        BY <3>1 DEF Holders
      <4>1. <<b, c>>[1] \in Received(<<b, c>>[2])
        BY <3>1, Zenon DEF AckedReceived
      <4> QED
        BY <4>1
    <3>3. C \subseteq H /\ H \subseteq Authority
      BY <3>2 DEF Holders
    <3>4. StakeOf(C) <= StakeOf(H)
      BY <3>3, StakeMonotone
    <3>5. StakeOf(C) \in Nat /\ StakeOf(H) \in Nat /\ TotalStake \in Nat
      BY <3>3, StakeType DEF TotalStake
    <3>6. StakeOf(C) >= QuorumThreshold
      BY <1>6, Zenon DEF Enough
    <3> HIDE DEF C, H
    <3>7. StakeOf(H) >= QuorumThreshold
      BY <3>4, <3>5, <3>6 DEF QuorumThreshold
    <3> QED
      BY <3>7 DEF IsQuorum, H
  <2>5. OwnIsHeld'
    <3> SUFFICES ASSUME NEW k \in Authority, NEW i \in DOMAIN rx_own'[k]
                 PROVE  IsQuorum({k} \cup Holders(rx_own'[k][i]))
      BY <1>3, Zenon DEF OwnIsHeld
    <3>1. CASE i \in DOMAIN rx_own[k]
      <4>1. rx_own'[k][i] = rx_own[k][i]
        BY <1>2, <2>1, <3>1
      <4>2. IsQuorum({k} \cup Holders(rx_own[k][i]))
        BY <3>1 DEF OwnIsHeld
      <4> QED
        BY <4>1, <4>2, Zenon
    <3>2. CASE i \notin DOMAIN rx_own[k]
      <4>1. k = n /\ rx_own'[k][i] = b
        BY <1>2, <2>1, <3>2
      <4> QED
        BY <2>4, <4>1, Zenon
    <3> QED
      BY <3>1, <3>2
  <2> QED
    BY <1>4, <1>5, <2>2, <2>3, <2>5
<1>7. CASE ~Enough(n, counted[n] \cup {m})
  <2>1. /\ counted' = [counted EXCEPT ![n] = @ \cup {m}]
        /\ UNCHANGED <<rx_own, rx_message>>
    BY <1>7, Zenon DEF CountAck
  <2>2. WaitingIsOurs'
    BY <2>1 DEF WaitingIsOurs
  <2>3. CountedAcked'
    <3> SUFFICES ASSUME NEW k \in Authority, NEW c \in counted'[k]
                 PROVE  /\ rx_message[k] # << >>
                        /\ <<Head(rx_message[k]), c>> \in acked
      BY <1>1, <2>1 DEF CountedAcked
    <3>1. c \in counted[k] \/ (k = n /\ c = m)
      BY <1>2, <2>1
    <3> QED
      BY <1>1, <3>1 DEF CountedAcked
  <2>4. OwnIsHeld'
    BY <1>3, <2>1, Zenon DEF OwnIsHeld
  <2> QED
    BY <1>4, <1>5, <2>2, <2>3, <2>4
<1> QED
  BY <1>6, <1>7

(* Processor *)

(* Our own batch is stored: its worker is now one of its holders. *)
LEMMA ProcessOwnKeeps ==
    ASSUME WorkerInv, TypeInv', Next, NEW n \in Authority, ProcessOwn(n)
    PROVE  WorkerInv'
<1> USE DEF WorkerInv
<1> SUFFICES ASSUME NEW b, b = Head(rx_own[n])
             PROVE  WorkerInv'
  OBVIOUS
<1>1. /\ rx_own[n] # << >>
      /\ rx_own' = [rx_own EXCEPT ![n] = Tail(@)]
      /\ store' = [store EXCEPT ![n] = @ \cup {b}]
      /\ to_primary' = [to_primary EXCEPT ![n] = @ \cup {<<"our", b>>}]
      /\ UNCHANGED <<sending, acked, rx_message, counted, rx_others,
                     our_digests, payload>>
  BY DEF ProcessOwn, networkVars, quorumVars, primaryVars
<1>2. /\ rx_own \in [Authority -> Seq(Batch)]
      /\ store \in [Authority -> SUBSET Batch]
      /\ to_primary \in [Authority -> SUBSET ({"our", "others"} \X Batch)]
      /\ b = rx_own[n][1] /\ 1 \in DOMAIN rx_own[n]
  BY <1>1 DEF TypeInv
<1>3. SentToOthers' /\ WaitingIsOurs' /\ CountedAcked'
  BY <1>1, QueuesUnchanged
<1>4. AckedReceived'
  BY <1>1, ReceivedGrows, Zenon DEF AckedReceived, TypeInv
<1>5. OwnIsHeld'
  <2> SUFFICES ASSUME NEW k \in Authority, NEW i \in DOMAIN rx_own'[k]
               PROVE  \A c : c = rx_own'[k][i] => IsQuorum({k} \cup Holders(c)')
    BY Zenon DEF OwnIsHeld, Holders, Received
  <2>1. PICK j \in DOMAIN rx_own[k] : rx_own'[k][i] = rx_own[k][j]
    <3>1. CASE k = n
      <4>1. i + 1 \in DOMAIN rx_own[k] /\ rx_own'[k][i] = rx_own[k][i + 1]
        BY <1>1, <1>2, <3>1
      <4> QED
        BY <4>1
    <3>2. CASE k # n
      BY <1>1, <1>2, <3>2
    <3> QED
      BY <3>1, <3>2
  <2>2. TAKE c
  <2>3. HAVE c = rx_own'[k][i]
  <2>4. IsQuorum({k} \cup Holders(c))
    BY <2>1, <2>3, Zenon DEF OwnIsHeld
  <2> QED
    BY <2>4, HoldersQuorumGrows
<1>6. OthersAreNotOurs'
  BY <1>1 DEF OthersAreNotOurs
<1>7. IsQuorum(Holders(b)')
  <2>1. IsQuorum({n} \cup Holders(b))
    BY <1>2, Zenon DEF OwnIsHeld
  <2>2. IsQuorum({n} \cup Holders(b)')
    BY <2>1, HoldersQuorumGrows
  <2>3. n \in Holders(b)'
    BY <1>1, <1>2 DEF Holders, Received
  <2>4. {n} \cup Holders(b)' = Holders(b)'
    BY <2>3
  <2> QED
    BY <2>2, <2>4, Zenon
<1>8. StoreIsHeld'
  <2> SUFFICES ASSUME NEW k \in Authority, NEW c \in store'[k], c[1] = k
               PROVE  IsQuorum(Holders(c)')
    BY DEF StoreIsHeld
  <2>1. c = b \/ c \in store[k]
    BY <1>1, <1>2
  <2>2. CASE c \in store[k]
    <3>1. IsQuorum(Holders(c))
      BY <2>2 DEF StoreIsHeld
    <3> QED
      BY <3>1, QuorumOfHoldersGrows
  <2>3. CASE c = b
    BY <1>7, <2>3, Zenon
  <2> QED
    BY <2>1, <2>2, <2>3
<1>9. PayloadIsStored'
  <2> SUFFICES ASSUME NEW k \in Authority, NEW c \in Batches(k)'
               PROVE  c \in store'[k]
    BY DEF PayloadIsStored
  <2>1. c \in Batches(k) \/ (k = n /\ c = b)
    BY <1>1, <1>2 DEF Batches
  <2>2. c \in Batches(k) => c \in store[k]
    BY DEF PayloadIsStored
  <2> QED
    BY <1>1, <1>2, <2>1, <2>2
<1> QED
  BY <1>3, <1>4, <1>5, <1>6, <1>8, <1>9

(* The batch of another is stored before its digest is reported. *)
LEMMA ProcessOthersKeeps ==
    ASSUME WorkerInv, TypeInv', Next, NEW n \in Authority, ProcessOthers(n)
    PROVE  WorkerInv'
<1> USE DEF WorkerInv
<1>1. PICK b \in rx_others[n] :
         /\ rx_others' = [rx_others EXCEPT ![n] = @ \ {b}]
         /\ store' = [store EXCEPT ![n] = @ \cup {b}]
         /\ to_primary' = [to_primary EXCEPT ![n] = @ \cup {<<"others", b>>}]
         /\ UNCHANGED <<sending, acked, rx_message, counted, rx_own,
                        our_digests, payload>>
  BY Zenon DEF ProcessOthers, networkVars, quorumVars, primaryVars
<1>2. /\ rx_others \in [Authority -> SUBSET Batch]
      /\ store \in [Authority -> SUBSET Batch]
      /\ to_primary \in [Authority -> SUBSET ({"our", "others"} \X Batch)]
  BY DEF TypeInv
<1>3. SentToOthers' /\ WaitingIsOurs' /\ CountedAcked'
  BY <1>1, QueuesUnchanged
<1>4. AckedReceived'
  BY <1>1, ReceivedGrows, Zenon DEF AckedReceived, TypeInv
<1>5. OwnIsHeld'
  BY <1>1, HoldersQuorumGrows, Zenon DEF OwnIsHeld
<1>6. OthersAreNotOurs' /\ b[1] # n
  BY <1>1, <1>2 DEF OthersAreNotOurs
<1>7. StoreIsHeld'
  <2> SUFFICES ASSUME NEW k \in Authority, NEW c \in store'[k], c[1] = k
               PROVE  IsQuorum(Holders(c)')
    BY DEF StoreIsHeld
  <2>1. c \in store[k] \/ (c = b /\ k = n)
    BY <1>1, <1>2
  <2>2. c \in store[k]
    BY <1>6, <2>1, Zenon
  <2>3. IsQuorum(Holders(c))
    BY <2>2 DEF StoreIsHeld
  <2> QED
    BY <2>3, QuorumOfHoldersGrows
<1>8. PayloadIsStored'
  <2> SUFFICES ASSUME NEW k \in Authority, NEW c \in Batches(k)'
               PROVE  c \in store'[k]
    BY DEF PayloadIsStored
  <2>1. c \in Batches(k) \/ (k = n /\ c = b)
    BY <1>1, <1>2 DEF Batches
  <2>2. c \in Batches(k) => c \in store[k]
    BY DEF PayloadIsStored
  <2> QED
    BY <1>1, <1>2, <2>1, <2>2
<1> QED
  BY <1>3, <1>4, <1>5, <1>6, <1>7, <1>8

(* The primary learns of, or loses, what was on the way to it. *)
LEMMA ReportKeeps ==
    ASSUME WorkerInv, TypeInv', NEW n \in Authority,
           LoseReport(n) \/ PrimaryTold(n)
    PROVE  WorkerInv'
<1>1. UNCHANGED <<sending, acked, rx_message, counted, rx_own, rx_others, store>>
  BY Zenon DEF LoseReport, PrimaryTold, networkVars, quorumVars
<1>2. SentToOthers' /\ WaitingIsOurs' /\ CountedAcked'
  BY <1>1, QueuesUnchanged
<1>3. AckedReceived' /\ OwnIsHeld' /\ OthersAreNotOurs' /\ StoreIsHeld'
  BY <1>1, NothingReceived
<1>4. PICK x \in to_primary[n] :
         /\ to_primary' = [to_primary EXCEPT ![n] = @ \ {x}]
         /\ \/ UNCHANGED <<our_digests, payload>>
            \/ /\ our_digests' = [our_digests EXCEPT ![n] = @ \cup {x[2]}]
               /\ UNCHANGED payload
            \/ /\ payload' = [payload EXCEPT ![n] = @ \cup {x[2]}]
               /\ UNCHANGED our_digests
  BY Zenon DEF LoseReport, PrimaryTold, primaryVars
<1>5. /\ to_primary \in [Authority -> SUBSET ({"our", "others"} \X Batch)]
      /\ our_digests \in [Authority -> SUBSET Batch]
      /\ payload \in [Authority -> SUBSET Batch]
  BY DEF WorkerInv, TypeInv
<1>6. ASSUME NEW k \in Authority, NEW c \in Batches(k)'
      PROVE  c \in Batches(k)
  <2>1. PICK d : d = x[2]
    OBVIOUS
  <2>2. d \in Batches(n)
    BY <2>1, Zenon DEF Batches
  <2>3. our_digests'[k] \subseteq our_digests[k] \cup Batches(k)
    BY <1>4, <1>5, <2>1, <2>2
  <2>4. payload'[k] \subseteq payload[k] \cup Batches(k)
    BY <1>4, <1>5, <2>1, <2>2
  <2>5. to_primary'[k] \subseteq to_primary[k]
    BY <1>4, <1>5
  <2> QED
    BY <2>3, <2>4, <2>5 DEF Batches
<1>7. PayloadIsStored'
  BY <1>1, <1>6 DEF WorkerInv, PayloadIsStored
<1> QED
  BY <1>2, <1>3, <1>7 DEF WorkerInv

------------------------------------------------------------------------------
LEMMA WorkerInvHolds ==
    Spec => []WorkerInv
<1>1. Init => WorkerInv
  <2> SUFFICES ASSUME Init
               PROVE  WorkerInv
    OBVIOUS
  <2>1. TypeInv
    BY DEF Init, TypeInv
  <2>2. /\ SentToOthers /\ AckedReceived /\ WaitingIsOurs /\ CountedAcked
        /\ OwnIsHeld /\ OthersAreNotOurs /\ StoreIsHeld
    BY DEF Init, SentToOthers, AckedReceived, WaitingIsOurs, CountedAcked,
           OwnIsHeld, OthersAreNotOurs, StoreIsHeld
  <2>3. PayloadIsStored
    BY DEF Init, PayloadIsStored, Batches
  <2> QED
    BY <2>1, <2>2, <2>3 DEF WorkerInv
<1>2. WorkerInv /\ [Next]_vars => WorkerInv'
  <2> SUFFICES ASSUME WorkerInv, [Next]_vars
               PROVE  WorkerInv'
    OBVIOUS
  <2>1. TypeInv'
    BY TypeStep DEF WorkerInv
  <2>2. CASE UNCHANGED vars
    <3>1. /\ UNCHANGED <<sending, acked, rx_message, counted, rx_own, rx_others>>
          /\ UNCHANGED <<store, to_primary, primaryVars>>
      BY <2>2 DEF vars, networkVars, quorumVars
    <3> QED
      BY <2>1, <3>1, QueuesUnchanged, NothingReceived, ReportsUnchanged
         DEF WorkerInv
  <2>3. CASE Next
    <3>1. ASSUME NEW n \in Authority,
                 \/ ReceiveTransaction(n) \/ BatchTimer(n)
                 \/ ReceiveBatch(n)
                 \/ \E m \in Others(n) : CountAck(n, m)
                 \/ ProcessOwn(n) \/ ProcessOthers(n)
                 \/ LoseReport(n) \/ PrimaryTold(n)
          PROVE  WorkerInv'
      BY <2>1, <2>3, <3>1, ReceiveTransactionKeeps, BatchTimerKeeps,
         ReceiveBatchKeeps, CountAckKeeps, ProcessOwnKeeps,
         ProcessOthersKeeps, ReportKeeps
    <3>2. CASE CancelSend
      BY <2>1, <3>2, CancelSendKeeps
    <3> QED
      BY <2>3, <3>1, <3>2 DEF Next
  <2> QED
    BY <2>2, <2>3
<1> QED
  BY <1>1, <1>2, PTL DEF Spec

(* A batch that the primary was told of, or is being told of, is in the    *)
(* store of its worker: the Processor stores a batch before it reports it. *)
THEOREM ReportsAreStored ==
    Spec => []PayloadIsStored
<1>1. WorkerInv => PayloadIsStored
  BY DEF WorkerInv
<1> QED
  BY <1>1, WorkerInvHolds, PTL

(* For every committee, a batch of our own that the primary may put into a *)
(* header was received by workers with a quorum of the stake, however many *)
(* workers are silent: QuorumWaiter drops the handlers of the others only  *)
(* once 2f+1 of the stake holds it.                                        *)
THEOREM BatchesAreAvailable ==
    Spec => []ReportedIsAvailable
<1>1. WorkerInv => ReportedIsAvailable
  <2> SUFFICES ASSUME WorkerInv, NEW n \in Authority, NEW b \in Batches(n),
                      b[1] = n
               PROVE  IsQuorum({m \in Authority : b \in Received(m)})
    BY DEF ReportedIsAvailable
  <2>1. b \in store[n]
    BY DEF WorkerInv, PayloadIsStored
  <2> QED
    BY <2>1 DEF WorkerInv, StoreIsHeld, Holders
<1> QED
  BY <1>1, WorkerInvHolds, PTL
==============================================================================
