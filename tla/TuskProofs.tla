----------------------------- MODULE TuskProofs -----------------------------
(***************************************************************************)
(* Proofs about Tusk, for every committee, every set of certificates and   *)
(* every number of replicas.                                               *)
(*                                                                         *)
(* The argument is about one replica that was sent the certificates D, in  *)
(* state s, with what it committed, out.  A certificate is Settled when it *)
(* can no longer be committed: its origin is committed that far, or its    *)
(* round is garbage collected.  All of D that is not settled is in the dag *)
(* (Sound), so ordering a leader takes whatever its history still holds.   *)
(***************************************************************************)
EXTENDS Tusk, BasicProofs, SequenceTheorems

States == [last_committed_round : Nat, last_committed : [Authority -> Nat],
           dag : SUBSET Digest, missing : BOOLEAN]

(* The state of a replica without its dag. *)
Bare(s) == [last_committed_round |-> s.last_committed_round,
            last_committed |-> s.last_committed,
            dag |-> Digest, missing |-> s.missing]

(* The field last_committed_round is the maximum of last_committed. *)
MaxCommitted(s) ==
    /\ \A a \in Authority : s.last_committed[a] <= s.last_committed_round
    /\ \/ s.last_committed_round = 0
       \/ \E a \in Authority : s.last_committed[a] = s.last_committed_round

(* d will not be committed any more. *)
Settled(s, d) ==
    \/ round[d] <= s.last_committed[origin[d]]
    \/ round[d] + GCDepth < s.last_committed_round

(* Whoever is in D came after its parents. *)
Closed(D) == \A d \in D \ Genesis : parents[d] \subseteq D

(* The state of a replica that was sent D and committed out. *)
Sound(D, s, out) ==
    /\ s \in States /\ MaxCommitted(s) /\ out \in Seq(Digest)
    /\ s.dag \subseteq D
    /\ \A d \in D : d \in s.dag \/ Settled(s, d)
    /\ \A i \in 1..Len(out) :
          /\ out[i] \in D
          /\ round[out[i]] <= s.last_committed[origin[out[i]]]
          /\ \A p \in parents[out[i]] : Settled(s, p)
    /\ \A i, j \in 1..Len(out) : out[i] = out[j] => i = j
    /\ \A i, j \in 1..Len(out) : out[j] \in parents[out[i]] => j < i

------------------------------------------------------------------------------
(* State::update *)

(* What committing turns state s into: nothing is uncommitted, and what    *)
(* leaves the dag is settled.                                              *)
Advances(s, t) ==
    /\ t \in States /\ MaxCommitted(t)
    /\ \A a \in Authority : s.last_committed[a] <= t.last_committed[a]
    /\ s.last_committed_round <= t.last_committed_round
    /\ t.dag \subseteq s.dag /\ t.missing = s.missing
    /\ \A d \in s.dag : d \in t.dag \/ Settled(t, d)

LEMMA CertificateTypes ==
    /\ origin \in [Digest -> Authority] /\ round \in [Digest -> Nat]
    /\ parents \in [Digest -> SUBSET Digest] /\ GCDepth \in Nat
    /\ Genesis = {d \in Digest : round[d] = 0}
    /\ \A d \in Digest \ Genesis : \A p \in parents[d] : round[p] + 1 = round[d]
  BY TuskAssumption DEF origin, round, parents, Genesis

LEMMA SettledStays ==
    ASSUME NEW s \in States, NEW t, Advances(s, t), NEW d \in Digest, Settled(s, d)
    PROVE  Settled(t, d)
  <1>1. origin[d] \in Authority /\ round[d] \in Nat /\ GCDepth \in Nat
    BY CertificateTypes
  <1>2. /\ s.last_committed[origin[d]] \in Nat /\ t.last_committed[origin[d]] \in Nat
        /\ s.last_committed_round \in Nat /\ t.last_committed_round \in Nat
        /\ s.last_committed[origin[d]] <= t.last_committed[origin[d]]
        /\ s.last_committed_round <= t.last_committed_round
    BY <1>1 DEF Advances, States
  <1> QED  BY <1>1, <1>2 DEF Settled

LEMMA AdvancesTransitive ==
    ASSUME NEW s \in States, NEW t \in States, NEW u,
           Advances(s, t), Advances(t, u)
    PROVE  Advances(s, u)
  <1>1. ASSUME NEW a \in Authority
        PROVE  s.last_committed[a] <= u.last_committed[a]
    <2>1. /\ s.last_committed[a] \in Nat /\ t.last_committed[a] \in Nat
          /\ u.last_committed[a] \in Nat
      BY DEF Advances, States
    <2> QED  BY <2>1 DEF Advances
  <1>2. s.last_committed_round <= u.last_committed_round
    <2>1. /\ s.last_committed_round \in Nat /\ t.last_committed_round \in Nat
          /\ u.last_committed_round \in Nat
      BY DEF Advances, States
    <2> QED  BY <2>1 DEF Advances
  <1>3. ASSUME NEW d \in s.dag  PROVE  d \in u.dag \/ Settled(u, d)
    <2>1. d \in Digest
      BY DEF States
    <2>2. CASE d \in t.dag
      BY <2>2 DEF Advances
    <2>3. CASE Settled(t, d)
      BY <2>1, <2>3, SettledStays
    <2> QED  BY <2>2, <2>3 DEF Advances
  <1> QED  BY <1>1, <1>2, <1>3 DEF Advances

(* One update: the maximum is the old one or the round of d. *)
LEMMA UpdateAdvances ==
    ASSUME NEW s \in States, MaxCommitted(s), NEW d \in Digest
    PROVE  /\ Advances(s, Update(s, d))
           /\ round[d] <= Update(s, d).last_committed[origin[d]]
  <1> DEFINE c == s.last_committed
             last == [c EXCEPT ![origin[d]] = IF @ > round[d] THEN @ ELSE round[d]]
             lcr == Max({last[a] : a \in Authority})
             most == IF s.last_committed_round > round[d]
                     THEN s.last_committed_round ELSE round[d]
             u == Update(s, d)
  <1>1. origin[d] \in Authority /\ round[d] \in Nat /\ GCDepth \in Nat
    BY CertificateTypes
  <1>2. /\ c \in [Authority -> Nat] /\ s.last_committed_round \in Nat
        /\ s.dag \subseteq Digest /\ s.missing \in BOOLEAN
    BY DEF States
  <1>3. /\ last \in [Authority -> Nat]
        /\ \A a \in Authority : c[a] <= last[a]
        /\ round[d] <= last[origin[d]]
        /\ \A a \in Authority : last[a] <= most
    <2> HIDE DEF c
    <2>1. \A a \in Authority : c[a] \in Nat /\ c[a] <= s.last_committed_round
      BY <1>2 DEF MaxCommitted, c
    <2> QED  BY <1>1, <1>2, <2>1
  <1>4. \E a \in Authority : last[a] = most
    <2>1. CASE s.last_committed_round > round[d]
      <3>1. PICK a \in Authority : c[a] = s.last_committed_round
        BY <1>1, <1>2, <2>1 DEF MaxCommitted
      <3>2. last[a] = c[a]
        BY <1>1, <1>2, <2>1, <3>1
      <3> QED  BY <2>1, <3>1, <3>2
    <2>2. CASE ~ (s.last_committed_round > round[d])
      <3>1. c[origin[d]] \in Nat /\ c[origin[d]] <= round[d]
        BY <1>1, <1>2, <2>2 DEF MaxCommitted
      <3>2. last[origin[d]] = round[d]
        BY <1>1, <1>2, <3>1
      <3> QED  BY <1>1, <2>2, <3>2
    <2> QED  BY <2>1, <2>2
  <1>5. most \in Nat
    BY <1>1, <1>2
  <1>6. lcr = most
    <2> DEFINE values == {last[a] : a \in Authority}
    <2> HIDE DEF last, most
    <2>1. most \in values /\ \A v \in values : most >= v
      BY <1>3, <1>4, <1>5
    <2>2. \A v \in values : v \in Nat
      BY <1>3
    <2> HIDE DEF values
    <2>3. ASSUME NEW v \in values, \A w \in values : v >= w  PROVE  v = most
      BY <2>1, <2>2, <2>3
    <2>4. Max(values) = most
      BY <2>1, <2>3 DEF Max
    <2> QED  BY <2>4 DEF values
  <1>7. u = [s EXCEPT !.last_committed = last, !.last_committed_round = lcr,
                      !.dag = {x \in @ : /\ round[x] >= last[origin[x]]
                                         /\ round[x] + GCDepth >= lcr}]
    BY DEF Update
  <1> HIDE DEF last, lcr
  <1>8. /\ u \in States /\ u.last_committed = last /\ u.last_committed_round = lcr
        /\ u.missing = s.missing
        /\ u.dag = {x \in s.dag : /\ round[x] >= last[origin[x]]
                                  /\ round[x] + GCDepth >= lcr}
    BY <1>2, <1>3, <1>5, <1>6, <1>7 DEF States
  <1> HIDE DEF u, most
  <1>9. MaxCommitted(u)
    BY <1>3, <1>4, <1>6, <1>8 DEF MaxCommitted
  <1>10. s.last_committed_round <= lcr
    BY <1>1, <1>2, <1>5, <1>6 DEF most
  <1>11. ASSUME NEW x \in s.dag  PROVE  x \in u.dag \/ Settled(u, x)
    <2>1. /\ x \in Digest /\ round[x] \in Nat /\ last[origin[x]] \in Nat /\ lcr \in Nat
      BY <1>2, <1>3, <1>5, <1>6, CertificateTypes
    <2> QED  BY <1>1, <1>8, <2>1 DEF Settled
  <1>12. Advances(s, u)
    BY <1>3, <1>8, <1>9, <1>10, <1>11 DEF Advances, c
  <1> QED  BY <1>3, <1>8, <1>12 DEF u

(* f holds the states between the updates for a sequence. *)
IsUpdating(f, s, order) ==
    f = [i \in 0..Len(order) |-> IF i = 0 THEN s ELSE Update(f[i - 1], order[i])]

LEMMA UpdatingExists ==
    ASSUME NEW s \in States, MaxCommitted(s), NEW order \in Seq(Digest)
    PROVE  \E f : IsUpdating(f, s, order)
  <1> DEFINE S == {t \in States : MaxCommitted(t)}
             n == Len(order)
             g == [e \in S \X (1..n) |-> Update(e[1], order[e[2]])]
  <1>1. n \in Nat /\ \A i \in 1..n : order[i] \in Digest
    OBVIOUS
  <1>2. ASSUME NEW t \in S, NEW i \in 1..n  PROVE  Update(t, order[i]) \in S
    BY <1>1, <1>2, UpdateAdvances DEF Advances
  <1>3. g \in [S \X (1..n) -> S]
    BY <1>2
  <1>4. s \in S
    OBVIOUS
  <1>5. \A t \in S, i \in 1..n : g[<<t, i>>] = Update(t, order[i])
    OBVIOUS
  <1> HIDE DEF S, g, n
  <1>6. PICK f \in [0..n -> S] : IsIteration(f, s, g, n)
    BY <1>1, <1>3, <1>4, Iterates
  <1>7. ASSUME NEW i \in 0..n, i # 0
        PROVE  g[<<f[i - 1], i>>] = Update(f[i - 1], order[i])
    <2>1. i \in 1..n /\ i - 1 \in 0..n
      BY <1>1, <1>7
    <2> QED  BY <1>5, <1>6, <2>1
  <1>8. f = [i \in 0..n |-> IF i = 0 THEN s ELSE Update(f[i - 1], order[i])]
    <2>1. \A i \in 0..n : (IF i = 0 THEN s ELSE g[<<f[i - 1], i>>])
                             = (IF i = 0 THEN s ELSE Update(f[i - 1], order[i]))
      BY <1>7
    <2> QED  BY <1>6, <2>1 DEF IsIteration
  <1> QED  BY <1>8 DEF IsUpdating, n

(* The state after a sequence, as the last of those states. *)
LEMMA UpdatedStages ==
    ASSUME NEW s \in States, MaxCommitted(s), NEW order \in Seq(Digest)
    PROVE  \E f : /\ f[0] = s
                  /\ \A i \in 1..Len(order) : f[i] = Update(f[i - 1], order[i])
                  /\ Updated(s, order) = f[Len(order)]
  <1> DEFINE f == CHOOSE h : IsUpdating(h, s, order)
  <1>1. IsUpdating(f, s, order)
    BY UpdatingExists
  <1>2. Updated(s, order) = f[Len(order)]
    BY DEF Updated, IsUpdating
  <1> HIDE DEF f
  <1>3. Len(order) \in Nat
    OBVIOUS
  <1>4. f[0] = s
    BY <1>1, <1>3 DEF IsUpdating
  <1>5. ASSUME NEW i \in 1..Len(order)  PROVE  f[i] = Update(f[i - 1], order[i])
    <2>1. i \in 0..Len(order) /\ i # 0
      BY <1>3
    <2> QED  BY <1>1, <2>1 DEF IsUpdating
  <1> QED  BY <1>2, <1>4, <1>5

(* After the sequence every certificate of it is settled. *)
LEMMA UpdatedAdvances ==
    ASSUME NEW s \in States, MaxCommitted(s), NEW order \in Seq(Digest)
    PROVE  /\ Advances(s, Updated(s, order))
           /\ \A i \in 1..Len(order) :
                 round[order[i]] <= Updated(s, order).last_committed[origin[order[i]]]
  <1>1. PICK f : /\ f[0] = s
                 /\ \A i \in 1..Len(order) : f[i] = Update(f[i - 1], order[i])
                 /\ Updated(s, order) = f[Len(order)]
    BY UpdatedStages
  <1> DEFINE Through(i) ==
                 /\ Advances(s, f[i])
                 /\ \A j \in 1..i :
                       round[order[j]] <= f[i].last_committed[origin[order[j]]]
             n == Len(order)
             G == {i \in 0..n : Through(i)}
  <1>2. n \in Nat /\ \A i \in 1..n : order[i] \in Digest
    OBVIOUS
  <1>3. 0 \in G
    <2>1. Advances(s, s)
      BY DEF Advances, States
    <2> QED  BY <1>1, <1>2, <2>1
  <1>4. ASSUME NEW i \in 1..n, i - 1 \in G  PROVE  i \in G
    <2> DEFINE t == f[i - 1]
               u == f[i]
               d == order[i]
    <2>1. d \in Digest /\ u = Update(t, d) /\ Through(i - 1)
      BY <1>1, <1>2, <1>4
    <2>2. t \in States /\ MaxCommitted(t) /\ Advances(s, t)
      BY <2>1 DEF Advances
    <2>3. Advances(t, u) /\ round[d] <= u.last_committed[origin[d]]
      BY <2>1, <2>2, UpdateAdvances
    <2>4. Advances(s, u)
      BY <2>2, <2>3, AdvancesTransitive
    <2>5. ASSUME NEW j \in 1..i
          PROVE  round[order[j]] <= u.last_committed[origin[order[j]]]
      <3>1. CASE j = i
        BY <2>3, <3>1
      <3>2. CASE j # i
        <4> DEFINE e == order[j]
        <4>1. j \in 1..(i - 1) /\ e \in Digest
          BY <1>2, <3>2
        <4>2. round[e] <= t.last_committed[origin[e]]
          BY <2>1, <4>1
        <4>3. round[e] \in Nat /\ origin[e] \in Authority
          BY <4>1, CertificateTypes
        <4>4. /\ t.last_committed[origin[e]] <= u.last_committed[origin[e]]
              /\ t.last_committed[origin[e]] \in Nat
              /\ u.last_committed[origin[e]] \in Nat
          BY <2>2, <2>3, <4>3 DEF Advances, States
        <4> QED  BY <4>2, <4>3, <4>4
      <3> QED  BY <3>1, <3>2
    <2> QED  BY <2>4, <2>5
  <1>5. Through(n)
    <2>1. n \in 0..n
      BY <1>2
    <2> HIDE DEF Through
    <2>2. \A i \in 1..n : i - 1 \in G => i \in G
      BY <1>4
    <2> HIDE DEF G, n
    <2>3. \A i \in 0..n : i \in G
      BY <1>2, <1>3, <2>2, UpTo
    <2> QED  BY <2>1, <2>3 DEF G
  <1> QED  BY <1>1, <1>5

------------------------------------------------------------------------------
(* The sub-dag of a leader *)

Open(s, d) == s.last_committed[origin[d]] < round[d]

NextLayer(s, l, X, k) ==
    {d \in AtRound(s.dag, round[l] - k) : Open(s, d) /\ \E x \in X : d \in parents[x]}

(* f holds the layers below leader l. *)
IsLayers(f, s, l) ==
    f = [k \in 0..round[l] |->
            IF k = 0 THEN {d \in {l} : Open(s, d)} ELSE NextLayer(s, l, f[k - 1], k)]

LEMMA LayersExist ==
    ASSUME NEW s \in States, NEW l \in Digest
    PROVE  \E f : IsLayers(f, s, l)
  <1> DEFINE n == round[l]
             b == {d \in {l} : Open(s, d)}
             g == [e \in (SUBSET Digest) \X (1..n) |-> NextLayer(s, l, e[1], e[2])]
  <1>1. n \in Nat /\ b \in SUBSET Digest
    BY CertificateTypes
  <1>2. g \in [(SUBSET Digest) \X (1..n) -> SUBSET Digest]
    BY DEF NextLayer, AtRound, States
  <1>3. \A X \in SUBSET Digest, k \in 1..n : g[<<X, k>>] = NextLayer(s, l, X, k)
    OBVIOUS
  <1> HIDE DEF b, g, n
  <1>4. PICK f \in [0..n -> SUBSET Digest] : IsIteration(f, b, g, n)
    BY <1>1, <1>2, Iterates
  <1>5. ASSUME NEW k \in 0..n, k # 0
        PROVE  g[<<f[k - 1], k>>] = NextLayer(s, l, f[k - 1], k)
    <2>1. k \in 1..n /\ k - 1 \in 0..n
      BY <1>1, <1>5
    <2> QED  BY <1>3, <1>4, <2>1
  <1>6. f = [k \in 0..n |-> IF k = 0 THEN b ELSE NextLayer(s, l, f[k - 1], k)]
    <2>1. \A k \in 0..n : (IF k = 0 THEN b ELSE g[<<f[k - 1], k>>])
                             = (IF k = 0 THEN b ELSE NextLayer(s, l, f[k - 1], k))
      BY <1>5
    <2> QED  BY <1>4, <2>1 DEF IsIteration
  <1> QED  BY <1>6 DEF IsLayers, n, b

(* The sub-dag, as the union of the layers. *)
LEMMA SubDagLayers ==
    ASSUME NEW s \in States, NEW l \in Digest
    PROVE  \E f : /\ f[0] = {d \in {l} : Open(s, d)}
                  /\ \A k \in 1..round[l] : f[k] = NextLayer(s, l, f[k - 1], k)
                  /\ \A d : d \in SubDag(s, l) <=> \E k \in 0..round[l] : d \in f[k]
  <1> DEFINE f == CHOOSE h : IsLayers(h, s, l)
  <1>1. IsLayers(f, s, l)
    BY LayersExist
  <1>2. SubDag(s, l) = UNION {f[k] : k \in 0..round[l]}
    BY DEF SubDag, IsLayers, Open, NextLayer
  <1> HIDE DEF f
  <1>3. round[l] \in Nat
    BY CertificateTypes
  <1>4. f[0] = {d \in {l} : Open(s, d)}
    BY <1>1, <1>3 DEF IsLayers
  <1>5. ASSUME NEW k \in 1..round[l]  PROVE  f[k] = NextLayer(s, l, f[k - 1], k)
    <2>1. k \in 0..round[l] /\ k # 0
      BY <1>3
    <2> QED  BY <1>1, <2>1 DEF IsLayers
  <1> QED  BY <1>2, <1>4, <1>5

(* A layer is made of the leader or of what the dag holds at its round.  *)
LEMMA LayerMembers ==
    ASSUME NEW s \in States, NEW l \in Digest, NEW f,
           f[0] = {d \in {l} : Open(s, d)},
           \A k \in 1..round[l] : f[k] = NextLayer(s, l, f[k - 1], k),
           NEW k \in 0..round[l], NEW d \in f[k]
    PROVE  /\ d \in Digest /\ d \in {l} \cup s.dag /\ Open(s, d)
           /\ round[d] = round[l] - k
  <1>1. round[l] \in Nat
    BY CertificateTypes
  <1>2. CASE k = 0
    BY <1>1, <1>2
  <1>3. CASE k # 0
    <2>1. d \in NextLayer(s, l, f[k - 1], k)
      BY <1>1, <1>3
    <2> QED  BY <2>1 DEF NextLayer, AtRound, States
  <1> QED  BY <1>2, <1>3

(* The sub-dag holds open certificates only, and their open parents.  *)
LEMMA SubDagFacts ==
    ASSUME NEW s \in States, NEW l \in Digest
    PROVE  /\ \A d \in SubDag(s, l) :
                 d \in Digest /\ d \in {l} \cup s.dag /\ Open(s, d)
           /\ \A d \in SubDag(s, l) : \A p \in parents[d] \cap s.dag :
                 Open(s, p) /\ round[p] + 1 = round[d] => p \in SubDag(s, l)
  <1>1. PICK f : /\ f[0] = {d \in {l} : Open(s, d)}
                 /\ \A k \in 1..round[l] : f[k] = NextLayer(s, l, f[k - 1], k)
                 /\ \A d : d \in SubDag(s, l) <=> \E k \in 0..round[l] : d \in f[k]
    BY SubDagLayers
  <1>2. ASSUME NEW d \in SubDag(s, l)
        PROVE  d \in Digest /\ d \in {l} \cup s.dag /\ Open(s, d)
    <2>1. PICK k \in 0..round[l] : d \in f[k]
      BY <1>1
    <2> QED  BY <1>1, <2>1, LayerMembers
  <1>3. ASSUME NEW d \in SubDag(s, l), NEW p \in parents[d] \cap s.dag,
               Open(s, p), round[p] + 1 = round[d]
        PROVE  p \in SubDag(s, l)
    <2>1. PICK k \in 0..round[l] : d \in f[k]
      BY <1>1
    <2>2. round[d] = round[l] - k
      BY <1>1, <2>1, LayerMembers
    <2>3. round[l] \in Nat /\ p \in Digest /\ round[p] \in Nat
      BY <1>2, CertificateTypes DEF States
    <2>4. /\ k + 1 \in 1..round[l] /\ k + 1 \in 0..round[l] /\ (k + 1) - 1 = k
          /\ round[p] = round[l] - (k + 1)
      BY <1>3, <2>2, <2>3
    <2>5. p \in NextLayer(s, l, f[k], k + 1)
      BY <1>3, <2>1, <2>4 DEF NextLayer, AtRound
    <2> QED  BY <1>1, <2>4, <2>5
  <1> QED  BY <1>2, <1>3

------------------------------------------------------------------------------
(* Sorting *)

BeforeRel == {z \in Digest \X Digest : Before(z[1], z[2])}

(* Before is a strict total order of the certificates. *)
LEMMA BeforeOrders ==
    ASSUME NEW d \in Digest, NEW e \in Digest, NEW x \in Digest
    PROVE  /\ ~ Before(d, d)
           /\ d # e => Before(d, e) \/ Before(e, d)
           /\ Before(d, e) /\ Before(e, x) => Before(d, x)
  <1>1. /\ d \in Nat /\ e \in Nat /\ x \in Nat
        /\ round[d] \in Nat /\ round[e] \in Nat /\ round[x] \in Nat
    BY TuskAssumption, CertificateTypes
  <1> QED  BY <1>1 DEF Before

(* Sorting keeps every certificate, once, in the order. *)
LEMMA SortedFacts ==
    ASSUME NEW X \in SUBSET Digest
    PROVE  LET t == Sorted(X) IN
           /\ t \in Seq(Digest)
           /\ \A i \in 1..Len(t) : t[i] \in X
           /\ \A d \in X : \E i \in 1..Len(t) : t[i] = d
           /\ \A i, j \in 1..Len(t) : t[i] = t[j] => i = j
           /\ \A i, j \in 1..Len(t) : Before(t[i], t[j]) => i < j
  <1>1. IsFiniteSet(X)
    BY TuskAssumption, FS_Subset
  <1>2. StrictOrder(X, BeforeRel)
    <2>1. \A d, e \in X : <<d, e>> \in BeforeRel <=> Before(d, e)
      BY DEF BeforeRel
    <2> QED  BY <2>1, BeforeOrders DEF StrictOrder
  <1>3. Sorted(X) = Enumeration(X, BeforeRel)
    <2>1. \A d \in X : {e \in X : <<e, d>> \in BeforeRel} = {e \in X : Before(e, d)}
      BY DEF BeforeRel
    <2>2. \A d \in X : Rank(X, BeforeRel, d) = Cardinality({e \in X : Before(e, d)})
      BY <2>1 DEF Rank
    <2> QED  BY <2>2 DEF Sorted, Enumeration
  <1> DEFINE t == Enumeration(X, BeforeRel)
             n == Cardinality(X)
  <1>4. /\ n \in Nat /\ t \in [1..n -> X]
        /\ \A d \in X : \E i \in 1..n : t[i] = d
        /\ \A i, j \in 1..n : t[i] = t[j] => i = j
        /\ \A i, j \in 1..n : i < j <=> <<t[i], t[j]>> \in BeforeRel
    BY <1>1, <1>2, EnumerationFacts
  <1> HIDE DEF t, n
  <1>5. t \in Seq(Digest) /\ Len(t) = n
    <2>1. t \in [1..n -> Digest]
      BY <1>4
    <2> QED  BY <1>4, <2>1, SeqDef
  <1>6. \A i, j \in 1..n : Before(t[i], t[j]) => i < j
    BY <1>4 DEF BeforeRel
  <1>7. \A i \in 1..n : t[i] \in X
    BY <1>4
  <1> QED  BY <1>3, <1>4, <1>5, <1>6, <1>7 DEF t

------------------------------------------------------------------------------
(* Committing a leader *)

(* What order_dag returns is not settled, without repetition, parents      *)
(* first, and with every parent that the dag holds and that is not settled. *)
LEMMA OrderDagFacts ==
    ASSUME NEW s \in States, NEW l \in Digest
    PROVE  LET o == OrderDag(s, l) IN
           /\ o \in Seq(Digest)
           /\ \A i \in 1..Len(o) :
                 o[i] \in {l} \cup s.dag /\ o[i] \notin Genesis /\ ~ Settled(s, o[i])
           /\ \A i, j \in 1..Len(o) : o[i] = o[j] => i = j
           /\ \A i, j \in 1..Len(o) : o[j] \in parents[o[i]] => j < i
           /\ \A i \in 1..Len(o) : \A p \in parents[o[i]] \cap s.dag :
                 ~ Settled(s, p) => \E j \in 1..Len(o) : o[j] = p
  <1> DEFINE X == {d \in SubDag(s, l) : round[d] + GCDepth >= s.last_committed_round}
             o == Sorted(X)
  <1>1. /\ X \in SUBSET Digest
        /\ \A d \in X : d \in {l} \cup s.dag /\ Open(s, d) /\ d \in SubDag(s, l)
                        /\ round[d] + GCDepth >= s.last_committed_round
    BY SubDagFacts
  <1>2. /\ o \in Seq(Digest)
        /\ \A i \in 1..Len(o) : o[i] \in X
        /\ \A d \in X : \E i \in 1..Len(o) : o[i] = d
        /\ \A i, j \in 1..Len(o) : o[i] = o[j] => i = j
        /\ \A i, j \in 1..Len(o) : Before(o[i], o[j]) => i < j
    BY <1>1, SortedFacts
  <1>3. OrderDag(s, l) = o
    BY DEF OrderDag
  <1>4. ASSUME NEW d \in Digest
        PROVE  /\ round[d] \in Nat /\ GCDepth \in Nat /\ s.last_committed_round \in Nat
               /\ s.last_committed[origin[d]] \in Nat
    BY CertificateTypes DEF States
  <1>5. ASSUME NEW d \in X  PROVE  d \notin Genesis /\ ~ Settled(s, d)
    BY <1>1, <1>4 DEF Open, Settled, Genesis
  <1>6. ASSUME NEW d \in X, NEW p \in parents[d]
        PROVE  p \in Digest /\ round[p] + 1 = round[d]
    BY <1>1, <1>5, CertificateTypes
  <1>7. ASSUME NEW d \in X, NEW p \in parents[d] \cap s.dag, ~ Settled(s, p)
        PROVE  p \in X
    <2>1. p \in Digest /\ round[p] + 1 = round[d] /\ d \in SubDag(s, l)
      BY <1>1, <1>6
    <2>2. Open(s, p) /\ round[p] + GCDepth >= s.last_committed_round
      BY <1>4, <1>7, <2>1 DEF Open, Settled
    <2> QED  BY <2>1, <2>2, SubDagFacts
  <1> HIDE DEF X, o
  <1>8. ASSUME NEW i \in 1..Len(o), NEW j \in 1..Len(o), o[j] \in parents[o[i]]
        PROVE  j < i
    <2>1. o[i] \in X /\ o[j] \in X /\ round[o[j]] + 1 = round[o[i]]
      BY <1>2, <1>6, <1>8
    <2>2. Before(o[j], o[i])
      BY <1>1, <1>4, <2>1 DEF Before
    <2> QED  BY <1>2, <2>2
  <1>9. \A i \in 1..Len(o) : \A p \in parents[o[i]] \cap s.dag :
           ~ Settled(s, p) => \E j \in 1..Len(o) : o[j] = p
    BY <1>2, <1>7
  <1> QED  BY <1>1, <1>2, <1>3, <1>5, <1>8, <1>9

(* What is committed was not settled before and is settled then, so it is  *)
(* not committed again, and its parents are committed with it or never.    *)
LEMMA CommitSound ==
    ASSUME NEW D \in SUBSET Digest, Closed(D), NEW s, NEW out, Sound(D, s, out),
           NEW l \in D
    PROVE  LET o == OrderDag(s, l) IN
           /\ o \in Seq(Digest)
           /\ Advances(s, Updated(s, o))
           /\ Sound(D, Updated(s, o), out \o o)
  <1> DEFINE o == OrderDag(s, l)
             t == Updated(s, o)
             n == Len(out)
             all == out \o o
  <1>1. s \in States /\ MaxCommitted(s) /\ out \in Seq(Digest) /\ l \in Digest
    BY DEF Sound
  <1>2. /\ o \in Seq(Digest)
        /\ \A i \in 1..Len(o) :
              o[i] \in {l} \cup s.dag /\ o[i] \notin Genesis /\ ~ Settled(s, o[i])
        /\ \A i, j \in 1..Len(o) : o[i] = o[j] => i = j
        /\ \A i, j \in 1..Len(o) : o[j] \in parents[o[i]] => j < i
        /\ \A i \in 1..Len(o) : \A p \in parents[o[i]] \cap s.dag :
              ~ Settled(s, p) => \E j \in 1..Len(o) : o[j] = p
    BY <1>1, OrderDagFacts
  <1> HIDE DEF o
  <1>3. /\ Advances(s, t)
        /\ \A i \in 1..Len(o) : round[o[i]] <= t.last_committed[origin[o[i]]]
    BY <1>1, <1>2, UpdatedAdvances
  <1> HIDE DEF t
  <1>4. t \in States /\ MaxCommitted(t) /\ t.dag \subseteq D
    BY <1>3 DEF Advances, Sound
  <1>5. ASSUME NEW d \in D, Settled(s, d)  PROVE  Settled(t, d)
    BY <1>1, <1>3, <1>5, SettledStays
  <1>6. ASSUME NEW d \in D  PROVE  d \in t.dag \/ Settled(t, d)
    <2>1. d \in s.dag \/ Settled(s, d)
      BY DEF Sound
    <2> QED  BY <1>3, <1>5, <2>1 DEF Advances
  <1>7. /\ n \in Nat /\ Len(o) \in Nat /\ all \in Seq(Digest) /\ Len(all) = n + Len(o)
        /\ \A i \in 1..n : all[i] = out[i]
        /\ \A i \in 1..Len(all) : i \notin 1..n => i - n \in 1..Len(o) /\ all[i] = o[i - n]
    BY <1>1, <1>2, ConcatProperties
  <1> HIDE DEF all
  <1>8. ASSUME NEW i \in 1..n
        PROVE  /\ out[i] \in D /\ Settled(s, out[i])
               /\ round[out[i]] <= s.last_committed[origin[out[i]]]
               /\ \A p \in parents[out[i]] : Settled(s, p)
    BY DEF Sound, Settled
  <1>9. ASSUME NEW i \in 1..n
        PROVE  round[out[i]] <= t.last_committed[origin[out[i]]]
    <2> DEFINE d == out[i]
    <2>1. d \in Digest /\ round[d] \in Nat /\ origin[d] \in Authority
      BY <1>8, CertificateTypes
    <2>2. /\ s.last_committed[origin[d]] \in Nat /\ t.last_committed[origin[d]] \in Nat
          /\ s.last_committed[origin[d]] <= t.last_committed[origin[d]]
      BY <1>1, <1>3, <1>4, <2>1 DEF Advances, States
    <2>3. round[d] <= s.last_committed[origin[d]]
      BY <1>8
    <2> QED  BY <2>1, <2>2, <2>3
  <1>10. ASSUME NEW i \in 1..Len(o), NEW p \in parents[o[i]]  PROVE  Settled(t, p)
    <2>1. o[i] \in D /\ o[i] \notin Genesis
      BY <1>2 DEF Sound
    <2>2. p \in D
      BY <2>1 DEF Closed
    <2>3. CASE Settled(s, p)
      BY <1>5, <2>2, <2>3
    <2>4. CASE ~ Settled(s, p)
      <3>1. p \in s.dag
        BY <2>2, <2>4 DEF Sound
      <3>2. PICK j \in 1..Len(o) : o[j] = p
        BY <1>2, <2>4, <3>1
      <3> QED  BY <1>3, <3>2 DEF Settled
    <2> QED  BY <2>3, <2>4
  <1>11. ASSUME NEW i \in 1..Len(all)
         PROVE  /\ all[i] \in D
                /\ round[all[i]] <= t.last_committed[origin[all[i]]]
                /\ \A p \in parents[all[i]] : Settled(t, p)
    <2>1. CASE i \in 1..n
      <3>1. ASSUME NEW p \in parents[out[i]]  PROVE  Settled(t, p)
        <4>1. out[i] \in Digest /\ p \in Digest /\ Settled(s, p)
          BY <1>8, <2>1, CertificateTypes
        <4> QED  BY <1>1, <1>3, <4>1, SettledStays
      <3> QED  BY <1>7, <1>8, <1>9, <2>1, <3>1
    <2>2. CASE i \notin 1..n
      <3>1. i - n \in 1..Len(o) /\ all[i] = o[i - n]
        BY <1>7, <2>2
      <3>2. all[i] \in D
        BY <1>2, <3>1 DEF Sound
      <3> QED  BY <1>3, <1>10, <3>1, <3>2
    <2> QED  BY <2>1, <2>2
  <1>12. ASSUME NEW i \in 1..Len(all), NEW j \in 1..Len(all), all[i] = all[j]
         PROVE  i = j
    <2>1. CASE i \in 1..n /\ j \in 1..n
      BY <1>7, <1>12, <2>1 DEF Sound
    <2>2. CASE i \notin 1..n /\ j \notin 1..n
      <3>1. /\ i - n \in 1..Len(o) /\ all[i] = o[i - n]
            /\ j - n \in 1..Len(o) /\ all[j] = o[j - n]
        BY <1>7, <2>2
      <3>2. i - n = j - n
        BY <1>2, <1>12, <3>1
      <3> QED  BY <1>7, <3>2
    <2>3. CASE i \in 1..n /\ j \notin 1..n
      <3>1. all[i] = out[i] /\ j - n \in 1..Len(o) /\ all[j] = o[j - n]
        BY <1>7, <2>3
      <3>2. Settled(s, all[i]) /\ ~ Settled(s, all[j])
        BY <1>2, <1>8, <2>3, <3>1
      <3> QED  BY <1>12, <3>2
    <2>4. CASE i \notin 1..n /\ j \in 1..n
      <3>1. all[j] = out[j] /\ i - n \in 1..Len(o) /\ all[i] = o[i - n]
        BY <1>7, <2>4
      <3>2. ~ Settled(s, all[i]) /\ Settled(s, all[j])
        BY <1>2, <1>8, <2>4, <3>1
      <3> QED  BY <1>12, <3>2
    <2> QED  BY <2>1, <2>2, <2>3, <2>4
  <1>13. ASSUME NEW i \in 1..Len(all), NEW j \in 1..Len(all), all[j] \in parents[all[i]]
         PROVE  j < i
    <2>1. CASE i \in 1..n /\ j \in 1..n
      BY <1>7, <1>13, <2>1 DEF Sound
    <2>2. CASE i \notin 1..n /\ j \notin 1..n
      <3>1. /\ i - n \in 1..Len(o) /\ all[i] = o[i - n]
            /\ j - n \in 1..Len(o) /\ all[j] = o[j - n]
        BY <1>7, <2>2
      <3>2. j - n < i - n
        BY <1>2, <1>13, <3>1
      <3> QED  BY <1>7, <3>2
    <2>3. CASE i \in 1..n /\ j \notin 1..n
      BY <1>2, <1>7, <1>8, <1>13, <2>3
    <2>4. CASE i \notin 1..n /\ j \in 1..n
      BY <1>7, <2>4
    <2> QED  BY <2>1, <2>2, <2>3, <2>4
  <1>14. Sound(D, t, all)
    BY <1>4, <1>6, <1>7, <1>11, <1>12, <1>13 DEF Sound
  <1> QED  BY <1>2, <1>3, <1>14 DEF all, t, o

------------------------------------------------------------------------------
(* The leaders to commit *)

(* f holds the leaders chosen from l down. *)
IsChoosing(f, s, l) ==
    LET rounds == StepDown(s.last_committed_round + 2, round[l])
    IN  f = [i \in 0..Len(rounds) |->
                IF i = 0 THEN <<l>> ELSE Visit(s.dag, f[i - 1], rounds[i])]

(* Leaders to commit: l first, then some that the dag holds. *)
Chains(s, l) == {t \in Seq({l} \cup s.dag) : Len(t) # 0 /\ t[1] = l}

LEMMA VisitChains ==
    ASSUME NEW s, NEW l, NEW t \in Chains(s, l), NEW r
    PROVE  Visit(s.dag, t, r) \in Chains(s, l)
  <1>1. CASE \E p \in Leader(s.dag, r) : Linked(s.dag, Last(t), p)
    <2> DEFINE p == CHOOSE p \in Leader(s.dag, r) : TRUE
    <2>1. p \in s.dag /\ Visit(s.dag, t, r) = Append(t, p)
      BY <1>1 DEF Leader, Visit
    <2> HIDE DEF p
    <2>2. t \in Seq({l} \cup s.dag) /\ Len(t) \in Nat \ {0} /\ t[1] = l
      BY DEF Chains
    <2>3. /\ Append(t, p) \in Seq({l} \cup s.dag) /\ Len(Append(t, p)) = Len(t) + 1
          /\ Append(t, p)[1] = t[1]
      BY <2>1, <2>2
    <2>4. Len(Append(t, p)) # 0 /\ Append(t, p)[1] = l
      BY <2>2, <2>3
    <2>5. Append(t, p) \in Chains(s, l)
      BY <2>3, <2>4 DEF Chains
    <2> QED  BY <2>1, <2>5
  <1>2. CASE ~ \E p \in Leader(s.dag, r) : Linked(s.dag, Last(t), p)
    BY <1>2 DEF Visit
  <1> QED  BY <1>1, <1>2

LEMMA StepDownFacts ==
    ASSUME NEW low \in Nat, NEW high \in Nat
    PROVE  /\ Len(StepDown(low, high)) \in Nat
           /\ StepDown(low, high) \in Seq(Int)
           /\ \A p \in Range(StepDown(low, high)) : p \in Nat /\ low <= p /\ p < high
  <1> DEFINE n == (high - low + 1) \div 2
             t == [i \in 1..n |-> high + 1 - 2 * i]
  <1>1. n \in Int /\ 2 * n <= high - low + 1
    OBVIOUS
  <1>2. StepDown(low, high) = t
    BY DEF StepDown
  <1> HIDE DEF n
  <1>3. t \in Seq(Int) /\ DOMAIN t = 1..n
    <2>1. CASE n \in Nat
      <3>1. t \in [1..n -> Int]
        BY <1>1
      <3> QED  BY <2>1, <3>1, SeqDef
    <2>2. CASE n \notin Nat
      <3>1. 1..n = 1..0 /\ t \in [1..0 -> Int] /\ 0 \in Nat
        BY <1>1, <2>2
      <3>2. t \in Seq(Int)
        BY ONLY <3>1, SeqDef
      <3> QED  BY <3>2
    <2> QED  BY <2>1, <2>2
  <1> HIDE DEF t
  <1>4. Len(t) \in Nat
    BY <1>3
  <1>5. ASSUME NEW p \in Range(t)  PROVE  p \in Nat /\ low <= p /\ p < high
    <2>1. PICK i \in 1..n : p = high + 1 - 2 * i
      BY <1>3 DEF Range, t
    <2> QED  BY <1>1, <2>1
  <1> QED  BY <1>2, <1>3, <1>4, <1>5

LEMMA ChoosingExists ==
    ASSUME NEW s \in States, NEW l \in Digest
    PROVE  \E f : IsChoosing(f, s, l)
  <1> DEFINE S == Chains(s, l)
             rounds == StepDown(s.last_committed_round + 2, round[l])
             n == Len(rounds)
             g == [e \in S \X (1..n) |-> Visit(s.dag, e[1], rounds[e[2]])]
  <1>1. n \in Nat
    BY CertificateTypes, StepDownFacts DEF States
  <1>2. <<l>> \in S
    BY DEF Chains
  <1>3. g \in [S \X (1..n) -> S]
    BY VisitChains
  <1>4. \A t \in S, i \in 1..n : g[<<t, i>>] = Visit(s.dag, t, rounds[i])
    OBVIOUS
  <1> HIDE DEF S, g, n, rounds
  <1>5. PICK f \in [0..n -> S] : IsIteration(f, <<l>>, g, n)
    BY <1>1, <1>2, <1>3, Iterates
  <1>6. ASSUME NEW i \in 0..n, i # 0
        PROVE  g[<<f[i - 1], i>>] = Visit(s.dag, f[i - 1], rounds[i])
    <2>1. i \in 1..n /\ i - 1 \in 0..n
      BY <1>1, <1>6
    <2> QED  BY <1>4, <1>5, <2>1
  <1>7. f = [i \in 0..n |-> IF i = 0 THEN <<l>> ELSE Visit(s.dag, f[i - 1], rounds[i])]
    <2>1. \A i \in 0..n : (IF i = 0 THEN <<l>> ELSE g[<<f[i - 1], i>>])
                             = (IF i = 0 THEN <<l>> ELSE Visit(s.dag, f[i - 1], rounds[i]))
      BY <1>6
    <2> QED  BY <1>5, <2>1 DEF IsIteration
  <1> QED  BY <1>7 DEF IsChoosing, n, rounds

(* The leaders to commit, newest first, are l and some that the dag holds. *)
LEMMA OrderLeadersFacts ==
    ASSUME NEW s \in States, NEW l \in Digest
    PROVE  OrderLeaders(s, l) \in Chains(s, l)
  <1> DEFINE rounds == StepDown(s.last_committed_round + 2, round[l])
             n == Len(rounds)
             f == CHOOSE h : IsChoosing(h, s, l)
  <1>1. IsChoosing(f, s, l)
    BY ChoosingExists
  <1>2. OrderLeaders(s, l) = f[n]
    BY DEF OrderLeaders, IsChoosing
  <1> HIDE DEF f
  <1>3. n \in Nat
    BY CertificateTypes, StepDownFacts DEF States
  <1>4. f = [i \in 0..n |-> IF i = 0 THEN <<l>> ELSE Visit(s.dag, f[i - 1], rounds[i])]
    BY <1>1 DEF IsChoosing
  <1> HIDE DEF n, rounds
  <1> DEFINE G == {i \in 0..n : f[i] \in Chains(s, l)}
  <1>5. 0 \in G
    <2>1. f[0] = <<l>>
      BY <1>3, <1>4
    <2>2. <<l>> \in Chains(s, l)
      BY DEF Chains
    <2> QED  BY <1>3, <2>1, <2>2
  <1>6. ASSUME NEW i \in 1..n, i - 1 \in G  PROVE  i \in G
    <2>1. i \in 0..n /\ i # 0
      BY <1>3
    <2>2. f[i] = Visit(s.dag, f[i - 1], rounds[i])
      BY <1>4, <2>1
    <2> QED  BY <1>6, <2>1, <2>2, VisitChains
  <1>7. n \in G
    <2> HIDE DEF G
    <2>1. \A i \in 0..n : i \in G
      BY <1>3, <1>5, <1>6, UpTo
    <2> QED  BY <1>3, <2>1
  <1> QED  BY <1>2, <1>7

------------------------------------------------------------------------------
(* Committing a chain of leaders *)

(* What a replica in state s, that committed out, may have made of it.  *)
Batches(D, s, out) ==
    {b \in [state : States, sequence : Seq(Digest)] :
        Sound(D, b.state, out \o b.sequence) /\ Advances(s, b.state)}

(* f holds the batches between the leaders of a chain. *)
IsFlattening(f, s, chain) ==
    f = [i \in 0..Len(chain) |->
            IF i = 0 THEN [state |-> s, sequence |-> << >>]
            ELSE CommitLeader(f[i - 1], chain[i])]

LEMMA CommitLeaderBatches ==
    ASSUME NEW D \in SUBSET Digest, Closed(D), NEW s \in States,
           NEW out \in Seq(Digest), NEW b \in Batches(D, s, out), NEW l \in D
    PROVE  CommitLeader(b, l) \in Batches(D, s, out)
  <1> DEFINE o == OrderDag(b.state, l)
             t == Updated(b.state, o)
             q == b.sequence
  <1>1. /\ b.state \in States /\ q \in Seq(Digest)
        /\ Sound(D, b.state, out \o q) /\ Advances(s, b.state)
    BY DEF Batches
  <1>2. o \in Seq(Digest) /\ Advances(b.state, t) /\ Sound(D, t, (out \o q) \o o)
    <2> DEFINE before == out \o q
    <2>1. Sound(D, b.state, before)
      BY <1>1
    <2> HIDE DEF before, q
    <2>2. o \in Seq(Digest) /\ Advances(b.state, t) /\ Sound(D, t, before \o o)
      BY <2>1, CommitSound
    <2> QED  BY <2>2 DEF before
  <1>3. CommitLeader(b, l) = [state |-> t, sequence |-> q \o o]
    BY DEF CommitLeader
  <1> HIDE DEF o, t, q
  <1>4. (out \o q) \o o = out \o (q \o o) /\ q \o o \in Seq(Digest)
    <2>1. q \in Seq(Digest) /\ o \in Seq(Digest)
      BY <1>1, <1>2
    <2>2. (out \o q) \o o = out \o (q \o o)
      BY <2>1, ConcatAssociative
    <2>3. q \o o \in Seq(Digest)
      BY <2>1, ConcatProperties
    <2> QED  BY <2>2, <2>3
  <1>5. t \in States /\ Advances(s, t)
    BY <1>1, <1>2, AdvancesTransitive DEF Advances
  <1> DEFINE c == [state |-> t, sequence |-> q \o o]
  <1>6. /\ c \in [state : States, sequence : Seq(Digest)]
        /\ c.state = t /\ c.sequence = q \o o
    BY <1>4, <1>5
  <1>7. Sound(D, c.state, out \o c.sequence) /\ Advances(s, c.state)
    BY <1>2, <1>4, <1>5, <1>6
  <1> HIDE DEF c
  <1>8. c \in Batches(D, s, out)
    BY <1>6, <1>7 DEF Batches
  <1> QED  BY <1>3, <1>8 DEF c

LEMMA FirstBatch ==
    ASSUME NEW D \in SUBSET Digest, NEW s, NEW out, Sound(D, s, out)
    PROVE  [state |-> s, sequence |-> << >>] \in Batches(D, s, out)
  <1>1. s \in States /\ MaxCommitted(s) /\ out \in Seq(Digest)
    BY DEF Sound
  <1>2. out \o << >> = out /\ << >> \in Seq(Digest)
    BY <1>1, ConcatEmptySeq, EmptySeq
  <1>3. Advances(s, s)
    BY <1>1 DEF Advances, States
  <1> QED  BY <1>1, <1>2, <1>3 DEF Batches

LEMMA FlatteningExists ==
    ASSUME NEW D \in SUBSET Digest, Closed(D), NEW s, NEW out, Sound(D, s, out),
           NEW chain \in Seq(D)
    PROVE  \E f : IsFlattening(f, s, chain)
  <1> DEFINE S == Batches(D, s, out)
             n == Len(chain)
             b == [state |-> s, sequence |-> << >>]
             g == [e \in S \X (1..n) |-> CommitLeader(e[1], chain[e[2]])]
  <1>1. n \in Nat /\ \A i \in 1..n : chain[i] \in D
    OBVIOUS
  <1>2. b \in S
    BY FirstBatch
  <1>3. ASSUME NEW c \in S, NEW i \in 1..n  PROVE  CommitLeader(c, chain[i]) \in S
    <2>1. s \in States /\ out \in Seq(Digest)
      BY DEF Sound
    <2> HIDE DEF n
    <2> QED  BY <1>1, <2>1, CommitLeaderBatches
  <1> HIDE DEF S
  <1>4. g \in [S \X (1..n) -> S]
    BY <1>3
  <1>5. \A c \in S, i \in 1..n : g[<<c, i>>] = CommitLeader(c, chain[i])
    OBVIOUS
  <1> HIDE DEF g, n, b
  <1>6. PICK f \in [0..n -> S] : IsIteration(f, b, g, n)
    BY <1>1, <1>2, <1>4, Iterates
  <1>7. ASSUME NEW i \in 0..n, i # 0
        PROVE  g[<<f[i - 1], i>>] = CommitLeader(f[i - 1], chain[i])
    <2>1. i \in 1..n /\ i - 1 \in 0..n
      BY <1>1, <1>7
    <2> QED  BY <1>5, <1>6, <2>1
  <1>8. f = [i \in 0..n |-> IF i = 0 THEN b ELSE CommitLeader(f[i - 1], chain[i])]
    <2>1. \A i \in 0..n : (IF i = 0 THEN b ELSE g[<<f[i - 1], i>>])
                             = (IF i = 0 THEN b ELSE CommitLeader(f[i - 1], chain[i]))
      BY <1>7
    <2> QED  BY <1>6, <2>1 DEF IsIteration
  <1> QED  BY <1>8 DEF IsFlattening, n, b

(* The batch of a chain, as the last of those batches. *)
LEMMA FlattenStages ==
    ASSUME NEW D \in SUBSET Digest, Closed(D), NEW s, NEW out, Sound(D, s, out),
           NEW chain \in Seq(D)
    PROVE  \E f : /\ f[0] = [state |-> s, sequence |-> << >>]
                  /\ \A i \in 1..Len(chain) : f[i] = CommitLeader(f[i - 1], chain[i])
                  /\ \A i \in 0..Len(chain) : f[i] \in Batches(D, s, out)
                  /\ Flatten(s, chain) = f[Len(chain)]
  <1> DEFINE n == Len(chain)
             b == [state |-> s, sequence |-> << >>]
             f == CHOOSE h : IsFlattening(h, s, chain)
  <1>1. IsFlattening(f, s, chain)
    BY FlatteningExists
  <1>2. Flatten(s, chain) = f[n]
    BY DEF Flatten, IsFlattening
  <1> HIDE DEF f
  <1>3. n \in Nat /\ \A i \in 1..n : chain[i] \in D
    OBVIOUS
  <1>4. f = [i \in 0..n |-> IF i = 0 THEN b ELSE CommitLeader(f[i - 1], chain[i])]
    BY <1>1 DEF IsFlattening
  <1> HIDE DEF n, b
  <1>5. f[0] = b
    BY <1>3, <1>4
  <1>6. ASSUME NEW i \in 1..n  PROVE  f[i] = CommitLeader(f[i - 1], chain[i])
    <2>1. i \in 0..n /\ i # 0
      BY <1>3
    <2> QED  BY <1>4, <2>1
  <1> DEFINE G == {i \in 0..n : f[i] \in Batches(D, s, out)}
  <1>7. 0 \in G
    BY <1>3, <1>5, FirstBatch DEF b
  <1>8. ASSUME NEW i \in 1..n, i - 1 \in G  PROVE  i \in G
    <2>1. i \in 0..n /\ s \in States /\ out \in Seq(Digest)
      BY <1>3 DEF Sound
    <2> QED  BY <1>3, <1>6, <1>8, <2>1, CommitLeaderBatches
  <1>9. \A i \in 0..n : f[i] \in Batches(D, s, out)
    <2> HIDE DEF G
    <2>1. \A i \in 0..n : i \in G
      BY <1>3, <1>7, <1>8, UpTo
    <2> QED  BY <2>1 DEF G
  <1> QED  BY <1>2, <1>5, <1>6, <1>9 DEF n, b

(* The chain of leaders, oldest first, ends with the one that is ready. *)
LEMMA ChainFacts ==
    ASSUME NEW D \in SUBSET Digest, NEW s \in States, s.dag \subseteq D, NEW l \in D
    PROVE  LET chain == Reverse(OrderLeaders(s, l)) IN
           /\ chain \in Seq(D) /\ Len(chain) \in Nat \ {0}
           /\ chain[Len(chain)] = l
  <1> DEFINE t == OrderLeaders(s, l)
             chain == Reverse(t)
             n == Len(t)
  <1>1. t \in Seq({l} \cup s.dag) /\ n # 0 /\ t[1] = l
    BY OrderLeadersFacts DEF Chains
  <1> HIDE DEF t
  <1>2. n \in Nat \ {0} /\ \A i \in 1..n : t[i] \in D
    BY <1>1
  <1> HIDE DEF n
  <1>3. chain = [i \in 1..n |-> t[(n - i) + 1]]
    BY DEF Reverse, n
  <1>4. \A i \in 1..n : (n - i) + 1 \in 1..n
    BY <1>2
  <1>5. chain \in [1..n -> D] /\ chain[n] = t[1]
    BY <1>2, <1>3, <1>4
  <1> HIDE DEF chain
  <1>6. chain \in Seq(D) /\ Len(chain) = n
    BY <1>2, <1>5, SeqDef
  <1> QED  BY <1>1, <1>2, <1>5, <1>6 DEF chain, t

------------------------------------------------------------------------------
(* The order does not depend on what else the dag holds *)

LEMMA BareFacts ==
    ASSUME NEW s \in States
    PROVE  /\ Bare(s) \in States /\ Bare(s).last_committed = s.last_committed
           /\ Bare(s).last_committed_round = s.last_committed_round
           /\ Bare(s).missing = s.missing /\ Bare(s).dag = Digest
           /\ MaxCommitted(s) => MaxCommitted(Bare(s))
           /\ \A d : Open(Bare(s), d) <=> Open(s, d)
  <1>1. /\ Bare(s) \in States /\ Bare(s).last_committed = s.last_committed
        /\ Bare(s).last_committed_round = s.last_committed_round
        /\ Bare(s).missing = s.missing /\ Bare(s).dag = Digest
    BY DEF Bare, States
  <1> QED  BY <1>1 DEF MaxCommitted, Open

(* Of what is not garbage collected, a sound dag holds every layer whole. *)
LEMMA LayersAgree ==
    ASSUME NEW D \in SUBSET Digest, Closed(D), NEW s, NEW out, Sound(D, s, out),
           NEW l \in D, NEW f, NEW g,
           f[0] = {d \in {l} : Open(s, d)},
           \A k \in 1..round[l] : f[k] = NextLayer(s, l, f[k - 1], k),
           g[0] = {d \in {l} : Open(Bare(s), d)},
           \A k \in 1..round[l] : g[k] = NextLayer(Bare(s), l, g[k - 1], k),
           NEW k \in 0..round[l],
           round[l] - k + GCDepth >= s.last_committed_round
    PROVE  f[k] = g[k]
  <1> DEFINE Kept(i) == round[l] - i + GCDepth >= s.last_committed_round
             G == {i \in 0..round[l] : Kept(i) => f[i] = g[i]}
  <1>1. s \in States /\ l \in Digest
    BY DEF Sound
  <1>2. round[l] \in Nat /\ GCDepth \in Nat /\ s.last_committed_round \in Nat
    BY <1>1, CertificateTypes DEF States
  <1>3. 0 \in G
    <2>1. Open(Bare(s), l) <=> Open(s, l)
      BY <1>1, BareFacts
    <2>2. f[0] = g[0]
      BY <2>1
    <2>3. 0 \in 0..round[l]
      BY <1>2
    <2> HIDE DEF Kept
    <2> QED  BY <2>2, <2>3
  <1>4. ASSUME NEW i \in 1..round[l], i - 1 \in G, Kept(i)  PROVE  f[i] = g[i]
    <2>1. i - 1 \in 0..round[l] /\ Kept(i - 1) /\ i \in 0..round[l]
      BY <1>2, <1>4
    <2>2. f[i - 1] = g[i - 1]
      BY <1>4, <2>1
    <2> DEFINE X == f[i - 1]
    <2>3. f[i] = NextLayer(s, l, X, i) /\ g[i] = NextLayer(Bare(s), l, X, i)
      BY <2>2
    <2>4. ASSUME NEW x \in X  PROVE  x \in D /\ x \notin Genesis
      <3>1. x \in Digest /\ x \in {l} \cup s.dag /\ Open(s, x)
        BY <1>1, <2>1, LayerMembers
      <3>2. s.last_committed[origin[x]] \in Nat
        BY <1>1, <3>1, CertificateTypes DEF States
      <3> QED  BY <3>1, <3>2 DEF Sound, Open, Genesis
    <2> HIDE DEF X
    <2>5. ASSUME NEW d \in Digest, round[d] = round[l] - i, Open(s, d),
                 NEW x \in X, d \in parents[x]
          PROVE  d \in s.dag
      <3>1. d \in D
        BY <2>4, <2>5 DEF Closed
      <3>2. ~ Settled(s, d)
        <4>1. /\ round[d] \in Nat /\ origin[d] \in Authority
              /\ s.last_committed[origin[d]] \in Nat
          BY <1>1, CertificateTypes DEF States
        <4> QED  BY <1>2, <1>4, <2>5, <4>1 DEF Settled, Open
      <3> QED  BY <3>1, <3>2 DEF Sound
    <2>6. s.dag \subseteq Digest /\ Bare(s).dag = Digest
      BY <1>1, BareFacts DEF States
    <2>7. \A d : d \in NextLayer(s, l, X, i) <=> d \in NextLayer(Bare(s), l, X, i)
      BY <1>1, <2>5, <2>6, BareFacts DEF NextLayer, AtRound
    <2> QED  BY <2>3, <2>7 DEF NextLayer
  <1>5. \A i \in 1..round[l] : i - 1 \in G => i \in G
    BY <1>2, <1>4
  <1>6. k \in G
    <2> HIDE DEF G
    <2>1. \A i \in 0..round[l] : i \in G
      BY <1>2, <1>3, <1>5, UpTo
    <2> QED  BY <2>1
  <1> QED  BY <1>6

LEMMA OrderIsBare ==
    ASSUME NEW D \in SUBSET Digest, Closed(D), NEW s, NEW out, Sound(D, s, out),
           NEW l \in D
    PROVE  OrderDag(s, l) = OrderDag(Bare(s), l)
  <1> DEFINE lcr == s.last_committed_round
             X == {d \in SubDag(s, l) : round[d] + GCDepth >= lcr}
             Y == {d \in SubDag(Bare(s), l) : round[d] + GCDepth >= lcr}
  <1>1. s \in States /\ l \in Digest /\ Bare(s) \in States /\ round[l] \in Nat
    BY BareFacts, CertificateTypes DEF Sound
  <1>2. PICK f : /\ f[0] = {d \in {l} : Open(s, d)}
                 /\ \A k \in 1..round[l] : f[k] = NextLayer(s, l, f[k - 1], k)
                 /\ \A d : d \in SubDag(s, l) <=> \E k \in 0..round[l] : d \in f[k]
    BY <1>1, SubDagLayers
  <1>3. PICK g : /\ g[0] = {d \in {l} : Open(Bare(s), d)}
                 /\ \A k \in 1..round[l] : g[k] = NextLayer(Bare(s), l, g[k - 1], k)
                 /\ \A d : d \in SubDag(Bare(s), l) <=> \E k \in 0..round[l] : d \in g[k]
    BY <1>1, SubDagLayers
  <1>4. ASSUME NEW k \in 0..round[l], round[l] - k + GCDepth >= lcr  PROVE  f[k] = g[k]
    BY <1>2, <1>3, <1>4, LayersAgree
  <1>5. ASSUME NEW d \in X  PROVE  d \in Y
    <2>1. PICK k \in 0..round[l] : d \in f[k]
      BY <1>2
    <2>2. round[d] = round[l] - k
      BY <1>1, <1>2, <2>1, LayerMembers
    <2>3. f[k] = g[k]
      BY <1>4, <2>2
    <2> QED  BY <1>3, <2>1, <2>3
  <1>6. ASSUME NEW d \in Y  PROVE  d \in X
    <2>1. PICK k \in 0..round[l] : d \in g[k]
      BY <1>3
    <2>2. round[d] = round[l] - k
      BY <1>1, <1>3, <2>1, LayerMembers
    <2>3. f[k] = g[k]
      BY <1>4, <2>2
    <2> QED  BY <1>2, <2>1, <2>3
  <1>7. X = Y
    <2> HIDE DEF X, Y
    <2> QED  BY <1>5, <1>6
  <1>8. OrderDag(s, l) = Sorted(X)
    BY DEF OrderDag
  <1>9. OrderDag(Bare(s), l) = Sorted(Y)
    BY <1>1, BareFacts DEF OrderDag
  <1> QED  BY <1>7, <1>8, <1>9

(* The dag plays no part in what the updates make of the rest. *)
LEMMA UpdatedIsBare ==
    ASSUME NEW s \in States, MaxCommitted(s), NEW order \in Seq(Digest)
    PROVE  Bare(Updated(s, order)) = Bare(Updated(Bare(s), order))
  <1>1. Bare(s) \in States /\ MaxCommitted(Bare(s))
    BY BareFacts
  <1>2. PICK f : /\ f[0] = s
                 /\ \A i \in 1..Len(order) : f[i] = Update(f[i - 1], order[i])
                 /\ Updated(s, order) = f[Len(order)]
    BY UpdatedStages
  <1>3. PICK g : /\ g[0] = Bare(s)
                 /\ \A i \in 1..Len(order) : g[i] = Update(g[i - 1], order[i])
                 /\ Updated(Bare(s), order) = g[Len(order)]
    BY <1>1, UpdatedStages
  <1> DEFINE n == Len(order)
             G == {i \in 0..n : /\ f[i] \in States /\ MaxCommitted(f[i])
                                /\ g[i] \in States /\ MaxCommitted(g[i])
                                /\ Bare(f[i]) = Bare(g[i])}
  <1>4. n \in Nat /\ \A i \in 1..n : order[i] \in Digest
    OBVIOUS
  <1>5. 0 \in G
    <2>1. Bare(Bare(s)) = Bare(s)
      BY BareFacts DEF Bare
    <2> QED  BY <1>1, <1>2, <1>3, <1>4, <2>1
  <1>6. ASSUME NEW i \in 1..n, i - 1 \in G  PROVE  i \in G
    <2> DEFINE t == f[i - 1]
               u == g[i - 1]
               d == order[i]
    <2>1. /\ d \in Digest /\ f[i] = Update(t, d) /\ g[i] = Update(u, d)
          /\ t \in States /\ MaxCommitted(t) /\ u \in States /\ MaxCommitted(u)
          /\ Bare(t) = Bare(u)
      BY <1>2, <1>3, <1>4, <1>6
    <2> HIDE DEF t, u, d
    <2>2. /\ Update(t, d) \in States /\ MaxCommitted(Update(t, d))
          /\ Update(u, d) \in States /\ MaxCommitted(Update(u, d))
      BY <2>1, UpdateAdvances DEF Advances
    <2>3. t.last_committed = u.last_committed /\ t.missing = u.missing
      BY <2>1, BareFacts
    <2>4. Bare(Update(t, d)) = Bare(Update(u, d))
      <3> DEFINE last(v) == [v.last_committed EXCEPT
                               ![origin[d]] = IF @ > round[d] THEN @ ELSE round[d]]
                 lcr(v) == Max({last(v)[a] : a \in Authority})
      <3>1. ASSUME NEW v \in States
            PROVE  /\ Update(v, d).last_committed = last(v)
                   /\ Update(v, d).last_committed_round = lcr(v)
                   /\ Update(v, d).missing = v.missing
        <4>1. Update(v, d) = [v EXCEPT !.last_committed = last(v),
                                       !.last_committed_round = lcr(v),
                                       !.dag = {x \in @ : /\ round[x] >= last(v)[origin[x]]
                                                          /\ round[x] + GCDepth >= lcr(v)}]
          BY DEF Update
        <4> HIDE DEF last, lcr
        <4> QED  BY <4>1 DEF States
      <3>2. last(t) = last(u) /\ lcr(t) = lcr(u)
        BY <2>3
      <3> HIDE DEF last, lcr
      <3> QED  BY <2>1, <2>3, <3>1, <3>2 DEF Bare
    <2>5. i \in 0..n
      BY <1>4
    <2> QED  BY <2>1, <2>2, <2>4, <2>5
  <1>7. n \in G
    <2> HIDE DEF G
    <2>1. \A i \in 0..n : i \in G
      BY <1>4, <1>5, <1>6, UpTo
    <2> QED  BY <1>4, <2>1
  <1> QED  BY <1>2, <1>3, <1>7

------------------------------------------------------------------------------
(* The order follows the leaders *)

BatchType == [state : States, sequence : Seq(Digest)]

Start == [state |-> [last_committed_round |-> 0,
                     last_committed |-> [a \in Authority |-> 0],
                     dag |-> Digest, missing |-> FALSE],
          sequence |-> << >>]

(* Committing a leader as seen without the dag. *)
BareStep(b, l) ==
    [state |-> Bare(CommitLeader(b, l).state), sequence |-> CommitLeader(b, l).sequence]

(* h leads from the start to s and out by committing the leaders ls. *)
IsHistory(h, ls, s, out) ==
    /\ h \in [0..Len(ls) -> BatchType]
    /\ h[0] = Start
    /\ \A i \in 1..Len(ls) : h[i] = BareStep(h[i - 1], ls[i])
    /\ h[Len(ls)] = [state |-> Bare(s), sequence |-> out]

Ordered(ls, s, out) == \E h : IsHistory(h, ls, s, out)

(* A step of Flatten, without the dag and after what is committed before. *)
LEMMA StepIsBare ==
    ASSUME NEW D \in SUBSET Digest, Closed(D), NEW s \in States,
           NEW out \in Seq(Digest), NEW b \in Batches(D, s, out), NEW l \in D
    PROVE  BareStep([state |-> Bare(b.state), sequence |-> out \o b.sequence], l)
              = [state |-> Bare(CommitLeader(b, l).state),
                 sequence |-> out \o CommitLeader(b, l).sequence]
  <1> DEFINE c == [state |-> Bare(b.state), sequence |-> out \o b.sequence]
             o == OrderDag(b.state, l)
  <1>1. /\ b.state \in States /\ b.sequence \in Seq(Digest) /\ MaxCommitted(b.state)
        /\ Sound(D, b.state, out \o b.sequence) /\ l \in Digest
    BY DEF Batches, Sound
  <1>2. OrderDag(Bare(b.state), l) = o /\ o \in Seq(Digest)
    BY <1>1, OrderIsBare, CommitSound
  <1>3. c.state = Bare(b.state) /\ c.sequence = out \o b.sequence
    OBVIOUS
  <1> HIDE DEF c, o
  <1>4. Bare(Updated(b.state, o)) = Bare(Updated(Bare(b.state), o))
    BY <1>1, <1>2, UpdatedIsBare
  <1>5. CommitLeader(b, l) = [state |-> Updated(b.state, o), sequence |-> b.sequence \o o]
    BY DEF CommitLeader, o
  <1>6. CommitLeader(c, l) = [state |-> Updated(Bare(b.state), o),
                              sequence |-> (out \o b.sequence) \o o]
    BY <1>2, <1>3 DEF CommitLeader
  <1>7. (out \o b.sequence) \o o = out \o (b.sequence \o o)
    <2> DEFINE q == b.sequence
    <2>1. q \in Seq(Digest)
      BY <1>1
    <2> HIDE DEF q
    <2>2. (out \o q) \o o = out \o (q \o o)
      BY <1>2, <2>1, ConcatAssociative
    <2> QED  BY <2>2 DEF q
  <1>8. /\ CommitLeader(c, l).sequence = out \o CommitLeader(b, l).sequence
        /\ Bare(CommitLeader(c, l).state) = Bare(CommitLeader(b, l).state)
    <2>1. /\ CommitLeader(b, l).state = Updated(b.state, o)
          /\ CommitLeader(b, l).sequence = b.sequence \o o
      BY <1>5
    <2>2. /\ CommitLeader(c, l).state = Updated(Bare(b.state), o)
          /\ CommitLeader(c, l).sequence = (out \o b.sequence) \o o
      BY <1>6
    <2> QED  BY <1>4, <1>7, <2>1, <2>2
  <1> QED  BY <1>8 DEF c, BareStep

(* Committing a chain of leaders keeps the state sound and extends the     *)
(* history by the chain.                                                   *)
LEMMA ChainCommitted ==
    ASSUME NEW D \in SUBSET Digest, Closed(D), NEW s, NEW out, Sound(D, s, out),
           NEW ls \in Seq(Digest), Ordered(ls, s, out), NEW chain \in Seq(D)
    PROVE  LET b == Flatten(s, chain) IN
           /\ b.state \in States /\ b.sequence \in Seq(Digest)
           /\ Sound(D, b.state, out \o b.sequence)
           /\ b.state.missing = s.missing
           /\ Ordered(ls \o chain, b.state, out \o b.sequence)
  <1> DEFINE n == Len(ls)
             m == Len(chain)
             all == ls \o chain
  <1>1. PICK f : /\ f[0] = [state |-> s, sequence |-> << >>]
                 /\ \A i \in 1..m : f[i] = CommitLeader(f[i - 1], chain[i])
                 /\ \A i \in 0..m : f[i] \in Batches(D, s, out)
                 /\ Flatten(s, chain) = f[m]
    BY FlattenStages
  <1>2. PICK h : IsHistory(h, ls, s, out)
    BY DEF Ordered
  <1>3. /\ n \in Nat /\ m \in Nat /\ all \in Seq(Digest) /\ Len(all) = n + m
        /\ \A i \in 1..n : all[i] = ls[i]
        /\ \A i \in 1..m : all[n + i] = chain[i] /\ chain[i] \in D
    <2>1. chain \in Seq(Digest)
      BY SeqMonotonic
    <2>2. n \in Nat /\ m \in Nat
      OBVIOUS
    <2> QED  BY <2>1, <2>2, ConcatProperties
  <1>4. s \in States /\ out \in Seq(Digest)
    BY DEF Sound
  <1> HIDE DEF n, m, all
  <1> DEFINE k(i) == [state |-> Bare(f[i].state), sequence |-> out \o f[i].sequence]
             e == [i \in 0..(n + m) |-> IF i <= n THEN h[i] ELSE k(i - n)]
  <1>5. ASSUME NEW i \in 0..m
        PROVE  f[i].state \in States /\ f[i].sequence \in Seq(Digest) /\ k(i) \in BatchType
    <2>1. f[i].state \in States /\ f[i].sequence \in Seq(Digest)
      BY <1>1 DEF Batches
    <2>2. Bare(f[i].state) \in States /\ out \o f[i].sequence \in Seq(Digest)
      BY <1>4, <2>1, BareFacts, ConcatProperties
    <2> QED  BY <2>1, <2>2 DEF BatchType
  <1>6. /\ h \in [0..n -> BatchType] /\ h[0] = Start
        /\ \A i \in 1..n : h[i] = BareStep(h[i - 1], ls[i])
        /\ h[n] = [state |-> Bare(s), sequence |-> out]
    BY <1>2 DEF IsHistory, n
  <1>7. k(0) = h[n]
    <2>1. out \o << >> = out
      BY <1>4, ConcatEmptySeq
    <2> QED  BY <1>1, <1>6, <2>1
  <1>8. ASSUME NEW i \in 1..m  PROVE  k(i) = BareStep(k(i - 1), chain[i])
    <2>1. /\ f[i] = CommitLeader(f[i - 1], chain[i]) /\ chain[i] \in D
          /\ f[i - 1] \in Batches(D, s, out)
      BY <1>1, <1>3
    <2> QED  BY <1>4, <2>1, StepIsBare
  <1> HIDE DEF k
  <1>9. e \in [0..(n + m) -> BatchType] /\ e[0] = Start
    BY <1>3, <1>5, <1>6
  <1>10. \A i \in 0..m : e[n + i] = k(i)
    <2> SUFFICES ASSUME NEW i \in 0..m  PROVE  e[n + i] = k(i)
      OBVIOUS
    <2>1. CASE i = 0
      BY <1>3, <1>7, <2>1
    <2>2. CASE i # 0
      <3>1. n + i \in 0..(n + m) /\ ~ (n + i <= n) /\ (n + i) - n = i
        BY <1>3, <2>2
      <3> QED  BY <3>1
    <2> QED  BY <2>1, <2>2
  <1>11. \A i \in 0..n : e[i] = h[i]
    BY <1>3
  <1> HIDE DEF e
  <1>12. ASSUME NEW i \in 1..(n + m)  PROVE  e[i] = BareStep(e[i - 1], all[i])
    <2>1. CASE i <= n
      <3>1. i \in 1..n /\ i \in 0..n /\ i - 1 \in 0..n
        BY <1>3, <2>1
      <3> QED  BY <1>3, <1>6, <1>11, <3>1
    <2>2. CASE ~ (i <= n)
      <3> DEFINE j == i - n
      <3>1. /\ j \in 1..m /\ j \in 0..m /\ j - 1 \in 0..m
            /\ n + j = i /\ n + (j - 1) = i - 1
        BY <1>3, <2>2
      <3> HIDE DEF j
      <3>2. e[n + j] = k(j) /\ e[n + (j - 1)] = k(j - 1)
        BY <1>10, <3>1
      <3>3. all[n + j] = chain[j] /\ k(j) = BareStep(k(j - 1), chain[j])
        BY <1>3, <1>8, <3>1
      <3> QED  BY <3>1, <3>2, <3>3
    <2> QED  BY <2>1, <2>2
  <1> DEFINE b == f[m]
  <1>13. e[n + m] = [state |-> Bare(b.state), sequence |-> out \o b.sequence]
    <2>1. m \in 0..m
      BY <1>3
    <2>2. e[n + m] = k(m)
      BY <1>10, <2>1
    <2> QED  BY <2>2 DEF k
  <1>14. IsHistory(e, all, b.state, out \o b.sequence)
    BY <1>3, <1>9, <1>12, <1>13 DEF IsHistory
  <1>15. /\ b.state \in States /\ b.sequence \in Seq(Digest)
         /\ Sound(D, b.state, out \o b.sequence) /\ Advances(s, b.state)
    BY <1>1, <1>3 DEF Batches
  <1> QED  BY <1>1, <1>14, <1>15 DEF Ordered, Advances, all

StartsWith(t, first) == \E q \in Seq(Digest) : t = first \o q

(* What comes before in a history is a prefix of what comes after. *)
LEMMA HistoryExtends ==
    ASSUME NEW ls \in Seq(Digest), NEW s, NEW out, NEW h, IsHistory(h, ls, s, out),
           NEW i \in 0..Len(ls)
    PROVE  StartsWith(out, h[i].sequence)
  <1> DEFINE n == Len(ls)
             Extends(j) == \E q \in Seq(Digest) : h[i + j].sequence = h[i].sequence \o q
             G == {j \in 0..(n - i) : Extends(j)}
  <1>1. n \in Nat /\ \A j \in 0..n : h[j] \in BatchType /\ h[j].sequence \in Seq(Digest)
    <2>1. n \in Nat
      OBVIOUS
    <2> QED  BY <2>1 DEF IsHistory, BatchType
  <1> HIDE DEF n
  <1>2. i \in 0..n /\ n - i \in Nat /\ h[i].sequence \in Seq(Digest)
    BY <1>1 DEF n
  <1>3. 0 \in G
    <2>1. h[i].sequence = h[i].sequence \o << >> /\ << >> \in Seq(Digest)
      BY <1>2, ConcatEmptySeq, EmptySeq
    <2>2. i + 0 = i
      BY <1>2
    <2>3. Extends(0)
      BY <2>1, <2>2
    <2> QED  BY <1>2, <2>3
  <1>4. ASSUME NEW j \in 1..(n - i), j - 1 \in G  PROVE  j \in G
    <2>1. /\ j \in 0..(n - i) /\ i + j \in 1..n /\ i + j \in 0..n
          /\ i + (j - 1) = (i + j) - 1 /\ i + (j - 1) \in 0..n
      BY <1>1, <1>2
    <2> DEFINE b == h[i + (j - 1)]
               l == ls[i + j]
               o == OrderDag(b.state, l)
    <2>2. h[i + j] = BareStep(b, l) /\ l \in Digest
      BY <2>1 DEF IsHistory, n
    <2>3. b.state \in States /\ b.sequence \in Seq(Digest)
      BY <1>1, <2>1 DEF BatchType
    <2>4. h[i + j].sequence = b.sequence \o o
      <3>1. h[i + j].sequence = CommitLeader(b, l).sequence
        BY <2>2 DEF BareStep
      <3>2. CommitLeader(b, l).sequence = b.sequence \o o
        BY DEF CommitLeader
      <3> QED  BY <3>1, <3>2
    <2>5. o \in Seq(Digest)
      BY <2>2, <2>3, OrderDagFacts
    <2>6. PICK q \in Seq(Digest) : b.sequence = h[i].sequence \o q
      BY <1>4
    <2> DEFINE first == h[i].sequence
    <2>7. first \in Seq(Digest)
      BY <1>2
    <2>8. h[i + j].sequence = (first \o q) \o o
      BY <2>4, <2>6
    <2> HIDE DEF b, o, first
    <2>9. (first \o q) \o o = first \o (q \o o) /\ q \o o \in Seq(Digest)
      <3>1. (first \o q) \o o = first \o (q \o o)
        BY <2>5, <2>7, ConcatAssociative
      <3>2. q \o o \in Seq(Digest)
        BY <2>5, ConcatProperties
      <3> QED  BY <3>1, <3>2
    <2>10. Extends(j)
      BY <2>8, <2>9 DEF first
    <2> QED  BY <2>1, <2>10
  <1>5. n - i \in G
    <2> HIDE DEF G
    <2>1. \A j \in 0..(n - i) : j \in G
      BY <1>2, <1>3, <1>4, UpTo
    <2> QED  BY <1>2, <2>1
  <1>6. h[n].sequence = out /\ i + (n - i) = n
    BY <1>1, <1>2 DEF IsHistory, n
  <1> QED  BY <1>5, <1>6 DEF StartsWith

(* If the leaders of one are a prefix of the leaders of the other, so is   *)
(* what they committed.                                                    *)
LEMMA HistoryPrefix ==
    ASSUME NEW ls \in Seq(Digest), NEW s, NEW out \in Seq(Digest), Ordered(ls, s, out),
           NEW ks \in Seq(Digest), NEW t, NEW res \in Seq(Digest), Ordered(ks, t, res),
           IsPrefix(ls, ks)
    PROVE  IsPrefix(out, res)
  <1>1. PICK h : IsHistory(h, ls, s, out)
    BY DEF Ordered
  <1>2. PICK g : IsHistory(g, ks, t, res)
    BY DEF Ordered
  <1> DEFINE n == Len(ls)
  <1>3. n \in Nat /\ Len(ks) \in Nat /\ n <= Len(ks)
    BY DEF IsPrefix
  <1>4. ASSUME NEW i \in 1..n  PROVE  ls[i] = ks[i] /\ i \in 1..Len(ks)
    <2>1. i \in 1..Len(ks)
      BY <1>3
    <2>2. SubSeq(ls, 1, n) = SubSeq(ks, 1, n)
      BY DEF IsPrefix
    <2>3. \A j \in 1..n : ls[j] \in Digest /\ ks[j] \in Digest
      BY <1>3
    <2> HIDE DEF n
    <2>4. SubSeq(ls, 1, n)[i] = ls[1 + i - 1] /\ SubSeq(ks, 1, n)[i] = ks[1 + i - 1]
      <3>1. i \in 1..(n - 1 + 1) /\ 1 \in Int /\ n \in Int
        BY <1>3
      <3> QED  BY <2>3, <3>1, SubSeqProperties
    <2>5. 1 + i - 1 = i
      BY <1>3
    <2> QED  BY <2>1, <2>2, <2>4, <2>5
  <1> DEFINE G == {i \in 0..n : h[i] = g[i]}
  <1>5. 0 \in G
    BY <1>1, <1>2, <1>3 DEF IsHistory
  <1>6. ASSUME NEW i \in 1..n, i - 1 \in G  PROVE  i \in G
    <2>1. h[i] = BareStep(h[i - 1], ls[i])
      BY <1>1 DEF IsHistory
    <2>2. g[i] = BareStep(g[i - 1], ks[i])
      BY <1>2, <1>4 DEF IsHistory
    <2> QED  BY <1>3, <1>4, <1>6, <2>1, <2>2
  <1>7. n \in G
    <2> HIDE DEF G
    <2>1. \A i \in 0..n : i \in G
      BY <1>3, <1>5, <1>6, UpTo
    <2> QED  BY <1>3, <2>1
  <1>8. g[n].sequence = out
    BY <1>1, <1>7 DEF IsHistory
  <1>9. PICK q \in Seq(Digest) : res = out \o q
    <2>1. n \in 0..Len(ks)
      BY <1>3
    <2> HIDE DEF n
    <2>2. StartsWith(res, g[n].sequence)
      BY <1>2, <2>1, HistoryExtends
    <2> QED  BY <1>8, <2>2 DEF StartsWith
  <1>10. /\ Len(res) = Len(out) + Len(q) /\ Len(out) \in Nat /\ Len(q) \in Nat
         /\ \A i \in 1..Len(out) : res[i] = out[i] /\ out[i] \in Digest
    BY <1>9, ConcatProperties
  <1> DEFINE u == SubSeq(out, 1, Len(out))
             v == SubSeq(res, 1, Len(out))
  <1>11. /\ u \in Seq(Digest) /\ v \in Seq(Digest) /\ Len(u) = Len(v)
         /\ \A i \in 1..Len(u) : u[i] = v[i]
    <2>1. 1 \in Int /\ Len(out) \in Int
      BY <1>10
    <2>2. /\ u \in Seq(Digest) /\ Len(u) = IF 1 <= Len(out) THEN Len(out) - 1 + 1 ELSE 0
          /\ \A i \in 1..(Len(out) - 1 + 1) : u[i] = out[1 + i - 1]
      BY <1>10, <2>1, SubSeqProperties
    <2>3. /\ v \in Seq(Digest) /\ Len(v) = IF 1 <= Len(out) THEN Len(out) - 1 + 1 ELSE 0
          /\ \A i \in 1..(Len(out) - 1 + 1) : v[i] = res[1 + i - 1]
      BY <1>10, <2>1, SubSeqProperties
    <2> HIDE DEF u, v
    <2>4. Len(u) = Len(out) /\ Len(v) = Len(out)
      BY <1>10, <2>2, <2>3
    <2>5. ASSUME NEW i \in 1..Len(out)  PROVE  u[i] = v[i]
      <3>1. i \in 1..(Len(out) - 1 + 1) /\ 1 + i - 1 = i
        BY <1>10
      <3> QED  BY <1>10, <2>2, <2>3, <3>1
    <2> QED  BY <2>2, <2>3, <2>4, <2>5
  <1> HIDE DEF u, v
  <1>12. u = v
    BY <1>11, SeqEqual
  <1> QED  BY <1>10, <1>12 DEF IsPrefix, u, v

------------------------------------------------------------------------------
(* A certificate and its history *)

(* A slot holds one certificate; genesis certificates are never committed. *)
OneSlot(D, E) ==
    \A x \in D, y \in E :
        origin[x] = origin[y] /\ round[x] = round[y] => x = y \/ round[x] = 0

(* Adding a certificate displaces none that could still be committed. *)
LEMMA InsertSound ==
    ASSUME NEW D \in SUBSET Digest, NEW s, NEW out, Sound(D, s, out),
           NEW d \in Digest, OneSlot(D \cup {d}, D \cup {d})
    PROVE  /\ Sound(D \cup {d}, Insert(s, d), out)
           /\ Insert(s, d).last_committed_round = s.last_committed_round
           /\ Insert(s, d).missing = s.missing
           /\ Bare(Insert(s, d)) = Bare(s)
  <1> DEFINE t == Insert(s, d)
             kept == {x \in s.dag : origin[x] # origin[d] \/ round[x] # round[d]} \cup {d}
  <1>1. s \in States
    BY DEF Sound
  <1>2. /\ t \in States /\ t.last_committed = s.last_committed
        /\ t.last_committed_round = s.last_committed_round
        /\ t.missing = s.missing /\ t.dag = kept
    BY <1>1 DEF Insert, States
  <1> HIDE DEF t
  <1>3. \A x : Settled(t, x) <=> Settled(s, x)
    BY <1>2 DEF Settled
  <1>4. ASSUME NEW x \in D \cup {d}  PROVE  x \in t.dag \/ Settled(t, x)
    <2>1. CASE x = d \/ Settled(s, x)
      BY <1>2, <1>3, <2>1
    <2>2. CASE x # d /\ ~ Settled(s, x)
      <3>1. x \in D /\ x \in s.dag /\ x \in Digest
        BY <2>2 DEF Sound
      <3>2. round[x] \in Nat /\ s.last_committed[origin[x]] \in Nat
        BY <1>1, <3>1, CertificateTypes DEF States
      <3>3. round[x] # 0
        BY <2>2, <3>2 DEF Settled
      <3>4. origin[x] # origin[d] \/ round[x] # round[d]
        BY <2>2, <3>3 DEF OneSlot
      <3> QED  BY <1>2, <3>1, <3>4
    <2> QED  BY <2>1, <2>2
  <1>5. MaxCommitted(t) /\ t.dag \subseteq D \cup {d}
    BY <1>2 DEF MaxCommitted, Sound
  <1>6. Sound(D \cup {d}, t, out)
    BY <1>2, <1>3, <1>4, <1>5 DEF Sound
  <1>7. Bare(t) = Bare(s)
    BY <1>2 DEF Bare
  <1> QED  BY <1>2, <1>6, <1>7 DEF t

(* A quorum has a member, and meets every set of f+1 stake. *)
LEMMA QuorumMeets ==
    ASSUME NEW S \in SUBSET Authority, IsQuorum(S)
    PROVE  /\ S # {}
           /\ \A T \in SUBSET Authority :
                 StakeOf(T) >= ValidityThreshold => S \cap T # {}
  <1>1. StakeOf({}) = 0
    <2>1. Units({}) = {}
      BY DEF Units
    <2> QED  BY <2>1, FS_EmptySet DEF StakeOf
  <1>2. TotalStake \in Nat
    BY StakeType DEF TotalStake
  <1>3. S # {}
    BY <1>1, <1>2 DEF IsQuorum, QuorumThreshold
  <1>4. ASSUME NEW T \in SUBSET Authority, StakeOf(T) >= ValidityThreshold,
               S \cap T = {}
        PROVE  FALSE
    <2>1. StakeOf(S \cup T) = StakeOf(S) + StakeOf(T)
      <3>1. StakeOf(S \cup T) = StakeOf(S) + StakeOf(T) - StakeOf(S \cap T)
        BY StakeUnion
      <3>2. StakeOf(S) \in Nat /\ StakeOf(T) \in Nat
        BY StakeType
      <3>3. StakeOf(S \cap T) = 0
        BY <1>1, <1>4, Zenon
      <3> QED  BY <3>1, <3>2, <3>3
    <2>2. StakeOf(S \cup T) <= TotalStake
      BY StakeMonotone DEF TotalStake
    <2>3. StakeOf(S) \in Nat /\ StakeOf(T) \in Nat
      BY StakeType
    <2> QED  BY <1>2, <1>4, <2>1, <2>2, <2>3
             DEF IsQuorum, QuorumThreshold, ValidityThreshold
  <1> QED  BY <1>3, <1>4

ParentOrigins(d) == {origin[p] : p \in parents[d]}

LEMMA ParentQuorum ==
    ASSUME NEW d \in Digest \ Genesis
    PROVE  /\ ParentOrigins(d) \in SUBSET Authority /\ IsQuorum(ParentOrigins(d))
           /\ parents[d] # {} /\ parents[d] \subseteq Digest
           /\ \A p \in parents[d] : round[p] + 1 = round[d]
  <1>1. parents[d] \subseteq Digest /\ \A p \in parents[d] : origin[p] \in Authority
    BY CertificateTypes
  <1>2. ParentOrigins(d) \in SUBSET Authority
    BY <1>1 DEF ParentOrigins
  <1>3. IsQuorum(ParentOrigins(d))
    BY TuskAssumption DEF ParentOrigins
  <1>4. ParentOrigins(d) # {}
    BY <1>2, <1>3, QuorumMeets
  <1> QED  BY <1>1, <1>2, <1>3, <1>4, CertificateTypes DEF ParentOrigins

(* Whoever was sent a certificate was sent some of every round below. *)
LEMMA RoundsBelow ==
    ASSUME NEW D \in SUBSET Digest, Closed(D), NEW d \in D, NEW k \in 0..round[d]
    PROVE  \E x \in D : round[x] = k
  <1> DEFINE n == round[d]
             G == {i \in 0..n : \E x \in D : round[x] = n - i}
  <1>1. n \in Nat
    BY CertificateTypes
  <1>2. 0 \in G
    BY <1>1
  <1>3. ASSUME NEW i \in 1..n, i - 1 \in G  PROVE  i \in G
    <2>1. PICK x \in D : round[x] = n - (i - 1)
      BY <1>3
    <2>2. x \in Digest \ Genesis
      BY <1>1, <2>1 DEF Genesis
    <2>3. PICK p \in parents[x] : round[p] + 1 = round[x] /\ p \in Digest
      BY <2>2, ParentQuorum
    <2>4. p \in D /\ round[p] \in Nat
      BY <2>2, <2>3, CertificateTypes DEF Closed
    <2>5. round[p] = n - i /\ i \in 0..n
      BY <1>1, <2>1, <2>3, <2>4
    <2> QED  BY <2>4, <2>5
  <1>4. n - k \in 0..n /\ n - (n - k) = k
    BY <1>1
  <1>5. n - k \in G
    <2> HIDE DEF G
    <2>1. \A i \in 0..n : i \in G
      BY <1>1, <1>2, <1>3, UpTo
    <2> QED  BY <1>4, <2>1
  <1>6. PICK x \in D : round[x] = n - (n - k)
    BY <1>5
  <1> QED  BY <1>4, <1>6

(* Above the last commit the dag holds some certificate of every round. *)
LEMMA DagReaches ==
    ASSUME NEW D \in SUBSET Digest, Closed(D), NEW s, NEW out, Sound(D, s, out),
           NEW d \in D, NEW k \in 0..round[d], s.last_committed_round < k
    PROVE  AtRound(s.dag, k) # {}
  <1>1. PICK x \in D : round[x] = k
    BY RoundsBelow
  <1>2. /\ s \in States /\ x \in Digest /\ origin[x] \in Authority /\ GCDepth \in Nat
        /\ round[x] \in Nat /\ s.last_committed[origin[x]] \in Nat
        /\ s.last_committed_round \in Nat
        /\ s.last_committed[origin[x]] <= s.last_committed_round
    BY CertificateTypes DEF Sound, States, MaxCommitted
  <1>3. ~ Settled(s, x)
    BY <1>1, <1>2 DEF Settled
  <1>4. x \in s.dag
    BY <1>3 DEF Sound
  <1> QED  BY <1>1, <1>4 DEF AtRound

(* The history the expect() calls ask for is there. *)
LEMMA HistoryHeld ==
    ASSUME NEW D \in SUBSET Digest, Closed(D), NEW s, NEW out, Sound(D, s, out),
           NEW d \in D, NEW l \in Elected(s, d)
    PROVE  ~ HistoryMissing(s, l)
  <1>1. s \in States /\ s.last_committed_round \in Nat /\ s.dag \subseteq Digest
    BY DEF Sound, States
  <1>2. /\ l \in s.dag /\ round[l] = round[d] - 1 - 2 /\ round[d] - 1 >= 4
        /\ round[l] > s.last_committed_round
    BY DEF Elected, Leader
  <1>3. round[d] \in Nat /\ round[l] \in Nat
    BY <1>1, <1>2, CertificateTypes
  <1>4. ASSUME NEW k \in Int, s.last_committed_round < k, k <= round[d]
        PROVE  AtRound(s.dag, k) # {}
    <2>1. k \in 0..round[d]
      BY <1>1, <1>3, <1>4
    <2> QED  BY <1>4, <2>1, DagReaches
  <1>5. AtRound(s.dag, round[l] + 1) # {}
    <2>1. round[l] + 1 \in Int /\ s.last_committed_round < round[l] + 1
          /\ round[l] + 1 <= round[d]
      BY <1>1, <1>2, <1>3
    <2> QED  BY <1>4, <2>1
  <1>6. ASSUME NEW p \in Range(StepDown(s.last_committed_round + 2, round[l])),
               NEW r \in p..round[l]
        PROVE  AtRound(s.dag, r) # {}
    <2>1. s.last_committed_round + 2 \in Nat
      BY <1>1
    <2>2. p \in Nat /\ s.last_committed_round + 2 <= p
      BY <1>3, <2>1, StepDownFacts
    <2>3. r \in Int /\ s.last_committed_round < r /\ r <= round[d]
      BY <1>1, <1>2, <1>3, <2>2
    <2> QED  BY <1>4, <2>3
  <1> QED  BY <1>5, <1>6 DEF HistoryMissing

------------------------------------------------------------------------------
(* The inductive invariant *)

(* f+1 stake of certificates in D link to l. *)
Supporting(D, l) ==
    \E X \in SUBSET D :
        /\ \A x \in X : round[x] = round[l] + 1 /\ l \in parents[x]
        /\ StakeOf({origin[x] : x \in X}) >= ValidityThreshold

(* A replica that was sent D, in state s, committed out by the leaders ls. *)
ReplicaInv(D, s, out, ls) ==
    /\ Sound(D, s, out)
    /\ ~ s.missing
    /\ Ordered(ls, s, out)
    /\ ls # << >> => Supporting(D, Last(ls))

TuskTypes ==
    /\ state \in [Replica -> States]
    /\ delivered \in [Replica -> SUBSET Digest]
    /\ duplicates \in [Replica -> SUBSET Again]
    /\ output \in [Replica -> Seq(Digest)]
    /\ leaders \in [Replica -> Seq(Digest)]

TuskInv ==
    /\ TuskTypes
    /\ \A r \in Replica : ReplicaInv(delivered[r], state[r], output[r], leaders[r])
    /\ \A r \in Replica : Closed(delivered[r])
    /\ \A r, q \in Replica : OneSlot(delivered[r], delivered[q])

(* The supporters stay, and so does what they support. *)
LEMMA ReplicaInvGrows ==
    ASSUME NEW D, NEW E, D \subseteq E, NEW l, Supporting(D, l)
    PROVE  Supporting(E, l)
  BY DEF Supporting

(* The body of Consensus::run keeps the invariant of its replica. *)
LEMMA ProcessKeeps ==
    ASSUME TuskInv, NEW r \in Replica, NEW d \in Digest, NEW E,
           E = delivered[r] \cup {d}, Closed(E), OneSlot(E, E), Process(r, d)
    PROVE  \E s \in States, out \in Seq(Digest), ls \in Seq(Digest) :
              /\ state' = [state EXCEPT ![r] = s]
              /\ output' = [output EXCEPT ![r] = out]
              /\ leaders' = [leaders EXCEPT ![r] = ls]
              /\ ReplicaInv(E, s, out, ls)
  <1> DEFINE D == delivered[r]
             s == Insert(state[r], d)
             out == output[r]
             ls == leaders[r]
             ready == {l \in Elected(s, d) : Supported(s, l)}
  <1>1. /\ D \in SUBSET Digest /\ E \in SUBSET Digest /\ d \in E /\ D \subseteq E
        /\ state[r] \in States /\ out \in Seq(Digest) /\ ls \in Seq(Digest)
        /\ ReplicaInv(D, state[r], out, ls)
    BY DEF TuskInv, TuskTypes
  <1>2. Sound(D, state[r], out) /\ ~ state[r].missing /\ Ordered(ls, state[r], out)
    BY <1>1 DEF ReplicaInv
  <1>3. /\ Sound(E, s, out) /\ s.missing = state[r].missing /\ Bare(s) = Bare(state[r])
    <2> DEFINE t == state[r]
    <2>1. Sound(D, t, out) /\ OneSlot(D \cup {d}, D \cup {d})
      BY <1>2
    <2>2. D \in SUBSET Digest
      BY <1>1
    <2> HIDE DEF t, D, out
    <2>3. /\ Sound(D \cup {d}, Insert(t, d), out)
          /\ Insert(t, d).missing = t.missing /\ Bare(Insert(t, d)) = Bare(t)
      BY <2>1, <2>2, InsertSound
    <2> QED  BY <2>3 DEF t, D
  <1>4. Ordered(ls, s, out)
    BY <1>2, <1>3 DEF Ordered, IsHistory
  <1>5. s \in States /\ s.dag \subseteq E
    BY <1>3 DEF Sound
  <1>6. ls # << >> => Supporting(E, Last(ls))
    BY <1>1, ReplicaInvGrows DEF ReplicaInv
  <1>7. \A l \in Elected(s, d) : ~ HistoryMissing(s, l)
    <2> HIDE DEF s
    <2> QED  BY <1>1, <1>3, HistoryHeld
  <1>8. /\ output = [output EXCEPT ![r] = out]
        /\ leaders = [leaders EXCEPT ![r] = ls]
    BY DEF TuskInv, TuskTypes
  <1>9. CASE ready = {}
    <2>1. state' = [state EXCEPT ![r] = s] /\ output' = output /\ leaders' = leaders
      BY <1>7, <1>9 DEF Process
    <2>2. ReplicaInv(E, s, out, ls)
      BY <1>2, <1>3, <1>4, <1>6 DEF ReplicaInv
    <2> HIDE DEF s, out, ls
    <2> QED  BY <1>1, <1>5, <1>8, <2>1, <2>2
  <1>10. CASE ready # {}
    <2> DEFINE l == CHOOSE l \in ready : TRUE
               chain == Reverse(OrderLeaders(s, l))
               batch == Flatten(s, chain)
    <2>1. CommitFrom(r, s, l)
      BY <1>7, <1>10 DEF Process
    <2>2. l \in Elected(s, d) /\ Supported(s, l)
      BY <1>10
    <2> HIDE DEF l, s
    <2>3. l \in s.dag /\ l \in E /\ l \in Digest
      BY <1>1, <1>5, <2>2 DEF Elected, Leader
    <2>4. /\ state' = [state EXCEPT ![r] = batch.state]
          /\ output' = [output EXCEPT ![r] = out \o batch.sequence]
          /\ leaders' = [leaders EXCEPT ![r] = ls \o chain]
      BY <2>1 DEF CommitFrom
    <2>5. chain \in Seq(E) /\ Len(chain) \in Nat \ {0} /\ chain[Len(chain)] = l
      <3>1. E \in SUBSET Digest /\ s \in States /\ s.dag \subseteq E /\ l \in E
        BY <1>1, <1>5, <2>3
      <3> QED  BY <3>1, ChainFacts, ZenonT(60)
    <2> HIDE DEF chain
    <2>6. /\ batch.state \in States /\ batch.sequence \in Seq(Digest)
          /\ Sound(E, batch.state, out \o batch.sequence)
          /\ batch.state.missing = s.missing
          /\ Ordered(ls \o chain, batch.state, out \o batch.sequence)
      BY <1>1, <1>3, <1>4, <2>5, ChainCommitted
    <2> HIDE DEF batch
    <2>7. ls \o chain \in Seq(Digest) /\ Last(ls \o chain) = l
      <3>1. chain \in Seq(Digest) /\ Len(ls) \in Nat
        BY <1>1, <2>5, SeqMonotonic
      <3>2. /\ ls \o chain \in Seq(Digest) /\ Len(ls \o chain) = Len(ls) + Len(chain)
            /\ \A i \in 1..(Len(ls) + Len(chain)) :
                  (ls \o chain)[i] = IF i <= Len(ls) THEN ls[i] ELSE chain[i - Len(ls)]
        BY <1>1, <3>1, ConcatProperties
      <3> DEFINE i == Len(ls) + Len(chain)
      <3>3. i \in 1..(Len(ls) + Len(chain)) /\ ~ (i <= Len(ls)) /\ i - Len(ls) = Len(chain)
        BY <2>5, <3>1
      <3>4. (ls \o chain)[i] = chain[Len(chain)]
        BY <3>2, <3>3
      <3> QED  BY <2>5, <3>2, <3>4 DEF Last
    <2>8. Supporting(E, l)
      <3> DEFINE X == {x \in AtRound(s.dag, round[l] + 1) : l \in parents[x]}
      <3>1. X \in SUBSET E /\ \A x \in X : round[x] = round[l] + 1 /\ l \in parents[x]
        BY <1>5 DEF AtRound
      <3>2. StakeOf({origin[x] : x \in X}) >= ValidityThreshold
        BY <2>2 DEF Supported, Support
      <3> HIDE DEF X
      <3> QED  BY <3>1, <3>2 DEF Supporting
    <2>9. out \o batch.sequence \in Seq(Digest)
      BY <1>1, <2>6, ConcatProperties
    <2>10. ReplicaInv(E, batch.state, out \o batch.sequence, ls \o chain)
      BY <1>2, <1>3, <2>6, <2>7, <2>8 DEF ReplicaInv
    <2> HIDE DEF out, ls
    <2> QED  BY <2>4, <2>6, <2>7, <2>9, <2>10
  <1> QED  BY <1>9, <1>10

LEMMA TuskInit == Init => TuskInv
  <1> SUFFICES ASSUME Init  PROVE  TuskInv
    OBVIOUS
  <1> DEFINE s == [last_committed_round |-> 0,
                   last_committed |-> [a \in Authority |-> 0],
                   dag |-> Genesis, missing |-> FALSE]
  <1>1. s \in States /\ Genesis \subseteq Digest /\ Bare(s) \in States
    BY BareFacts DEF States, Genesis
  <1>2. TuskTypes
    <2>1. << >> \in Seq(Digest)
      OBVIOUS
    <2> QED  BY <1>1, <2>1 DEF Init, TuskTypes
  <1>3. Sound(Genesis, s, << >>)
    BY <1>1 DEF Sound, MaxCommitted
  <1>4. Ordered(<< >>, s, << >>)
    <2> DEFINE h == [i \in 0..0 |-> Start]
    <2>1. Start = [state |-> Bare(s), sequence |-> << >>]
      BY DEF Start, Bare
    <2>2. Start \in BatchType
      BY <1>1, <2>1 DEF BatchType
    <2>3. IsHistory(h, << >>, s, << >>)
      <3> HIDE DEF s
      <3> QED  BY <2>1, <2>2 DEF IsHistory
    <2> QED  BY <2>3 DEF Ordered
  <1>5. ReplicaInv(Genesis, s, << >>, << >>)
    BY <1>3, <1>4 DEF ReplicaInv
  <1>6. Closed(Genesis) /\ OneSlot(Genesis, Genesis)
    BY CertificateTypes DEF Closed, OneSlot
  <1> QED  BY <1>2, <1>5, <1>6 DEF Init, TuskInv

(* What Deliver and Redeliver have in common. *)
LEMMA SentKeeps ==
    ASSUME TuskInv, NEW r \in Replica, NEW d \in Digest, NEW E,
           E = delivered[r] \cup {d}, Closed(E), OneSlot(E, E), Process(r, d),
           \A q \in Replica : OneSlot(E, delivered[q]) /\ OneSlot(delivered[q], E),
           delivered' = [delivered EXCEPT ![r] = E],
           duplicates' \in [Replica -> SUBSET Again]
    PROVE  TuskInv'
  <1>1. PICK s \in States, out \in Seq(Digest), ls \in Seq(Digest) :
           /\ state' = [state EXCEPT ![r] = s]
           /\ output' = [output EXCEPT ![r] = out]
           /\ leaders' = [leaders EXCEPT ![r] = ls]
           /\ ReplicaInv(E, s, out, ls)
    BY ProcessKeeps
  <1>2. TuskTypes
    BY DEF TuskInv
  <1>3. TuskTypes'
    BY <1>1, <1>2 DEF TuskTypes
  <1>4. ASSUME NEW q \in Replica
        PROVE  /\ delivered'[q] = IF q = r THEN E ELSE delivered[q]
               /\ state'[q] = IF q = r THEN s ELSE state[q]
               /\ output'[q] = IF q = r THEN out ELSE output[q]
               /\ leaders'[q] = IF q = r THEN ls ELSE leaders[q]
    BY <1>1, <1>2 DEF TuskTypes
  <1>5. ASSUME NEW q \in Replica
        PROVE  ReplicaInv(delivered'[q], state'[q], output'[q], leaders'[q])
    <2>1. CASE q = r
      BY <1>1, <1>4, <2>1
    <2>2. CASE q # r
      <3>1. /\ delivered'[q] = delivered[q] /\ state'[q] = state[q]
            /\ output'[q] = output[q] /\ leaders'[q] = leaders[q]
        BY <1>4, <2>2
      <3>2. ReplicaInv(delivered[q], state[q], output[q], leaders[q])
        BY DEF TuskInv
      <3> QED  BY <3>1, <3>2
    <2> QED  BY <2>1, <2>2
  <1>6. \A q \in Replica : Closed(delivered'[q])
    BY <1>4 DEF TuskInv
  <1>7. \A p, q \in Replica : OneSlot(delivered'[p], delivered'[q])
    <2>1. \A p, q \in Replica : OneSlot(delivered[p], delivered[q])
      BY DEF TuskInv
    <2>2. \A q \in Replica : delivered'[q] = IF q = r THEN E ELSE delivered[q]
      BY <1>4
    <2> QED  BY <2>1, <2>2
  <1>8. (\A q \in Replica : ReplicaInv(delivered[q], state[q], output[q], leaders[q]))'
    BY <1>5
  <1> QED  BY <1>3, <1>6, <1>7, <1>8 DEF TuskInv

LEMMA DeliverKeeps ==
    ASSUME TuskInv, NEW r \in Replica, Deliver(r)
    PROVE  TuskInv'
  <1>1. PICK d \in Digest \ delivered[r] :
           /\ parents[d] \subseteq delivered[r] /\ SlotFree(d) /\ Process(r, d)
           /\ delivered' = [delivered EXCEPT ![r] = @ \cup {d}]
           /\ UNCHANGED duplicates
    BY DEF Deliver
  <1> DEFINE E == delivered[r] \cup {d}
  <1>2. Closed(E)
    BY <1>1 DEF TuskInv, Closed
  <1>3. ASSUME NEW q \in Replica
        PROVE  OneSlot(E, delivered[q]) /\ OneSlot(delivered[q], E)
    BY <1>1 DEF TuskInv, OneSlot, SlotFree
  <1>4. OneSlot(E, E)
    BY <1>1, <1>3 DEF OneSlot
  <1>5. delivered' = [delivered EXCEPT ![r] = E] /\ duplicates' \in [Replica -> SUBSET Again]
    BY <1>1 DEF TuskInv, TuskTypes
  <1> QED  BY <1>1, <1>2, <1>3, <1>4, <1>5, SentKeeps

LEMMA RedeliverKeeps ==
    ASSUME TuskInv, NEW r \in Replica, Redeliver(r)
    PROVE  TuskInv'
  <1>1. PICK d \in (delivered[r] \cap Again) \ duplicates[r] :
           /\ Process(r, d)
           /\ duplicates' = [duplicates EXCEPT ![r] = @ \cup {d}]
           /\ UNCHANGED delivered
    BY DEF Redeliver
  <1> DEFINE E == delivered[r] \cup {d}
  <1>2. E = delivered[r] /\ d \in Digest
    BY <1>1 DEF TuskInv, TuskTypes
  <1>3. Closed(E) /\ OneSlot(E, E)
    BY <1>2 DEF TuskInv
  <1>4. \A q \in Replica : OneSlot(E, delivered[q]) /\ OneSlot(delivered[q], E)
    BY <1>2 DEF TuskInv
  <1>5. delivered' = [delivered EXCEPT ![r] = E] /\ duplicates' \in [Replica -> SUBSET Again]
    BY <1>1, <1>2 DEF TuskInv, TuskTypes
  <1> QED  BY <1>1, <1>2, <1>3, <1>4, <1>5, SentKeeps

LEMMA TuskStep == TuskInv /\ [Next]_vars => TuskInv'
  <1> SUFFICES ASSUME TuskInv, [Next]_vars  PROVE  TuskInv'
    OBVIOUS
  <1>1. ASSUME NEW r \in Replica, Deliver(r)  PROVE  TuskInv'
    BY <1>1, DeliverKeeps
  <1>2. ASSUME NEW r \in Replica, Redeliver(r)  PROVE  TuskInv'
    BY <1>2, RedeliverKeeps
  <1>3. CASE UNCHANGED vars
    BY <1>3 DEF vars, TuskInv, TuskTypes
  <1> QED  BY <1>1, <1>2, <1>3 DEF Next

LEMMA TuskInvariant == Spec => []TuskInv
  BY TuskInit, TuskStep, PTL DEF Spec

------------------------------------------------------------------------------
(* Paths in the dag *)

(* path leads from d, by parents, to x in n steps. *)
IsPath(path, n, d, x) ==
    /\ path \in [0..n -> Digest] /\ path[0] = d /\ path[n] = x
    /\ \A i \in 1..n : path[i] \in parents[path[i - 1]]

Reaches(d, x) == \E n \in Nat : \E path : IsPath(path, n, d, x)

IsAncestors(f) ==
    f = [d \in Digest |-> {d} \cup UNION {f[p] : p \in parents[d]}]

(* A path from a parent of d extends to a path from d. *)
LEMMA PathExtends ==
    ASSUME NEW d \in Digest, NEW p \in parents[d], NEW x, Reaches(p, x)
    PROVE  Reaches(d, x)
  <1>0. PICK n \in Nat : \E path : IsPath(path, n, p, x)
    BY DEF Reaches
  <1>1. PICK path : IsPath(path, n, p, x)
    BY <1>0
  <1> DEFINE longer == [i \in 0..(n + 1) |-> IF i = 0 THEN d ELSE path[i - 1]]
  <1>2. longer \in [0..(n + 1) -> Digest] /\ longer[0] = d /\ longer[n + 1] = x
    BY <1>1 DEF IsPath
  <1>3. ASSUME NEW i \in 1..(n + 1)  PROVE  longer[i] \in parents[longer[i - 1]]
    <2>1. longer[i] = path[i - 1]
      OBVIOUS
    <2>2. CASE i = 1
      <3>1. longer[i - 1] = d /\ path[i - 1] = p
        BY <1>1, <2>2 DEF IsPath
      <3> QED  BY <2>1, <3>1
    <2>3. CASE i # 1
      <3>1. i - 1 \in 1..n /\ i - 1 # 0 /\ i - 1 \in 0..(n + 1)
        BY <2>3
      <3>2. longer[i - 1] = path[(i - 1) - 1]
        BY <3>1
      <3> HIDE DEF longer
      <3> QED  BY <1>1, <2>1, <3>1, <3>2 DEF IsPath
    <2> QED  BY <2>2, <2>3
  <1>4. IsPath(longer, n + 1, d, x)
    <2> HIDE DEF longer
    <2> QED  BY <1>2, <1>3 DEF IsPath
  <1>5. n + 1 \in Nat
    OBVIOUS
  <1> HIDE DEF longer
  <1> QED  BY <1>4, <1>5 DEF Reaches

(* A path from d is empty or passes a parent of d. *)
LEMMA PathShortens ==
    ASSUME NEW d \in Digest, NEW x, Reaches(d, x)
    PROVE  x = d \/ \E p \in parents[d] : Reaches(p, x)
  <1>0. PICK n \in Nat : \E path : IsPath(path, n, d, x)
    BY DEF Reaches
  <1>1. PICK path : IsPath(path, n, d, x)
    BY <1>0
  <1>2. CASE n = 0
    BY <1>1, <1>2 DEF IsPath
  <1>3. CASE n # 0
    <2> DEFINE shorter == [i \in 0..(n - 1) |-> path[i + 1]]
               p == path[1]
    <2>1. n - 1 \in Nat /\ 1 \in 1..n
      BY <1>3
    <2>2. p \in parents[d]
      <3>1. path[1] \in parents[path[1 - 1]] /\ path[0] = d /\ 1 - 1 = 0
        BY <1>1, <2>1 DEF IsPath
      <3> QED  BY <3>1
    <2>3. /\ shorter \in [0..(n - 1) -> Digest] /\ shorter[0] = p
          /\ shorter[n - 1] = x
      <3>1. \A i \in 0..(n - 1) : path[i + 1] \in Digest
        BY <1>1 DEF IsPath
      <3>2. path[n] = x /\ (n - 1) + 1 = n /\ n - 1 \in 0..(n - 1) /\ 0 \in 0..(n - 1)
        BY <1>1, <2>1 DEF IsPath
      <3> QED  BY <3>1, <3>2
    <2>4. ASSUME NEW i \in 1..(n - 1)  PROVE  shorter[i] \in parents[shorter[i - 1]]
      <3>1. i + 1 \in 1..n /\ (i + 1) - 1 = i /\ (i - 1) + 1 = i
            /\ i \in 0..(n - 1) /\ i - 1 \in 0..(n - 1)
        OBVIOUS
      <3>2. shorter[i] = path[i + 1] /\ shorter[i - 1] = path[i]
        BY <3>1
      <3> HIDE DEF shorter
      <3>3. path[i + 1] \in parents[path[(i + 1) - 1]]
        BY <1>1, <3>1 DEF IsPath
      <3> QED  BY <3>1, <3>2, <3>3
    <2> HIDE DEF shorter, p
    <2>5. IsPath(shorter, n - 1, p, x)
      BY <2>3, <2>4 DEF IsPath
    <2> QED  BY <2>1, <2>2, <2>5 DEF Reaches
  <1> QED  BY <1>2, <1>3

(* The recursive function ancestors exists: it is what paths lead to. *)
LEMMA AncestorsFacts ==
    ASSUME NEW d \in Digest
    PROVE  ancestors[d] = {d} \cup UNION {ancestors[p] : p \in parents[d]}
  <1> DEFINE f == [e \in Digest |-> {x \in Digest : Reaches(e, x)}]
  <1>1. ASSUME NEW e \in Digest
        PROVE  f[e] = {e} \cup UNION {f[p] : p \in parents[e]}
    <2>1. parents[e] \subseteq Digest
      BY CertificateTypes
    <2>2. Reaches(e, e)
      <3> DEFINE path == [i \in 0..0 |-> e]
      <3>1. IsPath(path, 0, e, e)
        BY DEF IsPath
      <3> HIDE DEF path
      <3> QED  BY <3>1 DEF Reaches
    <2>3. \A p \in parents[e] : f[p] = {x \in Digest : Reaches(p, x)}
      BY <2>1
    <2>4. f[e] = {x \in Digest : Reaches(e, x)}
      OBVIOUS
    <2> HIDE DEF f
    <2>5. ASSUME NEW x \in f[e]  PROVE  x \in {e} \cup UNION {f[p] : p \in parents[e]}
      <3>1. x \in Digest /\ (x = e \/ \E p \in parents[e] : Reaches(p, x))
        BY <2>4, PathShortens
      <3> QED  BY <2>3, <3>1
    <2>6. ASSUME NEW x \in {e} \cup UNION {f[p] : p \in parents[e]}  PROVE  x \in f[e]
      <3>1. CASE x = e
        BY <2>2, <2>4, <3>1
      <3>2. ASSUME NEW p \in parents[e], x \in f[p]  PROVE  x \in f[e]
        BY <2>3, <2>4, <3>2, PathExtends
      <3> QED  BY <3>1, <3>2
    <2> QED  BY <2>5, <2>6
  <1>2. IsAncestors(f)
    <2>1. f = [e \in Digest |-> f[e]]
      OBVIOUS
    <2> HIDE DEF f
    <2> QED  BY <1>1, <2>1 DEF IsAncestors
  <1> HIDE DEF f
  <1>3. ancestors = CHOOSE g : IsAncestors(g)
    BY DEF ancestors, IsAncestors
  <1>4. IsAncestors(ancestors)
    BY <1>2, <1>3
  <1> QED  BY <1>4 DEF IsAncestors

------------------------------------------------------------------------------
(* Theorems *)

(* Every variable has its type; what State::update computes as the maximum *)
(* of last_committed is a round.                                           *)
THEOREM ConsensusTyped == Spec => []TypeOK
  <1>1. TuskInv => TypeOK
    BY DEF TuskInv, TuskTypes, TypeOK, States
  <1> QED  BY <1>1, TuskInvariant, PTL

(* No certificate is committed twice: order_dag skips what its origin has  *)
(* committed, also when the primary sends it again after the cleanup.      *)
THEOREM CommittedOnce == Spec => []CommitOnce
  <1>1. ASSUME TuskInv  PROVE  CommitOnce
    <2> SUFFICES ASSUME NEW r \in Replica  PROVE  IsInjective(output[r])
      BY DEF CommitOnce
    <2>1. output[r] \in Seq(Digest)
      BY <1>1 DEF TuskInv, TuskTypes
    <2>2. \A i, j \in 1..Len(output[r]) : output[r][i] = output[r][j] => i = j
      BY <1>1 DEF TuskInv, ReplicaInv, Sound
    <2>3. DOMAIN output[r] = 1..Len(output[r])
      BY <2>1
    <2> QED  BY <2>2, <2>3 DEF IsInjective
  <1> QED  BY <1>1, TuskInvariant, PTL

(* A certificate is committed after its parents: order_dag sorts by round, *)
(* and a parent it leaves out is committed, or too old to be.              *)
THEOREM ParentsCommittedFirst == Spec => []ParentsFirst
  <1>1. ASSUME TuskInv  PROVE  ParentsFirst
    <2> SUFFICES ASSUME NEW r \in Replica,
                        NEW i \in DOMAIN output[r], NEW j \in DOMAIN output[r],
                        output[r][j] \in parents[output[r][i]]
                 PROVE  j < i
      BY DEF ParentsFirst
    <2>1. output[r] \in Seq(Digest)
      BY <1>1 DEF TuskInv, TuskTypes
    <2>2. DOMAIN output[r] = 1..Len(output[r])
      BY <2>1
    <2> QED  BY <1>1, <2>2 DEF TuskInv, ReplicaInv, Sound
  <1> QED  BY <1>1, TuskInvariant, PTL

(* No expect("We should have the whole history by now") of Consensus::run  *)
(* and linked() fails, whatever the garbage collection removed.            *)
THEOREM HistoryIsWhole == Spec => []WholeHistory
  <1>1. TuskInv => WholeHistory
    BY DEF TuskInv, ReplicaInv, WholeHistory
  <1> QED  BY <1>1, TuskInvariant, PTL

(* What Consensus::run commits is a function of the leaders it commits, not *)
(* of what else it was sent, when, and how often.                          *)
THEOREM LeadersDecideOrder == Spec => []OrderFollowsLeaders
  <1>1. ASSUME TuskInv  PROVE  OrderFollowsLeaders
    <2> SUFFICES ASSUME NEW r \in Replica, NEW q \in Replica,
                        IsPrefix(leaders[r], leaders[q])
                 PROVE  IsPrefix(output[r], output[q])
      BY DEF OrderFollowsLeaders
    <2>1. /\ Ordered(leaders[r], state[r], output[r])
          /\ Ordered(leaders[q], state[q], output[q])
      BY <1>1 DEF TuskInv, ReplicaInv
    <2>2. /\ leaders[r] \in Seq(Digest) /\ leaders[q] \in Seq(Digest)
          /\ output[r] \in Seq(Digest) /\ output[q] \in Seq(Digest)
      BY <1>1 DEF TuskInv, TuskTypes
    <2> QED  BY <2>1, <2>2, HistoryPrefix
  <1> QED  BY <1>1, TuskInvariant, PTL

(* A supported leader is an ancestor of every certificate from two rounds  *)
(* above on: by induction on the round, from the quorum of parents.        *)
LEMMA SupportReaches ==
    ASSUME NEW D \in SUBSET Digest, NEW E \in SUBSET Digest, Closed(E),
           OneSlot(D, E), NEW l \in Digest, Supporting(D, l),
           NEW d \in E, round[d] >= round[l] + 2
    PROVE  l \in ancestors[d]
  <1> DEFINE low == round[l] + 2
             n == round[d] - low
             G == {i \in 0..n : \A e \in E : round[e] = low + i => l \in ancestors[e]}
  <1>1. low \in Nat /\ n \in Nat /\ round[l] \in Nat /\ round[d] \in Nat
    BY CertificateTypes
  <1>2. ASSUME NEW e \in E, round[e] >= low
        PROVE  /\ e \in Digest \ Genesis
               /\ parents[e] \subseteq E
               /\ \A p \in parents[e] : p \in Digest /\ round[p] + 1 = round[e]
                                        /\ round[p] \in Nat
    <2>1. e \in Digest \ Genesis
      BY <1>1, <1>2 DEF Genesis
    <2> QED  BY <2>1, ParentQuorum, CertificateTypes DEF Closed
  <1>3. \A e \in Digest : e \in ancestors[e]
    BY AncestorsFacts
  <1>4. \A e \in Digest : \A p \in parents[e] : ancestors[p] \subseteq ancestors[e]
    BY AncestorsFacts
  <1>5. 0 \in G
    <2> SUFFICES ASSUME NEW e \in E, round[e] = low  PROVE  l \in ancestors[e]
      BY <1>1
    <2>1. PICK X \in SUBSET D :
             /\ \A x \in X : round[x] = round[l] + 1 /\ l \in parents[x]
             /\ StakeOf({origin[x] : x \in X}) >= ValidityThreshold
      BY DEF Supporting
    <2> DEFINE T == {origin[x] : x \in X}
    <2>2. T \in SUBSET Authority
      BY CertificateTypes
    <2>3. /\ e \in Digest \ Genesis /\ parents[e] \subseteq E
          /\ \A p \in parents[e] : p \in Digest /\ round[p] + 1 = round[e]
                                   /\ round[p] \in Nat
      BY <1>1, <1>2
    <2>4. ParentOrigins(e) \in SUBSET Authority /\ IsQuorum(ParentOrigins(e))
      BY <2>3, ParentQuorum
    <2>5. ParentOrigins(e) \cap T # {}
      BY <2>1, <2>2, <2>4, QuorumMeets
    <2>6. PICK x \in X, p \in parents[e] : origin[x] = origin[p]
      BY <2>5 DEF ParentOrigins
    <2>7. /\ x \in D /\ p \in E /\ x \in Digest /\ p \in Digest
          /\ round[x] = round[l] + 1 /\ round[p] + 1 = low
          /\ l \in parents[x] /\ round[p] \in Nat
      BY <2>1, <2>3, <2>6
    <2>8. round[x] = round[p] /\ round[x] # 0
      BY <1>1, <2>7
    <2>9. x = p
      BY <2>6, <2>7, <2>8 DEF OneSlot
    <2> QED  BY <1>3, <1>4, <2>3, <2>6, <2>7, <2>9
  <1>6. ASSUME NEW i \in 1..n, i - 1 \in G  PROVE  i \in G
    <2> SUFFICES ASSUME NEW e \in E, round[e] = low + i  PROVE  l \in ancestors[e]
      BY <1>1
    <2>1. round[e] >= low
      BY <1>1
    <2>2. /\ e \in Digest \ Genesis /\ parents[e] \subseteq E
          /\ \A p \in parents[e] : p \in Digest /\ round[p] + 1 = round[e]
                                   /\ round[p] \in Nat
      BY <1>2, <2>1
    <2>3. PICK p \in parents[e] : TRUE
      BY <2>2, ParentQuorum
    <2>4. p \in E /\ round[p] = low + (i - 1)
      BY <1>1, <2>2, <2>3
    <2>5. l \in ancestors[p]
      BY <1>6, <2>4
    <2> QED  BY <1>4, <2>2, <2>3, <2>5
  <1>7. n \in G
    <2> HIDE DEF G
    <2>1. \A i \in 0..n : i \in G
      BY <1>1, <1>5, <1>6, UpTo
    <2> QED  BY <1>1, <2>1
  <1>8. round[d] = low + n
    BY <1>1
  <1> QED  BY <1>7, <1>8

(* The leader a replica committed last, which the stake of its children    *)
(* committed, is in the history of every certificate that any replica is   *)
(* sent from two rounds above on.                                          *)
THEOREM LeadersAreRemembered == Spec => []LeaderInHistory
  <1>1. ASSUME TuskInv  PROVE  LeaderInHistory
    <2> SUFFICES ASSUME NEW r \in Replica, NEW q \in Replica, NEW d \in delivered[q],
                        leaders[r] # << >>, round[d] >= round[Last(leaders[r])] + 2
                 PROVE  Last(leaders[r]) \in ancestors[d]
      BY DEF LeaderInHistory
    <2> DEFINE l == Last(leaders[r])
    <2>1. l \in Digest
      <3>1. leaders[r] \in Seq(Digest)
        BY <1>1 DEF TuskInv, TuskTypes
      <3>2. Len(leaders[r]) \in 1..Len(leaders[r])
        BY <3>1
      <3> QED  BY <3>1, <3>2 DEF Last
    <2>2. Supporting(delivered[r], l)
      BY <1>1 DEF TuskInv, ReplicaInv
    <2>3. /\ delivered[r] \in SUBSET Digest /\ delivered[q] \in SUBSET Digest
          /\ Closed(delivered[q]) /\ OneSlot(delivered[r], delivered[q])
      BY <1>1 DEF TuskInv, TuskTypes
    <2> HIDE DEF l
    <2>4. round[d] >= round[l] + 2
      BY DEF l
    <2>5. l \in ancestors[d]
      BY <2>1, <2>2, <2>3, <2>4, SupportReaches
    <2> QED  BY <2>5 DEF l
  <1> QED  BY <1>1, TuskInvariant, PTL
==============================================================================
