------------------------- MODULE ReliableSenderProofs -------------------------
(***************************************************************************)
(* Proofs about ReliableSender, for every number of messages and of        *)
(* connections: the acknowledgements match the pending messages (TypeOK),  *)
(* no message is lost (NothingLost), and every step is a step of           *)
(* AtLeastOnce or a stutter.                                               *)
(*                                                                         *)
(* The argument is about one queue, pending_replies, then buffer, then     *)
(* channel: it is strictly increasing and holds every message that is      *)
(* neither cancelled nor resolved.  What a live current connection carries *)
(* is the end of pending_replies, the rest of which the peer has received. *)
(***************************************************************************)
EXTENDS ReliableSender, SequenceTheorems, WellFoundedInduction, TLAPS

(* s is strictly increasing. *)
Increasing(s) == \A i, j \in 1..Len(s) : i < j => s[i] < s[j]

(* Every message of s was sent before every message of t. *)
Before(s, t) == \A i \in 1..Len(s), j \in 1..Len(t) : s[i] < t[j]

Contains(s, m) == \E i \in 1..Len(s) : s[i] = m

(* The queue of the Connection task is in the order the caller sent. *)
QueueOrdered ==
    /\ Increasing(pending_replies) /\ Increasing(buffer) /\ Increasing(channel)
    /\ Before(pending_replies, buffer)
    /\ Before(pending_replies, channel)
    /\ Before(buffer, channel)

(* Whatever is neither cancelled nor resolved is in the queue. *)
NoneLost ==
    \A m \in 1..sent :
        \/ m \in cancelled \cup resolved
        \/ Contains(pending_replies, m) \/ Contains(buffer, m) \/ Contains(channel, m)

NothingPending == state # "connected" => pending_replies = << >>

ConnectedOnce == state = "connected" => current \in Connection

(* Connections that are not open yet carry nothing, broken ones neither. *)
FreshConnections ==
    \A c \in Connection :
        c > current \/ ~alive[c] => wire[c] = << >> /\ acks[c] = 0

(* The current connection carries the end of pending_replies, and back the *)
(* acknowledgements of what comes before.                                  *)
WireIsPending ==
    state = "connected" /\ alive[current] =>
        /\ acks[current] + Len(wire[current]) = Len(pending_replies)
        /\ \A i \in 1..Len(wire[current]) :
               wire[current][i] = pending_replies[acks[current] + i]
        /\ \A i \in 1..acks[current] : pending_replies[i] \in received

(* Connection c, current or given up, delivers a message only after the    *)
(* uncancelled messages sent before it.                                    *)
InOrder(c) ==
    \A i \in 1..Len(wire[c]) : \A k \in 1..(wire[c][i] - 1) :
        \/ k \in received \cup cancelled
        \/ \E j \in 1..(i - 1) : wire[c][j] = k

WiresInOrder == \A c \in Connection : InOrder(c)

ResolvedReceived == resolved \subseteq received

Types ==
    /\ sent \in 0..Messages
    /\ cancelled \subseteq 1..sent /\ received \subseteq 1..sent
    /\ resolved \subseteq 1..sent
    /\ channel \in Seq(1..sent) /\ buffer \in Seq(1..sent)
    /\ pending_replies \in Seq(1..sent)
    /\ state \in {"connecting", "waiting", "connected"}
    /\ current \in 0..Connections
    /\ wire \in [Connection -> Seq(1..sent)]
    /\ acks \in [Connection -> Nat]
    /\ alive \in [Connection -> BOOLEAN]

SenderInv ==
    /\ Types
    /\ QueueOrdered
    /\ NoneLost
    /\ NothingPending
    /\ ConnectedOnce
    /\ FreshConnections
    /\ WireIsPending
    /\ WiresInOrder
    /\ ResolvedReceived

------------------------------------------------------------------------------
(* Lemmas about sequences *)

(* What Tail leaves, by index. *)
LEMMA TailFacts ==
    ASSUME NEW T, NEW s \in Seq(T), s # << >>
    PROVE  /\ Len(s) \in Nat \ {0}
           /\ Head(s) = s[1] /\ s[1] \in T
           /\ Tail(s) \in Seq(T)
           /\ Len(Tail(s)) = Len(s) - 1
           /\ \A i \in 1..(Len(s) - 1) : Tail(s)[i] = s[i + 1]
  OBVIOUS

(* What Append adds, by index. *)
LEMMA AppendFacts ==
    ASSUME NEW T, NEW s \in Seq(T), NEW e \in T
    PROVE  /\ Len(s) \in Nat
           /\ Append(s, e) \in Seq(T)
           /\ Len(Append(s, e)) = Len(s) + 1
           /\ \A i \in 1..Len(s) : Append(s, e)[i] = s[i]
           /\ Append(s, e)[Len(s) + 1] = e
  OBVIOUS

(* A sequence is one over the set its elements are in. *)
LEMMA SeqOver ==
    ASSUME NEW S, NEW T, NEW s \in Seq(S), \A i \in 1..Len(s) : s[i] \in T
    PROVE  s \in Seq(T)
  <1>1. Len(s) \in Nat /\ s \in [1..Len(s) -> S]
    BY LenProperties
  <1>2. s \in [1..Len(s) -> T]
    BY <1>1
  <1> QED  BY <1>1, <1>2, SeqDef

(* Taking the first message keeps the order. *)
LEMMA TailIncreasing ==
    ASSUME NEW s \in Seq(Nat), s # << >>, Increasing(s)
    PROVE  /\ Increasing(Tail(s))
           /\ \A i \in 1..Len(Tail(s)) : Head(s) < Tail(s)[i]
  <1>1. /\ Len(s) \in Nat \ {0} /\ Len(Tail(s)) = Len(s) - 1 /\ Head(s) = s[1]
        /\ \A i \in 1..(Len(s) - 1) : Tail(s)[i] = s[i + 1]
    BY TailFacts
  <1> QED  BY <1>1 DEF Increasing

LEMMA TailBefore ==
    ASSUME NEW s \in Seq(Nat), NEW t \in Seq(Nat), Before(s, t)
    PROVE  /\ s # << >> => Before(Tail(s), t)
           /\ t # << >> => Before(s, Tail(t))
  <1>1. ASSUME s # << >>  PROVE  Before(Tail(s), t)
    <2>1. /\ Len(s) \in Nat \ {0} /\ Len(Tail(s)) = Len(s) - 1
          /\ \A i \in 1..(Len(s) - 1) : Tail(s)[i] = s[i + 1]
      BY <1>1, TailFacts
    <2> QED  BY <2>1 DEF Before
  <1>2. ASSUME t # << >>  PROVE  Before(s, Tail(t))
    <2>1. /\ Len(t) \in Nat \ {0} /\ Len(Tail(t)) = Len(t) - 1
          /\ \A i \in 1..(Len(t) - 1) : Tail(t)[i] = t[i + 1]
      BY <1>2, TailFacts
    <2> QED  BY <2>1 DEF Before
  <1> QED  BY <1>1, <1>2

(* Appending a later message keeps the order. *)
LEMMA AppendIncreasing ==
    ASSUME NEW s \in Seq(Nat), NEW m \in Nat, Increasing(s),
           \A i \in 1..Len(s) : s[i] < m
    PROVE  Increasing(Append(s, m))
  <1>1. /\ Len(s) \in Nat /\ Len(Append(s, m)) = Len(s) + 1
        /\ \A i \in 1..Len(s) : Append(s, m)[i] = s[i]
        /\ Append(s, m)[Len(s) + 1] = m
    BY AppendFacts
  <1> HIDE DEF Increasing
  <1> SUFFICES ASSUME NEW i \in 1..(Len(s) + 1), NEW j \in 1..(Len(s) + 1), i < j
               PROVE  Append(s, m)[i] < Append(s, m)[j]
    BY <1>1 DEF Increasing
  <1>2. i \in 1..Len(s)
    BY <1>1
  <1>3. CASE j = Len(s) + 1
    BY <1>1, <1>2, <1>3
  <1>4. CASE j \in 1..Len(s)
    BY <1>1, <1>2, <1>4 DEF Increasing
  <1> QED  BY <1>1, <1>3, <1>4

LEMMA AppendBefore ==
    ASSUME NEW s \in Seq(Nat), NEW t \in Seq(Nat), NEW m \in Nat, Before(s, t)
    PROVE  /\ (\A j \in 1..Len(t) : m < t[j]) => Before(Append(s, m), t)
           /\ (\A i \in 1..Len(s) : s[i] < m) => Before(s, Append(t, m))
  <1>1. ASSUME \A j \in 1..Len(t) : m < t[j]  PROVE  Before(Append(s, m), t)
    <2>1. /\ Len(s) \in Nat /\ Len(Append(s, m)) = Len(s) + 1
          /\ \A i \in 1..Len(s) : Append(s, m)[i] = s[i]
          /\ Append(s, m)[Len(s) + 1] = m
      BY AppendFacts
    <2> SUFFICES ASSUME NEW i \in 1..(Len(s) + 1), NEW j \in 1..Len(t)
                 PROVE  Append(s, m)[i] < t[j]
      BY <2>1 DEF Before
    <2>2. CASE i = Len(s) + 1
      BY <1>1, <2>1, <2>2
    <2>3. CASE i \in 1..Len(s)
      BY <2>1, <2>3 DEF Before
    <2>4. i = Len(s) + 1 \/ i \in 1..Len(s)
      BY <2>1, SMTT(30)
    <2> QED  BY <2>2, <2>3, <2>4
  <1>2. ASSUME \A i \in 1..Len(s) : s[i] < m  PROVE  Before(s, Append(t, m))
    <2>1. /\ Len(t) \in Nat /\ Len(Append(t, m)) = Len(t) + 1
          /\ \A i \in 1..Len(t) : Append(t, m)[i] = t[i]
          /\ Append(t, m)[Len(t) + 1] = m
      BY AppendFacts
    <2> SUFFICES ASSUME NEW i \in 1..Len(s), NEW j \in 1..(Len(t) + 1)
                 PROVE  s[i] < Append(t, m)[j]
      BY <2>1 DEF Before
    <2>2. CASE j = Len(t) + 1
      BY <1>2, <2>1, <2>2
    <2>3. CASE j \in 1..Len(t)
      BY <2>1, <2>3 DEF Before
    <2> QED  BY <2>1, <2>2, <2>3
  <1> QED  BY <1>1, <1>2

(* Putting s back in front of t keeps the order. *)
LEMMA ConcatOrdered ==
    ASSUME NEW s \in Seq(Nat), NEW t \in Seq(Nat), NEW u \in Seq(Nat),
           Increasing(s), Increasing(t), Before(s, t), Before(s, u), Before(t, u)
    PROVE  Increasing(s \o t) /\ Before(s \o t, u)
  <1> DEFINE q == s \o t
  <1>1. /\ Len(s) \in Nat /\ Len(t) \in Nat /\ Len(q) = Len(s) + Len(t)
        /\ \A i \in 1..(Len(s) + Len(t)) :
               q[i] = IF i <= Len(s) THEN s[i] ELSE t[i - Len(s)]
    BY ConcatProperties, LenProperties
  <1> HIDE DEF q
  <1>2. \A i \in 1..Len(q) :
           \/ i \in 1..Len(s) /\ q[i] = s[i]
           \/ i - Len(s) \in 1..Len(t) /\ q[i] = t[i - Len(s)] /\ i > Len(s)
    BY <1>1
  <1>3. Increasing(q)
    <2> SUFFICES ASSUME NEW i \in 1..Len(q), NEW j \in 1..Len(q), i < j
                 PROVE  q[i] < q[j]
      BY DEF Increasing
    <2>1. ASSUME i \in 1..Len(s), j \in 1..Len(s)  PROVE  q[i] < q[j]
      <3>1. q[i] = s[i] /\ q[j] = s[j] /\ s[i] < s[j]
        BY <1>1, <2>1 DEF Increasing
      <3> QED  BY <3>1
    <2>2. ASSUME i \in 1..Len(s), j - Len(s) \in 1..Len(t)  PROVE  q[i] < q[j]
      <3>1. q[i] = s[i] /\ q[j] = t[j - Len(s)] /\ s[i] < t[j - Len(s)]
        BY <1>1, <2>2 DEF Before
      <3> QED  BY <3>1
    <2>3. ASSUME i - Len(s) \in 1..Len(t), j - Len(s) \in 1..Len(t)
          PROVE  q[i] < q[j]
      <3>1. i - Len(s) < j - Len(s)
        BY <1>1
      <3>2. t[i - Len(s)] < t[j - Len(s)]
        BY <2>3, <3>1 DEF Increasing
      <3>3. q[i] = t[i - Len(s)] /\ q[j] = t[j - Len(s)]
        BY <1>1, <2>3
      <3> QED  BY <3>2, <3>3
    <2> QED  BY <1>1, <1>2, <2>1, <2>2, <2>3
  <1>4. Before(q, u)
    BY <1>1, <1>2 DEF Before
  <1> QED  BY <1>3, <1>4 DEF q

------------------------------------------------------------------------------
(* What Retained keeps *)

(* f holds what is kept of the first n messages of s, and of fewer. *)
IsKept(s, n, f) ==
    f = [i \in 0..n |->
            IF i = 0 THEN << >>
            ELSE IF Uncancelled(s[i]) THEN Append(f[i - 1], s[i])
            ELSE f[i - 1]]

(* t is made of the uncancelled ones among the first i messages of s. *)
KeptOf(s, i, t) ==
    /\ t \in Seq(Nat)
    /\ \A j \in 1..Len(t) : \E k \in 1..i : s[k] = t[j]
    /\ \A k \in 1..i : Uncancelled(s[k]) => \E j \in 1..Len(t) : t[j] = s[k]
    /\ Increasing(s) => Increasing(t)

(* A set of naturals has a least element: induction, for a given set. *)
LEMMA LeastNat ==
    ASSUME NEW S, S \subseteq Nat, S # {}
    PROVE  \E n \in S : \A m \in S : n <= m
  <1>1. PICK n \in S : \A m \in S : <<m, n>> \notin OpToRel(<, Nat)
    BY NatLessThanWellFounded, WFMin, Zenon
  <1>2. ASSUME NEW m \in S  PROVE  n <= m
    <2>1. <<m, n>> \in OpToRel(<, Nat) <=> m < n
      BY DEF OpToRel
    <2>2. m \in Nat /\ n \in Nat /\ ~ (m < n)
      BY <1>1, <2>1
    <2> QED  BY <2>2
  <1> QED  BY <1>2

(* The recursive function that Retained uses exists. *)
LEMMA KeptExists ==
    ASSUME NEW s \in Seq(Nat)
    PROVE  \E f : IsKept(s, Len(s), f)
  <1> DEFINE bad == {n \in 0..Len(s) : ~ \E f : IsKept(s, n, f)}
  <1>1. Len(s) \in Nat
    OBVIOUS
  <1>2. SUFFICES ASSUME bad # {}  PROVE  FALSE
    BY <1>1
  <1>3. PICK n \in bad : \A m \in bad : n <= m
    <2>1. bad \subseteq Nat
      BY <1>1
    <2> HIDE DEF bad
    <2> QED  BY <1>2, <2>1, LeastNat
  <1>4. n \in 0..Len(s) /\ ~ \E f : IsKept(s, n, f)
    BY <1>3
  <1>5. n # 0
    <2> DEFINE f == [i \in 0..0 |-> << >>]
    <2>1. IsKept(s, 0, f)
      BY DEF IsKept
    <2> QED  BY <1>4, <2>1
  <1>6. n - 1 \in 0..Len(s) /\ n - 1 \notin bad
    BY <1>1, <1>3, <1>4, <1>5
  <1>7. PICK f : IsKept(s, n - 1, f)
    BY <1>6
  <1> DEFINE last == IF Uncancelled(s[n]) THEN Append(f[n - 1], s[n]) ELSE f[n - 1]
             g == [i \in 0..n |-> IF i = n THEN last ELSE f[i]]
  <1>8. IsKept(s, n, g)
    <2>1. \A i \in 0..(n - 1) : f[i] = IF i = 0 THEN << >>
                                       ELSE IF Uncancelled(s[i]) THEN Append(f[i - 1], s[i])
                                       ELSE f[i - 1]
      BY <1>7 DEF IsKept
    <2> HIDE DEF last
    <2>2. g[n] = last /\ \A i \in 0..(n - 1) : g[i] = f[i]
      BY <1>4
    <2> HIDE DEF g
    <2>3. ASSUME NEW i \in 0..n
          PROVE  (IF i = n THEN last ELSE f[i])
                     = IF i = 0 THEN << >>
                       ELSE IF Uncancelled(s[i]) THEN Append(g[i - 1], s[i])
                       ELSE g[i - 1]
      <3>1. CASE i = n
        <4>1. g[n - 1] = f[n - 1]
          BY <1>4, <1>5, <2>2
        <4> QED  BY <1>5, <3>1, <4>1 DEF last
      <3>2. CASE i # n /\ i # 0
        <4>1. i \in 0..(n - 1) /\ i - 1 \in 0..(n - 1)
          BY <1>4, <3>2
        <4>2. g[i - 1] = f[i - 1]
          BY <2>2, <4>1
        <4> QED  BY <2>1, <3>2, <4>1, <4>2
      <3>3. CASE i # n /\ i = 0
        <4>1. 0 \in 0..(n - 1)
          BY <1>4, <1>5
        <4> QED  BY <2>1, <3>3, <4>1
      <3> QED  BY <3>1, <3>2, <3>3
    <2> QED  BY <2>3 DEF IsKept, g
  <1> QED  BY <1>4, <1>8

(* Each stage of that function is made of what it has passed. *)
LEMMA KeptStages ==
    ASSUME NEW s \in Seq(Nat), NEW f, IsKept(s, Len(s), f)
    PROVE  KeptOf(s, Len(s), f[Len(s)])
  <1> DEFINE bad == {n \in 0..Len(s) : ~ KeptOf(s, n, f[n])}
  <1>1. Len(s) \in Nat
    OBVIOUS
  <1>2. SUFFICES ASSUME bad # {}  PROVE  FALSE
    BY <1>1
  <1>3. PICK n \in bad : \A m \in bad : n <= m
    <2>1. bad \subseteq Nat
      BY <1>1
    <2> HIDE DEF bad
    <2> QED  BY <1>2, <2>1, LeastNat
  <1>4. n \in 0..Len(s) /\ ~ KeptOf(s, n, f[n])
    BY <1>3
  <1>5. \A i \in 0..Len(s) : f[i] = IF i = 0 THEN << >>
                                    ELSE IF Uncancelled(s[i]) THEN Append(f[i - 1], s[i])
                                    ELSE f[i - 1]
    BY DEF IsKept
  <1>6. n # 0
    <2>1. f[0] = << >>
      BY <1>1, <1>5
    <2>2. KeptOf(s, 0, << >>)
      BY DEF KeptOf, Increasing
    <2> QED  BY <1>4, <2>1, <2>2
  <1>7. n \in 1..Len(s) /\ n - 1 \in 0..Len(s) /\ s[n] \in Nat
    BY <1>1, <1>4, <1>6
  <1> DEFINE t == f[n - 1]
             m == s[n]
  <1>8. KeptOf(s, n - 1, t)
    BY <1>1, <1>3, <1>7
  <1>9. f[n] = IF Uncancelled(m) THEN Append(t, m) ELSE t
    BY <1>5, <1>6, <1>7
  <1>10. m \in Nat /\ m = s[n]
    BY <1>7
  <1> HIDE DEF t, m, bad
  <1>11. CASE ~ Uncancelled(m)
    <2>1. \A k \in 1..n : k \in 1..(n - 1) \/ k = n
      BY <1>7
    <2>2. \A k \in 1..(n - 1) : k \in 1..n
      BY <1>7
    <2>3. KeptOf(s, n, t)
      BY <1>8, <1>10, <1>11, <2>1, <2>2 DEF KeptOf
    <2> QED  BY <1>4, <1>9, <1>11, <2>3
  <1>12. CASE Uncancelled(m)
    <2> DEFINE u == Append(t, m)
    <2>1. t \in Seq(Nat)
      BY <1>8 DEF KeptOf
    <2>2. /\ Len(t) \in Nat /\ u \in Seq(Nat) /\ Len(u) = Len(t) + 1
          /\ \A i \in 1..Len(t) : u[i] = t[i]
          /\ u[Len(t) + 1] = m
      BY <1>10, <2>1, AppendFacts
    <2>3. ASSUME Increasing(s)  PROVE  Increasing(u)
      <3>1. \A i \in 1..Len(t) : t[i] < m
        <4> SUFFICES ASSUME NEW i \in 1..Len(t)  PROVE  t[i] < m
          OBVIOUS
        <4>1. PICK k \in 1..(n - 1) : s[k] = t[i]
          BY <1>8 DEF KeptOf
        <4>2. k \in 1..Len(s) /\ k < n
          BY <1>1, <1>7
        <4> QED  BY <1>7, <1>10, <2>3, <4>1, <4>2 DEF Increasing
      <3> QED  BY <1>8, <1>10, <2>1, <2>3, <3>1, AppendIncreasing DEF KeptOf
    <2> HIDE DEF u
    <2>4. \A j \in 1..Len(u) : \E k \in 1..n : s[k] = u[j]
      <3> SUFFICES ASSUME NEW j \in 1..Len(u)  PROVE  \E k \in 1..n : s[k] = u[j]
        OBVIOUS
      <3>1. CASE j = Len(t) + 1
        BY <1>7, <1>10, <2>2, <3>1
      <3>2. CASE j \in 1..Len(t)
        <4>1. PICK k \in 1..(n - 1) : s[k] = t[j]
          BY <1>8, <3>2 DEF KeptOf
        <4>2. k \in 1..n
          BY <1>7
        <4> QED  BY <2>2, <3>2, <4>1, <4>2, Zenon
      <3> QED  BY <2>2, <3>1, <3>2
    <2>5. \A k \in 1..n : Uncancelled(s[k]) => \E j \in 1..Len(u) : u[j] = s[k]
      <3> SUFFICES ASSUME NEW k \in 1..n, Uncancelled(s[k])
                   PROVE  \E j \in 1..Len(u) : u[j] = s[k]
        OBVIOUS
      <3>1. CASE k = n
        <4>1. Len(t) + 1 \in 1..Len(u)
          BY <2>2
        <4> QED  BY <1>10, <2>2, <3>1, <4>1
      <3>2. CASE k # n
        <4>1. k \in 1..(n - 1)
          BY <1>7, <3>2
        <4>2. PICK j \in 1..Len(t) : t[j] = s[k]
          BY <1>8, <4>1 DEF KeptOf
        <4>3. j \in 1..Len(u)
          BY <2>2
        <4> QED  BY <2>2, <4>2, <4>3
      <3> QED  BY <3>1, <3>2
    <2>6. KeptOf(s, n, u)
      BY <2>2, <2>3, <2>4, <2>5 DEF KeptOf
    <2> QED  BY <1>4, <1>9, <1>12, <2>6 DEF u
  <1> QED  BY <1>11, <1>12

(* Retained leaves exactly the uncancelled messages, in order. *)
LEMMA RetainedFacts ==
    ASSUME NEW s \in Seq(Nat)
    PROVE  KeptOf(s, Len(s), Retained(s))
  <1> DEFINE f == CHOOSE g : IsKept(s, Len(s), g)
  <1>1. IsKept(s, Len(s), f)
    BY KeptExists
  <1>2. Retained(s) = f[Len(s)]
    BY DEF Retained, IsKept
  <1> HIDE DEF f
  <1> QED  BY <1>1, <1>2, KeptStages

------------------------------------------------------------------------------
(* Types *)

LEMMA InitTypes == Init => Types
  <1> SUFFICES ASSUME Init  PROVE  Types
    OBVIOUS
  <1>1. << >> \in Seq(1..sent)
    OBVIOUS
  <1> QED  BY <1>1, SenderAssumption DEF Init, Types, Connection

(* Messages sent so far stay messages sent so far. *)
LEMMA SeqSent ==
    ASSUME NEW a \in Nat, NEW b \in Nat, a <= b, NEW s \in Seq(1..a)
    PROVE  s \in Seq(1..b)
  <1>1. 1..a \subseteq 1..b
    OBVIOUS
  <1> QED  BY <1>1, SeqMonotonic

LEMMA NextTypes ==
    ASSUME SenderInv, [Next]_vars
    PROVE  Types'
  <1> USE SenderAssumption DEF SenderInv, Types
  <1>0. sent \in Nat
    OBVIOUS
  <1>1. ASSUME Send  PROVE  Types'
    <2>1. sent' = sent + 1 /\ sent' \in 0..Messages /\ sent <= sent' /\ sent' \in Nat
      BY <1>0, <1>1 DEF Send
    <2>2. 1..sent \subseteq 1..sent'
      BY <1>0, <2>1
    <2>3. channel \in Seq(1..sent') /\ buffer' \in Seq(1..sent') /\ pending_replies' \in Seq(1..sent')
      BY <1>0, <1>1, <2>1, SeqSent DEF Send
    <2>4. channel' \in Seq(1..sent')
      BY <1>1, <2>1, <2>3, AppendFacts DEF Send
    <2>5. wire' \in [Connection -> Seq(1..sent')]
      <3>1. \A c \in Connection : wire[c] \in Seq(1..sent')
        BY <1>0, <2>1, SeqSent
      <3> QED  BY <1>1, <3>1 DEF Send, networkVars
    <2> QED  BY <1>1, <2>1, <2>2, <2>3, <2>4, <2>5 DEF Send, networkVars
  <1>2. ASSUME Cancel  PROVE  Types'
    BY <1>2 DEF Cancel, senderVars, networkVars
  <1>3. ASSUME Connect  PROVE  Types'
    BY <1>3 DEF Connect
  <1>4. ASSUME FailToConnect  PROVE  Types'
    BY <1>4 DEF FailToConnect, networkVars
  <1>5. ASSUME TimerExpires  PROVE  Types'
    BY <1>5 DEF TimerExpires, networkVars
  <1>6. ASSUME Drain  PROVE  Types'
    <2>1. Head(channel) \in 1..sent /\ channel' \in Seq(1..sent)
      BY <1>6, TailFacts DEF Drain
    <2>2. Append(buffer, Head(channel)) \in Seq(1..sent)
      BY <2>1, AppendFacts
    <2>3. Retained(Append(buffer, Head(channel))) \in Seq(1..sent)
      <3> DEFINE q == Append(buffer, Head(channel))
                 r == Retained(q)
      <3> HIDE DEF q
      <3>1. q \in Seq(1..sent)
        BY <2>2 DEF q
      <3>2. q \in Seq(Nat)
        BY <3>1
      <3>3. KeptOf(q, Len(q), r)
        BY <3>2, RetainedFacts
      <3> HIDE DEF r
      <3>4. r \in Seq(Nat) /\ \A j \in 1..Len(r) : \E k \in 1..Len(q) : q[k] = r[j]
        BY <3>3 DEF KeptOf
      <3>5. \A j \in 1..Len(r) : r[j] \in 1..sent
        <4>1. \A k \in 1..Len(q) : q[k] \in 1..sent
          BY <3>1, ElementOfSeq
        <4> QED  BY <3>4, <4>1, Zenon
      <3>6. r \in Seq(1..sent)
        <4>1. r \in Seq(Nat)
          BY <3>4
        <4> QED  BY <3>5, <4>1, SeqOver, Zenon
      <3> QED  BY <3>6 DEF r, q
    <2> QED  BY <1>6, <2>1, <2>3 DEF Drain, networkVars
  <1>7. ASSUME Skip  PROVE  Types'
    <2>1. buffer' \in Seq(1..sent)
      BY <1>7, TailFacts DEF Skip
    <2> QED  BY <1>7, <2>1 DEF Skip, networkVars
  <1>8. ASSUME Write  PROVE  Types'
    <2>1. buffer' \in Seq(1..sent) /\ Head(buffer) \in 1..sent
      BY <1>8, TailFacts, SMTT(30) DEF Write
    <2>2. pending_replies' \in Seq(1..sent)
      BY <1>8, <2>1, AppendFacts DEF Write
    <2>3. current \in Connection
      BY <1>8 DEF Write, ConnectedOnce
    <2>4. Append(wire[current], Head(buffer)) \in Seq(1..sent)
      BY <2>1, <2>3, AppendFacts
    <2>5. wire' \in [Connection -> Seq(1..sent)]
      BY <1>8, <2>3, <2>4 DEF Write
    <2> QED  BY <1>8, <2>1, <2>2, <2>5 DEF Write
  <1>9. ASSUME TakeMessage  PROVE  Types'
    <2>1. Head(channel) \in 1..sent /\ channel' \in Seq(1..sent)
      BY <1>9, TailFacts DEF TakeMessage
    <2>2. buffer' \in Seq(1..sent)
      BY <1>9, <2>1 DEF TakeMessage
    <2> QED  BY <1>9, <2>1, <2>2 DEF TakeMessage, networkVars
  <1>10. ASSUME ReceiveAck  PROVE  Types'
    <2>1. Head(pending_replies) \in 1..sent /\ pending_replies' \in Seq(1..sent)
      BY <1>10, TailFacts DEF ReceiveAck
    <2>2. current \in Connection
      BY <1>10 DEF ReceiveAck, ConnectedOnce
    <2>3. acks[current] - 1 \in Nat
      BY <1>10, <2>2 DEF ReceiveAck
    <2>4. acks' \in [Connection -> Nat]
      BY <1>10, <2>2, <2>3 DEF ReceiveAck
    <2>5. resolved' \subseteq 1..sent
      BY <1>10, <2>1 DEF ReceiveAck
    <2> QED  BY <1>10, <2>1, <2>4, <2>5 DEF ReceiveAck
  <1>11. ASSUME LoseConnection  PROVE  Types'
    <2>1. buffer' \in Seq(1..sent)
      BY <1>11, ConcatProperties DEF LoseConnection, Requeue
    <2>2. pending_replies' \in Seq(1..sent)
      BY <1>11 DEF LoseConnection
    <2> QED  BY <1>11, <2>1, <2>2 DEF LoseConnection, networkVars
  <1>12. ASSUME NEW c \in Connection, Dispatch(c)  PROVE  Types'
    <2>1. Head(wire[c]) \in 1..sent /\ Tail(wire[c]) \in Seq(1..sent)
      BY <1>12, TailFacts DEF Dispatch
    <2>2. wire' \in [Connection -> Seq(1..sent)]
      BY <1>12, <2>1 DEF Dispatch
    <2>3. acks' \in [Connection -> Nat]
      BY <1>12 DEF Dispatch
    <2> QED  BY <1>12, <2>1, <2>2, <2>3 DEF Dispatch, senderVars
  <1>13. ASSUME NEW c \in Connection, Break(c)  PROVE  Types'
    <2>1. wire' \in [Connection -> Seq(1..sent)]
      BY <1>13 DEF Break
    <2>2. /\ acks' \in [Connection -> Nat]
          /\ alive' \in [Connection -> BOOLEAN]
      BY <1>13 DEF Break
    <2> QED  BY <1>13, <2>1, <2>2 DEF Break, senderVars
  <1>14. ASSUME UNCHANGED vars  PROVE  Types'
    BY <1>14 DEF vars, senderVars, networkVars
  <1> QED
    BY <1>1, <1>2, <1>3, <1>4, <1>5, <1>6, <1>7, <1>8, <1>9, <1>10, <1>11, <1>12,
       <1>13, <1>14 DEF Next, SenderNext

------------------------------------------------------------------------------
(* The queue *)

LEMMA TailContains ==
    ASSUME NEW s \in Seq(Nat), s # << >>, NEW m, Contains(s, m)
    PROVE  m = Head(s) \/ Contains(Tail(s), m)
  <1>1. /\ Len(s) \in Nat \ {0} /\ Len(Tail(s)) = Len(s) - 1 /\ Head(s) = s[1]
        /\ \A i \in 1..(Len(s) - 1) : Tail(s)[i] = s[i + 1]
    BY TailFacts
  <1>2. PICK i \in 1..Len(s) : s[i] = m
    BY DEF Contains
  <1>3. CASE i # 1
    <2>1. i - 1 \in 1..Len(Tail(s)) /\ Tail(s)[i - 1] = s[i]
      BY <1>1, <1>3
    <2> QED  BY <1>2, <2>1 DEF Contains
  <1> QED  BY <1>1, <1>2, <1>3

LEMMA AppendContains ==
    ASSUME NEW s \in Seq(Nat), NEW e \in Nat
    PROVE  /\ Contains(Append(s, e), e)
           /\ \A m : Contains(s, m) => Contains(Append(s, e), m)
  <1>1. /\ Len(s) \in Nat /\ Len(Append(s, e)) = Len(s) + 1
        /\ \A i \in 1..Len(s) : Append(s, e)[i] = s[i]
        /\ Append(s, e)[Len(s) + 1] = e
    BY AppendFacts
  <1> HIDE DEF Contains
  <1>2. Contains(Append(s, e), e)
    BY <1>1 DEF Contains
  <1>3. ASSUME NEW m, Contains(s, m)  PROVE  Contains(Append(s, e), m)
    BY <1>1, <1>3 DEF Contains
  <1> QED  BY <1>2, <1>3

LEMMA ConcatContains ==
    ASSUME NEW s \in Seq(Nat), NEW t \in Seq(Nat), NEW m,
           Contains(s, m) \/ Contains(t, m)
    PROVE  Contains(s \o t, m)
  <1> DEFINE q == s \o t
  <1>1. /\ Len(s) \in Nat /\ Len(t) \in Nat /\ Len(q) = Len(s) + Len(t)
        /\ \A i \in 1..(Len(s) + Len(t)) :
               q[i] = IF i <= Len(s) THEN s[i] ELSE t[i - Len(s)]
    BY ConcatProperties, LenProperties
  <1> HIDE DEF q
  <1>2. CASE Contains(s, m)
    <2>1. PICK i \in 1..Len(s) : s[i] = m
      BY <1>2 DEF Contains
    <2>2. i \in 1..Len(q) /\ q[i] = s[i]
      BY <1>1
    <2> QED  BY <2>1, <2>2 DEF Contains, q
  <1>3. CASE Contains(t, m)
    <2>1. PICK i \in 1..Len(t) : t[i] = m
      BY <1>3 DEF Contains
    <2>2. i + Len(s) \in 1..Len(q) /\ ~ (i + Len(s) <= Len(s))
          /\ (i + Len(s)) - Len(s) = i
      BY <1>1
    <2>3. q[i + Len(s)] = t[i]
      BY <1>1, <2>2
    <2> QED  BY <2>1, <2>2, <2>3 DEF Contains, q
  <1> QED  BY <1>2, <1>3

LEMMA EmptyContains == \A m : ~ Contains(<< >>, m)
  BY DEF Contains

(* The messages sent so far are naturals. *)
LEMMA QueueNat ==
    ASSUME Types
    PROVE  /\ channel \in Seq(Nat) /\ buffer \in Seq(Nat)
           /\ pending_replies \in Seq(Nat)
           /\ \A i \in 1..Len(channel) : channel[i] \in 1..sent
           /\ \A i \in 1..Len(buffer) : buffer[i] \in 1..sent
           /\ \A i \in 1..Len(pending_replies) : pending_replies[i] \in 1..sent
  <1>1. /\ channel \in Seq(1..sent) /\ buffer \in Seq(1..sent)
        /\ pending_replies \in Seq(1..sent)
    BY DEF Types
  <1>2. \A q \in Seq(1..sent) : q \in Seq(Nat) /\ \A i \in 1..Len(q) : q[i] \in 1..sent
    <2>1. 1..sent \subseteq Nat
      OBVIOUS
    <2> QED  BY <2>1, SeqMonotonic, ElementOfSeq
  <1> QED  BY <1>1, <1>2

(* No step loses a message of the queue. *)
LEMMA NextNoneLost ==
    ASSUME SenderInv, [Next]_vars
    PROVE  NoneLost'
  <1> DEFINE Kept(m) == \/ m \in cancelled' \cup resolved'
                        \/ Contains(pending_replies', m)
                        \/ Contains(buffer', m) \/ Contains(channel', m)
  <1>0. /\ channel \in Seq(Nat) /\ buffer \in Seq(Nat) /\ pending_replies \in Seq(Nat)
        /\ sent \in Nat
    BY QueueNat DEF SenderInv, Types
  <1>a. \A m \in 1..sent :
           \/ m \in cancelled \cup resolved
           \/ Contains(pending_replies, m) \/ Contains(buffer, m) \/ Contains(channel, m)
    BY DEF SenderInv, NoneLost
  <1>b. ASSUME sent' = sent, \A m \in 1..sent : Kept(m)  PROVE  NoneLost'
    BY <1>b DEF NoneLost
  <1> HIDE DEF NoneLost
  <1>1. ASSUME Send  PROVE  NoneLost'
    <2>1. /\ sent' = sent + 1 /\ channel' = Append(channel, sent + 1)
          /\ UNCHANGED <<cancelled, resolved, buffer, pending_replies>>
      BY <1>1 DEF Send
    <2>2. /\ Contains(channel', sent + 1)
          /\ \A m : Contains(channel, m) => Contains(channel', m)
      BY <1>0, <2>1, AppendContains
    <2>3. \A m \in 1..sent' : m \in 1..sent \/ m = sent + 1
      BY <1>0, <2>1
    <2>4. ASSUME NEW m \in 1..sent'  PROVE  Kept(m)
      BY <1>a, <2>1, <2>2, <2>3
    <2> QED  BY <2>4 DEF NoneLost
  <1>2. ASSUME Cancel  PROVE  NoneLost'
    <2>1. /\ cancelled \subseteq cancelled'
          /\ UNCHANGED <<sent, resolved, channel, buffer, pending_replies>>
      BY <1>2 DEF Cancel, senderVars
    <2> QED  BY <1>a, <1>b, <2>1
  <1>3. ASSUME UNCHANGED <<sent, cancelled, resolved, channel, buffer, pending_replies>>
        PROVE  NoneLost'
    BY <1>a, <1>b, <1>3
  <1>4. ASSUME Drain  PROVE  NoneLost'
    <2> DEFINE q == Append(buffer, Head(channel))
               r == Retained(q)
    <2>1. /\ channel # << >> /\ channel' = Tail(channel) /\ buffer' = r
          /\ UNCHANGED <<sent, cancelled, resolved, pending_replies>>
      BY <1>4 DEF Drain
    <2>2. Head(channel) \in Nat
      BY <1>0, <2>1, TailFacts
    <2>3. q \in Seq(Nat) /\ \A m : Contains(buffer, m) \/ m = Head(channel) => Contains(q, m)
      BY <1>0, <2>2, AppendContains, AppendFacts
    <2>4. \A m : Contains(channel, m) => m = Head(channel) \/ Contains(channel', m)
      BY <1>0, <2>1, TailContains
    <2> HIDE DEF q
    <2>5. KeptOf(q, Len(q), r)
      BY <2>3, RetainedFacts
    <2> HIDE DEF r
    <2>6. ASSUME NEW m, Contains(q, m), m \notin cancelled  PROVE  Contains(r, m)
      BY <2>5, <2>6 DEF KeptOf, Contains, Uncancelled
    <2>7. ASSUME NEW m \in 1..sent  PROVE  Kept(m)
      BY <1>a, <2>1, <2>3, <2>4, <2>6
    <2> QED  BY <1>b, <2>1, <2>7
  <1>5. ASSUME Skip  PROVE  NoneLost'
    <2>1. /\ buffer # << >> /\ Head(buffer) \in cancelled /\ buffer' = Tail(buffer)
          /\ UNCHANGED <<sent, cancelled, resolved, channel, pending_replies>>
      BY <1>5 DEF Skip
    <2>2. \A m : Contains(buffer, m) => m = Head(buffer) \/ Contains(buffer', m)
      BY <1>0, <2>1, TailContains
    <2>3. ASSUME NEW m \in 1..sent  PROVE  Kept(m)
      BY <1>a, <2>1, <2>2
    <2> QED  BY <1>b, <2>1, <2>3
  <1>6. ASSUME Write  PROVE  NoneLost'
    <2>1. /\ buffer # << >> /\ buffer' = Tail(buffer)
          /\ pending_replies' = Append(pending_replies, Head(buffer))
          /\ UNCHANGED <<sent, cancelled, resolved, channel>>
      BY <1>6 DEF Write
    <2>2. \A m : Contains(buffer, m) => m = Head(buffer) \/ Contains(buffer', m)
      BY <1>0, <2>1, TailContains
    <2>3. Head(buffer) \in Nat
      BY <1>0, <2>1, TailFacts
    <2>4. \A m : Contains(pending_replies, m) \/ m = Head(buffer)
                     => Contains(pending_replies', m)
      BY <1>0, <2>1, <2>3, AppendContains
    <2>5. ASSUME NEW m \in 1..sent  PROVE  Kept(m)
      BY <1>a, <2>1, <2>2, <2>4
    <2> QED  BY <1>b, <2>1, <2>5
  <1>7. ASSUME TakeMessage  PROVE  NoneLost'
    <2>1. /\ channel # << >> /\ channel' = Tail(channel)
          /\ buffer = << >> /\ buffer' = <<Head(channel)>>
          /\ UNCHANGED <<sent, cancelled, resolved, pending_replies>>
      BY <1>7 DEF TakeMessage
    <2>2. \A m : Contains(channel, m) => m = Head(channel) \/ Contains(channel', m)
      BY <1>0, <2>1, TailContains
    <2>3. Contains(buffer', Head(channel))
      BY <2>1 DEF Contains
    <2>4. ASSUME NEW m \in 1..sent  PROVE  Kept(m)
      BY <1>a, <2>1, <2>2, <2>3, EmptyContains
    <2> QED  BY <1>b, <2>1, <2>4
  <1>8. ASSUME ReceiveAck  PROVE  NoneLost'
    <2>1. /\ pending_replies # << >> /\ pending_replies' = Tail(pending_replies)
          /\ resolved \subseteq resolved'
          /\ Head(pending_replies) \in cancelled \cup resolved'
          /\ UNCHANGED <<sent, cancelled, channel, buffer>>
      BY <1>8 DEF ReceiveAck
    <2>2. \A m : Contains(pending_replies, m)
                     => m = Head(pending_replies) \/ Contains(pending_replies', m)
      BY <1>0, <2>1, TailContains
    <2>3. ASSUME NEW m \in 1..sent  PROVE  Kept(m)
      BY <1>a, <2>1, <2>2
    <2> QED  BY <1>b, <2>1, <2>3
  <1>9. ASSUME LoseConnection  PROVE  NoneLost'
    <2>1. /\ buffer' = pending_replies \o buffer
          /\ UNCHANGED <<sent, cancelled, resolved, channel>>
      BY <1>9 DEF LoseConnection, Requeue
    <2>2. \A m : Contains(pending_replies, m) \/ Contains(buffer, m) => Contains(buffer', m)
      BY <1>0, <2>1, ConcatContains
    <2>3. ASSUME NEW m \in 1..sent  PROVE  Kept(m)
      BY <1>a, <2>1, <2>2
    <2> QED  BY <1>b, <2>1, <2>3
  <1>10. ASSUME \/ Connect \/ FailToConnect \/ TimerExpires \/ UNCHANGED vars
                \/ \E c \in Connection : Dispatch(c) \/ Break(c)
         PROVE  NoneLost'
    BY <1>3, <1>10
       DEF Connect, FailToConnect, TimerExpires, Dispatch, Break, vars, senderVars
  <1> QED
    BY <1>1, <1>2, <1>4, <1>5, <1>6, <1>7, <1>8, <1>9, <1>10 DEF Next, SenderNext

LEMMA EmptyOrdered ==
    /\ Increasing(<< >>)
    /\ \A s : Before(<< >>, s) /\ Before(s, << >>)
  BY DEF Increasing, Before

(* The first message of a queue is before those of a later one. *)
LEMMA HeadBefore ==
    ASSUME NEW s \in Seq(Nat), NEW t \in Seq(Nat), Before(s, t)
    PROVE  /\ t # << >> => \A i \in 1..Len(s) : s[i] < Head(t)
           /\ s # << >> => \A j \in 1..Len(t) : Head(s) < t[j]
  <1>1. ASSUME t # << >>  PROVE  \A i \in 1..Len(s) : s[i] < Head(t)
    <2>1. Len(t) \in Nat \ {0} /\ Head(t) = t[1] /\ 1 \in 1..Len(t)
      BY <1>1, TailFacts
    <2> QED  BY <2>1 DEF Before
  <1>2. ASSUME s # << >>  PROVE  \A j \in 1..Len(t) : Head(s) < t[j]
    <2>1. Len(s) \in Nat \ {0} /\ Head(s) = s[1] /\ 1 \in 1..Len(s)
      BY <1>2, TailFacts
    <2> QED  BY <2>1 DEF Before
  <1> QED  BY <1>1, <1>2

(* Every step keeps the queue in the order of sending. *)
LEMMA NextQueueOrdered ==
    ASSUME SenderInv, [Next]_vars
    PROVE  QueueOrdered'
  <1>0. /\ channel \in Seq(Nat) /\ buffer \in Seq(Nat) /\ pending_replies \in Seq(Nat)
        /\ sent \in Nat
        /\ \A i \in 1..Len(channel) : channel[i] \in 1..sent
        /\ \A i \in 1..Len(buffer) : buffer[i] \in 1..sent
        /\ \A i \in 1..Len(pending_replies) : pending_replies[i] \in 1..sent
    BY QueueNat DEF SenderInv, Types
  <1>a. /\ Increasing(pending_replies) /\ Increasing(buffer) /\ Increasing(channel)
        /\ Before(pending_replies, buffer) /\ Before(pending_replies, channel)
        /\ Before(buffer, channel)
    BY DEF SenderInv, QueueOrdered
  <1>1. ASSUME Send  PROVE  QueueOrdered'
    <2>1. /\ channel' = Append(channel, sent + 1) /\ UNCHANGED <<buffer, pending_replies>>
          /\ sent + 1 \in Nat
      BY <1>0, <1>1 DEF Send
    <2>2. /\ \A i \in 1..Len(channel) : channel[i] < sent + 1
          /\ \A i \in 1..Len(buffer) : buffer[i] < sent + 1
          /\ \A i \in 1..Len(pending_replies) : pending_replies[i] < sent + 1
      BY <1>0
    <2>3. Increasing(channel')
      BY <1>0, <1>a, <2>1, <2>2, AppendIncreasing
    <2>4. Before(buffer, channel') /\ Before(pending_replies, channel')
      BY <1>0, <1>a, <2>1, <2>2, AppendBefore
    <2> QED  BY <1>a, <2>1, <2>3, <2>4 DEF QueueOrdered
  <1>2. ASSUME UNCHANGED <<channel, buffer, pending_replies>>  PROVE  QueueOrdered'
    BY <1>a, <1>2 DEF QueueOrdered
  <1>3. ASSUME Drain  PROVE  QueueOrdered'
    <2> DEFINE m == Head(channel)
               q == Append(buffer, m)
               r == Retained(q)
    <2>1. /\ channel # << >> /\ channel' = Tail(channel) /\ buffer' = r
          /\ UNCHANGED pending_replies
      BY <1>3 DEF Drain
    <2>2. m \in Nat /\ channel' \in Seq(Nat)
      BY <1>0, <2>1, TailFacts
    <2>3. q \in Seq(Nat)
      BY <1>0, <2>2, AppendFacts
    <2>4. Increasing(channel') /\ \A i \in 1..Len(channel') : m < channel'[i]
      BY <1>0, <1>a, <2>1, TailIncreasing
    <2>5. Before(pending_replies, channel') /\ Before(buffer, channel')
      BY <1>0, <1>a, <2>1, TailBefore
    <2>6. /\ \A i \in 1..Len(buffer) : buffer[i] < m
          /\ \A i \in 1..Len(pending_replies) : pending_replies[i] < m
      BY <1>0, <1>a, <2>1, HeadBefore
    <2> HIDE DEF m
    <2>7. Increasing(q)
      BY <1>0, <1>a, <2>2, <2>6, AppendIncreasing
    <2>8. Before(q, channel')
      BY <1>0, <2>2, <2>4, <2>5, AppendBefore
    <2>9. Before(pending_replies, q)
      BY <1>0, <1>a, <2>2, <2>6, AppendBefore
    <2> HIDE DEF q
    <2>10. KeptOf(q, Len(q), r)
      BY <2>3, RetainedFacts
    <2> HIDE DEF r
    <2>11. Increasing(r) /\ \A j \in 1..Len(r) : \E k \in 1..Len(q) : q[k] = r[j]
      BY <2>7, <2>10 DEF KeptOf
    <2>12. Before(r, channel')
      BY <2>8, <2>11, Zenon DEF Before
    <2>13. Before(pending_replies, r)
      BY <2>9, <2>11, Zenon DEF Before
    <2> QED  BY <1>a, <2>1, <2>4, <2>5, <2>11, <2>12, <2>13 DEF QueueOrdered
  <1>4. ASSUME Skip  PROVE  QueueOrdered'
    <2>1. /\ buffer # << >> /\ buffer' = Tail(buffer)
          /\ UNCHANGED <<channel, pending_replies>>
      BY <1>4 DEF Skip
    <2>2. Increasing(buffer')
      BY <1>0, <1>a, <2>1, TailIncreasing
    <2>3. Before(pending_replies, buffer') /\ Before(buffer', channel)
      BY <1>0, <1>a, <2>1, TailBefore
    <2> QED  BY <1>a, <2>1, <2>2, <2>3 DEF QueueOrdered
  <1>5. ASSUME Write  PROVE  QueueOrdered'
    <2> DEFINE m == Head(buffer)
    <2>1. /\ buffer # << >> /\ buffer' = Tail(buffer)
          /\ pending_replies' = Append(pending_replies, m)
          /\ UNCHANGED channel
      BY <1>5 DEF Write
    <2>2. m \in Nat /\ buffer' \in Seq(Nat)
      BY <1>0, <2>1, TailFacts
    <2>3. Increasing(buffer') /\ \A i \in 1..Len(buffer') : m < buffer'[i]
      BY <1>0, <1>a, <2>1, TailIncreasing
    <2>4. Before(pending_replies, buffer') /\ Before(buffer', channel)
      BY <1>0, <1>a, <2>1, TailBefore
    <2>5. /\ \A i \in 1..Len(pending_replies) : pending_replies[i] < m
          /\ \A i \in 1..Len(channel) : m < channel[i]
      BY <1>0, <1>a, <2>1, HeadBefore
    <2> HIDE DEF m
    <2>6. Increasing(pending_replies')
      BY <1>0, <1>a, <2>1, <2>2, <2>5, AppendIncreasing
    <2>7. Before(pending_replies', buffer')
      BY <1>0, <2>1, <2>2, <2>3, <2>4, AppendBefore
    <2>8. Before(pending_replies', channel)
      BY <1>0, <1>a, <2>1, <2>2, <2>5, AppendBefore
    <2> QED  BY <1>a, <2>1, <2>3, <2>4, <2>6, <2>7, <2>8 DEF QueueOrdered
  <1>6. ASSUME TakeMessage  PROVE  QueueOrdered'
    <2> DEFINE m == Head(channel)
    <2>1. /\ channel # << >> /\ channel' = Tail(channel)
          /\ buffer' = Append(<< >>, m)
          /\ UNCHANGED pending_replies
      BY <1>6 DEF TakeMessage
    <2>2. m \in Nat /\ channel' \in Seq(Nat) /\ << >> \in Seq(Nat)
      BY <1>0, <2>1, TailFacts
    <2>3. Increasing(channel') /\ \A i \in 1..Len(channel') : m < channel'[i]
      BY <1>0, <1>a, <2>1, TailIncreasing
    <2>4. Before(pending_replies, channel')
      BY <1>0, <1>a, <2>1, TailBefore
    <2>5. \A i \in 1..Len(pending_replies) : pending_replies[i] < m
      BY <1>0, <1>a, <2>1, HeadBefore
    <2> HIDE DEF m
    <2>6. Increasing(buffer')
      <3>1. buffer' = <<m>>
        BY <2>1
      <3> QED  BY <3>1 DEF Increasing
    <2>7. Before(pending_replies, buffer')
      BY <1>0, <2>1, <2>2, <2>5, AppendBefore, EmptyOrdered
    <2>8. Before(buffer', channel')
      BY <2>1, <2>2, <2>3, AppendBefore, EmptyOrdered
    <2> QED  BY <1>a, <2>1, <2>3, <2>4, <2>6, <2>7, <2>8 DEF QueueOrdered
  <1>7. ASSUME ReceiveAck  PROVE  QueueOrdered'
    <2>1. /\ pending_replies # << >> /\ pending_replies' = Tail(pending_replies)
          /\ UNCHANGED <<channel, buffer>>
      BY <1>7 DEF ReceiveAck
    <2>2. Increasing(pending_replies')
      BY <1>0, <1>a, <2>1, TailIncreasing
    <2>3. Before(pending_replies', buffer) /\ Before(pending_replies', channel)
      BY <1>0, <1>a, <2>1, TailBefore
    <2> QED  BY <1>a, <2>1, <2>2, <2>3 DEF QueueOrdered
  <1>8. ASSUME LoseConnection  PROVE  QueueOrdered'
    <2>1. /\ buffer' = pending_replies \o buffer /\ pending_replies' = << >>
          /\ UNCHANGED channel
      BY <1>8 DEF LoseConnection, Requeue
    <2>2. Increasing(buffer') /\ Before(buffer', channel)
      BY <1>0, <1>a, <2>1, ConcatOrdered
    <2> QED  BY <1>a, <2>1, <2>2, EmptyOrdered DEF QueueOrdered
  <1>9. ASSUME \/ Cancel \/ Connect \/ FailToConnect \/ TimerExpires \/ UNCHANGED vars
               \/ \E c \in Connection : Dispatch(c) \/ Break(c)
        PROVE  QueueOrdered'
    BY <1>2, <1>9
       DEF Cancel, Connect, FailToConnect, TimerExpires, Dispatch, Break, vars, senderVars
  <1> QED
    BY <1>1, <1>3, <1>4, <1>5, <1>6, <1>7, <1>8, <1>9 DEF Next, SenderNext

------------------------------------------------------------------------------
(* The connections *)

LEMMA NextConnections ==
    ASSUME SenderInv, [Next]_vars
    PROVE  /\ NothingPending' /\ ConnectedOnce' /\ FreshConnections'
           /\ ResolvedReceived'
  <1>0. /\ current \in 0..Connections /\ Connections \in Nat
        /\ wire \in [Connection -> Seq(1..sent)]
        /\ acks \in [Connection -> Nat]
        /\ alive \in [Connection -> BOOLEAN]
        /\ state \in {"connecting", "waiting", "connected"}
    BY SenderAssumption DEF SenderInv, Types
  <1>a. /\ NothingPending /\ ConnectedOnce /\ FreshConnections
        /\ ResolvedReceived /\ WireIsPending
    BY DEF SenderInv
  <1>1. NothingPending'
    BY <1>a DEF NothingPending, Next, SenderNext, Send, Cancel, Connect, FailToConnect,
       TimerExpires, Drain, Skip, Write, TakeMessage, ReceiveAck, LoseConnection,
       Dispatch, Break, vars, senderVars
  <1>2. ConnectedOnce'
    <2>1. ASSUME Connect  PROVE  ConnectedOnce'
      BY <1>0, <2>1 DEF Connect, ConnectedOnce, Connection
    <2>2. ASSUME UNCHANGED current, state' = "connected" => state = "connected"
          PROVE  ConnectedOnce'
      BY <1>a, <2>2 DEF ConnectedOnce
    <2> QED
      BY <2>1, <2>2 DEF Next, SenderNext, Send, Cancel, FailToConnect,
         TimerExpires, Drain, Skip, Write, TakeMessage, ReceiveAck, LoseConnection,
         Dispatch, Break, vars, senderVars, networkVars
  <1>3. FreshConnections'
    <2>0. ASSUME UNCHANGED networkVars  PROVE  FreshConnections'
      BY <1>a, <2>0 DEF FreshConnections, networkVars
    <2>1. ASSUME Connect  PROVE  FreshConnections'
      <3>1. /\ current' = current + 1 /\ UNCHANGED <<wire, acks, alive>>
        BY <2>1 DEF Connect
      <3>2. \A c \in Connection : c > current' => c > current
        BY <1>0, <3>1 DEF Connection
      <3> QED  BY <1>a, <3>1, <3>2 DEF FreshConnections
    <2>2. ASSUME Write  PROVE  FreshConnections'
      <3>1. current \in Connection /\ UNCHANGED <<current, acks, alive>>
        BY <1>a, <2>2 DEF Write, ConnectedOnce
      <3>2. ASSUME NEW c \in Connection, c > current \/ ~alive[c]  PROVE  wire'[c] = wire[c]
        <4>1. CASE c # current
          BY <1>0, <2>2, <4>1 DEF Write
        <4>2. CASE c = current
          BY <1>0, <2>2, <3>2, <4>2 DEF Write
        <4> QED  BY <4>1, <4>2
      <3> QED  BY <1>a, <3>1, <3>2 DEF FreshConnections
    <2>3. ASSUME ReceiveAck  PROVE  FreshConnections'
      <3>1. /\ current \in Connection /\ UNCHANGED <<current, wire, alive>>
            /\ acks[current] > 0 /\ acks' = [acks EXCEPT ![current] = @ - 1]
        BY <1>a, <2>3 DEF ReceiveAck, ConnectedOnce
      <3>2. ASSUME NEW c \in Connection, c > current \/ ~alive[c]
            PROVE  wire[c] = << >> /\ acks'[c] = 0
        <4>1. wire[c] = << >> /\ acks[c] = 0
          BY <1>a, <3>2 DEF FreshConnections
        <4>2. c # current
          BY <3>1, <4>1
        <4> QED  BY <1>0, <3>1, <4>1, <4>2
      <3> QED  BY <3>1, <3>2 DEF FreshConnections
    <2>4. ASSUME NEW d \in Connection, Dispatch(d)  PROVE  FreshConnections'
      <3>1. /\ wire[d] # << >> /\ UNCHANGED <<current, alive>>
            /\ \A c \in Connection \ {d} : wire'[c] = wire[c] /\ acks'[c] = acks[c]
        BY <1>0, <2>4 DEF Dispatch
      <3>2. ~ (d > current \/ ~alive[d])
        BY <1>a, <3>1 DEF FreshConnections
      <3> QED  BY <1>a, <3>1, <3>2 DEF FreshConnections
    <2>5. ASSUME NEW d \in Connection, Break(d)  PROVE  FreshConnections'
      <3>1. /\ UNCHANGED current
            /\ wire'[d] = << >> /\ acks'[d] = 0
            /\ \A c \in Connection \ {d} :
                  wire'[c] = wire[c] /\ acks'[c] = acks[c] /\ alive'[c] = alive[c]
        BY <1>0, <2>5 DEF Break
      <3> QED  BY <1>a, <3>1 DEF FreshConnections
    <2> QED
      BY <2>0, <2>1, <2>2, <2>3, <2>4, <2>5 DEF Next, SenderNext, Send, Cancel,
         FailToConnect, TimerExpires, Drain, Skip, TakeMessage, LoseConnection, vars
  <1>4. ResolvedReceived'
    <2>1. ASSUME ReceiveAck  PROVE  ResolvedReceived'
      <3>1. /\ current \in Connection /\ state = "connected" /\ pending_replies # << >>
            /\ acks[current] > 0 /\ UNCHANGED received
            /\ resolved' \subseteq resolved \cup {Head(pending_replies)}
        BY <1>a, <2>1 DEF ReceiveAck, ConnectedOnce
      <3>2. alive[current]
        BY <1>0, <1>a, <3>1 DEF FreshConnections
      <3>3. 1 \in 1..acks[current]
        BY <1>0, <3>1
      <3>4. Head(pending_replies) = pending_replies[1]
        BY <3>1 DEF SenderInv, Types
      <3>5. Head(pending_replies) \in received
        BY <1>a, <3>1, <3>2, <3>3, <3>4 DEF WireIsPending
      <3> QED  BY <1>a, <3>1, <3>5 DEF ResolvedReceived
    <2>2. ASSUME UNCHANGED resolved, received \subseteq received'  PROVE  ResolvedReceived'
      BY <1>a, <2>2 DEF ResolvedReceived
    <2> QED
      BY <2>1, <2>2 DEF Next, SenderNext, Send, Cancel, Connect, FailToConnect,
         TimerExpires, Drain, Skip, Write, TakeMessage, LoseConnection,
         Dispatch, Break, vars, senderVars, networkVars
  <1> QED  BY <1>1, <1>2, <1>3, <1>4

(* What is written when the current connection is alive. *)
LEMMA WriteFacts ==
    ASSUME SenderInv, Write, alive[current]
    PROVE  /\ current \in Connection
           /\ wire[current] \in Seq(1..sent)
           /\ Len(wire[current]) \in Nat /\ Len(pending_replies) \in Nat
           /\ acks[current] \in Nat
           /\ Head(buffer) \in 1..sent
           /\ wire'[current] = Append(wire[current], Head(buffer))
           /\ Len(wire'[current]) = Len(wire[current]) + 1
           /\ \A i \in 1..Len(wire[current]) : wire'[current][i] = wire[current][i]
           /\ wire'[current][Len(wire[current]) + 1] = Head(buffer)
           /\ Len(pending_replies') = Len(pending_replies) + 1
           /\ \A i \in 1..Len(pending_replies) :
                  pending_replies'[i] = pending_replies[i]
           /\ pending_replies'[Len(pending_replies) + 1] = Head(buffer)
  <1>1. /\ current \in Connection /\ acks[current] \in Nat
        /\ buffer \in Seq(1..sent) /\ buffer # << >>
        /\ pending_replies \in Seq(1..sent)
        /\ wire \in [Connection -> Seq(1..sent)]
        /\ wire' = [wire EXCEPT ![current] = Append(@, Head(buffer))]
        /\ pending_replies' = Append(pending_replies, Head(buffer))
    BY DEF Write, SenderInv, Types, ConnectedOnce
  <1>2. Head(buffer) \in 1..sent
    BY <1>1, TailFacts
  <1>3. /\ wire[current] \in Seq(1..sent)
        /\ wire'[current] = Append(wire[current], Head(buffer))
    BY <1>1
  <1> QED  BY <1>1, <1>2, <1>3, AppendFacts

(* What a dispatch on connection c takes. *)
LEMMA DispatchFacts ==
    ASSUME SenderInv, NEW c \in Connection, Dispatch(c)
    PROVE  /\ Len(wire[c]) \in Nat \ {0}
           /\ wire[c][1] \in 1..sent
           /\ received' = received \cup {wire[c][1]}
           /\ Len(wire'[c]) = Len(wire[c]) - 1
           /\ \A i \in 1..(Len(wire[c]) - 1) : wire'[c][i] = wire[c][i + 1]
           /\ acks[c] \in Nat /\ acks'[c] = acks[c] + 1
           /\ \A d \in Connection \ {c} : wire'[d] = wire[d] /\ acks'[d] = acks[d]
           /\ UNCHANGED <<sent, cancelled, resolved, pending_replies, state, current, alive>>
  <1>1. /\ wire \in [Connection -> Seq(1..sent)] /\ acks \in [Connection -> Nat]
        /\ wire[c] # << >> /\ wire' = [wire EXCEPT ![c] = Tail(@)]
        /\ acks' = [acks EXCEPT ![c] = @ + 1]
        /\ received' = received \cup {Head(wire[c])}
        /\ UNCHANGED <<sent, cancelled, resolved, pending_replies, state, current, alive>>
    BY DEF Dispatch, SenderInv, Types, senderVars
  <1>2. /\ wire[c] \in Seq(1..sent) /\ wire'[c] = Tail(wire[c])
        /\ acks[c] \in Nat /\ acks'[c] = acks[c] + 1
        /\ \A d \in Connection \ {c} : wire'[d] = wire[d] /\ acks'[d] = acks[d]
    BY <1>1
  <1>3. /\ Len(wire[c]) \in Nat \ {0}
        /\ Head(wire[c]) = wire[c][1] /\ wire[c][1] \in 1..sent
        /\ Len(Tail(wire[c])) = Len(wire[c]) - 1
        /\ \A i \in 1..(Len(wire[c]) - 1) : Tail(wire[c])[i] = wire[c][i + 1]
    <2> DEFINE w == wire[c]
    <2>1. w \in Seq(1..sent) /\ w # << >>
      BY <1>1, <1>2
    <2> HIDE DEF w
    <2>2. /\ Len(w) \in Nat \ {0} /\ Head(w) = w[1] /\ w[1] \in 1..sent
          /\ Len(Tail(w)) = Len(w) - 1
          /\ \A i \in 1..(Len(w) - 1) : Tail(w)[i] = w[i + 1]
      BY <2>1, TailFacts
    <2> QED  BY <2>2 DEF w
  <1> QED  BY <1>1, <1>2, <1>3

LEMMA NextWireIsPending ==
    ASSUME SenderInv, [Next]_vars
    PROVE  WireIsPending'
  <1>a. /\ NothingPending /\ ConnectedOnce /\ FreshConnections /\ WireIsPending
        /\ current \in 0..Connections /\ Connections \in Nat
        /\ wire \in [Connection -> Seq(1..sent)]
        /\ acks \in [Connection -> Nat]
        /\ alive \in [Connection -> BOOLEAN]
        /\ pending_replies \in Seq(1..sent)
    BY SenderAssumption DEF SenderInv, Types
  <1>1. ASSUME UNCHANGED <<wire, acks, alive, current, pending_replies, received>>,
               state' = "connected" => state = "connected"
        PROVE  WireIsPending'
    BY <1>a, <1>1 DEF WireIsPending
  <1>2. ASSUME Connect  PROVE  WireIsPending'
    <2>1. /\ current' = current + 1 /\ current < Connections /\ state # "connected"
          /\ UNCHANGED <<wire, acks, alive, pending_replies, received>>
      BY <1>2 DEF Connect
    <2>2. current' \in Connection /\ current' > current
      BY <1>a, <2>1 DEF Connection
    <2>3. wire'[current'] = << >> /\ acks'[current'] = 0 /\ pending_replies' = << >>
      BY <1>a, <2>1, <2>2 DEF FreshConnections, NothingPending
    <2> QED  BY <2>3 DEF WireIsPending
  <1>3. ASSUME Write  PROVE  WireIsPending'
    <2>1. /\ state = "connected" /\ UNCHANGED <<state, current, acks, alive, received>>
      BY <1>3 DEF Write
    <2>2. SUFFICES ASSUME alive[current]  PROVE  WireIsPending'
      BY <2>1 DEF WireIsPending
    <2> DEFINE w == wire[current]
               v == wire'[current]
               a == acks[current]
               p == pending_replies
               b == Head(buffer)
    <2>3. /\ Len(w) \in Nat /\ Len(p) \in Nat /\ a \in Nat
          /\ Len(v) = Len(w) + 1
          /\ \A i \in 1..Len(w) : v[i] = w[i]
          /\ v[Len(w) + 1] = b
          /\ Len(pending_replies') = Len(p) + 1
          /\ \A i \in 1..Len(p) : pending_replies'[i] = p[i]
          /\ pending_replies'[Len(p) + 1] = b
      BY <1>3, <2>2, WriteFacts
    <2>4. /\ a + Len(w) = Len(p)
          /\ \A i \in 1..Len(w) : w[i] = p[a + i]
          /\ \A i \in 1..a : p[i] \in received
      BY <1>a, <2>1, <2>2 DEF WireIsPending
    <2> HIDE DEF w, v, a, p, b
    <2>5. a + Len(v) = Len(pending_replies')
      BY <2>3, <2>4
    <2>6. ASSUME NEW i \in 1..Len(v)  PROVE  v[i] = pending_replies'[a + i]
      <3>1. CASE i = Len(w) + 1
        <4>1. a + i = Len(p) + 1
          BY <2>3, <2>4, <3>1
        <4> QED  BY <2>3, <3>1, <4>1
      <3>2. CASE i \in 1..Len(w)
        <4>1. a + i \in 1..Len(p)
          BY <2>3, <2>4, <3>2
        <4> QED  BY <2>3, <2>4, <3>2, <4>1
      <3>3. i = Len(w) + 1 \/ i \in 1..Len(w)
        BY <2>3
      <3> QED  BY <3>1, <3>2, <3>3
    <2>7. ASSUME NEW i \in 1..a  PROVE  pending_replies'[i] \in received
      <3>1. i \in 1..Len(p)
        BY <2>3, <2>4
      <3> QED  BY <2>3, <2>4, <3>1
    <2>8. acks'[current] = acks[current]
      BY <2>1
    <2> QED  BY <2>1, <2>5, <2>6, <2>7, <2>8 DEF WireIsPending, v, a
  <1>4. ASSUME ReceiveAck  PROVE  WireIsPending'
    <2>1. /\ state = "connected" /\ current \in Connection /\ pending_replies # << >>
          /\ acks[current] > 0 /\ acks' = [acks EXCEPT ![current] = @ - 1]
          /\ pending_replies' = Tail(pending_replies)
          /\ UNCHANGED <<state, current, wire, alive, received>>
      BY <1>a, <1>4 DEF ReceiveAck, ConnectedOnce
    <2>2. SUFFICES ASSUME alive[current]  PROVE  WireIsPending'
      BY <2>1 DEF WireIsPending
    <2> DEFINE w == wire[current]
               a == acks[current]
               p == pending_replies
    <2>3. /\ Len(w) \in Nat /\ a \in Nat \ {0} /\ acks'[current] = a - 1
      BY <1>a, <2>1
    <2>4. /\ Len(p) \in Nat \ {0} /\ Len(pending_replies') = Len(p) - 1
          /\ \A i \in 1..(Len(p) - 1) : pending_replies'[i] = p[i + 1]
      BY <1>a, <2>1, TailFacts
    <2>5. /\ a + Len(w) = Len(p)
          /\ \A i \in 1..Len(w) : w[i] = p[a + i]
          /\ \A i \in 1..a : p[i] \in received
      BY <1>a, <2>1, <2>2 DEF WireIsPending
    <2> HIDE DEF w, a, p
    <2>6. (a - 1) + Len(w) = Len(pending_replies')
      BY <2>3, <2>4, <2>5
    <2>7. ASSUME NEW i \in 1..Len(w)  PROVE  w[i] = pending_replies'[(a - 1) + i]
      <3>1. (a - 1) + i \in 1..(Len(p) - 1) /\ ((a - 1) + i) + 1 = a + i
        BY <2>3, <2>4, <2>5
      <3> QED  BY <2>4, <2>5, <3>1
    <2>8. ASSUME NEW i \in 1..(a - 1)  PROVE  pending_replies'[i] \in received
      <3>1. i \in 1..(Len(p) - 1) /\ i + 1 \in 1..a
        BY <2>3, <2>4, <2>5
      <3> QED  BY <2>4, <2>5, <3>1
    <2> QED  BY <2>1, <2>3, <2>6, <2>7, <2>8, ZenonT(60) DEF WireIsPending, w
  <1>5. ASSUME LoseConnection  PROVE  WireIsPending'
    BY <1>5 DEF LoseConnection, WireIsPending
  <1>6. ASSUME NEW c \in Connection, Dispatch(c)  PROVE  WireIsPending'
    <2>1. /\ Len(wire[c]) \in Nat \ {0}
          /\ received' = received \cup {wire[c][1]}
          /\ Len(wire'[c]) = Len(wire[c]) - 1
          /\ \A i \in 1..(Len(wire[c]) - 1) : wire'[c][i] = wire[c][i + 1]
          /\ acks[c] \in Nat /\ acks'[c] = acks[c] + 1
          /\ \A d \in Connection \ {c} : wire'[d] = wire[d] /\ acks'[d] = acks[d]
          /\ UNCHANGED <<pending_replies, state, current, alive>>
      BY <1>6, DispatchFacts
    <2>2. SUFFICES ASSUME state = "connected", alive[current]
                   PROVE  WireIsPending'
      BY <2>1 DEF WireIsPending
    <2>3. current \in Connection
      BY <1>a, <2>2 DEF ConnectedOnce
    <2>4. /\ acks[current] + Len(wire[current]) = Len(pending_replies)
          /\ \A i \in 1..Len(wire[current]) :
                 wire[current][i] = pending_replies[acks[current] + i]
          /\ \A i \in 1..acks[current] : pending_replies[i] \in received
      BY <1>a, <2>2 DEF WireIsPending
    <2>5. CASE c # current
      BY <2>1, <2>3, <2>4, <2>5 DEF WireIsPending
    <2>6. CASE c = current
      <3> DEFINE w == wire[c]
                 v == wire'[c]
                 a == acks[c]
                 p == pending_replies
      <3>1. /\ Len(w) \in Nat \ {0} /\ a \in Nat
            /\ received' = received \cup {w[1]}
            /\ Len(v) = Len(w) - 1
            /\ \A i \in 1..(Len(w) - 1) : v[i] = w[i + 1]
            /\ a + Len(w) = Len(p)
            /\ \A i \in 1..Len(w) : w[i] = p[a + i]
            /\ \A i \in 1..a : p[i] \in received
        BY <2>1, <2>4, <2>6
      <3> HIDE DEF w, v, a, p
      <3>2. (a + 1) + Len(v) = Len(p)
        <4>1. \A x \in Nat, y \in Nat : (x + 1) + (y - 1) = x + y
          OBVIOUS
        <4>2. a \in Nat /\ Len(w) \in Nat /\ Len(v) = Len(w) - 1 /\ a + Len(w) = Len(p)
          BY <3>1
        <4> QED  BY <4>1, <4>2, Zenon
      <3>3. ASSUME NEW i \in 1..Len(v)  PROVE  v[i] = p[(a + 1) + i]
        <4>1. i \in 1..(Len(w) - 1) /\ i + 1 \in 1..Len(w) /\ a + (i + 1) = (a + 1) + i
          BY <3>1
        <4> QED  BY <3>1, <4>1
      <3>4. ASSUME NEW i \in 1..(a + 1)  PROVE  p[i] \in received'
        <4>1. CASE i = a + 1
          <5>1. 1 \in 1..Len(w)
            BY <3>1
          <5> QED  BY <3>1, <4>1, <5>1
        <4>2. CASE i \in 1..a
          BY <3>1, <4>2
        <4>3. i = a + 1 \/ i \in 1..a
          BY <3>1
        <4> QED  BY <4>1, <4>2, <4>3
      <3> QED  BY <2>1, <2>6, <3>2, <3>3, <3>4, ZenonT(60) DEF WireIsPending, v, a, p
    <2> QED  BY <2>5, <2>6
  <1>7. ASSUME NEW c \in Connection, Break(c)  PROVE  WireIsPending'
    <2>1. /\ alive'[c] = FALSE
          /\ \A d \in Connection \ {c} :
                wire'[d] = wire[d] /\ acks'[d] = acks[d] /\ alive'[d] = alive[d]
          /\ UNCHANGED <<pending_replies, state, current, received>>
      BY <1>a, <1>7 DEF Break, senderVars
    <2>2. SUFFICES ASSUME state = "connected", alive'[current]
                   PROVE  WireIsPending'
      BY <2>1 DEF WireIsPending
    <2>3. current \in Connection \ {c}
      BY <1>a, <2>1, <2>2 DEF ConnectedOnce
    <2> QED  BY <1>a, <2>1, <2>2, <2>3 DEF WireIsPending
  <1> QED
    BY <1>1, <1>2, <1>3, <1>4, <1>5, <1>6, <1>7 DEF Next, SenderNext, Send, Cancel,
       FailToConnect, TimerExpires, Drain, Skip, TakeMessage, vars, senderVars, networkVars

(* What the current connection will carry was sent before b, or received. *)
LEMMA WrittenInOrder ==
    ASSUME SenderInv, Write, alive[current]
    PROVE  \A k \in 1..(Head(buffer) - 1) :
               \/ k \in received \cup cancelled
               \/ \E j \in 1..Len(wire[current]) : wire[current][j] = k
  <1> DEFINE b == Head(buffer)
             w == wire[current]
             a == acks[current]
             p == pending_replies
  <1>1. /\ b \in 1..sent /\ sent \in Nat /\ Len(w) \in Nat /\ Len(p) \in Nat /\ a \in Nat
    BY WriteFacts DEF SenderInv, Types
  <1>2. /\ state = "connected" /\ buffer # << >>
        /\ channel \in Seq(Nat) /\ buffer \in Seq(Nat)
    BY QueueNat DEF Write, SenderInv
  <1>3. /\ a + Len(w) = Len(p)
        /\ \A i \in 1..Len(w) : w[i] = p[a + i]
        /\ \A i \in 1..a : p[i] \in received
    BY <1>2 DEF SenderInv, WireIsPending
  <1>4. /\ \A i \in 1..Len(channel) : b < channel[i]
        /\ \A i \in 1..Len(Tail(buffer)) : b < Tail(buffer)[i]
    BY <1>2, HeadBefore, TailIncreasing DEF SenderInv, QueueOrdered
  <1>5. ASSUME NEW k \in 1..(b - 1)
        PROVE  k \in received \cup cancelled \/ \E j \in 1..Len(w) : w[j] = k
    <2>1. k \in 1..sent /\ k < b /\ k # b /\ k \in Nat
      BY <1>1
    <2>2. ~ Contains(channel, k)
      BY <1>1, <1>2, <1>4, <2>1, SMTT(30) DEF Contains
    <2>3. ~ Contains(buffer, k)
      <3>1. ~ Contains(Tail(buffer), k)
        BY <1>1, <1>4, <2>1 DEF Contains
      <3> QED  BY <1>2, <2>1, <3>1, TailContains
    <2>4. k \in cancelled \cup resolved \/ Contains(p, k)
      BY <2>1, <2>2, <2>3 DEF SenderInv, NoneLost
    <2>5. resolved \subseteq received
      BY DEF SenderInv, ResolvedReceived
    <2> HIDE DEF w, a, p, b
    <2>6. ASSUME Contains(p, k)
          PROVE  k \in received \/ \E j \in 1..Len(w) : w[j] = k
      <3>1. PICK i \in 1..Len(p) : p[i] = k
        BY <2>6 DEF Contains
      <3>2. CASE i \in 1..a
        BY <1>3, <3>1, <3>2
      <3>3. CASE i \notin 1..a
        <4>1. i - a \in 1..Len(w) /\ a + (i - a) = i
          BY <1>1, <1>3, <3>3
        <4> QED  BY <1>3, <3>1, <4>1
      <3> QED  BY <3>2, <3>3
    <2> QED  BY <2>4, <2>5, <2>6
  <1> QED  BY <1>5

LEMMA NextWiresInOrder ==
    ASSUME SenderInv, [Next]_vars
    PROVE  WiresInOrder'
  <1>a. /\ WiresInOrder /\ wire \in [Connection -> Seq(1..sent)]
    BY DEF SenderInv, Types
  <1>1. ASSUME \A c \in Connection : wire'[c] = wire[c] \/ wire'[c] = << >>,
               received \subseteq received', cancelled \subseteq cancelled'
        PROVE  WiresInOrder'
    <2> SUFFICES ASSUME NEW c \in Connection, NEW i \in 1..Len(wire'[c]),
                        NEW k \in 1..(wire'[c][i] - 1)
                 PROVE  \/ k \in received' \cup cancelled'
                        \/ \E j \in 1..(i - 1) : wire'[c][j] = k
      BY DEF WiresInOrder, InOrder
    <2>1. wire'[c] = wire[c]
      BY <1>1
    <2> QED  BY <1>a, <1>1, <2>1 DEF WiresInOrder, InOrder
  <1>2. ASSUME Write  PROVE  WiresInOrder'
    <2>1. UNCHANGED <<received, cancelled>>
      BY <1>2 DEF Write
    <2>2. CASE ~ alive[current]
      BY <1>1, <1>2, <2>1, <2>2 DEF Write
    <2>3. CASE alive[current]
      <3>1. /\ current \in Connection
            /\ Len(wire[current]) \in Nat
            /\ Len(wire'[current]) = Len(wire[current]) + 1
            /\ \A i \in 1..Len(wire[current]) : wire'[current][i] = wire[current][i]
            /\ wire'[current][Len(wire[current]) + 1] = Head(buffer)
        BY <1>2, <2>3, WriteFacts
      <3>2. \A c \in Connection \ {current} : wire'[c] = wire[c]
        BY <1>a, <1>2 DEF Write
      <3> SUFFICES ASSUME NEW c \in Connection, NEW i \in 1..Len(wire'[c]),
                          NEW k \in 1..(wire'[c][i] - 1)
                   PROVE  \/ k \in received \cup cancelled
                          \/ \E j \in 1..(i - 1) : wire'[c][j] = k
        BY <2>1 DEF WiresInOrder, InOrder
      <3>3. CASE c # current
        BY <1>a, <3>2, <3>3 DEF WiresInOrder, InOrder
      <3>4. CASE c = current
        <4> DEFINE w == wire[current]
                   v == wire'[current]
        <4>1. /\ Len(w) \in Nat /\ i \in 1..(Len(w) + 1) /\ k \in 1..(v[i] - 1)
              /\ \A j \in 1..Len(w) : v[j] = w[j]
              /\ v[Len(w) + 1] = Head(buffer)
          BY <3>1, <3>4
        <4>2. \A n \in 1..Len(w) : \A m \in 1..(w[n] - 1) :
                 m \in received \cup cancelled \/ \E j \in 1..(n - 1) : w[j] = m
          BY <1>a, <3>1 DEF WiresInOrder, InOrder
        <4>3. \A m \in 1..(Head(buffer) - 1) :
                 m \in received \cup cancelled \/ \E j \in 1..Len(w) : w[j] = m
          BY <1>2, <2>3, WrittenInOrder
        <4> HIDE DEF w, v
        <4>4. CASE i = Len(w) + 1
          <5>1. k \in received \cup cancelled \/ \E j \in 1..Len(w) : w[j] = k
            BY <4>1, <4>3, <4>4
          <5>2. i - 1 = Len(w)
            BY <4>1, <4>4
          <5>3. k \in received \cup cancelled \/ \E j \in 1..(i - 1) : v[j] = k
            BY <4>1, <5>1, <5>2, Zenon
          <5> QED  BY <3>4, <5>3 DEF v
        <4>5. CASE i \in 1..Len(w)
          <5>1. k \in received \cup cancelled \/ \E j \in 1..(i - 1) : w[j] = k
            BY <4>1, <4>2, <4>5
          <5>2. \A j \in 1..(i - 1) : j \in 1..Len(w)
            BY <4>1, <4>5
          <5>3. k \in received \cup cancelled \/ \E j \in 1..(i - 1) : v[j] = k
            BY <4>1, <5>1, <5>2, Zenon
          <5> QED  BY <3>4, <5>3 DEF v
        <4>6. i = Len(w) + 1 \/ i \in 1..Len(w)
          BY <4>1
        <4> QED  BY <4>4, <4>5, <4>6
      <3> QED  BY <3>3, <3>4
    <2> QED  BY <2>2, <2>3
  <1>3. ASSUME NEW d \in Connection, Dispatch(d)  PROVE  WiresInOrder'
    <2>1. /\ Len(wire[d]) \in Nat \ {0}
          /\ received' = received \cup {wire[d][1]}
          /\ Len(wire'[d]) = Len(wire[d]) - 1
          /\ \A i \in 1..(Len(wire[d]) - 1) : wire'[d][i] = wire[d][i + 1]
          /\ \A c \in Connection \ {d} : wire'[c] = wire[c]
          /\ UNCHANGED cancelled
      BY <1>3, DispatchFacts
    <2> SUFFICES ASSUME NEW c \in Connection, NEW i \in 1..Len(wire'[c]),
                        NEW k \in 1..(wire'[c][i] - 1)
                 PROVE  \/ k \in received' \cup cancelled'
                        \/ \E j \in 1..(i - 1) : wire'[c][j] = k
      BY DEF WiresInOrder, InOrder
    <2>2. CASE c # d
      BY <1>a, <2>1, <2>2 DEF WiresInOrder, InOrder
    <2>3. CASE c = d
      <3> DEFINE w == wire[d]
                 v == wire'[d]
      <3>1. /\ Len(w) \in Nat \ {0} /\ i \in 1..(Len(w) - 1) /\ k \in 1..(v[i] - 1)
            /\ received' = received \cup {w[1]}
            /\ \A j \in 1..(Len(w) - 1) : v[j] = w[j + 1]
        BY <2>1, <2>3
      <3>2. \A n \in 1..Len(w) : \A m \in 1..(w[n] - 1) :
               m \in received \cup cancelled \/ \E j \in 1..(n - 1) : w[j] = m
        BY <1>a DEF WiresInOrder, InOrder
      <3> HIDE DEF w, v
      <3>3. i + 1 \in 1..Len(w) /\ v[i] = w[i + 1] /\ (i + 1) - 1 = i
        BY <3>1
      <3>4. k \in received \cup cancelled \/ \E j \in 1..i : w[j] = k
        BY <3>1, <3>2, <3>3
      <3>5. ASSUME NEW j \in 1..i, w[j] = k
            PROVE  k \in received' \/ \E n \in 1..(i - 1) : v[n] = k
        <4>1. CASE j = 1
          BY <3>1, <3>5, <4>1
        <4>2. CASE j # 1
          <5>1. j - 1 \in 1..(i - 1) /\ j - 1 \in 1..(Len(w) - 1) /\ (j - 1) + 1 = j
            BY <3>1, <4>2
          <5> QED  BY <3>1, <3>5, <5>1
        <4> QED  BY <4>1, <4>2
      <3>6. \/ k \in received' \cup cancelled
            \/ \E n \in 1..(i - 1) : v[n] = k
        BY <3>1, <3>4, <3>5, Zenon
      <3> QED  BY <2>1, <2>3, <3>6 DEF v
    <2> QED  BY <2>2, <2>3
  <1>4. ASSUME NEW c \in Connection, Break(c)  PROVE  WiresInOrder'
    BY <1>a, <1>1, <1>4 DEF Break
  <1> QED
    BY <1>1, <1>2, <1>3, <1>4 DEF Next, SenderNext, Send, Cancel, Connect,
       FailToConnect, TimerExpires, Drain, Skip, TakeMessage, ReceiveAck, LoseConnection,
       vars, senderVars, networkVars

------------------------------------------------------------------------------
(* Theorems *)

LEMMA InitSenderInv == Init => SenderInv
  <1> SUFFICES ASSUME Init  PROVE  SenderInv
    OBVIOUS
  <1>1. Types
    BY InitTypes
  <1>2. /\ sent = 0 /\ resolved = {} /\ received = {}
        /\ channel = << >> /\ buffer = << >> /\ pending_replies = << >>
        /\ state = "connecting"
        /\ \A c \in Connection : wire[c] = << >> /\ acks[c] = 0
    BY DEF Init
  <1>3. QueueOrdered
    BY <1>2, EmptyOrdered DEF QueueOrdered
  <1>4. NoneLost
    BY <1>2 DEF NoneLost
  <1>5. NothingPending /\ ConnectedOnce /\ FreshConnections /\ WireIsPending
    BY <1>2 DEF NothingPending, ConnectedOnce, FreshConnections, WireIsPending
  <1>6. WiresInOrder
    BY <1>2 DEF WiresInOrder, InOrder
  <1>7. ResolvedReceived
    BY <1>2 DEF ResolvedReceived
  <1> QED  BY <1>1, <1>3, <1>4, <1>5, <1>6, <1>7 DEF SenderInv

(* Every reachable state satisfies the inductive invariant. *)
LEMMA SenderInvariant == Spec => []SenderInv
  <1>1. SenderInv /\ [Next]_vars => SenderInv'
    BY NextTypes, NextQueueOrdered, NextNoneLost, NextConnections, NextWireIsPending,
       NextWiresInOrder DEF SenderInv
  <1> QED  BY InitSenderInv, <1>1, PTL DEF Spec

(* Connection keeps its state in the types the code declares, and an       *)
(* acknowledgement never comes without a pending message: the error        *)
(* UnexpectedAck of keep_alive does not happen on a correct peer.          *)
THEOREM AcksAreExpected == Spec => []TypeOK
  <1>1. SenderInv => TypeOK
    <2> SUFFICES ASSUME SenderInv  PROVE  TypeOK
      OBVIOUS
    <2>1. ASSUME state = "connected"  PROVE  acks[current] <= Len(pending_replies)
      <3>1. /\ current \in Connection /\ acks[current] \in Nat
            /\ wire[current] \in Seq(1..sent) /\ pending_replies \in Seq(1..sent)
        BY <2>1 DEF SenderInv, Types, ConnectedOnce
      <3>2. Len(wire[current]) \in Nat /\ Len(pending_replies) \in Nat
        BY <3>1
      <3>3. CASE alive[current]
        <4>1. acks[current] + Len(wire[current]) = Len(pending_replies)
          BY <2>1, <3>3 DEF SenderInv, WireIsPending
        <4> QED  BY <3>1, <3>2, <4>1
      <3>4. CASE ~ alive[current]
        <4>1. acks[current] = 0
          BY <3>1, <3>4 DEF SenderInv, FreshConnections
        <4> QED  BY <3>2, <4>1
      <3> QED  BY <3>3, <3>4
    <2> QED  BY <2>1 DEF TypeOK, SenderInv, Types
  <1> QED  BY SenderInvariant, <1>1, PTL

(* A message whose handler is neither resolved nor dropped is held by the   *)
(* Connection task, in its channel, its buffer or its pending replies.      *)
THEOREM MessagesAreKept == Spec => []NothingLost
  <1>1. SenderInv => NothingLost
    <2> SUFFICES ASSUME SenderInv, NEW m \in 1..sent
                 PROVE  m \in cancelled \cup resolved \/ Held(m)
      BY DEF NothingLost
    <2>1. \/ m \in cancelled \cup resolved
          \/ Contains(pending_replies, m) \/ Contains(buffer, m) \/ Contains(channel, m)
      BY DEF SenderInv, NoneLost
    <2>2. /\ DOMAIN pending_replies = 1..Len(pending_replies)
          /\ DOMAIN buffer = 1..Len(buffer) /\ DOMAIN channel = 1..Len(channel)
      BY DEF SenderInv, Types
    <2> QED  BY <2>1, <2>2 DEF Held, Contains
  <1> QED  BY SenderInvariant, <1>1, PTL

(* Every step of the caller, the Connection task, the peer and the network *)
(* is a step of AtLeastOnce or changes nothing it sees: a handler resolves *)
(* only for a message the peer received, and uncancelled messages are      *)
(* first received in the order of sending, whatever is sent again and      *)
(* whatever connections that were given up still deliver.                  *)
THEOREM StepsAreAtLeastOnce ==
    Spec => /\ AtLeastOnceSpec!AbsInit
            /\ [][AtLeastOnceSpec!AbsNext]_(AtLeastOnceSpec!absVars)
  <1>1. Init => AtLeastOnceSpec!AbsInit
    BY DEF Init, AtLeastOnceSpec!AbsInit
  <1>2. ASSUME SenderInv, [Next]_vars
        PROVE  [AtLeastOnceSpec!AbsNext]_(AtLeastOnceSpec!absVars)
    <2> DEFINE Step == [AtLeastOnceSpec!AbsNext]_(AtLeastOnceSpec!absVars)
    <2>0. ASSUME UNCHANGED <<sent, cancelled, received, resolved>>  PROVE  Step
      BY <2>0 DEF AtLeastOnceSpec!absVars
    <2>1. ASSUME Send  PROVE  Step
      BY <2>1 DEF Send, AtLeastOnceSpec!AbsNext, AtLeastOnceSpec!AbsSend
    <2>2. ASSUME Cancel  PROVE  Step
      BY <2>2 DEF Cancel, AtLeastOnceSpec!AbsNext, AtLeastOnceSpec!AbsCancel
    <2>3. ASSUME ReceiveAck  PROVE  Step
      <3> DEFINE m == Head(pending_replies)
      <3>1. /\ pending_replies # << >> /\ pending_replies \in Seq(1..sent)
            /\ UNCHANGED <<sent, cancelled, received>>
            /\ resolved' = IF m \in cancelled THEN resolved ELSE resolved \cup {m}
        <4>1. pending_replies \in Seq(1..sent)
          BY <1>2 DEF SenderInv, Types
        <4> QED  BY <2>3, <4>1, Zenon DEF ReceiveAck
      <3>2. m \in 1..sent
        <4>1. pending_replies # << >> /\ pending_replies \in Seq(1..sent)
          BY <3>1
        <4> QED  BY <4>1, TailFacts, ZenonT(60)
      <3>3. ResolvedReceived'
        BY <1>2, NextConnections
      <3> HIDE DEF m
      <3>4. CASE m \in cancelled
        BY <2>0, <3>1, <3>4
      <3>5. CASE m \notin cancelled
        <4>1. resolved' = resolved \cup {m} /\ m \in received
          BY <3>1, <3>3, <3>5 DEF ResolvedReceived
        <4>2. AtLeastOnceSpec!AbsResolve(m)
          BY <3>1, <3>5, <4>1 DEF AtLeastOnceSpec!AbsResolve
        <4> QED  BY <3>2, <4>2 DEF AtLeastOnceSpec!AbsNext
      <3> QED  BY <3>4, <3>5
    <2>4. ASSUME NEW c \in Connection, Dispatch(c)  PROVE  Step
      <3>1. /\ Len(wire[c]) \in Nat \ {0} /\ wire[c][1] \in 1..sent
            /\ received' = received \cup {wire[c][1]}
            /\ UNCHANGED <<sent, cancelled, resolved>>
        BY <1>2, <2>4, DispatchFacts
      <3>2. 1 \in 1..Len(wire[c]) /\ 1..(1 - 1) = {}
        BY <3>1
      <3>3. \A k \in 1..(wire[c][1] - 1) : k \in received \cup cancelled
        BY <1>2, <3>2 DEF SenderInv, WiresInOrder, InOrder
      <3>4. AtLeastOnceSpec!AbsReceive(wire[c][1])
        BY <3>1, <3>3 DEF AtLeastOnceSpec!AbsReceive
      <3> QED  BY <3>1, <3>4 DEF AtLeastOnceSpec!AbsNext
    <2> QED
      BY <1>2, <2>0, <2>1, <2>2, <2>3, <2>4 DEF Next, SenderNext, Connect,
         FailToConnect, TimerExpires, Drain, Skip, Write, TakeMessage, LoseConnection,
         Break, vars
  <1> QED  BY SenderInvariant, <1>1, <1>2, PTL DEF Spec
==============================================================================
