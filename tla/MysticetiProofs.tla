---------------------------- MODULE MysticetiProofs ----------------------------
(***************************************************************************)
(* Proofs about MysticetiCore and MysticetiCommit for every committee and  *)
(* every bound.                                                            *)
(*                                                                         *)
(* Of MysticetiCore: what is pending survives a restart, a payload goes    *)
(* into one block of ours, our blocks are valid, and two of a round leave  *)
(* the validator only after the machine lost one that was sent.  CoreInv   *)
(* relates the log and what is pending, whatever stops.  ValidInv says     *)
(* where the blocks that a block needs lie in the log; it needs that the   *)
(* log keeps the first block of ours.  SentInv says that what others may   *)
(* have is in the log or was lost, and OnceInv that while nothing was lost *)
(* no block of ours comes back as a block of others.                       *)
(*                                                                         *)
(* Of MysticetiCommit, from "The dag of MysticetiCommit" on: validators    *)
(* agree on the sub-dags up to the order of the blocks in one, which is the*)
(* process's own (Sends), and the log is an order of the history without   *)
(* repetition.  Two quorums of a round share a correct author, so a slot   *)
(* with a certificate has no other and no quorum of blames; what is        *)
(* decided with some blocks is decided so with all (DecideKeeps), and a    *)
(* replica is always where one that holds the whole dag has been           *)
(* (CommitInv).                                                            *)
(***************************************************************************)
EXTENDS MysticetiCore, MysticetiCommit, BasicProofs, SequenceTheorems

------------------------------------------------------------------------------
(* The inductive invariant *)

Block == Authority \X Nat \X Nat

Entry ==
    [tag : {"block"}, block : Block] \cup
    [tag : {"own"}, block : Block, next : Nat, includes : SUBSET Block,
     payloads : SUBSET Nat] \cup
    [tag : {"payload", "state"}]

Publication == [block : Block, includes : SUBSET Block]

Clock == [round : Nat, voters : SUBSET Authority]

Validator ==
    [up : BOOLEAN, wal : Seq(Entry), pending : Seq(Nat), clock : Clock, force : BOOLEAN,
     signal : Nat, failed : SUBSET {"own", "genesis"}]

Own(w) == Positions(w, {"own"})
Blocks(w) == Positions(w, {"block"})

(* Our blocks: each comes after the one of a lower round.                  *)
OwnRounds(w) ==
    /\ \A p \in Own(w) : w[p].block[1] = Self
    /\ \A p, q \in Own(w) : p < q => w[p].block[2] < w[q].block[2]
    /\ \A q \in Own(w) : w[q].block[2] > 0 => \E p \in Own(w) : p < q

(* A payload in a block of ours was logged before it, and lies at or after *)
(* the next entry of all earlier blocks of ours, and not of this one.      *)
PayloadsTaken(w) ==
    \A q \in Own(w) : \A p \in w[q].payloads :
        /\ p \in 1..(q - 1) /\ w[p].tag = "payload" /\ w[q].next \notin 1..p
        /\ \A o \in Own(w) : p < o /\ o < q => w[o].next \in 1..p

(* What a block of ours drops from pending is of a lower round. *)
BlocksTaken(w) ==
    \A q \in Own(w) : \A p \in Blocks(w) :
        p < q => \/ w[p].block[2] < w[q].block[2]
                 \/ w[p].block[2] = 0
                 \/ w[q].next \in 1..p

LogInv(w) ==
    /\ w \in Seq(Entry)
    /\ OwnRounds(w) /\ PayloadsTaken(w) /\ BlocksTaken(w)

(* Statements are pending in the order of the log, but for the blocks that *)
(* were accepted in one call, which are in the order of their rounds.      *)
InOrder(w, s) ==
    \A i, j \in 1..Len(s) : i < j =>
        \/ s[i] < s[j]
        \/ s[i] \in Blocks(w) /\ s[j] \in Blocks(w) /\ w[s[i]].block[2] < w[s[j]].block[2]

(* What is pending of a log. *)
PendingInv(w, s) ==
    /\ Range(s) \subseteq RecoveredPending(w)
    /\ \A p \in RecoveredPending(w) : w[p].tag = "payload" => p \in Range(s)
    /\ \A p \in Blocks(w) :
          p \in Range(s) \/ w[p].block[2] = 0 \/ w[p].block[2] < LastProposed(w)
    /\ InOrder(w, s)

ClockAhead(w, s, c) ==
    \A p \in Range(s) : w[p].tag = "block" => w[p].block[2] <= c.round

(* A validator that runs. *)
UpInv(x) ==
    /\ Own(x.wal) # {}
    /\ PendingInv(x.wal, x.pending)
    /\ ClockAhead(x.wal, x.pending, x.clock)

CoreInv ==
    /\ v \in Validator
    /\ timer \in [round : Nat, timed_out : BOOLEAN]
    /\ synced \in Nat /\ crashes \in Nat
    /\ published \subseteq Publication /\ IsFiniteSet(published)
    /\ LogInv(v.wal)
    /\ v.up => UpInv(v)

(* The authors of the blocks of round r among the first n entries. *)
AuthorsAt(w, n, r) ==
    {w[p].block[1] : p \in {q \in Positions(w, {"block", "own"}) :
                               q <= n /\ w[q].block[2] = r}}

(* Behind a block lies a quorum of the round before. *)
Backed(w) ==
    \A p \in Blocks(w) : w[p].block[2] > 0 =>
        IsQuorum(AuthorsAt(w, p - 1, w[p].block[2] - 1))

ValidBlock(r, includes) ==
    r > 0 => /\ \A b \in includes : b[2] < r
             /\ IsQuorum({b[1] : b \in {x \in includes : x[2] + 1 = r}})

ValidOwn(w) ==
    \A p \in Own(w) :
        /\ ValidBlock(w[p].block[2], w[p].includes)
        /\ w[p].block[2] > 0 =>
              w[Max({q \in Own(w) : q < p})].block \in w[p].includes

ValidLog(w) == Backed(w) /\ ValidOwn(w)

ClockBacked(w, c) ==
    /\ c.voters \subseteq AuthorsAt(w, Len(w), c.round)
    /\ c.round > 0 => IsQuorum(AuthorsAt(w, Len(w), c.round - 1))

(* The log keeps the block of ours that the first start made. *)
FirstKept ==
    v.wal = << >> \/ \E p \in Own(v.wal) : /\ v.wal[p].block[2] >= 1
                                           /\ MachineCrash => p <= synced

(* Others have valid blocks of ours. *)
SentValid == \A x \in published : x.block[1] = Self /\ ValidBlock(x.block[2], x.includes)

ValidInv ==
    /\ ValidLog(v.wal) /\ SentValid
    /\ v.up => ClockBacked(v.wal, v.clock)
    /\ FirstKept

SentInv == published \subseteq Made(v.wal) \cup lost

(* The store got no second block of ours of one round. *)
OthersBlocks(w) == \A p \in Blocks(w) : w[p].block[1] # Self
Clean(x) == OthersBlocks(x.wal) /\ "own" \notin x.failed

OnceInv == lost = {} => Clean(v)

(* The process does not stop in its first start, and the machine keeps    *)
(* what was synced.                                                        *)
KeepsFirst == ~EarlyCrash /\ (Fsync \/ ~MachineCrash)

------------------------------------------------------------------------------
(* The log *)

LEMMA EntryTypes ==
    /\ \A b \in Block : BlockEntry(b) \in Entry /\ BlockEntry(b).tag = "block"
                        /\ BlockEntry(b).block = b
    /\ \A b \in Block, n \in Nat, i \in SUBSET Block, s \in SUBSET Nat :
          /\ OwnEntry(b, n, i, s) \in Entry /\ OwnEntry(b, n, i, s).tag = "own"
          /\ OwnEntry(b, n, i, s).block = b /\ OwnEntry(b, n, i, s).next = n
          /\ OwnEntry(b, n, i, s).includes = i /\ OwnEntry(b, n, i, s).payloads = s
    /\ PayloadEntry \in Entry /\ PayloadEntry.tag = "payload"
    /\ StateEntry \in Entry /\ StateEntry.tag = "state"
  BY DEF Entry, BlockEntry, OwnEntry, PayloadEntry, StateEntry

LEMMA BlockTypes ==
    /\ Self \in Authority
    /\ \A b \in Block : b[1] \in Authority /\ b[2] \in Nat /\ b[3] \in Nat
    /\ \A a \in Authority, r \in Nat, k \in Nat :
          <<a, r, k>> \in Block /\ <<a, r, k>>[1] = a /\ <<a, r, k>>[2] = r
                                /\ <<a, r, k>>[3] = k
  BY CoreAssumption DEF Block

LEMMA RangeIs ==
    ASSUME NEW S, NEW t \in Seq(S)
    PROVE  \A p : p \in Range(t) <=> \E i \in 1..Len(t) : p = t[i]
  <1>1. DOMAIN t = 1..Len(t)
    OBVIOUS
  <1> QED  BY <1>1 DEF Range

LEMMA EntryFacts ==
    ASSUME NEW w \in Seq(Entry)
    PROVE  /\ Len(w) \in Nat
           /\ DOMAIN w = 1..Len(w)
           /\ \A p \in Own(w) :
                 /\ p \in 1..Len(w) /\ w[p].tag = "own"
                 /\ w[p].block \in Block /\ w[p].block[1] \in Authority
                 /\ w[p].block[2] \in Nat /\ w[p].next \in Nat
                 /\ w[p].includes \in SUBSET Block /\ w[p].payloads \in SUBSET Nat
           /\ \A p \in Blocks(w) :
                 /\ p \in 1..Len(w) /\ w[p].tag = "block"
                 /\ w[p].block \in Block /\ w[p].block[1] \in Authority
                 /\ w[p].block[2] \in Nat
  <1>1. Len(w) \in Nat /\ DOMAIN w = 1..Len(w)
    OBVIOUS
  <1>2. ASSUME NEW p \in 1..Len(w), w[p].tag = "own"
        PROVE  /\ w[p].block \in Block /\ w[p].next \in Nat
               /\ w[p].includes \in SUBSET Block /\ w[p].payloads \in SUBSET Nat
    <2>1. w[p] \in Entry
      OBVIOUS
    <2> QED  BY <1>2, <2>1 DEF Entry
  <1>3. ASSUME NEW p \in 1..Len(w), w[p].tag = "block"
        PROVE  w[p].block \in Block
    <2>1. w[p] \in Entry
      OBVIOUS
    <2> QED  BY <1>3, <2>1 DEF Entry
  <1>4. \A b \in Block : b[1] \in Authority /\ b[2] \in Nat
    BY BlockTypes
  <1>5. ASSUME NEW p \in Own(w)
        PROVE  p \in 1..Len(w) /\ w[p].tag = "own"
    BY <1>1 DEF Own, Positions
  <1>6. ASSUME NEW p \in Blocks(w)
        PROVE  p \in 1..Len(w) /\ w[p].tag = "block"
    BY <1>1 DEF Blocks, Positions
  <1>7. ASSUME NEW p \in Own(w)
        PROVE  /\ w[p].block \in Block /\ w[p].next \in Nat
               /\ w[p].includes \in SUBSET Block /\ w[p].payloads \in SUBSET Nat
    BY <1>2, <1>5
  <1>8. ASSUME NEW p \in Blocks(w)  PROVE  w[p].block \in Block
    BY <1>3, <1>6
  <1> QED  BY <1>1, <1>4, <1>5, <1>6, <1>7, <1>8

LEMMA MaxFacts ==
    ASSUME NEW n \in Nat, NEW S, S \subseteq 0..n, S # {}
    PROVE  Max(S) \in S /\ \A k \in S : k <= Max(S)
  <1>1. \E m \in S : \A k \in S : m >= k
    <2>1. PICK m \in S : \A k \in S : k <= m
      BY GreatestNumber
    <2> QED  BY <2>1
  <1>2. Max(S) \in S /\ \A k \in S : Max(S) >= k
    BY <1>1 DEF Max
  <1> QED  BY <1>2

(* The position of our last block is the greatest of those of our blocks. *)
LEMMA OwnAtFacts ==
    ASSUME NEW w \in Seq(Entry)
    PROVE  /\ OwnAt(w) \in Nat
           /\ \A p \in Own(w) : p <= OwnAt(w)
           /\ Own(w) # {} => OwnAt(w) \in Own(w)
           /\ Own(w) = {} => OwnAt(w) = 0
  <1> DEFINE S == {0} \cup Own(w)
  <1>1. Len(w) \in Nat /\ \A p \in Own(w) : p \in 1..Len(w)
    BY EntryFacts
  <1>2. S \subseteq 0..Len(w) /\ S # {} /\ \A p \in S : p \in Nat
    BY <1>1
  <1>3. OwnAt(w) = Max(S)
    BY DEF OwnAt, Own
  <1> HIDE DEF S
  <1>4. Max(S) \in S /\ \A k \in S : k <= Max(S)
    BY <1>1, <1>2, MaxFacts
  <1>6. OwnAt(w) \in S /\ \A p \in Own(w) : p \in S /\ p <= OwnAt(w)
    BY <1>2, <1>3, <1>4 DEF S
  <1>7. ASSUME Own(w) # {}  PROVE  OwnAt(w) \in Own(w)
    <2>1. PICK p \in Own(w) : TRUE
      BY <1>7
    <2>2. p <= OwnAt(w) /\ p \in 1..Len(w)
      BY <1>1, <1>6, <2>1
    <2>3. OwnAt(w) # 0
      BY <1>1, <2>2
    <2> QED  BY <1>6, <2>3 DEF S
  <1>8. Own(w) = {} => OwnAt(w) = 0
    BY <1>6 DEF S
  <1> QED  BY <1>2, <1>6, <1>7, <1>8

(* w is the beginning of e. *)
Extends(w, e) ==
    /\ w \in Seq(Entry) /\ e \in Seq(Entry) /\ Len(w) <= Len(e)
    /\ \A p \in 1..Len(w) : e[p] = w[p]

LEMMA ExtendsTransitive ==
    ASSUME NEW w, NEW e, NEW f, Extends(w, e), Extends(e, f)
    PROVE  Extends(w, f)
  <1>1. Len(w) \in Nat /\ Len(e) \in Nat /\ Len(f) \in Nat
    BY EntryFacts DEF Extends
  <1>2. ASSUME NEW p \in 1..Len(w)  PROVE  f[p] = w[p]
    <2>1. p \in 1..Len(e)
      BY <1>1 DEF Extends
    <2> QED  BY <2>1 DEF Extends
  <1> QED  BY <1>1, <1>2 DEF Extends

(* The entries of a log keep their places when it grows. *)
LEMMA ExtendsFacts ==
    ASSUME NEW w, NEW e, Extends(w, e)
    PROVE  /\ \A p \in Own(w) : p \in Own(e) /\ e[p] = w[p]
           /\ \A p \in Blocks(w) : p \in Blocks(e) /\ e[p] = w[p]
           /\ \A p \in Own(e) : p <= Len(w) => p \in Own(w) /\ e[p] = w[p]
           /\ \A p \in Blocks(e) : p <= Len(w) => p \in Blocks(w) /\ e[p] = w[p]
           /\ Made(w) \subseteq Made(e)
           /\ Store(w) \subseteq Store(e)
  <1>1. /\ w \in Seq(Entry) /\ e \in Seq(Entry) /\ Len(w) <= Len(e)
        /\ \A p \in 1..Len(w) : e[p] = w[p]
    BY DEF Extends
  <1>2. /\ Len(w) \in Nat /\ Len(e) \in Nat
        /\ DOMAIN w = 1..Len(w) /\ DOMAIN e = 1..Len(e)
    BY <1>1
  <1>3. \A p \in 1..Len(w) : p \in 1..Len(e)
    BY <1>1, <1>2
  <1>4. ASSUME NEW tags, NEW p \in Positions(w, tags)
        PROVE  p \in Positions(e, tags) /\ e[p] = w[p]
    BY <1>1, <1>2, <1>3 DEF Positions
  <1>5. ASSUME NEW tags, NEW p \in Positions(e, tags), p <= Len(w)
        PROVE  p \in Positions(w, tags) /\ e[p] = w[p]
    <2>1. p \in 1..Len(w) /\ e[p].tag \in tags
      BY <1>2, <1>5 DEF Positions
    <2> QED  BY <1>1, <1>2, <2>1 DEF Positions
  <1>6. Made(w) \subseteq Made(e)
    BY <1>4 DEF Made
  <1>7. Store(w) \subseteq Store(e)
    BY <1>4 DEF Store
  <1> QED  BY <1>4, <1>5, <1>6, <1>7 DEF Own, Blocks

(* What is true of a log is true of its beginning: a stop loses no more.   *)
LEMMA LogBeginning ==
    ASSUME NEW w, NEW e, Extends(w, e), LogInv(e)
    PROVE  LogInv(w)
  <1>1. /\ w \in Seq(Entry) /\ e \in Seq(Entry)
        /\ Len(w) \in Nat /\ Len(e) \in Nat
    BY DEF Extends
  <1>2. /\ \A p \in Own(w) : p \in Own(e) /\ e[p] = w[p] /\ p \in 1..Len(w)
        /\ \A p \in Blocks(w) : p \in Blocks(e) /\ e[p] = w[p] /\ p \in 1..Len(w)
        /\ \A p \in Own(e) : p <= Len(w) => p \in Own(w) /\ e[p] = w[p]
    BY <1>1, ExtendsFacts, EntryFacts
  <1>3. OwnRounds(w)
    <2>1. ASSUME NEW q \in Own(w), w[q].block[2] > 0
          PROVE  \E p \in Own(w) : p < q
      <3>1. PICK p \in Own(e) : p < q
        BY <1>2, <2>1 DEF LogInv, OwnRounds
      <3>2. p \in 1..Len(e)
        BY <1>1, EntryFacts
      <3>3. p <= Len(w)
        BY <1>1, <1>2, <3>1, <3>2
      <3> QED  BY <1>2, <3>1, <3>3
    <2>2. \A p \in Own(w) : w[p].block[1] = Self
      BY <1>2 DEF LogInv, OwnRounds
    <2>3. \A p, q \in Own(w) : p < q => w[p].block[2] < w[q].block[2]
      BY <1>2 DEF LogInv, OwnRounds
    <2> QED  BY <2>1, <2>2, <2>3 DEF OwnRounds
  <1>4. PayloadsTaken(w)
    <2> SUFFICES ASSUME NEW q \in Own(w), NEW p \in w[q].payloads
                 PROVE  /\ p \in 1..(q - 1) /\ w[p].tag = "payload" /\ w[q].next \notin 1..p
                        /\ \A o \in Own(w) : p < o /\ o < q => w[o].next \in 1..p
      BY DEF PayloadsTaken
    <2>1. /\ p \in 1..(q - 1) /\ e[p].tag = "payload" /\ e[q].next \notin 1..p
          /\ \A o \in Own(e) : p < o /\ o < q => e[o].next \in 1..p
      BY <1>2 DEF LogInv, PayloadsTaken
    <2>2. p \in 1..Len(w)
      BY <1>1, <1>2, <2>1
    <2>3. e[p] = w[p] /\ e[q] = w[q]
      BY <1>2, <2>2 DEF Extends
    <2> QED  BY <1>2, <2>1, <2>3
  <1>5. BlocksTaken(w)
    BY <1>2 DEF LogInv, BlocksTaken
  <1> QED  BY <1>1, <1>3, <1>4, <1>5 DEF LogInv

(* The same of what the log says of valid blocks. *)
LEMMA ValidBeginning ==
    ASSUME NEW w, NEW e, Extends(w, e), LogInv(e), ValidLog(e)
    PROVE  ValidLog(w)
  <1>1. /\ w \in Seq(Entry) /\ e \in Seq(Entry)
        /\ Len(w) \in Nat /\ Len(e) \in Nat /\ Len(w) <= Len(e)
        /\ \A p \in 1..Len(w) : e[p] = w[p]
    BY DEF Extends
  <1>2. /\ \A p \in Own(w) : p \in Own(e) /\ e[p] = w[p] /\ p \in 1..Len(w)
        /\ \A p \in Blocks(w) : p \in Blocks(e) /\ e[p] = w[p] /\ p \in 1..Len(w)
        /\ \A p \in Own(e) : p <= Len(w) => p \in Own(w) /\ e[p] = w[p]
    BY <1>1, ExtendsFacts, EntryFacts
  <1>3. ASSUME NEW n \in 0..Len(w), NEW r  PROVE  AuthorsAt(w, n, r) = AuthorsAt(e, n, r)
    <2> DEFINE S(f) == {q \in Positions(f, {"block", "own"}) : q <= n /\ f[q].block[2] = r}
    <2>1. DOMAIN w = 1..Len(w) /\ DOMAIN e = 1..Len(e)
      BY <1>1
    <2>2. ASSUME NEW q, q \in S(w) \/ q \in S(e)
          PROVE  q \in S(w) /\ q \in S(e) /\ w[q] = e[q]
      <3>1. q \in 1..Len(w) /\ q \in 1..Len(e)
        BY <1>1, <2>1, <2>2 DEF Positions
      <3>2. w[q] = e[q]
        BY <1>1, <3>1
      <3> QED  BY <2>1, <2>2, <3>1, <3>2 DEF Positions
    <2> QED  BY <2>2 DEF AuthorsAt
  <1>4. Backed(w)
    <2> SUFFICES ASSUME NEW p \in Blocks(w), w[p].block[2] > 0
                 PROVE  IsQuorum(AuthorsAt(w, p - 1, w[p].block[2] - 1))
      BY DEF Backed
    <2>1. IsQuorum(AuthorsAt(e, p - 1, w[p].block[2] - 1))
      BY <1>2 DEF ValidLog, Backed
    <2>2. p - 1 \in 0..Len(w)
      BY <1>1, <1>2
    <2> QED  BY <1>3, <2>1, <2>2
  <1>5. ValidOwn(w)
    <2> SUFFICES ASSUME NEW p \in Own(w)
                 PROVE  /\ ValidBlock(w[p].block[2], w[p].includes)
                        /\ w[p].block[2] > 0 =>
                              w[Max({q \in Own(w) : q < p})].block \in w[p].includes
      BY DEF ValidOwn
    <2>1. {q \in Own(w) : q < p} = {q \in Own(e) : q < p}
      <3>1. ASSUME NEW q \in Own(e), q < p  PROVE  q \in Own(w)
        <4>1. q \in 1..Len(e) /\ p \in 1..Len(w)
          BY <1>1, <1>2, EntryFacts
        <4>2. q <= Len(w)
          BY <1>1, <3>1, <4>1
        <4> QED  BY <1>2, <4>2
      <3> QED  BY <1>2, <3>1
    <2> DEFINE m == Max({q \in Own(w) : q < p})
    <2>2. /\ ValidBlock(w[p].block[2], w[p].includes)
          /\ w[p].block[2] > 0 => e[m].block \in w[p].includes
      BY <1>2, <2>1 DEF ValidLog, ValidOwn
    <2>3. ASSUME w[p].block[2] > 0  PROVE  e[m] = w[m]
      <3> DEFINE S == {q \in Own(w) : q < p}
      <3>1. LogInv(w)
        BY LogBeginning
      <3>2. S # {}
        BY <2>3, <3>1 DEF LogInv, OwnRounds
      <3>3. S \subseteq 0..Len(w)
        BY <1>2
      <3> HIDE DEF S
      <3>4. Max(S) \in S
        BY <1>1, <3>2, <3>3, MaxFacts
      <3> QED  BY <1>2, <3>4 DEF S
    <2> QED  BY <2>2, <2>3
  <1> QED  BY <1>4, <1>5 DEF ValidLog

LEMMA RecoveredFacts ==
    \A w, p : p \in RecoveredPending(w) <=>
        /\ p \in Positions(w, {"block", "payload"})
        /\ \A q \in Own(w) : q > p => w[q].next \in 1..p
  BY DEF RecoveredPending, Own

(* e is w with further entries, none of them a block of ours. *)
Grows(w, e) == Extends(w, e) /\ \A p \in Own(e) : p <= Len(w)

LEMMA GrownLog ==
    ASSUME NEW w, NEW e, Grows(w, e), LogInv(w)
    PROVE  /\ LogInv(e)
           /\ Own(e) = Own(w) /\ OwnAt(e) = OwnAt(w) /\ Made(e) = Made(w)
           /\ Own(w) # {} => LastOwn(e) = LastOwn(w) /\ LastProposed(e) = LastProposed(w)
           /\ \A p \in RecoveredPending(w) : p \in RecoveredPending(e) /\ e[p] = w[p]
           /\ \A p \in RecoveredPending(e) :
                 p \in RecoveredPending(w) \/ p > Len(w)
           /\ \A p \in Positions(e, {"block", "payload"}) :
                 p > Len(w) => p \in RecoveredPending(e)
  <1>1. /\ w \in Seq(Entry) /\ e \in Seq(Entry)
        /\ Len(w) \in Nat /\ Len(e) \in Nat /\ Len(w) <= Len(e)
        /\ DOMAIN w = 1..Len(w) /\ DOMAIN e = 1..Len(e)
        /\ \A p \in 1..Len(w) : e[p] = w[p]
    BY DEF Grows, Extends
  <1>2. /\ Own(e) = Own(w)
        /\ \A p \in Own(w) : e[p] = w[p] /\ p \in 1..Len(w)
        /\ \A p \in Blocks(e) : p <= Len(w) => p \in Blocks(w) /\ e[p] = w[p]
    <2>1. /\ \A p \in Own(w) : p \in Own(e) /\ e[p] = w[p]
          /\ \A p \in Own(e) : p <= Len(w) => p \in Own(w) /\ e[p] = w[p]
          /\ \A p \in Blocks(e) : p <= Len(w) => p \in Blocks(w) /\ e[p] = w[p]
      BY ExtendsFacts DEF Grows
    <2>2. \A p \in Own(e) : p \in Own(w)
      BY <2>1 DEF Grows
    <2>3. \A p \in Own(w) : p \in 1..Len(w)
      BY <1>1, EntryFacts
    <2> QED  BY <2>1, <2>2, <2>3
  <1>3. OwnAt(e) = OwnAt(w)
    BY <1>2 DEF OwnAt, Own
  <1>4. Made(e) = Made(w)
    BY <1>2 DEF Made, Own
  <1>5. ASSUME Own(w) # {}
        PROVE  LastOwn(e) = LastOwn(w) /\ LastProposed(e) = LastProposed(w)
    <2>1. OwnAt(w) \in Own(w)
      BY <1>1, <1>5, OwnAtFacts
    <2>2. LastOwn(e) = LastOwn(w)
      BY <1>2, <1>3, <2>1 DEF LastOwn
    <2> QED  BY <2>2 DEF LastProposed
  <1>6. OwnRounds(e)
    BY <1>2 DEF LogInv, OwnRounds
  <1>7. PayloadsTaken(e)
    <2> SUFFICES ASSUME NEW q \in Own(e), NEW p \in e[q].payloads
                 PROVE  /\ p \in 1..(q - 1) /\ e[p].tag = "payload" /\ e[q].next \notin 1..p
                        /\ \A o \in Own(e) : p < o /\ o < q => e[o].next \in 1..p
      BY DEF PayloadsTaken
    <2>1. /\ p \in 1..(q - 1) /\ w[p].tag = "payload" /\ w[q].next \notin 1..p
          /\ \A o \in Own(w) : p < o /\ o < q => w[o].next \in 1..p
      BY <1>2 DEF LogInv, PayloadsTaken
    <2>2. p \in 1..Len(w)
      BY <1>1, <1>2, <2>1
    <2> QED  BY <1>1, <1>2, <2>1, <2>2
  <1>8. BlocksTaken(e)
    <2> SUFFICES ASSUME NEW q \in Own(e), NEW p \in Blocks(e), p < q
                 PROVE  \/ e[p].block[2] < e[q].block[2]
                        \/ e[p].block[2] = 0
                        \/ e[q].next \in 1..p
      BY DEF BlocksTaken
    <2>1. p \in 1..Len(e) /\ q \in 1..Len(w) /\ q \in Own(w)
      BY <1>1, <1>2, EntryFacts
    <2>2. p \in Blocks(w) /\ e[p] = w[p] /\ e[q] = w[q]
      BY <1>1, <1>2, <2>1
    <2> QED  BY <2>1, <2>2 DEF LogInv, BlocksTaken
  <1>9. ASSUME NEW p \in RecoveredPending(w)
        PROVE  p \in RecoveredPending(e) /\ e[p] = w[p]
    <2>1. /\ p \in Positions(w, {"block", "payload"})
          /\ \A q \in Own(w) : q > p => w[q].next \in 1..p
      BY RecoveredFacts
    <2>2. p \in 1..Len(w) /\ p \in 1..Len(e)
      BY <1>1, <2>1 DEF Positions
    <2>3. p \in Positions(e, {"block", "payload"}) /\ e[p] = w[p]
      BY <1>1, <2>1, <2>2 DEF Positions
    <2> QED  BY <1>2, <2>1, <2>3, RecoveredFacts
  <1>10. ASSUME NEW p \in RecoveredPending(e), ~ (p > Len(w))
         PROVE  p \in RecoveredPending(w)
    <2>1. /\ p \in Positions(e, {"block", "payload"})
          /\ \A q \in Own(e) : q > p => e[q].next \in 1..p
      BY RecoveredFacts
    <2>2. p \in 1..Len(w)
      BY <1>1, <1>10, <2>1 DEF Positions
    <2>3. p \in Positions(w, {"block", "payload"})
      BY <1>1, <2>1, <2>2 DEF Positions
    <2> QED  BY <1>2, <2>1, <2>3, RecoveredFacts
  <1>11. ASSUME NEW p \in Positions(e, {"block", "payload"}), p > Len(w)
         PROVE  p \in RecoveredPending(e)
    <2>1. p \in 1..Len(e)
      BY <1>1 DEF Positions
    <2>2. \A q \in Own(e) : ~ (q > p)
      BY <1>1, <1>2, <1>11, <2>1
    <2> QED  BY <2>2, RecoveredFacts
  <1> QED
    BY <1>1, <1>2, <1>3, <1>4, <1>5, <1>6, <1>7, <1>8, <1>9, <1>10, <1>11 DEF LogInv

------------------------------------------------------------------------------
(* Core::try_new_block *)

Cut(x) ==
    Min({Len(x.pending) + 1} \cup
        {i \in DOMAIN x.pending : /\ x.wal[x.pending[i]].tag = "block"
                                  /\ x.wal[x.pending[i]].block[2] >= x.clock.round})

Rest(x) == SubSeq(x.pending, Cut(x), Len(x.pending))

Taken(x) == {x.pending[i] : i \in 1..(Cut(x) - 1)}

Candidates(x) ==
    {LastOwn(x.wal).block} \cup {x.wal[p].block : p \in {q \in Taken(x) : x.wal[q].tag = "block"}}

(* What the new block includes: at least our previous block. *)
Included(x) ==
    (Candidates(x) \ UNION {Includes(x.wal, b) : b \in Candidates(x)}) \cup {LastOwn(x.wal).block}

PayloadsOf(x) == {p \in Taken(x) : x.wal[p].tag = "payload"}

MadeBlock(x) == <<Self, x.clock.round, Cardinality(PublishedAt(x.clock.round))>>

NewEntry(x) == OwnEntry(MadeBlock(x), NextEntry(x.wal, Rest(x)), Included(x), PayloadsOf(x))

LEMMA CutFacts ==
    ASSUME NEW x \in Validator
    PROVE  /\ Cut(x) \in 1..(Len(x.pending) + 1) /\ Len(x.pending) \in Nat
           /\ \A i \in 1..(Cut(x) - 1) :
                 x.wal[x.pending[i]].tag = "block" =>
                     ~ (x.wal[x.pending[i]].block[2] >= x.clock.round)
           /\ Cut(x) <= Len(x.pending) =>
                 /\ x.wal[x.pending[Cut(x)]].tag = "block"
                 /\ x.wal[x.pending[Cut(x)]].block[2] >= x.clock.round
           /\ Rest(x) \in Seq(Nat)
           /\ Len(Rest(x)) = Len(x.pending) + 1 - Cut(x)
           /\ \A k \in 1..Len(Rest(x)) : Rest(x)[k] = x.pending[Cut(x) + k - 1]
           /\ Taken(x) = Range(SubSeq(x.pending, 1, Cut(x) - 1))
  <1> DEFINE s == x.pending
             later == {i \in DOMAIN s : x.wal[s[i]].tag = "block"
                                        /\ x.wal[s[i]].block[2] >= x.clock.round}
             S == {Len(s) + 1} \cup later
             c == Cut(x)
  <1>1. s \in Seq(Nat) /\ Len(s) \in Nat /\ DOMAIN s = 1..Len(s)
    BY DEF Validator
  <1>2. S \subseteq 1..(Len(s) + 1) /\ S \subseteq Nat /\ S # {}
    BY <1>1
  <1>3. c = Min(S)
    BY DEF Cut
  <1>4. c \in S /\ \A i \in S : c <= i
    <2> HIDE DEF S, c
    <2>1. \E m \in S : \A i \in S : m <= i
      BY <1>2, LeastNumber
    <2> QED  BY <1>3, <2>1 DEF Min
  <1>5. c \in 1..(Len(s) + 1)
    BY <1>2, <1>4
  <1>6. ASSUME NEW i \in 1..(c - 1), x.wal[s[i]].tag = "block",
               x.wal[s[i]].block[2] >= x.clock.round
        PROVE  FALSE
    <2>1. i \in DOMAIN s /\ ~ (c <= i)
      BY <1>1, <1>5
    <2>2. i \in S
      BY <1>6, <2>1
    <2> QED  BY <1>4, <2>1, <2>2
  <1>7. c <= Len(s) => x.wal[s[c]].tag = "block" /\ x.wal[s[c]].block[2] >= x.clock.round
    BY <1>1, <1>4, <1>5
  <1> HIDE DEF S, later, c
  <1>8. /\ Rest(x) \in Seq(Nat) /\ Len(Rest(x)) = Len(s) + 1 - c
        /\ \A k \in 1..Len(Rest(x)) : Rest(x)[k] = s[c + k - 1]
    <2>1. Rest(x) = SubSeq(s, c, Len(s)) /\ c \in Nat
      BY <1>5 DEF Rest, c
    <2>2. /\ SubSeq(s, c, Len(s)) \in Seq(Nat)
          /\ Len(SubSeq(s, c, Len(s))) = IF c <= Len(s) THEN Len(s) - c + 1 ELSE 0
          /\ \A i \in 1..(Len(s) - c + 1) : SubSeq(s, c, Len(s))[i] = s[c + i - 1]
      BY <1>1, <1>5, SubSeqProperties
    <2> QED  BY <1>1, <1>5, <2>1, <2>2
  <1>9. Taken(x) = Range(SubSeq(s, 1, c - 1))
    <2>1. /\ Len(SubSeq(s, 1, c - 1)) = c - 1
          /\ \A i \in 1..(c - 1) : SubSeq(s, 1, c - 1)[i] = s[i]
          /\ SubSeq(s, 1, c - 1) \in Seq(Nat)
      BY <1>1, <1>5, SubSeqProperties
    <2>2. DOMAIN SubSeq(s, 1, c - 1) = 1..(c - 1)
      BY <2>1
    <2> QED  BY <2>1, <2>2 DEF Range, Taken, c
  <1> QED  BY <1>1, <1>5, <1>6, <1>7, <1>8, <1>9 DEF c

(* The handler, in these terms. *)
LEMMA CoreTryNewBlockIs ==
    ASSUME NEW x \in Validator
    PROVE  CoreTryNewBlock(x) =
             [x EXCEPT !.wal = Append(@, NewEntry(x)), !.pending = Rest(x),
                       !.clock = ClockAdd(@, MadeBlock(x)),
                       !.failed = @ \cup Repeats(Store(x.wal), MadeBlock(x))]
  <1>1. Taken(x) = Range(SubSeq(x.pending, 1, Cut(x) - 1))
    BY CutFacts
  <1> QED
    BY <1>1 DEF CoreTryNewBlock, Leaves, Stays, Cut, Rest, Candidates, Included, PayloadsOf,
                MadeBlock, NewEntry

(* What a validator may make a block of: what is pending will be pending   *)
(* again, unless it all goes into the block.                               *)
MayTake(x) ==
    LET w == x.wal
        s == x.pending
    IN  /\ x \in Validator /\ LogInv(w) /\ Own(w) # {}
        /\ Range(s) \subseteq Positions(w, {"block", "payload"})
        /\ \/ Range(s) \subseteq RecoveredPending(w)
           \/ \A p \in Range(s) : p \in Blocks(w) /\ w[p].block[2] < x.clock.round
        /\ \A p \in RecoveredPending(w) : w[p].tag = "payload" => p \in Range(s)
        /\ \A p \in Blocks(w) :
              p \in Range(s) \/ w[p].block[2] = 0 \/ w[p].block[2] < LastProposed(w)
        /\ InOrder(w, s)
        /\ ClockAhead(w, s, x.clock)

LEMMA UpMayTake ==
    ASSUME NEW x \in Validator, LogInv(x.wal), UpInv(x)
    PROVE  MayTake(x)
  BY RecoveredFacts DEF UpInv, PendingInv, MayTake

(* Where the pending statements lie that a block takes, and that it leaves. *)
LEMMA CutPlaces ==
    ASSUME NEW x, MayTake(x)
    PROVE  LET w == x.wal
               s == x.pending
               c == Cut(x)
           IN  /\ x \in Validator /\ s \in Seq(Nat) /\ w \in Seq(Entry)
               /\ x.clock \in Clock /\ x.clock.round \in Nat
               /\ c \in 1..(Len(s) + 1) /\ Len(s) \in Nat /\ Len(w) \in Nat
               /\ \A p : p \in Range(s) <=> \E i \in 1..Len(s) : p = s[i]
               /\ \A i \in 1..Len(s) :
                     /\ s[i] \in 1..Len(w)
                     /\ w[s[i]].tag = "payload" \/ s[i] \in Blocks(w)
                     /\ s[i] \in Blocks(w) => w[s[i]].block[2] <= x.clock.round
               /\ \A i \in 1..(c - 1) :
                     s[i] \in Blocks(w) => w[s[i]].block[2] < x.clock.round
               /\ c <= Len(s) => s[c] \in Blocks(w) /\ w[s[c]].block[2] = x.clock.round
               /\ \A j \in c..Len(s) : s[c] <= s[j]
               /\ c <= Len(s) => \A i \in 1..(c - 1) : w[s[i]].tag = "payload" => s[i] < s[c]
  <1> DEFINE w == x.wal
             s == x.pending
             c == Cut(x)
             r == x.clock.round
  <1>1. /\ x \in Validator /\ s \in Seq(Nat) /\ w \in Seq(Entry)
        /\ x.clock \in Clock /\ r \in Nat /\ Len(s) \in Nat /\ Len(w) \in Nat
        /\ DOMAIN s = 1..Len(s) /\ DOMAIN w = 1..Len(w)
    <2>1. x \in Validator
      BY DEF MayTake
    <2>2. s \in Seq(Nat) /\ w \in Seq(Entry) /\ x.clock \in Clock
      BY <2>1 DEF Validator
    <2> QED  BY <2>1, <2>2 DEF Clock
  <1>2. /\ c \in 1..(Len(s) + 1)
        /\ \A i \in 1..(c - 1) : w[s[i]].tag = "block" => ~ (w[s[i]].block[2] >= r)
        /\ c <= Len(s) => w[s[c]].tag = "block" /\ w[s[c]].block[2] >= r
    BY <1>1, CutFacts
  <1> HIDE DEF c
  <1>3. \A p : p \in Range(s) <=> \E i \in 1..Len(s) : p = s[i]
    BY <1>1 DEF Range
  <1>4. ASSUME NEW i \in 1..Len(s)
        PROVE  /\ s[i] \in 1..Len(w)
               /\ w[s[i]].tag = "payload" \/ s[i] \in Blocks(w)
               /\ s[i] \in Blocks(w) =>
                     /\ w[s[i]].block[2] <= r /\ w[s[i]].block[2] \in Nat
                     /\ w[s[i]].tag = "block"
               /\ w[s[i]].tag = "block" => s[i] \in Blocks(w)
    <2>1. s[i] \in Range(s) /\ s[i] \in Positions(w, {"block", "payload"})
      BY <1>3 DEF MayTake
    <2>2. /\ s[i] \in 1..Len(w)
          /\ w[s[i]].tag = "payload" \/ w[s[i]].tag = "block"
          /\ w[s[i]].tag = "block" => s[i] \in Blocks(w)
      BY <1>1, <2>1 DEF Positions, Blocks
    <2>3. w[s[i]].tag = "block" => w[s[i]].block[2] <= r
      BY <2>1 DEF MayTake, ClockAhead
    <2>4. s[i] \in Blocks(w) => w[s[i]].tag = "block" /\ w[s[i]].block[2] \in Nat
      BY <1>1, EntryFacts
    <2> QED  BY <2>2, <2>3, <2>4
  <1>5. ASSUME NEW i \in 1..(c - 1), s[i] \in Blocks(w)  PROVE  w[s[i]].block[2] < r
    <2>1. i \in 1..Len(s)
      BY <1>1, <1>2
    <2>2. w[s[i]].tag = "block" /\ w[s[i]].block[2] \in Nat
      BY <1>4, <1>5, <2>1
    <2>3. ~ (w[s[i]].block[2] >= r)
      BY <1>2, <1>5, <2>2
    <2> DEFINE q == w[s[i]].block[2]
    <2>4. q \in Nat /\ r \in Nat /\ ~ (q >= r)
      BY <1>1, <2>2, <2>3
    <2> HIDE DEF q, r
    <2>5. q < r
      BY <2>4
    <2> QED  BY <2>5 DEF q, r
  <1>6. ASSUME c <= Len(s)
        PROVE  c \in 1..Len(s) /\ s[c] \in Blocks(w) /\ w[s[c]].block[2] = r
    <2>1. c \in 1..Len(s)
      BY <1>1, <1>2, <1>6
    <2>2. s[c] \in Blocks(w)
      BY <1>2, <1>4, <1>6, <2>1
    <2>3. w[s[c]].block[2] \in Nat /\ w[s[c]].block[2] <= r /\ w[s[c]].block[2] >= r
      BY <1>2, <1>4, <1>6, <2>1, <2>2
    <2> DEFINE q == w[s[c]].block[2]
    <2>4. q \in Nat /\ r \in Nat /\ q <= r /\ q >= r
      BY <1>1, <2>3
    <2> HIDE DEF q, r
    <2>5. q = r
      BY <2>4
    <2> QED  BY <2>1, <2>2, <2>5 DEF q, r
  <1>7. InOrder(w, s)
    BY DEF MayTake
  <1>8. ASSUME NEW j \in c..Len(s)  PROVE  s[c] <= s[j]
    <2>1. c <= Len(s) /\ c \in 1..Len(s) /\ j \in 1..Len(s) /\ c <= j
      BY <1>1, <1>2
    <2>2. s[c] \in Nat /\ s[j] \in Nat
      BY <1>4, <2>1
    <2>3. CASE c = j
      <3>1. s[c] = s[j]
        BY <2>3
      <3> QED  BY <2>2, <3>1
    <2>4. CASE c < j
      <3>1. \/ s[c] < s[j]
            \/ s[j] \in Blocks(w) /\ w[s[c]].block[2] < w[s[j]].block[2]
        BY <1>7, <2>1, <2>4 DEF InOrder
      <3>2. s[j] \in Blocks(w) => w[s[j]].block[2] <= r /\ w[s[j]].block[2] \in Nat
        BY <1>4, <2>1
      <3>3. w[s[c]].block[2] = r
        BY <1>6, <2>1
      <3>4. s[c] < s[j]
        <4>1. CASE s[j] \in Blocks(w) /\ w[s[c]].block[2] < w[s[j]].block[2]
          <5> DEFINE q == w[s[j]].block[2]
          <5>1. q \in Nat /\ q <= r /\ r < q /\ r \in Nat
            BY <1>1, <3>2, <3>3, <4>1
          <5> HIDE DEF q
          <5> QED  BY <5>1
        <4> QED  BY <3>1, <4>1
      <3> QED  BY <2>2, <3>4
    <2>5. c = j \/ c < j
      <3>1. c \in Nat /\ j \in Nat
        BY <1>1, <2>1
      <3> QED  BY <2>1, <3>1
    <2> QED  BY <2>3, <2>4, <2>5
  <1>9. ASSUME c <= Len(s), NEW i \in 1..(c - 1), w[s[i]].tag = "payload"
        PROVE  s[i] < s[c]
    <2>1. i \in 1..Len(s) /\ c \in 1..Len(s) /\ i < c
      BY <1>1, <1>2, <1>9
    <2>2. s[i] \notin Blocks(w)
      BY <1>4, <1>9, <2>1
    <2> QED  BY <1>7, <2>1, <2>2 DEF InOrder
  <1>10. \A i \in 1..Len(s) :
            /\ s[i] \in 1..Len(w)
            /\ w[s[i]].tag = "payload" \/ s[i] \in Blocks(w)
            /\ s[i] \in Blocks(w) => w[s[i]].block[2] <= r
    BY <1>4
  <1> QED  BY <1>1, <1>2, <1>3, <1>5, <1>6, <1>8, <1>9, <1>10 DEF c

LEMMA ClockAddFacts ==
    ASSUME NEW c \in Clock, NEW b \in Block
    PROVE  /\ ClockAdd(c, b) \in Clock
           /\ c.round <= ClockAdd(c, b).round /\ b[2] <= ClockAdd(c, b).round
  <1>1. b[1] \in Authority /\ b[2] \in Nat
    BY BlockTypes
  <1>2. c.round \in Nat /\ c.voters \in SUBSET Authority
    BY DEF Clock
  <1>3. CASE b[2] < c.round
    BY <1>1, <1>2, <1>3 DEF ClockAdd
  <1>4. CASE b[2] > c.round
    BY <1>1, <1>2, <1>4 DEF ClockAdd, Clock
  <1>5. CASE b[2] = c.round
    <2> DEFINE voters == c.voters \cup {b[1]}
    <2>1. voters \in SUBSET Authority
      BY <1>1, <1>2
    <2> HIDE DEF voters
    <2>2. CASE IsQuorum(voters)
      <3>1. ClockAdd(c, b) = [round |-> b[2] + 1, voters |-> {}]
        BY <1>1, <1>2, <1>5, <2>2 DEF ClockAdd, voters
      <3> QED  BY <1>1, <1>2, <1>5, <3>1 DEF Clock
    <2>3. CASE ~ IsQuorum(voters)
      <3>1. ClockAdd(c, b) = [c EXCEPT !.voters = voters]
        BY <1>1, <1>2, <1>5, <2>3 DEF ClockAdd, voters
      <3> QED  BY <1>1, <1>2, <1>5, <2>1, <3>1 DEF Clock
    <2> QED  BY <2>2, <2>3
  <1> QED  BY <1>1, <1>2, <1>3, <1>4, <1>5

LEMMA ClockAddSame ==
    ASSUME NEW c, NEW b, b[2] = c.round, c.round \in Nat, NEW S, S = c.voters \cup {b[1]}
    PROVE  ClockAdd(c, b) = IF IsQuorum(S) THEN [round |-> b[2] + 1, voters |-> {}]
                            ELSE [c EXCEPT !.voters = S]
  <1>1. ~ (b[2] < c.round) /\ ~ (b[2] > c.round)
    OBVIOUS
  <1> QED  BY <1>1 DEF ClockAdd

LEMMA FiniteRange ==
    ASSUME NEW S, IsFiniteSet(S), NEW f, DOMAIN f = S, f = [x \in S |-> f[x]]
    PROVE  IsFiniteSet({f[x] : x \in S})
  <1> DEFINE T == {f[x] : x \in S}
  <1>1. f \in [S -> T] /\ \A t \in T : \E x \in S : f[x] = t
    OBVIOUS
  <1> HIDE DEF T
  <1>2. f \in Surjection(S, T)
    BY <1>1 DEF Surjection
  <1>3. IsFiniteSet(T)
    BY <1>2, FS_Surjection
  <1> QED  BY <1>3 DEF T

LEMMA PublishedFacts ==
    ASSUME published \subseteq Publication, IsFiniteSet(published), NEW r
    PROVE  /\ Cardinality(PublishedAt(r)) \in Nat
           /\ PublishedAt(r) \subseteq Block
  <1> DEFINE S == {y \in published : y.block[2] = r}
             f == [x \in S |-> x.block]
  <1>1. IsFiniteSet(S)
    BY FS_Subset
  <1>2. DOMAIN f = S /\ f = [x \in S |-> f[x]]
    OBVIOUS
  <1>3. {f[x] : x \in S} = PublishedAt(r)
    BY DEF PublishedAt
  <1> HIDE DEF f, S
  <1>4. IsFiniteSet({f[x] : x \in S})
    BY <1>1, <1>2, FiniteRange
  <1>5. Cardinality(PublishedAt(r)) \in Nat
    BY <1>3, <1>4, FS_CardinalityType
  <1>6. PublishedAt(r) \subseteq Block
    BY DEF PublishedAt, Publication
  <1> QED  BY <1>5, <1>6

(* What others may have of ours is a finite set of blocks. *)
SentTypes == published \subseteq Publication /\ IsFiniteSet(published)

LEMMA NewEntryTypes ==
    ASSUME NEW x, MayTake(x), SentTypes
    PROVE  LET e == NewEntry(x)
           IN  /\ MadeBlock(x) \in Block
               /\ e \in Entry /\ e.tag = "own" /\ e.block = MadeBlock(x)
               /\ e.block[1] = Self /\ e.block[2] = x.clock.round
               /\ e.next = (IF Cut(x) <= Len(x.pending) THEN x.pending[Cut(x)] ELSE 0)
               /\ e.includes = Included(x) /\ e.payloads = PayloadsOf(x)
               /\ LastOwn(x.wal).block \in Block
               /\ Candidates(x) \subseteq Block /\ Included(x) \subseteq Candidates(x)
  <1> DEFINE w == x.wal
             s == x.pending
             c == Cut(x)
  <1>1. /\ x \in Validator /\ w \in Seq(Entry) /\ x.clock.round \in Nat
        /\ c \in 1..(Len(s) + 1) /\ Len(s) \in Nat /\ Len(w) \in Nat
        /\ \A i \in 1..Len(s) : s[i] \in 1..Len(w) /\ (w[s[i]].tag = "payload" \/ s[i] \in Blocks(w))
    BY CutPlaces
  <1>2. MadeBlock(x) \in Block /\ MadeBlock(x)[1] = Self /\ MadeBlock(x)[2] = x.clock.round
    <2>1. Cardinality(PublishedAt(x.clock.round)) \in Nat
      BY PublishedFacts DEF SentTypes
    <2> QED  BY <1>1, <2>1, BlockTypes DEF MadeBlock
  <1>3. /\ NextEntry(w, Rest(x)) = (IF c <= Len(s) THEN s[c] ELSE 0)
        /\ NextEntry(w, Rest(x)) \in Nat
    <2>1. /\ Rest(x) \in Seq(Nat) /\ Len(Rest(x)) = Len(s) + 1 - c
          /\ \A k \in 1..Len(Rest(x)) : Rest(x)[k] = s[c + k - 1]
      BY <1>1, CutFacts
    <2>2. CASE c <= Len(s)
      <3>1. Rest(x) # << >> /\ 1 \in 1..Len(Rest(x)) /\ c + 1 - 1 = c /\ c \in 1..Len(s)
        BY <1>1, <2>1, <2>2
      <3>2. Head(Rest(x)) = s[c]
        BY <2>1, <3>1
      <3> QED  BY <1>1, <2>2, <3>1, <3>2 DEF NextEntry
    <2>3. CASE ~ (c <= Len(s))
      <3>1. Len(Rest(x)) = 0
        BY <1>1, <2>1, <2>3
      <3>2. Rest(x) = << >>
        BY <2>1, <3>1
      <3> QED  BY <2>3, <3>2 DEF NextEntry, Never
    <2> QED  BY <2>2, <2>3
  <1>4. LastOwn(w).block \in Block
    <2>1. OwnAt(w) \in Own(w)
      BY <1>1, OwnAtFacts DEF MayTake
    <2> QED  BY <1>1, <2>1, EntryFacts DEF LastOwn
  <1>5. ASSUME NEW p \in Taken(x)
        PROVE  p \in 1..Len(w) /\ (w[p].tag = "block" => w[p].block \in Block)
    <2>1. PICK i \in 1..(c - 1) : p = s[i]
      BY DEF Taken
    <2>2. i \in 1..Len(s)
      BY <1>1
    <2>3. p \in 1..Len(w)
      BY <1>1, <2>1, <2>2
    <2>4. w[p].tag = "block" => p \in Blocks(w)
      BY <1>1, <2>3 DEF Blocks, Positions
    <2> QED  BY <1>1, <2>3, <2>4, EntryFacts
  <1>6. Candidates(x) \subseteq Block
    BY <1>4, <1>5 DEF Candidates
  <1>7. Included(x) \subseteq Candidates(x)
    BY DEF Included, Candidates
  <1>8. PayloadsOf(x) \in SUBSET Nat
    BY <1>1, <1>5 DEF PayloadsOf
  <1>9. Included(x) \in SUBSET Block
    BY <1>6, <1>7
  <1> HIDE DEF c, s, w
  <1> QED
    BY <1>2, <1>3, <1>4, <1>6, <1>7, <1>8, <1>9, EntryTypes DEF NewEntry, c, s, w

(* The log with the new block. *)
LEMMA NewLog ==
    ASSUME NEW x, MayTake(x), SentTypes
    PROVE  LET w == x.wal
               e == Append(w, NewEntry(x))
               n == Len(w) + 1
           IN  /\ Extends(w, e) /\ Len(e) = n /\ n \in Nat /\ e[n] = NewEntry(x)
               /\ \A p \in 1..Len(w) : e[p] = w[p]
               /\ Own(e) = Own(w) \cup {n} /\ Blocks(e) = Blocks(w)
               /\ Positions(e, {"block", "payload"}) = Positions(w, {"block", "payload"})
               /\ OwnAt(e) = n /\ LastOwn(e) = NewEntry(x) /\ LastProposed(e) = x.clock.round
  <1> DEFINE w == x.wal
             e == Append(w, NewEntry(x))
             n == Len(w) + 1
  <1>1. w \in Seq(Entry) /\ NewEntry(x) \in Entry /\ NewEntry(x).tag = "own"
        /\ Len(w) \in Nat /\ NewEntry(x).block[2] = x.clock.round
    BY CutPlaces, NewEntryTypes
  <1>2. /\ e \in Seq(Entry) /\ Len(e) = n /\ e[n] = NewEntry(x)
        /\ \A p \in 1..Len(w) : e[p] = w[p]
        /\ DOMAIN e = 1..n /\ DOMAIN w = 1..Len(w)
    BY <1>1
  <1>3. n \in Nat /\ n \notin 1..Len(w) /\ \A p : p \in 1..n <=> p \in 1..Len(w) \/ p = n
    BY <1>1
  <1> HIDE DEF n, e
  <1>4. ASSUME NEW tags  PROVE  Positions(w, tags) = {p \in Positions(e, tags) : p # n}
    BY <1>2, <1>3 DEF Positions
  <1>5. n \in Own(e) /\ n \notin Blocks(e) /\ n \notin Positions(e, {"block", "payload"})
    BY <1>1, <1>2, <1>3 DEF Own, Blocks, Positions
  <1>6. Own(w) = {p \in Own(e) : p # n} /\ Blocks(w) = {p \in Blocks(e) : p # n}
    BY <1>4 DEF Own, Blocks
  <1>7. Own(e) = Own(w) \cup {n} /\ Blocks(e) = Blocks(w)
    BY <1>5, <1>6
  <1>8. Positions(e, {"block", "payload"}) = Positions(w, {"block", "payload"})
    BY <1>4, <1>5
  <1>9. OwnAt(e) = n
    <2>1. OwnAt(e) \in Own(e) /\ n <= OwnAt(e)
      BY <1>2, <1>5, OwnAtFacts
    <2>2. OwnAt(e) \in 1..n
      BY <1>2, <2>1, EntryFacts
    <2> QED  BY <1>3, <2>1, <2>2
  <1>10. Extends(w, e)
    BY <1>1, <1>2, <1>3 DEF Extends, n
  <1>11. LastOwn(e) = NewEntry(x) /\ LastProposed(e) = x.clock.round
    BY <1>1, <1>2, <1>9 DEF LastOwn, LastProposed
  <1> QED  BY <1>2, <1>3, <1>7, <1>8, <1>9, <1>10, <1>11 DEF e, n

LEMMA LastProposedFacts ==
    ASSUME NEW w \in Seq(Entry), OwnRounds(w), Own(w) # {}
    PROVE  /\ LastProposed(w) \in Nat
           /\ \A p \in Own(w) : w[p].block[2] <= LastProposed(w)
           /\ LastOwn(w).block[2] = LastProposed(w) /\ LastOwn(w).block[1] = Self
  <1>1. OwnAt(w) \in Own(w) /\ \A p \in Own(w) : p <= OwnAt(w)
    BY OwnAtFacts
  <1>2. \A p \in Own(w) : p \in Nat /\ w[p].block[2] \in Nat
    BY EntryFacts
  <1>3. ASSUME NEW p \in Own(w)  PROVE  w[p].block[2] <= LastProposed(w)
    <2>1. CASE p = OwnAt(w)
      BY <1>2, <2>1 DEF LastProposed, LastOwn
    <2>2. CASE p < OwnAt(w)
      <3>1. w[p].block[2] < w[OwnAt(w)].block[2]
        BY <1>1, <2>2 DEF OwnRounds
      <3> QED  BY <1>1, <1>2, <3>1 DEF LastProposed, LastOwn
    <2> QED  BY <1>1, <1>2, <2>1, <2>2
  <1> QED  BY <1>1, <1>2, <1>3 DEF LastProposed, LastOwn, OwnRounds

LEMMA NewLogKeeps ==
    ASSUME NEW x, MayTake(x), SentTypes, MayPropose(x)
    PROVE  LogInv(Append(x.wal, NewEntry(x)))
  <1> DEFINE w == x.wal
             s == x.pending
             c == Cut(x)
             r == x.clock.round
             a == NewEntry(x)
             e == Append(w, a)
             n == Len(w) + 1
  <1>1. /\ e \in Seq(Entry) /\ e[n] = a /\ n \in Nat
        /\ \A p \in 1..Len(w) : e[p] = w[p]
        /\ Own(e) = Own(w) \cup {n} /\ Blocks(e) = Blocks(w)
    BY NewLog DEF Extends
  <1>2. /\ w \in Seq(Entry) /\ Len(w) \in Nat /\ r \in Nat /\ s \in Seq(Nat)
        /\ c \in 1..(Len(s) + 1) /\ Len(s) \in Nat
        /\ \A p : p \in Range(s) <=> \E i \in 1..Len(s) : p = s[i]
        /\ \A i \in 1..Len(s) :
              /\ s[i] \in 1..Len(w)
              /\ w[s[i]].tag = "payload" \/ s[i] \in Blocks(w)
        /\ \A i \in 1..(c - 1) : s[i] \in Blocks(w) => w[s[i]].block[2] < r
        /\ \A j \in c..Len(s) : s[c] <= s[j]
        /\ c <= Len(s) => \A i \in 1..(c - 1) : w[s[i]].tag = "payload" => s[i] < s[c]
    BY CutPlaces
  <1>3. /\ a.block[1] = Self /\ a.block[2] = r
        /\ a.next = (IF c <= Len(s) THEN s[c] ELSE 0) /\ a.payloads = PayloadsOf(x)
    BY NewEntryTypes
  <1>4. /\ LogInv(w) /\ Own(w) # {}
        /\ \/ Range(s) \subseteq RecoveredPending(w)
           \/ \A p \in Range(s) : p \in Blocks(w) /\ w[p].block[2] < r
        /\ \A p \in Blocks(w) :
              p \in Range(s) \/ w[p].block[2] = 0 \/ w[p].block[2] < LastProposed(w)
    BY DEF MayTake
  <1>5. /\ LastProposed(w) \in Nat /\ LastProposed(w) < r
        /\ \A p \in Own(w) : p \in 1..Len(w) /\ w[p].block[2] \in Nat
                             /\ w[p].block[2] <= LastProposed(w)
        /\ \A p \in Blocks(w) : p \in 1..Len(w) /\ w[p].block[2] \in Nat
                                /\ w[p].tag = "block"
    BY <1>2, <1>4, LastProposedFacts, EntryFacts DEF LogInv, MayPropose
  <1> HIDE DEF e, a, n, c
  <1>6. OwnRounds(e)
    <2>1. \A p \in Own(e) : e[p].block[1] = Self
      BY <1>1, <1>3, <1>4, <1>5 DEF LogInv, OwnRounds
    <2>2. ASSUME NEW p \in Own(e), NEW q \in Own(e), p < q
          PROVE  e[p].block[2] < e[q].block[2]
      <3>1. p \in Own(w) /\ e[p] = w[p]
        BY <1>1, <1>2, <1>5, <2>2 DEF n
      <3>2. CASE q = n
        <4>1. e[q].block[2] = r
          BY <1>1, <1>3, <3>2
        <4>2. w[p].block[2] <= LastProposed(w) /\ w[p].block[2] \in Nat
          BY <1>5, <3>1
        <4>3. w[p].block[2] < r
          BY <1>2, <1>5, <4>2
        <4> QED  BY <3>1, <4>1, <4>3
      <3>3. CASE q \in Own(w)
        <4>1. e[q] = w[q] /\ w[p].block[2] < w[q].block[2]
          BY <1>1, <1>4, <1>5, <2>2, <3>1, <3>3 DEF LogInv, OwnRounds
        <4> QED  BY <3>1, <4>1
      <3> QED  BY <1>1, <3>2, <3>3
    <2>3. ASSUME NEW q \in Own(e), e[q].block[2] > 0
          PROVE  \E p \in Own(e) : p < q
      <3>1. CASE q = n
        <4>1. PICK p \in Own(w) : TRUE
          BY <1>4
        <4> QED  BY <1>1, <1>2, <1>5, <3>1, <4>1 DEF n
      <3>2. CASE q \in Own(w)
        <4>1. w[q].block[2] > 0
          BY <1>1, <1>5, <2>3, <3>2
        <4>2. PICK p \in Own(w) : p < q
          BY <1>4, <3>2, <4>1 DEF LogInv, OwnRounds
        <4> QED  BY <1>1, <4>2
      <3> QED  BY <1>1, <3>1, <3>2
    <2> QED  BY <2>1, <2>2, <2>3 DEF OwnRounds
  <1>7. PayloadsTaken(e)
    <2> SUFFICES ASSUME NEW q \in Own(e), NEW p \in e[q].payloads
                 PROVE  /\ p \in 1..(q - 1) /\ e[p].tag = "payload" /\ e[q].next \notin 1..p
                        /\ \A o \in Own(e) : p < o /\ o < q => e[o].next \in 1..p
      BY DEF PayloadsTaken
    <2>1. CASE q \in Own(w)
      <3>1. e[q] = w[q] /\ q \in 1..Len(w)
        BY <1>1, <1>5, <2>1
      <3>2. /\ p \in 1..(q - 1) /\ w[p].tag = "payload" /\ w[q].next \notin 1..p
            /\ \A o \in Own(w) : p < o /\ o < q => w[o].next \in 1..p
        BY <1>4, <2>1, <3>1 DEF LogInv, PayloadsTaken
      <3>3. p \in 1..Len(w)
        BY <1>2, <3>1, <3>2
      <3>4. ASSUME NEW o \in Own(e), p < o, o < q  PROVE  e[o].next \in 1..p
        <4>1. o \in Own(w) /\ e[o] = w[o]
          BY <1>1, <1>2, <1>5, <3>1, <3>4 DEF n
        <4> QED  BY <3>2, <3>4, <4>1
      <3> QED  BY <1>1, <3>1, <3>2, <3>3, <3>4
    <2>2. CASE q = n
      <3>1. p \in PayloadsOf(x)
        BY <1>1, <1>3, <2>2
      <3>2. PICK i \in 1..(c - 1) : p = s[i] /\ w[p].tag = "payload"
        BY <3>1 DEF PayloadsOf, Taken, c
      <3>3. i \in 1..Len(s) /\ p \in 1..Len(w) /\ p \in Range(s)
        <4>1. c \in 1..(Len(s) + 1) /\ Len(s) \in Nat
          BY <1>2
        <4>2. i \in 1..Len(s)
          BY <3>2, <4>1
        <4>3. s[i] \in 1..Len(w) /\ s[i] \in Range(s)
          BY <1>2, <4>2
        <4> QED  BY <3>2, <4>2, <4>3
      <3>4. p \in 1..(n - 1) /\ e[p].tag = "payload"
        <4>1. e[p] = w[p] /\ w[p].tag = "payload"
          BY <1>1, <3>2, <3>3
        <4>2. n - 1 = Len(w)
          BY <1>2 DEF n
        <4> QED  BY <3>3, <4>1, <4>2
      <3>5. a.next \notin 1..p
        <4>1. CASE c <= Len(s)
          <5>1. a.next = s[c]
            BY <1>3, <4>1
          <5>2. i \in 1..(c - 1) /\ w[s[i]].tag = "payload"
            BY <3>2, Zenon
          <5>3. s[i] < s[c]
            BY <1>2, <4>1, <5>2, Zenon
          <5>4. c \in DOMAIN s /\ s[c] \in Nat
            BY <1>2, <4>1
          <5> QED  BY <3>2, <3>3, <5>1, <5>3, <5>4
        <4>2. CASE ~ (c <= Len(s))
          BY <1>3, <4>2
        <4> QED  BY <4>1, <4>2
      <3>6. ASSUME NEW o \in Own(e), p < o, o < q  PROVE  e[o].next \in 1..p
        <4>1. o \in Own(w) /\ e[o] = w[o]
          BY <1>1, <1>2, <1>5, <2>2, <3>6 DEF n
        <4>2. p \notin Blocks(w)
          BY <1>5, <3>2
        <4>3. p \in RecoveredPending(w)
          BY <1>4, <3>3, <4>2
        <4>4. o > p
          BY <3>6, <4>1, <3>3, <1>5
        <4> QED  BY <4>1, <4>3, <4>4, RecoveredFacts
      <3> QED  BY <1>1, <2>2, <3>4, <3>5, <3>6
    <2> QED  BY <1>1, <2>1, <2>2
  <1>8. BlocksTaken(e)
    <2> SUFFICES ASSUME NEW q \in Own(e), NEW p \in Blocks(e), p < q
                 PROVE  \/ e[p].block[2] < e[q].block[2]
                        \/ e[p].block[2] = 0
                        \/ e[q].next \in 1..p
      BY DEF BlocksTaken
    <2>1. p \in Blocks(w) /\ e[p] = w[p] /\ p \in 1..Len(w) /\ w[p].block[2] \in Nat
      BY <1>1, <1>5
    <2>2. CASE q \in Own(w)
      BY <1>1, <1>4, <1>5, <2>1, <2>2 DEF LogInv, BlocksTaken
    <2>3. CASE q = n
      <3>1. CASE w[p].block[2] = 0
        BY <2>1, <3>1
      <3>2. CASE w[p].block[2] < LastProposed(w)
        <4>1. w[p].block[2] < r
          BY <1>2, <1>5, <2>1, <3>2
        <4> QED  BY <1>1, <1>3, <2>1, <2>3, <4>1
      <3>3. CASE p \in Range(s)
        <4>1. PICK i \in 1..Len(s) : p = s[i]
          BY <1>2, <3>3
        <4>2. CASE i \in 1..(c - 1)
          <5>1. w[p].block[2] < r
            BY <1>2, <2>1, <4>1, <4>2
          <5> QED  BY <1>1, <1>3, <2>1, <2>3, <5>1
        <4>3. CASE i \notin 1..(c - 1)
          <5>1. c <= Len(s) /\ i \in c..Len(s) /\ c \in 1..Len(s)
            BY <1>2, <4>3
          <5>2. s[c] <= p /\ s[c] \in 1..Len(w)
            BY <1>2, <4>1, <5>1
          <5>3. a.next \in 1..p
            BY <1>2, <1>3, <2>1, <5>1, <5>2
          <5> QED  BY <1>1, <2>3, <5>3
        <4> QED  BY <4>2, <4>3
      <3> QED  BY <1>4, <2>1, <3>1, <3>2, <3>3
    <2> QED  BY <1>1, <2>2, <2>3
  <1> QED  BY <1>1, <1>6, <1>7, <1>8 DEF LogInv, e, a

(* What stays pending is what the log with the new block would give back.  *)
LEMMA NewPending ==
    ASSUME NEW x, MayTake(x), SentTypes, MayPropose(x)
    PROVE  PendingInv(Append(x.wal, NewEntry(x)), Rest(x))
  <1> DEFINE w == x.wal
             s == x.pending
             t == Rest(x)
             c == Cut(x)
             r == x.clock.round
             a == NewEntry(x)
             e == Append(w, a)
             n == Len(w) + 1
  <1>1. /\ e[n] = a /\ n \in Nat
        /\ \A p \in 1..Len(w) : e[p] = w[p]
        /\ Own(e) = Own(w) \cup {n} /\ Blocks(e) = Blocks(w)
        /\ Positions(e, {"block", "payload"}) = Positions(w, {"block", "payload"})
        /\ LastProposed(e) = r
    BY NewLog
  <1>2. /\ w \in Seq(Entry) /\ Len(w) \in Nat /\ r \in Nat /\ s \in Seq(Nat)
        /\ x \in Validator
        /\ c \in 1..(Len(s) + 1) /\ Len(s) \in Nat
        /\ \A p : p \in Range(s) <=> \E i \in 1..Len(s) : p = s[i]
        /\ \A i \in 1..Len(s) :
              /\ s[i] \in 1..Len(w)
              /\ w[s[i]].tag = "payload" \/ s[i] \in Blocks(w)
        /\ \A i \in 1..(c - 1) : s[i] \in Blocks(w) => w[s[i]].block[2] < r
        /\ c <= Len(s) => s[c] \in Blocks(w) /\ w[s[c]].block[2] = r
        /\ \A j \in c..Len(s) : s[c] <= s[j]
        /\ c <= Len(s) => \A i \in 1..(c - 1) : w[s[i]].tag = "payload" => s[i] < s[c]
    BY CutPlaces
  <1>3. a.next = (IF c <= Len(s) THEN s[c] ELSE 0)
    BY NewEntryTypes
  <1>4. /\ LogInv(w) /\ Own(w) # {} /\ InOrder(w, s)
        /\ \/ Range(s) \subseteq RecoveredPending(w)
           \/ \A p \in Range(s) : p \in Blocks(w) /\ w[p].block[2] < r
        /\ \A p \in RecoveredPending(w) : w[p].tag = "payload" => p \in Range(s)
        /\ \A p \in Blocks(w) :
              p \in Range(s) \/ w[p].block[2] = 0 \/ w[p].block[2] < LastProposed(w)
    BY DEF MayTake
  <1>5. /\ LastProposed(w) \in Nat /\ LastProposed(w) < r
        /\ \A p \in Own(w) : p \in 1..Len(w)
        /\ \A p \in Blocks(w) : p \in 1..Len(w) /\ w[p].block[2] \in Nat
    BY <1>2, <1>4, LastProposedFacts, EntryFacts DEF LogInv, MayPropose
  <1>6. /\ t \in Seq(Nat) /\ Len(t) = Len(s) + 1 - c
        /\ \A k \in 1..Len(t) : t[k] = s[c + k - 1]
    BY <1>2, CutFacts
  <1> HIDE DEF e, a, n, c, t
  <1>7. /\ Len(t) \in Nat
        /\ \A k \in 1..Len(t) : c + k - 1 \in c..Len(s) /\ c + k - 1 \in 1..Len(s)
    BY <1>2, <1>6
  <1>8. \A p : p \in Range(t) <=> \E j \in c..Len(s) : p = s[j]
    <2>1. \A p : p \in Range(t) <=> \E k \in 1..Len(t) : p = t[k]
      BY <1>6, RangeIs
    <2>2. ASSUME NEW j \in c..Len(s)  PROVE  \E k \in 1..Len(t) : t[k] = s[j]
      <3>1. /\ c \in Nat /\ Len(s) \in Nat /\ Len(t) = Len(s) + 1 - c
            /\ j \in Nat /\ c <= j /\ j <= Len(s)
        BY <1>2, <1>6
      <3>2. (j - c) + 1 \in 1..Len(t) /\ c + ((j - c) + 1) - 1 = j
        BY <3>1
      <3> QED  BY <1>6, <3>2
    <2>3. ASSUME NEW k \in 1..Len(t)  PROVE  \E j \in c..Len(s) : t[k] = s[j]
      BY <1>6, <1>7
    <2> SUFFICES ASSUME NEW p
                 PROVE  (\E k \in 1..Len(t) : p = t[k]) <=> (\E j \in c..Len(s) : p = s[j])
      BY <2>1
    <2> QED  BY <2>2, <2>3
  <1>9. ASSUME NEW p \in Range(t)  PROVE  p \in RecoveredPending(e)
    <2>1. PICK j \in c..Len(s) : p = s[j]
      BY <1>8
    <2>2. j \in 1..Len(s) /\ c <= Len(s) /\ c \in 1..Len(s)
      BY <1>2
    <2>3. p \in 1..Len(w) /\ s[c] \in 1..Len(w) /\ s[c] <= p /\ p \in Range(s)
      BY <1>2, <2>1, <2>2
    <2>4. p \in RecoveredPending(w)
      <3>1. s[c] \in Range(s) /\ w[s[c]].block[2] = r
        BY <1>2, <2>2
      <3>2. ~ (w[s[c]].block[2] < r)
        BY <1>2, <3>1
      <3> QED  BY <1>4, <2>3, <3>1, <3>2
    <2>5. p \in Positions(e, {"block", "payload"})
      BY <1>1, <2>4, RecoveredFacts
    <2>6. ASSUME NEW q \in Own(e), q > p  PROVE  e[q].next \in 1..p
      <3>1. CASE q = n
        <4>1. e[q].next = s[c]
          BY <1>1, <1>3, <2>2, <3>1
        <4> QED  BY <2>3, <4>1
      <3>2. CASE q \in Own(w)
        <4>1. e[q] = w[q]
          BY <1>1, <1>5, <3>2
        <4> QED  BY <2>4, <2>6, <3>2, <4>1, RecoveredFacts
      <3> QED  BY <1>1, <3>1, <3>2
    <2> QED  BY <2>5, <2>6, RecoveredFacts
  <1>10. ASSUME NEW p \in RecoveredPending(e), e[p].tag = "payload"
         PROVE  p \in Range(t)
    <2>1. p \in Positions(w, {"block", "payload"}) /\ p \in 1..Len(w)
      BY <1>1, <1>2, RecoveredFacts DEF Positions
    <2>2. p \in RecoveredPending(w)
      <3>1. ASSUME NEW q \in Own(w), q > p  PROVE  w[q].next \in 1..p
        <4>1. q \in Own(e) /\ e[q] = w[q]
          BY <1>1, <1>5
        <4> QED  BY <3>1, <4>1, RecoveredFacts
      <3> QED  BY <2>1, <3>1, RecoveredFacts
    <2>3. w[p].tag = "payload"
      BY <1>1, <1>10, <2>1
    <2>4. PICK i \in 1..Len(s) : p = s[i]
      BY <1>2, <1>4, <2>2, <2>3
    <2>5. a.next \in 1..p
      <3>1. n \in Own(e) /\ n > p
        BY <1>1, <1>2, <2>1 DEF n
      <3> QED  BY <1>1, <3>1, RecoveredFacts
    <2>6. c <= Len(s) /\ s[c] <= p /\ s[c] \in Nat /\ p \in Nat
      BY <1>2, <1>3, <2>1, <2>5
    <2>7. i \notin 1..(c - 1)
      <3>1. i \in 1..(c - 1) => p < s[c]
        BY <1>2, <2>3, <2>4, <2>6
      <3>2. ~ (p < s[c])
        BY <2>6
      <3> QED  BY <3>1, <3>2
    <2>8. i \in c..Len(s)
      BY <1>2, <2>7
    <2> QED  BY <1>8, <2>4, <2>8
  <1>11. ASSUME NEW p \in Blocks(e)
         PROVE  p \in Range(t) \/ e[p].block[2] = 0 \/ e[p].block[2] < LastProposed(e)
    <2>1. p \in Blocks(w) /\ e[p] = w[p] /\ w[p].block[2] \in Nat
      BY <1>1, <1>5
    <2>2. CASE w[p].block[2] = 0
      BY <2>1, <2>2
    <2>3. CASE w[p].block[2] < LastProposed(w)
      BY <1>1, <1>2, <1>5, <2>1, <2>3
    <2>4. CASE p \in Range(s)
      <3>1. PICK i \in 1..Len(s) : p = s[i]
        BY <1>2, <2>4
      <3>2. CASE i \in 1..(c - 1)
        BY <1>1, <1>2, <2>1, <3>1, <3>2
      <3>3. CASE i \notin 1..(c - 1)
        <4>1. i \in c..Len(s)
          BY <1>2, <3>3
        <4> QED  BY <1>8, <3>1, <4>1
      <3> QED  BY <3>2, <3>3
    <2> QED  BY <1>4, <2>1, <2>2, <2>3, <2>4
  <1>12. InOrder(e, t)
    <2> SUFFICES ASSUME NEW i \in 1..Len(t), NEW j \in 1..Len(t), i < j
                 PROVE  \/ t[i] < t[j]
                        \/ t[i] \in Blocks(e) /\ t[j] \in Blocks(e)
                           /\ e[t[i]].block[2] < e[t[j]].block[2]
      BY DEF InOrder
    <2> DEFINE k == c + i - 1
               l == c + j - 1
    <2>1. k \in 1..Len(s) /\ l \in 1..Len(s) /\ k < l /\ t[i] = s[k] /\ t[j] = s[l]
      <3>1. t[i] = s[k] /\ t[j] = s[l] /\ k \in 1..Len(s) /\ l \in 1..Len(s)
        BY <1>6, <1>7
      <3>2. c \in Nat /\ i \in Nat /\ j \in Nat
        BY <1>2, <1>7
      <3>3. k < l
        BY <3>2
      <3> QED  BY <3>1, <3>3
    <2> HIDE DEF k, l
    <2>2. \/ s[k] < s[l]
          \/ s[k] \in Blocks(w) /\ s[l] \in Blocks(w) /\ w[s[k]].block[2] < w[s[l]].block[2]
      BY <1>4, <2>1 DEF InOrder
    <2>3. e[s[k]] = w[s[k]] /\ e[s[l]] = w[s[l]]
      BY <1>1, <1>2, <2>1
    <2> QED  BY <1>1, <2>1, <2>2, <2>3
  <1> QED  BY <1>9, <1>10, <1>11, <1>12 DEF PendingInv, e, t, a

LEMMA RepeatsType ==
    ASSUME NEW S, NEW b  PROVE  Repeats(S, b) \subseteq {"own"}
  BY DEF Repeats

(* Core::try_new_block keeps the invariant of a running validator.         *)
LEMMA CoreTryNewBlockKeeps ==
    ASSUME NEW x, MayTake(x), SentTypes, MayPropose(x)
    PROVE  LET y == CoreTryNewBlock(x)
           IN  /\ y \in Validator /\ Extends(x.wal, y.wal) /\ LogInv(y.wal) /\ UpInv(y)
               /\ y.up = x.up /\ y.wal = Append(x.wal, NewEntry(x))
               /\ y.clock = ClockAdd(x.clock, MadeBlock(x))
               /\ LastProposed(y.wal) = x.clock.round
  <1> DEFINE y == CoreTryNewBlock(x)
             w == x.wal
             s == x.pending
             e == Append(w, NewEntry(x))
             c == Cut(x)
             t == Rest(x)
  <1>1. /\ x \in Validator /\ x.clock \in Clock /\ Len(w) \in Nat
        /\ c \in 1..(Len(s) + 1) /\ Len(s) \in Nat
        /\ \A i \in 1..Len(s) :
              /\ s[i] \in 1..Len(w)
              /\ w[s[i]].tag = "payload" \/ s[i] \in Blocks(w)
              /\ s[i] \in Blocks(w) => w[s[i]].block[2] <= x.clock.round
    BY CutPlaces
  <1>2. /\ t \in Seq(Nat) /\ Len(t) = Len(s) + 1 - c
        /\ \A k \in 1..Len(t) : t[k] = s[c + k - 1]
    BY <1>1, CutFacts
  <1>3. /\ MadeBlock(x) \in Block /\ e \in Seq(Entry) /\ Extends(w, e) /\ Own(e) # {}
        /\ LogInv(e) /\ PendingInv(e, t) /\ LastProposed(e) = x.clock.round
        /\ \A p \in 1..Len(w) : e[p] = w[p]
        /\ Blocks(e) = Blocks(w)
    BY NewEntryTypes, NewLog, NewLogKeeps, NewPending DEF Extends
  <1>4. y = [x EXCEPT !.wal = e, !.pending = t, !.clock = ClockAdd(x.clock, MadeBlock(x)),
                      !.failed = x.failed \cup Repeats(Store(w), MadeBlock(x))]
    BY <1>1, CoreTryNewBlockIs
  <1>5. Repeats(Store(w), MadeBlock(x)) \subseteq {"own"}
    BY RepeatsType
  <1>6. /\ ClockAdd(x.clock, MadeBlock(x)) \in Clock
        /\ x.clock.round <= ClockAdd(x.clock, MadeBlock(x)).round
    BY <1>1, <1>3, ClockAddFacts
  <1> HIDE DEF e, c, t, y
  <1>7. /\ y \in Validator /\ y.wal = e /\ y.pending = t /\ y.up = x.up
        /\ y.clock = ClockAdd(x.clock, MadeBlock(x))
    BY <1>1, <1>2, <1>3, <1>4, <1>5, <1>6 DEF Validator
  <1>8. ClockAhead(e, t, y.clock)
    <2> SUFFICES ASSUME NEW p \in Range(t), e[p].tag = "block"
                 PROVE  e[p].block[2] <= y.clock.round
      BY DEF ClockAhead
    <2>1. PICK k \in 1..Len(t) : p = t[k]
      BY <1>2 DEF Range
    <2>2. c + k - 1 \in 1..Len(s)
      BY <1>1, <1>2
    <2>3. p \in 1..Len(w) /\ (p \in Blocks(w) => w[p].block[2] <= x.clock.round)
      BY <1>1, <1>2, <2>1, <2>2
    <2>4. p \in Blocks(w) /\ e[p] = w[p]
      BY <1>1, <1>3, <2>3 DEF Blocks, Positions, Extends
    <2>5. w[p].block[2] \in Nat /\ x.clock.round \in Nat /\ y.clock.round \in Nat
      BY <1>1, <1>3, <1>6, <1>7, <2>4, EntryFacts DEF Extends, Clock
    <2> QED  BY <1>6, <1>7, <2>3, <2>4, <2>5
  <1> QED  BY <1>3, <1>7, <1>8 DEF UpInv, y, e

------------------------------------------------------------------------------
(* The clock over a part of the log *)

(* The positions ps hold payloads and blocks. *)
Countable(w, ps) ==
    /\ ps \in Seq(Nat)
    /\ \A k \in 1..Len(ps) : w[ps[k]].tag = "payload" \/ w[ps[k]].block \in Block

CountOne(w, c, p) == IF w[p].tag = "payload" THEN c ELSE ClockAdd(c, w[p].block)

IsCounting(f, w, c, ps) ==
    f = [k \in 0..Len(ps) |->
            IF k = 0 THEN c
            ELSE IF w[ps[k]].tag = "payload" THEN f[k - 1]
            ELSE ClockAdd(f[k - 1], w[ps[k]].block)]

LEMMA CountingExists ==
    ASSUME NEW w, NEW c \in Clock, NEW ps, Countable(w, ps)
    PROVE  \E f : IsCounting(f, w, c, ps)
  <1> DEFINE n == Len(ps)
             g == [e \in Clock \X (1..n) |-> CountOne(w, e[1], ps[e[2]])]
  <1>1. n \in Nat
    BY DEF Countable
  <1>2. ASSUME NEW d \in Clock, NEW k \in 1..n  PROVE  CountOne(w, d, ps[k]) \in Clock
    BY ClockAddFacts DEF Countable, CountOne
  <1>3. g \in [Clock \X (1..n) -> Clock]
    BY <1>2
  <1>4. \A d \in Clock, k \in 1..n : g[<<d, k>>] = CountOne(w, d, ps[k])
    OBVIOUS
  <1> HIDE DEF g, n
  <1>5. PICK f \in [0..n -> Clock] : IsIteration(f, c, g, n)
    BY <1>1, <1>3, Iterates
  <1>6. ASSUME NEW k \in 0..n, k # 0
        PROVE  g[<<f[k - 1], k>>] = CountOne(w, f[k - 1], ps[k])
    <2>1. k \in 1..n /\ k - 1 \in 0..n
      BY <1>1, <1>6
    <2> QED  BY <1>4, <1>5, <2>1
  <1>7. f = [k \in 0..n |-> IF k = 0 THEN c ELSE CountOne(w, f[k - 1], ps[k])]
    <2>1. \A k \in 0..n : (IF k = 0 THEN c ELSE g[<<f[k - 1], k>>])
                             = (IF k = 0 THEN c ELSE CountOne(w, f[k - 1], ps[k]))
      BY <1>6
    <2> QED  BY <1>5, <2>1 DEF IsIteration
  <1> QED  BY <1>7 DEF IsCounting, CountOne, n

(* The clock after the positions, as the last of those after each. *)
LEMMA CountedStages ==
    ASSUME NEW w, NEW c \in Clock, NEW ps, Countable(w, ps)
    PROVE  \E f : /\ f[0] = c
                  /\ \A k \in 1..Len(ps) : f[k] = CountOne(w, f[k - 1], ps[k])
                  /\ Counted(w, c, ps) = f[Len(ps)]
  <1> DEFINE f == CHOOSE h : IsCounting(h, w, c, ps)
  <1>1. IsCounting(f, w, c, ps)
    BY CountingExists
  <1>2. Counted(w, c, ps) = f[Len(ps)]
    BY DEF Counted, IsCounting
  <1> HIDE DEF f
  <1>3. Len(ps) \in Nat
    BY DEF Countable
  <1>4. f[0] = c
    BY <1>1, <1>3 DEF IsCounting
  <1>5. ASSUME NEW k \in 1..Len(ps)  PROVE  f[k] = CountOne(w, f[k - 1], ps[k])
    <2>1. k \in 0..Len(ps) /\ k # 0
      BY <1>3
    <2> QED  BY <1>1, <2>1 DEF IsCounting, CountOne
  <1> QED  BY <1>2, <1>4, <1>5

HasStages(w, c, ps) ==
    \E f : /\ f[0] = c
           /\ \A k \in 1..Len(ps) : f[k] = CountOne(w, f[k - 1], ps[k])
           /\ Counted(w, c, ps) = f[Len(ps)]

LEMMA StagesExist ==
    ASSUME NEW w, NEW c \in Clock, NEW ps, Countable(w, ps)
    PROVE  HasStages(w, c, ps)
  BY CountedStages DEF HasStages

(* The clock is not behind any block it counts. *)
LEMMA CountedFacts ==
    ASSUME NEW w, NEW c \in Clock, NEW ps, Countable(w, ps)
    PROVE  /\ Counted(w, c, ps) \in Clock /\ c.round <= Counted(w, c, ps).round
           /\ \A k \in 1..Len(ps) :
                 w[ps[k]].tag # "payload" => w[ps[k]].block[2] <= Counted(w, c, ps).round
  <1>1. PICK f : /\ f[0] = c
                 /\ \A k \in 1..Len(ps) : f[k] = CountOne(w, f[k - 1], ps[k])
                 /\ Counted(w, c, ps) = f[Len(ps)]
    BY CountedStages
  <1> DEFINE Through(i) ==
                 /\ f[i] \in Clock /\ c.round <= f[i].round
                 /\ \A k \in 1..i : w[ps[k]].tag # "payload" => w[ps[k]].block[2] <= f[i].round
             n == Len(ps)
             G == {i \in 0..n : Through(i)}
  <1>2. n \in Nat
    BY DEF Countable
  <1>3. 0 \in G
    BY <1>1, <1>2 DEF Clock
  <1>4. ASSUME NEW i \in 1..n, i - 1 \in G  PROVE  i \in G
    <2> DEFINE d == f[i - 1]
    <2>1. /\ Through(i - 1) /\ f[i] = CountOne(w, d, ps[i])
          /\ w[ps[i]].tag = "payload" \/ w[ps[i]].block \in Block
      BY <1>1, <1>4 DEF Countable
    <2>2. d \in Clock /\ d.round \in Nat /\ c.round \in Nat
      BY <2>1 DEF Clock
    <2>3. /\ f[i] \in Clock /\ d.round <= f[i].round /\ f[i].round \in Nat
          /\ w[ps[i]].tag # "payload" => w[ps[i]].block[2] <= f[i].round
      <3>1. CASE w[ps[i]].tag = "payload"
        BY <2>1, <2>2, <3>1 DEF CountOne
      <3>2. CASE w[ps[i]].tag # "payload"
        <4>1. w[ps[i]].block \in Block /\ f[i] = ClockAdd(d, w[ps[i]].block)
          BY <2>1, <3>2 DEF CountOne
        <4>2. /\ f[i] \in Clock /\ d.round <= f[i].round
              /\ w[ps[i]].block[2] <= f[i].round
          BY <2>2, <4>1, ClockAddFacts
        <4> QED  BY <4>2 DEF Clock
      <3> QED  BY <3>1, <3>2
    <2>4. ASSUME NEW k \in 1..i, w[ps[k]].tag # "payload"
          PROVE  w[ps[k]].block[2] <= f[i].round
      <3>1. CASE k = i
        BY <2>3, <2>4, <3>1
      <3>2. CASE k # i
        <4>1. k \in 1..(i - 1) /\ k \in 1..n
          BY <1>2, <3>2
        <4>2. w[ps[k]].block[2] <= d.round /\ w[ps[k]].block \in Block
          BY <2>1, <2>4, <4>1 DEF Countable
        <4>3. w[ps[k]].block[2] \in Nat
          BY <4>2, BlockTypes
        <4> QED  BY <2>2, <2>3, <4>2, <4>3
      <3> QED  BY <3>1, <3>2
    <2>5. c.round <= f[i].round
      BY <2>1, <2>2, <2>3
    <2> QED  BY <2>3, <2>4, <2>5
  <1>5. n \in G
    <2> HIDE DEF G
    <2>1. \A i \in 1..n : i - 1 \in G => i \in G
      BY <1>4
    <2> HIDE DEF n
    <2>2. \A i \in 0..n : i \in G
      BY <1>2, <1>3, <2>1, UpTo
    <2> QED  BY <1>2, <2>2
  <1> QED  BY <1>1, <1>5

------------------------------------------------------------------------------
(* Core::add_blocks *)

(* The positions of a sequence of blocks, by round. *)
LEMMA SortFacts ==
    ASSUME NEW s \in Seq(Block)
    PROVE  LET t == SortByRound(s)
               n == Len(s)
           IN  /\ n \in Nat /\ t \in [1..n -> 1..n]
               /\ \A d \in 1..n : \E k \in 1..n : t[k] = d
               /\ \A i, j \in 1..n : i < j =>
                     s[t[i]][2] < s[t[j]][2] \/ (s[t[i]][2] = s[t[j]][2] /\ t[i] < t[j])
  <1> DEFINE n == Len(s)
             X == 1..n
             Precedes(i, j) == s[i][2] < s[j][2] \/ (s[i][2] = s[j][2] /\ i < j)
             R == {z \in X \X X : Precedes(z[1], z[2])}
  <1>1. n \in Nat /\ DOMAIN s = X /\ \A i \in X : s[i] \in Block /\ s[i][2] \in Nat /\ i \in Nat
    BY BlockTypes
  <1>2. IsFiniteSet(X) /\ Cardinality(X) = n
    <2>1. /\ IsFiniteSet(1..n)
          /\ Cardinality(1..n) = IF 1 > n THEN 0 ELSE n - 1 + 1
      BY <1>1, FS_Interval
    <2> QED  BY <1>1, <2>1
  <1>3. \A i, j \in X : <<i, j>> \in R <=> Precedes(i, j)
    OBVIOUS
  <1> HIDE DEF R
  <1>4. StrictOrder(X, R)
    <2>1. \A i \in X : ~ Precedes(i, i)
      BY <1>1
    <2>2. \A i, j \in X : i # j => Precedes(i, j) \/ Precedes(j, i)
      BY <1>1
    <2>3. \A i, j, k \in X : Precedes(i, j) /\ Precedes(j, k) => Precedes(i, k)
      BY <1>1
    <2> HIDE DEF Precedes
    <2> QED  BY <1>3, <2>1, <2>2, <2>3 DEF StrictOrder
  <1>5. SortByRound(s) = Enumeration(X, R)
    <2>1. \A j \in X : {i \in X : <<i, j>> \in R} = {i \in X : Precedes(i, j)}
      BY <1>3
    <2>2. \A j \in X : Rank(X, R, j) = Cardinality({i \in X : Precedes(i, j)})
      BY <2>1 DEF Rank
    <2>3. SortByRound(s) =
            [k \in DOMAIN s |->
                CHOOSE j \in DOMAIN s : Cardinality({i \in DOMAIN s : Precedes(i, j)}) = k - 1]
      BY DEF SortByRound
    <2> HIDE DEF Precedes, X
    <2>4. SortByRound(s) = [k \in X |-> CHOOSE j \in X : Rank(X, R, j) = k - 1]
      BY <1>1, <2>2, <2>3
    <2>5. 1..Cardinality(X) = X
      BY <1>2 DEF X
    <2> QED  BY <2>4, <2>5 DEF Enumeration
  <1> DEFINE t == Enumeration(X, R)
  <1>6. /\ t \in [1..Cardinality(X) -> X]
        /\ \A d \in X : \E i \in 1..Cardinality(X) : t[i] = d
        /\ \A i, j \in 1..Cardinality(X) : i < j <=> <<t[i], t[j]>> \in R
    BY <1>2, <1>4, EnumerationFacts
  <1> HIDE DEF t
  <1>7. ASSUME NEW i \in X, NEW j \in X, i < j  PROVE  Precedes(t[i], t[j])
    <2>1. t[i] \in X /\ t[j] \in X /\ <<t[i], t[j]>> \in R
      BY <1>2, <1>6, <1>7
    <2> QED  BY <1>3, <2>1
  <1> QED  BY <1>1, <1>2, <1>5, <1>6, <1>7 DEF t

(* The log with the blocks of s, and their positions in the order in which *)
(* they become pending.                                                    *)
AddedLog(w, s) == w \o [k \in DOMAIN s |-> BlockEntry(s[k])] \o <<PayloadEntry>>

Added(w, s) == [k \in DOMAIN s |-> Len(w) + SortByRound(s)[k]]

LEMMA AddedLogFacts ==
    ASSUME NEW w \in Seq(Entry), NEW s \in Seq(Block)
    PROVE  LET e == AddedLog(w, s)
               n == Len(w)
               m == Len(s)
           IN  /\ n \in Nat /\ m \in Nat /\ Len(e) = n + m + 1
               /\ Grows(w, e) /\ e \in Seq(Entry)
               /\ \A p \in 1..n : e[p] = w[p]
               /\ \A k \in 1..m : /\ e[n + k].tag = "block" /\ e[n + k].block = s[k]
                                  /\ n + k \in Blocks(e) /\ s[k] \in Block
               /\ e[n + m + 1].tag = "payload"
               /\ n + m + 1 \in Positions(e, {"block", "payload"})
  <1> DEFINE n == Len(w)
             m == Len(s)
             b == [k \in DOMAIN s |-> BlockEntry(s[k])]
             e == AddedLog(w, s)
  <1>1. n \in Nat /\ m \in Nat /\ DOMAIN s = 1..m /\ DOMAIN w = 1..n
        /\ \A k \in 1..m : s[k] \in Block
    OBVIOUS
  <1>2. b \in Seq(Entry) /\ Len(b) = m /\ \A k \in 1..m : b[k] = BlockEntry(s[k])
    <2>1. b \in [1..m -> Entry]
      BY <1>1, EntryTypes
    <2> QED  BY <1>1, <2>1, SeqDef
  <1>3. <<PayloadEntry>> \in Seq(Entry) /\ Len(<<PayloadEntry>>) = 1
    BY EntryTypes
  <1>4. e = (w \o b) \o <<PayloadEntry>>
    BY DEF AddedLog
  <1> HIDE DEF e, b
  <1>5. /\ w \o b \in Seq(Entry) /\ Len(w \o b) = n + m
        /\ \A p \in 1..n : (w \o b)[p] = w[p]
        /\ \A k \in 1..m : (w \o b)[n + k] = b[k]
    <2>1. Len(w \o b) = n + m /\ w \o b \in Seq(Entry)
      BY <1>1, <1>2
    <2>2. \A p \in 1..(n + m) : (w \o b)[p] = IF p <= n THEN w[p] ELSE b[p - n]
      BY <1>1, <1>2, ConcatProperties
    <2>3. ASSUME NEW k \in 1..m  PROVE  (w \o b)[n + k] = b[k]
      <3>1. n + k \in 1..(n + m) /\ ~ (n + k <= n) /\ (n + k) - n = k
        BY <1>1
      <3> QED  BY <2>2, <3>1
    <2>4. ASSUME NEW p \in 1..n  PROVE  (w \o b)[p] = w[p]
      BY <1>1, <2>2
    <2> QED  BY <2>1, <2>3, <2>4
  <1>6. /\ e \in Seq(Entry) /\ Len(e) = n + m + 1
        /\ \A p \in 1..n : e[p] = w[p]
        /\ \A k \in 1..m : e[n + k] = BlockEntry(s[k])
        /\ e[n + m + 1] = PayloadEntry
    <2>1. e \in Seq(Entry) /\ Len(e) = n + m + 1
      BY <1>1, <1>3, <1>4, <1>5
    <2>2. \A p \in 1..(n + m + 1) : e[p] = IF p <= n + m THEN (w \o b)[p] ELSE PayloadEntry
      BY <1>1, <1>3, <1>4, <1>5
    <2>3. ASSUME NEW p \in 1..n  PROVE  e[p] = w[p]
      BY <1>1, <1>5, <2>2
    <2>4. ASSUME NEW k \in 1..m  PROVE  e[n + k] = BlockEntry(s[k])
      <3>1. n + k \in 1..(n + m + 1) /\ n + k <= n + m
        BY <1>1
      <3> QED  BY <1>2, <1>5, <2>2, <3>1
    <2>5. e[n + m + 1] = PayloadEntry
      <3>1. n + m + 1 \in 1..(n + m + 1) /\ ~ (n + m + 1 <= n + m)
        BY <1>1
      <3> QED  BY <2>2, <3>1
    <2> QED  BY <2>1, <2>3, <2>4, <2>5
  <1>7. ASSUME NEW k \in 1..m
        PROVE  e[n + k].tag = "block" /\ e[n + k].block = s[k] /\ n + k \in Blocks(e)
    <2>1. e[n + k].tag = "block" /\ e[n + k].block = s[k]
      BY <1>1, <1>6, EntryTypes
    <2>2. n + k \in 1..(n + m + 1)
      BY <1>1
    <2>3. n + k \in DOMAIN e
      BY <1>6, <2>2
    <2> QED  BY <2>1, <2>3 DEF Blocks, Positions
  <1>8. e[n + m + 1].tag = "payload" /\ n + m + 1 \in Positions(e, {"block", "payload"})
    <2>1. e[n + m + 1].tag = "payload"
      BY <1>6, EntryTypes
    <2>2. n + m + 1 \in 1..Len(e)
      BY <1>1, <1>6
    <2>3. n + m + 1 \in DOMAIN e
      BY <1>6, <2>2
    <2> QED  BY <2>1, <2>3 DEF Positions
  <1>9. Extends(w, e)
    BY <1>1, <1>6 DEF Extends
  <1>10. ASSUME NEW p \in Own(e)  PROVE  p <= n
    <2>1. p \in 1..Len(e) /\ e[p].tag = "own"
      BY <1>6, EntryFacts
    <2>2. CASE p \in 1..n
      BY <1>1, <2>2
    <2>3. CASE p \in (n + 1)..(n + m)
      <3>1. p - n \in 1..m /\ n + (p - n) = p
        BY <1>1, <2>3
      <3> QED  BY <1>7, <2>1, <3>1
    <2>4. CASE p = n + m + 1
      BY <1>8, <2>1, <2>4
    <2> QED  BY <1>1, <1>6, <2>1, <2>2, <2>3, <2>4
  <1>11. Grows(w, e)
    BY <1>9, <1>10 DEF Grows
  <1> QED  BY <1>1, <1>6, <1>7, <1>8, <1>11 DEF e

(* e is w with the blocks of s. *)
Adds(w, s, e) ==
    LET n == Len(w)
        m == Len(s)
    IN  /\ n \in Nat /\ m \in Nat /\ Len(e) = n + m + 1
        /\ Grows(w, e) /\ e \in Seq(Entry)
        /\ \A p \in 1..n : e[p] = w[p]
        /\ \A k \in 1..m : /\ e[n + k].tag = "block" /\ e[n + k].block = s[k]
                           /\ n + k \in Blocks(e) /\ s[k] \in Block
        /\ e[n + m + 1].tag = "payload"
        /\ n + m + 1 \in Positions(e, {"block", "payload"})

LEMMA AddedIs ==
    ASSUME NEW w \in Seq(Entry), NEW s \in Seq(Block)
    PROVE  Adds(w, s, AddedLog(w, s))
  BY AddedLogFacts DEF Adds

(* What is pending after the blocks of s. *)
LEMMA AddedFacts ==
    ASSUME NEW w \in Seq(Entry), NEW s \in Seq(Block), NEW t \in Seq(Nat), PendingInv(w, t),
           LogInv(w), Own(w) # {}
    PROVE  LET e == AddedLog(w, s)
               u == t \o Added(w, s) \o <<Len(e)>>
           IN  /\ u \in Seq(Nat) /\ PendingInv(e, u) /\ Countable(e, Added(w, s))
               /\ Len(Added(w, s)) = Len(s)
               /\ \A k \in 1..Len(s) : /\ Added(w, s)[k] \in Blocks(e)
                                       /\ Added(w, s)[k] > Len(w)
               /\ \A p \in Range(u) : \/ p \in Range(t) /\ p \in 1..Len(w)
                                      \/ \E k \in 1..Len(s) : p = Added(w, s)[k]
                                      \/ e[p].tag = "payload"
  <1> DEFINE n == Len(w)
             m == Len(s)
             e == AddedLog(w, s)
             r == SortByRound(s)
             a == Added(w, s)
             l == Len(t)
             u == t \o a \o <<Len(e)>>
  <1>1. /\ n \in Nat /\ m \in Nat /\ Len(e) = n + m + 1
        /\ Grows(w, e) /\ e \in Seq(Entry)
        /\ \A p \in 1..n : e[p] = w[p]
        /\ \A k \in 1..m : /\ e[n + k].tag = "block" /\ e[n + k].block = s[k]
                           /\ n + k \in Blocks(e) /\ s[k] \in Block
        /\ e[n + m + 1].tag = "payload"
        /\ n + m + 1 \in Positions(e, {"block", "payload"})
    BY AddedLogFacts
  <1>2. /\ r \in [1..m -> 1..m]
        /\ \A d \in 1..m : \E k \in 1..m : r[k] = d
        /\ \A i, j \in 1..m : i < j =>
              s[r[i]][2] < s[r[j]][2] \/ (s[r[i]][2] = s[r[j]][2] /\ r[i] < r[j])
    BY SortFacts
  <1>3. a = [k \in 1..m |-> n + r[k]]
    BY <1>1 DEF Added
  <1>num. n \in Nat /\ m \in Nat
    BY <1>1
  <1> HIDE DEF e, r, a, n, m
  <1>4. /\ a \in Seq(Nat) /\ Len(a) = m
        /\ \A k \in 1..m : /\ a[k] = n + r[k] /\ a[k] \in Blocks(e) /\ a[k] > n
                           /\ a[k] \in Nat /\ a[k] < n + m + 1 /\ r[k] \in 1..m
                           /\ e[a[k]].tag = "block" /\ e[a[k]].block = s[r[k]]
    <2>1. \A k \in 1..m : r[k] \in 1..m /\ a[k] = n + r[k] /\ a[k] \in Nat
      <3> TAKE k \in 1..m
      <3>1. r[k] \in 1..m
        BY <1>2
      <3>2. a[k] = n + r[k]
        BY <1>3
      <3> QED  BY <1>num, <3>1, <3>2
    <2>2. a \in [1..m -> Nat]
      BY <1>3, <2>1
    <2>3. a \in Seq(Nat) /\ Len(a) = m
      BY <1>num, <2>2, SeqDef
    <2>4. ASSUME NEW k \in 1..m
          PROVE  /\ a[k] = n + r[k] /\ a[k] \in Blocks(e) /\ a[k] > n
                 /\ a[k] \in Nat /\ a[k] < n + m + 1 /\ r[k] \in 1..m
                 /\ e[a[k]].tag = "block" /\ e[a[k]].block = s[r[k]]
      <3>1. r[k] \in 1..m /\ a[k] = n + r[k]
        BY <2>1
      <3>2. a[k] > n /\ a[k] \in Nat /\ a[k] < n + m + 1
        BY <1>num, <3>1
      <3>3. /\ n + r[k] \in Blocks(e) /\ e[n + r[k]].tag = "block"
            /\ e[n + r[k]].block = s[r[k]]
        BY <1>1, <3>1
      <3> QED  BY <3>1, <3>2, <3>3
    <2> QED  BY <2>3, <2>4
  <1>5. /\ u \in Seq(Nat) /\ l \in Nat /\ Len(u) = l + m + 1
        /\ \A i \in 1..l : u[i] = t[i]
        /\ \A k \in 1..m : u[l + k] = a[k]
        /\ u[l + m + 1] = n + m + 1
    <2>1. Len(e) \in Nat /\ l \in Nat
      BY <1>1
    <2>2. t \o a \in Seq(Nat) /\ Len(t \o a) = l + m
      <3>1. t \in Seq(Nat) /\ a \in Seq(Nat) /\ Len(a) = m
        BY <1>4
      <3>2. /\ t \o a \in Seq(Nat) /\ Len(t \o a) = Len(t) + Len(a)
        BY <3>1, ConcatProperties
      <3> QED  BY <3>1, <3>2
    <2>3. \A i \in 1..(l + m) : (t \o a)[i] = IF i <= l THEN t[i] ELSE a[i - l]
      <3>1. t \in Seq(Nat) /\ a \in Seq(Nat) /\ Len(t) = l /\ Len(a) = m
        BY <1>4
      <3> HIDE DEF l
      <3>2. \A i \in 1..(Len(t) + Len(a)) :
              (t \o a)[i] = IF i <= Len(t) THEN t[i] ELSE a[i - Len(t)]
        BY <3>1, ConcatProperties
      <3> QED  BY <3>1, <3>2
    <2>4. u \in Seq(Nat) /\ Len(u) = l + m + 1
          /\ \A i \in 1..(l + m + 1) : u[i] = IF i <= l + m THEN (t \o a)[i] ELSE Len(e)
      <3> DEFINE b == t \o a
                 k == Len(e)
      <3>1. u = b \o <<k>> /\ b \in Seq(Nat) /\ Len(b) = l + m /\ k \in Nat
        BY <2>1, <2>2
      <3> HIDE DEF b, k
      <3>2. /\ b \o <<k>> \in Seq(Nat) /\ Len(b \o <<k>>) = Len(b) + 1
            /\ \A i \in 1..(Len(b) + 1) : (b \o <<k>>)[i] = IF i <= Len(b) THEN b[i] ELSE k
        BY <3>1
      <3> HIDE DEF u, l
      <3>3. /\ u \in Seq(Nat) /\ Len(u) = l + m + 1
            /\ \A i \in 1..(l + m + 1) : u[i] = IF i <= l + m THEN b[i] ELSE k
        BY <3>1, <3>2
      <3> QED  BY <3>3 DEF b, k
    <2> HIDE DEF u, l
    <2>5. ASSUME NEW i \in 1..l  PROVE  u[i] = t[i]
      <3>1. i \in 1..(l + m) /\ i <= l /\ i \in 1..(l + m + 1) /\ i <= l + m
        BY <1>1, <2>1
      <3> QED  BY <2>3, <2>4, <3>1
    <2>6. ASSUME NEW k \in 1..m  PROVE  u[l + k] = a[k]
      <3>1. /\ l + k \in 1..(l + m) /\ ~ (l + k <= l) /\ l + k \in 1..(l + m + 1)
            /\ l + k <= l + m /\ (l + k) - l = k
        BY <1>1, <2>1
      <3> QED  BY <2>3, <2>4, <3>1
    <2>7. u[l + m + 1] = n + m + 1
      <3>1. l + m + 1 \in 1..(l + m + 1) /\ ~ (l + m + 1 <= l + m)
        BY <1>1, <2>1
      <3> QED  BY <1>1, <2>4, <3>1
    <2> QED  BY <2>1, <2>4, <2>5, <2>6, <2>7
  <1>6. \A p : p \in Range(t) <=> \E i \in 1..l : p = t[i]
    BY RangeIs
  <1>7. \A p : p \in Range(u) <=> \E i \in 1..(l + m + 1) : p = u[i]
    <2>1. \A p : p \in Range(u) <=> \E i \in 1..Len(u) : p = u[i]
      BY <1>5, RangeIs
    <2> QED  BY <1>5, <2>1
  <1>8. \A i \in 1..l : t[i] \in Range(t) /\ t[i] \in 1..n
                        /\ (t[i] \in Blocks(e) => t[i] \in Blocks(w) /\ e[t[i]] = w[t[i]])
                        /\ (t[i] \in Blocks(w) => t[i] \in Blocks(e) /\ e[t[i]] = w[t[i]])
    <2> SUFFICES ASSUME NEW i \in 1..l
                 PROVE  t[i] \in Range(t) /\ t[i] \in 1..n
                        /\ (t[i] \in Blocks(e) => t[i] \in Blocks(w) /\ e[t[i]] = w[t[i]])
                        /\ (t[i] \in Blocks(w) => t[i] \in Blocks(e) /\ e[t[i]] = w[t[i]])
      OBVIOUS
    <2>1. t[i] \in Range(t)
      BY <1>6
    <2>2. t[i] \in 1..n
      BY <2>1, RecoveredFacts DEF PendingInv, Positions, n
    <2>3. t[i] <= Len(w)
      BY <1>num, <2>2 DEF n
    <2> QED  BY <1>1, <2>1, <2>2, <2>3, ExtendsFacts DEF Grows
  <1> HIDE DEF u, l
  <1>9. ASSUME NEW i \in 1..(l + m + 1)
        PROVE  \/ i \in 1..l /\ u[i] = t[i] /\ u[i] \in 1..n
               \/ \E k \in 1..m : i = l + k /\ u[i] = a[k]
               \/ i = l + m + 1 /\ u[i] = n + m + 1
    <2>1. CASE i \in 1..l
      BY <1>5, <1>8, <2>1
    <2>2. CASE i \in (l + 1)..(l + m)
      <3>1. i - l \in 1..m /\ l + (i - l) = i
        BY <1>1, <1>5, <2>2
      <3> QED  BY <1>5, <3>1
    <2>3. CASE i = l + m + 1
      BY <1>5, <2>3
    <2> QED  BY <1>1, <1>5, <2>1, <2>2, <2>3
  <1>10. ASSUME NEW p \in Range(u)
         PROVE  \/ p \in Range(t) /\ p \in 1..n
                \/ \E k \in 1..m : p = a[k]
                \/ p = n + m + 1
    <2>1. PICK i \in 1..(l + m + 1) : p = u[i]
      BY <1>7
    <2>2. CASE i \in 1..l /\ u[i] = t[i] /\ u[i] \in 1..n
      BY <1>6, <2>1, <2>2
    <2> QED  BY <1>9, <2>1, <2>2
  <1>11. /\ \A p \in Range(t) : p \in Range(u)
         /\ \A k \in 1..m : a[k] \in Range(u)
         /\ n + m + 1 \in Range(u)
    <2>1. ASSUME NEW p \in Range(t)  PROVE  p \in Range(u)
      <3>1. PICK i \in 1..l : p = t[i]
        BY <1>6
      <3>2. i \in 1..(l + m + 1) /\ u[i] = p
        BY <1>1, <1>5, <3>1
      <3> QED  BY <1>7, <3>2
    <2>2. ASSUME NEW k \in 1..m  PROVE  a[k] \in Range(u)
      <3>1. l + k \in 1..(l + m + 1)
        BY <1>num, <1>5
      <3>2. u[l + k] = a[k]
        BY <1>5
      <3> QED  BY <1>7, <3>1, <3>2
    <2>3. l + m + 1 \in 1..(l + m + 1)
      BY <1>1, <1>5
    <2>4. n + m + 1 \in Range(u)
      BY <1>5, <1>7, <2>3
    <2> QED  BY <2>1, <2>2, <2>4
  <1>12. /\ \A p \in RecoveredPending(w) : p \in RecoveredPending(e) /\ e[p] = w[p]
         /\ \A p \in RecoveredPending(e) : p \in RecoveredPending(w) \/ p > n
         /\ \A p \in Positions(e, {"block", "payload"}) : p > n => p \in RecoveredPending(e)
         /\ LastProposed(e) = LastProposed(w)
    BY <1>1, GrownLog DEF n
  <1>13. ASSUME NEW p \in Blocks(e)
         PROVE  /\ p \in Positions(e, {"block", "payload"}) /\ p \in 1..(n + m + 1)
                /\ e[p].tag = "block"
    BY <1>1, EntryFacts DEF Blocks, Positions
  <1>14. ASSUME NEW p, p \in (n + 1)..(n + m)  PROVE  \E k \in 1..m : p = a[k]
    <2>1. p - n \in 1..m
      BY <1>1, <1>14
    <2>2. PICK k \in 1..m : r[k] = p - n
      BY <1>2, <2>1
    <2>3. a[k] = n + r[k] /\ n \in Nat /\ p \in Nat
      BY <1>1, <1>4, <1>14
    <2>4. n + (p - n) = p
      BY <2>3
    <2> QED  BY <2>2, <2>3, <2>4
  <1>15. Range(u) \subseteq RecoveredPending(e)
    <2> SUFFICES ASSUME NEW p \in Range(u)  PROVE  p \in RecoveredPending(e)
      OBVIOUS
    <2>1. CASE p \in Range(t)
      BY <1>12, <2>1 DEF PendingInv
    <2>2. CASE \E k \in 1..m : p = a[k]
      BY <1>4, <1>12, <1>13, <2>2
    <2>3. CASE p = n + m + 1
      <3>1. p > n
        BY <1>1, <2>3
      <3> QED  BY <1>1, <1>12, <2>3, <3>1
    <2> QED  BY <1>10, <2>1, <2>2, <2>3
  <1>16. ASSUME NEW p \in RecoveredPending(e), e[p].tag = "payload"
         PROVE  p \in Range(u)
    <2>1. p \in 1..(n + m + 1)
      BY <1>1, RecoveredFacts DEF Positions
    <2>2. CASE p > n
      <3>1. CASE p = n + m + 1
        BY <1>11, <3>1
      <3>2. CASE p # n + m + 1
        <4>1. p \in (n + 1)..(n + m)
          BY <1>1, <2>1, <2>2, <3>2
        <4> QED  BY <1>11, <1>14, <4>1
      <3> QED  BY <3>1, <3>2
    <2>3. CASE p \in RecoveredPending(w)
      <3>1. w[p].tag = "payload"
        BY <1>12, <1>16, <2>3
      <3> QED  BY <1>11, <2>3, <3>1 DEF PendingInv
    <2> QED  BY <1>12, <2>2, <2>3
  <1>17. ASSUME NEW p \in Blocks(e)
         PROVE  p \in Range(u) \/ e[p].block[2] = 0 \/ e[p].block[2] < LastProposed(e)
    <2>1. CASE p <= n
      <3>1. p \in Blocks(w) /\ e[p] = w[p]
        BY <1>1, <2>1, ExtendsFacts DEF Grows, n
      <3>2. w[p].block[2] = 0 \/ w[p].block[2] < LastProposed(w) \/ p \in Range(t)
        BY <3>1 DEF PendingInv
      <3>3. CASE w[p].block[2] = 0
        BY <3>1, <3>3
      <3>4. CASE w[p].block[2] < LastProposed(w)
        <4>1. LastProposed(e) = LastProposed(w)
          BY <1>12
        <4>2. w[p].block[2] < LastProposed(e)
          BY <3>4, <4>1
        <4> QED  BY <3>1, <4>2
      <3>5. CASE p \in Range(t)
        BY <1>11, <3>5
      <3> QED  BY <3>2, <3>3, <3>4, <3>5
    <2>2. CASE ~ (p <= n)
      <3>1. p # n + m + 1 /\ p \in 1..(n + m + 1)
        BY <1>1, <1>13
      <3>2. p \in (n + 1)..(n + m)
        BY <1>1, <2>2, <3>1
      <3>3. PICK k \in 1..m : p = a[k]
        BY <1>14, <3>2
      <3>4. a[k] \in Range(u)
        BY <1>11, <3>3
      <3> QED  BY <3>3, <3>4
    <2> QED  BY <2>1, <2>2
  <1>18. InOrder(e, u)
    <2> SUFFICES ASSUME NEW i \in 1..Len(u), NEW j \in 1..Len(u), i < j
                 PROVE  \/ u[i] < u[j]
                        \/ u[i] \in Blocks(e) /\ u[j] \in Blocks(e)
                           /\ e[u[i]].block[2] < e[u[j]].block[2]
      BY DEF InOrder
    <2>1. i \in 1..(l + m + 1) /\ j \in 1..(l + m + 1)
      BY <1>5
    <2>2. CASE i \in 1..l /\ u[i] = t[i] /\ u[i] \in 1..n
      <3>1. CASE j \in 1..l /\ u[j] = t[j]
        <4>1. \/ t[i] < t[j]
              \/ t[i] \in Blocks(w) /\ t[j] \in Blocks(w)
                 /\ w[t[i]].block[2] < w[t[j]].block[2]
          BY <2>2, <3>1 DEF PendingInv, InOrder, l
        <4> QED  BY <1>8, <2>2, <3>1, <4>1
      <3>2. CASE \E k \in 1..m : u[j] = a[k]
        <4>1. PICK k \in 1..m : u[j] = a[k]
          BY <3>2
        <4>2. a[k] > n /\ a[k] \in Nat
          BY <1>4
        <4>3. u[i] \in 1..n /\ u[j] > n /\ u[j] \in Nat /\ n \in Nat
          BY <1>num, <2>2, <4>1, <4>2
        <4>4. u[i] < u[j]
          BY <4>3
        <4> QED  BY <4>4
      <3>3. CASE u[j] = n + m + 1
        <4>1. u[i] \in 1..n /\ n \in Nat /\ m \in Nat
          BY <1>num, <2>2
        <4>2. u[i] < n + m + 1
          BY <4>1
        <4> QED  BY <3>3, <4>2
      <3> QED  BY <1>9, <2>1, <3>1, <3>2, <3>3
    <2>3. CASE \E k \in 1..m : i = l + k /\ u[i] = a[k]
      <3>1. PICK k \in 1..m : i = l + k /\ u[i] = a[k]
        BY <2>3
      <3>2. CASE j \in 1..l
        <4>1. l \in Nat /\ k \in 1..m /\ i = l + k /\ j <= l /\ i < j /\ m \in Nat
          BY <1>1, <1>5, <3>1, <3>2
        <4>2. FALSE
          BY <4>1
        <4> QED  BY <4>2
      <3>3. CASE \E h \in 1..m : j = l + h /\ u[j] = a[h]
        <4>1. PICK h \in 1..m : j = l + h /\ u[j] = a[h]
          BY <3>3
        <4>2. k < h
          BY <1>1, <1>5, <3>1, <4>1
        <4>3. s[r[k]][2] < s[r[h]][2] \/ (s[r[k]][2] = s[r[h]][2] /\ r[k] < r[h])
          BY <1>2, <4>2
        <4>4. /\ a[k] = n + r[k] /\ a[h] = n + r[h] /\ r[k] \in 1..m /\ r[h] \in 1..m
              /\ a[k] \in Blocks(e) /\ a[h] \in Blocks(e)
              /\ e[a[k]].block = s[r[k]] /\ e[a[h]].block = s[r[h]]
          BY <1>4
        <4>5. CASE r[k] < r[h]
          <5>1. a[k] < a[h]
            <6>1. r[k] \in Nat /\ r[h] \in Nat
              <7>1. r[k] \in 1..m /\ r[h] \in 1..m
                BY <4>4
              <7> QED  BY <7>1
            <6> QED  BY <1>num, <4>4, <4>5, <6>1
          <5> QED  BY <3>1, <4>1, <5>1
        <4> QED  BY <3>1, <4>1, <4>3, <4>4, <4>5
      <3>4. CASE u[j] = n + m + 1
        BY <1>1, <1>4, <3>1, <3>4
      <3> QED  BY <1>9, <2>1, <3>2, <3>3, <3>4
    <2>4. CASE i = l + m + 1
      BY <1>1, <1>5, <2>1, <2>4
    <2> QED  BY <1>9, <2>1, <2>2, <2>3, <2>4
  <1>19. PendingInv(e, u)
    BY <1>15, <1>16, <1>17, <1>18 DEF PendingInv
  <1>20. Countable(e, a)
    <2>1. \A k \in 1..m : e[a[k]].block \in Block
      BY <1>1, <1>4
    <2> QED  BY <1>4, <2>1 DEF Countable
  <1>21. \A p \in Range(u) : \/ p \in Range(t) /\ p \in 1..n
                             \/ \E k \in 1..m : p = a[k]
                             \/ e[p].tag = "payload"
    BY <1>1, <1>10
  <1> QED  BY <1>4, <1>5, <1>19, <1>20, <1>21 DEF u, e, a, n, m

(* A validator that runs, with its log. *)
Runs(x) == x \in Validator /\ LogInv(x.wal) /\ UpInv(x)

LEMMA CoreAddBlocksKeeps ==
    ASSUME NEW x, Runs(x), NEW s \in Seq(Block)
    PROVE  LET y == CoreAddBlocks(x, s)
               e == AddedLog(x.wal, s)
           IN  /\ Runs(y) /\ y.up = x.up /\ y.wal = e /\ Grows(x.wal, e)
               /\ Countable(e, Added(x.wal, s))
               /\ y.clock = Counted(e, x.clock, Added(x.wal, s))
               /\ x.clock.round <= y.clock.round
  <1> DEFINE w == x.wal
             e == AddedLog(w, s)
             a == Added(w, s)
             u == x.pending \o a \o <<Len(e)>>
             y == CoreAddBlocks(x, s)
  <1>1. /\ x \in Validator /\ w \in Seq(Entry) /\ x.pending \in Seq(Nat) /\ x.clock \in Clock
        /\ LogInv(w) /\ Own(w) # {} /\ PendingInv(w, x.pending)
        /\ ClockAhead(w, x.pending, x.clock)
    BY DEF Runs, Validator, UpInv
  <1>2. Grows(w, e) /\ e \in Seq(Entry) /\ \A p \in 1..Len(w) : e[p] = w[p]
    <2>1. Adds(w, s, e)
      BY <1>1, AddedIs
    <2> HIDE DEF e, w
    <2> QED  BY <2>1 DEF Adds
  <1>3. /\ u \in Seq(Nat) /\ PendingInv(e, u) /\ Countable(e, a) /\ Len(a) = Len(s)
        /\ \A k \in 1..Len(s) : a[k] \in Blocks(e)
        /\ \A p \in Range(u) : \/ p \in Range(x.pending) /\ p \in 1..Len(w)
                               \/ \E k \in 1..Len(s) : p = a[k]
                               \/ e[p].tag = "payload"
    BY <1>1, AddedFacts
  <1>4. LogInv(e) /\ Own(e) = Own(w)
    BY <1>1, <1>2, GrownLog
  <1> DEFINE c == Counted(e, x.clock, a)
             more == UNION {Repeats(Store(w) \cup {s[i] : i \in 1..(k - 1)}, s[k]) :
                               k \in DOMAIN s}
  <1>5. /\ c \in Clock /\ x.clock.round <= c.round
        /\ \A k \in 1..Len(s) : e[a[k]].block[2] <= c.round
    <2>1. /\ c \in Clock /\ x.clock.round <= c.round
          /\ \A k \in 1..Len(a) : e[a[k]].tag # "payload" => e[a[k]].block[2] <= c.round
      BY <1>1, <1>3, CountedFacts
    <2>2. \A k \in 1..Len(s) : e[a[k]].tag = "block"
      BY <1>2, <1>3, EntryFacts
    <2> QED  BY <1>3, <2>1, <2>2
  <1>6. more \subseteq {"own"}
    <2>1. ASSUME NEW k \in DOMAIN s
          PROVE  Repeats(Store(w) \cup {s[i] : i \in 1..(k - 1)}, s[k]) \subseteq {"own"}
      BY RepeatsType
    <2> QED  BY <2>1
  <1>7. y = [x EXCEPT !.wal = e, !.pending = u, !.clock = c, !.failed = x.failed \cup more]
    BY DEF CoreAddBlocks, AddedLog, Added
  <1> HIDE DEF e, a, u, y, c, more
  <1>8. /\ y \in Validator /\ y.wal = e /\ y.pending = u /\ y.up = x.up /\ y.clock = c
    BY <1>1, <1>2, <1>3, <1>5, <1>6, <1>7 DEF Validator
  <1>9. ClockAhead(e, u, c)
    <2> SUFFICES ASSUME NEW p \in Range(u), e[p].tag = "block"
                 PROVE  e[p].block[2] <= c.round
      BY DEF ClockAhead
    <2>1. CASE p \in Range(x.pending) /\ p \in 1..Len(w)
      <3>1. e[p] = w[p]
        BY <1>2, <2>1
      <3>2. w[p].tag = "block" /\ w[p].block[2] <= x.clock.round
        BY <1>1, <2>1, <3>1 DEF ClockAhead
      <3>3. p \in Blocks(w)
        BY <1>1, <2>1, <3>2 DEF Blocks, Positions
      <3>4. w[p].block[2] \in Nat /\ x.clock.round \in Nat /\ c.round \in Nat
        BY <1>1, <1>5, <3>3, EntryFacts DEF Clock
      <3> QED  BY <1>5, <3>1, <3>2, <3>4
    <2>2. CASE \E k \in 1..Len(s) : p = a[k]
      BY <1>5, <2>2
    <2> QED  BY <1>3, <2>1, <2>2
  <1> QED
    BY <1>1, <1>2, <1>3, <1>4, <1>5, <1>8, <1>9 DEF Runs, UpInv, y, e, a, c

(* The syncer logs its state and what is committed. *)
LEMMA StateLogged ==
    ASSUME NEW x, Runs(x)
    PROVE  LET e == Append(x.wal, StateEntry)
           IN  /\ Grows(x.wal, e) /\ LogInv(e) /\ Own(e) # {} /\ e \in Seq(Entry)
               /\ PendingInv(e, x.pending) /\ ClockAhead(e, x.pending, x.clock)
               /\ LastProposed(e) = LastProposed(x.wal)
  <1> DEFINE w == x.wal
             e == Append(w, StateEntry)
             n == Len(w)
             s == x.pending
  <1>1. /\ x \in Validator /\ w \in Seq(Entry) /\ s \in Seq(Nat)
        /\ LogInv(w) /\ Own(w) # {} /\ PendingInv(w, s) /\ ClockAhead(w, s, x.clock)
    BY DEF Runs, Validator, UpInv
  <1>2. /\ e \in Seq(Entry) /\ Len(e) = n + 1 /\ n \in Nat
        /\ \A p \in 1..n : e[p] = w[p]
        /\ e[n + 1].tag = "state"
        /\ DOMAIN e = 1..(n + 1) /\ DOMAIN w = 1..n
    BY <1>1, EntryTypes
  <1> HIDE DEF e
  <1>3. ASSUME NEW tags, "state" \notin tags  PROVE  Positions(e, tags) = Positions(w, tags)
    <2>1. \A p \in 1..(n + 1) : p \in 1..n \/ p = n + 1
      BY <1>2
    <2>2. \A p \in 1..n : p \in 1..(n + 1)
      BY <1>2
    <2> QED  BY <1>2, <1>3, <2>1, <2>2 DEF Positions
  <1>4. Own(e) = Own(w) /\ Blocks(e) = Blocks(w)
        /\ Positions(e, {"block", "payload"}) = Positions(w, {"block", "payload"})
    BY <1>3 DEF Own, Blocks
  <1>5. \A p \in Own(w) : p \in 1..n
    BY <1>1, EntryFacts
  <1>6. Grows(w, e)
    BY <1>1, <1>2, <1>4, <1>5 DEF Grows, Extends
  <1>7. /\ LogInv(e) /\ LastProposed(e) = LastProposed(w)
        /\ \A p \in RecoveredPending(w) : p \in RecoveredPending(e)
        /\ \A p \in RecoveredPending(e) : p \in RecoveredPending(w) \/ p > n
    BY <1>1, <1>6, GrownLog
  <1>8. RecoveredPending(e) = RecoveredPending(w)
    <2>1. ASSUME NEW p \in RecoveredPending(e)  PROVE  ~ (p > n)
      <3>1. p \in 1..n
        BY <1>2, <1>4, RecoveredFacts DEF Positions
      <3> QED  BY <1>2, <3>1
    <2> QED  BY <1>7, <2>1
  <1>9. ASSUME NEW p \in Range(s)  PROVE  p \in 1..n /\ e[p] = w[p]
    <2>1. p \in Positions(w, {"block", "payload"})
      BY <1>1, RecoveredFacts DEF PendingInv
    <2> QED  BY <1>2, <2>1 DEF Positions
  <1>10. ASSUME NEW p \in Blocks(w)  PROVE  p \in 1..n /\ e[p] = w[p]
    BY <1>1, <1>2, EntryFacts
  <1>11. ASSUME NEW p \in RecoveredPending(w)  PROVE  e[p] = w[p]
    <2>1. p \in Positions(w, {"block", "payload"})
      BY RecoveredFacts
    <2> QED  BY <1>2, <2>1 DEF Positions
  <1>12. InOrder(e, s)
    BY <1>1, <1>4, <1>10 DEF PendingInv, InOrder
  <1>13. PendingInv(e, s)
    BY <1>1, <1>4, <1>7, <1>8, <1>10, <1>11, <1>12 DEF PendingInv
  <1>14. ClockAhead(e, s, x.clock)
    BY <1>1, <1>9 DEF ClockAhead
  <1> QED  BY <1>1, <1>2, <1>4, <1>6, <1>7, <1>13, <1>14 DEF e

(* Syncer::try_new_block, for a validator whose core may take what it has. *)
LEMMA TryNewBlockMakes ==
    ASSUME NEW x, MayTake(x), SentTypes, NEW connected,
           x.force \/ Ready(x, connected), MayPropose(x)
    PROVE  LET y == TryNewBlock(x, connected)
               made == CoreTryNewBlock(x)
           IN  /\ Runs(y) /\ y.up = x.up /\ Extends(x.wal, y.wal)
               /\ y.wal = Append(made.wal, StateEntry) /\ Grows(made.wal, y.wal)
               /\ y.clock = made.clock
               /\ LastProposed(y.wal) = x.clock.round
  <1> DEFINE m == CoreTryNewBlock(x)
             e == Append(m.wal, StateEntry)
             y == TryNewBlock(x, connected)
  <1>1. /\ m \in Validator /\ Extends(x.wal, m.wal) /\ LogInv(m.wal) /\ UpInv(m)
        /\ m.up = x.up /\ LastProposed(m.wal) = x.clock.round
    BY CoreTryNewBlockKeeps
  <1>2. Runs(m)
    BY <1>1 DEF Runs
  <1>3. /\ Grows(m.wal, e) /\ LogInv(e) /\ Own(e) # {} /\ e \in Seq(Entry)
        /\ PendingInv(e, m.pending) /\ ClockAhead(e, m.pending, m.clock)
        /\ LastProposed(e) = LastProposed(m.wal)
    BY <1>2, StateLogged
  <1>4. y = [m EXCEPT !.force = FALSE, !.wal = e]
    BY DEF TryNewBlock
  <1> HIDE DEF m, e, y
  <1>5. /\ y \in Validator /\ y.wal = e /\ y.pending = m.pending /\ y.clock = m.clock
        /\ y.up = m.up
    BY <1>1, <1>3, <1>4 DEF Validator
  <1>6. UpInv(y)
    BY <1>3, <1>5 DEF UpInv
  <1>7. Extends(x.wal, e)
    BY <1>1, <1>3, ExtendsTransitive DEF Grows
  <1> QED  BY <1>1, <1>3, <1>5, <1>6, <1>7 DEF Runs, y, m, e

LEMMA ExtendsItself == \A w \in Seq(Entry) : Extends(w, w)
  BY DEF Extends

LEMMA TryNewBlockKeeps ==
    ASSUME NEW x, Runs(x), SentTypes, NEW connected
    PROVE  LET y == TryNewBlock(x, connected)
           IN  Runs(y) /\ y.up = x.up /\ Extends(x.wal, y.wal)
  <1>1. CASE (x.force \/ Ready(x, connected)) /\ MayPropose(x)
    <2>1. MayTake(x)
      BY UpMayTake DEF Runs
    <2> QED  BY <1>1, <2>1, TryNewBlockMakes
  <1>2. CASE ~ ((x.force \/ Ready(x, connected)) /\ MayPropose(x))
    <2>1. TryNewBlock(x, connected) = x /\ x.wal \in Seq(Entry)
      BY <1>2 DEF TryNewBlock, Runs, Validator
    <2> QED  BY <2>1, ExtendsItself
  <1> QED  BY <1>1, <1>2

(* The fields that the core's invariant does not read. *)
LEMMA RunsIgnores ==
    ASSUME NEW x, Runs(x), NEW f \in BOOLEAN, NEW g \in Nat
    PROVE  /\ Runs([x EXCEPT !.force = f]) /\ [x EXCEPT !.force = f].wal = x.wal
           /\ [x EXCEPT !.force = f].up = x.up /\ [x EXCEPT !.force = f].clock = x.clock
           /\ [x EXCEPT !.force = f].force = f
           /\ Runs([x EXCEPT !.signal = g]) /\ [x EXCEPT !.signal = g].wal = x.wal
           /\ [x EXCEPT !.signal = g].up = x.up /\ [x EXCEPT !.signal = g].clock = x.clock
  <1>1. x \in Validator
    BY DEF Runs
  <1>2. /\ [x EXCEPT !.force = f] \in Validator /\ [x EXCEPT !.force = f].wal = x.wal
        /\ [x EXCEPT !.force = f].up = x.up /\ [x EXCEPT !.force = f].clock = x.clock
        /\ [x EXCEPT !.force = f].force = f
        /\ [x EXCEPT !.force = f].pending = x.pending
    BY <1>1 DEF Validator
  <1>3. /\ [x EXCEPT !.signal = g] \in Validator /\ [x EXCEPT !.signal = g].wal = x.wal
        /\ [x EXCEPT !.signal = g].up = x.up /\ [x EXCEPT !.signal = g].clock = x.clock
        /\ [x EXCEPT !.signal = g].pending = x.pending
    BY <1>1 DEF Validator
  <1> QED  BY <1>2, <1>3 DEF Runs, UpInv

LEMMA AddBlocksKeeps ==
    ASSUME NEW x, Runs(x), SentTypes, NEW s \in Seq(Block), NEW connected
    PROVE  LET y == AddBlocks(x, s, connected)
           IN  Runs(y) /\ y.up = x.up /\ Extends(x.wal, y.wal)
  <1> DEFINE y == CoreAddBlocks(x, s)
             g == IF y.clock.round > x.clock.round THEN y.clock.round ELSE y.signal
             z == [y EXCEPT !.signal = g]
  <1>1. Runs(y) /\ y.up = x.up /\ Extends(x.wal, y.wal)
    BY CoreAddBlocksKeeps DEF Grows
  <1>2. g \in Nat
    BY <1>1 DEF Runs, Validator, Clock
  <1>3. AddBlocks(x, s, connected) = TryNewBlock(z, connected)
    BY DEF AddBlocks
  <1> HIDE DEF y, g
  <1>4. Runs(z) /\ z.wal = y.wal /\ z.up = y.up
    BY <1>1, <1>2, RunsIgnores
  <1> HIDE DEF z
  <1>5. /\ Runs(TryNewBlock(z, connected)) /\ TryNewBlock(z, connected).up = z.up
        /\ Extends(z.wal, TryNewBlock(z, connected).wal)
    BY <1>4, TryNewBlockKeeps
  <1> QED  BY <1>1, <1>3, <1>4, <1>5, ExtendsTransitive

LEMMA ForceNewBlockKeeps ==
    ASSUME NEW x, Runs(x), SentTypes, NEW r
    PROVE  LET y == ForceNewBlock(x, r)
           IN  Runs(y) /\ y.up = x.up /\ Extends(x.wal, y.wal)
  <1> DEFINE z == [x EXCEPT !.force = TRUE]
  <1>1. Runs(z) /\ z.wal = x.wal /\ z.up = x.up /\ x.wal \in Seq(Entry)
    BY RunsIgnores DEF Runs, Validator
  <1>2. ForceNewBlock(x, r) = IF LastProposed(x.wal) < r THEN TryNewBlock(z, TRUE) ELSE x
    BY DEF ForceNewBlock
  <1> HIDE DEF z
  <1>3. /\ Runs(TryNewBlock(z, TRUE)) /\ TryNewBlock(z, TRUE).up = z.up
        /\ Extends(z.wal, TryNewBlock(z, TRUE).wal)
    BY <1>1, TryNewBlockKeeps
  <1> QED  BY <1>1, <1>2, <1>3, ExtendsItself

------------------------------------------------------------------------------
(* Core::open *)

LEMMA QuorumMonotone ==
    ASSUME NEW T \in SUBSET Authority, NEW S \in SUBSET T, IsQuorum(S)
    PROVE  IsQuorum(T)
  <1>1. StakeOf(S) <= StakeOf(T)
    BY StakeMonotone
  <1>2. StakeOf(S) \in Nat /\ StakeOf(T) \in Nat /\ TotalStake \in Nat
    BY StakeType DEF TotalStake
  <1>3. QuorumThreshold \in Int
    BY <1>2 DEF QuorumThreshold
  <1> QED  BY <1>1, <1>2, <1>3 DEF IsQuorum

LEMMA AllAreQuorum == IsQuorum(Authority)
  <1>1. includesOf[Self] \in SUBSET Authority /\ IsQuorum(includesOf[Self])
    BY CoreAssumption
  <1> QED  BY <1>1, QuorumMonotone

(* The genesis blocks: those of the others, each once, and ours. *)
LEMMA GenesisFacts ==
    \E n \in Nat, others \in Seq(Authority) :
        /\ Len(others) = n
        /\ \A a \in Authority \ {Self} : \E i \in 1..n : others[i] = a
        /\ \A i \in 1..n : others[i] # Self
        /\ GenesisLog \in Seq(Entry) /\ Len(GenesisLog) = n + 1
        /\ \A i \in 1..n : /\ GenesisLog[i].tag = "block" /\ i \in Blocks(GenesisLog)
                           /\ GenesisLog[i].block = Genesis(others[i])
        /\ Own(GenesisLog) = {n + 1}
        /\ GenesisLog[n + 1] = OwnEntry(Genesis(Self), 0, {}, {})
  <1> DEFINE S == Authority \ {Self}
             n == Cardinality(S)
             others == SetToSeq(S)
             front == [i \in DOMAIN others |-> BlockEntry(Genesis(others[i]))]
             own == OwnEntry(Genesis(Self), 0, {}, {})
             e == GenesisLog
  <1>1. IsFiniteSet(S) /\ n \in Nat
    <2>1. IsFiniteSet(S)
      BY CommitteeAssumption, FS_Subset
    <2> QED  BY <2>1, FS_CardinalityType
  <1>2. others \in [1..n -> S] /\ IsInjective(others)
    <2>1. \E f \in [1..n -> S] : IsInjective(f)
      <3>1. PICK f \in Bijection(1..n, S) : TRUE
        BY <1>1, FS_CardinalityType DEF ExistsBijection
      <3> QED  BY <3>1 DEF Bijection, Injection
    <2> QED  BY <2>1 DEF SetToSeq
  <1> HIDE DEF others
  <1>3. \A a \in S : \E i \in 1..n : others[i] = a
    <2>1. others \in Injection(1..n, S)
      BY <1>2 DEF Injection
    <2>2. IsFiniteSet(1..n) /\ Cardinality(1..n) = n
      <3>1. /\ IsFiniteSet(1..n)
            /\ Cardinality(1..n) = IF 1 > n THEN 0 ELSE n - 1 + 1
        BY <1>1, FS_Interval
      <3> QED  BY <1>1, <3>1
    <2>3. others \in Surjection(1..n, S)
      BY <1>1, <2>1, <2>2, FS_Injection
    <2> QED  BY <2>3 DEF Surjection
  <1> HIDE DEF S, n
  <1>4. others \in Seq(Authority) /\ Len(others) = n /\ DOMAIN others = 1..n
    <2>1. others \in [1..n -> Authority]
      BY <1>2 DEF S
    <2> QED  BY <1>1, <2>1, SeqDef
  <1>5. \A a \in Authority : Genesis(a) \in Block /\ Genesis(a)[1] = a /\ Genesis(a)[2] = 0
    BY BlockTypes DEF Genesis
  <1>6. /\ front \in Seq(Entry) /\ Len(front) = n
        /\ \A i \in 1..n : front[i] = BlockEntry(Genesis(others[i]))
    <2>1. \A i \in 1..n : BlockEntry(Genesis(others[i])) \in Entry
      BY <1>4, <1>5, EntryTypes
    <2>2. front \in [1..n -> Entry]
      BY <1>4, <2>1
    <2> QED  BY <1>1, <1>4, <2>2, SeqDef
  <1>7. /\ own \in Entry /\ own.tag = "own" /\ own.block = Genesis(Self)
    BY <1>5, BlockTypes, EntryTypes
  <1>8. e = front \o <<own>>
    BY DEF GenesisLog, Never, others, S
  <1> HIDE DEF front, own, e
  <1>9. /\ e \in Seq(Entry) /\ Len(e) = n + 1 /\ DOMAIN e = 1..(n + 1)
        /\ \A i \in 1..n : e[i] = front[i]
        /\ e[n + 1] = own
    <2>1. /\ e \in Seq(Entry) /\ Len(e) = n + 1
          /\ \A i \in 1..(n + 1) : e[i] = IF i <= n THEN front[i] ELSE own
      BY <1>1, <1>6, <1>7, <1>8
    <2>2. ASSUME NEW i \in 1..n  PROVE  e[i] = front[i]
      <3>1. i \in 1..(n + 1) /\ i <= n
        BY <1>1
      <3> QED  BY <2>1, <3>1
    <2>3. e[n + 1] = own
      <3>1. n + 1 \in 1..(n + 1) /\ ~ (n + 1 <= n)
        BY <1>1
      <3> QED  BY <2>1, <3>1
    <2> QED  BY <2>1, <2>2, <2>3
  <1>10. ASSUME NEW i \in 1..n
         PROVE  /\ e[i].tag = "block" /\ e[i].block = Genesis(others[i])
                /\ i \in Blocks(e)
    <2>1. e[i].tag = "block" /\ e[i].block = Genesis(others[i])
      BY <1>4, <1>5, <1>6, <1>9, EntryTypes
    <2>2. i \in 1..(n + 1)
      BY <1>1
    <2> QED  BY <1>9, <2>1, <2>2 DEF Blocks, Positions
  <1>11. Own(e) = {n + 1}
    <2>1. \A p \in 1..(n + 1) : p \in 1..n \/ p = n + 1
      BY <1>1
    <2>2. n + 1 \in 1..(n + 1) /\ n + 1 \notin 1..n
      BY <1>1
    <2>3. \A p \in Own(e) : p \in 1..(n + 1) /\ e[p].tag = "own"
      BY <1>9, EntryFacts
    <2>4. \A p \in Own(e) : p = n + 1
      BY <1>10, <2>1, <2>3
    <2>5. n + 1 \in Own(e)
      BY <1>7, <1>9, <2>2 DEF Own, Positions
    <2> QED  BY <2>4, <2>5
  <1>12. n \in Nat /\ others \in Seq(Authority) /\ \A i \in 1..n : others[i] # Self
    BY <1>1, <1>2, <1>4 DEF S
  <1> QED  BY <1>3, <1>4, <1>9, <1>10, <1>11, <1>12 DEF S, e, own

(* After all genesis blocks the clock is at round 1. *)
LEMMA GenesisClock ==
    LET all == [i \in DOMAIN GenesisLog |-> i]
    IN  Counted(GenesisLog, ClockStart, all) = [round |-> 1, voters |-> {}]
  <1>1. PICK n \in Nat, others \in Seq(Authority) :
            /\ Len(others) = n
            /\ \A a \in Authority \ {Self} : \E i \in 1..n : others[i] = a
            /\ GenesisLog \in Seq(Entry) /\ Len(GenesisLog) = n + 1
            /\ \A i \in 1..n : /\ GenesisLog[i].tag = "block" /\ i \in Blocks(GenesisLog)
                               /\ GenesisLog[i].block = Genesis(others[i])
            /\ Own(GenesisLog) = {n + 1}
            /\ GenesisLog[n + 1] = OwnEntry(Genesis(Self), 0, {}, {})
    BY GenesisFacts
  <1> DEFINE e == GenesisLog
             all == [i \in DOMAIN e |-> i]
             m == n + 1
             by(i) == e[i].block[1]
  <1>2. m \in Nat /\ DOMAIN e = 1..m /\ m \in 1..m /\ \A i \in 1..m : i \in 1..n \/ i = m
    BY <1>1
  <1>3. all \in Seq(Nat) /\ Len(all) = m /\ \A i \in 1..m : all[i] = i
    <2>1. all \in [1..m -> Nat]
      BY <1>2
    <2>2. all \in Seq(Nat) /\ Len(all) = m
      BY <1>2, <2>1, SeqDef
    <2> QED  BY <1>2, <2>2
  <1>4. \A a \in Authority : /\ Genesis(a) \in Block /\ Genesis(a)[1] = a /\ Genesis(a)[2] = 0
    BY BlockTypes DEF Genesis
  <1>5. e[m].tag = "own" /\ e[m].block = Genesis(Self)
    BY <1>1, <1>4, BlockTypes, EntryTypes
  <1>6. ASSUME NEW i \in 1..m
        PROVE  /\ e[i].tag # "payload" /\ e[i].block \in Block
               /\ e[i].block[2] = 0 /\ by(i) \in Authority
    <2>1. CASE i \in 1..n
      <3>1. others[i] \in Authority
        BY <1>1, <2>1
      <3> QED  BY <1>1, <1>4, <2>1, <3>1
    <2>2. CASE i = m
      BY <1>4, <1>5, <2>2, BlockTypes
    <2> QED  BY <1>2, <2>1, <2>2
  <1>7. \A a \in Authority : \E i \in 1..m : by(i) = a
    <2> SUFFICES ASSUME NEW a \in Authority  PROVE  \E i \in 1..m : by(i) = a
      OBVIOUS
    <2>1. CASE a = Self
      BY <1>2, <1>4, <1>5, <2>1
    <2>2. CASE a # Self
      <3>1. PICK i \in 1..n : others[i] = a
        BY <1>1, <2>2
      <3>2. by(i) = a /\ i \in 1..m
        BY <1>1, <1>4, <3>1
      <3> QED  BY <3>2
    <2> QED  BY <2>1, <2>2
  <1>8. Countable(e, all) /\ ClockStart \in Clock
    BY <1>3, <1>6 DEF Countable, Clock, ClockStart
  <1> HIDE DEF e, all, m, by
  <1>9. PICK f : /\ f[0] = ClockStart
                 /\ \A k \in 1..Len(all) : f[k] = CountOne(e, f[k - 1], all[k])
                 /\ Counted(e, ClockStart, all) = f[Len(all)]
    <2> DEFINE c == ClockStart
    <2>1. c \in Clock /\ Countable(e, all)
      BY <1>8
    <2> HIDE DEF c
    <2>2. HasStages(e, c, all)
      BY <2>1, StagesExist
    <2> QED  BY <2>2 DEF HasStages, c
  <1>10. \A k \in 1..m : f[k] = ClockAdd(f[k - 1], e[k].block)
    BY <1>3, <1>6, <1>9 DEF CountOne
  <1> DEFINE Before(k) == {by(i) : i \in 1..k}
             Through(k) == \/ f[k] = [round |-> 0, voters |-> Before(k)] /\ ~ IsQuorum(Before(k))
                           \/ f[k] = [round |-> 1, voters |-> {}]
             G == {k \in 0..m : Through(k)}
  <1>11. 0 \in G
    <2>1. Before(0) = {}
      OBVIOUS
    <2>2. ~ IsQuorum({})
      <3>1. StakeOf({}) = 0
        BY FS_EmptySet DEF StakeOf, Units
      <3>2. TotalStake \in Nat
        BY StakeType DEF TotalStake
      <3> QED  BY <3>1, <3>2 DEF IsQuorum, QuorumThreshold
    <2>3. f[0] = [round |-> 0, voters |-> {}]
      BY <1>9 DEF ClockStart
    <2> HIDE DEF Before
    <2>4. Through(0)
      BY <2>1, <2>2, <2>3
    <2> HIDE DEF Through
    <2> QED  BY <1>2, <2>4
  <1>12. ASSUME NEW k \in 1..m, k - 1 \in G  PROVE  k \in G
    <2> DEFINE c == f[k - 1]
               b == e[k].block
    <2>1. f[k] = ClockAdd(c, b) /\ b[2] = 0 /\ Through(k - 1) /\ b[1] = by(k)
      BY <1>6, <1>10, <1>12 DEF by
    <2>2. Before(k - 1) \cup {by(k)} = Before(k)
      <3>1. \A i \in 1..k : i \in 1..(k - 1) \/ i = k
        BY <1>2
      <3>2. k \in 1..k /\ \A i \in 1..(k - 1) : i \in 1..k
        BY <1>2
      <3> QED  BY <3>1, <3>2
    <2> HIDE DEF b, c
    <2>3. CASE c = [round |-> 1, voters |-> {}]
      <3>1. f[k] = [round |-> 1, voters |-> {}]
        BY <2>1, <2>3 DEF ClockAdd
      <3> QED  BY <3>1
    <2>4. CASE c = [round |-> 0, voters |-> Before(k - 1)] /\ ~ IsQuorum(Before(k - 1))
      <3> HIDE DEF Before
      <3>1. c.round = 0 /\ c.voters \cup {b[1]} = Before(k)
        BY <2>1, <2>2, <2>4
      <3>2. CASE IsQuorum(Before(k))
        <4>1. ClockAdd(c, b) = [round |-> b[2] + 1, voters |-> {}]
          BY <2>1, <3>1, <3>2, ClockAddSame
        <4> QED  BY <2>1, <4>1
      <3>3. CASE ~ IsQuorum(Before(k))
        <4>1. f[k] = [c EXCEPT !.voters = Before(k)]
          BY <2>1, <3>1, <3>3, ClockAddSame
        <4>2. f[k] = [round |-> 0, voters |-> Before(k)]
          BY <2>4, <4>1
        <4> QED  BY <3>3, <4>2
      <3> QED  BY <3>2, <3>3
    <2> QED  BY <2>1, <2>3, <2>4 DEF c
  <1>13. Through(m)
    <2> HIDE DEF Through
    <2>1. \A k \in 1..m : k - 1 \in G => k \in G
      BY <1>12
    <2> HIDE DEF G
    <2>2. \A k \in 0..m : k \in G
      BY <1>2, <1>11, <2>1, UpTo
    <2> QED  BY <1>2, <2>2 DEF G
  <1>14. Before(m) = Authority
    BY <1>6, <1>7
  <1>15. f[m] = [round |-> 1, voters |-> {}]
    BY <1>13, <1>14, AllAreQuorum
  <1> QED  BY <1>3, <1>9, <1>15 DEF e, all

LEMMA FreshFacts ==
    ASSUME NEW w \in Seq(Entry)
    PROVE  /\ Fresh(w) \in Validator /\ Fresh(w).wal = w /\ Fresh(w).up
           /\ Fresh(w).pending = << >> /\ Fresh(w).clock = ClockStart
           /\ Down(w) \in Validator /\ Down(w).wal = w /\ ~ Down(w).up
  <1>1. ClockStart \in Clock
    BY DEF ClockStart, Clock
  <1>2. << >> \in Seq(Nat) /\ {} \in SUBSET {"own", "genesis"} /\ 0 \in Nat
    OBVIOUS
  <1>3. /\ Fresh(w) \in Validator /\ Fresh(w).wal = w /\ Fresh(w).up
        /\ Fresh(w).pending = << >> /\ Fresh(w).clock = ClockStart
    BY <1>1, <1>2 DEF Fresh, Validator
  <1>4. Down(w) \in Validator /\ Down(w).wal = w /\ ~ Down(w).up
    BY <1>3 DEF Down, Validator
  <1> QED  BY <1>3, <1>4

(* The start without a block of ours makes the block of round 1.           *)
LEMMA FirstOpens ==
    ASSUME NEW w, SentTypes
    PROVE  LET z == [OpenFirst(w) EXCEPT !.force = TRUE]
           IN  /\ MayTake(z) /\ MayPropose(z) /\ z.force /\ z.up
               /\ z.wal = GenesisLog /\ z.clock = [round |-> 1, voters |-> {}]
               /\ \A p \in Blocks(z.wal) : p \in Range(z.pending)
               /\ Clean(z)
               /\ ForceNewBlock(OpenFirst(w), 1) = TryNewBlock(z, TRUE)
  <1>1. PICK n \in Nat, others \in Seq(Authority) :
            /\ Len(others) = n /\ \A i \in 1..n : others[i] # Self
            /\ \A a \in Authority \ {Self} : \E i \in 1..n : others[i] = a
            /\ GenesisLog \in Seq(Entry) /\ Len(GenesisLog) = n + 1
            /\ \A i \in 1..n : /\ GenesisLog[i].tag = "block" /\ i \in Blocks(GenesisLog)
                               /\ GenesisLog[i].block = Genesis(others[i])
            /\ Own(GenesisLog) = {n + 1}
            /\ GenesisLog[n + 1] = OwnEntry(Genesis(Self), 0, {}, {})
    BY GenesisFacts
  <1> DEFINE e == GenesisLog
             s == [i \in 1..n |-> i]
             c == [round |-> 1, voters |-> {}]
             z == [OpenFirst(w) EXCEPT !.force = TRUE]
             broken == IF RecoveredPending(w) = {} THEN {} ELSE {"genesis"}
  <1>2. e \in Seq(Entry) /\ DOMAIN e = 1..(n + 1) /\ (n + 1) - 1 = n
        /\ \A i \in 1..(n + 1) : i \in 1..n \/ i = n + 1
    BY <1>1
  <1>3. s \in Seq(Nat) /\ Len(s) = n
    <2>1. s \in [1..n -> Nat]
      OBVIOUS
    <2> QED  BY <2>1, SeqDef
  <1>4. OpenFirst(w) = [Fresh(e) EXCEPT !.pending = s, !.clock = c, !.failed = broken]
    BY <1>1, <1>2, GenesisClock DEF OpenFirst, Fresh
  <1> HIDE DEF e, broken
  <1>5. /\ OpenFirst(w).wal = e /\ OpenFirst(w) \in Validator
        /\ OpenFirst(w).pending = s /\ OpenFirst(w).clock = c /\ OpenFirst(w).up
    <2>1. Fresh(e) \in Validator /\ Fresh(e).wal = e /\ Fresh(e).up
      BY <1>2, FreshFacts
    <2>2. c \in Clock
      BY DEF Clock
    <2>3. broken \in SUBSET {"own", "genesis"}
      BY DEF broken
    <2> HIDE DEF s, c
    <2> QED  BY <1>3, <1>4, <2>1, <2>2, <2>3 DEF Validator
  <1>6. z \in Validator /\ z.wal = e /\ z.pending = s /\ z.clock = c /\ z.force /\ z.up
    <2> HIDE DEF s, c
    <2> QED  BY <1>5 DEF Validator
  <1>7. \A a \in Authority : Genesis(a) \in Block /\ Genesis(a)[1] = a /\ Genesis(a)[2] = 0
    BY BlockTypes DEF Genesis
  <1>8. /\ e[n + 1].tag = "own" /\ e[n + 1].block = Genesis(Self)
        /\ e[n + 1].payloads = {}
    BY <1>1, <1>7, BlockTypes, EntryTypes DEF e
  <1>9. \A p \in Blocks(e) : p \in 1..n
    <2>1. \A p \in Blocks(e) : p \in 1..(n + 1) /\ e[p].tag = "block"
      BY <1>2, EntryFacts
    <2> QED  BY <1>2, <1>8, <2>1
  <1>10. ASSUME NEW i \in 1..n
         PROVE  i \in Blocks(e) /\ e[i].tag = "block" /\ e[i].block[2] = 0
    <2>1. others[i] \in Authority
      BY <1>1
    <2> QED  BY <1>1, <1>7, <2>1 DEF e
  <1>11. Own(e) = {n + 1}
    BY <1>1 DEF e
  <1>12. LogInv(e)
    <2>1. OwnRounds(e)
      BY <1>7, <1>8, <1>11, BlockTypes DEF OwnRounds
    <2>2. PayloadsTaken(e)
      BY <1>8, <1>11 DEF PayloadsTaken
    <2>3. BlocksTaken(e)
      BY <1>9, <1>10 DEF BlocksTaken
    <2> QED  BY <1>2, <2>1, <2>2, <2>3 DEF LogInv
  <1>13. LastProposed(e) = 0
    <2>1. OwnAt(e) = n + 1
      BY <1>2, <1>11, OwnAtFacts
    <2> QED  BY <1>7, <1>8, <2>1, BlockTypes DEF LastProposed, LastOwn
  <1>14. Range(s) = 1..n
    BY DEF Range
  <1>15. MayTake(z)
    <2>1. Range(s) \subseteq Positions(e, {"block", "payload"})
      BY <1>10, <1>14 DEF Positions, Blocks
    <2>2. \A p \in Range(s) : p \in Blocks(e) /\ e[p].block[2] < 1
      BY <1>10, <1>14
    <2>3. \A p \in Positions(e, {"block", "payload"}) : p \in 1..n
      BY <1>2, <1>8 DEF Positions
    <2>4. \A p \in RecoveredPending(e) : p \in Range(s)
      BY <1>14, <2>3, RecoveredFacts
    <2>5. InOrder(e, s)
      BY <1>3 DEF InOrder
    <2>6. ClockAhead(e, s, c)
      BY <1>10, <1>14 DEF ClockAhead
    <2>7. \A p \in Blocks(e) : p \in Range(s)
      BY <1>9, <1>14
    <2> HIDE DEF s, z
    <2>8. z.wal = e /\ z.pending = s /\ z.clock = c /\ z.clock.round = 1
      BY <1>6
    <2> QED  BY <1>6, <1>11, <1>12, <2>1, <2>2, <2>4, <2>5, <2>6, <2>7, <2>8 DEF MayTake
  <1>16. MayPropose(z)
    BY <1>6, <1>13 DEF MayPropose
  <1>17. ForceNewBlock(OpenFirst(w), 1) = TryNewBlock(z, TRUE)
    BY <1>5, <1>13 DEF ForceNewBlock
  <1>18. \A p \in Blocks(z.wal) : p \in Range(z.pending)
    <2> HIDE DEF s, z
    <2> QED  BY <1>6, <1>9, <1>14
  <1>19. Clean(z)
    <2>1. z.failed = broken
      <3> HIDE DEF s, c
      <3>1. Fresh(e) \in Validator
        BY <1>2, FreshFacts
      <3> QED  BY <1>4, <3>1 DEF Validator
    <2>2. "own" \notin broken
      BY DEF broken
    <2>3. \A p \in Blocks(e) : e[p].block = Genesis(others[p]) /\ others[p] \in Authority
                               /\ others[p] # Self
      BY <1>1, <1>9 DEF e
    <2>4. z.wal = e
      BY <1>6
    <2> HIDE DEF z
    <2> QED  BY <1>7, <2>1, <2>2, <2>3, <2>4 DEF Clean, OthersBlocks
  <1> HIDE DEF s
  <1> QED  BY <1>6, <1>15, <1>16, <1>17, <1>18, <1>19 DEF e

(* The numbers of a set in ascending order. *)
LEMMA AscendingFacts ==
    ASSUME NEW n \in Nat, NEW S \in SUBSET (1..n)
    PROVE  LET t == Ascending(S)
           IN  /\ t \in Seq(Nat) /\ Range(t) = S
               /\ \A i, j \in 1..Len(t) : i < j => t[i] < t[j]
  <1> DEFINE R == {z \in S \X S : z[1] < z[2]}
             t == Ascending(S)
             m == Cardinality(S)
  <1>1. IsFiniteSet(S) /\ \A p \in S : p \in Nat
    <2>1. 1 \in Int /\ n \in Int
      OBVIOUS
    <2>2. IsFiniteSet(1..n)
      BY <2>1, FS_Interval
    <2>3. IsFiniteSet(S)
      BY <2>2, FS_Subset
    <2>4. \A p \in S : p \in 1..n
      OBVIOUS
    <2> QED  BY <2>3, <2>4
  <1>2. \A p, q \in S : <<p, q>> \in R <=> p < q
    OBVIOUS
  <1> HIDE DEF R
  <1>3. StrictOrder(S, R)
    BY <1>1, <1>2 DEF StrictOrder
  <1>4. t = Enumeration(S, R)
    <2>1. ASSUME NEW p \in S
          PROVE  Rank(S, R, p) = Cardinality({q \in S : q < p})
      <3>1. {q \in S : <<q, p>> \in R} = {q \in S : q < p}
        BY <1>2
      <3> QED  BY <3>1 DEF Rank
    <2>2. \A k : (CHOOSE p \in S : Rank(S, R, p) = k - 1)
                = (CHOOSE p \in S : Cardinality({q \in S : q < p}) = k - 1)
      <3> TAKE k
      <3>1. \A p : p \in S /\ Rank(S, R, p) = k - 1
                  <=> p \in S /\ Cardinality({q \in S : q < p}) = k - 1
        BY <2>1
      <3> QED  BY <3>1
    <2>3. t = [k \in 1..m |-> CHOOSE p \in S : Cardinality({q \in S : q < p}) = k - 1]
      BY DEF Ascending
    <2>4. Enumeration(S, R) = [k \in 1..m |-> CHOOSE p \in S : Rank(S, R, p) = k - 1]
      BY DEF Enumeration
    <2> QED  BY <2>2, <2>3, <2>4
  <1>5. /\ m \in Nat /\ t \in [1..m -> S]
        /\ \A p \in S : \E i \in 1..m : t[i] = p
        /\ \A i, j \in 1..m : i < j <=> <<t[i], t[j]>> \in R
    BY <1>1, <1>3, <1>4, EnumerationFacts
  <1> HIDE DEF t, m
  <1>6. t \in Seq(Nat) /\ Len(t) = m
    <2>1. t \in [1..m -> Nat]
      BY <1>1, <1>5
    <2> QED  BY <1>5, <2>1, SeqDef
  <1>7. Range(t) = S
    BY <1>5 DEF Range
  <1>8. ASSUME NEW i \in 1..m, NEW j \in 1..m, i < j  PROVE  t[i] < t[j]
    BY <1>2, <1>5, <1>8
  <1> QED  BY <1>6, <1>7, <1>8 DEF t

(* What the log gives back after a start is pending as it should be. *)
LEMMA RecoveredPendingInv ==
    ASSUME NEW w, LogInv(w), Own(w) # {}
    PROVE  LET t == Ascending(RecoveredPending(w))
           IN  /\ t \in Seq(Nat) /\ PendingInv(w, t) /\ Countable(w, t)
               /\ Range(t) = RecoveredPending(w)
  <1> DEFINE t == Ascending(RecoveredPending(w))
             n == Len(w)
  <1>1. w \in Seq(Entry) /\ n \in Nat /\ DOMAIN w = 1..n
    BY DEF LogInv
  <1>2. \A p \in RecoveredPending(w) :
           p \in 1..n /\ (w[p].tag = "payload" \/ p \in Blocks(w))
    BY <1>1, RecoveredFacts DEF Positions, Blocks
  <1>3. /\ t \in Seq(Nat) /\ Range(t) = RecoveredPending(w)
        /\ \A i, j \in 1..Len(t) : i < j => t[i] < t[j]
    BY <1>1, <1>2, AscendingFacts
  <1> HIDE DEF t
  <1>4. ASSUME NEW p \in Blocks(w), p \notin RecoveredPending(w)
        PROVE  w[p].block[2] = 0 \/ w[p].block[2] < LastProposed(w)
    <2>1. p \in Positions(w, {"block", "payload"})
      BY DEF Blocks, Positions
    <2>2. PICK q \in Own(w) : q > p /\ w[q].next \notin 1..p
      BY <1>4, <2>1, RecoveredFacts
    <2>3. p < q
      BY <1>1, <2>2, EntryFacts
    <2>4. w[p].block[2] < w[q].block[2] \/ w[p].block[2] = 0
      BY <2>2, <2>3 DEF LogInv, BlocksTaken
    <2>5. w[q].block[2] <= LastProposed(w) /\ LastProposed(w) \in Nat
      BY LastProposedFacts DEF LogInv
    <2>6. w[p].block[2] \in Nat /\ w[q].block[2] \in Nat
      BY <1>1, EntryFacts
    <2> QED  BY <2>4, <2>5, <2>6
  <1>5. PendingInv(w, t)
    BY <1>3, <1>4 DEF PendingInv, InOrder
  <1>6. Countable(w, t)
    <2>1. \A k \in 1..Len(t) : t[k] \in RecoveredPending(w)
      BY <1>3, RangeIs
    <2>2. \A p \in Blocks(w) : w[p].block \in Block
      BY <1>1, EntryFacts
    <2> QED  BY <1>2, <1>3, <2>1, <2>2 DEF Countable
  <1> QED  BY <1>3, <1>5, <1>6 DEF t

(* The validator after OpenAgain, before the block handler sees what it    *)
(* may have missed.                                                        *)
Opened(w) ==
    [Fresh(w) EXCEPT
       !.pending = Ascending(RecoveredPending(w)),
       !.clock = Counted(w, ClockStart, Ascending(RecoveredPending(w))),
       !.failed = IF \E p, q \in Positions(w, {"block", "own"}) :
                         /\ p # q /\ w[p].block[1] = Self
                         /\ w[q].block[1] = Self /\ w[p].block[2] = w[q].block[2]
                  THEN {"own"} ELSE {}]

LEMMA OpenedRuns ==
    ASSUME NEW w, LogInv(w), Own(w) # {}
    PROVE  /\ Runs(Opened(w)) /\ Opened(w).up /\ Opened(w).wal = w
           /\ Opened(w).clock = Counted(w, ClockStart, Ascending(RecoveredPending(w)))
           /\ Counted(w, ClockStart, Ascending(RecoveredPending(w))) \in Clock
           /\ \/ OpenAgain(w) = Opened(w)
              \/ OpenAgain(w) = CoreAddBlocks(Opened(w), << >>)
  <1> DEFINE t == Ascending(RecoveredPending(w))
             c == Counted(w, ClockStart, t)
             broken == IF \E p, q \in Positions(w, {"block", "own"}) :
                               /\ p # q /\ w[p].block[1] = Self
                               /\ w[q].block[1] = Self /\ w[p].block[2] = w[q].block[2]
                       THEN {"own"} ELSE {}
             x == Opened(w)
  <1>1. /\ t \in Seq(Nat) /\ PendingInv(w, t) /\ Countable(w, t)
        /\ Range(t) = RecoveredPending(w)
    BY RecoveredPendingInv
  <1>2. w \in Seq(Entry) /\ ClockStart \in Clock
    BY DEF LogInv, ClockStart, Clock
  <1>3. /\ Fresh(w) \in Validator /\ Fresh(w).wal = w /\ Fresh(w).up
    BY <1>2, FreshFacts
  <1>4. /\ c \in Clock
        /\ \A k \in 1..Len(t) : w[t[k]].tag # "payload" => w[t[k]].block[2] <= c.round
    <2> DEFINE b == ClockStart
    <2>1. b \in Clock
      BY <1>2
    <2> HIDE DEF b, t
    <2>2. /\ Counted(w, b, t) \in Clock
          /\ \A k \in 1..Len(t) :
                w[t[k]].tag # "payload" => w[t[k]].block[2] <= Counted(w, b, t).round
      BY <1>1, <2>1, CountedFacts
    <2> QED  BY <2>2 DEF b, t
  <1>5. x = [Fresh(w) EXCEPT !.pending = t, !.clock = c, !.failed = broken]
    BY DEF Opened
  <1>6. broken \in SUBSET {"own", "genesis"}
    OBVIOUS
  <1>7. OpenAgain(w) = x \/ OpenAgain(w) = CoreAddBlocks(x, << >>)
    <2>1. Fresh(w).clock = ClockStart
      BY <1>2, FreshFacts
    <2>2. x = [Fresh(w) EXCEPT !.pending = t, !.failed = broken, !.clock = Counted(w, @, t)]
      BY <1>3, <1>5, <2>1 DEF Validator
    <2> QED  BY <2>2 DEF OpenAgain
  <1> HIDE DEF t, c, broken, x
  <1>8. x \in Validator /\ x.wal = w /\ x.up /\ x.pending = t /\ x.clock = c
    BY <1>1, <1>3, <1>4, <1>5, <1>6 DEF Validator
  <1>9. ClockAhead(w, t, c)
    <2> SUFFICES ASSUME NEW p \in Range(t), w[p].tag = "block"
                 PROVE  w[p].block[2] <= c.round
      BY DEF ClockAhead
    <2>1. PICK k \in 1..Len(t) : p = t[k]
      BY <1>1, RangeIs
    <2> QED  BY <1>4, <2>1
  <1> QED  BY <1>1, <1>4, <1>7, <1>8, <1>9 DEF Runs, UpInv, x, c, t

LEMMA StartRuns ==
    ASSUME NEW w, LogInv(w), SentTypes
    PROVE  /\ Runs(Start(w)) /\ Start(w).up
           /\ Own(w) # {} => Extends(w, Start(w).wal)
  <1>1. w \in Seq(Entry)
    BY DEF LogInv
  <1>2. CASE Own(w) = {}
    <2> DEFINE z == [OpenFirst(w) EXCEPT !.force = TRUE]
    <2>1. Start(w) = ForceNewBlock(OpenFirst(w), 1)
      BY <1>1, <1>2, OwnAtFacts DEF Start
    <2>2. MayTake(z) /\ MayPropose(z) /\ z.force /\ z.up
          /\ ForceNewBlock(OpenFirst(w), 1) = TryNewBlock(z, TRUE)
      BY FirstOpens
    <2> HIDE DEF z
    <2>3. Runs(TryNewBlock(z, TRUE)) /\ TryNewBlock(z, TRUE).up = z.up
      BY <2>2, TryNewBlockMakes
    <2> QED  BY <1>2, <2>1, <2>2, <2>3
  <1>3. CASE Own(w) # {}
    <2> DEFINE y == OpenAgain(w)
    <2>1. Start(w) = ForceNewBlock(y, 1)
      <3>1. OwnAt(w) \in Own(w) /\ \A p \in Own(w) : p \in 1..Len(w)
        BY <1>1, <1>3, OwnAtFacts, EntryFacts
      <3>2. OwnAt(w) # 0
        BY <3>1
      <3> QED  BY <3>2 DEF Start
    <2>2. Runs(y) /\ y.up /\ Extends(w, y.wal)
      <3>1. /\ Runs(Opened(w)) /\ Opened(w).up /\ Opened(w).wal = w
            /\ y = Opened(w) \/ y = CoreAddBlocks(Opened(w), << >>)
        BY <1>3, OpenedRuns
      <3>2. << >> \in Seq(Block)
        OBVIOUS
      <3>3. LET z == CoreAddBlocks(Opened(w), << >>)
            IN  Runs(z) /\ z.up /\ Extends(w, z.wal)
        BY <3>1, <3>2, CoreAddBlocksKeeps DEF Grows
      <3> QED  BY <1>1, <3>1, <3>3, ExtendsItself
    <2> HIDE DEF y
    <2>3. /\ Runs(ForceNewBlock(y, 1)) /\ ForceNewBlock(y, 1).up = y.up
          /\ Extends(y.wal, ForceNewBlock(y, 1).wal)
      BY <2>2, ForceNewBlockKeeps
    <2> QED  BY <1>3, <2>1, <2>2, <2>3, ExtendsTransitive
  <1> QED  BY <1>2, <1>3

------------------------------------------------------------------------------
(* The blocks that arrive *)

LEMMA SendableTypes ==
    ASSUME SentTypes
    PROVE  Sendable \subseteq Block
  <1>1. MaxRound \in Nat
    BY CoreAssumption
  <1>2. ASSUME NEW a \in Authority, NEW r \in 1..MaxRound  PROVE  <<a, r, 0>> \in Block
    BY <1>1, BlockTypes
  <1>3. \A x \in published : x.block \in Block
    BY DEF SentTypes, Publication
  <1> QED  BY <1>2, <1>3 DEF Sendable

(* One more block in each batch. *)
Longer(T) == T \cup UNION {{Append(s, b) : b \in {x \in Sendable : Accepts(s, x)}} : s \in T}

IsBatching(f) ==
    f = [k \in 0..MaxBatch |->
            IF k = 0 THEN {<< >>}
            ELSE f[k - 1] \cup
                 UNION {{Append(s, b) : b \in {x \in Sendable : Accepts(s, x)}} : s \in f[k - 1]}]

(* What the blocks accepted in one call have in common. *)
Arrived(s) ==
    /\ s \in Seq(Block)
    /\ \A i \in 1..Len(s) :
          /\ s[i] \in Sendable /\ s[i] \notin Store(v.wal)
          /\ Includes(v.wal, s[i]) \subseteq Store(v.wal) \cup {s[k] : k \in 1..(i - 1)}
          /\ s[i][1] # Self /\ Self \in includesOf[s[i][1]] => PublishedAt(s[i][2] - 1) # {}

LEMMA BatchingExists ==
    ASSUME SentTypes
    PROVE  \E f : IsBatching(f)
  <1> DEFINE S == SUBSET Seq(Block)
             n == MaxBatch
             g == [e \in S \X (1..n) |-> Longer(e[1])]
  <1>1. n \in Nat
    BY CoreAssumption
  <1>2. ASSUME NEW T \in S  PROVE  Longer(T) \in S
    BY SendableTypes DEF Longer
  <1>3. g \in [S \X (1..n) -> S]
    BY <1>2
  <1>4. \A T \in S, k \in 1..n : g[<<T, k>>] = Longer(T)
    OBVIOUS
  <1>5. {<< >>} \in S
    OBVIOUS
  <1> DEFINE b == {<< >>}
  <1> HIDE DEF g, n, S, b
  <1>6. PICK f \in [0..n -> S] : IsIteration(f, b, g, n)
    BY <1>1, <1>3, <1>5, Iterates DEF b
  <1>7. ASSUME NEW k \in 0..n, k # 0
        PROVE  g[<<f[k - 1], k>>] = Longer(f[k - 1])
    <2>1. k \in 1..n /\ k - 1 \in 0..n
      BY <1>1, <1>7
    <2> QED  BY <1>4, <1>6, <2>1
  <1>8. f = [k \in 0..n |-> IF k = 0 THEN b ELSE Longer(f[k - 1])]
    <2>1. \A k \in 0..n : (IF k = 0 THEN b ELSE g[<<f[k - 1], k>>])
                             = (IF k = 0 THEN b ELSE Longer(f[k - 1]))
      BY <1>7
    <2> QED  BY <1>6, <2>1 DEF IsIteration
  <1> QED  BY <1>8 DEF IsBatching, Longer, n, b

LEMMA BatchesArrive ==
    ASSUME SentTypes, NEW s \in Batches
    PROVE  Arrived(s)
  <1> DEFINE f == CHOOSE h : IsBatching(h)
             n == MaxBatch
             G == {i \in 0..n : \A t \in f[i] : Arrived(t)}
  <1>1. IsBatching(f)
    BY BatchingExists
  <1>2. Batches = f[n]
    BY DEF Batches, IsBatching
  <1> HIDE DEF f
  <1>3. n \in Nat
    BY CoreAssumption
  <1>4. 0 \in G
    <2>1. f[0] = {<< >>}
      BY <1>1, <1>3 DEF IsBatching
    <2>2. Arrived(<< >>)
      BY DEF Arrived
    <2> QED  BY <1>3, <2>1, <2>2
  <1>5. ASSUME NEW i \in 1..n, i - 1 \in G  PROVE  i \in G
    <2>1. f[i] = Longer(f[i - 1])
      <3>1. f = [k \in 0..n |-> IF k = 0 THEN {<< >>} ELSE Longer(f[k - 1])]
        BY <1>1 DEF IsBatching, Longer
      <3>2. i \in 0..n /\ i # 0
        BY <1>3
      <3> QED  BY <3>1, <3>2
    <2>2. ASSUME NEW t, Arrived(t), NEW b \in Sendable, Accepts(t, b)
          PROVE  Arrived(Append(t, b))
      <3> DEFINE u == Append(t, b)
                 m == Len(t)
      <3>1. t \in Seq(Block) /\ b \in Block /\ m \in Nat
        BY <2>2, SendableTypes DEF Arrived
      <3>2. /\ u \in Seq(Block) /\ Len(u) = m + 1 /\ u[m + 1] = b
            /\ \A k \in 1..m : u[k] = t[k]
        BY <3>1
      <3>3. Range(t) = {t[k] : k \in 1..m}
        BY <3>1 DEF Range
      <3> HIDE DEF u
      <3>4. {u[k] : k \in 1..((m + 1) - 1)} = Range(t)
        BY <3>1, <3>2, <3>3
      <3>5. /\ Includes(v.wal, b) \subseteq Store(v.wal) \cup Range(t)
            /\ b \notin Store(v.wal)
            /\ b[1] # Self /\ Self \in includesOf[b[1]] => PublishedAt(b[2] - 1) # {}
        BY <2>2 DEF Accepts
      <3>6. ASSUME NEW k \in 1..m
            PROVE  {u[l] : l \in 1..(k - 1)} = {t[l] : l \in 1..(k - 1)}
        <4>1. \A l \in 1..(k - 1) : l \in 1..m
          BY <3>1
        <4> QED  BY <3>2, <4>1
      <3>7. ASSUME NEW k \in 1..(m + 1)
            PROVE  /\ u[k] \in Sendable /\ u[k] \notin Store(v.wal)
                   /\ Includes(v.wal, u[k]) \subseteq Store(v.wal) \cup {u[l] : l \in 1..(k - 1)}
                   /\ u[k][1] # Self /\ Self \in includesOf[u[k][1]]
                         => PublishedAt(u[k][2] - 1) # {}
        <4>1. CASE k = m + 1
          BY <3>2, <3>4, <3>5, <4>1
        <4>2. CASE k # m + 1
          <5>1. k \in 1..m
            BY <3>1, <4>2
          <5> QED  BY <2>2, <3>2, <3>6, <5>1 DEF Arrived
        <4> QED  BY <4>1, <4>2
      <3> QED  BY <3>2, <3>7 DEF Arrived, u
    <2>3. \A t \in f[i] : Arrived(t)
      <3> TAKE t \in f[i]
      <3>1. CASE t \in f[i - 1]
        BY <1>5, <3>1
      <3>2. CASE t \notin f[i - 1]
        <4>1. PICK u \in f[i - 1], b \in Sendable : Accepts(u, b) /\ t = Append(u, b)
          BY <2>1, <3>2 DEF Longer
        <4> QED  BY <1>5, <2>2, <4>1
      <3> QED  BY <3>1, <3>2
    <2> QED  BY <1>3, <2>3
  <1>6. n \in G
    <2> HIDE DEF G
    <2>1. \A i \in 1..n : i - 1 \in G => i \in G
      BY <1>5
    <2> HIDE DEF n
    <2>2. \A i \in 0..n : i \in G
      BY <1>3, <1>4, <2>1, UpTo
    <2> QED  BY <1>3, <2>2
  <1> QED  BY <1>2, <1>6

------------------------------------------------------------------------------
(* CoreInv holds *)

LEMMA MadeTypes ==
    ASSUME NEW w \in Seq(Entry)
    PROVE  Made(w) \subseteq Publication /\ IsFiniteSet(Made(w))
  <1> DEFINE S == Own(w)
             f == [p \in S |-> [block |-> w[p].block, includes |-> w[p].includes]]
  <1>1. /\ Len(w) \in Nat
        /\ \A p \in S : /\ p \in 1..Len(w) /\ w[p].block \in Block
                        /\ w[p].includes \in SUBSET Block
    BY EntryFacts
  <1>2. Made(w) = {f[p] : p \in S}
    BY DEF Made, Own
  <1>3. IsFiniteSet(S)
    <2>1. 1 \in Int /\ Len(w) \in Int
      BY <1>1
    <2>2. IsFiniteSet(1..Len(w))
      BY <2>1, FS_Interval
    <2>3. S \in SUBSET (1..Len(w))
      BY <1>1
    <2> HIDE DEF S
    <2> QED  BY <2>2, <2>3, FS_Subset
  <1>4. \A p \in S : f[p] \in Publication
    BY <1>1 DEF Publication
  <1>5. DOMAIN f = S /\ f = [p \in S |-> f[p]]
    OBVIOUS
  <1> HIDE DEF f, S
  <1>6. IsFiniteSet({f[p] : p \in S})
    BY <1>3, <1>5, FiniteRange
  <1> QED  BY <1>2, <1>4, <1>6

LEMMA CoreInit == Init => CoreInv
  <1> SUFFICES ASSUME Init  PROVE  CoreInv
    OBVIOUS
  <1>1. << >> \in Seq(Entry)
    OBVIOUS
  <1>2. v \in Validator /\ v.wal = << >> /\ ~ v.up
    BY <1>1, FreshFacts DEF Init
  <1>3. LogInv(<< >>)
    <2>1. Own(<< >>) = {} /\ Blocks(<< >>) = {}
      BY DEF Own, Blocks, Positions
    <2> QED  BY <1>1, <2>1 DEF LogInv, OwnRounds, PayloadsTaken, BlocksTaken
  <1>4. IsFiniteSet(published) /\ published \subseteq Publication
    BY FS_EmptySet DEF Init
  <1> QED  BY <1>2, <1>3, <1>4 DEF Init, CoreInv, NoTimeout

(* A handler that ran to its end. *)
LEMMA FinishKeeps ==
    ASSUME CoreInv, NEW x, Runs(x), Finish(x),
           timer' \in [round : Nat, timed_out : BOOLEAN], crashes' = crashes
    PROVE  CoreInv'
  <1>1. x \in Validator /\ LogInv(x.wal) /\ UpInv(x) /\ x.wal \in Seq(Entry)
    BY DEF Runs, LogInv
  <1>2. v' = x /\ published' = published \cup Made(x.wal)
    BY DEF Finish
  <1>3. published' \subseteq Publication /\ IsFiniteSet(published')
    <2>1. Made(x.wal) \subseteq Publication /\ IsFiniteSet(Made(x.wal))
      BY <1>1, MadeTypes
    <2>2. published \subseteq Publication /\ IsFiniteSet(published)
      BY DEF CoreInv
    <2> QED  BY <1>2, <2>1, <2>2, FS_Union
  <1>4. synced' \in Nat
    <2>1. OwnAt(x.wal) \in Nat
      BY <1>1, OwnAtFacts
    <2> QED  BY <2>1 DEF Finish, CoreInv
  <1> QED  BY <1>1, <1>2, <1>3, <1>4 DEF CoreInv

LEMMA BeginningFacts ==
    ASSUME NEW e \in Seq(Entry), NEW k \in 0..Len(e)
    PROVE  Extends(SubSeq(e, 1, k), e) /\ Len(SubSeq(e, 1, k)) = k
  <1>1. Len(e) \in Nat /\ k \in Nat /\ k <= Len(e)
    OBVIOUS
  <1>2. /\ SubSeq(e, 1, k) \in Seq(Entry) /\ Len(SubSeq(e, 1, k)) = k
        /\ \A p \in 1..k : SubSeq(e, 1, k)[p] = e[p]
    OBVIOUS
  <1> QED  BY <1>1, <1>2 DEF Extends

LEMMA CoreTypes ==
    ASSUME CoreInv
    PROVE  /\ SentTypes /\ LogInv(v.wal) /\ v \in Validator /\ v.wal \in Seq(Entry)
           /\ Len(v.wal) \in Nat
           /\ v.up => Runs(v)
  BY DEF CoreInv, SentTypes, LogInv, Runs

(* What a handler makes of the validator, if it runs to its end. *)
LEMMA HandledFacts ==
    ASSUME CoreInv, NEW x \in Handled
    PROVE  /\ Runs(x) /\ x.wal \in Seq(Entry)
           /\ v.up \/ Own(v.wal) # {} => Extends(v.wal, x.wal)
  <1>1. SentTypes /\ LogInv(v.wal) /\ (v.up => Runs(v))
    BY CoreTypes
  <1>2. CASE ~ v.up
    BY <1>1, <1>2, StartRuns DEF Handled, Runs, LogInv
  <1>3. CASE v.up
    <2>1. CASE x = ForceNewBlock(v, timer.round)
      BY <1>1, <1>3, <2>1, ForceNewBlockKeeps DEF Runs, LogInv
    <2>2. CASE x # ForceNewBlock(v, timer.round)
      <3>1. PICK s \in Batches, connected \in BOOLEAN : x = AddBlocks(v, s, connected)
        BY <1>3, <2>2 DEF Handled
      <3>2. s \in Seq(Block)
        BY <1>1, BatchesArrive DEF Arrived
      <3> QED  BY <1>1, <1>3, <3>1, <3>2, AddBlocksKeeps DEF Runs, LogInv
    <2> QED  BY <2>1, <2>2
  <1> QED  BY <1>2, <1>3

(* A stop in the handler of x, after k entries, that leaves n of them. *)
Stopped(x, k, n) ==
    /\ x \in Handled /\ k \in Len(v.wal)..Len(x.wal) /\ n \in 0..k
    /\ v' = Down(SubSeq(x.wal, 1, n)) /\ timer' = NoTimeout /\ crashes' = crashes + 1
    /\ \/ published' = published
       \/ v.up /\ published' = published \cup Made(SubSeq(x.wal, 1, k))
    /\ lost' = lost \cup ((published' \cap Made(SubSeq(x.wal, 1, k)))
                            \ Made(SubSeq(x.wal, 1, n)))
    /\ v.wal = << >> => EarlyCrash
    /\ MachineCrash \/ n = k
    /\ synced' \in Nat
    /\ \A p \in 1..Len(v.wal) : p <= synced => p <= synced' /\ p <= n

StopIs == \E x, k, n : Stopped(x, k, n)

LEMMA SyncedFacts ==
    ASSUME CoreInv, NEW w \in Seq(Entry), NEW n \in SyncedBy(w)
    PROVE  n \in Nat /\ (n = synced \/ n > Len(v.wal))
  <1>1. OwnAt(w) \in Nat /\ synced \in Nat
    BY OwnAtFacts DEF CoreInv
  <1> QED  BY <1>1 DEF SyncedBy, SyncsOwn

LEMMA CutTwice ==
    ASSUME NEW e \in Seq(Entry), NEW k \in 0..Len(e), NEW n \in 0..k
    PROVE  SubSeq(SubSeq(e, 1, k), 1, n) = SubSeq(e, 1, n)
  <1> DEFINE w == SubSeq(e, 1, k)
  <1>1. w \in Seq(Entry) /\ Len(w) = k /\ \A p \in 1..k : w[p] = e[p]
    OBVIOUS
  <1>2. n \in 0..Len(e) /\ n \in 0..Len(w) /\ k \in Nat /\ n \in Nat
    BY <1>1
  <1> HIDE DEF w
  <1>3. Len(SubSeq(e, 1, n)) = n /\ \A p \in 1..n : SubSeq(e, 1, n)[p] = e[p]
    BY <1>2
  <1>4. Len(SubSeq(w, 1, n)) = n /\ \A p \in 1..n : SubSeq(w, 1, n)[p] = w[p]
    BY <1>1, <1>2
  <1>5. \A p \in 1..n : SubSeq(w, 1, n)[p] = SubSeq(e, 1, n)[p]
    BY <1>1, <1>2, <1>3, <1>4
  <1>6. SubSeq(w, 1, n) \in Seq(Entry) /\ SubSeq(e, 1, n) \in Seq(Entry)
    BY <1>1, <1>2
  <1> QED  BY <1>3, <1>4, <1>5, <1>6 DEF w

LEMMA StopFound ==
    ASSUME CoreInv, Crash \/ LoseWrites
    PROVE  StopIs
  <1>1. v.wal \in Seq(Entry) /\ Len(v.wal) \in Nat /\ synced \in Nat
    BY CoreTypes DEF CoreInv
  <1>2. CASE Crash
    <2>1. PICK x \in Handled : \E k \in Len(v.wal)..Len(x.wal) :
             Stop(x, SubSeq(x.wal, 1, k), SubSeq(x.wal, 1, k))
             /\ synced' \in SyncedBy(SubSeq(x.wal, 1, k))
      BY <1>2 DEF Crash
    <2>2. PICK k \in Len(v.wal)..Len(x.wal) :
             Stop(x, SubSeq(x.wal, 1, k), SubSeq(x.wal, 1, k))
             /\ synced' \in SyncedBy(SubSeq(x.wal, 1, k))
      BY <2>1
    <2>3. x.wal \in Seq(Entry)
      BY HandledFacts
    <2>4. k \in 0..Len(x.wal) /\ k \in Nat /\ Len(v.wal) <= k /\ k \in 0..k
      BY <1>1, <2>3
    <2>5. SubSeq(x.wal, 1, k) \in Seq(Entry)
      BY <2>3, <2>4, BeginningFacts DEF Extends
    <2>6. synced' \in Nat /\ (synced' = synced \/ synced' > Len(v.wal))
      BY <2>2, <2>5, SyncedFacts
    <2>7. \A p \in 1..Len(v.wal) : p <= synced => p <= synced' /\ p <= k
      BY <1>1, <2>4, <2>6
    <2>8. Stopped(x, k, k)
      BY <2>2, <2>4, <2>6, <2>7 DEF Stop, Stopped, Visible
    <2> QED  BY <2>8 DEF StopIs
  <1>3. CASE LoseWrites
    <2>1. PICK x \in Handled : \E k \in Len(v.wal)..Len(x.wal) :
             /\ MachineCrash
             /\ \E n \in SyncedBy(SubSeq(x.wal, 1, k)) : synced' \in n..k
             /\ Stop(x, SubSeq(x.wal, 1, k), SubSeq(SubSeq(x.wal, 1, k), 1, synced'))
      BY <1>3 DEF LoseWrites
    <2>2. PICK k \in Len(v.wal)..Len(x.wal) :
             /\ MachineCrash
             /\ \E n \in SyncedBy(SubSeq(x.wal, 1, k)) : synced' \in n..k
             /\ Stop(x, SubSeq(x.wal, 1, k), SubSeq(SubSeq(x.wal, 1, k), 1, synced'))
      BY <2>1
    <2>3. x.wal \in Seq(Entry) /\ Len(x.wal) \in Nat
      BY HandledFacts
    <2>4. k \in 0..Len(x.wal) /\ k \in Nat /\ Len(v.wal) <= k
      BY <1>1, <2>3
    <2>5. SubSeq(x.wal, 1, k) \in Seq(Entry)
      BY <2>3, <2>4, BeginningFacts DEF Extends
    <2>6. PICK n \in SyncedBy(SubSeq(x.wal, 1, k)) : synced' \in n..k
      BY <2>2
    <2>7. n \in Nat /\ (n = synced \/ n > Len(v.wal))
      BY <2>5, <2>6, SyncedFacts
    <2>8. synced' \in 0..k /\ synced' \in Nat /\ n <= synced'
      BY <2>4, <2>6, <2>7
    <2>9. \A p \in 1..Len(v.wal) : p <= synced => p <= synced'
      BY <1>1, <2>7, <2>8
    <2>10. SubSeq(SubSeq(x.wal, 1, k), 1, synced') = SubSeq(x.wal, 1, synced')
      BY <2>3, <2>4, <2>8, CutTwice
    <2>11. Stopped(x, k, synced')
      BY <2>2, <2>4, <2>8, <2>9, <2>10 DEF Stop, Stopped, Visible
    <2> QED  BY <2>11 DEF StopIs
  <1> QED  BY <1>2, <1>3

(* What is left is the beginning of a log. *)
LEMMA StoppedFacts ==
    ASSUME CoreInv, NEW x, NEW k, NEW n, Stopped(x, k, n)
    PROVE  /\ x.wal \in Seq(Entry) /\ LogInv(x.wal) /\ Runs(x)
           /\ SubSeq(x.wal, 1, n) \in Seq(Entry) /\ Extends(SubSeq(x.wal, 1, n), x.wal)
           /\ Len(SubSeq(x.wal, 1, n)) = n /\ n \in Nat
           /\ SubSeq(x.wal, 1, k) \in Seq(Entry) /\ Extends(SubSeq(x.wal, 1, k), x.wal)
           /\ Len(SubSeq(x.wal, 1, k)) = k /\ k \in Nat /\ Len(v.wal) <= k
           /\ v'.wal = SubSeq(x.wal, 1, n) /\ ~ v'.up
           /\ v.up \/ Own(v.wal) # {} => Extends(v.wal, x.wal)
  <1>1. x \in Handled /\ v' = Down(SubSeq(x.wal, 1, n))
    BY DEF Stopped
  <1>2. Runs(x) /\ x.wal \in Seq(Entry) /\ (v.up \/ Own(v.wal) # {} => Extends(v.wal, x.wal))
    BY <1>1, HandledFacts
  <1>3. /\ k \in 0..Len(x.wal) /\ n \in 0..Len(x.wal) /\ k \in Nat /\ n \in Nat
        /\ Len(v.wal) <= k
    <2>1. v.wal \in Seq(Entry) /\ Len(v.wal) \in Nat /\ Len(x.wal) \in Nat
      BY <1>2, CoreTypes
    <2>2. k \in Len(v.wal)..Len(x.wal) /\ n \in 0..k
      BY DEF Stopped
    <2> QED  BY <2>1, <2>2
  <1>4. /\ Extends(SubSeq(x.wal, 1, n), x.wal) /\ Len(SubSeq(x.wal, 1, n)) = n
        /\ Extends(SubSeq(x.wal, 1, k), x.wal) /\ Len(SubSeq(x.wal, 1, k)) = k
    BY <1>2, <1>3, BeginningFacts
  <1>5. SubSeq(x.wal, 1, n) \in Seq(Entry) /\ SubSeq(x.wal, 1, k) \in Seq(Entry)
    BY <1>4 DEF Extends
  <1>6. v'.wal = SubSeq(x.wal, 1, n) /\ ~ v'.up
    BY <1>1, <1>5, FreshFacts
  <1> QED  BY <1>2, <1>3, <1>4, <1>5, <1>6 DEF Runs

LEMMA StopKeeps ==
    ASSUME CoreInv, NEW x, NEW k, NEW n, Stopped(x, k, n)
    PROVE  CoreInv'
  <1> DEFINE w == SubSeq(x.wal, 1, n)
             u == SubSeq(x.wal, 1, k)
  <1>1. LogInv(x.wal) /\ w \in Seq(Entry) /\ Extends(w, x.wal) /\ u \in Seq(Entry)
    BY StoppedFacts
  <1>2. /\ v' = Down(w) /\ crashes' = crashes + 1 /\ timer' = NoTimeout /\ synced' \in Nat
        /\ published' = published \/ published' = published \cup Made(u)
    BY DEF Stopped
  <1> HIDE DEF w, u
  <1>3. LogInv(w)
    BY <1>1, LogBeginning
  <1>4. Down(w) \in Validator /\ Down(w).wal = w /\ ~ Down(w).up
    BY <1>1, FreshFacts
  <1>5. published' \subseteq Publication /\ IsFiniteSet(published')
    <2>1. Made(u) \subseteq Publication /\ IsFiniteSet(Made(u))
      BY <1>1, MadeTypes
    <2>2. published \subseteq Publication /\ IsFiniteSet(published)
      BY DEF CoreInv
    <2> QED  BY <1>2, <2>1, <2>2, FS_Union
  <1>6. crashes' \in Nat
    BY <1>2 DEF CoreInv
  <1> QED  BY <1>2, <1>3, <1>4, <1>5, <1>6 DEF CoreInv, NoTimeout

LEMMA CoreNext == CoreInv /\ [Next]_vars => CoreInv'
  <1> SUFFICES ASSUME CoreInv, [Next]_vars  PROVE  CoreInv'
    OBVIOUS
  <1>1. /\ SentTypes /\ LogInv(v.wal) /\ v \in Validator /\ v.wal \in Seq(Entry)
        /\ Len(v.wal) \in Nat
        /\ v.up => Runs(v)
    BY CoreTypes
  <1>2. /\ timer \in [round : Nat, timed_out : BOOLEAN] /\ synced \in Nat /\ crashes \in Nat
    BY DEF CoreInv
  <1>3. CASE Open
    <2>1. Runs(Start(v.wal))
      BY <1>1, StartRuns
    <2> QED  BY <1>2, <1>3, <2>1, FinishKeeps DEF Open
  <1>4. CASE ReceiveBlocks
    <2>1. PICK s \in Batches, connected \in BOOLEAN :
             /\ v.up /\ Finish(AddBlocks(v, s, connected)) /\ UNCHANGED <<timer, lost, crashes>>
      BY <1>4 DEF ReceiveBlocks, Running
    <2>2. s \in Seq(Block)
      BY <1>1, BatchesArrive DEF Arrived
    <2>3. Runs(AddBlocks(v, s, connected))
      BY <1>1, <2>1, <2>2, AddBlocksKeeps
    <2> QED  BY <1>2, <2>1, <2>3, FinishKeeps
  <1>5. CASE LeaderTimeout
    <2>1. Runs(ForceNewBlock(v, timer.round))
      BY <1>1, <1>5, ForceNewBlockKeeps DEF LeaderTimeout, Running
    <2>2. timer' \in [round : Nat, timed_out : BOOLEAN]
      BY <1>2, <1>5 DEF LeaderTimeout
    <2> QED  BY <1>5, <2>1, <2>2, FinishKeeps DEF LeaderTimeout
  <1>6. CASE RoundAdvanced
    <2>1. v.up /\ v' = [v EXCEPT !.signal = 0]
      BY <1>6 DEF RoundAdvanced, Running
    <2>2. Runs(v') /\ v'.wal = v.wal
      BY <1>1, <2>1, RunsIgnores
    <2>3. timer' \in [round : Nat, timed_out : BOOLEAN]
      BY <1>1, <1>6 DEF RoundAdvanced, Validator
    <2> QED  BY <1>1, <1>6, <2>2, <2>3 DEF RoundAdvanced, CoreInv, Runs
  <1>7. CASE SyncLog
    BY <1>1, <1>7 DEF SyncLog, CoreInv
  <1>8. CASE Crash \/ LoseWrites
    BY <1>8, StopFound, StopKeeps DEF StopIs
  <1>10. CASE UNCHANGED vars
    BY <1>10 DEF vars, CoreInv
  <1> QED  BY <1>3, <1>4, <1>5, <1>6, <1>7, <1>8, <1>10 DEF Next

(* The log and what is pending fit together, at every stop and start: own  *)
(* blocks grow in round and take what lies before their next entry.        *)
THEOREM CoreHolds == Spec => []CoreInv
  BY CoreInit, CoreNext, PTL DEF Spec

(* Whenever the process stops, what is pending will be pending again: what *)
(* RecoveredStateBuilder finds in the log agrees with the running Core.    *)
THEOREM PendingSurvives == Spec => []PendingRecovered
  <1>1. CoreInv => PendingRecovered
    <2> SUFFICES ASSUME CoreInv, v.up
                 PROVE  /\ Range(v.pending) \subseteq RecoveredPending(v.wal)
                        /\ {p \in Range(v.pending) : v.wal[p].tag = "payload"}
                              = {p \in RecoveredPending(v.wal) : v.wal[p].tag = "payload"}
      BY DEF PendingRecovered
    <2>1. PendingInv(v.wal, v.pending)
      BY DEF CoreInv, UpInv
    <2> QED  BY <2>1 DEF PendingInv
  <1> QED  BY <1>1, CoreHolds, PTL

(* Every payload goes into one block of ours, whatever is lost. *)
THEOREM PayloadsOnce == Spec => []PayloadOnce
  <1>1. CoreInv => PayloadOnce
    <2> SUFFICES ASSUME CoreInv, NEW p \in Own(v.wal), NEW q \in Own(v.wal), p # q,
                        NEW x, x \in v.wal[p].payloads, x \in v.wal[q].payloads
                 PROVE  FALSE
      BY DEF PayloadOnce, Own
    <2>1. LogInv(v.wal) /\ p \in Nat /\ q \in Nat
      BY EntryFacts DEF CoreInv, LogInv
    <2>2. ASSUME NEW a \in Own(v.wal), NEW b \in Own(v.wal), a < b,
                 x \in v.wal[a].payloads, x \in v.wal[b].payloads
          PROVE  FALSE
      <3>1. x \in 1..(a - 1) /\ v.wal[a].next \notin 1..x
        BY <2>1, <2>2 DEF LogInv, PayloadsTaken
      <3>2. a \in Nat
        <4>1. v.wal \in Seq(Entry)
          BY <2>1 DEF LogInv
        <4>2. a \in 1..Len(v.wal) /\ Len(v.wal) \in Nat
          BY <4>1, EntryFacts
        <4> QED  BY <4>2
      <3>3. x < a
        BY <3>1, <3>2
      <3> QED  BY <2>1, <2>2, <3>1, <3>3 DEF LogInv, PayloadsTaken
    <2> QED  BY <2>1, <2>2
  <1> QED  BY <1>1, CoreHolds, PTL

------------------------------------------------------------------------------
(* A block of ours that was sent is in the log or was lost *)

LEMMA SentInit == Init => SentInv
  <1> SUFFICES ASSUME Init  PROVE  SentInv
    OBVIOUS
  <1>1. v.wal = << >>
    <2>1. << >> \in Seq(Entry)
      OBVIOUS
    <2> QED  BY <2>1, FreshFacts DEF Init
  <1>2. Own(v.wal) = {}
    BY <1>1 DEF Own, Positions
  <1> QED  BY <1>2 DEF Init, SentInv

(* What was sent is still in a log of which ours is the beginning. *)
LEMMA SentGrows ==
    ASSUME CoreInv, SentInv, NEW w \in Seq(Entry),
           v.up \/ Own(v.wal) # {} => Extends(v.wal, w)
    PROVE  published \subseteq Made(w) \cup lost
  <1>1. CASE Own(v.wal) # {}
    BY <1>1, ExtendsFacts DEF SentInv
  <1>2. CASE Own(v.wal) = {}
    BY <1>2 DEF SentInv, Made, Own
  <1> QED  BY <1>1, <1>2

LEMMA FinishSends ==
    ASSUME CoreInv, SentInv, NEW x, Runs(x), Finish(x), lost' = lost,
           v.up \/ Own(v.wal) # {} => Extends(v.wal, x.wal)
    PROVE  SentInv'
  <1>1. v' = x /\ published' = published \cup Made(x.wal)
    BY DEF Finish
  <1>2. x.wal \in Seq(Entry)
    BY DEF Runs, LogInv
  <1>3. published' \subseteq Made(x.wal) \cup lost
    BY <1>1, <1>2, SentGrows
  <1> QED  BY <1>1, <1>3 DEF SentInv

LEMMA SentNext ==
    ASSUME CoreInv, SentInv, [Next]_vars
    PROVE  SentInv'
  <1>1. /\ SentTypes /\ LogInv(v.wal) /\ v \in Validator /\ v.wal \in Seq(Entry)
        /\ Len(v.wal) \in Nat
        /\ v.up => Runs(v)
    BY CoreTypes
  <1>2. synced \in Nat /\ crashes \in Nat /\ MaxCrashes \in Nat
    BY CoreAssumption DEF CoreInv
  <1>3. CASE Open
    <2>1. Runs(Start(v.wal)) /\ (Own(v.wal) # {} => Extends(v.wal, Start(v.wal).wal))
      BY <1>1, StartRuns
    <2> QED  BY <1>3, <2>1, FinishSends DEF Open
  <1>4. CASE ReceiveBlocks
    <2>1. PICK s \in Batches, connected \in BOOLEAN :
             /\ v.up /\ Finish(AddBlocks(v, s, connected)) /\ UNCHANGED <<timer, lost, crashes>>
      BY <1>4 DEF ReceiveBlocks, Running
    <2>2. s \in Seq(Block)
      BY <1>1, BatchesArrive DEF Arrived
    <2>3. /\ Runs(AddBlocks(v, s, connected))
          /\ Extends(v.wal, AddBlocks(v, s, connected).wal)
      BY <1>1, <2>1, <2>2, AddBlocksKeeps
    <2> QED  BY <2>1, <2>3, FinishSends
  <1>5. CASE LeaderTimeout
    <2>1. /\ Runs(ForceNewBlock(v, timer.round))
          /\ Extends(v.wal, ForceNewBlock(v, timer.round).wal)
      BY <1>1, <1>5, ForceNewBlockKeeps DEF LeaderTimeout, Running
    <2> QED  BY <1>5, <2>1, FinishSends DEF LeaderTimeout
  <1>6. CASE RoundAdvanced
    <2>1. v'.wal = v.wal
      BY <1>1, <1>6, RunsIgnores DEF RoundAdvanced, Running
    <2> QED  BY <1>6, <2>1 DEF RoundAdvanced, SentInv
  <1>7. CASE SyncLog
    BY <1>7 DEF SyncLog, SentInv
  <1>8. CASE Crash \/ LoseWrites
    <2>1. PICK x, k, n : Stopped(x, k, n)
      BY <1>8, StopFound DEF StopIs
    <2> DEFINE w == SubSeq(x.wal, 1, k)
               u == SubSeq(x.wal, 1, n)
    <2>2. /\ w \in Seq(Entry) /\ Extends(w, x.wal) /\ Len(w) = k /\ Len(v.wal) <= k
          /\ v'.wal = u /\ k \in Nat
          /\ v.up \/ Own(v.wal) # {} => Extends(v.wal, x.wal)
      BY <2>1, StoppedFacts
    <2>3. /\ published' = published \/ published' = published \cup Made(w)
          /\ lost' = lost \cup ((published' \cap Made(w)) \ Made(u))
      BY <2>1 DEF Stopped
    <2> HIDE DEF w, u
    <2>4. ASSUME v.up \/ Own(v.wal) # {}  PROVE  Extends(v.wal, w)
      <3>1. Extends(v.wal, x.wal)
        BY <2>2, <2>4
      <3>2. \A p \in 1..Len(v.wal) : p \in 1..Len(w)
        BY <1>1, <2>2
      <3> QED  BY <2>2, <3>1, <3>2 DEF Extends
    <2>5. published \subseteq Made(w) \cup lost
      BY <2>2, <2>4, SentGrows
    <2>6. published' \subseteq Made(w) \cup lost
      BY <2>3, <2>5
    <2>7. published' \subseteq Made(u) \cup lost'
      BY <2>3, <2>6
    <2> QED  BY <2>2, <2>7 DEF SentInv
  <1>10. CASE UNCHANGED vars
    BY <1>10 DEF vars, SentInv
  <1> QED  BY <1>3, <1>4, <1>5, <1>6, <1>7, <1>8, <1>10 DEF Next

(* What others may have of our blocks is in the log, wherever between two   *)
(* writes the process stops, but for what a stop of the machine takes.     *)
THEOREM SentKept == Spec => [](CoreInv /\ SentInv)
  <1>1. Init => CoreInv /\ SentInv
    BY CoreInit, SentInit
  <1>2. CoreInv /\ SentInv /\ [Next]_vars => (CoreInv /\ SentInv)'
    BY CoreNext, SentNext
  <1> QED  BY <1>1, <1>2, PTL DEF Spec

(* Two blocks of ours in one round leave the validator only after the      *)
(* machine lost one of them that was sent.                                 *)
THEOREM BlocksOnce == Spec => []NoEquivocation
  <1>1. CoreInv /\ SentInv => NoEquivocation
    <2> SUFFICES ASSUME CoreInv, SentInv, NEW x \in published, NEW y \in published,
                        x.block[2] = y.block[2], x \notin lost, y \notin lost
                 PROVE  x = y
      BY DEF NoEquivocation
    <2>1. x \in Made(v.wal) /\ y \in Made(v.wal)
      BY DEF SentInv
    <2>2. PICK p \in Own(v.wal) :
             x = [block |-> v.wal[p].block, includes |-> v.wal[p].includes]
      BY <2>1 DEF Made, Own
    <2>3. PICK q \in Own(v.wal) :
             y = [block |-> v.wal[q].block, includes |-> v.wal[q].includes]
      BY <2>1 DEF Made, Own
    <2>4. /\ p \in Nat /\ q \in Nat
          /\ v.wal[p].block[2] \in Nat /\ v.wal[q].block[2] \in Nat
      <3>1. v.wal \in Seq(Entry)
        BY CoreTypes
      <3> QED  BY <3>1, EntryFacts
    <2>5. v.wal[p].block[2] = v.wal[q].block[2]
      BY <2>2, <2>3
    <2>6. ~ (p < q) /\ ~ (q < p)
      BY <2>4, <2>5 DEF CoreInv, LogInv, OwnRounds
    <2>7. p = q
      BY <2>4, <2>6
    <2> QED  BY <2>2, <2>3, <2>7
  <1> QED  BY <1>1, SentKept, PTL

------------------------------------------------------------------------------
(* The blocks behind a block *)

LEMMA AuthorsFacts ==
    ASSUME NEW w \in Seq(Entry), NEW r, NEW n \in Nat, NEW m \in Nat, n <= m
    PROVE  /\ AuthorsAt(w, n, r) \subseteq AuthorsAt(w, m, r)
           /\ AuthorsAt(w, n, r) \subseteq Authority
           /\ \A p \in Own(w) \cup Blocks(w) :
                 p <= n /\ w[p].block[2] = r => w[p].block[1] \in AuthorsAt(w, n, r)
           /\ \A a \in AuthorsAt(w, n, r) :
                 \E p \in Own(w) \cup Blocks(w) :
                    p <= n /\ w[p].block[2] = r /\ a = w[p].block[1]
  <1>1. Positions(w, {"block", "own"}) = Own(w) \cup Blocks(w)
    BY DEF Positions, Own, Blocks
  <1>2. \A p \in Own(w) \cup Blocks(w) : p \in Nat /\ w[p].block[1] \in Authority
    BY EntryFacts
  <1> QED  BY <1>1, <1>2 DEF AuthorsAt

(* The beginning of a log has its authors. *)
LEMMA AuthorsKept ==
    ASSUME NEW w, NEW e, Extends(w, e), NEW n \in 0..Len(w), NEW r
    PROVE  AuthorsAt(w, n, r) = AuthorsAt(e, n, r)
  <1>1. /\ w \in Seq(Entry) /\ e \in Seq(Entry) /\ Len(w) \in Nat /\ n \in Nat /\ n <= Len(w)
    BY DEF Extends
  <1>2. /\ \A p \in Own(w) : p \in Own(e) /\ e[p] = w[p]
        /\ \A p \in Blocks(w) : p \in Blocks(e) /\ e[p] = w[p]
        /\ \A p \in Own(e) : p <= Len(w) => p \in Own(w)
        /\ \A p \in Blocks(e) : p <= Len(w) => p \in Blocks(w)
    BY ExtendsFacts
  <1>3. \A p \in Own(e) \cup Blocks(e) : p \in Nat
    BY <1>1, EntryFacts
  <1>4. \A p : p \in Own(w) \cup Blocks(w) /\ p <= n <=> p \in Own(e) \cup Blocks(e) /\ p <= n
    BY <1>1, <1>2, <1>3
  <1>5. /\ Positions(w, {"block", "own"}) = Own(w) \cup Blocks(w)
        /\ Positions(e, {"block", "own"}) = Own(e) \cup Blocks(e)
    BY DEF Positions, Own, Blocks
  <1>6. ASSUME NEW p  PROVE  p \in Own(w) \cup Blocks(w) => e[p] = w[p]
    BY <1>2
  <1>7. {q \in Positions(w, {"block", "own"}) : q <= n /\ w[q].block[2] = r}
            = {q \in Positions(e, {"block", "own"}) : q <= n /\ e[q].block[2] = r}
    BY <1>4, <1>5, <1>6
  <1> QED  BY <1>5, <1>6, <1>7 DEF AuthorsAt

LEMMA AuthorsGrow ==
    ASSUME NEW w, NEW e, Extends(w, e), NEW r
    PROVE  AuthorsAt(w, Len(w), r) \subseteq AuthorsAt(e, Len(e), r)
  <1>1. w \in Seq(Entry) /\ e \in Seq(Entry) /\ Len(w) <= Len(e)
        /\ Len(w) \in Nat /\ Len(e) \in Nat /\ Len(w) \in 0..Len(w)
    BY DEF Extends
  <1>2. AuthorsAt(w, Len(w), r) = AuthorsAt(e, Len(w), r)
    BY <1>1, AuthorsKept
  <1> QED  BY <1>1, <1>2, AuthorsFacts

LEMMA ClockBackedGrows ==
    ASSUME NEW w, NEW e, Extends(w, e), NEW c \in Clock, ClockBacked(w, c)
    PROVE  ClockBacked(e, c)
  <1>1. c.voters \subseteq AuthorsAt(e, Len(e), c.round)
    BY AuthorsGrow DEF ClockBacked
  <1>2. ASSUME c.round > 0  PROVE  IsQuorum(AuthorsAt(e, Len(e), c.round - 1))
    <2>1. IsQuorum(AuthorsAt(w, Len(w), c.round - 1))
      BY <1>2 DEF ClockBacked
    <2>2. AuthorsAt(w, Len(w), c.round - 1) \subseteq AuthorsAt(e, Len(e), c.round - 1)
      BY AuthorsGrow
    <2>3. e \in Seq(Entry) /\ Len(e) \in Nat
      BY DEF Extends
    <2>4. AuthorsAt(e, Len(e), c.round - 1) \subseteq Authority
      BY <2>3, AuthorsFacts
    <2> QED  BY <2>1, <2>2, <2>4, QuorumMonotone
  <1> QED  BY <1>1, <1>2 DEF ClockBacked

(* Where a block of ours lies, those before it stay the same. *)
LEMMA BackedGrows ==
    ASSUME NEW w, NEW e, Extends(w, e), Backed(w),
           \A p \in Blocks(e) : p > Len(w) /\ e[p].block[2] > 0 =>
              IsQuorum(AuthorsAt(e, p - 1, e[p].block[2] - 1))
    PROVE  Backed(e)
  <1>1. /\ w \in Seq(Entry) /\ e \in Seq(Entry) /\ Len(w) \in Nat
        /\ \A p \in Blocks(e) : p \in 1..Len(e)
        /\ Len(e) \in Nat
    BY EntryFacts DEF Extends
  <1> SUFFICES ASSUME NEW p \in Blocks(e), e[p].block[2] > 0, ~ (p > Len(w))
               PROVE  IsQuorum(AuthorsAt(e, p - 1, e[p].block[2] - 1))
    BY DEF Backed
  <1>2. p <= Len(w) /\ p - 1 \in 0..Len(w)
    BY <1>1
  <1>3. p \in Blocks(w) /\ e[p] = w[p]
    BY <1>2, ExtendsFacts
  <1>4. IsQuorum(AuthorsAt(w, p - 1, e[p].block[2] - 1))
    BY <1>3 DEF Backed
  <1> QED  BY <1>2, <1>4, AuthorsKept

LEMMA ValidGrows ==
    ASSUME NEW w, NEW e, Grows(w, e), LogInv(w), ValidLog(w),
           \A p \in Blocks(e) : p > Len(w) /\ e[p].block[2] > 0 =>
              IsQuorum(AuthorsAt(e, p - 1, e[p].block[2] - 1))
    PROVE  ValidLog(e)
  <1>1. Extends(w, e) /\ Own(e) = Own(w) /\ w \in Seq(Entry)
    BY GrownLog DEF Grows, LogInv
  <1>2. Backed(e)
    BY <1>1, BackedGrows DEF ValidLog
  <1>3. \A p \in Own(w) : e[p] = w[p]
    BY <1>1, ExtendsFacts
  <1>4. ASSUME NEW p \in Own(w), w[p].block[2] > 0
        PROVE  e[Max({q \in Own(w) : q < p})].block \in e[p].includes
    <2> DEFINE S == {q \in Own(w) : q < p}
    <2>1. S \subseteq 0..Len(w) /\ Len(w) \in Nat
      BY <1>1, EntryFacts
    <2>2. S # {}
      BY <1>4 DEF LogInv, OwnRounds
    <2>3. w[Max(S)].block \in w[p].includes
      BY <1>4 DEF ValidLog, ValidOwn
    <2>4. Max(S) \in S
      <3> HIDE DEF S
      <3> QED  BY <2>1, <2>2, MaxFacts
    <2> HIDE DEF S
    <2>5. Max(S) \in Own(w)
      BY <2>4 DEF S
    <2> QED  BY <1>3, <1>4, <2>3, <2>5 DEF S
  <1>5. ValidOwn(e)
    <2> SUFFICES ASSUME NEW p \in Own(w)
                 PROVE  /\ ValidBlock(e[p].block[2], e[p].includes)
                        /\ e[p].block[2] > 0 =>
                              e[Max({q \in Own(w) : q < p})].block \in e[p].includes
      BY <1>1 DEF ValidOwn
    <2>1. e[p] = w[p] /\ ValidBlock(w[p].block[2], w[p].includes)
      BY <1>3 DEF ValidLog, ValidOwn
    <2> QED  BY <1>4, <2>1
  <1> QED  BY <1>2, <1>5 DEF ValidLog

(* A block includes blocks of lower rounds. *)
LEMMA IncludesLower ==
    ASSUME NEW w \in Seq(Entry), ValidOwn(w), SentValid, NEW b \in Block, NEW c \in Includes(w, b)
    PROVE  c[2] < b[2]
  <1>1. b[2] \in Nat /\ b[2] # 0
    BY BlockTypes DEF Includes
  <1>2. CASE b[1] = Self
    <2>1. PICK x \in Made(w) \cup published : x.block = b /\ c \in x.includes
      BY <1>1, <1>2 DEF Includes
    <2>2. ValidBlock(x.block[2], x.includes)
      <3>1. CASE x \in published
        BY <3>1 DEF SentValid
      <3>2. CASE x \in Made(w)
        <4>1. PICK p \in Own(w) : x = [block |-> w[p].block, includes |-> w[p].includes]
          BY <3>2 DEF Made, Own
        <4> QED  BY <4>1 DEF ValidOwn
      <3> QED  BY <2>1, <3>1, <3>2
    <2> QED  BY <1>1, <2>1, <2>2 DEF ValidBlock
  <1>3. CASE b[1] # Self
    <2>1. \/ \E a \in includesOf[b[1]] : c = <<a, b[2] - 1, 0>>
          \/ c \in PublishedAt(b[2] - 1)
      BY <1>1, <1>3 DEF Includes
    <2>2. c[2] = b[2] - 1
      BY <2>1 DEF PublishedAt
    <2> QED  BY <1>1, <2>2
  <1> QED  BY <1>2, <1>3

------------------------------------------------------------------------------
(* Our blocks are valid *)

(* A block of ours leaves behind nothing of the round before its own. *)
CanTakeAll(x) ==
    LastProposed(x.wal) >= 1 \/ \A p \in Blocks(x.wal) : p \in Range(x.pending)

(* Up to a place n before what is left, a quorum of the round before. *)
LEMMA QuorumTaken ==
    ASSUME NEW x, MayTake(x), MayPropose(x), ValidLog(x.wal), ClockBacked(x.wal, x.clock)
    PROVE  \E n \in Nat : /\ IsQuorum(AuthorsAt(x.wal, n, x.clock.round - 1))
                          /\ Cut(x) <= Len(x.pending) => n < x.pending[Cut(x)]
                          /\ n <= Len(x.wal)
  <1> DEFINE w == x.wal
             s == x.pending
             r == x.clock.round
             c == Cut(x)
  <1>1. /\ w \in Seq(Entry) /\ r \in Nat /\ Len(w) \in Nat
        /\ c \in 1..(Len(s) + 1) /\ Len(s) \in Nat
        /\ \A i \in 1..Len(s) : s[i] \in 1..Len(w)
        /\ c <= Len(s) => s[c] \in Blocks(w) /\ w[s[c]].block[2] = r
    BY CutPlaces
  <1>2. r > 0
    <2>1. LastProposed(w) \in Nat /\ r > LastProposed(w)
      BY LastProposedFacts DEF MayTake, LogInv, MayPropose
    <2> QED  BY <1>1, <2>1
  <1> HIDE DEF c, r
  <1>3. CASE c <= Len(s)
    <2> DEFINE p == s[c]
    <2>3. p \in 1..Len(w)
      <3>1. c \in 1..Len(s)
        BY <1>1, <1>3
      <3> QED  BY <1>1, <3>1
    <2> HIDE DEF p
    <2>4. p - 1 \in Nat /\ p - 1 < p /\ p - 1 <= Len(w)
      BY <1>1, <2>3
    <2>1. s[c] - 1 \in Nat /\ s[c] - 1 < s[c] /\ s[c] - 1 <= Len(w)
      BY <2>4 DEF p
    <2>2. IsQuorum(AuthorsAt(w, s[c] - 1, r - 1))
      BY <1>1, <1>2, <1>3 DEF ValidLog, Backed
    <2> QED  BY <2>1, <2>2 DEF c, r
  <1>4. CASE ~ (c <= Len(s))
    <2>1. IsQuorum(AuthorsAt(w, Len(w), r - 1))
      BY <1>2 DEF ClockBacked, r
    <2> QED  BY <1>1, <1>4, <2>1 DEF c, r
  <1> QED  BY <1>3, <1>4

LEMMA NewBlockValid ==
    ASSUME NEW x, MayTake(x), SentTypes, SentValid, MayPropose(x), ValidLog(x.wal),
           ClockBacked(x.wal, x.clock), CanTakeAll(x)
    PROVE  ValidBlock(x.clock.round, Included(x))
  <1> DEFINE w == x.wal
             s == x.pending
             r == x.clock.round
             c == Cut(x)
             l == LastProposed(w)
             previous == LastOwn(w).block
  <1>1. /\ w \in Seq(Entry) /\ r \in Nat /\ Len(w) \in Nat
        /\ c \in 1..(Len(s) + 1) /\ Len(s) \in Nat
        /\ \A p : p \in Range(s) <=> \E i \in 1..Len(s) : p = s[i]
        /\ \A i \in 1..Len(s) : s[i] \in 1..Len(w)
        /\ \A i \in 1..(c - 1) : s[i] \in Blocks(w) => w[s[i]].block[2] < r
        /\ \A j \in c..Len(s) : s[c] <= s[j]
    BY CutPlaces
  <1>2. /\ LogInv(w) /\ OwnRounds(w) /\ Own(w) # {} /\ ValidOwn(w)
    BY DEF MayTake, LogInv, ValidLog
  <1>3. /\ l \in Nat /\ r > l /\ previous[2] = l
        /\ \A p \in Own(w) : w[p].block[2] <= l
    BY <1>1, <1>2, LastProposedFacts DEF MayPropose
  <1>4. /\ previous \in Block /\ Candidates(x) \subseteq Block
        /\ previous \in Candidates(x) /\ Included(x) \subseteq Candidates(x)
    BY NewEntryTypes DEF Candidates
  <1>5. OwnAt(w) \in Own(w) /\ previous = w[OwnAt(w)].block
        /\ \A p \in Own(w) : p \in Nat /\ p <= OwnAt(w)
    BY <1>1, <1>2, OwnAtFacts, EntryFacts DEF LastOwn
  <1> HIDE DEF c, l, previous
  <1>6. \A b \in Candidates(x) : b[2] < r /\ b[2] \in Nat
    <2>1. \A p \in Taken(x) : w[p].tag = "block" => w[p].block[2] < r
      <3> SUFFICES ASSUME NEW i \in 1..(c - 1), w[s[i]].tag = "block"
                   PROVE  w[s[i]].block[2] < r
        BY DEF Taken, c
      <3>1. i \in 1..Len(s)
        BY <1>1
      <3>2. s[i] \in Blocks(w)
        BY <1>1, <3>1 DEF Blocks, Positions
      <3> QED  BY <1>1, <3>2
    <2>2. \A b \in Candidates(x) : b = previous \/ b[2] < r
      BY <2>1 DEF Candidates, previous
    <2> QED  BY <1>1, <1>3, <1>4, <2>2, BlockTypes
  <1>7. ASSUME NEW b \in Candidates(x), b[2] + 1 = r  PROVE  b \in Included(x)
    <2>1. ASSUME NEW d \in Candidates(x)  PROVE  b \notin Includes(w, d)
      <3>1. b \in Includes(w, d) => b[2] < d[2]
        BY <1>1, <1>2, <1>4, IncludesLower
      <3>2. d[2] < r /\ d[2] \in Nat /\ b[2] \in Nat
        BY <1>6
      <3> QED  BY <1>1, <1>7, <3>1, <3>2
    <2> QED  BY <2>1 DEF Included
  <1>8. PICK n \in Nat : /\ IsQuorum(AuthorsAt(w, n, r - 1))
                         /\ c <= Len(s) => n < s[c]
                         /\ n <= Len(w)
    BY QuorumTaken DEF c
  <1>9. ASSUME NEW p \in Own(w) \cup Blocks(w), p <= n, w[p].block[2] = r - 1
        PROVE  w[p].block \in Candidates(x)
    <2>1. CASE p \in Own(w)
      <3>1. w[p].block[2] <= l /\ w[p].block[2] = l
        <4>1. w[p].block[2] <= l
          BY <1>3, <2>1
        <4>2. w[p].block[2] = r - 1 /\ l \in Nat /\ r \in Nat /\ r > l
          BY <1>1, <1>3, <1>9
        <4> QED  BY <4>1, <4>2
      <3>2. ~ (p < OwnAt(w))
        <4>1. p < OwnAt(w) => w[p].block[2] < w[OwnAt(w)].block[2]
          BY <1>2, <1>5, <2>1 DEF OwnRounds
        <4> QED  BY <1>3, <1>5, <3>1, <4>1
      <3>3. p = OwnAt(w)
        BY <1>5, <2>1, <3>2
      <3> QED  BY <1>4, <1>5, <3>3
    <2>2. CASE p \in Blocks(w)
      <3>1. p \in 1..Len(w) /\ w[p].tag = "block"
        BY <1>1, <2>2, EntryFacts
      <3>2. p \in Range(s)
        <4>1. p \in Range(s) \/ w[p].block[2] = 0 \/ w[p].block[2] < l
          BY <2>2 DEF MayTake, l
        <4>2. CASE l >= 1
          <5>1. r - 1 # 0 /\ ~ (r - 1 < l)
            BY <1>1, <1>3, <4>2
          <5> QED  BY <1>9, <4>1, <5>1
        <4>3. CASE ~ (l >= 1)
          BY <2>2, <4>3 DEF CanTakeAll, l
        <4> QED  BY <4>2, <4>3
      <3>3. PICK i \in 1..Len(s) : p = s[i]
        BY <1>1, <3>2
      <3>4. i \in 1..(c - 1)
        <4>1. i >= c => s[c] <= s[i] /\ n < s[c] /\ s[c] \in Nat
          BY <1>1, <1>8
        <4>2. ~ (i >= c)
          BY <1>1, <1>8, <1>9, <3>1, <3>3, <4>1
        <4> QED  BY <1>1, <4>2
      <3>5. p \in Taken(x)
        BY <3>3, <3>4 DEF Taken, c
      <3> QED  BY <3>1, <3>5 DEF Candidates
    <2> QED  BY <2>1, <2>2
  <1>10. AuthorsAt(w, n, r - 1) \subseteq {b[1] : b \in {y \in Included(x) : y[2] + 1 = r}}
    <2> SUFFICES ASSUME NEW a \in AuthorsAt(w, n, r - 1)
                 PROVE  \E b \in Included(x) : b[2] + 1 = r /\ a = b[1]
      OBVIOUS
    <2>1. PICK p \in Own(w) \cup Blocks(w) :
             p <= n /\ w[p].block[2] = r - 1 /\ a = w[p].block[1]
      <3> DEFINE k == r - 1
      <3>1. n <= n
        BY <1>8
      <3>2. \E p \in Own(w) \cup Blocks(w) :
               p <= n /\ w[p].block[2] = k /\ a = w[p].block[1]
        <4>1. a \in AuthorsAt(w, n, k) /\ w \in Seq(Entry) /\ n \in Nat
          BY <1>1, <1>8
        <4> HIDE DEF k, w, s, r
        <4> QED  BY <3>1, <4>1, AuthorsFacts
      <3> QED  BY <3>2
    <2>2. w[p].block \in Candidates(x)
      BY <1>9, <2>1
    <2>3. w[p].block[2] + 1 = r
      BY <1>1, <2>1
    <2> QED  BY <1>7, <2>1, <2>2, <2>3
  <1>11. {b[1] : b \in {y \in Included(x) : y[2] + 1 = r}} \subseteq Authority
    BY <1>4, BlockTypes
  <1>12. IsQuorum({b[1] : b \in {y \in Included(x) : y[2] + 1 = r}})
    BY <1>8, <1>10, <1>11, QuorumMonotone
  <1>13. \A b \in Included(x) : b[2] < r
    BY <1>4, <1>6
  <1> QED  BY <1>12, <1>13 DEF ValidBlock

LEMMA NewLogValid ==
    ASSUME NEW x, MayTake(x), SentTypes, SentValid, MayPropose(x), ValidLog(x.wal),
           ClockBacked(x.wal, x.clock), CanTakeAll(x)
    PROVE  ValidLog(Append(x.wal, NewEntry(x)))
  <1> DEFINE w == x.wal
             e == Append(w, NewEntry(x))
             n == Len(w) + 1
  <1>1. /\ Extends(w, e) /\ e[n] = NewEntry(x) /\ n \in Nat
        /\ \A p \in 1..Len(w) : e[p] = w[p]
        /\ Own(e) = Own(w) \cup {n} /\ Blocks(e) = Blocks(w)
    BY NewLog
  <1>2. w \in Seq(Entry) /\ Len(w) \in Nat /\ LogInv(w) /\ Own(w) # {}
    BY DEF MayTake, LogInv
  <1>3. /\ NewEntry(x).block[2] = x.clock.round /\ NewEntry(x).includes = Included(x)
        /\ x.clock.round \in Nat
    BY NewEntryTypes DEF MayTake, Validator, Clock
  <1> HIDE DEF e
  <1>4. Backed(e)
    <2>1. \A p \in Blocks(e) : p <= Len(w) /\ p \in Nat
      BY <1>1, <1>2, EntryFacts
    <2> QED  BY <1>1, <1>2, <2>1, BackedGrows DEF ValidLog
  <1>5. \A p \in Own(w) : p \in 1..Len(w) /\ p \in Nat /\ p < n
    BY <1>2, EntryFacts
  <1>6. ASSUME NEW p \in Own(w)
        PROVE  /\ ValidBlock(e[p].block[2], e[p].includes)
               /\ e[p].block[2] > 0 => e[Max({q \in Own(e) : q < p})].block \in e[p].includes
    <2>1. {q \in Own(e) : q < p} = {q \in Own(w) : q < p}
      BY <1>1, <1>2, <1>5
    <2> DEFINE S == {q \in Own(w) : q < p}
    <2>2. /\ e[p] = w[p] /\ ValidBlock(w[p].block[2], w[p].includes)
          /\ w[p].block[2] > 0 => w[Max(S)].block \in w[p].includes
      BY <1>1, <1>5 DEF ValidLog, ValidOwn
    <2>3. ASSUME w[p].block[2] > 0  PROVE  e[Max(S)] = w[Max(S)]
      <3>1. S \subseteq 0..Len(w) /\ S # {}
        BY <1>2, <1>5, <2>3 DEF LogInv, OwnRounds
      <3>2. \A q \in S : q \in 1..Len(w)
        BY <1>5
      <3> HIDE DEF S
      <3>3. Max(S) \in S
        BY <1>2, <3>1, MaxFacts
      <3> QED  BY <1>1, <3>2, <3>3
    <2> HIDE DEF S
    <2> QED  BY <2>1, <2>2, <2>3 DEF S
  <1>7. /\ ValidBlock(e[n].block[2], e[n].includes)
        /\ e[Max({q \in Own(e) : q < n})].block \in e[n].includes
    <2>1. ValidBlock(e[n].block[2], e[n].includes)
      BY <1>1, <1>3, NewBlockValid
    <2>2. {q \in Own(e) : q < n} = Own(w)
      BY <1>1, <1>2, <1>5
    <2>3. Max(Own(w)) \in Own(w) /\ \A q \in Own(w) : q <= Max(Own(w))
      <3>1. Own(w) \subseteq 0..Len(w)
        BY <1>2, <1>5
      <3> QED  BY <1>2, <3>1, MaxFacts
    <2>4. Max(Own(w)) = OwnAt(w)
      <3>1. OwnAt(w) \in Own(w) /\ \A q \in Own(w) : q <= OwnAt(w)
        BY <1>2, OwnAtFacts
      <3>2. OwnAt(w) <= Max(Own(w)) /\ Max(Own(w)) <= OwnAt(w)
            /\ OwnAt(w) \in Nat /\ Max(Own(w)) \in Nat
        BY <1>5, <2>3, <3>1
      <3> QED  BY <3>2
    <2>5. e[Max(Own(w))].block = LastOwn(w).block
      BY <1>1, <1>5, <2>3, <2>4 DEF LastOwn
    <2>6. LastOwn(w).block \in e[n].includes
      BY <1>1, <1>3 DEF Included
    <2> QED  BY <2>1, <2>2, <2>5, <2>6
  <1>8. ValidOwn(e)
    BY <1>1, <1>6, <1>7 DEF ValidOwn
  <1> QED  BY <1>4, <1>8 DEF ValidLog, e

------------------------------------------------------------------------------
(* The clock lies behind a quorum *)

LEMMA ClockAddBacked ==
    ASSUME NEW w \in Seq(Entry), NEW c \in Clock, ClockBacked(w, c), NEW b \in Block,
           b[1] \in AuthorsAt(w, Len(w), b[2]),
           b[2] > 0 => IsQuorum(AuthorsAt(w, Len(w), b[2] - 1))
    PROVE  ClockBacked(w, ClockAdd(c, b))
  <1> DEFINE S == c.voters \cup {b[1]}
             d == ClockAdd(c, b)
  <1>1. c.round \in Nat /\ b[2] \in Nat /\ Len(w) \in Nat
    BY BlockTypes DEF Clock
  <1>2. CASE b[2] < c.round
    <2>1. d = c
      BY <1>2 DEF ClockAdd
    <2> QED  BY <2>1
  <1>3. CASE b[2] > c.round
    <2>1. d = [round |-> b[2], voters |-> {b[1]}]
      BY <1>1, <1>3 DEF ClockAdd
    <2> HIDE DEF d
    <2>2. d.round = b[2] /\ d.voters = {b[1]}
      BY <2>1
    <2>3. d.voters \subseteq AuthorsAt(w, Len(w), d.round)
      BY <2>2
    <2>4. d.round > 0 => IsQuorum(AuthorsAt(w, Len(w), d.round - 1))
      BY <2>2
    <2> QED  BY <2>3, <2>4 DEF ClockBacked, d
  <1>4. CASE b[2] = c.round
    <2>1. d = IF IsQuorum(S) THEN [round |-> b[2] + 1, voters |-> {}]
              ELSE [c EXCEPT !.voters = S]
      BY <1>1, <1>4, ClockAddSame
    <2>2. S \subseteq AuthorsAt(w, Len(w), c.round)
      BY <1>4 DEF ClockBacked
    <2> HIDE DEF d, S
    <2>3. CASE IsQuorum(S)
      <3>1. d.round = c.round + 1 /\ d.voters = {} /\ d.round - 1 = c.round
        BY <1>1, <1>4, <2>1, <2>3
      <3>2. AuthorsAt(w, Len(w), c.round) \subseteq Authority
        BY <1>1, AuthorsFacts
      <3>3. IsQuorum(AuthorsAt(w, Len(w), c.round))
        BY <2>2, <2>3, <3>2, QuorumMonotone
      <3>4. d.voters \subseteq AuthorsAt(w, Len(w), d.round)
        BY <3>1
      <3>5. IsQuorum(AuthorsAt(w, Len(w), d.round - 1))
        BY <3>1, <3>3
      <3> QED  BY <3>4, <3>5 DEF ClockBacked, d
    <2>4. CASE ~ IsQuorum(S)
      <3>1. d.round = c.round /\ d.voters = S
        BY <2>1, <2>4 DEF Clock
      <3>2. d.voters \subseteq AuthorsAt(w, Len(w), d.round)
        BY <2>2, <3>1
      <3>3. d.round > 0 => IsQuorum(AuthorsAt(w, Len(w), d.round - 1))
        BY <3>1 DEF ClockBacked
      <3> QED  BY <3>2, <3>3 DEF ClockBacked, d
    <2> QED  BY <2>3, <2>4
  <1> QED  BY <1>1, <1>2, <1>3, <1>4

(* The positions ps hold payloads and blocks of others. *)
Lying(w, ps) == \A k \in 1..Len(ps) : w[ps[k]].tag = "payload" \/ ps[k] \in Blocks(w)

(* Counting what lies in a log keeps it so. *)
LEMMA CountedBacked ==
    ASSUME NEW w \in Seq(Entry), Backed(w), NEW c \in Clock, ClockBacked(w, c),
           NEW ps, Countable(w, ps), Lying(w, ps)
    PROVE  ClockBacked(w, Counted(w, c, ps))
  <1>6. HasStages(w, c, ps)
    BY StagesExist
  <1>1. PICK f : /\ f[0] = c
                 /\ \A k \in 1..Len(ps) : f[k] = CountOne(w, f[k - 1], ps[k])
                 /\ Counted(w, c, ps) = f[Len(ps)]
    BY <1>6 DEF HasStages
  <1> DEFINE n == Len(ps)
             G == {i \in 0..n : f[i] \in Clock /\ ClockBacked(w, f[i])}
  <1>2. n \in Nat
    BY DEF Countable
  <1>3. 0 \in G
    BY <1>1, <1>2
  <1>4. ASSUME NEW i \in 1..n, i - 1 \in G  PROVE  i \in G
    <2> DEFINE d == f[i - 1]
               p == ps[i]
               b == w[p].block
    <2>1. d \in Clock /\ ClockBacked(w, d) /\ f[i] = CountOne(w, d, p)
          /\ (w[p].tag = "payload" \/ p \in Blocks(w))
      BY <1>1, <1>4 DEF Lying
    <2>2. i \in 0..n
      BY <1>2
    <2> HIDE DEF d, p
    <2>3. CASE w[p].tag = "payload"
      BY <2>1, <2>2, <2>3 DEF CountOne
    <2>4. CASE w[p].tag # "payload"
      <3>1. p \in Blocks(w) /\ f[i] = ClockAdd(d, b)
        BY <2>1, <2>4 DEF CountOne
      <3>2. b \in Block /\ p \in 1..Len(w) /\ b[2] \in Nat /\ Len(w) \in Nat
        BY <3>1, EntryFacts
      <3>3. b[1] \in AuthorsAt(w, Len(w), b[2])
        <4>1. p <= Len(w) /\ Len(w) <= Len(w)
          BY <3>2
        <4> QED  BY <3>1, <3>2, <4>1, AuthorsFacts
      <3>4. ASSUME b[2] > 0  PROVE  IsQuorum(AuthorsAt(w, Len(w), b[2] - 1))
        <4>1. IsQuorum(AuthorsAt(w, p - 1, b[2] - 1))
          BY <3>1, <3>4 DEF Backed
        <4>2. p - 1 \in Nat /\ p - 1 <= Len(w)
          BY <3>2
        <4>3. /\ AuthorsAt(w, p - 1, b[2] - 1) \subseteq AuthorsAt(w, Len(w), b[2] - 1)
              /\ AuthorsAt(w, Len(w), b[2] - 1) \subseteq Authority
          <5>1. Len(w) <= Len(w)
            BY <3>2
          <5> QED  BY <3>2, <4>2, <5>1, AuthorsFacts
        <4> QED  BY <4>1, <4>3, QuorumMonotone
      <3> HIDE DEF b
      <3>5. ClockBacked(w, f[i]) /\ f[i] \in Clock
        BY <2>1, <3>1, <3>2, <3>3, <3>4, ClockAddBacked, ClockAddFacts
      <3> QED  BY <2>2, <3>5
    <2> QED  BY <2>3, <2>4
  <1>5. n \in G
    <2> HIDE DEF G
    <2>1. \A i \in 1..n : i - 1 \in G => i \in G
      BY <1>4
    <2> HIDE DEF n
    <2>2. \A i \in 0..n : i \in G
      BY <1>2, <1>3, <2>1, UpTo
    <2> QED  BY <1>2, <2>2
  <1> QED  BY <1>1, <1>5

FirstMade(w) == \E p \in Own(w) : w[p].block[2] >= 1

(* A validator whose blocks are valid. *)
Good(x) == Runs(x) /\ ValidLog(x.wal) /\ ClockBacked(x.wal, x.clock) /\ FirstMade(x.wal)

LEMMA GoodTakesAll == ASSUME NEW x, Good(x)  PROVE  CanTakeAll(x)
  <1>1. PICK p \in Own(x.wal) : x.wal[p].block[2] >= 1
    BY DEF Good, FirstMade
  <1>2. x.wal \in Seq(Entry) /\ OwnRounds(x.wal) /\ Own(x.wal) # {}
    BY <1>1 DEF Good, Runs, LogInv
  <1>3. LastProposed(x.wal) \in Nat /\ x.wal[p].block[2] <= LastProposed(x.wal)
        /\ x.wal[p].block[2] \in Nat
    BY <1>1, <1>2, LastProposedFacts, EntryFacts
  <1> QED  BY <1>1, <1>3 DEF CanTakeAll

LEMMA TryNewBlockValid ==
    ASSUME NEW x, MayTake(x), SentTypes, SentValid, ValidLog(x.wal),
           ClockBacked(x.wal, x.clock), CanTakeAll(x), NEW connected,
           x.force \/ Ready(x, connected), MayPropose(x)
    PROVE  Good(TryNewBlock(x, connected))
  <1> DEFINE y == TryNewBlock(x, connected)
             e == Append(x.wal, NewEntry(x))
             f == Append(e, StateEntry)
             b == MadeBlock(x)
             c == x.clock
  <1>1. /\ Runs(y) /\ y.wal = f /\ y.clock = ClockAdd(c, b)
        /\ LastProposed(y.wal) = c.round
    BY TryNewBlockMakes, CoreTryNewBlockKeeps
  <1>2. /\ Extends(x.wal, e) /\ Len(e) = Len(x.wal) + 1 /\ e[Len(x.wal) + 1] = NewEntry(x)
        /\ Len(x.wal) + 1 \in Own(e)
    BY NewLog
  <1>3. ValidLog(e) /\ LogInv(e)
    BY NewLogValid, NewLogKeeps
  <1>4. c \in Clock /\ c.round \in Nat /\ LogInv(x.wal) /\ Own(x.wal) # {}
    BY DEF MayTake, Validator, Clock
  <1>5. b \in Block /\ b[1] = Self /\ b[2] = c.round /\ NewEntry(x).block = b
    BY NewEntryTypes
  <1> HIDE DEF e, b, y
  <1>6. e \in Seq(Entry) /\ Len(e) \in Nat
    BY <1>3 DEF LogInv
  <1>7. ClockBacked(e, ClockAdd(c, b))
    <2>1. ClockBacked(e, c)
      BY <1>2, <1>4, ClockBackedGrows
    <2>2. b[1] \in AuthorsAt(e, Len(e), b[2])
      <3>1. Len(e) <= Len(e)
        BY <1>6
      <3> QED  BY <1>2, <1>5, <1>6, <3>1, AuthorsFacts
    <2>3. b[2] > 0 => IsQuorum(AuthorsAt(e, Len(e), b[2] - 1))
      BY <1>5, <2>1 DEF ClockBacked
    <2> QED  BY <1>4, <1>5, <1>6, <2>1, <2>2, <2>3, ClockAddBacked
  <1>8. f \in Seq(Entry) /\ Len(f) = Len(e) + 1 /\ f[Len(e) + 1].tag = "state"
        /\ \A p \in 1..Len(e) : f[p] = e[p]
    BY <1>6, EntryTypes
  <1> HIDE DEF f
  <1>9. Grows(e, f) /\ \A p \in Blocks(f) : ~ (p > Len(e))
    <2>1. ASSUME NEW p \in Own(f) \cup Blocks(f)  PROVE  p <= Len(e)
      <3>1. p \in 1..Len(f) /\ f[p].tag # "state"
        BY <1>8, <2>1, EntryFacts
      <3>2. p # Len(e) + 1
        BY <1>8, <3>1
      <3> QED  BY <1>6, <1>8, <3>1, <3>2
    <2>2. Extends(e, f)
      BY <1>6, <1>8 DEF Extends
    <2>3. \A p \in Blocks(f) : p \in Nat
      BY <1>8, EntryFacts
    <2> QED  BY <1>6, <2>1, <2>2, <2>3 DEF Grows
  <1>10. ValidLog(f) /\ ClockBacked(f, ClockAdd(c, b))
    <2>1. ClockAdd(c, b) \in Clock
      BY <1>4, <1>5, ClockAddFacts
    <2> QED  BY <1>3, <1>7, <1>9, <2>1, ValidGrows, ClockBackedGrows DEF Grows
  <1>11. FirstMade(f)
    <2>1. LastProposed(x.wal) \in Nat /\ c.round > LastProposed(x.wal)
      BY <1>4, LastProposedFacts DEF LogInv, MayPropose
    <2>2. c.round >= 1
      BY <1>4, <2>1
    <2>3. OwnAt(f) \in Own(f)
      BY <1>1, <1>8, OwnAtFacts DEF Runs, UpInv
    <2> QED  BY <1>1, <2>2, <2>3 DEF LastProposed, LastOwn, FirstMade
  <1> QED  BY <1>1, <1>10, <1>11 DEF Good, y

------------------------------------------------------------------------------
(* The blocks that arrive are valid *)

LEMMA LeastPublished ==
    ASSUME SentTypes, NEW r, PublishedAt(r) # {}
    PROVE  \E x \in PublishedAt(r) : \A y \in PublishedAt(r) : x[3] <= y[3]
  <1> DEFINE S == {x[3] : x \in PublishedAt(r)}
  <1>1. PublishedAt(r) \subseteq Block
    BY PublishedFacts DEF SentTypes
  <1>2. S \subseteq Nat /\ S # {}
    BY <1>1, BlockTypes
  <1> HIDE DEF S
  <1>3. PICK n \in S : \A m \in S : n <= m
    BY <1>2, LeastNumber
  <1> QED  BY <1>3 DEF S

(* A block that arrives includes a quorum of the round before. *)
LEMMA ArrivedIncludes ==
    ASSUME SentTypes, SentValid, NEW b \in Sendable, b[2] > 0,
           b[1] # Self /\ Self \in includesOf[b[1]] => PublishedAt(b[2] - 1) # {},
           NEW w
    PROVE  \E Q \in SUBSET Authority :
              /\ IsQuorum(Q)
              /\ \A a \in Q : \E d \in Includes(w, b) : d[1] = a /\ d[2] = b[2] - 1
  <1>1. b \in Block /\ b[1] \in Authority /\ b[2] \in Nat /\ b[2] # 0 /\ b[2] - 1 \in Nat
    BY SendableTypes, BlockTypes
  <1>2. CASE b[1] = Self
    <2>1. PICK y \in published : y.block = b
      <3>1. \/ \E a \in Authority \ {Self}, r \in 1..MaxRound : b = <<a, r, 0>>
            \/ \E y \in published : b = y.block
        BY DEF Sendable
      <3> QED  BY <1>2, <3>1
    <2>2. y.includes \subseteq Includes(w, b)
      BY <1>1, <1>2, <2>1 DEF Includes
    <2> DEFINE Q == {d[1] : d \in {z \in y.includes : z[2] + 1 = b[2]}}
    <2>3. ValidBlock(b[2], y.includes) /\ y.includes \subseteq Block
      BY <2>1 DEF SentValid, SentTypes, Publication
    <2>4. IsQuorum(Q)
      BY <2>3 DEF ValidBlock
    <2>5. \A z \in y.includes : z[1] \in Authority /\ z[2] \in Nat
      BY <2>3, BlockTypes
    <2>6. Q \in SUBSET Authority
      BY <2>5
    <2>7. \A a \in Q : \E d \in Includes(w, b) : d[1] = a /\ d[2] = b[2] - 1
      <3> TAKE a \in Q
      <3>1. PICK d \in y.includes : d[2] + 1 = b[2] /\ a = d[1]
        OBVIOUS
      <3>2. d[2] = b[2] - 1
        BY <1>1, <2>5, <3>1
      <3> QED  BY <2>2, <3>1, <3>2
    <2> HIDE DEF Q
    <2> QED  BY <2>4, <2>6, <2>7
  <1>3. CASE b[1] # Self
    <2> DEFINE Q == includesOf[b[1]]
    <2>1. Q \in SUBSET Authority /\ IsQuorum(Q)
      BY <1>1, CoreAssumption
    <2>2. Includes(w, b) = {<<a, b[2] - 1, 0>> : a \in Q \ {Self}} \cup
                           {x \in PublishedAt(b[2] - 1) :
                               /\ Self \in Q
                               /\ \A y \in PublishedAt(b[2] - 1) : x[3] <= y[3]}
      BY <1>1, <1>3 DEF Includes
    <2>3. ASSUME NEW a \in Q
          PROVE  \E d \in Includes(w, b) : d[1] = a /\ d[2] = b[2] - 1
      <3>1. CASE a # Self
        <4> DEFINE d == <<a, b[2] - 1, 0>>
        <4>1. d \in Includes(w, b)
          BY <2>2, <3>1
        <4>2. d[1] = a /\ d[2] = b[2] - 1
          OBVIOUS
        <4> HIDE DEF d
        <4> QED  BY <4>1, <4>2
      <3>2. CASE a = Self
        <4>1. PICK x \in PublishedAt(b[2] - 1) : \A y \in PublishedAt(b[2] - 1) : x[3] <= y[3]
          BY <1>3, <2>3, <3>2, LeastPublished
        <4>2. x \in Includes(w, b)
          BY <2>2, <2>3, <3>2, <4>1
        <4>3. x[1] = Self /\ x[2] = b[2] - 1
          BY <4>1 DEF PublishedAt, SentValid
        <4> QED  BY <3>2, <4>2, <4>3
      <3> QED  BY <3>1, <3>2
    <2> HIDE DEF Q
    <2> QED  BY <2>1, <2>3
  <1> QED  BY <1>2, <1>3

(* Blocks with a quorum of the round before them in the log and the call. *)
Supported(w, s) ==
    \A k \in 1..Len(s) : s[k][2] > 0 =>
        IsQuorum(AuthorsAt(AddedLog(w, s), Len(w) + k - 1, s[k][2] - 1))

LEMMA ArrivedSupported ==
    ASSUME v.wal \in Seq(Entry), SentTypes, SentValid, NEW s, Arrived(s)
    PROVE  Supported(v.wal, s)
  <1> DEFINE w == v.wal
             e == AddedLog(w, s)
             n == Len(w)
             m == Len(s)
  <1>1. w \in Seq(Entry) /\ s \in Seq(Block)
    BY DEF Arrived
  <1>2. /\ n \in Nat /\ m \in Nat /\ Extends(w, e) /\ e \in Seq(Entry)
        /\ \A k \in 1..m : n + k \in Blocks(e) /\ e[n + k].block = s[k]
    <2>1. Adds(w, s, e)
      BY <1>1, AddedIs
    <2> HIDE DEF e, w
    <2> QED  BY <2>1 DEF Adds, Grows
  <1>3. /\ \A p \in Own(w) : p \in Own(e) /\ e[p] = w[p] /\ p \in 1..n
        /\ \A p \in Blocks(w) : p \in Blocks(e) /\ e[p] = w[p] /\ p \in 1..n
    BY <1>1, <1>2, ExtendsFacts, EntryFacts
  <1> HIDE DEF e, n, m
  <1> SUFFICES ASSUME NEW k \in 1..m, s[k][2] > 0
               PROVE  IsQuorum(AuthorsAt(e, n + k - 1, s[k][2] - 1))
    BY DEF Supported, e, n, m
  <1> DEFINE b == s[k]
             i == n + k - 1
             r == b[2] - 1
  <1>4. /\ b \in Sendable /\ b[2] > 0
        /\ Includes(w, b) \subseteq Store(w) \cup {s[j] : j \in 1..(k - 1)}
        /\ b[1] # Self /\ Self \in includesOf[b[1]] => PublishedAt(b[2] - 1) # {}
    BY DEF Arrived, m
  <1>5. i \in Nat /\ n <= i /\ i <= i
    BY <1>2
  <1> HIDE DEF b, i
  <1>6. ASSUME NEW d \in Includes(w, b)
        PROVE  \E p \in Own(e) \cup Blocks(e) : p <= i /\ e[p].block = d
    <2>1. CASE d \in Store(w)
      <3>1. PICK p \in Positions(w, {"block", "own"}) : d = w[p].block
        BY <2>1 DEF Store
      <3>2. p \in Own(w) \/ p \in Blocks(w)
        BY <3>1 DEF Positions, Own, Blocks
      <3>3. p \in Own(e) \cup Blocks(e) /\ e[p] = w[p] /\ p \in 1..n
        BY <1>3, <3>2
      <3>4. p <= i
        BY <1>2, <1>5, <3>3
      <3> QED  BY <3>1, <3>3, <3>4
    <2>2. CASE d \notin Store(w)
      <3>1. PICK j \in 1..(k - 1) : d = s[j]
        BY <1>4, <2>2
      <3>2. j \in 1..m /\ n + j <= i
        BY <1>2, <3>1 DEF i
      <3> QED  BY <1>2, <3>1, <3>2
    <2> QED  BY <2>1, <2>2
  <1>7. PICK Q \in SUBSET Authority :
              /\ IsQuorum(Q)
              /\ \A a \in Q : \E d \in Includes(w, b) : d[1] = a /\ d[2] = r
    BY <1>4, ArrivedIncludes
  <1> HIDE DEF r
  <1>8. Q \subseteq AuthorsAt(e, i, r)
    <2> SUFFICES ASSUME NEW a \in Q  PROVE  a \in AuthorsAt(e, i, r)
      OBVIOUS
    <2>1. PICK d \in Includes(w, b) : d[1] = a /\ d[2] = r
      BY <1>7
    <2>2. PICK p \in Own(e) \cup Blocks(e) : p <= i /\ e[p].block = d
      BY <1>6
    <2> QED  BY <1>2, <1>5, <2>1, <2>2, AuthorsFacts
  <1>9. AuthorsAt(e, i, r) \subseteq Authority
    BY <1>2, <1>5, AuthorsFacts
  <1>10. IsQuorum(AuthorsAt(e, i, r))
    BY <1>7, <1>8, <1>9, QuorumMonotone
  <1> QED  BY <1>10 DEF b, i, r

LEMMA CoreAddBlocksGood ==
    ASSUME NEW x, Good(x), NEW s \in Seq(Block), Supported(x.wal, s)
    PROVE  Good(CoreAddBlocks(x, s)) /\ Extends(x.wal, CoreAddBlocks(x, s).wal)
  <1> DEFINE w == x.wal
             e == AddedLog(w, s)
             n == Len(w)
             m == Len(s)
             y == CoreAddBlocks(x, s)
             ps == Added(w, s)
  <1>1. /\ Runs(x) /\ ValidLog(w) /\ ClockBacked(w, x.clock) /\ LogInv(w)
        /\ w \in Seq(Entry) /\ x.clock \in Clock /\ Own(w) # {}
        /\ x.pending \in Seq(Nat) /\ PendingInv(w, x.pending)
    BY DEF Good, Runs, LogInv, Validator, UpInv
  <1>2. /\ Runs(y) /\ y.wal = e /\ Grows(w, e) /\ Countable(e, ps)
        /\ y.clock = Counted(e, x.clock, ps)
    BY <1>1, CoreAddBlocksKeeps
  <1>3. /\ n \in Nat /\ m \in Nat /\ Len(e) = n + m + 1 /\ e \in Seq(Entry)
        /\ \A k \in 1..m : n + k \in Blocks(e) /\ e[n + k].block = s[k]
        /\ e[n + m + 1].tag = "payload"
    <2>1. Adds(w, s, e)
      BY <1>1, AddedIs
    <2> HIDE DEF e, w
    <2> QED  BY <2>1 DEF Adds
  <1>4. Len(ps) = m /\ \A k \in 1..m : ps[k] \in Blocks(e)
    BY <1>1, AddedFacts
  <1> HIDE DEF e, n, m, y, ps
  <1>5. ASSUME NEW p \in Blocks(e), p > n, e[p].block[2] > 0
        PROVE  IsQuorum(AuthorsAt(e, p - 1, e[p].block[2] - 1))
    <2>1. p \in 1..(n + m + 1) /\ p # n + m + 1
      BY <1>3, <1>5, EntryFacts
    <2> DEFINE k == p - n
    <2>2. k \in 1..m /\ p = n + k /\ n + k - 1 = p - 1
      BY <1>3, <1>5, <2>1
    <2> HIDE DEF k
    <2>3. e[p].block = s[k]
      BY <1>3, <2>2
    <2>4. IsQuorum(AuthorsAt(e, n + k - 1, s[k][2] - 1))
      BY <1>5, <2>2, <2>3 DEF Supported, e, n, m
    <2> QED  BY <2>2, <2>3, <2>4
  <1>6. ValidLog(e)
    BY <1>1, <1>2, <1>5, ValidGrows DEF n
  <1>7. ClockBacked(e, x.clock)
    BY <1>1, <1>2, ClockBackedGrows DEF Grows
  <1>8. Lying(e, ps)
    BY <1>4 DEF Lying
  <1>9. ClockBacked(e, Counted(e, x.clock, ps))
    BY <1>1, <1>2, <1>3, <1>6, <1>7, <1>8, CountedBacked DEF ValidLog
  <1>10. FirstMade(e)
    BY <1>2, ExtendsFacts DEF Good, FirstMade, Grows
  <1> QED  BY <1>2, <1>6, <1>9, <1>10 DEF Good, Grows, y

LEMMA TryNewBlockGood ==
    ASSUME NEW x, Good(x), SentTypes, SentValid, NEW connected
    PROVE  Good(TryNewBlock(x, connected))
  <1>1. CASE (x.force \/ Ready(x, connected)) /\ MayPropose(x)
    <2>1. MayTake(x)
      BY UpMayTake DEF Good, Runs
    <2> QED  BY <1>1, <2>1, GoodTakesAll, TryNewBlockValid DEF Good
  <1>2. CASE ~ ((x.force \/ Ready(x, connected)) /\ MayPropose(x))
    BY <1>2 DEF TryNewBlock
  <1> QED  BY <1>1, <1>2

LEMMA GoodIgnores ==
    ASSUME NEW x, Good(x), NEW f \in BOOLEAN, NEW g \in Nat
    PROVE  /\ Good([x EXCEPT !.force = f])
           /\ Good([x EXCEPT !.signal = g])
  BY RunsIgnores DEF Good, Runs

LEMMA ForceNewBlockGood ==
    ASSUME NEW x, Good(x), SentTypes, SentValid, NEW r
    PROVE  Good(ForceNewBlock(x, r))
  <1> DEFINE z == [x EXCEPT !.force = TRUE]
  <1>1. Good(z)
    <2> DEFINE f == TRUE
    <2>1. f \in BOOLEAN /\ 0 \in Nat
      OBVIOUS
    <2> HIDE DEF f
    <2>2. Good([x EXCEPT !.force = f])
      BY <2>1, GoodIgnores
    <2> QED  BY <2>2 DEF f
  <1> HIDE DEF z
  <1>2. Good(TryNewBlock(z, TRUE))
    <2>1. \A connected : Good(TryNewBlock(z, connected))
      BY <1>1, TryNewBlockGood
    <2> QED  BY <2>1
  <1> QED  BY <1>2 DEF ForceNewBlock, z

LEMMA AddBlocksGood ==
    ASSUME NEW x, Good(x), SentTypes, SentValid, NEW s \in Seq(Block), Supported(x.wal, s),
           NEW connected
    PROVE  Good(AddBlocks(x, s, connected))
  <1> DEFINE y == CoreAddBlocks(x, s)
             g == IF y.clock.round > x.clock.round THEN y.clock.round ELSE y.signal
             z == [y EXCEPT !.signal = g]
  <1>1. Good(y)
    BY CoreAddBlocksGood
  <1>2. AddBlocks(x, s, connected) = TryNewBlock(z, connected)
    BY DEF AddBlocks
  <1> HIDE DEF y
  <1>3. g \in Nat
    BY <1>1 DEF Good, Runs, Validator, Clock
  <1> HIDE DEF g
  <1>4. Good(z)
    <2>1. TRUE \in BOOLEAN
      OBVIOUS
    <2> QED  BY <1>1, <1>3, <2>1, GoodIgnores
  <1> HIDE DEF z
  <1> QED  BY <1>2, <1>4, TryNewBlockGood

(* The log of the first start. *)
LEMMA GenesisValid ==
    /\ GenesisLog \in Seq(Entry) /\ ValidLog(GenesisLog)
    /\ ClockBacked(GenesisLog, [round |-> 1, voters |-> {}])
  <1> DEFINE w == GenesisLog
  <1>1. PICK n \in Nat, others \in Seq(Authority) :
          /\ Len(others) = n
          /\ \A a \in Authority \ {Self} : \E i \in 1..n : others[i] = a
          /\ w \in Seq(Entry) /\ Len(w) = n + 1
          /\ \A i \in 1..n : /\ w[i].tag = "block" /\ i \in Blocks(w)
                             /\ w[i].block = Genesis(others[i])
          /\ Own(w) = {n + 1}
          /\ w[n + 1] = OwnEntry(Genesis(Self), 0, {}, {})
    BY GenesisFacts
  <1> HIDE DEF w
  <1>2. \A a \in Authority : Genesis(a) \in Block /\ Genesis(a)[1] = a /\ Genesis(a)[2] = 0
    BY BlockTypes DEF Genesis
  <1>3. w[n + 1].tag = "own" /\ w[n + 1].block = Genesis(Self)
    BY <1>1, <1>2, BlockTypes, EntryTypes
  <1>4. \A i \in 1..n : others[i] \in Authority
    BY <1>1
  <1>5. \A p \in Blocks(w) : p \in 1..n
    <2> TAKE p \in Blocks(w)
    <2>1. p \in 1..(n + 1) /\ w[p].tag = "block"
      BY <1>1, EntryFacts
    <2> QED  BY <1>3, <2>1
  <1>6. Backed(w)
    BY <1>1, <1>2, <1>4, <1>5 DEF Backed
  <1>7. ValidOwn(w)
    <2>1. w[n + 1].block[2] = 0
      BY <1>2, <1>3, BlockTypes
    <2> QED  BY <1>1, <2>1 DEF ValidOwn, ValidBlock
  <1>8. Authority = AuthorsAt(w, Len(w), 0)
    <2>1. Len(w) \in Nat /\ Len(w) <= Len(w) /\ n + 1 <= Len(w) /\ \A i \in 1..n : i <= Len(w)
      BY <1>1
    <2>2. ASSUME NEW a \in Authority  PROVE  a \in AuthorsAt(w, Len(w), 0)
      <3>1. CASE a = Self
        BY <1>1, <1>2, <1>3, <2>1, <3>1, AuthorsFacts
      <3>2. CASE a # Self
        <4>1. PICK i \in 1..n : others[i] = a
          BY <1>1, <3>2
        <4>2. i \in Blocks(w) /\ w[i].block[1] = a /\ w[i].block[2] = 0 /\ i <= Len(w)
          BY <1>1, <1>2, <2>1, <4>1
        <4> QED  BY <1>1, <2>1, <4>2, AuthorsFacts
      <3> QED  BY <3>1, <3>2
    <2>3. AuthorsAt(w, Len(w), 0) \subseteq Authority
      BY <1>1, <2>1, AuthorsFacts
    <2> QED  BY <2>2, <2>3
  <1>9. ClockBacked(w, [round |-> 1, voters |-> {}])
    <2>1. 1 - 1 = 0
      OBVIOUS
    <2> QED  BY <1>8, <2>1, AllAreQuorum DEF ClockBacked
  <1> QED  BY <1>1, <1>6, <1>7, <1>9 DEF ValidLog, w

LEMMA StartGood ==
    ASSUME NEW w, LogInv(w), ValidLog(w), SentTypes, SentValid,
           Own(w) # {} => FirstMade(w)
    PROVE  Good(Start(w))
  <1>1. w \in Seq(Entry)
    BY DEF LogInv
  <1>2. CASE Own(w) = {}
    <2> DEFINE z == [OpenFirst(w) EXCEPT !.force = TRUE]
    <2>1. Start(w) = ForceNewBlock(OpenFirst(w), 1)
      BY <1>1, <1>2, OwnAtFacts DEF Start
    <2>2. /\ MayTake(z) /\ MayPropose(z) /\ z.force
          /\ z.wal = GenesisLog /\ z.clock = [round |-> 1, voters |-> {}]
          /\ \A p \in Blocks(z.wal) : p \in Range(z.pending)
          /\ ForceNewBlock(OpenFirst(w), 1) = TryNewBlock(z, TRUE)
      BY FirstOpens
    <2> HIDE DEF z
    <2>3. ValidLog(z.wal) /\ ClockBacked(z.wal, z.clock) /\ CanTakeAll(z)
      BY <2>2, GenesisValid DEF CanTakeAll
    <2>4. Good(TryNewBlock(z, TRUE))
      BY <2>2, <2>3, TryNewBlockValid
    <2> QED  BY <2>1, <2>2, <2>4
  <1>3. CASE Own(w) # {}
    <2> DEFINE x == Opened(w)
               ps == Ascending(RecoveredPending(w))
               c == ClockStart
    <2>1. Start(w) = ForceNewBlock(OpenAgain(w), 1)
      <3>1. OwnAt(w) \in Own(w) /\ \A p \in Own(w) : p \in 1..Len(w)
        BY <1>1, <1>3, OwnAtFacts, EntryFacts
      <3>2. OwnAt(w) # 0
        BY <3>1
      <3> QED  BY <3>2 DEF Start
    <2>2. /\ Runs(x) /\ x.wal = w /\ x.clock = Counted(w, c, ps)
          /\ OpenAgain(w) = x \/ OpenAgain(w) = CoreAddBlocks(x, << >>)
      BY <1>3, OpenedRuns
    <2>3. Countable(w, ps) /\ Range(ps) = RecoveredPending(w) /\ ps \in Seq(Nat)
      BY <1>3, RecoveredPendingInv
    <2>4. c \in Clock /\ ClockBacked(w, c)
      BY DEF Clock, ClockBacked, ClockStart
    <2> HIDE DEF x, c, ps
    <2>5. Lying(w, ps)
      <3> SUFFICES ASSUME NEW k \in 1..Len(ps)
                   PROVE  w[ps[k]].tag = "payload" \/ ps[k] \in Blocks(w)
        BY DEF Lying
      <3>1. ps[k] \in RecoveredPending(w)
        BY <2>3, RangeIs
      <3> QED  BY <3>1, RecoveredFacts DEF Positions, Blocks
    <2>6. ClockBacked(w, Counted(w, c, ps))
      BY <1>1, <2>3, <2>4, <2>5, CountedBacked DEF ValidLog
    <2>7. Good(x)
      BY <1>3, <2>2, <2>6 DEF Good
    <2>8. Good(OpenAgain(w))
      <3>1. << >> \in Seq(Block) /\ Supported(w, << >>)
        BY DEF Supported
      <3> DEFINE s == << >>
      <3> HIDE DEF s
      <3>2. Good(CoreAddBlocks(x, s))
        BY <2>2, <2>7, <3>1, CoreAddBlocksGood DEF s
      <3> QED  BY <2>2, <2>7, <3>2 DEF s
    <2> QED  BY <2>1, <2>8, ForceNewBlockGood
  <1> QED  BY <1>2, <1>3

------------------------------------------------------------------------------
(* ValidInv holds where the log keeps our first block *)

LEMMA ValidInit == Init => ValidInv
  <1> SUFFICES ASSUME Init  PROVE  ValidInv
    OBVIOUS
  <1>1. v.wal = << >> /\ ~ v.up
    <2>1. << >> \in Seq(Entry)
      OBVIOUS
    <2> QED  BY <2>1, FreshFacts DEF Init
  <1>2. Own(v.wal) = {} /\ Blocks(v.wal) = {}
    BY <1>1 DEF Own, Blocks, Positions
  <1>3. published = {}
    BY DEF Init
  <1> QED  BY <1>1, <1>2, <1>3 DEF ValidInv, ValidLog, Backed, ValidOwn, SentValid, FirstKept

LEMMA RunsValid ==
    ASSUME CoreInv, ValidInv
    PROVE  /\ v.up => Good(v)
           /\ Own(v.wal) # {} => FirstMade(v.wal)
           /\ SentTypes /\ SentValid /\ LogInv(v.wal) /\ ValidLog(v.wal)
  <1>1. SentTypes /\ LogInv(v.wal) /\ (v.up => Runs(v))
    BY CoreTypes
  <1>2. v.wal = << >> => Own(v.wal) = {}
    BY DEF Own, Positions
  <1>3. Own(v.wal) # {} => FirstMade(v.wal)
    BY <1>2 DEF ValidInv, FirstKept, FirstMade
  <1>4. v.up => Own(v.wal) # {}
    BY <1>1 DEF Runs, UpInv
  <1> QED  BY <1>1, <1>3, <1>4 DEF Good, ValidInv

LEMMA HandledGood ==
    ASSUME CoreInv, ValidInv, NEW x \in Handled
    PROVE  Good(x)
  <1>1. /\ v.up => Good(v)
        /\ Own(v.wal) # {} => FirstMade(v.wal)
        /\ SentTypes /\ SentValid /\ LogInv(v.wal) /\ ValidLog(v.wal) /\ v.wal \in Seq(Entry)
    BY RunsValid DEF LogInv
  <1>2. CASE ~ v.up
    BY <1>1, <1>2, StartGood DEF Handled
  <1>3. CASE v.up
    <2>1. CASE x = ForceNewBlock(v, timer.round)
      BY <1>1, <1>3, <2>1, ForceNewBlockGood
    <2>2. CASE x # ForceNewBlock(v, timer.round)
      <3>1. PICK s \in Batches, connected \in BOOLEAN : x = AddBlocks(v, s, connected)
        BY <1>3, <2>2 DEF Handled
      <3>2. Arrived(s) /\ s \in Seq(Block)
        BY <1>1, BatchesArrive DEF Arrived
      <3>3. Supported(v.wal, s)
        BY <1>1, <3>2, ArrivedSupported
      <3> QED  BY <1>1, <1>3, <3>1, <3>2, <3>3, AddBlocksGood
    <2> QED  BY <2>1, <2>2
  <1> QED  BY <1>2, <1>3

LEMMA FinishValid ==
    ASSUME CoreInv, ValidInv, KeepsFirst, NEW x \in Handled, Finish(x)
    PROVE  ValidInv'
  <1>1. Good(x) /\ x.wal \in Seq(Entry) /\ (v.up \/ Own(v.wal) # {} => Extends(v.wal, x.wal))
    BY HandledGood, HandledFacts
  <1>2. /\ v' = x /\ published' = published \cup Made(x.wal)
        /\ synced' = IF SyncsOwn(x.wal) THEN OwnAt(x.wal) ELSE synced
    BY DEF Finish
  <1>3. ASSUME NEW m \in published'
        PROVE  m.block[1] = Self /\ ValidBlock(m.block[2], m.includes)
    <2>1. CASE m \in published
      BY <2>1 DEF ValidInv, SentValid
    <2>2. CASE m \notin published
      <3>1. PICK p \in Own(x.wal) : m = [block |-> x.wal[p].block, includes |-> x.wal[p].includes]
        BY <1>2, <2>2 DEF Made, Own
      <3> QED  BY <1>1, <3>1 DEF Good, ValidLog, ValidOwn, Runs, LogInv, OwnRounds
    <2> QED  BY <2>1, <2>2
  <1>4. \E p \in Own(x.wal) : x.wal[p].block[2] >= 1 /\ (MachineCrash => p <= synced')
    <2>1. /\ v.wal \in Seq(Entry) /\ synced \in Nat
          /\ \A p \in Own(x.wal) : p <= OwnAt(x.wal) /\ p \in 1..Len(x.wal) /\ p \in Nat
          /\ Len(x.wal) \in Nat /\ OwnAt(x.wal) \in Nat
      BY <1>1, OwnAtFacts, EntryFacts, CoreTypes DEF CoreInv
    <2>2. CASE Own(v.wal) = {}
      <3>1. PICK p \in Own(x.wal) : x.wal[p].block[2] >= 1
        BY <1>1 DEF Good, FirstMade
      <3>2. v.wal = << >> /\ Len(v.wal) = 0
        BY <2>2 DEF ValidInv, FirstKept
      <3>3. OwnAt(x.wal) \in Own(x.wal) /\ OwnAt(x.wal) >= p
        BY <2>1, <1>1, <3>1, OwnAtFacts
      <3>4. LastProposed(x.wal) > 0
        <4>1. OwnRounds(x.wal)
          BY <1>1 DEF Good, Runs, LogInv
        <4> DEFINE m == OwnAt(x.wal)
        <4>2. m \in Own(x.wal) /\ m >= p /\ m \in Nat /\ p \in Nat
          BY <2>1, <3>3
        <4> HIDE DEF m
        <4>3. x.wal[m].block[2] \in Nat /\ x.wal[p].block[2] \in Nat
          BY <1>1, <4>2, EntryFacts
        <4>4. CASE m = p
          BY <3>1, <4>3, <4>4 DEF m, LastProposed, LastOwn
        <4>5. CASE m > p
          <5>1. x.wal[p].block[2] < x.wal[m].block[2]
            BY <4>1, <4>2, <4>5 DEF OwnRounds
          <5> QED  BY <3>1, <4>3, <5>1 DEF m, LastProposed, LastOwn
        <4> QED  BY <4>2, <4>4, <4>5
      <3>5. OwnAt(x.wal) > Len(v.wal)
        BY <2>1, <3>2, <3>3
      <3>6. MachineCrash => synced' = OwnAt(x.wal)
        BY <1>2, <3>4, <3>5 DEF KeepsFirst, SyncsOwn
      <3> QED  BY <2>1, <3>1, <3>6
    <2>3. CASE Own(v.wal) # {}
      <3>1. v.wal # << >>
        BY <2>3 DEF Own, Positions
      <3>2. PICK p \in Own(v.wal) : v.wal[p].block[2] >= 1 /\ (MachineCrash => p <= synced)
        BY <3>1 DEF ValidInv, FirstKept
      <3>3. p \in Own(x.wal) /\ x.wal[p] = v.wal[p]
        BY <1>1, <2>3, ExtendsFacts
      <3>4. MachineCrash => p <= synced'
        <4>1. p \in 1..Len(v.wal) /\ Len(v.wal) \in Nat
          BY <2>1, <3>2, EntryFacts
        <4>2. synced' = synced \/ synced' > Len(v.wal)
          BY <1>2 DEF SyncsOwn
        <4>3. synced' \in Nat
          BY <1>2, <2>1
        <4> QED  BY <2>1, <3>2, <4>1, <4>2, <4>3
      <3> QED  BY <3>2, <3>3, <3>4
    <2> QED  BY <2>2, <2>3
  <1>5. SentValid'
    BY <1>3 DEF SentValid
  <1>6. FirstKept'
    BY <1>2, <1>4 DEF FirstKept
  <1> QED  BY <1>1, <1>2, <1>5, <1>6 DEF Good, ValidInv

(* A stop leaves a part of a valid log, with our first block. *)
LEMMA StopValid ==
    ASSUME CoreInv, ValidInv, KeepsFirst, NEW x, NEW k, NEW n, Stopped(x, k, n)
    PROVE  ValidInv'
  <1> DEFINE w == SubSeq(x.wal, 1, n)
             u == SubSeq(x.wal, 1, k)
  <1>1. /\ w \in Seq(Entry) /\ Extends(w, x.wal) /\ Len(w) = n /\ n \in Nat
        /\ u \in Seq(Entry) /\ Extends(u, x.wal)
        /\ v'.wal = w /\ ~ v'.up /\ x.wal \in Seq(Entry)
        /\ v.up \/ Own(v.wal) # {} => Extends(v.wal, x.wal)
    BY StoppedFacts
  <1>2. /\ x \in Handled /\ v.wal # << >> /\ (MachineCrash \/ n = k)
        /\ k \in Len(v.wal)..Len(x.wal)
        /\ published' = published \/ published' = published \cup Made(u)
        /\ \A p \in 1..Len(v.wal) : p <= synced => p <= synced' /\ p <= n
    BY DEF Stopped, KeepsFirst
  <1> HIDE DEF w, u
  <1>3. LogInv(x.wal) /\ ValidLog(x.wal)
    BY <1>2, HandledGood DEF Good, Runs
  <1>4. ValidLog(w) /\ ValidLog(u) /\ LogInv(u)
    BY <1>1, <1>3, ValidBeginning, LogBeginning
  <1>5. \E p \in Own(w) : w[p].block[2] >= 1 /\ (MachineCrash => p <= synced')
    <2>1. PICK p \in Own(v.wal) : v.wal[p].block[2] >= 1 /\ (MachineCrash => p <= synced)
      BY <1>2 DEF ValidInv, FirstKept
    <2>2. p \in Own(x.wal) /\ x.wal[p] = v.wal[p]
      BY <1>1, <2>1, ExtendsFacts
    <2>3. p \in 1..Len(v.wal) /\ Len(v.wal) \in Nat /\ p \in Nat
      BY CoreTypes, EntryFacts
    <2>4. p <= n
      BY <1>1, <1>2, <2>1, <2>3
    <2>5. p \in Own(w) /\ w[p] = x.wal[p]
      BY <1>1, <2>2, <2>4, ExtendsFacts
    <2>6. MachineCrash => p <= synced'
      BY <1>2, <2>1, <2>3
    <2> QED  BY <2>1, <2>2, <2>5, <2>6
  <1>6. FirstKept'
    BY <1>1, <1>5 DEF FirstKept
  <1>7. SentValid'
    <2>1. SUFFICES ASSUME NEW m \in published'
                   PROVE  m.block[1] = Self /\ ValidBlock(m.block[2], m.includes)
      BY DEF SentValid
    <2>2. CASE m \in published
      BY <2>2 DEF ValidInv, SentValid
    <2>3. CASE m \notin published
      <3>1. PICK p \in Own(u) : m = [block |-> u[p].block, includes |-> u[p].includes]
        BY <1>2, <2>1, <2>3 DEF Made, Own
      <3> QED  BY <1>4, <3>1 DEF ValidLog, ValidOwn, LogInv, OwnRounds
    <2> QED  BY <2>2, <2>3
  <1> QED  BY <1>1, <1>4, <1>6, <1>7 DEF ValidInv

LEMMA ValidNext ==
    ASSUME CoreInv, ValidInv, KeepsFirst, [Next]_vars
    PROVE  ValidInv'
  <1>1. /\ v.up => Good(v)
        /\ SentTypes /\ SentValid /\ LogInv(v.wal) /\ ValidLog(v.wal)
        /\ v.wal \in Seq(Entry) /\ Len(v.wal) \in Nat /\ synced \in Nat
    BY RunsValid, CoreTypes DEF CoreInv
  <1>2. \A p \in Own(v.wal) : p \in 1..Len(v.wal)
    BY <1>1, EntryFacts
  <1>3. CASE Open
    BY <1>3, FinishValid DEF Open, Handled
  <1>4. CASE ReceiveBlocks
    <2>1. PICK s \in Batches, connected \in BOOLEAN :
             v.up /\ Finish(AddBlocks(v, s, connected))
      BY <1>4 DEF ReceiveBlocks, Running
    <2>2. AddBlocks(v, s, connected) \in Handled
      BY <2>1 DEF Handled
    <2> QED  BY <2>1, <2>2, FinishValid
  <1>5. CASE LeaderTimeout
    <2>1. ForceNewBlock(v, timer.round) \in Handled
      BY <1>5 DEF LeaderTimeout, Running, Handled
    <2> QED  BY <1>5, <2>1, FinishValid DEF LeaderTimeout
  <1>6. CASE RoundAdvanced
    <2>1. v'.wal = v.wal /\ v'.clock = v.clock /\ v'.up = v.up
      <3>1. v' = [v EXCEPT !.signal = 0] /\ v \in Validator
        BY <1>6, CoreTypes DEF RoundAdvanced
      <3> QED  BY <3>1 DEF Validator
    <2>2. FirstKept'
      BY <1>6, <2>1 DEF RoundAdvanced, ValidInv, FirstKept
    <2>3. SentValid'
      BY <1>6 DEF RoundAdvanced, ValidInv, SentValid
    <2> QED  BY <2>1, <2>2, <2>3 DEF ValidInv
  <1>7. CASE SyncLog
    <2>1. v' = v /\ published' = published /\ synced' = Len(v.wal)
      BY <1>7 DEF SyncLog
    <2>2. FirstKept'
      BY <1>1, <1>2, <2>1 DEF ValidInv, FirstKept
    <2>3. SentValid'
      BY <2>1 DEF ValidInv, SentValid
    <2> QED  BY <2>1, <2>2, <2>3 DEF ValidInv
  <1>8. CASE Crash \/ LoseWrites
    BY <1>8, StopFound, StopValid DEF StopIs
  <1>10. CASE UNCHANGED vars
    BY <1>10 DEF vars, ValidInv, SentValid, FirstKept
  <1> QED  BY <1>3, <1>4, <1>5, <1>6, <1>7, <1>8, <1>10 DEF Next

(* What our blocks need lies in the log, as long as the process does not   *)
(* stop in its first start and the machine keeps what was synced.          *)
THEOREM ValidHolds == ASSUME KeepsFirst PROVE Spec => [](CoreInv /\ ValidInv)
  <1>1. Init => CoreInv /\ ValidInv
    BY CoreInit, ValidInit
  <1>2. CoreInv /\ ValidInv /\ [Next]_vars => (CoreInv /\ ValidInv)'
    BY CoreNext, ValidNext
  <1> QED  BY <1>1, <1>2, PTL DEF Spec

(* threshold_clock_valid_non_genesis: our blocks include a quorum of the   *)
(* previous round, nothing of their own round, and our previous block.     *)
THEOREM OwnBlocksValid == ASSUME KeepsFirst PROVE Spec => []OwnValid
  <1>1. CoreInv /\ ValidInv => OwnValid
    <2> SUFFICES ASSUME CoreInv, ValidInv, NEW p \in Own(v.wal), v.wal[p].block[2] > 0
                 PROVE  /\ \A b \in v.wal[p].includes : b[2] < v.wal[p].block[2]
                        /\ IsQuorum({b[1] : b \in {x \in v.wal[p].includes :
                                                      x[2] + 1 = v.wal[p].block[2]}})
                        /\ v.wal[Max({q \in Own(v.wal) : q < p})].block \in v.wal[p].includes
      BY DEF OwnValid, Own
    <2>1. ValidOwn(v.wal)
      BY DEF ValidInv, ValidLog
    <2> QED  BY <2>1 DEF ValidOwn, ValidBlock
  <1> QED  BY <1>1, ValidHolds, PTL

------------------------------------------------------------------------------
(* The assertion of add_own_index does not fail while no block that was    *)
(* sent was lost                                                           *)

LEMMA NewBlockOnce ==
    ASSUME NEW x, MayTake(x), SentTypes, MayPropose(x), Clean(x)
    PROVE  Clean(CoreTryNewBlock(x))
  <1> DEFINE w == x.wal
             e == Append(w, NewEntry(x))
             y == CoreTryNewBlock(x)
             b == MadeBlock(x)
  <1>1. /\ x \in Validator /\ LogInv(w) /\ w \in Seq(Entry) /\ OwnRounds(w) /\ Own(w) # {}
        /\ x.clock.round \in Nat
    BY DEF MayTake, LogInv, Validator, Clock
  <1>2. /\ Blocks(e) = Blocks(w) /\ \A p \in 1..Len(w) : e[p] = w[p]
    BY NewLog
  <1>3. y.wal = e
    BY CoreTryNewBlockKeeps
  <1>4. OthersBlocks(e)
    <2>1. \A p \in Blocks(w) : e[p] = w[p]
      BY <1>1, <1>2, EntryFacts
    <2> QED  BY <1>2, <2>1 DEF Clean, OthersBlocks
  <1>5. y.failed = x.failed \cup Repeats(Store(w), b)
    BY <1>1, CoreTryNewBlockIs DEF Validator
  <1>6. b[2] = x.clock.round
    BY NewEntryTypes
  <1> HIDE DEF b, y, e
  <1>7. ASSUME NEW d \in Store(w), d[1] = Self  PROVE  d[2] # b[2]
    <2>1. PICK p \in Own(w) \cup Blocks(w) : d = w[p].block
      BY DEF Store, Positions, Own, Blocks
    <2>2. p \in Own(w)
      BY <1>7, <2>1 DEF Clean, OthersBlocks
    <2>3. w[p].block[2] <= LastProposed(w) /\ LastProposed(w) \in Nat /\ w[p].block[2] \in Nat
      BY <1>1, <2>2, LastProposedFacts, EntryFacts
    <2>4. x.clock.round > LastProposed(w)
      BY DEF MayPropose
    <2> QED  BY <1>1, <1>6, <2>1, <2>3, <2>4
  <1>8. Repeats(Store(w), b) = {}
    BY <1>7 DEF Repeats
  <1> QED  BY <1>3, <1>4, <1>5, <1>8 DEF Clean, y

LEMMA TryNewBlockMakesOnce ==
    ASSUME NEW x, MayTake(x), SentTypes, Clean(x), NEW connected,
           x.force \/ Ready(x, connected), MayPropose(x)
    PROVE  Clean(TryNewBlock(x, connected))
  <1> DEFINE m == CoreTryNewBlock(x)
             y == TryNewBlock(x, connected)
             f == Append(m.wal, StateEntry)
  <1>1. /\ m \in Validator /\ Clean(m) /\ m.wal \in Seq(Entry)
    BY CoreTryNewBlockKeeps, NewBlockOnce DEF Validator
  <1>2. y = [m EXCEPT !.force = FALSE, !.wal = Append(@, StateEntry)]
    BY DEF TryNewBlock
  <1> HIDE DEF m, y
  <1>3. y.wal = f /\ y.failed = m.failed
    BY <1>1, <1>2 DEF Validator
  <1>4. f \in Seq(Entry) /\ Len(f) = Len(m.wal) + 1 /\ f[Len(m.wal) + 1].tag = "state"
        /\ (\A p \in 1..Len(m.wal) : f[p] = m.wal[p]) /\ Len(m.wal) \in Nat
    BY <1>1, EntryTypes
  <1> HIDE DEF f
  <1>5. ASSUME NEW p \in Blocks(f)  PROVE  f[p].block[1] # Self
    <2>1. p \in 1..Len(f) /\ f[p].tag = "block"
      BY <1>4, EntryFacts
    <2>2. p # Len(m.wal) + 1
      BY <1>4, <2>1
    <2>3. p \in 1..Len(m.wal) /\ f[p] = m.wal[p]
      BY <1>4, <2>1, <2>2
    <2>4. p \in Blocks(m.wal)
      BY <1>1, <2>1, <2>3 DEF Blocks, Positions
    <2> QED  BY <1>1, <2>3, <2>4 DEF Clean, OthersBlocks
  <1> QED  BY <1>1, <1>3, <1>5 DEF Clean, OthersBlocks, y

LEMMA TryNewBlockOnce ==
    ASSUME NEW x, Runs(x), SentTypes, Clean(x), NEW connected
    PROVE  Clean(TryNewBlock(x, connected))
  <1>1. CASE (x.force \/ Ready(x, connected)) /\ MayPropose(x)
    <2>1. MayTake(x)
      BY UpMayTake DEF Runs
    <2> QED  BY <1>1, <2>1, TryNewBlockMakesOnce
  <1>2. CASE ~ ((x.force \/ Ready(x, connected)) /\ MayPropose(x))
    BY <1>2 DEF TryNewBlock
  <1> QED  BY <1>1, <1>2

LEMMA CleanIgnores ==
    ASSUME NEW x, x \in Validator, Clean(x), NEW f, NEW g
    PROVE  Clean([x EXCEPT !.force = f]) /\ Clean([x EXCEPT !.signal = g])
  <1>1. /\ [x EXCEPT !.force = f].wal = x.wal /\ [x EXCEPT !.force = f].failed = x.failed
        /\ [x EXCEPT !.signal = g].wal = x.wal /\ [x EXCEPT !.signal = g].failed = x.failed
    BY DEF Validator
  <1> QED  BY <1>1 DEF Clean

LEMMA ForceNewBlockOnce ==
    ASSUME NEW x, Runs(x), SentTypes, Clean(x), NEW r
    PROVE  Clean(ForceNewBlock(x, r))
  <1> DEFINE z == [x EXCEPT !.force = TRUE]
  <1>1. Runs(z)
    BY RunsIgnores
  <1>2. Clean(z)
    BY CleanIgnores DEF Runs
  <1> HIDE DEF z
  <1>3. \A connected : Clean(TryNewBlock(z, connected))
    BY <1>1, <1>2, TryNewBlockOnce
  <1>4. Clean(TryNewBlock(z, TRUE))
    BY <1>3
  <1> QED  BY <1>4 DEF ForceNewBlock, z

LEMMA CoreAddBlocksOnce ==
    ASSUME NEW x, Runs(x), Clean(x), NEW s \in Seq(Block), \A k \in 1..Len(s) : s[k][1] # Self
    PROVE  Clean(CoreAddBlocks(x, s))
  <1> DEFINE w == x.wal
             e == AddedLog(w, s)
             y == CoreAddBlocks(x, s)
             n == Len(w)
             m == Len(s)
             more == UNION {Repeats(Store(w) \cup {s[i] : i \in 1..(k - 1)}, s[k]) :
                               k \in DOMAIN s}
  <1>1. x \in Validator /\ w \in Seq(Entry) /\ DOMAIN s = 1..m
    BY DEF Runs, Validator
  <1>2. y.wal = e
    BY CoreAddBlocksKeeps
  <1>3. y.failed = x.failed \cup more
    BY <1>1 DEF CoreAddBlocks, Validator
  <1>4. more = {}
    BY <1>1 DEF Repeats
  <1>w. w \in Seq(Entry)
    BY <1>1
  <1> HIDE DEF w, y, more
  <1>5. /\ n \in Nat /\ m \in Nat /\ Len(e) = n + m + 1 /\ e \in Seq(Entry)
        /\ \A p \in 1..n : e[p] = w[p]
        /\ e[n + m + 1].tag = "payload"
        /\ \A k \in 1..m : e[n + k].block = s[k]
    <2>1. Adds(w, s, e)
      BY <1>w, AddedIs
    <2> HIDE DEF e
    <2> QED  BY <2>1 DEF Adds
  <1>6. \A k \in 1..m : e[n + k].block = s[k]
    BY <1>5
  <1> USE DEF w
  <1> HIDE DEF e, n, m
  <1>7. ASSUME NEW p \in Blocks(e)  PROVE  e[p].block[1] # Self
    <2>1. p \in 1..(n + m + 1) /\ e[p].tag = "block"
      BY <1>5, EntryFacts
    <2>2. CASE p <= n
      <3>1. p \in 1..n /\ e[p] = w[p]
        BY <1>5, <2>1, <2>2
      <3>2. p \in Blocks(w)
        BY <1>1, <2>1, <3>1 DEF Blocks, Positions, n
      <3> QED  BY <3>1, <3>2 DEF Clean, OthersBlocks
    <2>3. CASE ~ (p <= n)
      <3> DEFINE k == p - n
      <3>1. k \in 1..m /\ p = n + k
        BY <1>5, <2>1, <2>3
      <3> HIDE DEF k
      <3> QED  BY <1>6, <3>1 DEF m
    <2> QED  BY <2>2, <2>3
  <1> QED  BY <1>2, <1>3, <1>4, <1>7 DEF Clean, OthersBlocks, y

LEMMA StartOnce ==
    ASSUME NEW w, LogInv(w), OthersBlocks(w), SentTypes
    PROVE  Clean(Start(w))
  <1>1. w \in Seq(Entry)
    BY DEF LogInv
  <1>2. CASE Own(w) = {}
    <2> DEFINE z == [OpenFirst(w) EXCEPT !.force = TRUE]
    <2>1. Start(w) = ForceNewBlock(OpenFirst(w), 1)
      BY <1>1, <1>2, OwnAtFacts DEF Start
    <2>2. /\ MayTake(z) /\ MayPropose(z) /\ z.force /\ Clean(z)
          /\ ForceNewBlock(OpenFirst(w), 1) = TryNewBlock(z, TRUE)
      BY FirstOpens
    <2> HIDE DEF z
    <2>3. \A connected : Clean(TryNewBlock(z, connected))
      BY <2>2, TryNewBlockMakesOnce
    <2>4. Clean(TryNewBlock(z, TRUE))
      BY <2>3
    <2> QED  BY <2>1, <2>2, <2>4
  <1>3. CASE Own(w) # {}
    <2> DEFINE x == Opened(w)
               twice == \E p, q \in Positions(w, {"block", "own"}) :
                           /\ p # q /\ w[p].block[1] = Self
                           /\ w[q].block[1] = Self /\ w[p].block[2] = w[q].block[2]
    <2>1. Start(w) = ForceNewBlock(OpenAgain(w), 1)
      <3>1. OwnAt(w) \in Own(w) /\ \A p \in Own(w) : p \in 1..Len(w)
        BY <1>1, <1>3, OwnAtFacts, EntryFacts
      <3>2. OwnAt(w) # 0
        BY <3>1
      <3> QED  BY <3>2 DEF Start
    <2>2. /\ Runs(x) /\ x.wal = w
          /\ OpenAgain(w) = x \/ OpenAgain(w) = CoreAddBlocks(x, << >>)
      BY <1>3, OpenedRuns
    <2>3. ~ twice
      <3> SUFFICES ASSUME NEW p \in Positions(w, {"block", "own"}),
                          NEW q \in Positions(w, {"block", "own"}),
                          p # q, w[p].block[1] = Self, w[q].block[1] = Self,
                          w[p].block[2] = w[q].block[2]
                   PROVE  FALSE
        OBVIOUS
      <3>1. p \in Own(w) /\ q \in Own(w)
        BY DEF OthersBlocks, Own, Blocks, Positions
      <3>2. /\ p \in Nat /\ q \in Nat /\ w[p].block[2] \in Nat /\ w[q].block[2] \in Nat
        BY <1>1, <3>1, EntryFacts
      <3>3. ~ (p < q) /\ ~ (q < p)
        BY <3>1, <3>2 DEF LogInv, OwnRounds
      <3> QED  BY <3>2, <3>3
    <2>4. x.failed = {}
      <3> DEFINE t == Ascending(RecoveredPending(w))
                 c == Counted(w, ClockStart, t)
                 broken == IF twice THEN {"own"} ELSE {}
      <3>1. x = [Fresh(w) EXCEPT !.pending = t, !.clock = c, !.failed = broken]
        BY DEF Opened
      <3>2. broken = {}
        BY <2>3
      <3> HIDE DEF x, t, c, broken
      <3>3. Fresh(w) \in Validator
        BY <1>1, FreshFacts
      <3> QED  BY <3>1, <3>2, <3>3 DEF Validator
    <2>5. Clean(x)
      BY <2>2, <2>4 DEF Clean
    <2> DEFINE s == << >>
    <2>6. s \in Seq(Block) /\ \A k \in 1..Len(s) : s[k][1] # Self
      OBVIOUS
    <2> HIDE DEF x, s
    <2>7. Clean(CoreAddBlocks(x, s)) /\ Runs(CoreAddBlocks(x, s))
      <3>1. Clean(CoreAddBlocks(x, s))
        BY <2>2, <2>5, <2>6, CoreAddBlocksOnce
      <3>2. Runs(CoreAddBlocks(x, s))
        BY <2>2, <2>6, CoreAddBlocksKeeps
      <3> QED  BY <3>1, <3>2
    <2>8. Clean(OpenAgain(w)) /\ Runs(OpenAgain(w))
      BY <2>2, <2>5, <2>7 DEF s
    <2> QED  BY <2>1, <2>8, ForceNewBlockOnce
  <1> QED  BY <1>2, <1>3

LEMMA AddBlocksOnce ==
    ASSUME NEW x, Runs(x), Clean(x), SentTypes, NEW s \in Seq(Block),
           \A k \in 1..Len(s) : s[k][1] # Self, NEW connected
    PROVE  Clean(AddBlocks(x, s, connected))
  <1> DEFINE y == CoreAddBlocks(x, s)
             g == IF y.clock.round > x.clock.round THEN y.clock.round ELSE y.signal
             z == [y EXCEPT !.signal = g]
  <1>1. Runs(y) /\ Clean(y)
    BY CoreAddBlocksKeeps, CoreAddBlocksOnce
  <1>2. AddBlocks(x, s, connected) = TryNewBlock(z, connected)
    BY DEF AddBlocks
  <1> HIDE DEF y
  <1>3. g \in Nat
    BY <1>1 DEF Runs, Validator, Clock
  <1> HIDE DEF g
  <1>4. Runs(z)
    <2>1. TRUE \in BOOLEAN
      OBVIOUS
    <2> QED  BY <1>1, <1>3, <2>1, RunsIgnores
  <1>5. Clean(z)
    BY <1>1, CleanIgnores DEF Runs
  <1> HIDE DEF z
  <1> QED  BY <1>2, <1>4, <1>5, TryNewBlockOnce

(* No block of ours arrives: those that others have are stored. *)
LEMMA OthersArrive ==
    ASSUME SentInv, lost = {}, NEW s, Arrived(s), NEW k \in 1..Len(s)
    PROVE  s[k][1] # Self
  <1>1. s[k] \in Sendable /\ s[k] \notin Store(v.wal)
    BY DEF Arrived
  <1>2. \A x \in published : x.block \in Store(v.wal)
    <2> TAKE x \in published
    <2>1. PICK p \in Own(v.wal) : x = [block |-> v.wal[p].block, includes |-> v.wal[p].includes]
      BY DEF SentInv, Made, Own
    <2>2. p \in Positions(v.wal, {"block", "own"})
      BY <2>1 DEF Own, Positions
    <2> QED  BY <2>1, <2>2 DEF Store
  <1>3. \A x \in published : s[k] # x.block
    BY <1>1, <1>2
  <1>4. PICK a \in Authority \ {Self}, r \in 1..MaxRound : s[k] = <<a, r, 0>>
    BY <1>1, <1>3 DEF Sendable
  <1> QED  BY <1>4

LEMMA HandledOnce ==
    ASSUME CoreInv, SentInv, lost = {}, Clean(v), NEW x \in Handled
    PROVE  Clean(x)
  <1>1. SentTypes /\ LogInv(v.wal) /\ (v.up => Runs(v))
    BY CoreTypes
  <1>2. CASE ~ v.up
    BY <1>1, <1>2, StartOnce DEF Handled, Clean
  <1>3. CASE v.up
    <2>1. CASE x = ForceNewBlock(v, timer.round)
      BY <1>1, <1>3, <2>1, ForceNewBlockOnce
    <2>2. CASE x # ForceNewBlock(v, timer.round)
      <3>1. PICK s \in Batches, connected \in BOOLEAN : x = AddBlocks(v, s, connected)
        BY <1>3, <2>2 DEF Handled
      <3>2. Arrived(s) /\ s \in Seq(Block)
        BY <1>1, BatchesArrive DEF Arrived
      <3>3. \A k \in 1..Len(s) : s[k][1] # Self
        BY <3>2, OthersArrive
      <3> QED  BY <1>1, <1>3, <3>1, <3>2, <3>3, AddBlocksOnce
    <2> QED  BY <2>1, <2>2
  <1> QED  BY <1>2, <1>3

LEMMA OnceNext ==
    ASSUME CoreInv, SentInv, OnceInv, [Next]_vars
    PROVE  OnceInv'
  <1> SUFFICES ASSUME lost' = {}  PROVE  Clean(v')
    BY DEF OnceInv
  <1>0. lost = {} /\ Clean(v)
    <2>1. CASE Crash \/ LoseWrites
      BY <2>1, StopFound DEF StopIs, Stopped, OnceInv
    <2>2. CASE ~ (Crash \/ LoseWrites)
      BY <2>2 DEF Next, Open, ReceiveBlocks, LeaderTimeout, RoundAdvanced, SyncLog, vars,
                  OnceInv
    <2> QED  BY <2>1, <2>2
  <1>1. /\ v \in Validator /\ v.wal \in Seq(Entry) /\ Len(v.wal) \in Nat /\ synced \in Nat
    BY CoreTypes DEF CoreInv
  <1>2. ASSUME NEW x \in Handled, Finish(x)  PROVE  Clean(v')
    <2>1. Clean(x)
      BY <1>0, HandledOnce
    <2> QED  BY <1>2, <2>1 DEF Finish
  <1>3. CASE Open
    BY <1>2, <1>3 DEF Open, Handled
  <1>4. CASE ReceiveBlocks
    <2>1. PICK s \in Batches, connected \in BOOLEAN :
             v.up /\ Finish(AddBlocks(v, s, connected))
      BY <1>4 DEF ReceiveBlocks, Running
    <2>2. AddBlocks(v, s, connected) \in Handled
      BY <2>1 DEF Handled
    <2> QED  BY <1>2, <2>1, <2>2
  <1>5. CASE LeaderTimeout
    <2>1. ForceNewBlock(v, timer.round) \in Handled
      BY <1>5 DEF LeaderTimeout, Running, Handled
    <2> QED  BY <1>2, <1>5, <2>1 DEF LeaderTimeout
  <1>6. CASE RoundAdvanced
    <2>1. v' = [v EXCEPT !.signal = 0]
      BY <1>6 DEF RoundAdvanced
    <2> QED  BY <1>0, <1>1, <2>1, CleanIgnores
  <1>7. CASE SyncLog
    BY <1>0, <1>7 DEF SyncLog
  <1>8. CASE Crash \/ LoseWrites
    <2>1. PICK x, k, n : Stopped(x, k, n)
      BY <1>8, StopFound DEF StopIs
    <2> DEFINE w == SubSeq(x.wal, 1, n)
    <2>2. /\ w \in Seq(Entry) /\ Extends(w, x.wal) /\ x.wal \in Seq(Entry)
      BY <2>1, StoppedFacts
    <2>3. x \in Handled /\ v' = Down(w)
      BY <2>1 DEF Stopped
    <2> HIDE DEF w
    <2>4. OthersBlocks(x.wal)
      BY <1>0, <2>3, HandledOnce DEF Clean
    <2>5. OthersBlocks(w)
      BY <2>2, <2>4, ExtendsFacts DEF OthersBlocks
    <2> QED  BY <2>3, <2>5 DEF Clean, Down, Fresh
  <1>10. CASE UNCHANGED vars
    BY <1>0, <1>10 DEF vars
  <1> QED  BY <1>3, <1>4, <1>5, <1>6, <1>7, <1>8, <1>10 DEF Next

(* assert!(self.own_blocks.insert(..).is_none()) of add_own_index holds    *)
(* until the machine loses a block of ours that was sent.                  *)
THEOREM OwnBlocksOnce == Spec => []OwnBlockOnce
  <1>1. Init => OnceInv
    <2> SUFFICES ASSUME Init  PROVE  Clean(v)
      BY DEF OnceInv
    <2>1. v.wal = << >> /\ v.failed = {}
      BY DEF Init, Down, Fresh
    <2>2. Blocks(v.wal) = {}
      BY <2>1 DEF Blocks, Positions
    <2> QED  BY <2>1, <2>2 DEF Clean, OthersBlocks
  <1>2. CoreInv /\ SentInv /\ OnceInv /\ [Next]_vars => OnceInv'
    BY OnceNext
  <1>3. OnceInv => OwnBlockOnce
    BY DEF OnceInv, Clean, OwnBlockOnce
  <1> QED  BY <1>1, <1>2, <1>3, SentKept, PTL DEF Spec

------------------------------------------------------------------------------
(* The dag of MysticetiCommit *)

(* A part of the dag that holds what its blocks include. *)
Closed(d, V) ==
    /\ V \subseteq DOMAIN d
    /\ \A b \in V : Range(d[b]) \subseteq V

LEMMA DagFacts ==
    ASSUME NEW d \in Dags, NEW b \in DOMAIN d
    PROVE  /\ b \in Block /\ b[1] \in Authority /\ b[2] \in Nat /\ b[3] \in Nat
           /\ d[b] \in Seq(DOMAIN d) /\ Range(d[b]) \subseteq DOMAIN d
           /\ \A x \in Range(d[b]) : x[2] < b[2]
           /\ b[2] > 0 => IsQuorum({x[1] : x \in {y \in Range(d[b]) : y[2] + 1 = b[2]}})
  <1>1. /\ DOMAIN d \subseteq Authority \X Nat \X Nat
        /\ d[b] \in Seq(DOMAIN d)
        /\ \A x \in Range(d[b]) : x[2] < b[2]
        /\ b[2] > 0 => IsQuorum({x[1] : x \in {y \in Range(d[b]) : y[2] + 1 = b[2]}})
    BY DagAssumption
  <1>2. b \in Block /\ b[1] \in Authority /\ b[2] \in Nat /\ b[3] \in Nat
    BY <1>1 DEF Block
  <1>3. Range(d[b]) \subseteq DOMAIN d
    BY <1>1, RangeIs
  <1> QED  BY <1>1, <1>2, <1>3

LEMMA WholeIsClosed == ASSUME NEW d \in Dags  PROVE  Closed(d, DOMAIN d)
  BY DagFacts DEF Closed

(* Two sets of blocks of a round, each by a quorum, have a block in common: *)
(* one by an authority that makes one block a round.                       *)
LEMMA CommonBlock ==
    ASSUME NEW d \in Dags, NEW r,
           NEW X, X \subseteq AtRound(DOMAIN d, r), IsQuorum({b[1] : b \in X}),
           NEW Y, Y \subseteq AtRound(DOMAIN d, r), IsQuorum({b[1] : b \in Y})
    PROVE  \E b \in X : b \in Y
  <1> DEFINE S == {b[1] : b \in X}
             T == {b[1] : b \in Y}
  <1>1. \A b \in X \cup Y : b \in DOMAIN d /\ b[1] \in Authority /\ b[2] = r
    BY DagFacts DEF AtRound
  <1>2. S \subseteq Authority /\ T \subseteq Authority /\ IsQuorum(S) /\ IsQuorum(T)
    BY <1>1
  <1>3. Faulty \in SUBSET Authority /\ StakeOf(Faulty) < ValidityThreshold
    BY CommitAssumption
  <1>4. PICK a \in S \cap T : a \notin Faulty
    <2> HIDE DEF S, T
    <2> QED  BY <1>2, <1>3, QuorumIntersection
  <1>5. PICK b \in X, c \in Y : b[1] = a /\ c[1] = a
    BY <1>4
  <1>6. Slot(b) = Slot(c) /\ b[1] \notin Faulty /\ b \in DOMAIN d /\ c \in DOMAIN d
    BY <1>1, <1>4, <1>5 DEF Slot
  <1>7. b = c
    BY <1>6, DagAssumption
  <1> QED  BY <1>5, <1>7

LEMMA QuorumNotEmpty == ASSUME NEW S \in SUBSET Authority, IsQuorum(S)  PROVE  S # {}
  <1> SUFFICES ASSUME S = {}  PROVE  FALSE
    OBVIOUS
  <1>1. StakeOf(S) = 0
    BY FS_EmptySet DEF StakeOf, Units
  <1>2. TotalStake \in Nat
    BY StakeType DEF TotalStake
  <1> QED  BY <1>1, <1>2 DEF IsQuorum, QuorumThreshold

------------------------------------------------------------------------------
(* Votes, certificates and blames *)

(* A block votes for at most one block of a slot. *)
LEMMA OneSupport ==
    ASSUME NEW d \in Dags, NEW x \in DOMAIN d, NEW l, NEW m, Slot(l) = Slot(m),
           IsVote(d, l, x), IsVote(d, m, x)
    PROVE  l = m
  <1> DEFINE First(i) == \A k \in 1..(i - 1) : Slot(d[x][k]) # Slot(l)
  <1>1. DOMAIN d[x] = 1..Len(d[x]) /\ Len(d[x]) \in Nat
    <2>1. d[x] \in Seq(DOMAIN d)
      BY DagFacts
    <2> QED  BY <2>1, LenProperties
  <1>2. PICK i \in DOMAIN d[x] : d[x][i] = l /\ Slot(d[x][i]) = Slot(l) /\ First(i)
    BY DEF IsVote, FindSupport
  <1>3. PICK j \in DOMAIN d[x] : d[x][j] = m /\ Slot(d[x][j]) = Slot(l) /\ First(j)
    BY DEF IsVote, FindSupport
  <1>4. i \in Nat /\ j \in Nat /\ i >= 1 /\ j >= 1
    BY <1>1
  <1>5. ~ (i < j) /\ ~ (j < i)
    BY <1>2, <1>3, <1>4
  <1>6. i = j
    BY <1>4, <1>5
  <1> QED  BY <1>2, <1>3, <1>6

(* The votes that a block of the decision round includes. *)
Votes(d, l, c) == {x \in Range(d[c]) : IsVote(d, l, x)}

LEMMA VotesFacts ==
    ASSUME NEW d \in Dags, NEW l \in DOMAIN d, NEW c \in AtRound(DOMAIN d, l[2] + 2)
    PROVE  /\ Votes(d, l, c) \subseteq AtRound(DOMAIN d, l[2] + 1)
           /\ \A x \in Votes(d, l, c) : l \in Range(d[x]) /\ x \in Range(d[c])
           /\ IsCertificate(d, l, c) <=> IsQuorum({x[1] : x \in Votes(d, l, c)})
  <1>1. c \in DOMAIN d /\ c[2] = l[2] + 2 /\ l[2] \in Nat
    BY DagFacts DEF AtRound
  <1>2. ASSUME NEW x \in Votes(d, l, c)
        PROVE  x \in AtRound(DOMAIN d, l[2] + 1) /\ l \in Range(d[x])
    <2>1. x \in DOMAIN d /\ x[2] \in Nat /\ x[2] < l[2] + 2
      BY <1>1, DagFacts DEF Votes
    <2>2. l \in Range(d[x])
      <3>1. \E i \in DOMAIN d[x] : d[x][i] = l
        BY DEF Votes, IsVote, FindSupport
      <3> QED  BY <3>1 DEF Range
    <2>3. l[2] < x[2]
      BY <2>1, <2>2, DagFacts
    <2> QED  BY <1>1, <2>1, <2>2, <2>3 DEF AtRound
  <1>3. IsCertificate(d, l, c) <=> IsQuorum({x[1] : x \in Votes(d, l, c)})
    BY DEF IsCertificate, Votes
  <1> QED  BY <1>2, <1>3 DEF Votes

(* Two blocks of a slot are not both certified. *)
LEMMA OneCertificate ==
    ASSUME NEW d \in Dags, NEW l \in DOMAIN d, NEW m \in DOMAIN d, Slot(l) = Slot(m),
           NEW b \in AtRound(DOMAIN d, l[2] + 2), NEW c \in AtRound(DOMAIN d, l[2] + 2),
           IsCertificate(d, l, b), IsCertificate(d, m, c)
    PROVE  l = m
  <1>1. m[2] = l[2]
    BY DEF Slot
  <1>2. /\ Votes(d, l, b) \subseteq AtRound(DOMAIN d, l[2] + 1)
        /\ Votes(d, m, c) \subseteq AtRound(DOMAIN d, l[2] + 1)
        /\ IsQuorum({x[1] : x \in Votes(d, l, b)}) /\ IsQuorum({x[1] : x \in Votes(d, m, c)})
    BY <1>1, VotesFacts
  <1>3. PICK x \in Votes(d, l, b) : x \in Votes(d, m, c)
    BY <1>2, CommonBlock
  <1>4. x \in DOMAIN d /\ IsVote(d, l, x) /\ IsVote(d, m, x)
    BY <1>2, <1>3 DEF Votes, AtRound
  <1> QED  BY <1>4, OneSupport

(* No slot has both a certified block and enough blame. *)
LEMMA CertifiedOrBlamed ==
    ASSUME NEW d \in Dags, NEW l \in DOMAIN d, NEW c \in AtRound(DOMAIN d, l[2] + 2),
           IsCertificate(d, l, c), NEW V, V \subseteq DOMAIN d
    PROVE  ~EnoughLeaderBlame(d, V, Slot(l))
  <1> SUFFICES ASSUME EnoughLeaderBlame(d, V, Slot(l))  PROVE  FALSE
    OBVIOUS
  <1> DEFINE B == {x \in AtRound(V, l[2] + 1) : Blames(d, Slot(l), x)}
  <1>1. IsQuorum({x[1] : x \in B})
    BY DEF EnoughLeaderBlame, Slot
  <1>2. B \subseteq AtRound(DOMAIN d, l[2] + 1)
    BY DEF AtRound
  <1>3. /\ Votes(d, l, c) \subseteq AtRound(DOMAIN d, l[2] + 1)
        /\ IsQuorum({x[1] : x \in Votes(d, l, c)})
    BY VotesFacts
  <1>4. PICK x \in Votes(d, l, c) : x \in B
    <2> HIDE DEF B
    <2> QED  BY <1>1, <1>2, <1>3, CommonBlock
  <1>5. l \in Range(d[x])
    BY <1>4, VotesFacts
  <1> QED  BY <1>4, <1>5 DEF Blames, Slot

(* The ancestors of a block, layer by layer. *)
IsLayering(f, d, V, b, n) ==
    f = [k \in 0..n |->
            IF k = 0 THEN {b}
            ELSE {x \in AtRound(V, b[2] - k) : \E y \in f[k - 1] : x \in Range(d[y])}]

Below(d, V, S, r) == {x \in AtRound(V, r) : \E y \in S : x \in Range(d[y])}

LEMMA LayersExist ==
    ASSUME NEW d, NEW V, NEW b \in V, NEW n \in Nat
    PROVE  \E f : IsLayering(f, d, V, b, n)
  <1> DEFINE S == SUBSET V
             g == [e \in S \X (1..n) |-> Below(d, V, e[1], b[2] - e[2])]
  <1>1. g \in [S \X (1..n) -> S] /\ {b} \in S
    BY DEF Below, AtRound
  <1>2. \A T \in S, k \in 1..n : g[<<T, k>>] = Below(d, V, T, b[2] - k)
    OBVIOUS
  <1> HIDE DEF g, S
  <1>3. PICK f \in [0..n -> S] : IsIteration(f, {b}, g, n)
    BY <1>1, Iterates
  <1>4. ASSUME NEW k \in 0..n, k # 0
        PROVE  g[<<f[k - 1], k>>] = Below(d, V, f[k - 1], b[2] - k)
    <2>1. k \in 1..n /\ k - 1 \in 0..n
      BY <1>4
    <2> QED  BY <1>2, <1>3, <2>1
  <1>5. f = [k \in 0..n |-> IF k = 0 THEN {b} ELSE Below(d, V, f[k - 1], b[2] - k)]
    <2>1. \A k \in 0..n : (IF k = 0 THEN {b} ELSE g[<<f[k - 1], k>>])
                             = (IF k = 0 THEN {b} ELSE Below(d, V, f[k - 1], b[2] - k))
      BY <1>4
    <2> QED  BY <1>3, <2>1 DEF IsIteration
  <1> QED  BY <1>5 DEF IsLayering, Below

HasLayers(d, V, b, r) ==
    \E f : /\ f[0] = {b}
           /\ \A k \in 1..(b[2] - r) : f[k] = Below(d, V, f[k - 1], b[2] - k)
           /\ LinkedToRound(d, V, b, r) = f[b[2] - r]

LEMMA LayerStages ==
    ASSUME NEW d, NEW V, NEW b \in V, NEW r, b[2] - r \in Nat
    PROVE  HasLayers(d, V, b, r)
  <1> DEFINE n == b[2] - r
             f == CHOOSE h : IsLayering(h, d, V, b, n)
  <1>1. IsLayering(f, d, V, b, n)
    <2> HIDE DEF n
    <2>1. n \in Nat
      BY DEF n
    <2> QED  BY <2>1, LayersExist
  <1>2. LinkedToRound(d, V, b, r) = f[n]
    BY DEF LinkedToRound, IsLayering
  <1>3. n \in Nat
    OBVIOUS
  <1> HIDE DEF f, n
  <1>4. f[0] = {b}
    BY <1>1, <1>3 DEF IsLayering
  <1>5. ASSUME NEW k \in 1..n  PROVE  f[k] = Below(d, V, f[k - 1], b[2] - k)
    <2>1. k \in 0..n /\ k # 0
      BY <1>3
    <2> QED  BY <1>1, <2>1 DEF IsLayering, Below
  <1> QED  BY <1>2, <1>4, <1>5 DEF n, HasLayers

(* Below blocks of a round lies a quorum of the round before, the same in  *)
(* every closed part of the dag that has them.                             *)
LEMMA BelowFacts ==
    ASSUME NEW d \in Dags, NEW V, Closed(d, V), NEW r \in Nat, r > 0,
           NEW S, S \subseteq AtRound(V, r), S # {}
    PROVE  /\ Below(d, V, S, r - 1) = Below(d, DOMAIN d, S, r - 1)
           /\ Below(d, V, S, r - 1) \subseteq AtRound(V, r - 1)
           /\ IsQuorum({x[1] : x \in Below(d, V, S, r - 1)})
  <1> DEFINE T == Below(d, V, S, r - 1)
  <1>1. \A y \in S : y \in V /\ y \in DOMAIN d /\ y[2] = r /\ Range(d[y]) \subseteq V
    BY DEF Closed, AtRound
  <1>2. T = Below(d, DOMAIN d, S, r - 1)
    BY <1>1 DEF Below, AtRound, Closed
  <1>3. T \subseteq AtRound(V, r - 1)
    BY DEF Below
  <1>4. PICK y \in S : TRUE
    OBVIOUS
  <1> DEFINE Q == {x \in Range(d[y]) : x[2] + 1 = r}
  <1>5. IsQuorum({x[1] : x \in Q})
    BY <1>1, DagFacts
  <1>6. Q \subseteq T
    <2> SUFFICES ASSUME NEW x \in Range(d[y]), x[2] + 1 = r  PROVE  x \in T
      OBVIOUS
    <2>1. x \in V /\ x \in DOMAIN d
      BY <1>1 DEF Closed
    <2>2. x[2] \in Nat
      BY <2>1, DagFacts
    <2>3. x[2] = r - 1
      BY <2>2
    <2> QED  BY <2>1, <2>3 DEF Below, AtRound
  <1>7. \A x \in T : x[1] \in Authority
    BY <1>3, DagFacts DEF AtRound, Closed
  <1>8. IsQuorum({x[1] : x \in T})
    <2>1. {x[1] : x \in T} \in SUBSET Authority
      BY <1>7
    <2>2. {x[1] : x \in Q} \in SUBSET {x[1] : x \in T}
      BY <1>6
    <2> HIDE DEF Q, T
    <2> QED  BY <1>5, <2>1, <2>2, QuorumMonotone
  <1> QED  BY <1>2, <1>3, <1>8

(* What an anchor is linked to is a quorum of every earlier round, and does *)
(* not depend on what else is held.                                        *)
LEMMA LinkedFacts ==
    ASSUME NEW d \in Dags, NEW V, Closed(d, V), NEW b \in V, NEW r \in Nat, r < b[2]
    PROVE  /\ LinkedToRound(d, V, b, r) = LinkedToRound(d, DOMAIN d, b, r)
           /\ LinkedToRound(d, V, b, r) \subseteq AtRound(V, r)
           /\ IsQuorum({x[1] : x \in LinkedToRound(d, V, b, r)})
  <1> DEFINE n == b[2] - r
  <1>1. b \in DOMAIN d /\ b[2] \in Nat /\ n \in Nat /\ n > 0
    <2>1. b \in DOMAIN d
      BY DEF Closed
    <2>2. b[2] \in Nat
      BY <2>1, DagFacts
    <2> QED  BY <2>1, <2>2
  <1>2. PICK f : /\ f[0] = {b}
                 /\ \A k \in 1..n : f[k] = Below(d, V, f[k - 1], b[2] - k)
                 /\ LinkedToRound(d, V, b, r) = f[n]
    <2>1. HasLayers(d, V, b, r)
      BY <1>1, LayerStages
    <2> QED  BY <2>1 DEF HasLayers
  <1>3. PICK h : /\ h[0] = {b}
                 /\ \A k \in 1..n : h[k] = Below(d, DOMAIN d, h[k - 1], b[2] - k)
                 /\ LinkedToRound(d, DOMAIN d, b, r) = h[n]
    <2>1. HasLayers(d, DOMAIN d, b, r)
      BY <1>1, LayerStages
    <2> QED  BY <2>1 DEF HasLayers
  <1> DEFINE Same(k) == f[k] = h[k] /\ f[k] \subseteq AtRound(V, b[2] - k) /\ f[k] # {}
             G == {k \in 0..n : Same(k)}
  <1>4. ASSUME NEW k \in 1..n, Same(k - 1)
        PROVE  Same(k) /\ IsQuorum({x[1] : x \in f[k]})
    <2> DEFINE s == b[2] - (k - 1)
               S == f[k - 1]
    <2>1. s \in Nat /\ s > 0 /\ s - 1 = b[2] - k
      BY <1>1
    <2>2. S \subseteq AtRound(V, s) /\ S # {} /\ h[k - 1] = S
      BY <1>4
    <2>3. f[k] = Below(d, V, S, s - 1) /\ h[k] = Below(d, DOMAIN d, S, s - 1)
      BY <1>2, <1>3, <2>1, <2>2
    <2> HIDE DEF s, S
    <2>4. /\ Below(d, V, S, s - 1) = Below(d, DOMAIN d, S, s - 1)
          /\ Below(d, V, S, s - 1) \subseteq AtRound(V, s - 1)
          /\ IsQuorum({x[1] : x \in Below(d, V, S, s - 1)})
      BY <2>1, <2>2, BelowFacts
    <2>5. f[k] = h[k] /\ f[k] \subseteq AtRound(V, b[2] - k) /\ IsQuorum({x[1] : x \in f[k]})
      BY <2>1, <2>3, <2>4
    <2>6. {x[1] : x \in f[k]} \in SUBSET Authority
      <3>1. \A x \in f[k] : x \in DOMAIN d
        BY <2>5 DEF AtRound, Closed
      <3> QED  BY <3>1, DagFacts
    <2>7. f[k] # {}
      BY <2>5, <2>6, QuorumNotEmpty
    <2> QED  BY <2>5, <2>7
  <1>5. 0 \in G
    <2>1. 0 \in 0..n /\ b[2] - 0 = b[2]
      BY <1>1
    <2>2. b \in AtRound(V, b[2] - 0)
      BY <2>1 DEF AtRound
    <2>3. Same(0)
      BY <1>2, <1>3, <2>2
    <2> HIDE DEF Same, n
    <2> QED  BY <2>1, <2>3
  <1>6. \A k \in 0..n : k \in G
    <2>1. ASSUME NEW k \in 1..n, k - 1 \in G  PROVE  k \in G
      <3>1. k \in 0..n /\ Same(k - 1)
        BY <1>1, <2>1
      <3>2. Same(k)
        BY <1>4, <3>1
      <3> HIDE DEF Same, n
      <3> QED  BY <3>1, <3>2
    <2> HIDE DEF G, n
    <2> QED  BY <1>1, <1>5, <2>1, UpTo
  <1>7. n \in 1..n /\ Same(n - 1)
    <2>1. n - 1 \in 0..n
      BY <1>1
    <2> QED  BY <1>1, <1>6, <2>1
  <1>8. Same(n) /\ IsQuorum({x[1] : x \in f[n]})
    BY <1>4, <1>7
  <1>9. b[2] - n = r
    BY <1>1
  <1> QED  BY <1>2, <1>3, <1>8, <1>9

(* An anchor sees a certificate of what has enough support anywhere.       *)
LEMMA AnchorSees ==
    ASSUME NEW d \in Dags, NEW V, Closed(d, V), NEW a \in V,
           NEW l \in DOMAIN d, l[2] + 2 < a[2],
           NEW W, W \subseteq DOMAIN d, EnoughLeaderSupport(d, W, l)
    PROVE  \E c \in LinkedToRound(d, V, a, l[2] + 2) : IsCertificate(d, l, c)
  <1> DEFINE X == {c \in AtRound(W, l[2] + 2) : IsCertificate(d, l, c)}
             Y == LinkedToRound(d, V, a, l[2] + 2)
  <1>1. l[2] + 2 \in Nat /\ l[2] + WaveLength - 1 = l[2] + 2
    <2>1. l[2] \in Nat
      BY DagFacts
    <2> QED  BY <2>1 DEF WaveLength
  <1>2. IsQuorum({c[1] : c \in X})
    BY <1>1 DEF EnoughLeaderSupport
  <1>3. X \subseteq AtRound(DOMAIN d, l[2] + 2)
    BY DEF AtRound
  <1>4. Y \subseteq AtRound(V, l[2] + 2) /\ IsQuorum({c[1] : c \in Y})
    BY <1>1, LinkedFacts
  <1>5. Y \subseteq AtRound(DOMAIN d, l[2] + 2)
    BY <1>4 DEF AtRound, Closed
  <1>6. PICK c \in X : c \in Y
    <2> HIDE DEF X, Y
    <2> QED  BY <1>2, <1>3, <1>4, <1>5, CommonBlock
  <1> QED  BY <1>6

------------------------------------------------------------------------------
(* Decisions *)

LEMMA StatusFacts ==
    /\ \A b : /\ Commit(b).kind = "commit" /\ Commit(b).block = {b}
              /\ Commit(b).slot = Slot(b)
    /\ \A s : /\ Skip(s).kind = "skip" /\ Skip(s).slot = s
              /\ Undecided(s).kind = "undecided" /\ Undecided(s).slot = s
  BY DEF Commit, Skip, Undecided

LEMMA MinFacts ==
    ASSUME NEW S, S \subseteq Nat, S # {}
    PROVE  Min(S) \in S /\ \A k \in S : Min(S) <= k
  <1>1. \E m \in S : \A k \in S : m <= k
    BY LeastNumber
  <1> QED  BY <1>1 DEF Min

IsStatus(V, slot, s) ==
    \/ s = Skip(slot)
    \/ s = Undecided(slot)
    \/ \E b \in V : Slot(b) = slot /\ s = Commit(b)

SupportedBlocks(d, V, slot) == {b \in V : Slot(b) = slot /\ EnoughLeaderSupport(d, V, b)}

LEMMA SupportCertifies ==
    ASSUME NEW d \in Dags, NEW V, V \subseteq DOMAIN d, NEW b \in DOMAIN d,
           EnoughLeaderSupport(d, V, b)
    PROVE  \E c \in AtRound(DOMAIN d, b[2] + 2) : c \in V /\ IsCertificate(d, b, c)
  <1> DEFINE X == {c \in AtRound(V, b[2] + 2) : IsCertificate(d, b, c)}
  <1>1. b[2] + WaveLength - 1 = b[2] + 2
    <2>1. b[2] \in Nat
      BY DagFacts
    <2> QED  BY <2>1 DEF WaveLength
  <1>2. IsQuorum({c[1] : c \in X})
    BY <1>1 DEF EnoughLeaderSupport
  <1>3. \A c \in X : c \in AtRound(DOMAIN d, b[2] + 2) /\ c \in V
    BY DEF AtRound
  <1>4. {c[1] : c \in X} \in SUBSET Authority
    BY <1>3, DagFacts DEF AtRound
  <1>5. X # {}
    BY <1>2, <1>4, QuorumNotEmpty
  <1> QED  BY <1>3, <1>5

(* More blocks give no less support and no less blame. *)
LEMMA SupportGrows ==
    ASSUME NEW d \in Dags, NEW W, W \subseteq DOMAIN d, NEW V, V \subseteq W
    PROVE  /\ \A b : EnoughLeaderSupport(d, V, b) => EnoughLeaderSupport(d, W, b)
           /\ \A slot : EnoughLeaderBlame(d, V, slot) => EnoughLeaderBlame(d, W, slot)
  <1>1. ASSUME NEW X, NEW Y, X \subseteq Y, Y \subseteq W, IsQuorum({x[1] : x \in X})
        PROVE  IsQuorum({x[1] : x \in Y})
    <2>1. {x[1] : x \in Y} \in SUBSET Authority
      BY <1>1, DagFacts
    <2>2. {x[1] : x \in X} \in SUBSET {x[1] : x \in Y}
      BY <1>1
    <2> QED  BY <1>1, <2>1, <2>2, QuorumMonotone
  <1>2. ASSUME NEW b, EnoughLeaderSupport(d, V, b)  PROVE  EnoughLeaderSupport(d, W, b)
    <2> DEFINE Certs(U) == {x \in AtRound(U, b[2] + WaveLength - 1) : IsCertificate(d, b, x)}
    <2>1. Certs(V) \subseteq Certs(W) /\ Certs(W) \subseteq W
      BY DEF AtRound
    <2>2. IsQuorum({c[1] : c \in Certs(V)})
      BY <1>2 DEF EnoughLeaderSupport
    <2>3. IsQuorum({c[1] : c \in Certs(W)})
      <3> HIDE DEF Certs
      <3> QED  BY <1>1, <2>1, <2>2
    <2> QED  BY <2>3 DEF EnoughLeaderSupport
  <1>3. ASSUME NEW slot, EnoughLeaderBlame(d, V, slot)  PROVE  EnoughLeaderBlame(d, W, slot)
    <2> DEFINE Bs(U) == {x \in AtRound(U, slot[2] + 1) : Blames(d, slot, x)}
    <2>1. Bs(V) \subseteq Bs(W) /\ Bs(W) \subseteq W
      BY DEF AtRound
    <2>2. IsQuorum({c[1] : c \in Bs(V)})
      BY <1>3 DEF EnoughLeaderBlame
    <2>3. IsQuorum({c[1] : c \in Bs(W)})
      <3> HIDE DEF Bs
      <3> QED  BY <1>1, <2>1, <2>2
    <2> QED  BY <2>3 DEF EnoughLeaderBlame
  <1> QED  BY <1>2, <1>3

(* A slot has at most one block with support, and with one it is committed. *)
LEMMA DirectFacts ==
    ASSUME NEW d \in Dags, NEW V, V \subseteq DOMAIN d, NEW slot
    PROVE  /\ IsStatus(V, slot, TryDirectDecide(d, V, slot))
           /\ \A b \in SupportedBlocks(d, V, slot) : TryDirectDecide(d, V, slot) = Commit(b)
           /\ EnoughLeaderBlame(d, V, slot) <=> TryDirectDecide(d, V, slot) = Skip(slot)
           /\ TryDirectDecide(d, V, slot).kind = "commit" => SupportedBlocks(d, V, slot) # {}
  <1> DEFINE S == SupportedBlocks(d, V, slot)
  <1>1. TryDirectDecide(d, V, slot) = IF EnoughLeaderBlame(d, V, slot) THEN Skip(slot)
                                      ELSE IF S # {} THEN CommitAny(S)
                                      ELSE Undecided(slot)
    BY DEF TryDirectDecide, SupportedBlocks
  <1>2. ASSUME NEW b \in S  PROVE  S = {b} /\ ~EnoughLeaderBlame(d, V, slot)
    <2>1. ASSUME NEW c \in S
          PROVE  /\ c \in DOMAIN d /\ Slot(c) = slot /\ c[2] = slot[2]
                 /\ \E e \in AtRound(DOMAIN d, c[2] + 2) : IsCertificate(d, c, e)
      <3>1. c \in DOMAIN d /\ Slot(c) = slot /\ EnoughLeaderSupport(d, V, c)
        BY DEF SupportedBlocks
      <3>2. c[2] = slot[2]
        BY <3>1 DEF Slot
      <3> QED  BY <3>1, <3>2, SupportCertifies
    <2>2. ASSUME NEW c \in S  PROVE  c = b
      <3> HIDE DEF S
      <3> QED  BY <2>1, OneCertificate
    <2>3. ~EnoughLeaderBlame(d, V, slot)
      <3> HIDE DEF S
      <3> QED  BY <2>1, CertifiedOrBlamed
    <2> QED  BY <2>2, <2>3
  <1>3. ASSUME NEW b \in S  PROVE  CommitAny(S) = Commit(b)
    <2>1. S = {b}
      BY <1>2
    <2> HIDE DEF S
    <2> QED  BY <2>1 DEF CommitAny
  <1>4. \A b \in S : b \in V /\ Slot(b) = slot
    BY DEF SupportedBlocks
  <1> HIDE DEF S
  <1> QED  BY <1>1, <1>2, <1>3, <1>4, StatusFacts DEF IsStatus, S

LEMMA DirectKeeps ==
    ASSUME NEW d \in Dags, NEW W, W \subseteq DOMAIN d, NEW V, V \subseteq W, NEW slot,
           TryDirectDecide(d, V, slot).kind # "undecided"
    PROVE  TryDirectDecide(d, W, slot) = TryDirectDecide(d, V, slot)
  <1>1. V \subseteq DOMAIN d
    OBVIOUS
  <1>2. \/ TryDirectDecide(d, V, slot) = Skip(slot)
        \/ TryDirectDecide(d, V, slot).kind = "commit"
    BY <1>1, DirectFacts, StatusFacts DEF IsStatus
  <1>3. CASE TryDirectDecide(d, V, slot) = Skip(slot)
    <2>1. EnoughLeaderBlame(d, W, slot)
      BY <1>1, <1>3, DirectFacts, SupportGrows
    <2> QED  BY <1>3, <2>1, DirectFacts
  <1>4. CASE TryDirectDecide(d, V, slot).kind = "commit"
    <2>1. PICK b \in SupportedBlocks(d, V, slot) : TRUE
      BY <1>1, <1>4, DirectFacts
    <2>2. b \in SupportedBlocks(d, W, slot)
      BY <2>1, SupportGrows DEF SupportedBlocks
    <2> QED  BY <1>1, <2>1, <2>2, DirectFacts
  <1> QED  BY <1>2, <1>3, <1>4

(* The blocks of a slot with a certificate that an anchor is linked to. *)
Certified(d, a, slot) ==
    {b \in DOMAIN d : /\ Slot(b) = slot
                      /\ \E c \in LinkedToRound(d, DOMAIN d, a, slot[2] + 2) :
                            IsCertificate(d, b, c)}

(* What an anchor decides is the same wherever the anchor is held. *)
LEMMA AnchorDecides ==
    ASSUME NEW d \in Dags, NEW V, Closed(d, V), NEW a \in V,
           NEW slot, slot[2] \in Nat, slot[2] + 2 < a[2]
    PROVE  /\ Certified(d, a, slot) \subseteq V
           /\ \A b \in Certified(d, a, slot) : DecideLeaderFromAnchor(d, V, a, slot) = Commit(b)
           /\ Certified(d, a, slot) = {} => DecideLeaderFromAnchor(d, V, a, slot) = Skip(slot)
           /\ \A b \in Certified(d, a, slot) :
                 \E c \in AtRound(DOMAIN d, b[2] + 2) : IsCertificate(d, b, c)
  <1> DEFINE C == Certified(d, a, slot)
             P == LinkedToRound(d, V, a, slot[2] + 2)
  <1>1. slot[2] + WaveLength - 1 = slot[2] + 2 /\ slot[2] + 2 \in Nat
    BY DEF WaveLength
  <1>2. P = LinkedToRound(d, DOMAIN d, a, slot[2] + 2) /\ P \subseteq AtRound(V, slot[2] + 2)
    BY <1>1, LinkedFacts
  <1>3. ASSUME NEW b \in C
        PROVE  /\ b \in V /\ Slot(b) = slot /\ b \in DOMAIN d
               /\ \E c \in AtRound(DOMAIN d, b[2] + 2) : IsCertificate(d, b, c)
    <2>1. b \in DOMAIN d /\ Slot(b) = slot
      BY DEF Certified
    <2>2. b[2] = slot[2] /\ b[2] \in Nat
      BY <2>1, DagFacts DEF Slot
    <2>3. PICK c \in P : IsCertificate(d, b, c)
      BY <1>2 DEF Certified
    <2>4. c \in V /\ c \in AtRound(DOMAIN d, b[2] + 2)
      BY <1>2, <2>2, <2>3 DEF AtRound, Closed
    <2> DEFINE Q == Votes(d, b, c)
    <2>5. IsQuorum({x[1] : x \in Q}) /\ Q \subseteq AtRound(DOMAIN d, b[2] + 1)
      BY <2>1, <2>3, <2>4, VotesFacts
    <2>6. {x[1] : x \in Q} \in SUBSET Authority
      BY <2>5, DagFacts DEF AtRound
    <2>7. PICK x \in Q : TRUE
      BY <2>5, <2>6, QuorumNotEmpty
    <2>8. x \in Range(d[c]) /\ b \in Range(d[x])
      BY <2>1, <2>4, <2>7, VotesFacts
    <2>9. b \in V
      BY <2>4, <2>8 DEF Closed
    <2> QED  BY <2>1, <2>3, <2>4, <2>9
  <1>4. ASSUME NEW b \in C, NEW e \in C  PROVE  b = e
    <2> HIDE DEF C
    <2> QED  BY <1>3, OneCertificate DEF Slot
  <1>5. {b \in V : Slot(b) = slot /\ \E c \in P : IsCertificate(d, b, c)} = C
    BY <1>2, <1>3 DEF Closed, Certified
  <1>6. DecideLeaderFromAnchor(d, V, a, slot) = IF C # {} THEN CommitAny(C) ELSE Skip(slot)
    <2> HIDE DEF C
    <2> QED  BY <1>1, <1>5 DEF DecideLeaderFromAnchor
  <1>7. ASSUME NEW b \in C  PROVE  CommitAny(C) = Commit(b)
    <2>1. C = {b}
      BY <1>4
    <2> HIDE DEF C
    <2> QED  BY <2>1 DEF CommitAny
  <1>8. \A b \in C : b \in V /\ \E c \in AtRound(DOMAIN d, b[2] + 2) : IsCertificate(d, b, c)
    BY <1>3
  <1> HIDE DEF C
  <1> QED  BY <1>6, <1>7, <1>8 DEF C

(* The statuses of later leaders, as two replicas have them: what is       *)
(* decided in the smaller part of the dag is decided in the larger one.    *)
Statuses(V, s) ==
    /\ DOMAIN s = 1..Len(s) /\ Len(s) \in Nat
    /\ \A i \in 1..Len(s) : s[i].slot[2] \in Nat /\ IsStatus(V, s[i].slot, s[i])

Confirmed(s, t) ==
    /\ Len(s) <= Len(t)
    /\ \A i \in 1..Len(s) : /\ t[i].slot = s[i].slot
                            /\ s[i].kind # "undecided" => t[i] = s[i]

Anchors(slot, s) == {i \in DOMAIN s : MayAnchor(slot, s[i]) /\ s[i].kind # "skip"}

LEMMA IndirectFacts ==
    ASSUME NEW d \in Dags, NEW V, Closed(d, V), NEW s, Statuses(V, s),
           NEW slot, slot[2] \in Nat
    PROVE  \/ TryIndirectDecide(d, V, slot, s) = Undecided(slot)
           \/ \E i \in Anchors(slot, s), a \in V :
                 /\ \A j \in Anchors(slot, s) : i <= j
                 /\ s[i] = Commit(a) /\ slot[2] + 2 < a[2]
                 /\ TryIndirectDecide(d, V, slot, s) = DecideLeaderFromAnchor(d, V, a, slot)
  <1> DEFINE A == Anchors(slot, s)
             i == Min(A)
  <1>1. TryIndirectDecide(d, V, slot, s) =
          IF A # {} /\ s[i].kind = "commit"
          THEN DecideLeaderFromAnchor(d, V, CHOOSE b \in s[i].block : TRUE, slot)
          ELSE Undecided(slot)
    BY DEF TryIndirectDecide, Anchors
  <1>2. ASSUME A # {}, s[i].kind = "commit"
        PROVE  \E k \in A, a \in V :
                 /\ \A j \in A : k <= j
                 /\ s[k] = Commit(a) /\ slot[2] + 2 < a[2]
                 /\ TryIndirectDecide(d, V, slot, s) = DecideLeaderFromAnchor(d, V, a, slot)
    <2>1. A \subseteq Nat
      BY DEF Statuses, Anchors
    <2>2. i \in A /\ \A j \in A : i <= j
      <3> HIDE DEF A
      <3> QED  BY <1>2, <2>1, MinFacts
    <2> HIDE DEF i
    <2>3. i \in 1..Len(s) /\ MayAnchor(slot, s[i]) /\ s[i].slot[2] \in Nat
      BY <2>2 DEF Statuses, Anchors
    <2>4. PICK a \in V : Slot(a) = s[i].slot /\ s[i] = Commit(a)
      BY <1>2, <2>3, StatusFacts DEF Statuses, IsStatus
    <2>5. a[2] = s[i].slot[2]
      BY <2>4 DEF Slot
    <2>6. slot[2] + 2 < a[2]
      BY <2>3, <2>5 DEF MayAnchor, WaveLength
    <2>7. (CHOOSE b \in s[i].block : TRUE) = a
      BY <2>4, StatusFacts
    <2> QED  BY <1>1, <1>2, <2>2, <2>4, <2>6, <2>7
  <1> QED  BY <1>1, <1>2

(* What is decided stays decided when more blocks are known. *)
LEMMA DecideKeeps ==
    ASSUME NEW d \in Dags, NEW V, Closed(d, V), NEW W, Closed(d, W), V \subseteq W,
           NEW slot, slot[2] \in Nat,
           NEW s, Statuses(V, s), NEW t, Statuses(W, t), Confirmed(s, t),
           Decide(d, V, slot, s).kind # "undecided"
    PROVE  Decide(d, W, slot, t) = Decide(d, V, slot, s)
  <1>1. V \subseteq DOMAIN d /\ W \subseteq DOMAIN d
    BY DEF Closed
  <1>2. CASE TryDirectDecide(d, V, slot).kind # "undecided"
    BY <1>1, <1>2, DirectKeeps DEF Decide
  <1>3. CASE TryDirectDecide(d, V, slot).kind = "undecided"
    <2>1. Decide(d, V, slot, s) = TryIndirectDecide(d, V, slot, s)
      BY <1>3 DEF Decide
    <2>2. PICK i \in Anchors(slot, s), a \in V :
                 /\ \A j \in Anchors(slot, s) : i <= j
                 /\ s[i] = Commit(a) /\ slot[2] + 2 < a[2]
                 /\ TryIndirectDecide(d, V, slot, s) = DecideLeaderFromAnchor(d, V, a, slot)
      BY <2>1, IndirectFacts, StatusFacts
    <2>3. DecideLeaderFromAnchor(d, W, a, slot) = DecideLeaderFromAnchor(d, V, a, slot)
      BY <2>2, AnchorDecides
    <2>4. CASE TryDirectDecide(d, W, slot) = Skip(slot)
      <3>1. EnoughLeaderBlame(d, W, slot)
        BY <1>1, <2>4, DirectFacts
      <3>2. Certified(d, a, slot) = {}
        <4> SUFFICES ASSUME NEW b \in Certified(d, a, slot)  PROVE  FALSE
          OBVIOUS
        <4>1. PICK c \in AtRound(DOMAIN d, b[2] + 2) : IsCertificate(d, b, c)
          BY <2>2, AnchorDecides
        <4>2. b \in DOMAIN d /\ Slot(b) = slot
          BY DEF Certified
        <4> QED  BY <1>1, <3>1, <4>1, <4>2, CertifiedOrBlamed
      <3>3. DecideLeaderFromAnchor(d, V, a, slot) = Skip(slot)
        BY <2>2, <3>2, AnchorDecides
      <3> QED  BY <2>1, <2>2, <2>4, <3>3, StatusFacts DEF Decide
    <2>5. CASE TryDirectDecide(d, W, slot).kind = "commit"
      <3>1. PICK b \in SupportedBlocks(d, W, slot) : TRUE
        BY <1>1, <2>5, DirectFacts
      <3>2. TryDirectDecide(d, W, slot) = Commit(b)
        BY <1>1, <3>1, DirectFacts
      <3>3. b \in DOMAIN d /\ Slot(b) = slot /\ EnoughLeaderSupport(d, W, b) /\ b[2] = slot[2]
        BY <1>1, <3>1 DEF SupportedBlocks, Slot
      <3>4. \E c \in LinkedToRound(d, DOMAIN d, a, slot[2] + 2) : IsCertificate(d, b, c)
        BY <1>1, <2>2, <3>3, AnchorSees, WholeIsClosed
      <3>5. b \in Certified(d, a, slot)
        BY <3>3, <3>4 DEF Certified
      <3>6. DecideLeaderFromAnchor(d, V, a, slot) = Commit(b)
        BY <2>2, <3>5, AnchorDecides
      <3> QED  BY <2>1, <2>2, <3>2, <3>6, StatusFacts DEF Decide
    <2>6. CASE TryDirectDecide(d, W, slot) = Undecided(slot)
      <3>1. Decide(d, W, slot, t) = TryIndirectDecide(d, W, slot, t)
        BY <2>6, StatusFacts DEF Decide
      <3>2. i \in 1..Len(s) /\ i \in Nat /\ i \in 1..Len(t) /\ Len(s) \in Nat /\ Len(t) \in Nat
        BY <2>2 DEF Anchors, Statuses, Confirmed
      <3>3. t[i] = s[i] /\ i \in Anchors(slot, t)
        BY <2>2, <3>2, StatusFacts DEF Anchors, Statuses, Confirmed
      <3>4. ASSUME NEW j \in Anchors(slot, t), j < i  PROVE  FALSE
        <4>1. j \in 1..Len(s)
          BY <3>2, <3>4 DEF Anchors, Statuses
        <4>2. j \notin Anchors(slot, s)
          BY <2>2, <3>2, <3>4, <4>1
        <4>3. MayAnchor(slot, s[j])
          BY <4>1, <3>4 DEF MayAnchor, Anchors, Confirmed
        <4>4. s[j].kind = "skip"
          BY <4>1, <4>2, <4>3 DEF Anchors, Statuses
        <4>5. t[j] = s[j]
          BY <4>1, <4>4 DEF Confirmed
        <4> QED  BY <3>4, <4>4, <4>5 DEF Anchors
      <3> DEFINE A == Anchors(slot, t)
      <3>5. A \subseteq Nat
        BY DEF Statuses, Anchors
      <3>6. Min(A) = i
        <4>1. A # {} /\ i \in A
          BY <3>3
        <4>2. Min(A) \in A /\ Min(A) <= i
          <5> HIDE DEF A
          <5> QED  BY <3>5, <4>1, MinFacts
        <4>3. ~ (Min(A) < i)
          BY <3>4, <4>2
        <4>4. Min(A) \in Nat
          BY <3>5, <4>2
        <4> HIDE DEF A
        <4> QED  BY <3>2, <4>2, <4>3, <4>4
      <3>7. TryIndirectDecide(d, W, slot, t) = DecideLeaderFromAnchor(d, W, a, slot)
        <4>1. TryIndirectDecide(d, W, slot, t) =
                IF A # {} /\ t[Min(A)].kind = "commit"
                THEN DecideLeaderFromAnchor(d, W, CHOOSE b \in t[Min(A)].block : TRUE, slot)
                ELSE Undecided(slot)
          BY DEF TryIndirectDecide, Anchors
        <4>2. A # {} /\ t[Min(A)] = Commit(a)
          BY <2>2, <3>3, <3>6
        <4> HIDE DEF A
        <4>3. (CHOOSE b \in t[Min(A)].block : TRUE) = a
          BY <4>2, StatusFacts
        <4> QED  BY <4>1, <4>2, <4>3, StatusFacts
      <3> QED  BY <2>1, <2>2, <2>3, <3>1, <3>7
    <2>7. IsStatus(W, slot, TryDirectDecide(d, W, slot))
      BY <1>1, DirectFacts
    <2> QED  BY <2>4, <2>5, <2>6, <2>7, StatusFacts DEF IsStatus
  <1> QED  BY <1>2, <1>3

(* A decision is a status of the leader. *)
LEMMA DecideFacts ==
    ASSUME NEW d \in Dags, NEW V, Closed(d, V), NEW slot, slot[2] \in Nat,
           NEW s, Statuses(V, s)
    PROVE  IsStatus(V, slot, Decide(d, V, slot, s)) /\ Decide(d, V, slot, s).slot = slot
  <1>1. V \subseteq DOMAIN d
    BY DEF Closed
  <1>2. IsStatus(V, slot, Decide(d, V, slot, s))
    <2>1. CASE TryDirectDecide(d, V, slot).kind # "undecided"
      BY <1>1, <2>1, DirectFacts DEF Decide
    <2>2. CASE TryDirectDecide(d, V, slot).kind = "undecided"
      <3>1. Decide(d, V, slot, s) = TryIndirectDecide(d, V, slot, s)
        BY <2>2 DEF Decide
      <3>2. CASE TryIndirectDecide(d, V, slot, s) = Undecided(slot)
        BY <3>1, <3>2 DEF IsStatus
      <3>3. ASSUME NEW a \in V, slot[2] + 2 < a[2],
                   TryIndirectDecide(d, V, slot, s) = DecideLeaderFromAnchor(d, V, a, slot)
            PROVE  IsStatus(V, slot, Decide(d, V, slot, s))
        <4>1. CASE Certified(d, a, slot) = {}
          BY <3>1, <3>3, <4>1, AnchorDecides DEF IsStatus
        <4>2. ASSUME NEW b \in Certified(d, a, slot)
              PROVE  IsStatus(V, slot, Decide(d, V, slot, s))
          <5>1. b \in V /\ DecideLeaderFromAnchor(d, V, a, slot) = Commit(b)
            BY <3>3, AnchorDecides
          <5>2. Slot(b) = slot
            BY DEF Certified
          <5> QED  BY <3>1, <3>3, <5>1, <5>2 DEF IsStatus
        <4> QED  BY <4>1, <4>2
      <3> QED  BY <3>2, <3>3, IndirectFacts
    <2> QED  BY <2>1, <2>2
  <1> QED  BY <1>2, StatusFacts DEF IsStatus

------------------------------------------------------------------------------
(* The order of the leaders *)

LEMMA DivideFacts ==
    ASSUME NEW n \in Nat, n > 0, NEW i \in Nat
    PROVE  /\ i \div n \in Nat /\ i % n \in 0..(n - 1)
           /\ i = n * (i \div n) + (i % n)
  OBVIOUS

LEMMA DivideGrows ==
    ASSUME NEW n \in Nat, n > 0, NEW i \in Nat, NEW j \in Nat, i <= j
    PROVE  i \div n <= j \div n
  <1> DEFINE p == i \div n
             q == j \div n
             x == i % n
             y == j % n
  <1>1. /\ p \in Nat /\ x \in 0..(n - 1) /\ i = n * p + x
        /\ q \in Nat /\ y \in 0..(n - 1) /\ j = n * q + y
    BY DivideFacts
  <1> HIDE DEF p, q, x, y
  <1>2. ASSUME q + 1 <= p  PROVE  FALSE
    <2>1. n * (q + 1) <= n * p
      BY <1>1, <1>2
    <2>2. n * (q + 1) = n * q + n
      BY <1>1
    <2> QED  BY <1>1, <2>1, <2>2
  <1>3. p <= q
    BY <1>1, <1>2
  <1> QED  BY <1>3 DEF p, q

LEMMA DivideExact ==
    ASSUME NEW n \in Nat, n > 0, NEW q \in Nat
    PROVE  (n * q) \div n = q
  <1> DEFINE p == (n * q) \div n
             x == (n * q) % n
  <1>1. n * q \in Nat
    OBVIOUS
  <1>2. p \in Nat /\ x \in 0..(n - 1) /\ n * q = n * p + x
    BY <1>1, DivideFacts
  <1> HIDE DEF p, x
  <1>3. ASSUME q + 1 <= p  PROVE  FALSE
    <2>1. n * (q + 1) <= n * p
      BY <1>2, <1>3
    <2>2. n * (q + 1) = n * q + n
      OBVIOUS
    <2> QED  BY <1>1, <1>2, <2>1, <2>2
  <1>4. ASSUME p + 1 <= q  PROVE  FALSE
    <2>1. n * (p + 1) <= n * q
      BY <1>2, <1>4
    <2>2. n * (p + 1) = n * p + n
      BY <1>2
    <2>3. n * p \in Nat
      BY <1>2
    <2> QED  BY <1>1, <1>2, <2>1, <2>2, <2>3
  <1>5. p = q
    BY <1>2, <1>3, <1>4
  <1> QED  BY <1>5 DEF p

LEMMA LeaderConstants ==
    /\ NumberOfLeaders \in Nat /\ NumberOfLeaders > 0
    /\ Stride \in Nat /\ Stride > 0
  BY CommitAssumption DEF Stride, WaveLength

(* The i-th leader leads the Turn(i)-th round with leaders, as the         *)
(* Place(i)-th of it; both count from 0.                                   *)
Turn(i) == (i - 1) \div NumberOfLeaders

Place(i) == (i - 1) % NumberOfLeaders

LEMMA TurnFacts ==
    ASSUME NEW i \in Nat, i > 0
    PROVE  /\ Turn(i) \in Nat /\ Place(i) \in 0..(NumberOfLeaders - 1)
           /\ i - 1 = NumberOfLeaders * Turn(i) + Place(i)
           /\ LeaderSlot(i)[2] = Stride * Turn(i) /\ LeaderSlot(i)[2] \in Nat
           /\ LeaderSlot(i)[1] = IF LeaderSlot(i)[2] = 0 THEN FirstAuthority
                                 ELSE elected[LeaderSlot(i)[2]][Place(i) + 1]
  <1>1. i - 1 \in Nat
    OBVIOUS
  <1>2. /\ Turn(i) \in Nat /\ Place(i) \in 0..(NumberOfLeaders - 1)
        /\ i - 1 = NumberOfLeaders * Turn(i) + Place(i)
    BY <1>1, DivideFacts, LeaderConstants DEF Turn, Place
  <1>3. LeaderSlot(i)[2] = Stride * Turn(i)
    BY DEF LeaderSlot, Turn
  <1>4. LeaderSlot(i)[1] = IF LeaderSlot(i)[2] = 0 THEN FirstAuthority
                           ELSE elected[LeaderSlot(i)[2]][Place(i) + 1]
    BY DEF LeaderSlot, Turn, Place
  <1>5. Stride * Turn(i) \in Nat
    BY <1>2, LeaderConstants
  <1> QED  BY <1>2, <1>3, <1>4, <1>5

(* Up to a round are the leaders of turns up to it. *)
LEMMA UpToFacts ==
    ASSUME NEW r \in Nat
    PROVE  /\ LeadersUpTo(r) \in Nat /\ LeadersUpTo(r) >= NumberOfLeaders
           /\ \A i \in 1..LeadersUpTo(r) : LeaderSlot(i)[2] <= r
  <1> DEFINE t == r \div Stride
             n == NumberOfLeaders
  <1>1. t \in Nat /\ Stride * t <= r
    <2>1. t \in Nat /\ r % Stride \in Nat /\ r = Stride * t + (r % Stride)
      BY DivideFacts, LeaderConstants
    <2> DEFINE x == r % Stride
    <2> HIDE DEF t, x
    <2>2. Stride * t \in Nat
      BY <2>1, LeaderConstants
    <2> QED  BY <2>1, <2>2 DEF x
  <1>2. n \in Nat /\ n > 0 /\ Stride \in Nat /\ Stride > 0
    BY LeaderConstants
  <1>3. LeadersUpTo(r) = n * (t + 1)
    BY DEF LeadersUpTo
  <1> HIDE DEF t, n
  <1>4. n * (t + 1) = n * t + n /\ n * t \in Nat
    BY <1>1, <1>2
  <1>5. ASSUME NEW i \in 1..(n * (t + 1))  PROVE  LeaderSlot(i)[2] <= r
    <2> DEFINE m == n * (t + 1)
    <2>1. i \in Nat /\ i > 0 /\ i - 1 < m /\ m \in Nat
      <3>1. m \in Nat
        BY <1>2, <1>4
      <3> HIDE DEF m
      <3>2. i \in 1..m
        BY DEF m
      <3> QED  BY <3>1, <3>2
    <2> DEFINE q == Turn(i)
    <2>2. q \in Nat /\ n * q <= i - 1 /\ LeaderSlot(i)[2] = Stride * q
      <3>1. n * Turn(i) \in Nat /\ i - 1 = n * Turn(i) + Place(i) /\ Place(i) \in Nat
            /\ Turn(i) \in Nat /\ LeaderSlot(i)[2] = Stride * Turn(i)
        BY <1>2, <2>1, TurnFacts DEF n
      <3> QED  BY <3>1
    <2> HIDE DEF q
    <2>3. ASSUME t + 1 <= q  PROVE  FALSE
      <3> DEFINE k == n * q
      <3>1. m <= k
        BY <1>1, <1>2, <2>2, <2>3
      <3>2. k \in Nat /\ k <= i - 1
        BY <1>2, <2>2
      <3> HIDE DEF m, k
      <3> QED  BY <2>1, <3>1, <3>2
    <2>4. q <= t
      BY <1>1, <2>2, <2>3
    <2>5. Stride * q <= Stride * t /\ Stride * q \in Nat /\ Stride * t \in Nat
      BY <1>1, <1>2, <2>2, <2>4
    <2> QED  BY <1>1, <2>2, <2>5
  <1> QED  BY <1>2, <1>3, <1>4, <1>5 DEF n

LEMMA LeaderOnce ==
    ASSUME NEW i \in Nat, i > 0, NEW j \in Nat, j > 0, LeaderSlot(i) = LeaderSlot(j),
           Turn(i) > 0, LeaderSlot(i)[2] \in DOMAIN elected
    PROVE  i = j
  <1> DEFINE r == LeaderSlot(i)[2]
             n == NumberOfLeaders
  <1>1. /\ Turn(i) \in Nat /\ Place(i) \in 0..(n - 1) /\ i - 1 = n * Turn(i) + Place(i)
        /\ Turn(j) \in Nat /\ Place(j) \in 0..(n - 1) /\ j - 1 = n * Turn(j) + Place(j)
        /\ r = Stride * Turn(i) /\ r = Stride * Turn(j)
        /\ LeaderSlot(i)[1] = IF r = 0 THEN FirstAuthority ELSE elected[r][Place(i) + 1]
        /\ LeaderSlot(i)[1] = IF r = 0 THEN FirstAuthority ELSE elected[r][Place(j) + 1]
    BY TurnFacts
  <1>2. n \in Nat /\ n > 0 /\ Stride \in Nat /\ Stride > 0
    BY LeaderConstants
  <1> DEFINE p == Turn(i)
             q == Turn(j)
             x == Place(i)
             y == Place(j)
  <1>3. p = q /\ r > 0
    <2>1. /\ p \in Nat /\ q \in Nat /\ p > 0
          /\ r = Stride * p /\ r = Stride * q
      BY <1>1
    <2> HIDE DEF p, q, r
    <2> QED  BY <1>2, <2>1
  <1>4. r \in DOMAIN elected /\ x + 1 \in 1..n /\ y + 1 \in 1..n
    <2> HIDE DEF n
    <2> QED  BY <1>1, <1>2
  <1>5. elected[r][x + 1] = elected[r][y + 1]
    BY <1>1, <1>3
  <1>6. x + 1 = y + 1
    <2> HIDE DEF x, y, r
    <2> QED  BY <1>4, <1>5, CommitAssumption
  <1>7. /\ i - 1 = n * p + x /\ j - 1 = n * q + y
        /\ x \in Nat /\ y \in Nat
    BY <1>1
  <1>8. x = y
    <2> HIDE DEF x, y
    <2> QED  BY <1>6, <1>7
  <1>9. i - 1 = j - 1
    BY <1>3, <1>7, <1>8
  <1> QED  BY <1>9

LEMMA PositionFacts ==
    ASSUME NEW i \in Nat, i >= NumberOfLeaders,
           i = NumberOfLeaders \/ LeaderSlot(i)[2] \in DOMAIN elected
    PROVE  Position(LeaderSlot(i)) = i
  <1> DEFINE n == NumberOfLeaders
             q == Turn(i)
             L == LeadersUpTo(LeaderSlot(i)[2])
             P == {k \in 1..L : LeaderSlot(k) = LeaderSlot(i)}
  <1>1. n \in Nat /\ n > 0 /\ Stride \in Nat /\ Stride > 0 /\ i > 0
    <2>1. n \in Nat /\ n > 0 /\ Stride \in Nat /\ Stride > 0
      BY LeaderConstants
    <2> QED  BY <2>1
  <1>2. /\ q \in Nat /\ Place(i) \in 0..(n - 1) /\ i - 1 = n * q + Place(i)
        /\ LeaderSlot(i)[2] = Stride * q
    BY <1>1, TurnFacts
  <1>3. L = n * (q + 1)
    <2>1. (Stride * q) \div Stride = q /\ ~ (Stride * q < 0)
      <3> HIDE DEF q
      <3>1. Stride * q \in Nat
        BY <1>1, <1>2
      <3> QED  BY <1>1, <1>2, <3>1, DivideExact
    <2> QED  BY <1>2, <2>1 DEF LeadersUpTo
  <1>4. n * (q + 1) = n * q + n /\ n * q \in Nat
    <2> HIDE DEF n, q
    <2> QED  BY <1>1, <1>2
  <1>5. L \in Nat /\ i \in 1..L /\ i <= L
    <2> HIDE DEF n, q, L
    <2> QED  BY <1>1, <1>2, <1>3, <1>4
  <1>6. i \in P
    BY <1>5
  <1>7. ASSUME NEW k \in P  PROVE  k <= i
    <2>1. k \in Nat /\ k > 0 /\ k <= L /\ LeaderSlot(k) = LeaderSlot(i)
      BY <1>5
    <2>2. CASE q = 0
      <3>1. n * q = 0 /\ n * (q + 1) = n
        BY <1>1, <2>2
      <3> HIDE DEF n, q, L
      <3>2. i >= n
        BY DEF n
      <3> QED  BY <1>1, <1>3, <2>1, <3>1, <3>2
    <2>3. CASE q # 0
      <3>1. q > 0
        BY <1>2, <2>3
      <3>2. i # n
        <4>1. n * q >= n
          <5> HIDE DEF n, q
          <5> QED  BY <1>1, <1>2, <3>1
        <4>2. Place(i) \in Nat
          BY <1>1, <1>2
        <4> HIDE DEF n, q
        <4> QED  BY <1>1, <1>2, <1>4, <4>1, <4>2
      <3>3. k = i
        BY <1>1, <2>1, <3>1, <3>2, LeaderOnce
      <3> QED  BY <1>5, <3>3
    <2> QED  BY <2>2, <2>3
  <1>8. Position(LeaderSlot(i)) = Max(P)
    BY DEF Position
  <1>9. Max(P) \in P /\ \A k \in P : k <= Max(P)
    <2>1. P \subseteq 0..L /\ P # {}
      BY <1>5, <1>6
    <2> HIDE DEF P, L
    <2> QED  BY <1>5, <2>1, MaxFacts
  <1>10. Max(P) <= i /\ i <= Max(P) /\ Max(P) \in Nat
    <2>1. Max(P) \in Nat
      BY <1>5, <1>9
    <2> QED  BY <1>6, <1>7, <1>9, <2>1
  <1> HIDE DEF P
  <1> QED  BY <1>8, <1>10

LEMMA FirstLeader == LeaderSlot(NumberOfLeaders) = GenesisSlot
  <1> DEFINE n == NumberOfLeaders
  <1>1. n \in Nat /\ n > 0 /\ Stride \in Nat
    BY LeaderConstants
  <1>2. /\ Turn(n) \in Nat /\ Place(n) \in Nat /\ n - 1 = n * Turn(n) + Place(n)
    BY <1>1, TurnFacts
  <1> DEFINE q == Turn(n)
             x == Place(n)
  <1>3. q = 0
    <2>1. q \in Nat /\ x \in Nat /\ n - 1 = n * q + x
      BY <1>2
    <2> HIDE DEF q, x, n
    <2>2. ASSUME q >= 1  PROVE  FALSE
      <3>1. n * q >= n
        BY <1>1, <2>1, <2>2
      <3> QED  BY <1>1, <2>1, <3>1
    <2> QED  BY <2>1, <2>2
  <1>4. Stride * ((n - 1) \div n) = 0
    BY <1>1, <1>3 DEF Turn
  <1> QED  BY <1>4 DEF LeaderSlot, GenesisSlot

LEMMA FiniteMax ==
    ASSUME NEW S, S \subseteq Nat, IsFiniteSet(S), S # {}
    PROVE  Max(S) \in S /\ \A k \in S : k <= Max(S)
  <1> DEFINE R == {e \in S \X S : e[1] < e[2]}
             n == Cardinality(S)
             t == Enumeration(S, R)
  <1>1. StrictOrder(S, R)
    <2>1. \A x, y \in S : <<x, y>> \in R <=> x < y
      OBVIOUS
    <2> HIDE DEF R
    <2> QED  BY <2>1 DEF StrictOrder
  <1>2. /\ n \in Nat /\ t \in [1..n -> S]
        /\ \A d \in S : \E i \in 1..n : t[i] = d
        /\ \A i, j \in 1..n : i < j <=> <<t[i], t[j]>> \in R
    <2> HIDE DEF R
    <2> QED  BY <1>1, EnumerationFacts
  <1> HIDE DEF t
  <1>3. n \in 1..n
    <2>1. PICK d \in S : TRUE
      OBVIOUS
    <2> HIDE DEF n
    <2> QED  BY <1>2, <2>1
  <1>4. ASSUME NEW k \in S  PROVE  k <= t[n]
    <2>1. PICK i \in 1..n : t[i] = k
      BY <1>2
    <2>2. t[n] \in S
      BY <1>2, <1>3
    <2>3. CASE i = n
      <3>1. k = t[n] /\ k \in Nat
        BY <2>1, <2>3
      <3> QED  BY <3>1
    <2>4. CASE i # n
      <3>1. i < n
        <4> HIDE DEF n
        <4> QED  BY <1>2, <2>1, <2>4
      <3>2. <<t[i], t[n]>> \in R
        BY <1>2, <1>3, <2>1, <3>1
      <3>3. t[i] < t[n]
        BY <3>2
      <3>4. k \in Nat /\ t[n] \in Nat
        BY <2>2
      <3> QED  BY <2>1, <3>3, <3>4
    <2> QED  BY <2>3, <2>4
  <1>5. t[n] \in S
    BY <1>2, <1>3
  <1>6. \E m \in S : \A k \in S : m >= k
    BY <1>4, <1>5
  <1>7. Max(S) \in S /\ \A k \in S : Max(S) >= k
    BY <1>6 DEF Max
  <1> QED  BY <1>7

LEMMA HighestFacts ==
    ASSUME NEW d \in Dags, NEW V, V \subseteq DOMAIN d, V # {}
    PROVE  /\ HighestRound(V) \in Nat
           /\ \E b \in V : b[2] = HighestRound(V)
           /\ \A b \in V : b[2] <= HighestRound(V)
  <1> DEFINE S == {b[2] : b \in V}
             f == [b \in V |-> b[2]]
  <1>1. S \subseteq Nat /\ S # {}
    BY DagFacts
  <1>2. IsFiniteSet(S)
    <2>1. IsFiniteSet(V)
      BY DagAssumption, FS_Subset
    <2>2. DOMAIN f = V /\ f = [b \in V |-> f[b]] /\ {f[b] : b \in V} = S
      OBVIOUS
    <2> HIDE DEF f, S
    <2> QED  BY <2>1, <2>2, FiniteRange
  <1>3. Max(S) \in S /\ \A k \in S : k <= Max(S)
    <2> HIDE DEF S
    <2> QED  BY <1>1, <1>2, FiniteMax
  <1>4. HighestRound(V) = Max(S)
    BY DEF HighestRound
  <1> QED  BY <1>1, <1>3, <1>4

(* The leaders that are looked at when V is held. *)
Decidable(V) == LeadersUpTo(HighestRound(V) - 2)

LEMMA DecidableFacts ==
    ASSUME NEW d \in Dags, NEW V, V \subseteq DOMAIN d, V # {}
    PROVE  /\ Decidable(V) \in Nat
           /\ \A i \in NumberOfLeaders..Decidable(V) : Position(LeaderSlot(i)) = i
  <1>1. HighestRound(V) \in Nat
    BY HighestFacts
  <1>2. PICK b \in V : b[2] = HighestRound(V)
    BY HighestFacts
  <1> DEFINE r == HighestRound(V) - 2
  <1>3. Decidable(V) = LeadersUpTo(r)
    BY DEF Decidable
  <1>4. 1..r \subseteq DOMAIN elected
    <2>1. b \in DOMAIN d /\ b[2] - 2 = r
      BY <1>2
    <2> HIDE DEF r
    <2> QED  BY <2>1, DagAssumption
  <1>5. CASE r < 0
    <2>1. LeadersUpTo(r) = 0
      BY <1>5 DEF LeadersUpTo
    <2> QED  BY <1>3, <2>1, LeaderConstants
  <1>6. CASE ~ (r < 0)
    <2>1. r \in Nat
      BY <1>1, <1>6
    <2>2. LeadersUpTo(r) \in Nat /\ \A i \in 1..LeadersUpTo(r) : LeaderSlot(i)[2] <= r
      <3> HIDE DEF r
      <3> QED  BY <2>1, UpToFacts
    <2>3. ASSUME NEW i \in NumberOfLeaders..LeadersUpTo(r)  PROVE  Position(LeaderSlot(i)) = i
      <3>1. i \in Nat /\ i > 0 /\ i \in 1..LeadersUpTo(r) /\ i >= NumberOfLeaders
        BY <2>2, LeaderConstants
      <3>2. LeaderSlot(i)[2] \in Nat /\ LeaderSlot(i)[2] <= r
        BY <2>2, <3>1, TurnFacts
      <3>3. ASSUME i # NumberOfLeaders  PROVE  LeaderSlot(i)[2] > 0
        <4> DEFINE n == NumberOfLeaders
                   q == Turn(i)
                   x == Place(i)
        <4>1. /\ n \in Nat /\ n > 0 /\ Stride \in Nat /\ Stride > 0
              /\ q \in Nat /\ x \in 0..(n - 1) /\ i - 1 = n * q + x
              /\ LeaderSlot(i)[2] = Stride * q
          BY <3>1, TurnFacts, LeaderConstants
        <4>2. i - 1 >= n
          BY <3>1, <3>3, LeaderConstants
        <4> HIDE DEF n, q, x
        <4>3. q # 0
          <5>1. q = 0 => n * q = 0
            BY <4>1
          <5> QED  BY <4>1, <4>2, <5>1
        <4>4. q > 0
          BY <4>1, <4>3
        <4>5. Stride * q > 0
          BY <4>1, <4>4
        <4> QED  BY <4>1, <4>5
      <3>4. i = NumberOfLeaders \/ LeaderSlot(i)[2] \in DOMAIN elected
        <4>1. i # NumberOfLeaders => LeaderSlot(i)[2] \in 1..r
          <5> HIDE DEF r
          <5> QED  BY <2>1, <3>2, <3>3
        <4> QED  BY <1>4, <4>1
      <3> QED  BY <3>1, <3>4, PositionFacts
    <2> QED  BY <1>3, <2>2, <2>3
  <1> QED  BY <1>5, <1>6

LEMMA DecidableGrows ==
    ASSUME NEW d \in Dags, NEW W, W \subseteq DOMAIN d, NEW V, V \subseteq W, V # {}
    PROVE  Decidable(V) <= Decidable(W)
  <1> DEFINE p == HighestRound(V) - 2
             q == HighestRound(W) - 2
  <1>1. p \in Int /\ q \in Int /\ p <= q
    <2>1. HighestRound(V) \in Nat /\ \E b \in V : b[2] = HighestRound(V)
      BY HighestFacts
    <2>2. HighestRound(W) \in Nat /\ \A b \in W : b[2] <= HighestRound(W)
      BY HighestFacts
    <2>3. HighestRound(V) <= HighestRound(W)
      BY <2>1, <2>2
    <2> QED  BY <2>1, <2>2, <2>3
  <1>2. Decidable(V) = LeadersUpTo(p) /\ Decidable(W) = LeadersUpTo(q)
    BY DEF Decidable
  <1> HIDE DEF p, q
  <1>3. CASE p < 0
    <2>1. LeadersUpTo(p) = 0
      BY <1>3 DEF LeadersUpTo
    <2>2. LeadersUpTo(q) \in Nat
      <3>1. CASE q < 0
        BY <3>1 DEF LeadersUpTo
      <3>2. CASE ~ (q < 0)
        <4>1. q \in Nat
          BY <1>1, <3>2
        <4> QED  BY <4>1, UpToFacts
      <3> QED  BY <3>1, <3>2
    <2> QED  BY <1>2, <2>1, <2>2
  <1>4. CASE ~ (p < 0)
    <2>1. p \in Nat /\ q \in Nat /\ ~ (q < 0)
      BY <1>1, <1>4
    <2> DEFINE x == p \div Stride
               y == q \div Stride
    <2>2. x <= y /\ x \in Nat /\ y \in Nat
      BY <1>1, <2>1, DivideGrows, DivideFacts, LeaderConstants
    <2>3. LeadersUpTo(p) = NumberOfLeaders * (x + 1) /\ LeadersUpTo(q) = NumberOfLeaders * (y + 1)
      BY <1>4, <2>1 DEF LeadersUpTo
    <2> HIDE DEF x, y
    <2>4. NumberOfLeaders * (x + 1) <= NumberOfLeaders * (y + 1)
      BY <2>2, LeaderConstants
    <2> QED  BY <1>2, <2>3, <2>4
  <1> QED  BY <1>3, <1>4

------------------------------------------------------------------------------
(* The decided leaders *)

LEMMA PrependFacts ==
    ASSUME NEW S, NEW x \in S, NEW s \in Seq(S)
    PROVE  LET t == <<x>> \o s
           IN  /\ t \in Seq(S) /\ Len(t) = Len(s) + 1 /\ t[1] = x
               /\ \A i \in 1..Len(s) : t[i + 1] = s[i]
  <1>1. <<x>> \in Seq(S) /\ Len(<<x>>) = 1 /\ <<x>>[1] = x
    OBVIOUS
  <1> DEFINE u == <<x>>
  <1> HIDE DEF u
  <1>2. /\ u \o s \in Seq(S) /\ Len(u \o s) = Len(u) + Len(s)
        /\ \A i \in 1..(Len(u) + Len(s)) :
              (u \o s)[i] = IF i <= Len(u) THEN u[i] ELSE s[i - Len(u)]
    BY <1>1, ConcatProperties DEF u
  <1>3. Len(s) \in Nat /\ Len(u) = 1 /\ u[1] = x
    BY <1>1, LenProperties DEF u
  <1>4. ASSUME NEW i \in 1..Len(s)  PROVE  (u \o s)[i + 1] = s[i]
    <2>1. i + 1 \in 1..(Len(u) + Len(s)) /\ ~ (i + 1 <= Len(u)) /\ (i + 1) - Len(u) = i
      BY <1>3
    <2> QED  BY <1>2, <2>1
  <1>5. (u \o s)[1] = x
    <2>1. 1 \in 1..(Len(u) + Len(s)) /\ 1 <= Len(u)
      BY <1>3
    <2> QED  BY <1>2, <1>3, <2>1
  <1> QED  BY <1>2, <1>3, <1>4, <1>5 DEF u

(* All statuses that blocks of V and the leaders up to n may have. *)
StatusSet(V, n) ==
    {Commit(b) : b \in V} \cup {Skip(LeaderSlot(i)) : i \in 1..n}
                          \cup {Undecided(LeaderSlot(i)) : i \in 1..n}

LEMMA DecideAny ==
    ASSUME NEW d, NEW V, NEW n, NEW i \in 1..n, NEW s
    PROVE  Decide(d, V, LeaderSlot(i), s) \in StatusSet(V, n)
  <1> DEFINE slot == LeaderSlot(i)
             T == {Commit(b) : b \in V} \cup {Skip(slot), Undecided(slot)}
  <1>1. ASSUME NEW X, X \subseteq V, X # {}  PROVE  CommitAny(X) \in T
    <2>1. (CHOOSE b \in X : TRUE) \in V
      BY <1>1
    <2> QED  BY <2>1 DEF CommitAny
  <1>2. TryDirectDecide(d, V, slot) \in T
    <2> DEFINE X == {b \in V : Slot(b) = slot /\ EnoughLeaderSupport(d, V, b)}
    <2>1. X \subseteq V
      OBVIOUS
    <2>2. TryDirectDecide(d, V, slot) = IF EnoughLeaderBlame(d, V, slot) THEN Skip(slot)
                                        ELSE IF X # {} THEN CommitAny(X) ELSE Undecided(slot)
      BY DEF TryDirectDecide
    <2>3. X # {} => CommitAny(X) \in T
      <3> HIDE DEF X, T
      <3> QED  BY <1>1, <2>1
    <2> HIDE DEF X
    <2> QED  BY <2>2, <2>3
  <1>3. ASSUME NEW a  PROVE  DecideLeaderFromAnchor(d, V, a, slot) \in T
    <2> DEFINE X == {b \in V : /\ Slot(b) = slot
                               /\ \E c \in LinkedToRound(d, V, a, slot[2] + WaveLength - 1) :
                                     IsCertificate(d, b, c)}
    <2>1. X \subseteq V
      OBVIOUS
    <2>2. DecideLeaderFromAnchor(d, V, a, slot) = IF X # {} THEN CommitAny(X) ELSE Skip(slot)
      BY DEF DecideLeaderFromAnchor
    <2>3. X # {} => CommitAny(X) \in T
      <3> HIDE DEF X, T
      <3> QED  BY <1>1, <2>1
    <2> HIDE DEF X
    <2> QED  BY <2>2, <2>3
  <1>4. TryIndirectDecide(d, V, slot, s) \in T
    <2>1. Undecided(slot) \in T
      OBVIOUS
    <2> HIDE DEF T
    <2> QED  BY <1>3, <2>1 DEF TryIndirectDecide
  <1>5. Decide(d, V, slot, s) \in T
    <2> HIDE DEF T
    <2> QED  BY <1>2, <1>4 DEF Decide
  <1>6. T \subseteq StatusSet(V, n)
    BY DEF StatusSet
  <1> HIDE DEF T
  <1> QED  BY <1>5, <1>6

IsDeciding(f, d, V, n) ==
    f = [k \in 0..n |->
            IF k = 0 THEN << >>
            ELSE <<Decide(d, V, LeaderSlot(n + 1 - k), f[k - 1])>> \o f[k - 1]]

(* f[k] has the statuses of the k newest leaders. *)
Leading(f, d, V) ==
    LET n == Decidable(V)
    IN  /\ f[0] = << >>
        /\ \A k \in 1..n :
              f[k] = <<Decide(d, V, LeaderSlot(n + 1 - k), f[k - 1])>> \o f[k - 1]

(* The statuses before the first that is undecided. *)
Decided(s) ==
    LET open == {i \in DOMAIN s : s[i].kind = "undecided"}
    IN  SubSeq(s, 1, Min({Len(s) + 1} \cup open) - 1)

HasStatuses(d, V) ==
    \E f : /\ Leading(f, d, V)
           /\ \A last : TryCommit(d, V, last) =
                 Decided(IF Decidable(V) > Position(last) THEN f[Decidable(V) - Position(last)]
                     ELSE << >>)

LEMMA DecidingExists ==
    ASSUME NEW d, NEW V, NEW n \in Nat
    PROVE  \E f : IsDeciding(f, d, V, n)
  <1> DEFINE S == Seq(StatusSet(V, n))
             Step(k, s) == <<Decide(d, V, LeaderSlot(n + 1 - k), s)>> \o s
             g == [e \in S \X (1..n) |-> Step(e[2], e[1])]
  <1>1. ASSUME NEW s \in S, NEW k \in 1..n  PROVE  Step(k, s) \in S
    <2>1. n + 1 - k \in 1..n
      OBVIOUS
    <2> DEFINE x == Decide(d, V, LeaderSlot(n + 1 - k), s)
    <2>2. x \in StatusSet(V, n)
      BY <2>1, DecideAny
    <2> HIDE DEF x
    <2>3. <<x>> \o s \in S
      BY <2>2, PrependFacts
    <2> QED  BY <2>3 DEF x
  <1>2. \A s \in S, k \in 1..n : g[<<s, k>>] = Step(k, s)
    OBVIOUS
  <1>3. g \in [S \X (1..n) -> S]
    <2> HIDE DEF S, Step
    <2>1. \A e \in S \X (1..n) : Step(e[2], e[1]) \in S
      BY <1>1
    <2> QED  BY <2>1
  <1>4. << >> \in S
    OBVIOUS
  <1> HIDE DEF g, S
  <1>5. PICK f \in [0..n -> S] : IsIteration(f, << >>, g, n)
    BY <1>3, <1>4, Iterates
  <1>6. ASSUME NEW k \in 0..n, k # 0  PROVE  g[<<f[k - 1], k>>] = Step(k, f[k - 1])
    <2>1. k \in 1..n /\ k - 1 \in 0..n
      BY <1>6
    <2> HIDE DEF Step
    <2> QED  BY <1>2, <1>5, <2>1
  <1>7. f = [k \in 0..n |-> IF k = 0 THEN << >> ELSE Step(k, f[k - 1])]
    <2> HIDE DEF Step
    <2>1. \A k \in 0..n : (IF k = 0 THEN << >> ELSE g[<<f[k - 1], k>>])
                             = (IF k = 0 THEN << >> ELSE Step(k, f[k - 1]))
      BY <1>6
    <2> QED  BY <1>5, <2>1 DEF IsIteration
  <1> QED  BY <1>7 DEF IsDeciding

LEMMA StatusStages ==
    ASSUME NEW d \in Dags, NEW V, V \subseteq DOMAIN d, V # {}
    PROVE  HasStatuses(d, V)
  <1> DEFINE n == Decidable(V)
             f == CHOOSE h : IsDeciding(h, d, V, n)
  <1>1. n \in Nat
    BY DecidableFacts
  <1>2. IsDeciding(f, d, V, n)
    <2> HIDE DEF n
    <2> QED  BY <1>1, DecidingExists
  <1>3. \A last : TryCommit(d, V, last) = Decided(IF n > Position(last) THEN f[n - Position(last)]
                                                  ELSE << >>)
    BY DEF TryCommit, Decided, IsDeciding, Decidable
  <1> HIDE DEF f, n
  <1>4. f[0] = << >>
    BY <1>1, <1>2 DEF IsDeciding
  <1>5. ASSUME NEW k \in 1..n
        PROVE  f[k] = <<Decide(d, V, LeaderSlot(n + 1 - k), f[k - 1])>> \o f[k - 1]
    <2>1. k \in 0..n /\ k # 0
      BY <1>1
    <2> QED  BY <1>2, <2>1 DEF IsDeciding
  <1> QED  BY <1>3, <1>4, <1>5 DEF n, HasStatuses, Leading

(* The leaders up to n are decided newest first, each from the later ones. *)
LEMMA LeadingFacts ==
    ASSUME NEW d \in Dags, NEW V, Closed(d, V), V # {}, NEW f, Leading(f, d, V)
    PROVE  \A k \in 0..Decidable(V) :
              /\ f[k] \in Seq(StatusSet(V, Decidable(V))) /\ Len(f[k]) = k
              /\ Statuses(V, f[k])
              /\ \A i \in 1..k : f[k][i].slot = LeaderSlot(Decidable(V) - k + i)
  <1> DEFINE n == Decidable(V)
             S == StatusSet(V, n)
             OK(k) == /\ f[k] \in Seq(S) /\ Len(f[k]) = k
                      /\ Statuses(V, f[k])
                      /\ \A i \in 1..k : f[k][i].slot = LeaderSlot(n - k + i)
             G == {k \in 0..n : OK(k)}
  <1>1. n \in Nat
    BY DecidableFacts DEF Closed
  <1>2. 0 \in G
    <2>1. f[0] = << >>
      BY DEF Leading
    <2>2. Len(f[0]) = 0 /\ f[0] \in Seq(S) /\ DOMAIN f[0] = 1..Len(f[0])
      BY <2>1
    <2>3. Statuses(V, f[0])
      BY <2>2 DEF Statuses
    <2>4. OK(0)
      BY <2>2, <2>3
    <2> HIDE DEF OK, n
    <2> QED  BY <1>1, <2>4
  <1>3. ASSUME NEW k \in 1..n, k - 1 \in G  PROVE  k \in G
    <2> DEFINE s == f[k - 1]
               slot == LeaderSlot(n + 1 - k)
               x == Decide(d, V, slot, s)
    <2>1. f[k] = <<x>> \o s
      BY DEF Leading
    <2>2. OK(k - 1)
      BY <1>3
    <2>3. s \in Seq(S) /\ Len(s) = k - 1 /\ Statuses(V, s)
      BY <2>2
    <2>4. n + 1 - k \in 1..n /\ n + 1 - k \in Nat /\ n + 1 - k > 0
      <3> HIDE DEF n
      <3> QED  BY <1>1
    <2>5. x \in S
      BY <2>4, DecideAny
    <2>6. slot[2] \in Nat
      <3> HIDE DEF n
      <3> QED  BY <2>4, TurnFacts
    <2>7. IsStatus(V, slot, x) /\ x.slot = slot
      <3> HIDE DEF slot, s
      <3> QED  BY <2>3, <2>6, DecideFacts
    <2>8. /\ f[k] \in Seq(S) /\ Len(f[k]) = Len(s) + 1 /\ f[k][1] = x
          /\ \A i \in 1..Len(s) : f[k][i + 1] = s[i]
      <3> HIDE DEF x, s, S
      <3>1. x \in S /\ s \in Seq(S)
        BY <2>3, <2>5
      <3> DEFINE u == <<x>> \o s
      <3>2. /\ u \in Seq(S) /\ Len(u) = Len(s) + 1 /\ u[1] = x
            /\ \A i \in 1..Len(s) : u[i + 1] = s[i]
        BY <3>1, PrependFacts
      <3>3. f[k] = u
        BY <2>1
      <3> HIDE DEF u
      <3> QED  BY <3>2, <3>3
    <2>9. Len(f[k]) = k /\ DOMAIN f[k] = 1..k
      <3>1. Len(f[k]) = k
        BY <2>3, <2>8
      <3>2. DOMAIN f[k] = 1..Len(f[k])
        <4> HIDE DEF S
        <4> QED  BY <2>8, LenProperties
      <3> QED  BY <3>1, <3>2
    <2>10. ASSUME NEW i \in 1..k
           PROVE  /\ f[k][i].slot = LeaderSlot(n - k + i) /\ f[k][i].slot[2] \in Nat
                  /\ IsStatus(V, f[k][i].slot, f[k][i])
      <3>1. CASE i = 1
        <4>1. n - k + i = n + 1 - k
          <5> HIDE DEF n
          <5> QED  BY <1>1, <3>1
        <4> QED  BY <2>6, <2>7, <2>8, <3>1, <4>1
      <3>2. CASE i # 1
        <4>1. i - 1 \in 1..(k - 1) /\ (i - 1) + 1 = i /\ n - (k - 1) + (i - 1) = n - k + i
          <5> HIDE DEF n
          <5> QED  BY <1>1, <3>2
        <4>2. f[k][i] = s[i - 1]
          BY <2>3, <2>8, <4>1
        <4>3. s[i - 1].slot = LeaderSlot(n - k + i)
          BY <2>2, <4>1
        <4>4. s[i - 1].slot[2] \in Nat /\ IsStatus(V, s[i - 1].slot, s[i - 1])
          BY <2>3, <4>1 DEF Statuses
        <4> QED  BY <4>2, <4>3, <4>4
      <3> QED  BY <3>1, <3>2
    <2>11. Statuses(V, f[k])
      <3>1. k \in Nat
        OBVIOUS
      <3> HIDE DEF n
      <3> QED  BY <2>9, <2>10, <3>1 DEF Statuses
    <2>12. OK(k)
      BY <2>8, <2>9, <2>10, <2>11
    <2> HIDE DEF OK, n
    <2> QED  BY <1>1, <2>12
  <1>4. \A k \in 0..n : k \in G
    <2> HIDE DEF G, n
    <2> QED  BY <1>1, <1>2, <1>3, UpTo
  <1>5. \A k \in 0..n : OK(k)
    BY <1>4
  <1> QED  BY <1>5

(* A longer list of leaders ends with a shorter one. *)
LEMMA LeadingTails ==
    ASSUME NEW d \in Dags, NEW V, Closed(d, V), V # {}, NEW f, Leading(f, d, V),
           NEW k \in 0..Decidable(V)
    PROVE  \A m \in 0..(Decidable(V) - k) : \A i \in 1..k : f[k + m][i + m] = f[k][i]
  <1> DEFINE n == Decidable(V)
             S == StatusSet(V, n)
             OK(m) == \A i \in 1..k : f[k + m][i + m] = f[k][i]
             G == {m \in 0..(n - k) : OK(m)}
  <1>1. n \in Nat /\ k \in 0..n /\ n - k \in Nat
    <2>1. n \in Nat
      BY DecidableFacts DEF Closed
    <2> HIDE DEF n
    <2>2. k \in 0..n
      BY DEF n
    <2> QED  BY <2>1, <2>2
  <1>2. 0 \in G
    <2>1. k + 0 = k /\ \A i \in 1..k : i + 0 = i
      BY <1>1
    <2>2. OK(0)
      BY <2>1
    <2> HIDE DEF OK, n
    <2> QED  BY <1>1, <2>2
  <1>3. ASSUME NEW m \in 1..(n - k), m - 1 \in G  PROVE  m \in G
    <2>1. OK(m - 1)
      BY <1>3
    <2> DEFINE l == k + m
               s == f[l - 1]
               x == Decide(d, V, LeaderSlot(n + 1 - l), s)
    <2>2. l \in 1..n /\ l - 1 \in 0..n /\ l - 1 = k + (m - 1) /\ n + 1 - l \in 1..n
      <3> HIDE DEF n
      <3> QED  BY <1>1
    <2>3. f[l] = <<x>> \o s
      <3> HIDE DEF l
      <3> QED  BY <2>2 DEF Leading
    <2>4. s \in Seq(S) /\ Len(s) = l - 1
      <3> DEFINE h == l - 1
      <3>1. h \in 0..Decidable(V)
        BY <2>2
      <3> HIDE DEF h
      <3>2. f[h] \in Seq(StatusSet(V, Decidable(V))) /\ Len(f[h]) = h
        BY <3>1, LeadingFacts
      <3> QED  BY <3>2 DEF h
    <2>5. x \in S
      <3> HIDE DEF s, l
      <3> QED  BY <2>2, DecideAny
    <2>6. \A i \in 1..Len(s) : f[l][i + 1] = s[i]
      <3> HIDE DEF x, s, S
      <3> QED  BY <2>3, <2>4, <2>5, PrependFacts
    <2>7. ASSUME NEW i \in 1..k  PROVE  f[l][i + m] = f[k][i]
      <3>1. i + (m - 1) \in 1..(l - 1) /\ (i + (m - 1)) + 1 = i + m
        <4> HIDE DEF n
        <4> QED  BY <1>1
      <3>2. f[l][i + m] = s[i + (m - 1)]
        <4> HIDE DEF s, l
        <4>1. f[l][(i + (m - 1)) + 1] = s[i + (m - 1)]
          BY <2>4, <2>6, <3>1
        <4> QED  BY <3>1, <4>1
      <3>3. s[i + (m - 1)] = f[k][i]
        <4>1. s = f[k + (m - 1)]
          BY <2>2
        <4> HIDE DEF s, l
        <4> QED  BY <2>1, <4>1
      <3> QED  BY <3>2, <3>3
    <2>8. OK(m)
      BY <2>7
    <2> HIDE DEF OK, n
    <2> QED  BY <1>1, <2>8
  <1>4. \A m \in 0..(n - k) : m \in G
    <2> HIDE DEF G, n
    <2> QED  BY <1>1, <1>2, <1>3, UpTo
  <1>5. \A m \in 0..(n - k) : OK(m)
    BY <1>4
  <1> QED  BY <1>5

(* What is decided with fewer blocks is decided so with more. *)
LEMMA LeadingConfirmed ==
    ASSUME NEW d \in Dags, NEW V, Closed(d, V), V # {}, NEW W, Closed(d, W), V \subseteq W,
           NEW f, Leading(f, d, V), NEW g, Leading(g, d, W)
    PROVE  \A k \in 0..Decidable(V) : Confirmed(f[k], g[k + (Decidable(W) - Decidable(V))])
  <1> DEFINE n == Decidable(V)
             m == Decidable(W)
             c == m - n
             OK(k) == Confirmed(f[k], g[k + c])
             G == {k \in 0..n : OK(k)}
  <1>1. n \in Nat /\ m \in Nat /\ c \in Nat
    <2>1. n \in Nat /\ m \in Nat
      BY DecidableFacts DEF Closed
    <2>2. n <= m
      BY DecidableGrows DEF Closed
    <2> HIDE DEF n, m
    <2> QED  BY <2>1, <2>2
  <1>2. \A k \in 0..n : k + c \in 0..m /\ m - (k + c) = n - k
    <2> HIDE DEF n, m
    <2> QED  BY <1>1
  <1>3. ASSUME NEW k \in 0..n
        PROVE  /\ Len(f[k]) = k /\ Len(g[k + c]) = k + c /\ k <= k + c
               /\ Statuses(V, f[k]) /\ Statuses(W, g[k + c])
               /\ f[k] \in Seq(StatusSet(V, n)) /\ g[k + c] \in Seq(StatusSet(W, m))
    <2>1. k + c \in 0..m /\ k <= k + c
      <3>1. k \in Nat /\ c \in Nat
        BY <1>1
      <3> HIDE DEF c
      <3> QED  BY <1>2, <3>1
    <2> HIDE DEF c
    <2> QED  BY <2>1, LeadingFacts
  <1>4. 0 \in G
    <2>1. 0 \in 0..n
      <3> HIDE DEF n
      <3> QED  BY <1>1
    <2>2. Len(f[0]) = 0 /\ Len(f[0]) <= Len(g[0 + c])
      <3>1. Len(f[0]) = 0 /\ Len(g[0 + c]) = 0 + c /\ 0 <= 0 + c
        BY <1>3, <2>1
      <3> HIDE DEF c
      <3> QED  BY <3>1
    <2>3. OK(0)
      <3> HIDE DEF c
      <3> QED  BY <2>2 DEF Confirmed
    <2> HIDE DEF OK, n
    <2> QED  BY <2>1, <2>3
  <1>5. ASSUME NEW k \in 1..n, k - 1 \in G  PROVE  k \in G
    <2> DEFINE s == f[k - 1]
               t == g[(k - 1) + c]
               slot == LeaderSlot(n + 1 - k)
               x == Decide(d, V, slot, s)
               y == Decide(d, W, slot, t)
    <2>1. Confirmed(s, t)
      BY <1>5
    <2>2. k \in 0..n /\ k - 1 \in 0..n /\ k \in Nat
      <3> HIDE DEF n
      <3> QED  BY <1>1
    <2>3. /\ k + c \in 1..m /\ (k + c) - 1 = (k - 1) + c
          /\ m + 1 - (k + c) = n + 1 - k /\ n + 1 - k \in 1..n
          /\ m + 1 - (k + c) \in 1..m
      <3> HIDE DEF n, m
      <3> QED  BY <1>1
    <2>4. f[k] = <<x>> \o s
      BY DEF Leading
    <2>5. g[k + c] = <<y>> \o t
      <3> DEFINE l == k + c
      <3>1. l \in 1..m /\ l - 1 = (k - 1) + c /\ m + 1 - l = n + 1 - k
        BY <2>3
      <3> HIDE DEF l, c
      <3>2. g[l] = <<Decide(d, W, LeaderSlot(m + 1 - l), g[l - 1])>> \o g[l - 1]
        BY <3>1 DEF Leading
      <3>3. g[l] = <<y>> \o t
        BY <3>1, <3>2
      <3> QED  BY <3>3 DEF l
    <2>6. /\ Statuses(V, s) /\ Len(s) = k - 1 /\ s \in Seq(StatusSet(V, n))
          /\ Statuses(W, t) /\ Len(t) = (k - 1) + c /\ t \in Seq(StatusSet(W, m))
      <3> HIDE DEF c
      <3> QED  BY <1>3, <2>2
    <2>7. x \in StatusSet(V, n)
      BY <2>3, DecideAny
    <2>8. y \in StatusSet(W, m)
      <3>1. y = Decide(d, W, LeaderSlot(m + 1 - (k + c)), t)
        BY <2>3
      <3> DEFINE j == m + 1 - (k + c)
      <3>2. j \in 1..m
        BY <2>3
      <3> HIDE DEF j
      <3>3. Decide(d, W, LeaderSlot(j), t) \in StatusSet(W, m)
        BY <3>2, DecideAny
      <3> QED  BY <3>1, <3>3 DEF j
    <2>9. slot[2] \in Nat
      <3>1. n + 1 - k \in Nat /\ n + 1 - k > 0
        <4> HIDE DEF n
        <4> QED  BY <1>1
      <3> HIDE DEF n
      <3> QED  BY <3>1, TurnFacts
    <2> DEFINE p == f[k]
               q == g[k + c]
    <2>10. /\ Len(p) = Len(s) + 1 /\ p[1] = x
           /\ \A i \in 1..Len(s) : p[i + 1] = s[i]
      <3> HIDE DEF x, s, n
      <3> QED  BY <2>4, <2>6, <2>7, PrependFacts
    <2>11. /\ Len(q) = Len(t) + 1 /\ q[1] = y
           /\ \A i \in 1..Len(t) : q[i + 1] = t[i]
      <3> HIDE DEF y, t, m, c
      <3> QED  BY <2>5, <2>6, <2>8, PrependFacts
    <2>12. x.slot = slot /\ y.slot = slot
      <3> HIDE DEF slot, s, t
      <3> QED  BY <2>6, <2>9, DecideFacts
    <2>13. x.kind # "undecided" => y = x
      <3> HIDE DEF slot, s, t
      <3> QED  BY <2>1, <2>6, <2>9, DecideKeeps
    <2> HIDE DEF x, y, s, t, p, q, slot
    <2>14. Len(p) = k /\ Len(q) = k + c /\ Len(s) = k - 1 /\ Len(t) = (k - 1) + c /\ k <= k + c
      <3>1. c \in Nat /\ k \in Nat
        BY <1>1
      <3> HIDE DEF c
      <3> QED  BY <2>6, <2>10, <2>11, <3>1
    <2>15. ASSUME NEW i \in 1..Len(p)
           PROVE  q[i].slot = p[i].slot /\ (p[i].kind # "undecided" => q[i] = p[i])
      <3>1. CASE i = 1
        BY <2>10, <2>11, <2>12, <2>13, <3>1
      <3>2. CASE i # 1
        <4>1. i - 1 \in 1..Len(s) /\ i - 1 \in 1..Len(t) /\ (i - 1) + 1 = i
          <5>1. c \in Nat
            BY <1>1
          <5> HIDE DEF c
          <5> QED  BY <2>2, <2>14, <3>2, <5>1
        <4> DEFINE h == i - 1
        <4>2. h \in 1..Len(s) /\ h \in 1..Len(t) /\ h + 1 = i
          BY <4>1
        <4> HIDE DEF h
        <4>3. p[i] = s[h] /\ q[i] = t[h]
          BY <2>10, <2>11, <4>2
        <4>4. t[h].slot = s[h].slot /\ (s[h].kind # "undecided" => t[h] = s[h])
          BY <2>1, <4>2 DEF Confirmed
        <4> QED  BY <4>3, <4>4
      <3> QED  BY <3>1, <3>2
    <2>16. Confirmed(p, q)
      <3>1. Len(p) <= Len(q)
        BY <2>14
      <3> QED  BY <2>15, <3>1 DEF Confirmed
    <2>17. OK(k)
      BY <2>16 DEF p, q
    <2> HIDE DEF OK, n
    <2> QED  BY <2>2, <2>17
  <1>6. \A k \in 0..n : k \in G
    <2> HIDE DEF G, n
    <2> QED  BY <1>1, <1>4, <1>5, UpTo
  <1>7. \A k \in 0..n : OK(k)
    BY <1>6
  <1> QED  BY <1>7

LEMMA DecidedFacts ==
    ASSUME NEW S, NEW s \in Seq(S)
    PROVE  /\ Decided(s) \in Seq(S) /\ Len(Decided(s)) <= Len(s)
           /\ \A i \in 1..Len(Decided(s)) : Decided(s)[i] = s[i] /\ s[i].kind # "undecided"
           /\ \A k \in 0..Len(s) :
                 (\A i \in 1..k : s[i].kind # "undecided") => k <= Len(Decided(s))
  <1> DEFINE open == {i \in DOMAIN s : s[i].kind = "undecided"}
             E == {Len(s) + 1} \cup open
             m == Min(E)
  <1>1. Len(s) \in Nat /\ DOMAIN s = 1..Len(s)
    BY LenProperties
  <1>2. E \subseteq 1..(Len(s) + 1) /\ Len(s) + 1 \in E
    BY <1>1
  <1>3. m \in E /\ \A e \in E : m <= e
    <2>1. E \subseteq Nat /\ E # {}
      BY <1>1, <1>2
    <2> HIDE DEF E
    <2> QED  BY <2>1, MinFacts
  <1>4. m \in 1..(Len(s) + 1) /\ m - 1 \in 0..Len(s)
    <2>1. m \in 1..(Len(s) + 1)
      BY <1>2, <1>3
    <2> HIDE DEF m
    <2> QED  BY <1>1, <2>1
  <1>5. Decided(s) = SubSeq(s, 1, m - 1)
    BY DEF Decided
  <1> HIDE DEF m
  <1>6. ASSUME NEW c, c = m - 1
        PROVE  /\ SubSeq(s, 1, c) \in Seq(S) /\ Len(SubSeq(s, 1, c)) = c
               /\ \A i \in 1..c : SubSeq(s, 1, c)[i] = s[i]
    <2>1. c \in 0..Len(s)
      BY <1>4, <1>6
    <2> QED  BY <1>1, <2>1, SubSeqProperties
  <1>7. /\ Decided(s) \in Seq(S) /\ Len(Decided(s)) = m - 1
        /\ \A i \in 1..(m - 1) : Decided(s)[i] = s[i]
    BY <1>5, <1>6
  <1>8. ASSUME NEW i \in 1..(m - 1)  PROVE  s[i].kind # "undecided"
    <2>1. i \in 1..Len(s) /\ ~ (m <= i)
      BY <1>1, <1>4
    <2>2. i \notin E
      BY <1>3, <2>1
    <2> QED  BY <1>1, <2>1, <2>2
  <1>9. ASSUME NEW k \in 0..Len(s), \A i \in 1..k : s[i].kind # "undecided"
        PROVE  k <= m - 1
    <2>1. CASE m = Len(s) + 1
      <3>1. m - 1 = Len(s) /\ k <= Len(s)
        BY <1>1, <2>1
      <3> QED  BY <3>1
    <2>2. CASE m \in open
      <3>1. s[m].kind = "undecided"
        BY <2>2
      <3>2. m \notin 1..k
        BY <1>9, <3>1
      <3> HIDE DEF open, E
      <3> QED  BY <1>1, <1>4, <3>2
    <2> QED  BY <1>3, <2>1, <2>2
  <1> QED  BY <1>1, <1>4, <1>7, <1>8, <1>9

(* The leaders that a replica with the whole dag has decided. *)
WholeLeaders(d) == TryCommit(d, DOMAIN d, GenesisSlot)

LEMMA WholeFacts ==
    ASSUME NEW d \in Dags
    PROVE  LET s == WholeLeaders(d)
           IN  /\ Len(s) \in Nat /\ DOMAIN s = 1..Len(s)
               /\ \A i \in 1..Len(s) :
                     /\ s[i].slot = LeaderSlot(NumberOfLeaders + i)
                     /\ s[i].kind # "undecided" /\ IsStatus(DOMAIN d, s[i].slot, s[i])
               /\ \A j \in 0..Len(s) :
                     Position(LeaderSlot(NumberOfLeaders + j)) = NumberOfLeaders + j
  <1> DEFINE W == DOMAIN d
             n == Decidable(W)
             N == NumberOfLeaders
             s == WholeLeaders(d)
  <1>1. W # {} /\ Closed(d, W)
    <2>1. AtRound(W, 0) # {}
      BY DagAssumption
    <2> QED  BY <2>1, WholeIsClosed DEF AtRound
  <1>2. N \in Nat /\ N > 0
    BY LeaderConstants
  <1>3. n \in Nat /\ \A i \in N..n : Position(LeaderSlot(i)) = i
    BY <1>1, DecidableFacts
  <1>4. Position(GenesisSlot) = N
    <2>1. Position(LeaderSlot(N)) = N
      BY <1>2, PositionFacts
    <2> QED  BY <2>1, FirstLeader
  <1>5. PICK g : /\ Leading(g, d, W)
                 /\ s = Decided(IF n > N THEN g[n - N] ELSE << >>)
    <2>1. HasStatuses(d, W)
      BY <1>1, StatusStages
    <2>2. PICK g : /\ Leading(g, d, W)
                   /\ \A last : TryCommit(d, W, last) =
                        Decided(IF n > Position(last) THEN g[n - Position(last)] ELSE << >>)
      BY <2>1 DEF HasStatuses
    <2>3. s = Decided(IF n > N THEN g[n - N] ELSE << >>)
      BY <1>4, <2>2 DEF WholeLeaders
    <2> QED  BY <2>2, <2>3
  <1> HIDE DEF s
  <1>6. CASE ~ (n > N)
    <2>1. << >> \in Seq({}) /\ Len(<< >>) = 0
      OBVIOUS
    <2>2. Decided(<< >>) \in Seq({}) /\ Len(Decided(<< >>)) <= 0
      BY <2>1, DecidedFacts
    <2>3. Len(s) = 0 /\ DOMAIN s = 1..Len(s)
      <3>1. s \in Seq({}) /\ Len(s) <= 0
        BY <1>5, <1>6, <2>2
      <3> QED  BY <3>1, LenProperties
    <2>4. \A j \in 0..Len(s) : Position(LeaderSlot(N + j)) = N + j
      <3>1. Position(LeaderSlot(N)) = N
        BY <1>4, FirstLeader
      <3>2. \A j \in 0..Len(s) : N + j = N
        BY <1>2, <2>3
      <3> QED  BY <3>1, <3>2
    <2> QED  BY <2>3, <2>4 DEF s
  <1>7. CASE n > N
    <2> DEFINE k == n - N
               t == g[k]
               S == StatusSet(W, n)
    <2>1. k \in 0..n /\ k \in Nat /\ n - k = N
      <3> HIDE DEF n
      <3> QED  BY <1>2, <1>3, <1>7
    <2>2. /\ t \in Seq(S) /\ Len(t) = k /\ Statuses(W, t)
          /\ \A i \in 1..k : t[i].slot = LeaderSlot(n - k + i)
      <3> HIDE DEF k, n
      <3>1. k \in 0..Decidable(W)
        BY <2>1 DEF n
      <3> HIDE DEF W
      <3> QED  BY <1>1, <1>5, <3>1, LeadingFacts DEF n
    <2>3. s = Decided(t)
      BY <1>5, <1>7
    <2> HIDE DEF t, S
    <2>4. /\ s \in Seq(S) /\ Len(s) <= k
          /\ \A i \in 1..Len(s) : s[i] = t[i] /\ t[i].kind # "undecided"
      BY <2>2, <2>3, DecidedFacts
    <2>5. Len(s) \in Nat /\ DOMAIN s = 1..Len(s)
      BY <2>4, LenProperties
    <2>6. ASSUME NEW i \in 1..Len(s)
          PROVE  /\ s[i].slot = LeaderSlot(N + i)
                 /\ s[i].kind # "undecided" /\ IsStatus(W, s[i].slot, s[i])
      <3>1. i \in 1..k
        <4> HIDE DEF k
        <4> QED  BY <2>1, <2>4, <2>5
      <3>2. t[i].slot = LeaderSlot(N + i)
        <4> HIDE DEF k, n
        <4> QED  BY <2>1, <2>2, <3>1
      <3>3. IsStatus(W, t[i].slot, t[i])
        BY <2>2, <3>1 DEF Statuses
      <3> QED  BY <2>4, <3>2, <3>3
    <2>7. ASSUME NEW j \in 0..Len(s)  PROVE  Position(LeaderSlot(N + j)) = N + j
      <3>1. N + j \in N..n
        <4> HIDE DEF k, n
        <4>1. k = n - N
          BY DEF k
        <4>2. j \in Nat /\ j <= k /\ k \in Nat
          BY <2>1, <2>4, <2>5
        <4>3. N \in Nat /\ n \in Nat
          BY <1>2, <1>3
        <4> HIDE DEF N
        <4> QED  BY <4>1, <4>2, <4>3
      <3> QED  BY <1>3, <3>1
    <2> QED  BY <2>5, <2>6, <2>7 DEF s
  <1> QED  BY <1>6, <1>7

(* Whatever is held, the next leaders decided are those that a replica     *)
(* with the whole dag decides.                                             *)
LEMMA CommitAgrees ==
    ASSUME NEW d \in Dags, NEW V, Closed(d, V), V # {}, NEW j \in 0..Len(WholeLeaders(d))
    PROVE  LET s == WholeLeaders(d)
               t == TryCommit(d, V, LeaderSlot(NumberOfLeaders + j))
           IN  /\ Len(t) \in Nat /\ DOMAIN t = 1..Len(t) /\ (Len(t) = 0 => t = << >>)
               /\ j + Len(t) <= Len(s)
               /\ \A i \in 1..Len(t) : t[i] = s[j + i]
  <1> DEFINE W == DOMAIN d
             n == Decidable(V)
             m == Decidable(W)
             N == NumberOfLeaders
             p == N + j
             s == WholeLeaders(d)
             t == TryCommit(d, V, LeaderSlot(p))
  <1>1. W # {} /\ Closed(d, W) /\ V \subseteq W
    <2>1. AtRound(W, 0) # {}
      BY DagAssumption
    <2> QED  BY <2>1, WholeIsClosed DEF AtRound, Closed
  <1>2. N \in Nat /\ N > 0
    BY LeaderConstants
  <1>3. n \in Nat /\ m \in Nat /\ n <= m
    BY <1>1, DecidableFacts, DecidableGrows
  <1>4. Len(s) \in Nat /\ j \in 0..Len(s) /\ j \in Nat /\ p \in Nat /\ Position(LeaderSlot(p)) = p
    <2>1. Len(s) \in Nat
      BY WholeFacts
    <2>2. Position(LeaderSlot(p)) = p
      BY WholeFacts
    <2> HIDE DEF s
    <2>3. j \in 0..Len(s)
      BY DEF s
    <2> QED  BY <1>2, <2>1, <2>2, <2>3
  <1>5. PICK f : /\ Leading(f, d, V)
                 /\ t = Decided(IF n > p THEN f[n - p] ELSE << >>)
    <2>1. HasStatuses(d, V)
      BY <1>1, StatusStages
    <2>2. PICK f : /\ Leading(f, d, V)
                   /\ \A last : TryCommit(d, V, last) =
                        Decided(IF n > Position(last) THEN f[n - Position(last)] ELSE << >>)
      BY <2>1 DEF HasStatuses
    <2>3. t = Decided(IF n > p THEN f[n - p] ELSE << >>)
      <3> HIDE DEF p
      <3> QED  BY <1>4, <2>2
    <2> QED  BY <2>2, <2>3
  <1>6. CASE ~ (n > p)
    <2>1. << >> \in Seq({}) /\ Len(<< >>) = 0
      OBVIOUS
    <2>2. Decided(<< >>) \in Seq({}) /\ Len(Decided(<< >>)) <= 0
      BY <2>1, DecidedFacts
    <2> HIDE DEF t, s, p
    <2>3. Len(t) = 0 /\ DOMAIN t = 1..Len(t) /\ t = << >>
      <3>1. t \in Seq({}) /\ Len(t) <= 0
        BY <1>5, <1>6, <2>2
      <3>2. Len(t) = 0 /\ DOMAIN t = 1..Len(t)
        BY <3>1, LenProperties
      <3> QED  BY <3>1, <3>2
    <2>4. Len(t) \in Nat /\ j + Len(t) <= Len(s) /\ \A i \in 1..Len(t) : t[i] = s[j + i]
      BY <1>4, <2>3
    <2> QED  BY <2>3, <2>4 DEF s, t, p
  <1>7. CASE n > p
    <2>1. PICK g : /\ Leading(g, d, W)
                   /\ s = Decided(IF m > N THEN g[m - N] ELSE << >>)
      <3>1. HasStatuses(d, W)
        BY <1>1, StatusStages
      <3>2. PICK g : /\ Leading(g, d, W)
                     /\ \A last : TryCommit(d, W, last) =
                          Decided(IF m > Position(last) THEN g[m - Position(last)] ELSE << >>)
        BY <3>1 DEF HasStatuses
      <3>3. Position(GenesisSlot) = N
        <4>1. Position(LeaderSlot(N)) = N
          BY <1>2, PositionFacts
        <4> QED  BY <4>1, FirstLeader
      <3>4. s = Decided(IF m > N THEN g[m - N] ELSE << >>)
        BY <3>2, <3>3 DEF WholeLeaders
      <3> QED  BY <3>2, <3>4
    <2> DEFINE k == n - p
               h == m - p
               u == f[k]
               y == g[h]
               w == g[m - N]
    <2>2. /\ k \in 0..n /\ h \in 0..m /\ m - N \in 0..m /\ k \in Nat /\ h \in Nat
          /\ k + (m - n) = h /\ h + j = m - N /\ j \in 0..(m - h) /\ m > N
      <3>1. p = N + j
        OBVIOUS
      <3> HIDE DEF n, m, p
      <3> QED  BY <1>2, <1>3, <1>4, <1>7, <3>1
    <2>3. u \in Seq(StatusSet(V, n)) /\ Len(u) = k
      <3>1. k \in 0..Decidable(V) /\ Leading(f, d, V)
        BY <1>5, <2>2
      <3> HIDE DEF k, t, s, W
      <3>2. \A l \in 0..Decidable(V) : f[l] \in Seq(StatusSet(V, Decidable(V))) /\ Len(f[l]) = l
        BY <3>1, LeadingFacts
      <3> QED  BY <3>1, <3>2
    <2>4. y \in Seq(StatusSet(W, m)) /\ Len(y) = h
      <3> HIDE DEF h, W
      <3> QED  BY <1>1, <2>1, <2>2, LeadingFacts
    <2>5. w \in Seq(StatusSet(W, m)) /\ Len(w) = m - N
      <3> DEFINE e == m - N
      <3>1. e \in 0..m
        BY <2>2
      <3> HIDE DEF e, W
      <3>2. g[e] \in Seq(StatusSet(W, m)) /\ Len(g[e]) = e
        BY <1>1, <2>1, <3>1, LeadingFacts
      <3> QED  BY <3>2 DEF e
    <2>6. Confirmed(u, y)
      <3>1. \A l \in 0..n : Confirmed(f[l], g[l + (m - n)])
        <4> HIDE DEF W
        <4> QED  BY <1>1, <1>5, <2>1, LeadingConfirmed
      <3> HIDE DEF k, h, n, m
      <3> QED  BY <2>2, <3>1
    <2>7. \A i \in 1..h : w[i + j] = y[i]
      <3>1. \A l \in 0..(m - h) : \A i \in 1..h : g[h + l][i + l] = g[h][i]
        <4> HIDE DEF h, W
        <4> QED  BY <1>1, <2>1, <2>2, LeadingTails
      <3> HIDE DEF h, m
      <3> QED  BY <2>2, <3>1
    <2>8. t = Decided(u) /\ s = Decided(w)
      <3> HIDE DEF t, s
      <3> QED  BY <1>5, <1>7, <2>1, <2>2
    <2> HIDE DEF u, y, w, s, t
    <2>9. /\ t \in Seq(StatusSet(V, n)) /\ Len(t) <= Len(u)
          /\ \A i \in 1..Len(t) : t[i] = u[i] /\ u[i].kind # "undecided"
      BY <2>3, <2>8, DecidedFacts
    <2>10. /\ Len(s) <= Len(w)
           /\ \A i \in 1..Len(s) : s[i] = w[i] /\ w[i].kind # "undecided"
           /\ \A l \in 0..Len(w) :
                 (\A i \in 1..l : w[i].kind # "undecided") => l <= Len(s)
      BY <2>5, <2>8, DecidedFacts
    <2>11. Len(t) \in Nat /\ DOMAIN t = 1..Len(t) /\ Len(t) <= k /\ k <= h
      <3>1. Len(t) \in Nat /\ DOMAIN t = 1..Len(t)
        BY <2>9, LenProperties
      <3> HIDE DEF k, h
      <3>2. k <= h
        BY <2>3, <2>4, <2>6 DEF Confirmed
      <3> QED  BY <2>3, <2>9, <3>1, <3>2
    <2>12. ASSUME NEW i \in 1..Len(t)
           PROVE  i \in 1..h /\ y[i] = t[i] /\ y[i].kind # "undecided"
      <3>1. i \in 1..h /\ i \in 1..Len(u)
        <4> HIDE DEF k, h
        <4> QED  BY <2>2, <2>3, <2>11
      <3>2. t[i] = u[i] /\ u[i].kind # "undecided"
        BY <2>9
      <3>3. y[i] = u[i]
        BY <2>6, <3>1, <3>2 DEF Confirmed
      <3> QED  BY <3>1, <3>2, <3>3
    <2>13. ASSUME NEW i \in 1..(j + Len(t))  PROVE  w[i].kind # "undecided"
      <3>1. CASE i <= j
        <4>1. i \in 1..Len(s)
          BY <1>4, <3>1
        <4> QED  BY <2>10, <4>1
      <3>2. CASE ~ (i <= j)
        <4>1. i - j \in 1..Len(t) /\ (i - j) + j = i
          BY <1>4, <2>11, <3>2
        <4> QED  BY <2>7, <2>12, <4>1
      <3> QED  BY <3>1, <3>2
    <2>14. j + Len(t) \in 0..Len(w)
      <3> HIDE DEF k, h, n, m
      <3> QED  BY <1>2, <1>3, <1>4, <2>2, <2>5, <2>11
    <2>15. j + Len(t) <= Len(s)
      BY <2>10, <2>13, <2>14
    <2>16. ASSUME NEW i \in 1..Len(t)  PROVE  t[i] = s[j + i]
      <3>1. j + i \in 1..Len(s) /\ j + i = i + j
        BY <1>4, <2>11, <2>15
      <3>2. s[j + i] = w[i + j]
        BY <2>10, <3>1
      <3> QED  BY <2>7, <2>12, <3>2
    <2>17. Len(t) = 0 => t = << >>
      BY <2>9
    <2> QED  BY <2>11, <2>15, <2>16, <2>17 DEF s, t
  <1> QED  BY <1>6, <1>7

------------------------------------------------------------------------------
(* The sub-dag of a leader *)

(* What the walk collects in round r, below the blocks S. *)
Collect(d, done, S, r) ==
    S \cup {x \in AtRound(DOMAIN d, r) \ done : \E y \in S : x \in Range(d[y])}

IsWalk(f, d, done, l, n) ==
    f = [k \in 0..n |->
            IF k = 0 THEN {l}
            ELSE f[k - 1] \cup {x \in AtRound(DOMAIN d, l[2] - k) \ done :
                                    \E y \in f[k - 1] : x \in Range(d[y])}]

HasWalk(d, done, l) ==
    \E f : /\ f[0] = {l}
           /\ \A k \in 1..l[2] : f[k] = Collect(d, done, f[k - 1], l[2] - k)
           /\ SubDag(d, done, l) = f[l[2]]

LEMMA WalkExists ==
    ASSUME NEW d, NEW done, NEW l \in DOMAIN d, NEW n \in Nat
    PROVE  \E f : IsWalk(f, d, done, l, n)
  <1> DEFINE S == SUBSET DOMAIN d
             g == [e \in S \X (1..n) |-> Collect(d, done, e[1], l[2] - e[2])]
  <1>1. g \in [S \X (1..n) -> S] /\ {l} \in S
    BY DEF Collect, AtRound
  <1>2. \A T \in S, k \in 1..n : g[<<T, k>>] = Collect(d, done, T, l[2] - k)
    OBVIOUS
  <1> HIDE DEF g, S
  <1>3. PICK f \in [0..n -> S] : IsIteration(f, {l}, g, n)
    BY <1>1, Iterates
  <1>4. ASSUME NEW k \in 0..n, k # 0
        PROVE  g[<<f[k - 1], k>>] = Collect(d, done, f[k - 1], l[2] - k)
    <2>1. k \in 1..n /\ k - 1 \in 0..n
      BY <1>4
    <2> QED  BY <1>2, <1>3, <2>1
  <1>5. f = [k \in 0..n |-> IF k = 0 THEN {l} ELSE Collect(d, done, f[k - 1], l[2] - k)]
    <2>1. \A k \in 0..n : (IF k = 0 THEN {l} ELSE g[<<f[k - 1], k>>])
                             = (IF k = 0 THEN {l} ELSE Collect(d, done, f[k - 1], l[2] - k))
      BY <1>4
    <2> QED  BY <1>3, <2>1 DEF IsIteration
  <1> QED  BY <1>5 DEF IsWalk, Collect

LEMMA WalkStages ==
    ASSUME NEW d, NEW done, NEW l \in DOMAIN d, l[2] \in Nat
    PROVE  HasWalk(d, done, l)
  <1> DEFINE n == l[2]
             f == CHOOSE h : IsWalk(h, d, done, l, n)
  <1>1. IsWalk(f, d, done, l, n)
    <2> HIDE DEF n
    <2>1. n \in Nat
      BY DEF n
    <2> QED  BY <2>1, WalkExists
  <1>2. SubDag(d, done, l) = f[n]
    BY DEF SubDag, IsWalk
  <1>3. n \in Nat
    OBVIOUS
  <1> HIDE DEF f, n
  <1>4. f[0] = {l}
    BY <1>1, <1>3 DEF IsWalk
  <1>5. ASSUME NEW k \in 1..n  PROVE  f[k] = Collect(d, done, f[k - 1], l[2] - k)
    <2>1. k \in 0..n /\ k # 0
      BY <1>3
    <2> QED  BY <1>1, <2>1 DEF IsWalk, Collect
  <1> QED  BY <1>2, <1>4, <1>5 DEF n, HasWalk

(* The leader, and blocks of earlier rounds that are not committed: all of *)
(* its history that is not.                                                *)
LEMMA SubDagFacts ==
    ASSUME NEW d \in Dags, NEW done, NEW l \in DOMAIN d
    PROVE  LET X == SubDag(d, done, l)
           IN  /\ l \in X /\ X \subseteq DOMAIN d
               /\ \A y \in X : y = l \/ (y[2] < l[2] /\ y \notin done)
               /\ \A y \in X : \A x \in Range(d[y]) : x \in X \/ x \in done
  <1> DEFINE n == l[2]
             X == SubDag(d, done, l)
  <1>1. n \in Nat /\ l[2] \in Nat
    BY DagFacts
  <1>2. PICK f : /\ f[0] = {l}
                 /\ \A k \in 1..n : f[k] = Collect(d, done, f[k - 1], n - k)
                 /\ X = f[n]
    <2>1. HasWalk(d, done, l)
      BY <1>1, WalkStages
    <2> QED  BY <2>1 DEF HasWalk
  <1> HIDE DEF X
  <1> DEFINE OK(k) ==
                /\ l \in f[k] /\ f[k] \subseteq DOMAIN d
                /\ \A y \in f[k] : y = l \/ (y[2] < n /\ y \notin done)
                /\ \A m \in 0..k : /\ f[m] \subseteq f[k]
                                   /\ \A y \in f[k] : y[2] >= n - m => y \in f[m]
             G == {k \in 0..n : OK(k)}
  <1>3. 0 \in G
    <2>1. f[0] = {l} /\ \A m \in 0..0 : m = 0
      BY <1>2
    <2>2. OK(0)
      BY <2>1
    <2> HIDE DEF OK, n
    <2> QED  BY <1>1, <2>2
  <1>4. ASSUME NEW k \in 1..n, k - 1 \in G  PROVE  k \in G
    <2>1. OK(k - 1)
      BY <1>4
    <2>2. f[k] = Collect(d, done, f[k - 1], n - k)
      BY <1>2
    <2>3. \A y \in f[k] : \/ y \in f[k - 1]
                          \/ y \in DOMAIN d /\ y[2] = n - k /\ y \notin done
      BY <2>2 DEF Collect, AtRound
    <2>4. f[k - 1] \subseteq f[k]
      BY <2>2 DEF Collect
    <2>5. \A y \in f[k] : y = l \/ (y[2] < n /\ y \notin done)
      <3>1. n - k < n
        <4> HIDE DEF n
        <4> QED  BY <1>1
      <3> HIDE DEF n
      <3> QED  BY <2>1, <2>3, <3>1
    <2>6. ASSUME NEW m \in 0..k
          PROVE  f[m] \subseteq f[k] /\ \A y \in f[k] : y[2] >= n - m => y \in f[m]
      <3>1. CASE m = k
        <4>1. \A y \in f[k] : y \in f[m]
          BY <3>1
        <4> QED  BY <3>1, <4>1
      <3>2. CASE m # k
        <4>1. m \in 0..(k - 1) /\ n - k < n - m /\ n - k \in Int /\ n - m \in Int
          <5> HIDE DEF n
          <5> QED  BY <1>1, <3>2
        <4>2. f[m] \subseteq f[k]
          BY <2>1, <2>4, <4>1
        <4>3. ASSUME NEW y \in f[k], y[2] >= n - m  PROVE  y \in f[m]
          <5>1. y \in f[k - 1]
            <6>1. ~ (y[2] = n - k)
              <7> HIDE DEF n
              <7> QED  BY <4>1, <4>3
            <6> QED  BY <2>3, <6>1
          <5> QED  BY <2>1, <4>1, <4>3, <5>1
        <4> QED  BY <4>2, <4>3
      <3> QED  BY <3>1, <3>2
    <2>7. OK(k)
      <3>1. l \in f[k] /\ f[k] \subseteq DOMAIN d
        BY <2>1, <2>3, <2>4
      <3> QED  BY <2>5, <2>6, <3>1
    <2> HIDE DEF OK, n
    <2> QED  BY <1>1, <2>7
  <1>5. \A k \in 0..n : k \in G
    <2> HIDE DEF G, n
    <2> QED  BY <1>1, <1>3, <1>4, UpTo
  <1>6. OK(n)
    <2>1. n \in 0..n
      BY <1>1
    <2> HIDE DEF n, OK
    <2> QED  BY <1>5, <2>1
  <1>7. ASSUME NEW y \in X, NEW x \in Range(d[y]), x \notin done  PROVE  x \in X
    <2>1. y \in DOMAIN d /\ y[2] \in Nat /\ y[2] <= n
      <3>1. y \in DOMAIN d
        BY <1>2, <1>6
      <3>2. y[2] \in Nat
        BY <3>1, DagFacts
      <3>3. y = l \/ y[2] < n
        BY <1>2, <1>6
      <3> QED  BY <1>1, <3>1, <3>2, <3>3
    <2>2. x \in DOMAIN d /\ x[2] \in Nat /\ x[2] < y[2]
      BY <2>1, DagFacts
    <2> DEFINE k == n - x[2]
    <2>3. k \in 1..n /\ k - 1 \in 0..n /\ y[2] >= n - (k - 1) /\ n - k = x[2]
      <3> HIDE DEF n
      <3> QED  BY <1>1, <2>1, <2>2
    <2> HIDE DEF k, n
    <2>4. y \in f[k - 1]
      BY <1>2, <1>6, <2>3
    <2>5. x \in Collect(d, done, f[k - 1], n - k)
      BY <1>7, <2>2, <2>3, <2>4 DEF Collect, AtRound
    <2>6. x \in f[k]
      BY <1>2, <2>3, <2>5
    <2>7. k \in 0..n
      BY <1>1, <2>3
    <2> QED  BY <1>2, <1>6, <2>6, <2>7
  <1> QED  BY <1>2, <1>6, <1>7 DEF X

LEMMA KeyType ==
    ASSUME NEW id \in Nat, NEW b, b[1] \in Nat, b[2] \in Nat
    PROVE  Key(id, b) \in Nat
  <1>1. RoundFactor \in Nat /\ AuthorFactor \in Nat /\ KeySpace \in Nat \ {0}
    BY CommitAssumption
  <1> DEFINE p == (id + b[2]) * RoundFactor
             q == (p + b[1]) * AuthorFactor
  <1>2. p \in Nat
    <2>1. id + b[2] \in Nat
      OBVIOUS
    <2> QED  BY <1>1, <2>1
  <1> HIDE DEF p
  <1>3. q \in Nat
    <2>1. p + b[1] \in Nat
      BY <1>2
    <2> QED  BY <1>1, <2>1
  <1>4. Key(id, b) = (q % KeySpace)
    BY DEF Key, p, q
  <1> HIDE DEF q
  <1>5. (q % KeySpace) \in Nat
    BY <1>1, <1>3
  <1> QED  BY <1>4, <1>5

(* A set of blocks as a sequence: each once, none before one of an earlier  *)
(* round.                                                                  *)
RoundsInOrder(t, X) ==
    /\ t \in Seq(X) /\ Range(t) = X
    /\ \A i, j \in 1..Len(t) : t[i] = t[j] => i = j
    /\ \A i, j \in 1..Len(t) : t[i][2] < t[j][2] => i < j

(* The order of the sort in every process is one. *)
LEMMA SortBlocksFacts ==
    ASSUME NEW d \in Dags, NEW id \in Processes, NEW X, X \subseteq DOMAIN d
    PROVE  RoundsInOrder(SortBlocks(id, X), X)
  <1> DEFINE K(x) == Key(id, x)
             Name(x, y) == x[1] < y[1] \/ (x[1] = y[1] /\ x[3] < y[3])
             Before(x, y) == KeyLess(id, x, y) \/ (~KeyLess(id, y, x) /\ Name(x, y))
             R == {e \in X \X X : Before(e[1], e[2])}
             n == Cardinality(X)
             t == SortBlocks(id, X)
  <1>1. ASSUME NEW x \in X
        PROVE  /\ x = <<x[1], x[2], x[3]>> /\ x[1] \in Nat /\ x[2] \in Nat /\ x[3] \in Nat
               /\ K(x) \in Nat
    <2>1. x \in Block /\ x[1] \in Authority /\ x[2] \in Nat /\ x[3] \in Nat
      BY DagFacts
    <2>2. Authority \subseteq Nat /\ Processes \subseteq Nat
      BY CommitAssumption
    <2>3. x = <<x[1], x[2], x[3]>>
      BY <2>1 DEF Block
    <2>4. id \in Nat /\ x[1] \in Nat
      BY <2>1, <2>2
    <2>5. K(x) \in Nat
      BY <2>1, <2>4, KeyType
    <2> QED  BY <2>1, <2>3, <2>4, <2>5
  <1>2. \A x, y : KeyLess(id, x, y) <=> x[2] < y[2] \/ (x[2] = y[2] /\ K(x) < K(y))
    BY DEF KeyLess
  <1> HIDE DEF K
  <1>3. \A x, y \in X : <<x, y>> \in R <=> Before(x, y)
    OBVIOUS
  <1>4. ASSUME NEW x \in X, NEW y \in X
        PROVE  Before(x, y) <=> \/ x[2] < y[2]
                                \/ x[2] = y[2] /\ K(x) < K(y)
                                \/ x[2] = y[2] /\ K(x) = K(y) /\ Name(x, y)
    <2>1. /\ x[2] \in Nat /\ y[2] \in Nat /\ K(x) \in Nat /\ K(y) \in Nat
      BY <1>1
    <2>2. /\ KeyLess(id, x, y) <=> x[2] < y[2] \/ (x[2] = y[2] /\ K(x) < K(y))
          /\ KeyLess(id, y, x) <=> y[2] < x[2] \/ (y[2] = x[2] /\ K(y) < K(x))
      BY <1>2
    <2> HIDE DEF Name
    <2> QED  BY <2>1, <2>2
  <1> HIDE DEF Before, R
  <1>5. StrictOrder(X, R)
    <2>1. \A x \in X : ~ Before(x, x)
      BY <1>1, <1>4
    <2>2. ASSUME NEW x \in X, NEW y \in X, x # y  PROVE  Before(x, y) \/ Before(y, x)
      BY <1>1, <1>4, <2>2
    <2>3. ASSUME NEW x \in X, NEW y \in X, NEW z \in X, Before(x, y), Before(y, z)
          PROVE  Before(x, z)
      BY <1>1, <1>4, <2>3
    <2> QED  BY <1>3, <2>1, <2>2, <2>3 DEF StrictOrder
  <1>6. IsFiniteSet(X)
    BY DagAssumption, FS_Subset
  <1>7. t = Enumeration(X, R)
    <2> DEFINE b == [y \in X |-> Cardinality({x \in X : Before(x, y)})]
    <2>1. \A y \in X : {x \in X : <<x, y>> \in R} = {x \in X : Before(x, y)}
      BY <1>3
    <2>2. \A y \in X : b[y] = Rank(X, R, y)
      BY <2>1 DEF Rank
    <2>3. t = [k \in 1..n |-> CHOOSE y \in X : b[y] = k - 1]
      BY DEF SortBlocks, Before
    <2> HIDE DEF b, t
    <2>4. t = [k \in 1..n |-> CHOOSE y \in X : Rank(X, R, y) = k - 1]
      BY <2>2, <2>3
    <2> QED  BY <2>4 DEF Enumeration
  <1>8. /\ n \in Nat /\ t \in [1..n -> X]
        /\ \A x \in X : \E i \in 1..n : t[i] = x
        /\ \A i, j \in 1..n : t[i] = t[j] => i = j
        /\ \A i, j \in 1..n : i < j <=> <<t[i], t[j]>> \in R
    <2> HIDE DEF t
    <2> QED  BY <1>5, <1>6, <1>7, EnumerationFacts
  <1> HIDE DEF n, t
  <1>9. t \in Seq(X) /\ Len(t) = n /\ DOMAIN t = 1..n
    BY <1>8
  <1>10. Range(t) = X
    BY <1>8, <1>9 DEF Range
  <1>11. ASSUME NEW i \in 1..n, NEW j \in 1..n, t[i][2] < t[j][2]  PROVE  i < j
    <2>1. t[i] \in X /\ t[j] \in X
      BY <1>8
    <2>2. Before(t[i], t[j])
      BY <1>4, <1>11, <2>1
    <2>3. <<t[i], t[j]>> \in R
      BY <1>3, <2>1, <2>2
    <2> QED  BY <1>8, <2>3
  <1> QED  BY <1>8, <1>9, <1>10, <1>11 DEF t, RoundsInOrder

------------------------------------------------------------------------------
(* The Linearizer *)

SubDags(d) == [anchor : DOMAIN d, height : Nat, blocks : SUBSET DOMAIN d]

LinearizerState(d) ==
    [committed : SUBSET DOMAIN d, dags : Seq(SubDags(d)), height : Nat, failed : BOOLEAN]

Empty(done, height) ==
    [committed |-> done, dags |-> << >>, height |-> height, failed |-> FALSE]

HandleOne(d, lin, status) ==
    IF status.kind = "commit" THEN CollectSubDag(d, lin, CHOOSE b \in status.block : TRUE)
    ELSE lin

Leaders(d, L) ==
    /\ Len(L) \in Nat
    /\ \A k \in 1..Len(L) : IsStatus(DOMAIN d, L[k].slot, L[k])

IsHandling(f, d, done, height, L) ==
    f = [k \in 0..Len(L) |-> IF k = 0 THEN Empty(done, height)
                             ELSE HandleOne(d, f[k - 1], L[k])]

(* The states of the Linearizer, from one leader to the next. *)
HandledLeaders(d, done, height, L) == CHOOSE f : IsHandling(f, d, done, height, L)

LEMMA AppendFacts ==
    ASSUME NEW S, NEW s \in Seq(S), NEW e \in S
    PROVE  LET t == Append(s, e)
           IN  /\ t \in Seq(S) /\ Len(s) \in Nat /\ Len(t) = Len(s) + 1
               /\ t[Len(s) + 1] = e
               /\ \A i \in 1..Len(s) : t[i] = s[i]
               /\ DOMAIN t = 1..Len(t) /\ DOMAIN s = 1..Len(s)
  <1>1. Append(s, e) \in Seq(S) /\ Len(s) \in Nat /\ Len(Append(s, e)) = Len(s) + 1
    BY AppendProperties, LenProperties
  <1>2. DOMAIN Append(s, e) = 1..Len(Append(s, e)) /\ DOMAIN s = 1..Len(s)
    BY <1>1, LenProperties
  <1> QED  BY <1>1, <1>2, AppendProperties

LEMMA AppendToConcat ==
    ASSUME NEW S, NEW s \in Seq(S), NEW t \in Seq(S), NEW e \in S
    PROVE  s \o Append(t, e) = Append(s \o t, e)
  <1> DEFINE u == <<e>>
  <1>1. u \in Seq(S)
    OBVIOUS
  <1>2. Append(t, e) = t \o u
    BY AppendIsConcat
  <1>3. s \o t \in Seq(S)
    BY ConcatProperties
  <1>4. Append(s \o t, e) = (s \o t) \o u
    BY <1>3, AppendIsConcat
  <1> HIDE DEF u
  <1>5. (s \o t) \o u = s \o (t \o u)
    BY <1>1, ConcatAssociative
  <1> QED  BY <1>2, <1>4, <1>5

LEMMA CollectType ==
    ASSUME NEW d \in Dags, NEW lin \in LinearizerState(d), NEW l \in DOMAIN d
    PROVE  CollectSubDag(d, lin, l) \in LinearizerState(d)
  <1> DEFINE X == SubDag(d, lin.committed, l)
             c == lin.committed \cup X
             r == [anchor |-> l, height |-> lin.height + 1, blocks |-> X]
             f == lin.failed \/ l \in lin.committed
  <1>1. /\ lin.committed \in SUBSET DOMAIN d /\ lin.dags \in Seq(SubDags(d))
        /\ lin.height \in Nat /\ lin.failed \in BOOLEAN
    BY DEF LinearizerState
  <1>2. X \subseteq DOMAIN d
    BY SubDagFacts
  <1> HIDE DEF X
  <1>4. r \in SubDags(d)
    BY <1>1, <1>2 DEF SubDags
  <1>5. Append(lin.dags, r) \in Seq(SubDags(d))
    <2> HIDE DEF r
    <2> QED  BY <1>1, <1>4, AppendFacts
  <1>6. c \in SUBSET DOMAIN d /\ f \in BOOLEAN
    BY <1>1, <1>2
  <1>7. CollectSubDag(d, lin, l) =
          [committed |-> c, dags |-> Append(lin.dags, r), height |-> lin.height + 1, failed |-> f]
    BY DEF CollectSubDag, X
  <1> HIDE DEF c, r, f
  <1> QED  BY <1>1, <1>5, <1>6, <1>7 DEF LinearizerState

LEMMA StatusBlock ==
    ASSUME NEW d, NEW slot, NEW status, IsStatus(DOMAIN d, slot, status),
           status.kind = "commit"
    PROVE  \E l \in DOMAIN d : /\ Slot(l) = slot
                               /\ \A lin : HandleOne(d, lin, status) = CollectSubDag(d, lin, l)
  <1>1. PICK l \in DOMAIN d : Slot(l) = slot /\ status = Commit(l)
    BY StatusFacts DEF IsStatus
  <1>2. (CHOOSE b \in status.block : TRUE) = l
    BY <1>1, StatusFacts
  <1> QED  BY <1>1, <1>2 DEF HandleOne

LEMMA HandleType ==
    ASSUME NEW d \in Dags, NEW lin \in LinearizerState(d), NEW slot, NEW status,
           IsStatus(DOMAIN d, slot, status)
    PROVE  HandleOne(d, lin, status) \in LinearizerState(d)
  <1>1. CASE status.kind = "commit"
    BY <1>1, StatusBlock, CollectType
  <1>2. CASE status.kind # "commit"
    BY <1>2 DEF HandleOne
  <1> QED  BY <1>1, <1>2

LEMMA EmptyType ==
    ASSUME NEW d, NEW done \in SUBSET DOMAIN d, NEW height \in Nat
    PROVE  Empty(done, height) \in LinearizerState(d)
  <1>1. << >> \in Seq(SubDags(d)) /\ FALSE \in BOOLEAN
    OBVIOUS
  <1> QED  BY <1>1 DEF Empty, LinearizerState

LEMMA HandlingExists ==
    ASSUME NEW d \in Dags, NEW done \in SUBSET DOMAIN d, NEW height \in Nat,
           NEW L, Leaders(d, L)
    PROVE  \E f \in [0..Len(L) -> LinearizerState(d)] : IsHandling(f, d, done, height, L)
  <1> DEFINE n == Len(L)
             S == LinearizerState(d)
             g == [e \in S \X (1..n) |-> HandleOne(d, e[1], L[e[2]])]
  <1>1. n \in Nat
    BY DEF Leaders
  <1>2. \A lin \in S, k \in 1..n : g[<<lin, k>>] = HandleOne(d, lin, L[k])
    OBVIOUS
  <1>3. g \in [S \X (1..n) -> S]
    <2>1. \A e \in S \X (1..n) : HandleOne(d, e[1], L[e[2]]) \in S
      BY HandleType DEF Leaders
    <2> QED  BY <2>1
  <1>4. Empty(done, height) \in S
    BY EmptyType
  <1> HIDE DEF g, S, n
  <1>5. PICK f \in [0..n -> S] : IsIteration(f, Empty(done, height), g, n)
    BY <1>1, <1>3, <1>4, Iterates
  <1>6. ASSUME NEW k \in 0..n, k # 0  PROVE  g[<<f[k - 1], k>>] = HandleOne(d, f[k - 1], L[k])
    <2>1. k \in 1..n /\ k - 1 \in 0..n
      BY <1>1, <1>6
    <2> QED  BY <1>2, <1>5, <2>1
  <1>7. f = [k \in 0..n |-> IF k = 0 THEN Empty(done, height) ELSE HandleOne(d, f[k - 1], L[k])]
    <2>1. \A k \in 0..n :
             (IF k = 0 THEN Empty(done, height) ELSE g[<<f[k - 1], k>>])
                = (IF k = 0 THEN Empty(done, height) ELSE HandleOne(d, f[k - 1], L[k]))
      BY <1>6
    <2> QED  BY <1>5, <2>1 DEF IsIteration
  <1>8. IsHandling(f, d, done, height, L)
    BY <1>7 DEF IsHandling, n
  <1> QED  BY <1>5, <1>8 DEF n, S

LEMMA HandledStages ==
    ASSUME NEW d \in Dags, NEW done \in SUBSET DOMAIN d, NEW height \in Nat,
           NEW L, Leaders(d, L)
    PROVE  LET f == HandledLeaders(d, done, height, L)
           IN  /\ f[0] = Empty(done, height)
               /\ \A k \in 1..Len(L) : f[k] = HandleOne(d, f[k - 1], L[k])
               /\ \A k \in 0..Len(L) : f[k] \in LinearizerState(d)
               /\ HandleCommit(d, done, height, L) = f[Len(L)]
  <1> DEFINE n == Len(L)
             f == HandledLeaders(d, done, height, L)
  <1>1. n \in Nat
    BY DEF Leaders
  <1>2. IsHandling(f, d, done, height, L)
    BY HandlingExists DEF HandledLeaders
  <1>3. HandleCommit(d, done, height, L) = f[n]
    BY DEF HandleCommit, HandledLeaders, IsHandling, Empty, HandleOne
  <1> HIDE DEF f
  <1>4. f[0] = Empty(done, height)
    BY <1>1, <1>2 DEF IsHandling
  <1>5. ASSUME NEW k \in 1..n  PROVE  f[k] = HandleOne(d, f[k - 1], L[k])
    <2>1. k \in 0..n /\ k # 0
      BY <1>1
    <2> QED  BY <1>2, <2>1 DEF IsHandling
  <1>6. \A k \in 0..n : f[k] \in LinearizerState(d)
    <2> DEFINE G == {k \in 0..n : f[k] \in LinearizerState(d)}
    <2>1. 0 \in G
      <3>1. f[0] \in LinearizerState(d)
        BY <1>4, EmptyType
      <3>2. 0 \in 0..n
        BY <1>1
      <3> HIDE DEF n
      <3> QED  BY <3>1, <3>2
    <2>2. ASSUME NEW k \in 1..n, k - 1 \in G  PROVE  k \in G
      <3>1. f[k - 1] \in LinearizerState(d) /\ k \in 0..n
        BY <1>1, <2>2
      <3>2. f[k] \in LinearizerState(d)
        BY <1>5, <3>1, HandleType DEF Leaders
      <3> QED  BY <3>1, <3>2
    <2>3. \A k \in 0..n : k \in G
      <3> HIDE DEF G, n
      <3> QED  BY <1>1, <2>1, <2>2, UpTo
    <2> QED  BY <2>3
  <1> QED  BY <1>3, <1>4, <1>5, <1>6 DEF f

(* No block is in two sub-dags. *)
EachOnce(D) ==
    \A g, h \in DOMAIN D : D[g].blocks \cap D[h].blocks # {} => g = h

(* The blocks of the first n sub-dags. *)
First(D, n) == UNION {D[i].blocks : i \in 1..n}

(* What a block includes is in its sub-dag or in one before it. *)
HistoryKept(d, D) ==
    \A h \in DOMAIN D : \A y \in D[h].blocks :
        Range(d[y]) \subseteq First(D, h - 1) \cup D[h].blocks

LinearizerOK(d, lin) ==
    /\ lin.failed = FALSE
    /\ lin.height = Len(lin.dags)
    /\ \A h \in 1..Len(lin.dags) : lin.dags[h].height = h
    /\ lin.committed = First(lin.dags, Len(lin.dags))
    /\ \A y \in lin.committed : Range(d[y]) \subseteq lin.committed
    /\ EachOnce(lin.dags)
    /\ HistoryKept(d, lin.dags)

(* Another sub-dag, of blocks that are not committed, keeps it so. *)
LEMMA CollectKeeps ==
    ASSUME NEW d \in Dags, NEW lin \in LinearizerState(d), LinearizerOK(d, lin),
           NEW l \in DOMAIN d, l \notin lin.committed
    PROVE  /\ LinearizerOK(d, CollectSubDag(d, lin, l))
           /\ \A x \in CollectSubDag(d, lin, l).committed :
                 x \in lin.committed \/ x = l \/ x[2] < l[2]
           /\ \E r \in SubDags(d) : /\ r.anchor = l
                                    /\ CollectSubDag(d, lin, l).dags = Append(lin.dags, r)
  <1> DEFINE C == lin.committed
             D == lin.dags
             n == Len(D)
             X == SubDag(d, C, l)
             r == [anchor |-> l, height |-> lin.height + 1, blocks |-> X]
             E == Append(D, r)
             new == CollectSubDag(d, lin, l)
  <1>1. /\ C \in SUBSET DOMAIN d /\ D \in Seq(SubDags(d)) /\ lin.height \in Nat
    BY DEF LinearizerState
  <1>2. /\ l \in X /\ X \subseteq DOMAIN d
        /\ \A y \in X : y = l \/ (y[2] < l[2] /\ y \notin C)
        /\ \A y \in X : \A x \in Range(d[y]) : x \in X \/ x \in C
    BY SubDagFacts
  <1>3. /\ new.committed = C \cup X /\ new.dags = E /\ new.height = lin.height + 1
        /\ new.failed = (lin.failed \/ l \in C)
    BY DEF CollectSubDag
  <1> HIDE DEF new, X
  <1>5. r \in SubDags(d)
    BY <1>1, <1>2 DEF SubDags
  <1>6. r.anchor = l /\ r.height = lin.height + 1 /\ r.blocks = X
    OBVIOUS
  <1> HIDE DEF r, C
  <1>7. /\ E \in Seq(SubDags(d)) /\ n \in Nat /\ Len(E) = n + 1 /\ E[n + 1] = r
        /\ \A i \in 1..n : E[i] = D[i]
        /\ DOMAIN E = 1..(n + 1) /\ DOMAIN D = 1..n
    <2> HIDE DEF D
    <2> QED  BY <1>1, <1>5, AppendFacts
  <1> HIDE DEF D, E, n
  <1>8. X \cap C = {}
    <2>1. l \notin C
      BY DEF C
    <2> QED  BY <1>2, <2>1
  <1>9. /\ lin.height = n /\ lin.failed = FALSE /\ \A h \in 1..n : D[h].height = h
        /\ C = First(D, n)
        /\ \A y \in C : Range(d[y]) \subseteq C
        /\ EachOnce(D) /\ HistoryKept(d, D)
    BY DEF LinearizerOK, C, D, n
  <1>10. \A h \in 1..(n + 1) : h = n + 1 \/ h \in 1..n
    BY <1>7
  <1>11. ASSUME NEW h \in 1..(n + 1)  PROVE  First(E, h - 1) = First(D, h - 1)
    <2>1. \A i \in 1..(h - 1) : E[i] = D[i]
      BY <1>7
    <2> QED  BY <2>1 DEF First
  <1>12. First(E, n + 1) = C \cup X
    <2>1. E[n + 1].blocks = X /\ n + 1 \in 1..(n + 1)
      BY <1>6, <1>7
    <2>2. \A i \in 1..n : i \in 1..(n + 1) /\ E[i].blocks = D[i].blocks
      BY <1>7
    <2>3. ASSUME NEW x  PROVE  x \in First(E, n + 1) <=> x \in C \cup X
      <3>1. x \in First(E, n + 1) <=> \E i \in 1..(n + 1) : x \in E[i].blocks
        BY DEF First
      <3>2. x \in C <=> \E i \in 1..n : x \in D[i].blocks
        BY <1>9 DEF First
      <3> QED  BY <1>10, <2>1, <2>2, <3>1, <3>2
    <2> QED  BY <2>3
  <1>13. \A h \in 1..(n + 1) : E[h].height = h
    BY <1>6, <1>7, <1>9, <1>10
  <1>14. \A y \in C \cup X : Range(d[y]) \subseteq C \cup X
    BY <1>2, <1>9
  <1>15. EachOnce(E)
    <2>1. \A h \in 1..n : D[h].blocks \subseteq C
      BY <1>9 DEF First
    <2>2. ASSUME NEW g \in DOMAIN E, NEW h \in DOMAIN E, E[g].blocks \cap E[h].blocks # {}
          PROVE  g = h
      <3>1. CASE g \in 1..n /\ h \in 1..n
        BY <1>7, <1>9, <2>2, <3>1 DEF EachOnce
      <3>2. CASE g \in 1..n /\ h = n + 1
        BY <1>6, <1>7, <1>8, <2>1, <2>2, <3>2
      <3>3. CASE g = n + 1 /\ h \in 1..n
        BY <1>6, <1>7, <1>8, <2>1, <2>2, <3>3
      <3> QED  BY <1>7, <1>10, <3>1, <3>2, <3>3
    <2> QED  BY <2>2 DEF EachOnce
  <1>16. HistoryKept(d, E)
    <2>1. ASSUME NEW h \in DOMAIN E, NEW y \in E[h].blocks
          PROVE  Range(d[y]) \subseteq First(E, h - 1) \cup E[h].blocks
      <3>1. CASE h \in 1..n
        <4>1. E[h] = D[h] /\ h \in DOMAIN D /\ First(E, h - 1) = First(D, h - 1)
          BY <1>7, <1>11, <3>1
        <4> QED  BY <1>9, <4>1 DEF HistoryKept
      <3>2. CASE h = n + 1
        <4>1. E[h].blocks = X /\ First(E, h - 1) = C
          <5>1. First(E, h - 1) = First(D, h - 1) /\ h - 1 = n
            BY <1>7, <1>11, <3>2
          <5> QED  BY <1>6, <1>7, <1>9, <3>2, <5>1
        <4> QED  BY <1>2, <4>1
      <3> QED  BY <1>7, <1>10, <3>1, <3>2
    <2> QED  BY <2>1 DEF HistoryKept
  <1>17. new.failed = FALSE
    <2>1. l \notin C
      BY DEF C
    <2> QED  BY <1>3, <1>9, <2>1
  <1>18. LinearizerOK(d, new)
    <2>1. new.height = Len(new.dags)
      BY <1>3, <1>7, <1>9
    <2>2. \A h \in 1..Len(new.dags) : new.dags[h].height = h
      BY <1>3, <1>7, <1>13
    <2>3. new.committed = First(new.dags, Len(new.dags))
      BY <1>3, <1>7, <1>12
    <2>4. \A y \in new.committed : Range(d[y]) \subseteq new.committed
      BY <1>3, <1>14
    <2>5. EachOnce(new.dags) /\ HistoryKept(d, new.dags)
      BY <1>3, <1>15, <1>16
    <2> QED  BY <1>17, <2>1, <2>2, <2>3, <2>4, <2>5 DEF LinearizerOK
  <1>19. \A x \in new.committed : x \in lin.committed \/ x = l \/ x[2] < l[2]
    BY <1>2, <1>3 DEF C
  <1>20. \E e \in SubDags(d) : e.anchor = l /\ new.dags = Append(lin.dags, e)
    BY <1>3, <1>5, <1>6 DEF E, D
  <1> QED  BY <1>18, <1>19, <1>20 DEF new

LEMMA EmptyOK == ASSUME NEW d  PROVE  LinearizerOK(d, Empty({}, 0))
  <1> DEFINE D == << >>
  <1>1. Len(D) = 0 /\ DOMAIN D = {} /\ 1..0 = {}
    OBVIOUS
  <1>2. /\ Empty({}, 0).failed = FALSE /\ Empty({}, 0).height = 0
        /\ Empty({}, 0).committed = {} /\ Empty({}, 0).dags = D
    BY DEF Empty
  <1> HIDE DEF D
  <1>3. EachOnce(D) /\ HistoryKept(d, D) /\ First(D, 0) = {}
    BY <1>1 DEF EachOnce, HistoryKept, First
  <1> QED  BY <1>1, <1>2, <1>3 DEF LinearizerOK

LEMMA RoundsGrow ==
    ASSUME NEW i \in Nat, NEW j \in Nat, 0 < i, i <= j
    PROVE  LeaderSlot(i)[2] <= LeaderSlot(j)[2]
  <1>1. Turn(i) <= Turn(j)
    <2>1. i - 1 \in Nat /\ j - 1 \in Nat /\ i - 1 <= j - 1
      OBVIOUS
    <2> QED  BY <2>1, DivideGrows, LeaderConstants DEF Turn
  <1>2. /\ Turn(i) \in Nat /\ Turn(j) \in Nat
        /\ LeaderSlot(i)[2] = Stride * Turn(i) /\ LeaderSlot(j)[2] = Stride * Turn(j)
    BY TurnFacts
  <1> DEFINE p == Turn(i)
             q == Turn(j)
  <1>3. p <= q /\ p \in Nat /\ q \in Nat
    BY <1>1, <1>2
  <1> HIDE DEF p, q
  <1>4. Stride * p <= Stride * q
    BY <1>3, LeaderConstants
  <1> QED  BY <1>2, <1>4 DEF p, q

(* The states of the Linearizer as the leaders of the whole dag go by. *)
Linearized(d) == HandledLeaders(d, {}, 0, WholeLeaders(d))

LEMMA LinearizedStages ==
    ASSUME NEW d \in Dags
    PROVE  LET s == WholeLeaders(d)
               f == Linearized(d)
           IN  /\ Len(s) \in Nat /\ Leaders(d, s)
               /\ f[0] = Empty({}, 0)
               /\ \A k \in 1..Len(s) : f[k] = HandleOne(d, f[k - 1], s[k])
               /\ \A k \in 0..Len(s) : f[k] \in LinearizerState(d)
               /\ Output[d] = f[Len(s)].dags
  <1> DEFINE s == WholeLeaders(d)
             f == Linearized(d)
  <1>1. Len(s) \in Nat /\ \A i \in 1..Len(s) : IsStatus(DOMAIN d, s[i].slot, s[i])
    BY WholeFacts
  <1>2. Leaders(d, s)
    <2> HIDE DEF s
    <2> QED  BY <1>1 DEF Leaders
  <1>3. {} \in SUBSET DOMAIN d /\ 0 \in Nat
    OBVIOUS
  <1>4. Output[d] = HandleCommit(d, {}, 0, s).dags
    BY DEF Output, WholeLeaders
  <1>5. f = HandledLeaders(d, {}, 0, s)
    BY DEF Linearized
  <1> HIDE DEF s, f
  <1>6. /\ f[0] = Empty({}, 0)
        /\ \A k \in 1..Len(s) : f[k] = HandleOne(d, f[k - 1], s[k])
        /\ \A k \in 0..Len(s) : f[k] \in LinearizerState(d)
        /\ HandleCommit(d, {}, 0, s) = f[Len(s)]
    <2> DEFINE done == {}
               g == HandledLeaders(d, done, 0, s)
    <2>1. done \in SUBSET DOMAIN d /\ 0 \in Nat
      BY <1>3
    <2>2. f = g /\ done = {}
      BY <1>5
    <2> HIDE DEF done
    <2>3. /\ g[0] = Empty(done, 0)
          /\ \A k \in 1..Len(s) : g[k] = HandleOne(d, g[k - 1], s[k])
          /\ \A k \in 0..Len(s) : g[k] \in LinearizerState(d)
          /\ HandleCommit(d, done, 0, s) = g[Len(s)]
      BY <1>2, <2>1, HandledStages
    <2> HIDE DEF g
    <2> QED  BY <2>2, <2>3
  <1> QED  BY <1>1, <1>2, <1>4, <1>6 DEF s, f

IsBeginning(D, E) ==
    Len(D) <= Len(E) /\ \A h \in 1..Len(D) : E[h] = D[h]

(* What holds of the first j leaders: the blocks committed lie below them, *)
(* and a restart finds in the last anchor the last leader that was         *)
(* committed, where the Linearizer had the same sub-dags.                  *)
LinearizedOK(d, j) ==
    LET s == WholeLeaders(d)
        f == Linearized(d)
    IN  /\ LinearizerOK(d, f[j])
        /\ \A x \in f[j].committed :
              \E i \in 1..j : x[2] < s[i].slot[2] \/ Slot(x) = s[i].slot
        /\ \/ f[j].dags = << >>
           \/ \E i \in 1..j : /\ Slot(Last(f[j].dags).anchor) = s[i].slot
                              /\ f[i].dags = f[j].dags
        /\ \A i \in 0..j : IsBeginning(f[i].dags, f[j].dags)

LEMMA BeginningOfAppended ==
    ASSUME NEW S, NEW D \in Seq(S), NEW e \in S, NEW B, IsBeginning(B, D), Len(B) \in Nat
    PROVE  IsBeginning(B, Append(D, e))
  <1> DEFINE E == Append(D, e)
  <1>1. /\ Len(D) \in Nat /\ Len(E) = Len(D) + 1
        /\ \A i \in 1..Len(D) : E[i] = D[i]
    BY AppendFacts
  <1> HIDE DEF E
  <1>2. Len(B) <= Len(D) /\ \A h \in 1..Len(B) : D[h] = B[h]
    BY DEF IsBeginning
  <1>3. Len(B) <= Len(E) /\ \A h \in 1..Len(B) : h \in 1..Len(D)
    BY <1>1, <1>2
  <1> QED  BY <1>1, <1>2, <1>3 DEF IsBeginning, E

LEMMA BeginningOfItself == ASSUME NEW S, NEW D \in Seq(S)  PROVE  IsBeginning(D, D)
  BY LenProperties DEF IsBeginning

LEMMA LinearizedFacts ==
    ASSUME NEW d \in Dags
    PROVE  \A j \in 0..Len(WholeLeaders(d)) : LinearizedOK(d, j)
  <1> DEFINE s == WholeLeaders(d)
             f == Linearized(d)
             n == Len(s)
             N == NumberOfLeaders
             G == {j \in 0..n : LinearizedOK(d, j)}
  <1>1. /\ n \in Nat /\ f[0] = Empty({}, 0)
        /\ \A k \in 1..n : f[k] = HandleOne(d, f[k - 1], s[k])
        /\ \A k \in 0..n : f[k] \in LinearizerState(d)
    BY LinearizedStages
  <1>2. /\ \A i \in 1..n : /\ s[i].slot = LeaderSlot(N + i)
                           /\ s[i].kind # "undecided" /\ IsStatus(DOMAIN d, s[i].slot, s[i])
        /\ \A j \in 0..n : Position(LeaderSlot(N + j)) = N + j
    BY WholeFacts
  <1>3. N \in Nat /\ N > 0
    BY LeaderConstants
  <1> HIDE DEF s, f, n, N
  <1>4. 0 \in G
    <2>1. LinearizerOK(d, f[0])
      BY <1>1, EmptyOK
    <2>2. f[0].committed = {} /\ f[0].dags = << >>
      BY <1>1 DEF Empty
    <2>3. IsBeginning(f[0].dags, f[0].dags)
      <3>1. f[0].dags \in Seq({})
        BY <2>2
      <3> QED  BY <3>1, BeginningOfItself
    <2>4. \A i \in 0..0 : i = 0
      OBVIOUS
    <2>5. LinearizedOK(d, 0)
      BY <2>1, <2>2, <2>3, <2>4 DEF LinearizedOK, f, s
    <2> QED  BY <1>1, <2>5
  <1>5. ASSUME NEW j \in 1..n, j - 1 \in G  PROVE  j \in G
    <2>1. LinearizedOK(d, j - 1) /\ j - 1 \in 0..n /\ j \in 0..n /\ j \in Nat
      BY <1>1, <1>5
    <2> DEFINE a == f[j - 1]
               b == f[j]
    <2>2. /\ LinearizerOK(d, a)
          /\ \A x \in a.committed :
                \E i \in 1..(j - 1) : x[2] < s[i].slot[2] \/ Slot(x) = s[i].slot
          /\ \/ a.dags = << >>
             \/ \E i \in 1..(j - 1) : /\ Slot(Last(a.dags).anchor) = s[i].slot
                                      /\ f[i].dags = a.dags
          /\ \A i \in 0..(j - 1) : IsBeginning(f[i].dags, a.dags)
      BY <2>1 DEF LinearizedOK, f, s
    <2>3. b = HandleOne(d, a, s[j]) /\ a \in LinearizerState(d) /\ b \in LinearizerState(d)
      BY <1>1, <2>1
    <2>4. /\ \A i \in 1..(j - 1) : i \in 1..j /\ i \in 1..n /\ i < j
          /\ \A i \in 0..j : i = j \/ i \in 0..(j - 1)
      BY <1>1, <2>1
    <2>5. b.dags \in Seq(SubDags(d)) /\ a.dags \in Seq(SubDags(d))
      <3> HIDE DEF a, b
      <3> QED  BY <2>3 DEF LinearizerState
    <2>6. IsBeginning(b.dags, b.dags)
      BY <2>5, BeginningOfItself
    <2> HIDE DEF a, b
    <2>7. CASE s[j].kind # "commit"
      <3>1. b = a
        BY <2>3, <2>7 DEF HandleOne
      <3>2. \A x \in b.committed :
                \E i \in 1..j : x[2] < s[i].slot[2] \/ Slot(x) = s[i].slot
        BY <2>2, <2>4, <3>1
      <3>3. \/ b.dags = << >>
            \/ \E i \in 1..j : /\ Slot(Last(b.dags).anchor) = s[i].slot
                               /\ f[i].dags = b.dags
        BY <2>2, <2>4, <3>1
      <3>4. \A i \in 0..j : IsBeginning(f[i].dags, b.dags)
        BY <2>2, <2>4, <2>6, <3>1 DEF b
      <3>5. LinearizedOK(d, j)
        BY <2>2, <3>1, <3>2, <3>3, <3>4 DEF LinearizedOK, f, s, b
      <3> QED  BY <2>1, <3>5
    <2>8. CASE s[j].kind = "commit"
      <3>1. PICK l \in DOMAIN d : Slot(l) = s[j].slot /\ b = CollectSubDag(d, a, l)
        BY <1>2, <2>3, <2>8, StatusBlock
      <3>2. l \notin a.committed
        <4> SUFFICES ASSUME l \in a.committed  PROVE  FALSE
          OBVIOUS
        <4>1. PICK i \in 1..(j - 1) : l[2] < s[i].slot[2] \/ Slot(l) = s[i].slot
          BY <2>2
        <4>2. i \in 1..n /\ i < j /\ i \in Nat /\ i > 0
          BY <2>4
        <4>3. s[i].slot = LeaderSlot(N + i) /\ s[j].slot = LeaderSlot(N + j)
          BY <1>2, <4>2
        <4>4. l[2] = s[j].slot[2] /\ l[2] \in Nat
          <5>1. Slot(l) = s[j].slot /\ l[2] \in Nat
            BY <3>1, DagFacts
          <5> QED  BY <5>1 DEF Slot
        <4>5. LeaderSlot(N + i)[2] <= LeaderSlot(N + j)[2] /\ LeaderSlot(N + i)[2] \in Nat
          <5>1. N + i \in Nat /\ N + j \in Nat /\ 0 < N + i /\ N + i <= N + j
            BY <1>3, <2>1, <4>2
          <5> QED  BY <5>1, RoundsGrow, TurnFacts
        <4>6. Slot(l) = s[i].slot
          BY <4>1, <4>3, <4>4, <4>5
        <4>7. N + i = N + j
          <5>1. i \in 0..n /\ j \in 0..n
            BY <2>1, <4>2
          <5> QED  BY <1>2, <3>1, <4>3, <4>6, <5>1
        <4> QED  BY <1>3, <2>1, <4>2, <4>7
      <3>3. /\ LinearizerOK(d, b)
            /\ \A x \in b.committed : x \in a.committed \/ x = l \/ x[2] < l[2]
            /\ \E r \in SubDags(d) : r.anchor = l /\ b.dags = Append(a.dags, r)
        BY <2>2, <2>3, <3>1, <3>2, CollectKeeps
      <3>4. PICK r \in SubDags(d) : r.anchor = l /\ b.dags = Append(a.dags, r)
        BY <3>3
      <3>5. j \in 1..j /\ l[2] = s[j].slot[2]
        BY <2>1, <3>1 DEF Slot
      <3>6. \A x \in b.committed :
                \E i \in 1..j : x[2] < s[i].slot[2] \/ Slot(x) = s[i].slot
        BY <2>2, <2>4, <3>1, <3>3, <3>5
      <3>7. \E i \in 1..j : Slot(Last(b.dags).anchor) = s[i].slot /\ f[i].dags = b.dags
        <4>1. Last(b.dags) = r
          <5>1. Len(b.dags) = Len(a.dags) + 1 /\ b.dags[Len(a.dags) + 1] = r
            BY <2>5, <3>4, AppendFacts
          <5> QED  BY <5>1 DEF Last
        <4> QED  BY <3>1, <3>4, <3>5, <4>1 DEF b
      <3>8. ASSUME NEW i \in 0..j  PROVE  IsBeginning(f[i].dags, b.dags)
        <4>1. CASE i = j
          BY <2>6, <4>1 DEF b
        <4>2. CASE i \in 0..(j - 1)
          <5>1. f[i] \in LinearizerState(d)
            <6>1. i \in 0..n
              <7>1. i \in Nat /\ i <= j - 1 /\ j <= n /\ n \in Nat /\ j \in Nat
                BY <1>1, <2>1, <4>2
              <7> QED  BY <7>1
            <6> QED  BY <1>1, <6>1
          <5>2. f[i].dags \in Seq(SubDags(d))
            BY <5>1 DEF LinearizerState
          <5>3. Len(f[i].dags) \in Nat
            BY <5>2, LenProperties
          <5> QED  BY <2>2, <2>5, <3>4, <4>2, <5>3, BeginningOfAppended
        <4> QED  BY <2>4, <4>1, <4>2
      <3>9. LinearizedOK(d, j)
        BY <3>3, <3>6, <3>7, <3>8 DEF LinearizedOK, f, s, b
      <3> QED  BY <2>1, <3>9
    <2> QED  BY <2>7, <2>8
  <1>6. \A j \in 0..n : j \in G
    <2> HIDE DEF G
    <2> QED  BY <1>1, <1>4, <1>5, UpTo
  <1> QED  BY <1>6 DEF n, s

(* Handling the leaders in parts gives the same sub-dags. *)
LEMMA HandledInParts ==
    ASSUME NEW d \in Dags, NEW j \in 0..Len(WholeLeaders(d)), NEW t, Len(t) \in Nat,
           j + Len(t) <= Len(WholeLeaders(d)),
           \A i \in 1..Len(t) : t[i] = WholeLeaders(d)[j + i]
    PROVE  LET a == Linearized(d)[j]
               b == Linearized(d)[j + Len(t)]
               c == HandleCommit(d, a.committed, Len(a.dags), t)
           IN  /\ c \in LinearizerState(d) /\ c.committed = b.committed
               /\ c.failed = b.failed /\ a.dags \o c.dags = b.dags
  <1> DEFINE s == WholeLeaders(d)
             f == Linearized(d)
             a == f[j]
             m == Len(t)
  <1>1. /\ Len(s) \in Nat /\ j \in 0..Len(s) /\ j \in Nat /\ j + m <= Len(s)
        /\ \A k \in 1..Len(s) : f[k] = HandleOne(d, f[k - 1], s[k])
        /\ \A k \in 0..Len(s) : f[k] \in LinearizerState(d)
        /\ Leaders(d, s)
    <2>1. /\ Len(s) \in Nat
          /\ \A k \in 1..Len(s) : f[k] = HandleOne(d, f[k - 1], s[k])
          /\ \A k \in 0..Len(s) : f[k] \in LinearizerState(d)
          /\ Leaders(d, s)
      BY LinearizedStages
    <2>2. j \in 0..Len(s) /\ j + m <= Len(s)
      OBVIOUS
    <2>3. j \in Nat
      <3> HIDE DEF s
      <3> QED  BY <2>1, <2>2
    <2> QED  BY <2>1, <2>2, <2>3
  <1>2. LinearizerOK(d, a)
    <2>1. LinearizedOK(d, j)
      BY LinearizedFacts
    <2> QED  BY <2>1 DEF LinearizedOK
  <1>3. \A i \in 1..m : t[i] = s[j + i]
    OBVIOUS
  <1> HIDE DEF s, f, m
  <1>4. a \in LinearizerState(d)
    BY <1>1
  <1> HIDE DEF a
  <1>5. /\ a.committed \in SUBSET DOMAIN d /\ a.dags \in Seq(SubDags(d)) /\ Len(a.dags) \in Nat
        /\ a.height = Len(a.dags) /\ a.failed = FALSE
    <2>1. a.committed \in SUBSET DOMAIN d /\ a.dags \in Seq(SubDags(d))
      BY <1>4 DEF LinearizerState
    <2> QED  BY <1>2, <2>1, LenProperties DEF LinearizerOK
  <1>6. m \in Nat /\ \A i \in 1..m : j + i \in 1..Len(s) /\ (j + i) - 1 = j + (i - 1)
    <2>1. m \in Nat
      BY DEF m
    <2> QED  BY <1>1, <2>1
  <1>7. Leaders(d, t)
    BY <1>1, <1>3, <1>6 DEF Leaders, m
  <1> DEFINE h == HandledLeaders(d, a.committed, Len(a.dags), t)
             c == HandleCommit(d, a.committed, Len(a.dags), t)
  <1>8. /\ h[0] = Empty(a.committed, Len(a.dags))
        /\ \A k \in 1..m : h[k] = HandleOne(d, h[k - 1], t[k])
        /\ \A k \in 0..m : h[k] \in LinearizerState(d)
        /\ c = h[m]
    BY <1>5, <1>7, HandledStages DEF m
  <1> HIDE DEF h, c
  <1> DEFINE OK(k) == /\ h[k].committed = f[j + k].committed /\ h[k].failed = f[j + k].failed
                      /\ h[k].height = f[j + k].height
                      /\ a.dags \o h[k].dags = f[j + k].dags
             G == {k \in 0..m : OK(k)}
  <1>9. 0 \in G
    <2>1. j + 0 = j
      BY <1>1
    <2>2. /\ h[0].committed = a.committed /\ h[0].failed = FALSE /\ h[0].height = Len(a.dags)
          /\ h[0].dags = << >>
      BY <1>8 DEF Empty
    <2>3. a.dags \o << >> = a.dags
      BY <1>5
    <2>4. OK(0)
      BY <1>5, <2>1, <2>2, <2>3 DEF a
    <2> HIDE DEF OK
    <2> QED  BY <1>6, <2>4
  <1>10. ASSUME NEW k \in 1..m, k - 1 \in G  PROVE  k \in G
    <2> DEFINE x == h[k - 1]
               y == f[j + (k - 1)]
    <2>1. /\ x.committed = y.committed /\ x.failed = y.failed /\ x.height = y.height
          /\ a.dags \o x.dags = y.dags
      BY <1>10
    <2>2. h[k] = HandleOne(d, x, t[k]) /\ x \in LinearizerState(d) /\ k \in 0..m
      <3>1. k - 1 \in 0..m /\ k \in 0..m
        BY <1>6
      <3> QED  BY <1>8, <3>1
    <2>3. f[j + k] = HandleOne(d, y, t[k])
      BY <1>1, <1>3, <1>6
    <2>4. IsStatus(DOMAIN d, t[k].slot, t[k])
      BY <1>7 DEF Leaders, m
    <2> HIDE DEF x, y
    <2>5. CASE t[k].kind # "commit"
      <3>1. h[k] = x /\ f[j + k] = y
        BY <2>2, <2>3, <2>5 DEF HandleOne
      <3> QED  BY <2>1, <2>2, <3>1
    <2>6. CASE t[k].kind = "commit"
      <3>1. PICK l \in DOMAIN d : h[k] = CollectSubDag(d, x, l) /\ f[j + k] = CollectSubDag(d, y, l)
        BY <2>2, <2>3, <2>4, <2>6, StatusBlock
      <3> DEFINE r == [anchor |-> l, height |-> x.height + 1,
                       blocks |-> SubDag(d, x.committed, l)]
      <3>2. /\ h[k].committed = f[j + k].committed /\ h[k].failed = f[j + k].failed
            /\ h[k].height = f[j + k].height
            /\ h[k].dags = Append(x.dags, r) /\ f[j + k].dags = Append(y.dags, r)
        <4>1. r = [anchor |-> l, height |-> y.height + 1,
                   blocks |-> SubDag(d, y.committed, l)]
          BY <2>1, Zenon
        <4>2. h[k] = [committed |-> x.committed \cup SubDag(d, x.committed, l),
                      dags |-> Append(x.dags, r), height |-> x.height + 1,
                      failed |-> x.failed \/ l \in x.committed]
          BY <3>1, Zenon DEF CollectSubDag
        <4>3. f[j + k] = [committed |-> y.committed \cup SubDag(d, y.committed, l),
                          dags |-> Append(y.dags, r), height |-> y.height + 1,
                          failed |-> y.failed \/ l \in y.committed]
          BY <3>1, <4>1, Zenon DEF CollectSubDag
        <4> HIDE DEF r
        <4>4. h[k].dags = Append(x.dags, r) /\ f[j + k].dags = Append(y.dags, r)
          BY <4>2, <4>3
        <4>5. /\ h[k].committed = x.committed \cup SubDag(d, x.committed, l)
              /\ h[k].failed = (x.failed \/ l \in x.committed)
              /\ h[k].height = x.height + 1
          BY <4>2
        <4>6. /\ f[j + k].committed = y.committed \cup SubDag(d, y.committed, l)
              /\ f[j + k].failed = (y.failed \/ l \in y.committed)
              /\ f[j + k].height = y.height + 1
          BY <4>3
        <4> QED  BY <2>1, <4>4, <4>5, <4>6, Zenon
      <3>3. x.dags \in Seq(SubDags(d))
        BY <2>2 DEF LinearizerState
      <3>4. r \in SubDags(d)
        <4>1. x.committed \in SUBSET DOMAIN d /\ x.height \in Nat
          BY <2>2 DEF LinearizerState
        <4>2. SubDag(d, x.committed, l) \subseteq DOMAIN d
          BY SubDagFacts
        <4> QED  BY <4>1, <4>2 DEF SubDags
      <3> HIDE DEF r
      <3>5. a.dags \o Append(x.dags, r) = Append(a.dags \o x.dags, r)
        <4> DEFINE u == a.dags
                   z == x.dags
        <4>1. u \in Seq(SubDags(d)) /\ z \in Seq(SubDags(d))
          BY <1>5, <3>3
        <4> HIDE DEF u, z
        <4>2. u \o Append(z, r) = Append(u \o z, r)
          BY <3>4, <4>1, AppendToConcat
        <4> QED  BY <4>2 DEF u, z
      <3> QED  BY <2>1, <2>2, <3>2, <3>5
    <2> QED  BY <2>5, <2>6
  <1>11. m \in G
    <2> HIDE DEF G
    <2>1. \A k \in 0..m : k \in G
      BY <1>6, <1>9, <1>10, UpTo
    <2>2. m \in 0..m
      BY <1>6
    <2> QED  BY <2>1, <2>2
  <1>12. c \in LinearizerState(d)
    <2>1. m \in 0..m
      BY <1>6
    <2> QED  BY <1>8, <2>1
  <1> QED  BY <1>8, <1>11, <1>12 DEF a, c, f, m

------------------------------------------------------------------------------
(* The replica *)

SentDags(d) == [anchor : DOMAIN d, height : Nat, blocks : Seq(DOMAIN d)]

(* What is sent and logged for a sub-dag: its blocks in some order. *)
Sends(e, s) ==
    /\ e.anchor = s.anchor /\ e.height = s.height
    /\ RoundsInOrder(e.blocks, s.blocks)
    /\ Unsorted(e) = s

SendsAll(d, u, D) ==
    /\ u \in Seq(SentDags(d)) /\ Len(u) = Len(D)
    /\ \A h \in 1..Len(D) : Sends(u[h], D[h])

LEMMA SortedSends ==
    ASSUME NEW d \in Dags, NEW id \in Processes, NEW D \in Seq(SubDags(d))
    PROVE  SendsAll(d, Sorted(id, D), D)
  <1> DEFINE u == Sorted(id, D)
             n == Len(D)
  <1>1. n \in Nat /\ DOMAIN D = 1..n /\ \A h \in 1..n : D[h] \in SubDags(d)
    BY LenProperties
  <1>2. u = [h \in 1..n |-> [D[h] EXCEPT !.blocks = SortBlocks(id, @)]]
    BY <1>1 DEF Sorted
  <1> HIDE DEF u, n
  <1>3. ASSUME NEW h \in 1..n  PROVE  u[h] \in SentDags(d) /\ Sends(u[h], D[h])
    <2> DEFINE r == D[h]
               t == SortBlocks(id, r.blocks)
               e == [r EXCEPT !.blocks = t]
    <2>1. u[h] = e
      BY <1>2
    <2>2. r \in SubDags(d)
      BY <1>1
    <2> HIDE DEF r
    <2>3. /\ r.anchor \in DOMAIN d /\ r.height \in Nat /\ r.blocks \subseteq DOMAIN d
          /\ r = [anchor |-> r.anchor, height |-> r.height, blocks |-> r.blocks]
      BY <2>2 DEF SubDags
    <2>4. RoundsInOrder(t, r.blocks)
      BY <2>3, SortBlocksFacts
    <2> HIDE DEF t
    <2>5. t \in Seq(DOMAIN d) /\ Range(t) = r.blocks
      <3>1. t \in Seq(r.blocks) /\ Range(t) = r.blocks
        BY <2>4 DEF RoundsInOrder
      <3> QED  BY <2>3, <3>1
    <2>6. e = [anchor |-> r.anchor, height |-> r.height, blocks |-> t]
      BY <2>3
    <2> HIDE DEF e
    <2>7. e \in SentDags(d)
      BY <2>3, <2>5, <2>6 DEF SentDags
    <2>8. Unsorted(e) = r
      <3>1. Unsorted(e) = [anchor |-> r.anchor, height |-> r.height, blocks |-> Range(t)]
        BY <2>6 DEF Unsorted
      <3> QED  BY <2>3, <2>5, <3>1
    <2>9. Sends(e, r)
      BY <2>4, <2>6, <2>8 DEF Sends
    <2> QED  BY <2>1, <2>7, <2>9 DEF r
  <1>4. u \in Seq(SentDags(d)) /\ Len(u) = n
    <2>1. u \in [1..n -> SentDags(d)]
      BY <1>2, <1>3
    <2> HIDE DEF Sends
    <2> QED  BY <1>1, <2>1
  <1> QED  BY <1>3, <1>4 DEF SendsAll, u, n

LEMMA SendsBoth ==
    ASSUME NEW d \in Dags, NEW D \in Seq(SubDags(d)), NEW E \in Seq(SubDags(d)), NEW u, NEW t,
           SendsAll(d, u, D), SendsAll(d, t, E)
    PROVE  SendsAll(d, u \o t, D \o E)
  <1> DEFINE m == Len(D)
             n == Len(E)
  <1>1. /\ u \in Seq(SentDags(d)) /\ t \in Seq(SentDags(d)) /\ Len(u) = m /\ Len(t) = n
        /\ \A h \in 1..m : Sends(u[h], D[h])
        /\ \A h \in 1..n : Sends(t[h], E[h])
    BY DEF SendsAll
  <1>2. m \in Nat /\ n \in Nat
    BY LenProperties
  <1> DEFINE U == u \o t
             W == D \o E
  <1>3. /\ U \in Seq(SentDags(d)) /\ Len(U) = m + n /\ Len(W) = m + n
        /\ \A h \in 1..(m + n) : /\ U[h] = IF h <= m THEN u[h] ELSE t[h - m]
                                 /\ W[h] = IF h <= m THEN D[h] ELSE E[h - m]
    <2>1. /\ U \in Seq(SentDags(d)) /\ Len(U) = m + n
          /\ \A h \in 1..(m + n) : U[h] = IF h <= m THEN u[h] ELSE t[h - m]
      <3> HIDE DEF m, n, U
      <3>1. /\ U \in Seq(SentDags(d)) /\ Len(U) = Len(u) + Len(t)
            /\ \A h \in 1..(Len(u) + Len(t)) :
                  U[h] = IF h <= Len(u) THEN u[h] ELSE t[h - Len(u)]
        BY <1>1, ConcatProperties DEF U
      <3> QED  BY <1>1, <3>1
    <2>2. /\ Len(W) = m + n
          /\ \A h \in 1..(m + n) : W[h] = IF h <= m THEN D[h] ELSE E[h - m]
      BY ConcatProperties
    <2> QED  BY <2>1, <2>2
  <1> HIDE DEF U, W, m, n
  <1>4. ASSUME NEW h \in 1..(m + n)  PROVE  Sends(U[h], W[h])
    <2>1. CASE h <= m
      <3>1. h \in 1..m
        BY <1>2, <2>1
      <3> QED  BY <1>1, <1>3, <2>1, <3>1
    <2>2. CASE ~ (h <= m)
      <3>1. h - m \in 1..n
        BY <1>2, <2>2
      <3> QED  BY <1>1, <1>3, <2>2, <3>1
    <2> QED  BY <2>1, <2>2
  <1>5. SendsAll(d, U, W)
    BY <1>3, <1>4 DEF SendsAll
  <1> QED  BY <1>5 DEF U, W

(* What a restart finds in a log. *)
LEMMA SendsFacts ==
    ASSUME NEW d \in Dags, NEW D \in Seq(SubDags(d)), NEW u, SendsAll(d, u, D)
    PROVE  /\ u \in Seq(SentDags(d)) /\ Len(u) = Len(D) /\ Len(u) \in Nat /\ DOMAIN u = 1..Len(D)
           /\ u = << >> <=> D = << >>
           /\ u # << >> => Last(u).anchor = Last(D).anchor
           /\ \A n \in 0..Len(D) : RecoverCommitted(SubSeq(u, 1, n)) = First(D, n)
           /\ RecoverCommitted(u) = First(D, Len(D))
           /\ \A h \in 1..Len(D) : RoundsInOrder(u[h].blocks, D[h].blocks)
  <1> DEFINE n == Len(D)
  <1>1. /\ u \in Seq(SentDags(d)) /\ Len(u) = n /\ \A h \in 1..n : Sends(u[h], D[h])
    BY DEF SendsAll
  <1>2. n \in Nat /\ DOMAIN u = 1..n /\ DOMAIN D = 1..n
    BY <1>1, LenProperties
  <1>3. (u = << >> <=> n = 0) /\ (D = << >> <=> n = 0)
    BY <1>1, EmptySeq
  <1> HIDE DEF n
  <1>4. ASSUME u # << >>  PROVE  Last(u).anchor = Last(D).anchor
    <2>1. n \in 1..n
      BY <1>2, <1>3, <1>4
    <2>2. Last(u) = u[n] /\ Last(D) = D[n]
      BY <1>1 DEF Last, n
    <2> QED  BY <1>1, <2>1, <2>2 DEF Sends
  <1>5. \A h \in 1..n : /\ RoundsInOrder(u[h].blocks, D[h].blocks)
                        /\ Range(u[h].blocks) = D[h].blocks
    BY <1>1 DEF Sends, RoundsInOrder
  <1>6. RecoverCommitted(u) = First(D, n)
    BY <1>2, <1>5 DEF RecoverCommitted, First
  <1>7. ASSUME NEW k \in 0..n  PROVE  RecoverCommitted(SubSeq(u, 1, k)) = First(D, k)
    <2> DEFINE w == SubSeq(u, 1, k)
    <2>1. w \in Seq(SentDags(d)) /\ Len(w) = k /\ \A i \in 1..k : w[i] = u[i]
      BY <1>1, <1>2, SubSeqProperties
    <2>2. DOMAIN w = 1..k /\ \A i \in 1..k : i \in 1..n
      BY <1>2, <2>1, LenProperties
    <2> HIDE DEF w
    <2>3. RecoverCommitted(w) = First(D, k)
      BY <1>5, <2>1, <2>2 DEF RecoverCommitted, First
    <2> QED  BY <2>3 DEF w
  <1> QED  BY <1>1, <1>2, <1>3, <1>4, <1>5, <1>6, <1>7 DEF n

LEMMA SendsNothing == ASSUME NEW d  PROVE  SendsAll(d, << >>, << >>)
  <1>1. << >> \in Seq(SentDags(d)) /\ Len(<< >>) = 0 /\ 1..0 = {}
    OBVIOUS
  <1> QED  BY <1>1 DEF SendsAll

(* The replica is where one with the whole dag is after the first j        *)
(* leaders; the log is where it was after the first i of them.             *)
At(i, j) ==
    LET f == Linearized(dag)
    IN  /\ last_decided = LeaderSlot(NumberOfLeaders + j)
        /\ committed = f[j].committed
        /\ SendsAll(dag, wal, f[i].dags)
        /\ SendsAll(dag, wal \o unsaved, f[j].dags)

StoreOK ==
    /\ dag \in Dags
    /\ Closed(dag, store) /\ AtRound(DOMAIN dag, 0) \subseteq store

SentOK == \A e \in sent : \E h \in 1..Len(Output[dag]) : Sends(e, Output[dag][h])

CommitInv ==
    /\ StoreOK
    /\ process \in Processes
    /\ failed = FALSE
    /\ pc # "sent" => unsaved = << >>
    /\ \E j \in 0..Len(WholeLeaders(dag)) : \E i \in 0..j : At(i, j)
    /\ SentOK

LEMMA StoreNotEmpty == ASSUME StoreOK  PROVE  store # {} /\ Closed(dag, store)
  BY DagAssumption DEF StoreOK

LEMMA LinearizedTypes ==
    ASSUME NEW d \in Dags, NEW j \in 0..Len(WholeLeaders(d))
    PROVE  LET lin == Linearized(d)[j]
           IN  /\ lin.dags \in Seq(SubDags(d)) /\ lin.committed \subseteq DOMAIN d
               /\ LinearizedOK(d, j) /\ LinearizerOK(d, lin)
               /\ \A i \in 0..j : i \in 0..Len(WholeLeaders(d)) /\ j \in Nat
  <1> DEFINE n == Len(WholeLeaders(d))
  <1>1. n \in Nat /\ \A k \in 0..n : Linearized(d)[k] \in LinearizerState(d)
    BY LinearizedStages
  <1>2. \A k \in 0..n : LinearizedOK(d, k)
    BY LinearizedFacts
  <1> HIDE DEF n
  <1>3. j \in 0..n
    BY DEF n
  <1>4. Linearized(d)[j] \in LinearizerState(d) /\ LinearizedOK(d, j)
    BY <1>1, <1>2, <1>3
  <1>5. LinearizerOK(d, Linearized(d)[j])
    BY <1>4 DEF LinearizedOK
  <1>6. \A i \in 0..j : i \in 0..n /\ j \in Nat
    BY <1>1, <1>3
  <1>7. /\ Linearized(d)[j].dags \in Seq(SubDags(d))
        /\ Linearized(d)[j].committed \subseteq DOMAIN d
    BY <1>4 DEF LinearizerState
  <1> QED  BY <1>4, <1>5, <1>6, <1>7 DEF n

(* What has been sent after j leaders is the beginning of the output. *)
LEMMA OutputFacts ==
    ASSUME NEW d \in Dags
    PROVE  /\ Output[d] \in Seq(SubDags(d))
           /\ \A h \in 1..Len(Output[d]) : Output[d][h].height = h
           /\ \A j \in 0..Len(WholeLeaders(d)) : IsBeginning(Linearized(d)[j].dags, Output[d])
  <1> DEFINE n == Len(WholeLeaders(d))
  <1>1. n \in Nat /\ Output[d] = Linearized(d)[n].dags
    BY LinearizedStages
  <1>2. n \in 0..n
    BY <1>1
  <1>3. LinearizedOK(d, n) /\ LinearizerOK(d, Linearized(d)[n])
        /\ Linearized(d)[n].dags \in Seq(SubDags(d))
    BY <1>2, LinearizedTypes
  <1>4. \A h \in 1..Len(Output[d]) : Output[d][h].height = h
    BY <1>1, <1>3 DEF LinearizerOK
  <1>5. \A j \in 0..n : IsBeginning(Linearized(d)[j].dags, Linearized(d)[n].dags)
    BY <1>3 DEF LinearizedOK
  <1> QED  BY <1>1, <1>3, <1>4, <1>5

LEMMA CommitStart == CommitInit => CommitInv
  <1> SUFFICES ASSUME CommitInit  PROVE  CommitInv
    OBVIOUS
  <1>1. /\ dag \in Dags /\ store = AtRound(DOMAIN dag, 0) /\ last_decided = GenesisSlot
        /\ committed = {} /\ wal = << >> /\ unsaved = << >> /\ failed = FALSE /\ sent = {}
        /\ process \in Processes
    BY DEF CommitInit, AtRound
  <1>2. Closed(dag, store)
    <2>1. ASSUME NEW b \in store, NEW x \in Range(dag[b])  PROVE  FALSE
      <3>1. b \in DOMAIN dag /\ b[2] = 0
        BY <1>1 DEF AtRound
      <3>2. x \in DOMAIN dag /\ x[2] < b[2]
        BY <1>1, <3>1, DagFacts
      <3>3. x[2] \in Nat
        BY <1>1, <3>2, DagFacts
      <3> QED  BY <3>1, <3>2, <3>3
    <2> QED  BY <1>1, <2>1 DEF Closed, AtRound
  <1>3. Linearized(dag)[0] = Empty({}, 0) /\ Len(WholeLeaders(dag)) \in Nat
    BY <1>1, LinearizedStages
  <1>4. last_decided = LeaderSlot(NumberOfLeaders + 0)
    <2>1. NumberOfLeaders + 0 = NumberOfLeaders
      BY LeaderConstants
    <2> QED  BY <1>1, <2>1, FirstLeader
  <1>5. << >> \o << >> = << >>
    OBVIOUS
  <1>6. At(0, 0)
    BY <1>1, <1>3, <1>4, <1>5, SendsNothing DEF At, Empty
  <1>7. \E j \in 0..Len(WholeLeaders(dag)) : \E i \in 0..j : At(i, j)
    <2>1. 0 \in 0..Len(WholeLeaders(dag)) /\ 0 \in 0..0
      BY <1>3
    <2> QED  BY <1>6, <2>1
  <1> QED  BY <1>1, <1>2, <1>7 DEF CommitInv, StoreOK, SentOK

(* A block whose includes are held is added. *)
LEMMA StoreGrows ==
    ASSUME StoreOK, NEW b \in DOMAIN dag, Complete(b), store' = store \cup {b}, dag' = dag
    PROVE  StoreOK'
  BY DEF StoreOK, Closed, Complete

LEMMA CommitLeadersKeeps == CommitInv /\ CommitLeaders => CommitInv'
  <1> SUFFICES ASSUME CommitInv, CommitLeaders  PROVE  CommitInv'
    OBVIOUS
  <1> DEFINE t == TryCommit(dag, store, last_decided)
             c == HandleCommit(dag, committed, Len(wal), t)
             u == Sorted(process, c.dags)
             s == WholeLeaders(dag)
             f == Linearized(dag)
             N == NumberOfLeaders
  <1>1. /\ pc = "proposed" /\ dag' = dag /\ store' = store /\ wal' = wal /\ pc' = "sent"
        /\ last_decided' = IF t = << >> THEN last_decided ELSE Last(t).slot
        /\ committed' = c.committed /\ unsaved' = u
        /\ sent' = sent \cup Range(u) /\ failed' = c.failed /\ process' = process
    BY DEF CommitLeaders
  <1>2. StoreOK /\ SentOK /\ unsaved = << >> /\ dag \in Dags /\ process \in Processes
    BY <1>1 DEF CommitInv, StoreOK
  <1>3. PICK j \in 0..Len(s) : \E i \in 0..j : At(i, j)
    BY DEF CommitInv
  <1> DEFINE m == Len(t)
             b == f[j + m]
  <1>4. /\ last_decided = LeaderSlot(N + j) /\ committed = f[j].committed
        /\ SendsAll(dag, wal \o unsaved, f[j].dags)
        /\ \E i \in 0..j : SendsAll(dag, wal, f[i].dags)
    BY <1>3 DEF At
  <1>5. /\ SendsAll(dag, wal, f[j].dags) /\ Len(wal) = Len(f[j].dags) /\ Len(wal) \in Nat
        /\ f[j].dags \in Seq(SubDags(dag)) /\ j \in Nat
    <2>1. f[j].dags \in Seq(SubDags(dag)) /\ \A i \in 0..j : i \in 0..Len(s) /\ j \in Nat
      BY <1>2, LinearizedTypes
    <2>2. wal \in Seq(SentDags(dag))
      BY <1>4 DEF SendsAll
    <2>3. wal \o << >> = wal
      BY <2>2
    <2>4. SendsAll(dag, wal, f[j].dags)
      BY <1>2, <1>4, <2>3
    <2>5. j \in Nat
      BY <1>4, <2>1
    <2> HIDE DEF f
    <2> QED  BY <1>2, <2>1, <2>4, <2>5, SendsFacts
  <1>6. /\ m \in Nat /\ DOMAIN t = 1..m /\ (m = 0 => t = << >>) /\ j + m <= Len(s)
        /\ \A i \in 1..m : t[i] = s[j + i]
    <2>1. store # {} /\ Closed(dag, store)
      BY <1>2, StoreNotEmpty
    <2> HIDE DEF s
    <2>2. j \in 0..Len(WholeLeaders(dag)) /\ s = WholeLeaders(dag)
      BY DEF s
    <2> QED  BY <1>2, <1>4, <2>1, <2>2, CommitAgrees
  <1>7. /\ c \in LinearizerState(dag) /\ c.committed = b.committed
        /\ c.failed = b.failed /\ f[j].dags \o c.dags = b.dags
    <2> HIDE DEF t
    <2>1. c = HandleCommit(dag, f[j].committed, Len(f[j].dags), t)
      BY <1>4, <1>5
    <2> HIDE DEF c
    <2> QED  BY <1>2, <1>5, <1>6, <2>1, HandledInParts
  <1> HIDE DEF t, c, f, u
  <1>8. j + m \in 0..Len(s) /\ Len(s) \in Nat
    <2>1. Len(s) \in Nat
      BY <1>2, LinearizedStages
    <2> HIDE DEF s, m
    <2> QED  BY <1>5, <1>6, <2>1
  <1>9. /\ b.dags \in Seq(SubDags(dag)) /\ LinearizerOK(dag, b)
        /\ c.dags \in Seq(SubDags(dag))
    <2>1. b.dags \in Seq(SubDags(dag)) /\ LinearizerOK(dag, b)
      BY <1>2, <1>8, LinearizedTypes DEF f
    <2>2. c.dags \in Seq(SubDags(dag))
      BY <1>7 DEF LinearizerState
    <2> QED  BY <2>1, <2>2
  <1>10. failed' = FALSE
    BY <1>1, <1>7, <1>9 DEF LinearizerOK
  <1>16. SendsAll(dag, u, c.dags) /\ SendsAll(dag, wal \o u, b.dags)
    <2>1. SendsAll(dag, u, c.dags)
      BY <1>2, <1>9, SortedSends DEF u
    <2> DEFINE x == f[j].dags
               y == c.dags
    <2>2. x \in Seq(SubDags(dag)) /\ y \in Seq(SubDags(dag)) /\ x \o y = b.dags
      BY <1>5, <1>7, <1>9
    <2>3. SendsAll(dag, wal, x) /\ SendsAll(dag, u, y)
      BY <1>5, <2>1
    <2> HIDE DEF x, y
    <2>4. SendsAll(dag, wal \o u, x \o y)
      BY <1>2, <2>2, <2>3, SendsBoth
    <2> QED  BY <2>1, <2>2, <2>4
  <1>11. last_decided' = LeaderSlot(N + (j + m))
    <2>1. CASE m = 0
      <3>1. t = << >>
        BY <1>6, <2>1
      <3>2. j + m = j
        BY <1>5, <2>1
      <3> QED  BY <1>1, <1>4, <3>1, <3>2
    <2>2. CASE m # 0
      <3>1. t # << >>
        BY <2>2
      <3>2. m \in 1..m
        BY <1>6, <2>2
      <3>3. Last(t) = s[j + m]
        BY <1>6, <3>2 DEF Last
      <3>4. j + m \in 1..Len(s)
        <4> HIDE DEF m, s
        <4> QED  BY <1>5, <1>6, <1>8, <2>2
      <3>5. s[j + m].slot = LeaderSlot(N + (j + m))
        BY <1>2, <3>4, WholeFacts
      <3> QED  BY <1>1, <3>1, <3>3, <3>5
    <2> QED  BY <2>1, <2>2
  <1>12. PICK k \in 0..Len(s) : k = j + m
    BY <1>8
  <1>13. \E l \in 0..Len(WholeLeaders(dag')) : \E i \in 0..l : At(i, l)'
    <2>1. j \in 0..k
      <3>1. m \in Nat /\ k = j + m
        BY <1>6, <1>12
      <3> HIDE DEF m
      <3> QED  BY <1>5, <3>1
    <2>2. /\ last_decided' = LeaderSlot(N + k) /\ committed' = f[k].committed
          /\ SendsAll(dag, wal', f[j].dags) /\ SendsAll(dag, wal' \o unsaved', f[k].dags)
      BY <1>1, <1>5, <1>7, <1>11, <1>12, <1>16
    <2>3. At(j, k)'
      BY <1>1, <2>2 DEF At, f
    <2> QED  BY <1>1, <2>1, <2>3
  <1>14. SentOK'
    <2>1. IsBeginning(b.dags, Output[dag])
      BY <1>2, <1>8, OutputFacts DEF f
    <2>2. /\ Len(b.dags) = Len(wal) + Len(c.dags) /\ Len(wal) \in Nat /\ Len(c.dags) \in Nat
          /\ \A h \in 1..Len(c.dags) : b.dags[Len(wal) + h] = c.dags[h]
      <3> DEFINE x == f[j].dags
      <3>1. /\ Len(x \o c.dags) = Len(x) + Len(c.dags) /\ Len(x) = Len(wal)
            /\ Len(wal) \in Nat /\ Len(c.dags) \in Nat
        BY <1>5, <1>9, ConcatProperties, LenProperties
      <3>2. x \in Seq(SubDags(dag)) /\ x \o c.dags = b.dags
        BY <1>5, <1>7
      <3> HIDE DEF x
      <3>3. ASSUME NEW h \in 1..Len(c.dags)  PROVE  (x \o c.dags)[Len(wal) + h] = c.dags[h]
        <4>1. /\ Len(wal) + h \in 1..(Len(x) + Len(c.dags))
              /\ ~ (Len(wal) + h <= Len(x)) /\ (Len(wal) + h) - Len(x) = h
          BY <3>1
        <4> QED  BY <1>9, <3>2, <4>1, ConcatProperties
      <3> QED  BY <3>1, <3>2, <3>3
    <2>3. ASSUME NEW e \in Range(u)
          PROVE  \E h \in 1..Len(Output[dag]) : Sends(e, Output[dag][h])
      <3>1. PICK g \in 1..Len(c.dags) : Sends(e, c.dags[g])
        <4>1. /\ u \in Seq(SentDags(dag)) /\ Len(u) = Len(c.dags)
              /\ \A h \in 1..Len(c.dags) : Sends(u[h], c.dags[h])
          BY <1>16 DEF SendsAll
        <4>2. PICK g \in 1..Len(c.dags) : e = u[g]
          BY <4>1, RangeIs
        <4> QED  BY <4>1, <4>2
      <3> DEFINE h == Len(wal) + g
      <3>2. h \in 1..Len(b.dags)
        BY <2>2
      <3>3. Len(Output[dag]) \in Nat
        BY <1>2, OutputFacts, LenProperties
      <3>4. b.dags[h] = c.dags[g]
        BY <2>2
      <3>5. Len(b.dags) \in Nat
        BY <2>2
      <3> HIDE DEF h, b
      <3>6. Output[dag][h] = b.dags[h] /\ Len(b.dags) <= Len(Output[dag])
        BY <2>1, <3>2 DEF IsBeginning
      <3>7. h \in 1..Len(Output[dag])
        BY <3>2, <3>3, <3>5, <3>6
      <3> QED  BY <3>1, <3>4, <3>6, <3>7
    <2> QED  BY <1>1, <1>2, <2>3 DEF SentOK
  <1>15. StoreOK'
    BY <1>1, <1>2 DEF StoreOK
  <1> QED  BY <1>1, <1>2, <1>10, <1>13, <1>14, <1>15 DEF CommitInv

LEMMA AtTypes ==
    ASSUME StoreOK, NEW j \in 0..Len(WholeLeaders(dag)), NEW i \in 0..j, At(i, j)
    PROVE  LET D == Linearized(dag)[i].dags
           IN  /\ wal \in Seq(SentDags(dag)) /\ wal \o unsaved \in Seq(SentDags(dag))
               /\ i \in 0..Len(WholeLeaders(dag)) /\ j \in Nat /\ i \in Nat /\ dag \in Dags
               /\ LinearizedOK(dag, i) /\ LinearizerOK(dag, Linearized(dag)[i])
               /\ D \in Seq(SubDags(dag)) /\ SendsAll(dag, wal, D)
  <1>1. dag \in Dags
    BY DEF StoreOK
  <1>2. i \in 0..Len(WholeLeaders(dag)) /\ j \in Nat
    BY <1>1, LinearizedTypes
  <1>3. i \in Nat
    BY <1>2
  <1>4. /\ Linearized(dag)[i].dags \in Seq(SubDags(dag))
        /\ LinearizedOK(dag, i) /\ LinearizerOK(dag, Linearized(dag)[i])
    BY <1>1, <1>2, LinearizedTypes
  <1>5. SendsAll(dag, wal, Linearized(dag)[i].dags)
    BY DEF At
  <1>6. wal \in Seq(SentDags(dag)) /\ wal \o unsaved \in Seq(SentDags(dag))
    BY DEF At, SendsAll
  <1> QED  BY <1>1, <1>2, <1>3, <1>4, <1>5, <1>6

LEMMA WriteCommitsKeeps == CommitInv /\ WriteCommits => CommitInv'
  <1> SUFFICES ASSUME CommitInv, WriteCommits  PROVE  CommitInv'
    OBVIOUS
  <1>1. /\ wal' = wal \o unsaved /\ unsaved' = << >> /\ dag' = dag /\ store' = store
        /\ last_decided' = last_decided /\ committed' = committed /\ failed' = failed
        /\ sent' = sent /\ process' = process
    BY DEF WriteCommits
  <1>2. PICK j \in 0..Len(WholeLeaders(dag)) : \E i \in 0..j : At(i, j)
    BY DEF CommitInv
  <1>3. PICK i \in 0..j : At(i, j)
    BY <1>2
  <1>4. StoreOK /\ failed = FALSE /\ SentOK
    BY DEF CommitInv
  <1>5. wal \o unsaved \in Seq(SentDags(dag)) /\ j \in Nat
    BY <1>3, <1>4, AtTypes
  <1>6. (wal \o unsaved) \o << >> = wal \o unsaved
    BY <1>5
  <1>7. At(j, j)'
    <2>1. /\ last_decided' = LeaderSlot(NumberOfLeaders + j)
          /\ committed' = Linearized(dag')[j].committed
          /\ SendsAll(dag', wal', Linearized(dag')[j].dags) /\ wal' \o unsaved' = wal'
      BY <1>1, <1>3, <1>6 DEF At
    <2> QED  BY <2>1 DEF At
  <1>8. j \in 0..j
    BY <1>5
  <1>9. StoreOK' /\ SentOK' /\ process' \in Processes
    BY <1>1, <1>4 DEF StoreOK, SentOK, CommitInv
  <1> QED  BY <1>1, <1>4, <1>7, <1>8, <1>9 DEF CommitInv

LEMMA RestartKeeps == CommitInv /\ Restart => CommitInv'
  <1> SUFFICES ASSUME CommitInv, Restart  PROVE  CommitInv'
    OBVIOUS
  <1>1. /\ wal' = wal /\ unsaved' = << >> /\ dag' = dag /\ store' = store
        /\ last_decided' = IF wal = << >> THEN GenesisSlot ELSE Slot(Last(wal).anchor)
        /\ committed' = RecoverCommitted(wal) /\ failed' = failed /\ sent' = sent
        /\ process' \in Processes
    BY DEF Restart
  <1>2. PICK j \in 0..Len(WholeLeaders(dag)) : \E i \in 0..j : At(i, j)
    BY DEF CommitInv
  <1>3. PICK i \in 0..j : At(i, j)
    BY <1>2
  <1>4. StoreOK /\ failed = FALSE /\ SentOK
    BY DEF CommitInv
  <1> DEFINE D == Linearized(dag)[i].dags
  <1>5. /\ wal \in Seq(SentDags(dag)) /\ dag \in Dags
        /\ i \in 0..Len(WholeLeaders(dag)) /\ i \in Nat
        /\ LinearizedOK(dag, i) /\ D \in Seq(SubDags(dag)) /\ SendsAll(dag, wal, D)
    BY <1>3, <1>4, AtTypes
  <1>6. wal \o << >> = wal
    BY <1>5
  <1>13. /\ wal = << >> <=> D = << >>
         /\ wal # << >> => Last(wal).anchor = Last(D).anchor
         /\ RecoverCommitted(wal) = First(D, Len(D))
    <2> HIDE DEF D
    <2> QED  BY <1>5, SendsFacts
  <1>7. \E k \in 0..Len(WholeLeaders(dag)) :
           /\ LeaderSlot(NumberOfLeaders + k) =
                 IF wal = << >> THEN GenesisSlot ELSE Slot(Last(wal).anchor)
           /\ D = Linearized(dag)[k].dags
           /\ k \in Nat
    <2>1. CASE wal = << >>
      <3>1. /\ 0 \in 0..Len(WholeLeaders(dag)) /\ 0 \in Nat
            /\ Linearized(dag)[0].dags = << >>
        BY <1>5, LinearizedStages DEF Empty
      <3>2. LeaderSlot(NumberOfLeaders + 0) = GenesisSlot
        <4>1. NumberOfLeaders + 0 = NumberOfLeaders
          BY LeaderConstants
        <4> QED  BY <4>1, FirstLeader
      <3> QED  BY <1>13, <2>1, <3>1, <3>2
    <2>2. CASE wal # << >>
      <3>1. PICK k \in 1..i : /\ Slot(Last(D).anchor) = WholeLeaders(dag)[k].slot
                              /\ Linearized(dag)[k].dags = D
        BY <1>5, <1>13, <2>2 DEF LinearizedOK
      <3> DEFINE n == Len(WholeLeaders(dag))
      <3>2. n \in Nat /\ i \in 0..n
        BY <1>5, LinearizedStages
      <3>3. k \in 1..n /\ k \in 0..n /\ k \in Nat
        <4> HIDE DEF n
        <4> QED  BY <1>5, <3>2
      <3>4. WholeLeaders(dag)[k].slot = LeaderSlot(NumberOfLeaders + k)
        BY <1>5, <3>3, WholeFacts
      <3> QED  BY <1>13, <2>2, <3>1, <3>3, <3>4
    <2> QED  BY <2>1, <2>2
  <1>8. PICK k \in 0..Len(WholeLeaders(dag)) :
           /\ LeaderSlot(NumberOfLeaders + k) =
                 IF wal = << >> THEN GenesisSlot ELSE Slot(Last(wal).anchor)
           /\ D = Linearized(dag)[k].dags
           /\ k \in Nat
    BY <1>7
  <1>9. committed' = Linearized(dag)[k].committed
    <2>1. LinearizerOK(dag, Linearized(dag)[k])
      BY <1>5, <1>8, LinearizedTypes
    <2>2. Linearized(dag)[k].committed = First(D, Len(D))
      <3> HIDE DEF D
      <3> QED  BY <1>8, <2>1 DEF LinearizerOK
    <2> QED  BY <1>1, <1>13, <2>2
  <1>10. At(k, k)'
    <2>1. /\ last_decided' = LeaderSlot(NumberOfLeaders + k)
          /\ committed' = Linearized(dag')[k].committed
          /\ SendsAll(dag', wal', Linearized(dag')[k].dags) /\ wal' \o unsaved' = wal'
      BY <1>1, <1>5, <1>6, <1>8, <1>9
    <2> QED  BY <2>1 DEF At
  <1>11. k \in 0..k
    BY <1>8
  <1>12. StoreOK' /\ SentOK'
    BY <1>1, <1>4 DEF StoreOK, SentOK
  <1> QED  BY <1>1, <1>4, <1>10, <1>11, <1>12 DEF CommitInv

(* Nothing but the blocks held and the place in the loop changes. *)
LEMMA OthersKeep ==
    ASSUME CommitInv, StoreOK', dag' = dag, pc' # "sent" => unsaved = << >>,
           process' = process, UNCHANGED <<last_decided, committed, wal, unsaved, failed, sent>>
    PROVE  CommitInv'
  <1>1. PICK j \in 0..Len(WholeLeaders(dag)) : \E i \in 0..j : At(i, j)
    BY DEF CommitInv
  <1>2. PICK i \in 0..j : At(i, j)
    BY <1>1
  <1>3. At(i, j)'
    BY <1>2 DEF At
  <1>4. SentOK' /\ failed' = FALSE /\ process' \in Processes
    BY DEF CommitInv, SentOK
  <1> QED  BY <1>3, <1>4 DEF CommitInv

LEMMA CommitKeeps == CommitInv /\ [CommitNext]_commitVars => CommitInv'
  <1> SUFFICES ASSUME CommitInv, [CommitNext]_commitVars  PROVE  CommitInv'
    OBVIOUS
  <1>1. CASE AddBlock
    <2>1. PICK b \in DOMAIN dag : /\ pc = "idle" /\ Complete(b) /\ store' = store \cup {b}
                                  /\ UNCHANGED <<dag, process, last_decided, committed, wal,
                                                 unsaved, pc, failed, sent>>
      BY <1>1 DEF AddBlock
    <2>2. StoreOK'
      BY <2>1, StoreGrows DEF CommitInv
    <2> QED  BY <2>1, <2>2, OthersKeep DEF CommitInv
  <1>2. CASE NewBlock
    <2>1. PICK b \in DOMAIN dag : /\ pc = "idle" /\ Complete(b) /\ store' = store \cup {b}
                                  /\ UNCHANGED <<dag, process, last_decided, committed, wal,
                                                 unsaved, failed, sent>>
      BY <1>2 DEF NewBlock
    <2>2. StoreOK'
      BY <2>1, StoreGrows DEF CommitInv
    <2> QED  BY <2>1, <2>2, OthersKeep DEF CommitInv
  <1>3. CASE CommitLeaders
    BY <1>3, CommitLeadersKeeps
  <1>4. CASE WriteCommits
    BY <1>4, WriteCommitsKeeps
  <1>5. CASE Restart
    BY <1>5, RestartKeeps
  <1>6. CASE UNCHANGED commitVars
    <2>1. UNCHANGED <<dag, process, store, last_decided, committed, wal, unsaved, pc,
                      failed, sent>>
      BY <1>6 DEF commitVars
    <2>2. StoreOK'
      BY <2>1 DEF CommitInv, StoreOK
    <2> QED  BY <2>1, <2>2, OthersKeep DEF CommitInv
  <1> QED  BY <1>1, <1>2, <1>3, <1>4, <1>5, <1>6 DEF CommitNext

(* The replica is always where a replica with the whole dag has been: after *)
(* some of its leaders, with its sub-dags sent, and those of a beginning    *)
(* logged, the blocks of each sorted in some process.                      *)
THEOREM CommitHolds == CommitSpec => []CommitInv
  <1> QED  BY CommitStart, CommitKeeps, PTL DEF CommitSpec

(* Validators agree on the sub-dags, on their heights and on the blocks of  *)
(* each, whatever order the blocks arrive in, however the decisions are     *)
(* spread over steps, wherever a restart falls, and whatever process sorts. *)
THEOREM OutputsAgree == CommitSpec => []Agreement
  <1>1. ASSUME CommitInv  PROVE  Agreement
    <2>1. dag \in Dags /\ SentOK
      BY <1>1 DEF CommitInv, StoreOK
    <2>2. /\ Len(Output[dag]) \in Nat
          /\ \A h \in 1..Len(Output[dag]) : Output[dag][h].height = h
      BY <2>1, OutputFacts, LenProperties
    <2>3. ASSUME NEW e \in sent
          PROVE  e.height <= Len(Output[dag]) /\ Unsorted(e) = Output[dag][e.height]
      <3>1. PICK h \in 1..Len(Output[dag]) : Sends(e, Output[dag][h])
        BY <2>1 DEF SentOK
      <3>2. e.height = h /\ Unsorted(e) = Output[dag][h]
        BY <2>2, <3>1 DEF Sends
      <3> QED  BY <2>2, <3>2
    <2> QED  BY <2>3 DEF Agreement
  <1> QED  BY <1>1, CommitHolds, PTL

(* The log is one of the sub-dags of a beginning of the output. *)
LEMMA LogFacts ==
    ASSUME CommitInv
    PROVE  \E D \in Seq(SubDags(dag)) :
              /\ SendsAll(dag, wal, D) /\ EachOnce(D) /\ HistoryKept(dag, D)
  <1>1. PICK j \in 0..Len(WholeLeaders(dag)) : \E i \in 0..j : At(i, j)
    BY DEF CommitInv
  <1>2. PICK i \in 0..j : At(i, j)
    BY <1>1
  <1>3. StoreOK
    BY DEF CommitInv
  <1>4. /\ LinearizerOK(dag, Linearized(dag)[i])
        /\ Linearized(dag)[i].dags \in Seq(SubDags(dag))
        /\ SendsAll(dag, wal, Linearized(dag)[i].dags)
    BY <1>2, <1>3, AtTypes
  <1> QED  BY <1>4 DEF LinearizerOK

(* The assertion of the Linearizer never fails, also after a restart that  *)
(* recovered what is committed from the log; no block is logged twice.     *)
THEOREM LoggedOnce == CommitSpec => []NoneTwice
  <1>1. ASSUME CommitInv  PROVE  NoneTwice
    <2>1. failed = FALSE /\ dag \in Dags
      BY <1>1 DEF CommitInv, StoreOK
    <2>2. PICK D \in Seq(SubDags(dag)) : SendsAll(dag, wal, D) /\ EachOnce(D)
      BY <1>1, LogFacts
    <2>3. /\ DOMAIN wal = 1..Len(D) /\ DOMAIN D = 1..Len(D)
          /\ \A h \in 1..Len(D) : RoundsInOrder(wal[h].blocks, D[h].blocks)
      BY <2>1, <2>2, SendsFacts, LenProperties
    <2>4. ASSUME NEW h \in DOMAIN wal
          PROVE  /\ \A k \in DOMAIN wal[h].blocks : wal[h].blocks[k] \in D[h].blocks
                 /\ \A k, m \in DOMAIN wal[h].blocks :
                       wal[h].blocks[k] = wal[h].blocks[m] => k = m
      <3> DEFINE t == wal[h].blocks
                 X == D[h].blocks
      <3>1. RoundsInOrder(t, X)
        BY <2>3
      <3> HIDE DEF t, X
      <3>2. DOMAIN t = 1..Len(t) /\ Range(t) = X
        BY <3>1, LenProperties DEF RoundsInOrder
      <3>3. \A k \in DOMAIN t : t[k] \in X
        BY <3>2 DEF Range
      <3>4. \A k, m \in DOMAIN t : t[k] = t[m] => k = m
        BY <3>1, <3>2 DEF RoundsInOrder
      <3> QED  BY <3>3, <3>4 DEF t, X
    <2>5. ASSUME NEW g \in DOMAIN wal, NEW h \in DOMAIN wal,
                 NEW k \in DOMAIN wal[g].blocks, NEW m \in DOMAIN wal[h].blocks,
                 wal[g].blocks[k] = wal[h].blocks[m]
          PROVE  g = h /\ k = m
      <3>1. g = h
        BY <2>2, <2>3, <2>4, <2>5 DEF EachOnce
      <3> QED  BY <2>4, <2>5, <3>1
    <2> QED  BY <2>1, <2>5 DEF NoneTwice
  <1> QED  BY <1>1, CommitHolds, PTL

(* The log has every block after all blocks it includes. *)
THEOREM LoggedInOrder == CommitSpec => []HistoryFirst
  <1>1. ASSUME CommitInv  PROVE  HistoryFirst
    <2>1. dag \in Dags
      BY <1>1 DEF CommitInv, StoreOK
    <2>2. PICK D \in Seq(SubDags(dag)) : SendsAll(dag, wal, D) /\ HistoryKept(dag, D)
      BY <1>1, LogFacts
    <2> DEFINE n == Len(D)
    <2>3. /\ n \in Nat /\ DOMAIN wal = 1..n /\ DOMAIN D = 1..n
          /\ \A h \in 1..n : RoundsInOrder(wal[h].blocks, D[h].blocks)
          /\ \A k \in 0..n : RecoverCommitted(SubSeq(wal, 1, k)) = First(D, k)
      BY <2>1, <2>2, SendsFacts, LenProperties
    <2>4. \A h \in 1..n : D[h] \in SubDags(dag)
      BY <2>3
    <2> HIDE DEF n
    <2>5. ASSUME NEW h \in DOMAIN wal, NEW k \in DOMAIN wal[h].blocks
          PROVE  Range(dag[wal[h].blocks[k]]) \subseteq
                     RecoverCommitted(SubSeq(wal, 1, h - 1)) \cup
                        {wal[h].blocks[m] : m \in 1..(k - 1)}
      <3> DEFINE t == wal[h].blocks
                 X == D[h].blocks
      <3>1. RoundsInOrder(t, X) /\ X \subseteq DOMAIN dag
        BY <2>3, <2>4 DEF SubDags
      <3>2. RecoverCommitted(SubSeq(wal, 1, h - 1)) = First(D, h - 1)
        <4>1. h - 1 \in 0..n
          BY <2>3
        <4> QED  BY <2>3, <4>1
      <3>3. \A y \in X : Range(dag[y]) \subseteq First(D, h - 1) \cup X
        BY <2>2, <2>3 DEF HistoryKept
      <3>4. k \in DOMAIN t
        OBVIOUS
      <3> HIDE DEF t, X
      <3>5. DOMAIN t = 1..Len(t) /\ Len(t) \in Nat /\ Range(t) = X
        BY <3>1, LenProperties DEF RoundsInOrder
      <3>6. t[k] \in X /\ t[k] \in DOMAIN dag
        BY <3>1, <3>4, <3>5 DEF Range
      <3>7. ASSUME NEW x \in Range(dag[t[k]]), x \notin First(D, h - 1)
            PROVE  \E m \in 1..(k - 1) : x = t[m]
        <4>1. x \in Range(t)
          BY <3>3, <3>5, <3>6, <3>7
        <4>2. PICK m \in 1..Len(t) : x = t[m]
          BY <3>5, <4>1 DEF Range
        <4>3. x[2] < t[k][2]
          BY <2>1, <3>6, DagFacts
        <4>4. m < k
          BY <3>1, <3>4, <3>5, <4>2, <4>3 DEF RoundsInOrder
        <4>5. m \in 1..(k - 1)
          BY <3>4, <3>5, <4>2, <4>4
        <4> QED  BY <4>2, <4>5
      <3>8. Range(dag[t[k]]) \subseteq First(D, h - 1) \cup {t[m] : m \in 1..(k - 1)}
        BY <3>7
      <3> QED  BY <3>2, <3>8 DEF t
    <2> QED  BY <2>5 DEF HistoryFirst
  <1> QED  BY <1>1, CommitHolds, PTL

(* The commit rule never sees certificates for two blocks of a slot, with   *)
(* faulty authorities of less than a third of the stake.                   *)
THEOREM CertifiedOnce == CommitSpec => []OneCertified
  <1>1. ASSUME CommitInv  PROVE  OneCertified
    <2>1. dag \in Dags /\ store \subseteq DOMAIN dag
      BY <1>1 DEF CommitInv, StoreOK, Closed
    <2>2. ASSUME NEW l \in store, NEW m \in store, l # m, Slot(l) = Slot(m),
                 NEW b \in AtRound(store, l[2] + WaveLength - 1), IsCertificate(dag, l, b),
                 NEW c \in AtRound(store, l[2] + WaveLength - 1), IsCertificate(dag, m, c)
          PROVE  FALSE
      <3>1. l \in DOMAIN dag /\ m \in DOMAIN dag /\ l[2] \in Nat
        BY <2>1, DagFacts
      <3>2. l[2] + WaveLength - 1 = l[2] + 2
        BY <3>1 DEF WaveLength
      <3>3. b \in AtRound(DOMAIN dag, l[2] + 2) /\ c \in AtRound(DOMAIN dag, l[2] + 2)
        BY <2>1, <3>2 DEF AtRound
      <3> QED  BY <2>1, <2>2, <3>1, <3>3, OneCertificate
    <2> QED  BY <2>2 DEF OneCertified
  <1> QED  BY <1>1, CommitHolds, PTL
==============================================================================
