---------------------------- MODULE MysticetiCore ----------------------------
(***************************************************************************)
(* How one Mysticeti validator makes blocks: Core, its threshold clock and *)
(* write-ahead log, the Syncer, and the leader timeout task; with crashes  *)
(* and the recovery from the log.                                          *)
(*                                                                         *)
(* A block is named <<author, round, variant>>.  A block of ours that is   *)
(* made again has another timestamp: its variant is how many of the round  *)
(* others may have.  Other authorities make one block a round and include  *)
(* the blocks of a fixed quorum in it.                                     *)
(***************************************************************************)
EXTENDS Committee, SequencesExt

CONSTANTS
    Self,          \* the validator
    includesOf,    \* whose blocks of the previous round the others include
    leader,        \* the leader of a round
    Fsync,         \* CoreOptions::fsync
    MachineCrash,  \* whether writes that are not synced may be lost
    EarlyCrash,    \* whether it may stop in its first start, with nothing logged
    MaxRound,      \* bound on rounds
    MaxBatch,      \* bound on blocks accepted in one call
    MaxPayloads,   \* bound on the calls
    MaxCrashes     \* bound on crashes

ASSUME CoreAssumption ==
    /\ Self \in Authority
    /\ includesOf \in [Authority -> SUBSET Authority]
    /\ \A a \in Authority : IsQuorum(includesOf[a])
    /\ Fsync \in BOOLEAN /\ MachineCrash \in BOOLEAN /\ EarlyCrash \in BOOLEAN
    /\ {MaxRound, MaxBatch, MaxPayloads, MaxCrashes} \subseteq Nat

VARIABLES
    v,          \* the validator: up, wal, pending, clock, force, signal, failed
    timer,      \* the leader timeout task: round and timed_out
    synced,     \* entries of the log that are on disk
    published,  \* history: our blocks that others may have, with their includes
    lost,       \* history: those of them that a stop of the machine lost
    crashes

vars == <<v, timer, synced, published, lost, crashes>>

------------------------------------------------------------------------------
(* The log.  The position of an entry is its index. *)

Never == 0    \* WalPosition::MAX: no position comes at or after it

BlockEntry(b) == [tag |-> "block", block |-> b]
OwnEntry(b, next, includes, payloads) ==
    [tag |-> "own", block |-> b, next |-> next, includes |-> includes, payloads |-> payloads]
PayloadEntry == [tag |-> "payload"]
StateEntry == [tag |-> "state"]

Positions(w, tags) == {p \in DOMAIN w : w[p].tag \in tags}

Store(w) == {w[p].block : p \in Positions(w, {"block", "own"})}

OwnAt(w) == Max({0} \cup Positions(w, {"own"}))
LastOwn(w) == w[OwnAt(w)]
LastProposed(w) == LastOwn(w).block[2]

Genesis(a) == <<a, 0, 0>>

(* Our blocks in the log, and those of a round that others may have. *)
Made(w) == {[block |-> w[p].block, includes |-> w[p].includes] : p \in Positions(w, {"own"})}
PublishedAt(r) == {x.block : x \in {y \in published : y.block[2] = r}}

(* What a block includes; of ours, the block that others got first. *)
Includes(w, b) ==
    IF b[2] = 0 THEN {}
    ELSE IF b[1] = Self
    THEN UNION {x.includes : x \in {y \in Made(w) \cup published : y.block = b}}
    ELSE {<<a, b[2] - 1, 0>> : a \in includesOf[b[1]] \ {Self}} \cup
         {x \in PublishedAt(b[2] - 1) :
             /\ Self \in includesOf[b[1]]
             /\ \A y \in PublishedAt(b[2] - 1) : x[3] <= y[3]}

------------------------------------------------------------------------------
(* ThresholdClockAggregator *)

ClockAdd(c, b) ==
    LET voters == c.voters \cup {b[1]}
    IN  IF b[2] < c.round THEN c
        ELSE IF b[2] > c.round THEN [round |-> b[2], voters |-> {b[1]}]
        ELSE IF IsQuorum(voters) THEN [round |-> b[2] + 1, voters |-> {}]
        ELSE [c EXCEPT !.voters = voters]

ClockStart == [round |-> 0, voters |-> {}]

(* The clock after the blocks at the positions ps of the log. *)
Counted(w, c, ps) ==
    LET after[k \in 0..Len(ps)] ==
            IF k = 0 THEN c
            ELSE IF w[ps[k]].tag = "payload" THEN after[k - 1]
            ELSE ClockAdd(after[k - 1], w[ps[k]].block)
    IN  after[Len(ps)]

------------------------------------------------------------------------------
(* Core *)

(* add_own_index: two own blocks in a round fail an assertion. *)
Repeats(stored, b) ==
    {"own" : z \in {y \in stored : b[1] = Self /\ y[1] = Self /\ y[2] = b[2]}}

(* Faulty variant: our next block takes blocks of its own round. *)
TakesUpTo(w, b, r) == b[2] > r

Leaves(w, b, r) == b[2] >= r

(* Faulty variant: a payload just before the cut also stays. *)
StaysWithLast(w, s, cut) ==
    SubSeq(s, IF cut > 1 /\ w[s[cut - 1]].tag = "payload" THEN cut - 1 ELSE cut, Len(s))

Stays(w, s, cut) == SubSeq(s, cut, Len(s))

(* Faulty variant: the position after the log's end. *)
NextEntryAtEnd(w, rest) == Len(w) + 1

NextEntry(w, rest) == IF rest = << >> THEN Never ELSE Head(rest)

(* Faulty variant: in the round of our last block again. *)
MayProposeAgain(x) == x.clock.round >= LastProposed(x.wal)

MayPropose(x) == x.clock.round > LastProposed(x.wal)

(* Core::try_new_block.  Pending statements up to the first block of the   *)
(* clock's round are taken; what other included blocks include is left     *)
(* out, except our previous block.                                         *)
CoreTryNewBlock(x) ==
    LET w == x.wal
        r == x.clock.round
        later == {i \in DOMAIN x.pending :
                    w[x.pending[i]].tag = "block" /\ Leaves(w, w[x.pending[i]].block, r)}
        cut == Min({Len(x.pending) + 1} \cup later)
        taken == SubSeq(x.pending, 1, cut - 1)
        rest == Stays(w, x.pending, cut)
        previous == LastOwn(w).block
        candidates == {previous} \cup
                      {w[p].block : p \in {q \in Range(taken) : w[q].tag = "block"}}
        covered == UNION {Includes(w, b) : b \in candidates}
        payloads == {p \in Range(taken) : w[p].tag = "payload"}
        block == <<Self, r, Cardinality(PublishedAt(r))>>
        entry == OwnEntry(block, NextEntry(w, rest),
                          (candidates \ covered) \cup {previous}, payloads)
    IN  [x EXCEPT !.wal = Append(@, entry), !.pending = rest, !.clock = ClockAdd(@, block),
                  !.failed = @ \cup Repeats(Store(w), block)]

(* The positions in s by round; blocks of one round stay in their order. *)
SortByRound(s) ==
    LET Precedes(i, j) == s[i][2] < s[j][2] \/ (s[i][2] = s[j][2] /\ i < j)
    IN  [k \in DOMAIN s |->
            CHOOSE j \in DOMAIN s : Cardinality({i \in DOMAIN s : Precedes(i, j)}) = k - 1]

(* Core::add_blocks for the blocks the BlockManager accepts, in its order:  *)
(* they are pending in the order of their rounds, followed by what the     *)
(* block handler adds.                                                     *)
CoreAddBlocks(x, s) ==
    LET w == x.wal \o [k \in DOMAIN s |-> BlockEntry(s[k])] \o <<PayloadEntry>>
        sorted == SortByRound(s)
        added == [k \in DOMAIN s |-> Len(x.wal) + sorted[k]]
    IN  [x EXCEPT
           !.wal = w,
           !.pending = @ \o added \o <<Len(w)>>,
           !.clock = Counted(w, @, added),
           !.failed = @ \cup UNION {Repeats(Store(x.wal) \cup {s[i] : i \in 1..(k - 1)}, s[k]) :
                                       k \in DOMAIN s}]

(* ready_new_block: the wave's first rounds wait for the timeout, later    *)
(* ones for the leader, unless it is not connected.                        *)
Ready(x, connected) ==
    /\ x.clock.round > 2
    /\ \/ ~connected
       \/ \E b \in Store(x.wal) : b[1] = leader[x.clock.round - 1] /\ b[2] + 1 = x.clock.round

(* Syncer::try_new_block; after a block of ours the state and commits are  *)
(* logged.                                                                 *)
TryNewBlock(x, connected) ==
    IF (x.force \/ Ready(x, connected)) /\ MayPropose(x)
    THEN LET y == CoreTryNewBlock(x)
         IN  [y EXCEPT !.force = FALSE, !.wal = Append(@, StateEntry)]
    ELSE x

(* Syncer::add_blocks. *)
AddBlocks(x, s, connected) ==
    LET y == CoreAddBlocks(x, s)
    IN  TryNewBlock([y EXCEPT !.signal = IF y.clock.round > x.clock.round
                                         THEN y.clock.round ELSE @], connected)

(* Syncer::force_new_block. *)
ForceNewBlock(x, r) ==
    IF LastProposed(x.wal) < r THEN TryNewBlock([x EXCEPT !.force = TRUE], TRUE) ELSE x

------------------------------------------------------------------------------
(* Recovery *)

(* RecoveredStateBuilder: each own block drops what lies before its next   *)
(* entry.                                                                  *)
RecoveredPending(w) ==
    {p \in Positions(w, {"block", "payload"}) :
        \A q \in Positions(w, {"own"}) : q > p => w[q].next \in 1..p}

Ascending(S) == [k \in 1..Cardinality(S) |-> CHOOSE p \in S : Cardinality({q \in S : q < p}) = k - 1]

(* The others' genesis blocks first, then our own. *)
GenesisLog ==
    LET others == SetToSeq(Authority \ {Self})
    IN  [i \in DOMAIN others |-> BlockEntry(Genesis(others[i]))] \o
        <<OwnEntry(Genesis(Self), Never, {}, {})>>

Fresh(w) == [up |-> TRUE, wal |-> w, pending |-> << >>, clock |-> ClockStart,
             force |-> FALSE, signal |-> 0, failed |-> {}]
Down(w) == [Fresh(w) EXCEPT !.up = FALSE]

(* Core::open with no own block in the log. *)
OpenFirst(w) ==
    [Fresh(GenesisLog) EXCEPT
       !.pending = [i \in 1..(Len(GenesisLog) - 1) |-> i],
       !.clock = Counted(GenesisLog, @, [i \in DOMAIN GenesisLog |-> i]),
       !.failed = IF RecoveredPending(w) = {} THEN {} ELSE {"genesis"}]

(* Core::open with one: the clock counts what is pending, and the block    *)
(* handler sees the blocks that came after its state was logged.           *)
OpenAgain(w) ==
    LET pending == Ascending(RecoveredPending(w))
        blocks == Positions(w, {"block", "own"})
        twice == \E p, q \in blocks : /\ p # q /\ w[p].block[1] = Self
                                      /\ w[q].block[1] = Self /\ w[p].block[2] = w[q].block[2]
        replay == \E p \in blocks : \A q \in Positions(w, {"state"}) : q < p
        opened == [Fresh(w) EXCEPT
                     !.pending = pending, !.failed = IF twice THEN {"own"} ELSE {},
                     !.clock = Counted(w, @, pending)]
    IN  IF replay THEN CoreAddBlocks(opened, << >>) ELSE opened

(* Validator start: NetworkSyncer::start asks for the block of round 1. *)
Start(w) == ForceNewBlock(IF OwnAt(w) = 0 THEN OpenFirst(w) ELSE OpenAgain(w), 1)

------------------------------------------------------------------------------
(* Steps *)

NoTimeout == [round |-> 0, timed_out |-> FALSE]

Init ==
    /\ v = Down(<< >>)
    /\ timer = NoTimeout
    /\ synced = 0
    /\ published = {}
    /\ lost = {}
    /\ crashes = 0

(* With fsync, try_new_block syncs after the write of our block; w is what *)
(* the log has then.                                                       *)
SyncsOwn(w) == Fsync /\ OwnAt(w) > Len(v.wal) /\ LastProposed(w) > 0

(* The state after a handler ran to its end: our blocks may be sent. *)
Finish(x) ==
    /\ v' = x
    /\ published' = published \cup Made(x.wal)
    /\ synced' = IF SyncsOwn(x.wal) THEN OwnAt(x.wal) ELSE synced

(* Blocks a peer can send us: others' blocks and ours that we lost. *)
Sendable ==
    {<<a, r, 0>> : a \in Authority \ {Self}, r \in 1..MaxRound} \cup
    {x.block : x \in published}

(* The orders in which the BlockManager accepts blocks in one call: a      *)
(* block is accepted after what it includes, and before one of a lower     *)
(* round only if the call unblocked it.                                    *)
Accepts(s, b) ==
    LET accepted == Range(s)
        present == Store(v.wal) \cup accepted
    IN  /\ b \notin present
        /\ Includes(v.wal, b) \subseteq present
        /\ b[1] # Self /\ Self \in includesOf[b[1]] => PublishedAt(b[2] - 1) # {}
        /\ \A i \in DOMAIN s : b[2] < s[i][2] =>
              Includes(v.wal, s[i]) \cap {s[k] : k \in 1..(i - 1)} # {}

Batches ==
    LET batches[k \in 0..MaxBatch] ==
            IF k = 0 THEN {<< >>}
            ELSE batches[k - 1] \cup
                 UNION {{Append(s, b) : b \in {x \in Sendable : Accepts(s, x)}} :
                            s \in batches[k - 1]}
    IN  batches[MaxBatch]

Payloads(w) == Cardinality(Positions(w, {"payload"}))

(* The process starts. *)
Open ==
    /\ ~v.up
    /\ Finish(Start(v.wal))
    /\ UNCHANGED <<timer, lost, crashes>>

Running == v.up /\ v.failed = {}

ReceiveBlocks ==
    \E s \in Batches, connected \in BOOLEAN :
        /\ Running /\ Payloads(v.wal) < MaxPayloads
        /\ Finish(AddBlocks(v, s, connected))
        /\ UNCHANGED <<timer, lost, crashes>>

(* The leader timeout of the round the task knows of. *)
LeaderTimeout ==
    /\ Running /\ ~timer.timed_out
    /\ Finish(ForceNewBlock(v, timer.round))
    /\ timer' = [timer EXCEPT !.timed_out = TRUE]
    /\ UNCHANGED <<lost, crashes>>

(* The watch channel changed. *)
RoundAdvanced ==
    /\ Running /\ v.signal # 0
    /\ v' = [v EXCEPT !.signal = 0]
    /\ timer' = [round |-> v.signal, timed_out |-> FALSE]
    /\ UNCHANGED <<synced, published, lost, crashes>>

(* AsyncWalSyncer, once a second. *)
SyncLog ==
    /\ Running /\ MachineCrash /\ synced # Len(v.wal)
    /\ synced' = Len(v.wal)
    /\ UNCHANGED <<v, timer, published, lost, crashes>>

(* What the process does when it stops: it starts or is in a handler.  The  *)
(* log of its result has the writes of the handler, one after another.      *)
Handled ==
    IF ~v.up THEN {Start(v.wal)}
    ELSE {AddBlocks(v, s, connected) : s \in Batches, connected \in BOOLEAN}
         \cup {ForceNewBlock(v, timer.round)}

(* Faulty variant: our block is in the store before it is written. *)
VisibleFirst(x, w) == Made(x.wal)

(* Our blocks in the store of a handler that has written w. *)
Visible(x, w) == Made(w)

(* What is synced then: our block, as the last write, perhaps not yet. *)
SyncedBy(w) ==
    IF ~SyncsOwn(w) THEN {synced}
    ELSE {OwnAt(w)} \cup (IF OwnAt(w) = Len(w) THEN {synced} ELSE {})

(* A handler stops when it has written w; kept is what remains of the log. *)
(* Other tasks may have sent what is in the store, synced or not; there are *)
(* none of them before the start is done.                                   *)
Stop(x, w, kept) ==
    /\ crashes < MaxCrashes /\ v.failed = {}
    /\ v.wal = << >> => EarlyCrash
    /\ crashes' = crashes + 1
    /\ v' = Down(kept)
    /\ timer' = NoTimeout
    /\ \/ UNCHANGED published
       \/ v.up /\ published' = published \cup Visible(x, w)
    /\ lost' = lost \cup ((published' \cap Made(w)) \ Made(kept))

(* The process stops between any two writes. *)
Crash ==
    \E x \in Handled : \E k \in Len(v.wal)..Len(x.wal) :
        LET w == SubSeq(x.wal, 1, k)
        IN  Stop(x, w, w) /\ synced' \in SyncedBy(w)

(* The machine does: a part of the log that was not synced is lost. *)
LoseWrites ==
    \E x \in Handled : \E k \in Len(v.wal)..Len(x.wal) :
        LET w == SubSeq(x.wal, 1, k)
        IN  /\ MachineCrash
            /\ \E s \in SyncedBy(w) : synced' \in s..k
            /\ Stop(x, w, SubSeq(w, 1, synced'))

Next ==
    \/ Open \/ ReceiveBlocks \/ LeaderTimeout \/ RoundAdvanced
    \/ SyncLog \/ Crash \/ LoseWrites

Spec == Init /\ [][Next]_vars

(* The process starts; the timeout task and the log syncer run. *)
FairSpec == Spec /\ WF_vars(Open) /\ WF_vars(LeaderTimeout) /\ WF_vars(RoundAdvanced) /\ WF_vars(SyncLog)

------------------------------------------------------------------------------
(* Properties *)

(* "Edge case of WalPosition::MAX": whenever the process stops, what is    *)
(* pending will be pending again, and payloads neither come back nor get    *)
(* lost.                                                                   *)
PendingRecovered ==
    LET recovered == RecoveredPending(v.wal)
        PayloadsOf(S) == {p \in S : v.wal[p].tag = "payload"}
    IN  v.up => /\ Range(v.pending) \subseteq recovered
                /\ PayloadsOf(Range(v.pending)) = PayloadsOf(recovered)

(* Every payload goes into one block of ours, across restarts. *)
PayloadOnce ==
    \A p, q \in Positions(v.wal, {"own"}) :
        p # q => v.wal[p].payloads \cap v.wal[q].payloads = {}

(* threshold_clock_valid_non_genesis, by which peers judge our blocks, and *)
(* the assertion on the first include: our blocks include a quorum of the  *)
(* previous round, nothing of their own round, and our previous block.     *)
OwnValid ==
    \A p \in Positions(v.wal, {"own"}) :
        LET e == v.wal[p]
            previous == {q \in Positions(v.wal, {"own"}) : q < p}
        IN  e.block[2] > 0 =>
               /\ \A b \in e.includes : b[2] < e.block[2]
               /\ IsQuorum({b[1] : b \in {x \in e.includes : x[2] + 1 = e.block[2]}})
               /\ v.wal[Max(previous)].block \in e.includes

(* Two blocks of ours of one round leave the validator only after the      *)
(* machine lost one that was sent, wherever the process stops.             *)
NoEquivocation ==
    \A x, y \in published : x.block[2] = y.block[2] /\ x # y => {x, y} \cap lost # {}

(* assert!(self.own_blocks.insert(..).is_none()) of add_own_index: our     *)
(* store never gets two blocks of ours of one round, unless the machine    *)
(* lost one that was sent, which a peer may send back.                     *)
OwnBlockOnce == "own" \in v.failed => lost # {}

(* What fsync is for: a block that others may have is in our log.          *)
(* It does not hold; README.md, section 3, says where.                      *)
SentSurvives == lost = {}

(* "We have seen 2f+1 blocks for current round, advance": the clock lets   *)
(* us propose as soon as a quorum of our last block's round is stored,     *)
(* our own block among them.                                               *)
(* It does not hold; README.md, section 3, says where.                      *)
ClockPastQuorums ==
    v.up => \A r \in LastProposed(v.wal)..MaxRound :
        IsQuorum({b[1] : b \in {x \in Store(v.wal) : x[2] = r}}) => v.clock.round > r

(* "if timeout || commit_ready_new_block then try_new_block(..)": once the *)
(* clock allows a block, we make it, at the latest after the timeout.      *)
(* It does not hold; README.md, section 3, says where.                      *)
TimeoutProposes ==
    \A r \in 1..MaxRound :
        v.clock.round = r ~> v.up /\ (LastProposed(v.wal) >= r \/ v.failed # {})
==============================================================================
