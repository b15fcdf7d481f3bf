--------------------------- MODULE MysticetiCommit ---------------------------
(***************************************************************************)
(* Mysticeti's commit rule and linearizer, at one replica: it stores       *)
(* blocks, decides leaders whenever it made a block of its own, and sends  *)
(* the sub-dags of the leaders it commits to the application.              *)
(*                                                                         *)
(* A block is named <<author, round, variant>>; only a faulty author has   *)
(* several variants in a round.  What all authorities made, the dag, is     *)
(* fixed at the start; what of it the replica holds when it decides is     *)
(* left open, up to the BlockManager's causal completeness.                *)
(***************************************************************************)
EXTENDS Committee, SequencesExt

CONSTANTS
    Replica,          \* the replica, a correct authority
    Faulty,           \* who may make several blocks in a round
    Dags,             \* the dags: from a block to the blocks it includes, in order
    elected,          \* the authorities by round in the order of the weighted shuffle
    FirstAuthority,   \* authority 0, which leads round 0
    NumberOfLeaders,
    Pipeline,         \* enable_pipelining
    Processes,        \* the ids a process may have
    RoundFactor, AuthorFactor, KeySpace,  \* of the sort: 0x9E3779B9, 0x85EBCA6B, 2^64
    MaxRestarts       \* bound on restarts

WaveLength == 3

Slot(b) == <<b[1], b[2]>>

AtRound(V, r) == {b \in V : b[2] = r}

(* Authorities are indices; elect_leader gives each offset another one.     *)
ASSUME CommitAssumption ==
    /\ Authority \subseteq Nat
    /\ Faulty \subseteq Authority /\ StakeOf(Faulty) < ValidityThreshold
    /\ Replica \in Authority \ Faulty /\ FirstAuthority \in Authority
    /\ NumberOfLeaders \in 1..Cardinality(Authority)
    /\ \A r \in DOMAIN elected :
          /\ 1..NumberOfLeaders \subseteq DOMAIN elected[r]
          /\ \A i, j \in 1..NumberOfLeaders : elected[r][i] = elected[r][j] => i = j
    /\ Pipeline \in BOOLEAN
    /\ Processes \subseteq Nat
    /\ RoundFactor \in Nat /\ AuthorFactor \in Nat /\ KeySpace \in Nat \ {0}
    /\ MaxRestarts \in Nat

(* What StatementBlock::verify checks of a block and what it includes: all  *)
(* of earlier rounds, a quorum of the round before.                        *)
ASSUME DagAssumption ==
    \A d \in Dags :
        /\ DOMAIN d \subseteq Authority \X Nat \X Nat /\ IsFiniteSet(DOMAIN d)
        /\ AtRound(DOMAIN d, 0) # {}
        /\ \A b \in DOMAIN d :
              /\ d[b] \in Seq(DOMAIN d)
              /\ \A x \in Range(d[b]) : x[2] < b[2]
              /\ b[2] > 0 => IsQuorum({x[1] : x \in {y \in Range(d[b]) : y[2] + 1 = b[2]}})
              /\ 1..(b[2] - 2) \subseteq DOMAIN elected
        /\ \A b, c \in DOMAIN d : Slot(b) = Slot(c) /\ b[1] \notin Faulty => b = c

VARIABLES
    dag,
    process,       \* the id of the running process
    store,         \* the blocks held; the write-ahead log has them all
    last_decided,  \* last_decided_leader, a slot
    committed,     \* of the Linearizer
    wal,           \* the commits in the write-ahead log
    unsaved,       \* sub-dags that are sent and not yet in the log
    pc,            \* where Syncer::try_new_block is
    failed,        \* an assertion failed
    restarts,
    sent           \* history: all sub-dags the application was sent

commitVars ==
    <<dag, process, store, last_decided, committed, wal, unsaved, pc, failed, restarts, sent>>

------------------------------------------------------------------------------
(* BaseCommitter *)

(* Faulty variant: a block supports every block of the slot it includes. *)
FindAnySupport(d, slot, b) == {x \in Range(d[b]) : Slot(x) = slot}

(* The block of the slot that b supports, if any: the first it includes.   *)
(* The code also descends, but with this wave length there is nothing      *)
(* between a vote and a leader.                                            *)
FindSupport(d, slot, b) ==
    {d[b][i] : i \in {j \in DOMAIN d[b] : /\ Slot(d[b][j]) = slot
                                          /\ \A k \in 1..(j - 1) : Slot(d[b][k]) # slot}}

IsVote(d, l, b) == l \in FindSupport(d, Slot(l), b)

IsCertificate(d, l, c) == IsQuorum({b[1] : b \in {x \in Range(d[c]) : IsVote(d, l, x)}})

Blames(d, slot, b) == \A x \in Range(d[b]) : x[1] # slot[1]

EnoughLeaderBlame(d, V, slot) ==
    IsQuorum({b[1] : b \in {x \in AtRound(V, slot[2] + 1) : Blames(d, slot, x)}})

EnoughLeaderSupport(d, V, l) ==
    IsQuorum({c[1] : c \in {x \in AtRound(V, l[2] + WaveLength - 1) : IsCertificate(d, l, x)}})

Commit(b) == [kind |-> "commit", slot |-> Slot(b), block |-> {b}]
Skip(slot) == [kind |-> "skip", slot |-> slot, block |-> {}]
Undecided(slot) == [kind |-> "undecided", slot |-> slot, block |-> {}]

CommitAny(bs) == Commit(CHOOSE b \in bs : TRUE)

TryDirectDecide(d, V, slot) ==
    LET supported == {b \in V : Slot(b) = slot /\ EnoughLeaderSupport(d, V, b)}
    IN  IF EnoughLeaderBlame(d, V, slot) THEN Skip(slot)
        ELSE IF supported # {} THEN CommitAny(supported)
        ELSE Undecided(slot)

(* The ancestors of a block in an earlier round, one round after another. *)
LinkedToRound(d, V, b, r) ==
    LET layer[k \in 0..(b[2] - r)] ==
            IF k = 0 THEN {b}
            ELSE {x \in AtRound(V, b[2] - k) : \E y \in layer[k - 1] : x \in Range(d[y])}
    IN  layer[b[2] - r]

DecideLeaderFromAnchor(d, V, anchor, slot) ==
    LET potential == LinkedToRound(d, V, anchor, slot[2] + WaveLength - 1)
        certified == {b \in V : Slot(b) = slot /\ \E c \in potential : IsCertificate(d, b, c)}
    IN  IF certified # {} THEN CommitAny(certified) ELSE Skip(slot)

(* Faulty variant: the anchor may be of the decision round. *)
MayAnchorEarly(slot, status) == slot[2] + WaveLength <= status.slot[2] + 1

MayAnchor(slot, status) == slot[2] + WaveLength <= status.slot[2]

(* From the first later leader that is committed, unless an undecided one  *)
(* comes before it.                                                        *)
TryIndirectDecide(d, V, slot, later) ==
    LET anchors == {i \in DOMAIN later : MayAnchor(slot, later[i]) /\ later[i].kind # "skip"}
        anchor == later[Min(anchors)]
    IN  IF anchors # {} /\ anchor.kind = "commit"
        THEN DecideLeaderFromAnchor(d, V, CHOOSE b \in anchor.block : TRUE, slot)
        ELSE Undecided(slot)

Decide(d, V, slot, later) ==
    LET direct == TryDirectDecide(d, V, slot)
    IN  IF direct.kind # "undecided" THEN direct ELSE TryIndirectDecide(d, V, slot, later)

------------------------------------------------------------------------------
(* UniversalCommitter *)

(* The rounds with leaders; with a pipeline the committers cover them all. *)
Stride == IF Pipeline THEN 1 ELSE WaveLength

(* The i-th leader, one for each committer of a round. *)
LeaderSlot(i) ==
    LET r == Stride * ((i - 1) \div NumberOfLeaders)
    IN  <<IF r = 0 THEN FirstAuthority ELSE elected[r][((i - 1) % NumberOfLeaders) + 1], r>>

LeadersUpTo(r) == IF r < 0 THEN 0 ELSE NumberOfLeaders * ((r \div Stride) + 1)

Position(slot) == Max({i \in 1..LeadersUpTo(slot[2]) : LeaderSlot(i) = slot})

HighestRound(V) == Max({b[2] : b \in V})

(* Leaders are decided from the newest to the oldest after the last one;    *)
(* returned is the longest prefix that is decided.                         *)
TryCommit(d, V, last) ==
    LET n == LeadersUpTo(HighestRound(V) - 2)
        newest[k \in 0..n] ==
            IF k = 0 THEN << >>
            ELSE LET later == newest[k - 1]
                 IN  <<Decide(d, V, LeaderSlot(n + 1 - k), later)>> \o later
        leaders == IF n > Position(last) THEN newest[n - Position(last)] ELSE << >>
        open == {i \in DOMAIN leaders : leaders[i].kind = "undecided"}
    IN  SubSeq(leaders, 1, Min({Len(leaders) + 1} \cup open) - 1)

------------------------------------------------------------------------------
(* Linearizer *)

(* Faulty variant: blocks of earlier sub-dags are collected again. *)
WholeSubDag(d, done, l) ==
    LET down[k \in 0..l[2]] ==
            IF k = 0 THEN {l}
            ELSE down[k - 1] \cup {x \in AtRound(DOMAIN d, l[2] - k) :
                                    \E y \in down[k - 1] : x \in Range(d[y])}
    IN  down[l[2]]

(* What collect_sub_dag's walk from a leader collects: it does not pass a  *)
(* block that is committed already.                                        *)
SubDag(d, done, l) ==
    LET down[k \in 0..l[2]] ==
            IF k = 0 THEN {l}
            ELSE down[k - 1] \cup {x \in AtRound(DOMAIN d, l[2] - k) \ done :
                                    \E y \in down[k - 1] : x \in Range(d[y])}
    IN  down[l[2]]

(* The hash by which sort orders a round.  Its products wrap, and with     *)
(* each process at other rounds: an author's key may be below those of the *)
(* authors before it.                                                      *)
Key(id, b) == (((id + b[2]) * RoundFactor + b[1]) * AuthorFactor) % KeySpace

(* Faulty variant: newer rounds first. *)
NewerFirst(id, x, y) == x[2] > y[2] \/ (x[2] = y[2] /\ Key(id, x) < Key(id, y))

KeyLess(id, x, y) == x[2] < y[2] \/ (x[2] = y[2] /\ Key(id, x) < Key(id, y))

(* CommittedSubDag::sort, a stable one.  Equal keys, those of one slot as  *)
(* AuthorFactor is odd, stay in the order of the walk, which depends on the *)
(* leader alone; the name of the block stands for it.                      *)
SortBlocks(id, S) ==
    LET Name(x, y) == x[1] < y[1] \/ (x[1] = y[1] /\ x[3] < y[3])
        Before(x, y) == KeyLess(id, x, y) \/ (~KeyLess(id, y, x) /\ Name(x, y))
        before == [y \in S |-> Cardinality({x \in S : Before(x, y)})]
    IN  [k \in 1..Cardinality(S) |-> CHOOSE y \in S : before[y] = k - 1]

Sorted(id, dags) ==
    [i \in DOMAIN dags |-> [dags[i] EXCEPT !.blocks = SortBlocks(id, @)]]

(* handle_commit for one leader, which must not be committed yet; the      *)
(* sub-dag is not sorted yet.                                              *)
CollectSubDag(d, lin, l) ==
    LET blocks == SubDag(d, lin.committed, l)
    IN  [committed |-> lin.committed \cup blocks,
         dags |-> Append(lin.dags, [anchor |-> l, height |-> lin.height + 1, blocks |-> blocks]),
         height |-> lin.height + 1,
         failed |-> lin.failed \/ l \in lin.committed]

HandleCommit(d, done, height, statuses) ==
    LET after[k \in 0..Len(statuses)] ==
            IF k = 0
            THEN [committed |-> done, dags |-> << >>, height |-> height, failed |-> FALSE]
            ELSE IF statuses[k].kind = "commit"
            THEN CollectSubDag(d, after[k - 1], CHOOSE b \in statuses[k].block : TRUE)
            ELSE after[k - 1]
    IN  after[Len(statuses)]

------------------------------------------------------------------------------
(* The replica *)

GenesisSlot == <<FirstAuthority, 0>>

CommitInit ==
    /\ dag \in Dags
    /\ process \in Processes
    /\ store = {b \in DOMAIN dag : b[2] = 0}
    /\ last_decided = GenesisSlot
    /\ committed = {}
    /\ wal = << >>
    /\ unsaved = << >>
    /\ pc = "idle"
    /\ failed = FALSE
    /\ restarts = 0
    /\ sent = {}

Complete(b) == b \notin store /\ Range(dag[b]) \subseteq store

(* Another authority's block is accepted. *)
AddBlock ==
    \E b \in DOMAIN dag :
        /\ pc = "idle" /\ ~failed
        /\ b[1] # Replica /\ Complete(b)
        /\ store' = store \cup {b}
        /\ UNCHANGED <<dag, process, last_decided, committed, wal, unsaved, pc, failed, restarts, sent>>

(* Our next block is made and stored. *)
NewBlock ==
    \E b \in DOMAIN dag :
        /\ pc = "idle" /\ ~failed
        /\ b[1] = Replica /\ Complete(b)
        /\ store' = store \cup {b}
        /\ pc' = "proposed"
        /\ UNCHANGED <<dag, process, last_decided, committed, wal, unsaved, failed, restarts, sent>>

(* Core::try_commit, then the observer's handle_commit sends the sub-dags. *)
CommitLeaders ==
    LET statuses == TryCommit(dag, store, last_decided)
        lin == HandleCommit(dag, committed, Len(wal), statuses)
    IN  /\ pc = "proposed" /\ ~failed
        /\ last_decided' = IF statuses = << >> THEN last_decided ELSE Last(statuses).slot
        /\ committed' = lin.committed
        /\ unsaved' = Sorted(process, lin.dags)
        /\ sent' = sent \cup Range(unsaved')
        /\ failed' = lin.failed
        /\ pc' = "sent"
        /\ UNCHANGED <<dag, process, store, wal, restarts>>

(* handle_committed_subdag writes them to the log. *)
WriteCommits ==
    /\ pc = "sent" /\ ~failed
    /\ wal' = wal \o unsaved
    /\ unsaved' = << >>
    /\ pc' = "idle"
    /\ UNCHANGED <<dag, process, store, last_decided, committed, failed, restarts, sent>>

RecoverCommitted(dags) == UNION {Range(dags[i].blocks) : i \in DOMAIN dags}

(* The process stops and recovers from the log; all commits in it are      *)
(* sent again (last_sent_height is 0).                                     *)
Restart ==
    /\ restarts < MaxRestarts /\ ~failed
    /\ restarts' = restarts + 1
    /\ process' \in Processes
    /\ last_decided' = IF wal = << >> THEN GenesisSlot ELSE Slot(Last(wal).anchor)
    /\ committed' = RecoverCommitted(wal)
    /\ unsaved' = << >>
    /\ pc' = "idle"
    /\ UNCHANGED <<dag, store, wal, failed, sent>>

CommitNext == AddBlock \/ NewBlock \/ CommitLeaders \/ WriteCommits \/ Restart

CommitSpec == CommitInit /\ [][CommitNext]_commitVars

------------------------------------------------------------------------------
(* Properties *)

(* What a replica that holds the whole dag sends, up to the order of the   *)
(* blocks in a sub-dag.                                                    *)
Output ==
    [d \in Dags |-> HandleCommit(d, {}, 0, TryCommit(d, DOMAIN d, GenesisSlot)).dags]

Unsorted(s) == [s EXCEPT !.blocks = Range(@)]

(* Validators agree on the output, sub-dag by sub-dag and height by height, *)
(* up to the order of the blocks in a sub-dag: leaders, heights and sets of *)
(* blocks do not depend on which blocks were there when a leader was       *)
(* decided, in which steps the leaders were decided, nor on a crash        *)
(* between sending and logging.                                            *)
Agreement ==
    \A s \in sent : s.height <= Len(Output[dag]) /\ Unsorted(s) = Output[dag][s.height]

(* The blocks of a sub-dag are sorted "using a deterministic algorithm":   *)
(* what is sent again for a height is in the same order.                   *)
(* It does not hold; README.md, section 3, says where.                      *)
SameOrder ==
    \A s, t \in sent : s.height = t.height => s.blocks = t.blocks

(* "There can be at most one certified leader, otherwise it means the BFT  *)
(* assumption is broken": the two panics of the commit rule.               *)
OneCertified ==
    \A l, m \in store :
        l # m /\ Slot(l) = Slot(m) =>
            LET decision == AtRound(store, l[2] + WaveLength - 1)
            IN  ~ (/\ \E c \in decision : IsCertificate(dag, l, c)
                   /\ \E c \in decision : IsCertificate(dag, m, c))

(* assert!(self.committed.insert(leader)): no leader is committed again,   *)
(* directly or in the history of another, and neither is any block.        *)
NoneTwice ==
    /\ ~failed
    /\ \A i, j \in DOMAIN wal : \A k \in DOMAIN wal[i].blocks, m \in DOMAIN wal[j].blocks :
          wal[i].blocks[k] = wal[j].blocks[m] => i = j /\ k = m

(* The log is an order of the whole history: a block comes after all       *)
(* blocks it includes.                                                     *)
HistoryFirst ==
    LET Before(i, k) == RecoverCommitted(SubSeq(wal, 1, i - 1)) \cup
                        {wal[i].blocks[m] : m \in 1..(k - 1)}
    IN  \A i \in DOMAIN wal : \A k \in DOMAIN wal[i].blocks :
            Range(dag[wal[i].blocks[k]]) \subseteq Before(i, k)
==============================================================================
