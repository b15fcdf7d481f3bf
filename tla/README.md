# Verification of Narwhal-Tusk and the Mysticeti core

The repository studies transaction-order manipulation in DAG-based BFT. It
collects seven protocol code bases under `code/`. This project models two of
them, with the attack hooks (environment variable `ATTACK_MODE`) off, which is
the default:

- `code/narwhal-tusk`, the Narwhal mempool (primaries and workers) and the Tusk
  consensus, with its network and store crates. It is small, complete and
  closest to the repository's own work. Paths below are relative to it.
- the core of `code/mysticeti` (`mysticeti-core/src`, paths below marked *M:*):
  how a validator accepts blocks, makes its own, recovers from its log, and
  commits.

The others (two Sui trees, Mahi-Mahi, AlephBFT, Autobahn) are forks of
third-party projects; section 5 says why they are left out.

## 1. Inventory

| Part | Source | State | Operations | What makes it correct |
|---|---|---|---|---|
| Committee | `config/src/lib.rs` | stake per authority | `stake`, `quorum_threshold`, `validity_threshold` | two quorums share f+1 stake; a quorum excludes a second one |
| Core | `primary/src/core.rs` | `gc_round`, `last_voted`, `processing`, `current_header`, both aggregators | own header, header, vote, certificate, two loopbacks, sanitize checks, cleanup of every iteration | one vote per slot, votes only for available headers, certificates after their ancestors, no panic |
| Aggregators | `primary/src/aggregators.rs` | weight, votes or certificates, authorities used | `append` | a quorum is reached once |
| Proposer | `primary/src/proposer.rs` | `round`, `last_parents`, `digests` | `make_header`, receive parents, receive digests | one header per round, valid for everybody; rounds advance |
| Synchronizer | `primary/src/synchronizer.rs` | none | `missing_payload`, `get_parents`, `deliver_certificate` | missing data suspends, never fails |
| HeaderWaiter | `primary/src/header_waiter.rs` | `pending`, `batch_requests`, `parent_requests` | suspend, return, retry, cancel | a header returns when its data is there |
| CertificateWaiter | `primary/src/certificate_waiter.rs` | waiting certificates | suspend, return | as above |
| GarbageCollector | `primary/src/garbage_collector.rs` | last committed round | store `consensus_round` | the round only grows |
| PayloadReceiver, Helper, handlers | `primary/src/*.rs` | store | write digests, answer requests | |
| Consensus (Tusk) | `consensus/src/lib.rs` | `last_committed_round`, `last_committed`, `dag` | `run`, `leader`, `order_leaders`, `linked`, `order_dag`, `update` | all replicas commit the same sequence, each certificate once, after its parents |
| Worker | `worker/src/{batch_maker,quorum_waiter,processor,primary_connector,worker}.rs` | current batch, cancel handlers, store | make batch, wait for a quorum, hash and store, report | a reported digest is held by a quorum; every transaction gets into a batch that is stored |
| Worker Synchronizer, Helper | `worker/src/{synchronizer,helper}.rs` | `pending`, `round`, futures | synchronize, cleanup, retry, answer | a missing batch is fetched or given up |
| Network | `network/src/*.rs` | buffer, pending replies | send, ack, reconnect, cancel | a message is retried until acknowledged or cancelled |
| Store | `store/src/lib.rs` | key-value map, obligations | write, read, notify_read | a waiting reader is woken by the write |
| Mysticeti BlockManager | M: `block_manager.rs` | `blocks_pending`, `block_references_waiting`, `missing` | `add_blocks` | stored after its includes; nothing stranded; what is missing is known |
| Mysticeti commit rule, Linearizer | M: `consensus/*.rs`, `commit_observer.rs` | `last_decided_leader`, `committed` | `try_commit`, `handle_commit`, recovery | all validators commit the same sub-dags, up to the order inside one, also after a crash |
| Mysticeti Core, Syncer | M: `core.rs`, `syncer.rs`, `threshold_clock.rs`, `state.rs`, `block_store.rs`, `net_sync.rs` | write-ahead log, `pending`, clock, signals | `open`, `add_blocks`, `try_new_block`, `force_new_block`, leader timeout, log sync | one valid block a round; nothing pending is lost or proposed twice; a timeout leads to a block |

The parts are tokio tasks joined by channels; Core and Proposer form a cycle
(headers one way, parents the other), Core and the two waiters another one, and
Core, Consensus and GarbageCollector a third one that closes over the shared
atomic `consensus_round`. Primaries exchange headers, votes and certificates
over a reliable sender that retries until the handler of the message is dropped
by Core's cleanup.

The hard behaviours: messages arrive in any order and repeatedly; handlers stop
halfway and resume through a waiter without being sanitized again; the cleanup
forgets, at different rounds in different tasks, what the handlers rely on;
faulty authorities sign several headers per round; replicas look for a leader's
support at different times; a connection breaks with messages and
acknowledgements on it; a request is retried to random peers while its answer is
under way; a bounded channel is full; a validator stops between two writes of
its log, or its machine loses writes that were not synced, while other tasks send
what it just stored. `PROJECT.json` lists these hazards at their lines.

## 2. Modules

| Module | Models |
|---|---|
| `Committee` | stake and thresholds of a weighted committee |
| `BasicProofs` | facts about quorums, sequences and finite sets that several proof modules use |
| `PrimaryCore` | Core, aggregators, Proposer, Synchronizer, waiters, GarbageCollector of all correct primaries, and the network between them |
| `PrimaryProofs` | theorems about the votes, proposals and certificates of `PrimaryCore` and the dag it stores, which implements `CertifiedDag` |
| `MysticetiProofs` | theorems about `MysticetiCore`, then about `MysticetiCommit` |
| `CertifiedDag` | abstract: what the mempool promises to the consensus; implemented by `PrimaryCore` |
| `Tusk` | the consensus of several replicas over one dag |
| `PrimarySync` | fetching missing certificates: Core, HeaderWaiter, the Helpers of others, over a lossy network and bounded channels |
| `Worker` | BatchMaker, QuorumWaiter, Processor, PrimaryConnector of all workers, and what the primaries learn |
| `BatchSync` | fetching missing batches: Core, HeaderWaiter, worker Synchronizer, Helper, Processor, over a lossy network |
| `ReliableSender` | one connection task, its receiver and the TCP connections between them |
| `AtLeastOnce` | abstract: at-least-once delivery; implemented by `ReliableSender` |
| `MysticetiCommit` | Mysticeti: commit rule, Linearizer, commits in the log, crash and recovery |
| `MysticetiCore` | Mysticeti: making blocks, the write-ahead log, the threshold clock, timeouts, crash and recovery |
| `TuskProofs`, `WorkerProofs`, `PrimarySyncProofs`, `BatchSyncProofs`, `ReliableSenderProofs` | theorems about the module each is named after |
| `MCPrimary`, `MCTusk`, `MCSync`, `MCWorker`, `MCBatch`, `MCMysticeti`, `MCCore` | the instances TLC checks |

The components are composed where they interact: `PrimaryCore` holds all tasks
of all primaries; `PrimarySync` refines its suspension of headers with the
requests that bring the data (there Core and the HeaderWaiter are tasks with
channels, here one step); `BatchSync` does so for batches and joins primary and
workers; `Worker` uses of the network only what `AtLeastOnce` promises; `Tusk`
uses of the mempool what `CertifiedDag` promises; `MysticetiCommit` and
`MysticetiCore` let blocks arrive in every causal order, which is how the
BlockManager releases them.

**Stake** is the cardinality of a set of units `<<a, i>>`, `i <= stake[a]`, so
that the library's facts about finite sets apply to weighted committees.

**PrimaryCore.** A header is named by its digest and found in the constant table
`header`; the digest of a certificate covers only its header, so the same name
stands for the certificate. `primary[n]` is a record of what Core, the store and
the two waiters of primary `n` hold and of what it sent; `proposer[n]` is the
Proposer with its queue to Core; `consensus_round[n]` is the shared counter. The
handlers `process_own_header`, `process_header`, `process_vote` and
`process_certificate` are operators from a primary's state to its next one
(`ProcessOwnHeader`, `ProcessHeader`, ...), nested as the calls are, with every
early return and the `expect` calls that kill the task (`panicked`). An action is
one iteration of a `select!` loop; `CoreStep` adds the cleanup at its end.
A `HeaderWaiter` request is received with the step that sends it, and its answer
with the step that uses it; a header whose data arrived may still win the race
with its cancellation (`CancelHeaders`).

The network is the worst one: what was sent may be received at any time, any
number of times, in any order, or never. Authorities in `Faulty` keep no state;
whatever they can sign counts as sent, so any number of twin headers and votes is
covered. A certificate of a faulty author exists as soon as a quorum of votes
does. Genesis certificates pass `Certificate::verify` as they are; the bound
`GenesisSent` says which of them arrive.

`Commit` is the interface to the consensus: any stored certificate that is
`CommitLag` rounds below the newest one may be committed. Tusk needs three
rounds; smaller values are more permissive.

**Tusk.** The dag is a constant table as well. `Deliver` hands a replica a
certificate whose parents it has, which is what `PrimaryCore` guarantees
(`CausalDelivery`), one per slot (`CertificateUnique`); `Redeliver` sends one
again (those in `Again`), because Core does so whenever it processes a certificate
again. `Process`
is the body of `Consensus::run`. `OrderLeaders`, `Linked`, `SubDag`, `OrderDag`
and `Update` are its helpers; its loops are `Visit` (one round of `order_leaders`),
`Updated` (the certificates of one sub-dag) and `Flatten` (the sub-dags of the
leaders). A digest is a number, as it is for the code that compares them. The recursive `traverse` visits parents before
children and its result is sorted afterwards, so it is the set of what it visits.
An `expect("We should have the whole history by now")` that fails sets `missing`.

**CertifiedDag** is the promise behind that: each primary's dag grows by one
certificate at a time, after its parents, which are a quorum of the round before,
and no two primaries hold different certificates for a slot. The refinement maps
`dag` to what Core sent to the consensus. It is checked as long as nothing is
garbage collected: afterwards parents may be missing by design.

**PrimarySync.** `ProcessHeader` and `ProcessCertificate` are Core's handlers cut
down to what concerns missing parents; `core_blocked` and `waiter_blocked` are the
two `send().await` calls that may find a channel full. `SyncParents`, `Return`,
`Cancelled`, `Retry`, `TimerExpires` and `Cleanup` are the branches of
`HeaderWaiter::run`; a future is a record in `waiting`, ready when its parents are
stored or it was cancelled. `Answer` is the Helper of a peer; requests and replies
get lost (`SimpleSender`). A header is suspended before the rounds of its parents
are checked, which is why malformed headers matter here: `Collected` is the one
way in which they take requests from each other.

**Worker.** Batches travel with `ReliableSender`: `ReceiveBatch` may deliver what
is being sent, and `CountAck` counts resolved handlers. Once the QuorumWaiter has
`Enough` the other handlers are dropped and their sends may stop. Reports to the
primary may be lost.

**BatchSync.** The primary side is as in `PrimarySync`, for batches. The worker side
has `ReceiveSynchronize`, `ReceiveCleanup`, `SyncDone` and `Retry` of the worker's
Synchronizer and `Answer` of its Helper. A message for several batches is one for
each.

**ReliableSender.** `state` is where `Connection::run` is: waiting for its timer,
draining into the buffer, or in `keep_alive` on connection `current`. `wire[c]` and
`acks[c]` are what a connection carries; `Break` loses both. Every acknowledgement
resolves the oldest pending message, whatever it was for.

**MysticetiCommit.** A block is `<<author, round, variant>>`; a dag maps blocks to
the sequence of their includes (the order matters to `find_support`). `AddBlock`
is any block whose includes are stored, `NewBlock`, `CommitLeaders` and
`WriteCommits` are the three parts of `Syncer::try_new_block`, with a crash
possible between them: sub-dags are sent to the application before they are in the
log. `TryDirectDecide`, `TryIndirectDecide` and `TryCommit` are the operators of the
same names in the code; slots are visited from the highest down. The committers of a
round, with a pipeline one set for each round of a wave, make one list of leaders:
`LeaderSlot(i)` is the i-th, `Position` finds the last decided one in it. `DagAssumption`
is what `StatementBlock::verify` checks of a block, and that an authority outside `Faulty` makes
one block a round.

`CommittedSubDag::sort` orders the blocks of a round by a wrapping product seeded with the id of
the process. `Key` is that product, with its two factors and the 2^64 as constants; `process` is
the id, which differs between validators and changes with a `Restart`. `Sorted` applies it to the
sub-dags that are sent and logged; before that a sub-dag is a set (`CollectSubDag`).

**MysticetiCore.** The validator `v` has its log, the pending statements (as
positions in the log), the threshold clock and the flags of the Syncer; `timer` is
the leader timeout task. `Open` is the start with the recovery, `ReceiveBlocks` and
`LeaderTimeout` are the commands of the core thread, with everything
`Syncer::try_new_block` does. `Finish` is a handler that runs to its end; `Stop` ends one after
any of its writes. `synced` is how much of the log is on disk: `Crash` keeps all that was written
(the operating system survives), `LoseWrites` only what was synced (it does not).
Our block is in the shared block store as soon as it is written, and the tasks of the
connections may send it before the handler goes on to sync it: in a handler that stops there
(`SyncedBy`) it may be published and not synced, with fsync too. In a start it may not, since
`NetworkSyncer::start` starts those tasks after the block of round 1. Two histories serve the
properties: `published` has our blocks that others may have, `lost` those of them that a stop
of the machine took from the log.

Definitions marked *Faulty variant* are the code with one plausible bug. They
are not used by the specifications: each one replaces a definition to show that
a property would notice the bug.

## 3. Runs

| Run | Instance | Shows |
|---|---|---|
| `primary_twin` | 4 authorities, one faulty with two headers for round 1 and one with too few parents | `CertificateUnique`, refines `CertifiedDag` |
| `primary_propose` | one correct primary, stakes 1, 1, 2, gc depth 1, own headers for several rounds and some that should never be proposed | `TypeOK`, `VoteOnce`, `CausalDelivery`, `VotedAvailable`, `OneHeaderPerRound`, `ProposedValid`, `AssembledOnce` |
| `primary_pair` | two correct primaries that need each other, four rounds, commits and garbage collection | `CertificateHasVotes`, `RoundAdvances`, refines `CertifiedDag` |
| `primary_panic` | two correct primaries, stakes 1 and 3 | `OwnVoteAccepted` is violated |
| `tusk_replicas` | two replicas, seven rounds with alternatives for some slots, two certificates sent twice | `TypeOK`, `CommitOnce`, `ParentsFirst`, `WholeHistory`, `OrderFollowsLeaders`, `LeaderInHistory` |
| `tusk_agreement` | the same dag | `Agreement` is violated |
| `reliable_sender` | 3 messages, 3 connections | `TypeOK`, `NothingLost`, refines `AtLeastOnce` (safety and liveness) |
| `sync_resume` | a header two rounds above what we hold and a malformed one that claims round 1 and names the same parent, one of two peers has the certificates, one certificate comes unasked, two commits | `LostWithEarlier`, `RequestsBelong`, `PendingIsWaiting`, `HeaderResumes` |
| `worker_live` | 4 workers, one silent, 2 transactions | `ReportedIsAvailable`, `PayloadIsStored`, `TransactionsBatched` |
| `batch_fetch` | 2 workers, 2 headers with one batch, one command to the worker, losses, a commit | `EntryHasFuture`, `RequestsAreWaitedFor`, `BatchFetched` |
| `mysticeti_agree` | 72 dags of 6 rounds with an equivocating leader, two leaders a round, processes that sort differently, one restart | `Agreement`, `OneCertified`, `NoneTwice`, `HistoryFirst` |
| `core_restart` | 3 authorities of stakes 1, 2, 1, 3 rounds, fsync on, the process or its machine stops once | `NoEquivocation`, `OwnBlockOnce`, `PendingRecovered`, `PayloadOnce`, `OwnValid` |

**Bounds.** In the primary and Tusk runs the tables of headers and certificates
bound everything. In `primary_propose` a single correct primary faces authorities
that may send anything, which covers every behaviour of the others; stakes 1, 1, 2
make a quorum of two authorities possible and one of the two small ones
insufficient. Two rounds above genesis suffice for suspension on parents, on
batches, twins and cleanup. `primary_pair` has four rounds because a commit needs
three (`CommitLag`) and one more must follow the cleanup. In `primary_panic`
authority 2 is a quorum alone and runs ahead, which takes few states. The dag of
the two Tusk runs is the smallest in which a leader is supported but seen late
(seven rounds: a certificate of round 7 commits the leader of round 4). The replicas
of `tusk_replicas` are interchangeable, so it uses symmetry.

In the other modules every bound is a constant with a comment. Three `Messages`
over three `Connections` put a message in the buffer, one on the wire and one
acknowledged when a connection breaks, twice. `Capacity` 1 makes a channel full; the
code's 1,000 only needs more headers for the same situation. `MaxReceived` lets a
header come again while it waits. `LastCommit` moves `gc_round` past a round of the
table, so that a cleanup happens before, between and after the requests. In
`sync_resume` it collects the round of the malformed header while the header of round 3
may wait.
`MaxTransactions` fills one batch or leaves a rest for the timer. The dags of
`MCMysticeti` vary what can differ: who votes for which of the leader's two blocks,
which certificates are missing and whose blocks are left out later; six rounds hold
a leader, its decision round and an anchor a whole wave above it. With the real
factors a key wraps between two authors in few rounds of few processes; factors 3 and
5 and keys below 16 make it wrap at once, in different places for the processes 4 and
10. In `MCCore`, `MaxRound` 3 gives a block before, at and after the crash, `MaxBatch` 3
lets the clock advance in the middle of a call, `MaxPayloads` 2 is two calls of the
block handler, `MaxCrashes` 1 a recovery; a second one is left to the theorems.

Deadlock is checked in the primary runs. In the others the system stops when the
table is exhausted: everything was delivered, sent or committed and the tasks wait,
as the code does.

**Fairness.**
- `primary_pair`: a message of a correct sender arrives as long
  as the sender retries it, that is until the cleanup of the sender drops its
  `cancel_handlers` (`Retried`); a task takes what it can from its channels; the
  Proposer's timer expires. Nothing is assumed of faulty authorities, of batches
  being reported, of commits or of cancellations.
- `reliable_sender`: the task runs; the peer can be reached again and again, so a
  connection that is always retried is made in the end (strong); a healthy
  connection is served and an acknowledgement that comes again and again is read.
  The number of broken connections is bounded by `Connections`.
- `sync_resume`, `batch_fetch`: tasks run and timers expire (weak). Retries go to
  peers drawn at random (`lucky_broadcast`), so each peer is drawn in the end, and a
  message sent again and again is not always lost (strong). Nothing makes a peer
  that holds nothing answer. A request that the timer no longer repeats is excused from
  `HeaderResumes`; `LostWithEarlier` says when that may be. In `batch_fetch` only the
  workers are fair: `BatchFetched` needs nothing of the primary (`PrimaryFairness` is for
  `PayloadResumes`, below).
- `worker_live`: tasks run, timers expire, and what `ReliableSender` still holds is
  received by workers that are not `Silent`. A report to the primary may be lost and
  nobody retries it, so `TransactionsBatched` ends at the worker's store.

### Findings

1. *Agreement fails* (`consensus/src/lib.rs:312`, run `tusk_agreement`).
   `order_leaders` runs over
   `(last_committed_round + 2..leader.round()).rev().step_by(2)`. The upper bound
   is exclusive, so starting from an even leader it visits only odd rounds; leaders
   are elected in even rounds. A replica that did not see the support of leader
   23 in time skips it and commits 34, which is no leader, and then 41; one that did
   commits 23 and then 41. With the inclusive bound the same instance agrees.
2. *Core panics* (`primary/src/core.rs:269`, run `primary_panic`). The round of the
   current header can be garbage collected before its votes are complete.
   `sanitize_vote` accepts the late votes, the certificate is assembled, its header
   is no longer in `processing` and is processed again, the second own vote is
   refused and the `expect` fails.

### Statements that do not hold

The modules also state what a reader of the code may expect and what fails in
instances the runs above do not have. Each entry names the definition and the
constants that show it.

- *Dependencies are lost* (`consensus/src/lib.rs:368`, `DependenciesCommitted` in
  `Tusk`). `order_dag` skips everything at or below the last committed round of its
  author, including certificates that were never committed, although "committing a
  leader block means committing all its dependencies". `MCTusk` with `LateDigest`
  and `LateCertificate`, one replica, `GCDepth` 9, `Again` empty: two leaders are
  committed with one certificate left behind (nine rounds).
- *A request is forgotten* (`primary/src/header_waiter.rs:289`, `RequestsCovered` in
  `PrimarySync`). `parent_requests` keeps the round of the header that asked first
  and the cleanup drops it with that round, while another header waits for the same
  certificate and is never retried. It takes a header whose parents are of a wrong
  round, which is only refused after they have been asked for: the constants of
  `sync_resume`. Nothing else makes the timer forget one (`LostWithEarlier`, checked
  there and proved).
- *Two tasks wait for each other* (`primary/src/header_waiter.rs:235`, `LoopedBack`
  in `PrimarySync`). Core sends to the HeaderWaiter and the HeaderWaiter to Core,
  each inside its loop, over bounded channels. With both full neither returns to its
  `select!`. `MCSync` under `FairSpec` with `CrossingDigest` and `Crossing`, one peer
  (`AuthorHolds`), `SentHeaders` {21, 22, 23}, `SentCertificates` empty, `Capacity` 1,
  `LastCommit` 0, `MaxReceived` 4.
- *The wrong worker is asked* (`primary/src/header_waiter.rs:166`, `PayloadResumes` in
  `BatchSync`). A missing batch is requested from the worker of the header's author,
  with the author as the target, instead of our own: it has the batch and does
  nothing. `MCBatch` under `FullyFairSpec` with one header, `Commands` empty, `Lossy`
  FALSE, `LastCommit` 0. Asked at the right worker the batch comes (`batch_fetch`).
- *Our block is lost and made twice* (M: `core.rs:880`-`884`, `SentSurvives`).
  `insert_own_block` puts our block into the shared store, from which
  `stream_own_blocks` and `send_blocks` send it; the sync of the log comes after. A
  machine that stops in between, once, with fsync, forgets a block that others have
  and makes another one for its round: two blocks of a round are then sent, and when the first
  one comes back, `assert!(self.own_blocks.insert(..).is_none())` at M:
  `block_store.rs:495` fails. The constants of `core_restart` show it. Without fsync any
  block since the last `SyncLog` can be lost so, and that is how validators run: M:
  `validator.rs:247` takes `CoreOptions::default()`, the test setting. Nothing else
  does this, in particular no stop of the process alone (`NoEquivocation`,
  `OwnBlockOnce`).
- *The order in a sub-dag depends on the process* (M: `consensus/linearizer.rs:70`,
  `SameOrder` in `MysticetiCommit`). `CommittedSubDag` says that its blocks may be sorted by "a
  deterministic algorithm" (M: `consensus/linearizer.rs:14`); `sort` is "per-process
  randomized". What a process sent before a crash another one sends again in
  another order, and validators differ in the same way: the constants of
  `mysticeti_agree`. Leaders, heights and the sets
  of blocks do not (`Agreement`), nor does a round come before an earlier one
  (`HistoryFirst`). How often: in a round of one process the order is that of the
  authors, or a rotation of it where the key wraps between two of them. With four
  authors the first such place is process id + round = 1,425,625,196, with ten
  130,150,985, with a hundred 6,035,639, one and a half times the largest process
  id of Linux.
- *A first block without a quorum* (M: `core.rs:196`, `OwnValid`). A process that stops
  in its very first start, after the genesis blocks are logged, forgets the others'
  genesis blocks and makes a block of round 1 that no peer accepts. `MCCore` with
  `EarlyCrash` TRUE, `Fsync` and `MachineCrash` FALSE.
- *The clock falls back* (M: `core.rs:172`, `ClockPastQuorums`). The recovery feeds the
  threshold clock with what is pending and not with our own block, so it may stay in
  a round of which a quorum is stored. The validator cannot propose until further
  blocks arrive; `PendingRecovered`, `PayloadOnce` and `OwnValid` are not affected.
  `MCCore` with `Fsync` and `MachineCrash` FALSE, `MaxCrashes` 1.
- *A timeout is missed* (M: `syncer.rs:166`, `TimeoutProposes`). Only blocks of others
  tell the timeout task of a new round. When our own forced block completes the
  quorum of its round, the clock moves on without a signal and the new round does not
  time out. `MCCore` under `FairSpec` (the process starts, the timeout task and the
  log syncer run, other validators owe nothing) with `MaxCrashes` 0, `MaxPayloads` 2,
  `Fsync` and `MachineCrash` FALSE.

`VoteOnce` is stated down to `gc_round` because nothing holds below it: headers
and certificates that come back from the waiters are not sanitized again, and
`last_voted` has forgotten their rounds.

## 4. Proofs

Checked by TLAPS for every value of the constants. A component's theorems assume
the `ASSUME`s of its module, which give the types of the constants and what the
code ensures of them: `CommitteeAssumption`; `PrimaryAssumption` and
`GenesisAssumption` (one genesis header for each authority, without parents, as
`Certificate::genesis` makes them); `WorkerAssumption`; `SyncAssumption`;
`BatchAssumption`; `SenderAssumption`; `CommitAssumption` (faulty authorities have less
than f+1 stake, `elect_leader` gives each offset of a round another leader) and
`DagAssumption` (section 2); `TuskAssumption` (the certificates that can
exist, finitely many, each but the genesis ones with a quorum of parents of the round
before, as `PrimaryProofs` shows of what Core delivers); `CoreAssumption` (the quorums that
the other validators include). Committees and stakes, tables of headers,
`gc_depth`, the faulty or silent authorities and every bound are arbitrary. What a
theorem assumes besides is in its statement and named below.

### The committee and Core (`BasicProofs`, `PrimaryProofs`)

- `QuorumOverlap`, `QuorumIntersection`, `QuorumOnce`: arithmetic of the two
  thresholds over the cardinality of sets of units.
- `TypeCorrect` (`TypeOK`): inductive as it stands; one lemma per handler.
- `OneVotePerSlot` (`VoteOnce`): not inductive, because it does not say that
  `last_voted` remembers the votes. `VoteInv` adds that every vote of a round
  at or above `gc_round` is recorded in `last_voted`, and that `gc_round` trails
  `consensus_round` by `gc_depth`, so that it never moves back and the cleanup
  forgets no more than `gc_round` excuses. Each handler is shown to keep the votes
  (`KeepsVotes`), the cleanup is the one place that moves `gc_round`.
- `OneProposalPerRound` (`OneHeaderPerRound`): `ProposerInv` adds that parents are
  held only while nothing was proposed in the current round.
- `UniqueCertificates` (`CertificateUnique`), under the hypothesis that `Faulty`
  holds less than `validity_threshold` stake: for a faulty author two quorums of
  votes share a correct voter, and `VoteOnce` applies; for a correct author
  `OwnInv` shows that every own header Core keeps, sends or certifies was made by
  the Proposer, and `ProposerInv` applies.

### The dag of certificates (`PrimaryProofs`)

- `AncestorsFirst` (`CausalDelivery`), `VotesAreBacked` (`VotedAvailable`): both come
  from `StoreInv`. Every certificate stored has its parents stored; every header
  voted for is `Votable`; and what the aggregators hand to the Proposer
  (`ProposalGood`) is a stored quorum of one round. `StoreStep` says what a handler
  may do to the store; one lemma per handler, nested as the calls are, shows that it
  does no more, and a step of the system is a store step of one primary.
- `ProposalsAreValid` (`ProposedValid`): `ProposedInv` follows the parents from the
  aggregators through `tx_proposer` to the Proposer's header. The weight an
  aggregator compares is the stake of what it has collected (`StakeInAdd`: it never
  adds an origin twice).
- `OwnVoteHeld` (`OwnVoteCounted`) and `QuorumReachedOnce` (`AssembledOnce`):
  `TallyInv` says that the weight is the stake of the voters counted since it was
  last reset, that the primary itself is one of the voters of its current header, and that
  a header in the queue from the Proposer has not been processed (`Fresh`). The first is
  `OwnVoteCounted`, a fact that the operator `OwnVote` relies on; no run repeats it. The weight is reset at the quorum, so a second certificate
  would need a second quorum of voters, none of whom counted before; two quorums
  overlap.
- `CertificatesHaveQuorums` (`CertificateHasVotes`): `VotersInv` adds that who is
  counted did vote.
- `PrimariesImplementDag` (`ImplementsCertifiedDag`): every step of the primaries is a
  step of `CertifiedDag` or a stutter. It needs `CertificateUnique` (and with it the
  bound on `Faulty`), and `CertifiedInv`: what a primary stores or keeps waiting was
  sent or is a genesis certificate. It is stated for as long as no round is
  collected (`NothingCollected`): the abstract dag keeps what `gc_round` lets a
  primary forget.

The four theorems about proposals, own votes, certificates and their quorums
assume `TotalStake > 0`: with no stake at all every set is a quorum, the empty one
too. A committee without stake is no committee, but nothing in `Committee` refuses it.

### The consensus (`TuskProofs`)

Six theorems, for every dag, committee, order of leaders, number of replicas and
`gc_depth`: `ConsensusTyped` (`TypeOK`), `CommittedOnce` (`CommitOnce`),
`ParentsCommittedFirst` (`ParentsFirst`), `HistoryIsWhole` (`WholeHistory`),
`LeadersDecideOrder` (`OrderFollowsLeaders`) and `LeadersAreRemembered`
(`LeaderInHistory`). One inductive invariant, `TuskInv`, carries them:

- `Sound`: what a replica was sent is still in its dag or is `Settled`, that is, its
  origin has committed that round or a later one, or the gc depth has passed it. What
  was committed is settled, and so are its parents; `last_committed_round` is the
  maximum of `last_committed`. So what is sent again after the cleanup cannot be
  committed again, and a parent still to come is below what its child settled.
- `Ordered`: what a replica committed is what its leaders alone commit, one `BareStep`
  each, starting from nothing. A bare step takes the sub-dag from all certificates
  there are, not from the replica's dag; `OrderIsBare` shows that both give the same
  sequence, because deliveries are causal and the dag lost only settled certificates.
  Two replicas with the same leaders then walk through the same bare steps.
- `Supporting`: at least f+1 stake of delivered children refer to the last leader. With
  `OneSlot` (one certificate for each slot, over all replicas) they share an origin, and
  so a certificate, with every quorum of parents of two rounds above (`QuorumMeets`),
  and `PathExtends` follows the parents from there on.
- `Closed`: what was sent has its parents sent before. With `Sound` it gives the rounds
  that the `expect` calls look up (`HistoryHeld`).

The functions the loops compute are recursive over rounds, sequences or the dag; that
they exist and satisfy their equations is proved from a least counterexample
(`LeastNumber`, `Iterates`), since the induction rules of the library cannot be used.
`SortedFacts` shows that the sort by round is a permutation in which parents come first.

### The workers and the fetching of data

- `WorkerProofs`: `ReportsAreStored` (`PayloadIsStored`) and `BatchesAreAvailable`
  (`ReportedIsAvailable`). `WorkerInv` follows a batch along its path: it was sealed
  here, who acknowledged it has received it, whom the `QuorumWaiter` counted had
  acknowledged the batch it waits for now, and what it let through is held by a quorum
  that counts the worker itself.
- `PrimarySyncProofs`: `EntriesHaveFutures` (`PendingIsWaiting`), `RequestsAreNeeded`
  (`RequestsBelong`) and `WaitedForIsRequested` (`LostWithEarlier`), for any headers,
  malformed ones included. `SyncInv` adds
  that a request is recorded with the round of a header still pending, and that what a
  future waits for, with what was stored when the header was suspended, are all its
  parents. So a header that returns takes only requests with it that were answered,
  and the cleanup takes a request from a header that stays only with one of an earlier
  round that names the same parent (`Collected`). Two well-formed headers of different
  rounds share no parent; the malformed case is *A request is forgotten* above.
- `BatchSyncProofs`: `EntriesAreWaitedFor` (`EntryHasFuture`), inductive with the types
  alone, and `RequestedIsWaitedFor` (`RequestsAreWaitedFor`), which needs that a request
  is known with the round of a waiting header.

### The sender (`ReliableSenderProofs`)

`AcksAreExpected` (`TypeOK`), `MessagesAreKept` (`NothingLost`) and
`StepsAreAtLeastOnce`, the safety part of `ImplementsAtLeastOnce`: the initial states
are initial states of `AtLeastOnce`, every step is a step of it or a stutter.
`SenderInv` is about one queue, `pending_replies`, then `buffer`, then `channel`:
strictly increasing, holding everything neither cancelled nor resolved. While the
current connection is alive it carries the end of `pending_replies` (`WireIsPending`),
so an acknowledgement, which names no message, is for the oldest pending one; the
peer has received what was acknowledged. `WiresInOrder` says of every connection,
those given up included, that it delivers a message only after the uncancelled ones
sent before it; a write keeps it because what is older is cancelled, received, or on
the same wire. What `retain` leaves of the buffer is a recursive function;
`RetainedFacts` proves that it is the uncancelled messages in order, with a least
counterexample taken from a set of naturals in place of an induction rule.

### A Mysticeti validator (`MysticetiProofs`)

For every committee, quorums of the others, leaders, orders of blocks, any number of
stops between any two writes, and any part of the log that was not synced lost:

- `PendingSurvives` (`PendingRecovered`) and `PayloadsOnce` (`PayloadOnce`), without further
  assumptions. `CoreInv` (`CoreHolds`) is about the log: our blocks grow in round, a payload in
  one of them lies before it, at or after the next entries of the earlier ones and before its
  own (`PayloadsTaken`), and a block that one of ours drops is of a lower round
  (`BlocksTaken`). What is pending is in the order of the log, except that blocks
  accepted in one call are in the order of their rounds (`InOrder`), so the cut that
  `try_new_block` makes at the first block of the clock's round is not a cut of the
  log: the recovery may bring back a block that was taken (hence the inclusion in
  `PendingRecovered`), never a payload. A log cut short keeps `LogInv`, since its
  parts look backwards only.
- `OwnBlocksValid` (`OwnValid`), under `KeepsFirst`: the process does not stop in its first
  start, and what is synced matters, that is, fsync is set or the machine keeps its writes. Without
  it the property is false, see *A first block without a quorum* above. `ValidInv`
  (`ValidHolds`) says that behind each entry of the log lies a quorum of the round before it,
  that the clock's round has one, and that the log keeps our first block
  (`FirstKept`). The proof that a new block includes a quorum shows that no block of the previous
  round is covered by another candidate, as those are of that round or lower, and that
  none was dropped by an earlier block of ours.
- `BlocksOnce` (`NoEquivocation`) and `OwnBlocksOnce` (`OwnBlockOnce`), without further
  assumptions, with fsync or not: the process or its machine may stop anywhere, also in a handler
  whose block is sent and not synced. `SentInv` (`SentKept`): what others may have is in the log
  or was lost in a stop of the machine. `OnceInv`: until then no block of ours comes back as a
  received one. With the machine keeping its writes nothing is ever lost, and the two say that
  one block of a round is sent and that the assertion holds; where it loses some, see *Our block
  is lost and made twice* above.

`Counted`, `SortByRound` and `Ascending` are a recursive function and two choices by rank;
`CountedFacts` and the lemmas around them prove what they return from a least counterexample.

### The commit rule (`MysticetiProofs`, second part)

For every dag of a committee whose faulty authorities have less than a third of the stake,
every number of leaders, with a pipeline or without, every order in which blocks arrive, and any
number of restarts anywhere, also between sending sub-dags and logging them, and any ids of the
processes and factors of their keys:

- `CertifiedOnce` (`OneCertified`): the quorums of two certificates share a correct
  authority, which votes once in a slot. So does a quorum of blames with a certificate,
  so a slot is not both skipped and committed directly. `AnchorSees`: what has enough
  support anywhere has a certificate among the ancestors of every block a wave above it.
- `OutputsAgree` (`Agreement`): leaders, heights and sets of blocks, not the order in a sub-dag
  (*The order in a sub-dag depends on the process*, above). The blocks a replica holds are a part of the dag closed
  under includes, and in a closed part an anchor sees all its ancestors, so it
  decides the same wherever it is held (`AnchorDecides`). Hence `DecideKeeps`: what is decided
  with fewer blocks, from statuses of later leaders that agree where they are decided, is decided
  so with more. Along the list of leaders, newest first, this makes the leaders a replica
  decides after its last one those that a replica with the whole dag decides
  (`CommitAgrees`). The Linearizer gives the same sub-dags whether it handles the
  leaders at once or in parts (`HandledInParts`).
- `CommitHolds`, the inductive invariant: the replica is where one with the whole dag is after
  its first j leaders, and its log where that one's was after the first i, i <= j: they differ
  between sending and logging. A restart goes back to the leader of the last sub-dag in the
  log (`LinearizedOK`: the Linearizer had the same sub-dags there) and decides what comes after
  it again, skipped leaders included, with the same result. What is sent is part of
  the output of the whole dag, in the order of the process that sent it (`Sends`): the log may
  have sub-dags of several processes, each in its own order (`SendsAll`).
- `LoggedOnce` (`NoneTwice`) and `LoggedInOrder` (`HistoryFirst`) then are facts about
  the Linearizer on the whole dag: what is committed is of a lower round than some
  earlier leader, or a leader itself, so the next leader is not among it; a sub-dag is all of
  the leader's history that is not committed; the order by round, whatever the key does in a
  round (`RoundsInOrder`), puts a block after what it includes.

### Only model-checked

- Liveness, out of the prover's reach: `RoundAdvances`, `HeaderResumes`,
  `BatchFetched`, `TransactionsBatched`, and the fairness of `AtLeastOnce`.
- What does not hold, with the instance that shows it (section 3): `RequestsCovered`,
  `ClockPastQuorums`, `TimeoutProposes`, `SentSurvives`, `SameOrder` and the others there.

## 5. Not modelled

In Narwhal: the framing of messages, the growing delay between reconnections,
signatures and hashes (ideal), the command channel and the obligations of the
store (a write and the readers it wakes are one step), the benchmark client, the attack hooks and their
statistics. The primary keeps `last_voted` and the consensus its state in memory
only, and nothing reads the store when a node starts, so a restart has no
recovery to model.

In Mysticeti: connections, dissemination and the BlockFetcher (they only make blocks
arrive, which the modules allow in any causal order), the indices of the
BlockManager and the missing references it returns (only the orders in which it
accepts blocks are used), the certification of
transactions by the block handlers, epoch close, the removal of old blocks from
memory, and the file behind the log (`wal.rs`). The wave length is the default of
three rounds. Two blocks of one slot have the same key and stay in the order of the
walk, which `SortBlocks` replaces by the order of their names: it is the same for
all validators either way.

The remaining code bases are forks of third-party projects of very different
size. `bullshark` and `mevsui` are two whole Sui trees: virtual machine, compiler,
storage, indexers, command line tools. They make up nearly all of the 1.6 million
lines of the repository, so the share of the repository this project covers stays
small however much of the protocol code is modelled. Mahi-Mahi is a variant of the
Mysticeti code with a longer wave and a common coin; AlephBFT and Autobahn are
separate systems with their own specifications upstream.

## 6. Plan

*Done*: the modules of section 2, their runs, and the theorems of section 4, which state
all invariants that a passing run checks. Left: the BlockFetcher and the epoch change of Mysticeti,
which section 5 leaves out, and the hazards without a property.
