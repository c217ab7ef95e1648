# Verification of boinc-quota

boinc-quota is a peer-to-peer network for paid computation: participants fund
projects, projects submit Python tasks, workers compute them and are paid from
the project's quota, and a block consensus among the nodes keeps one ledger of
all this on every node. This directory holds TLA+ models of its core, the TLC
runs that check them and the proofs that TLAPS checks. Paths below are those of
the repository (`src/network.rs` is `src/src/network.rs` in `PROJECT.json`).

## 1. The system

| Component | Source | State | Operations |
|---|---|---|---|
| Ledger state machine | `network.rs`, `model.rs` | participants and reputation, projects with available and locked quota, tasks and their reports, pending queue, leases, clock | `apply_op` over register, transfer, create/fund/donate, submit task, request task, submit result, tick; `heartbeat`; the reclaim of expired leases that precedes each task operation |
| Reward split | `network.rs` `distribute_reward`, `finalize_task` | none | proportional shares with remainder, the block that pays them |
| Ledger blockchain | `blockchain.rs` | the blocks of transactions | append, fold balances, verify |
| Operations | `ops.rs` | none | the values that the log orders |
| Consensus engine | `consensus.rs` | chain of operation blocks, mempool, historical and active validators, proposals, votes, own votes, the ledger replica | submit, propose, vote, commit, receive a certificate, catch up, adopt a longer chain, restore |
| Mesh | `actor.rs` `p2p_connection`, `flood_*` | links, set of seen messages | Hello, membership gossip, flooding, relaying, close |
| Role node | `actor.rs` `NetworkActor::run`, `run_role_node` | timers, chain file, executor handle | start, round, sync and tick timers, save and restore, user commands, end |
| P2P node | `actor.rs` `run_p2p_node` | timers | a node without a role; only the smoke test starts one |
| Operations executor | `actor.rs` `ops_executor_loop` | processed tasks, request nonce, current job | look for a job, compute, report, claim, wait |
| Task execution | `executor.rs` | none | tell what a payload is, run it, make its digest and cost |
| Estimator | `estimator.rs` | none | the seconds a reward buys, the cost of counted work |
| Sandbox | `sandbox.rs` | the interpreter's lock | run Python under an allow-list, give it up at the deadline |
| Python environment | `pyenv.rs` | file system, subprocesses | find an interpreter, install packages |
| Identity, protocol | `identity.rs`, `protocol.rs` | key files | sign, verify, encrypt, encode |
| Desktop application | `app.rs`, `app/`, `bin/gui.rs` | what it believes of node and executor, two bounded channels | drain events, draw, send commands |
| Command line, smoke test | `bin/cli.rs`, `bin/consensus_smoke.rs` | last snapshot | parse, send commands |

User commands and executors turn intents into operations (`submit_and_flood`).
The engine gossips an operation, a proposer puts what its mempool holds into a
block, the active validators vote, the block is sealed with the votes as its
certificate, and every node applies its operations to its `Network` replica with
`apply_op`. Executors and timers read that replica under the engine's lock, let
go of the lock, and act on what they read. So there are three layers, each on
top of the one before: a deterministic ledger; a distributed log that feeds the
replicas; programs that run over a replica that may lag.

What is hard in it:

* ledger: the lease table, the task status and the queue are three copies of one
  fact; redundant reports arrive late, disagree, or come from workers that lost
  their lease; quota is promised, released, refunded and burned along four paths;
* reward: time, cost and shares are each rounded, in products that saturate;
* mesh: a hub has a task per connection, and each handles a message in several
  critical sections; two tasks may serve one peer that has reconnected;
* consensus: quorum and rotation are computed over a set that each node learns
  for itself; messages overtake each other; nodes join, leave, restart with an
  old chain; forks are chosen by length;
* executors: state read before an `await` and used after it; requests repeated
  after a timeout; a restart that forgets nonces; operations refused because an
  equal one was committed before; payloads that never end, or whose output makes
  the task that computes them panic;
* session: window and node see each other through bounded channels, one dropping
  what finds no room, the other waiting; the window shows what it asked for.

`PROJECT.json` lists each hazard at its line, with the properties that watch it.

What makes each part correct:

* ledger: no task is lost, leased twice or decided twice; a worker's weight counts
  once; only registration mints; promised quota is always backed by tokens;
* reward: no cost exceeds it, and a run that counts all the operations it bought
  claims all of it; never more than it is paid, all of it unless a product
  saturates, and the chain pays what was split;
* mesh: what one member knows reaches all that are linked, whatever the order;
* consensus: a block needs its quorum; no node signs two blocks of one height; no
  operation is applied twice; a chain is given up for a longer one only; a node
  that is behind catches up; in a stable mesh all of it is one replicated log;
* executors: a task is computed under one lease at a time; each gets done, while
  the log goes on, unless a panic or a lost lease strands it;
* session: one executor at most, with its node; window and actor never wait for
  each other; the window ends up right about both.

## 2. The modules

| Module | Models | EXTENDS / uses |
|---|---|---|
| `U64` | saturating arithmetic | |
| `TokenSums` | sums over finite sets, as counts of unit tokens | |
| `Rewards` | `distribute_reward` as a closed form, saturating products included | `U64`, `TokenSums` |
| `RewardLoop` | the loop of `distribute_reward`, one iteration a step | `Rewards` |
| `Estimator` | `timeout_for_budget`, `calculate_cost`, `actual_cost` | `U64` |
| `Blockchain` | blocks of transactions and the fold of `balance_of` | `TokenSums` |
| `Payout` | one reward, from the task to the transactions that pay it | `RewardLoop`, `Estimator`, `Blockchain` |
| `Network` | the ledger state machine | `Rewards` |
| `MCNetwork` | its TLC instances | `Network` |
| `ReplicatedLog` | the abstract promise of the consensus in a stable mesh | |
| `Consensus` | the engines and the mesh between them | `ReplicatedLog` |
| `MCConsensus` | its TLC instances | `Consensus` |
| `Mesh` | the connection tasks of one hub, critical section by critical section | |
| `Executors` | executors over lagging replicas, payloads, sandbox, tick timer | |
| `MCExecutors` | its TLC instances | `Executors` |
| `Session` | one desktop process: window, actor, executor task, channels | |
| `RewardsProofs`, `PayoutProofs`, `NetworkProofs`, `MeshProofs`, `ExecutorsProofs`, `SessionProofs` | theorems; `RewardsProofs` holds those about `TokenSums` too | the module each is named for |
| `ConsensusTypes`, `ConsensusProofs` | theorems | `Consensus` |

Definitions marked `mutant` are plausible bugs. Nothing uses them; each shows
that some property would notice the bug when it takes the place of the
definition that follows it.

### Network

One action is one operation, applied whole, with the reclaim it starts with.
`registered`, `reputation`, `projects`, `tasks`, `pending`, `leases` and
`currentTick` are the fields of `Network` of those names (`participants` split in
two). The chain of transactions is kept as the raw sums `balance_of` computes,
`wallet` for accounts and `escrow` for project addresses, before the clamp at
zero, because a raw balance can go below zero (section 4). `pending` is a set:
the task of greatest score and lowest id is taken wherever it stands. The four
ways a report ends a lease are four actions (`CompleteTask`, `ExhaustTask`,
`RejectTask`, `RequeueTask`) with the common part in `Submitted`. An operation
that fails before it changes anything stutters; `Refused` is a task operation
that fails after its reclaim. Left out: names, payloads, encrypted blobs,
getters and `set_participant_reputation`, which only tests call.

### Rewards and Payout

`Shares` is what `distribute_reward` returns; `RewardLoop` is its loop, with the
remainder handed out in the order of the sort. `Payout` puts the loop where it
stands in the code: `PayInit` is a funded project on a `Blockchain` (funded by an
outsider or by one of the winners), a task whose reward buys seconds of the
interpreter and whose run counted `operations` or was given up; then either
the shares are computed and paid in one block (`finalize_task`, which leaves out
transfers of nothing), or the reward is burned. A block is a function from the
places of its transactions; that of the winners keeps their numbers, with gaps where
a share is nothing, since a sum does not depend on the places. `Network` keeps sums
where the code keeps transactions; `ChainPaysShares` says that the fold over the
blocks gives those sums. `Estimator` writes the cost of the processor as an integer
quotient. The code multiplies and divides doubles and truncates, which is the
same for the default rate, the only one the program uses, up to the
interpreter's cap of operations. `measure_via_sandbox` knows no memory, so the
memory term is always zero.

### Consensus

| Code | Model |
|---|---|
| block hash | the sequence of block bodies up to the block, so that a hash commits to all of the chain under it and a chain is its head's hash |
| `OpBlock.votes` | `certs`, beside the chain, because the hash does not cover them |
| `mempool`, `validators`, `active`, `proposals`, `votes`, `voted` | variables of the same names |
| signatures | the names of their voters: nodes are honest |
| `SeenSet` | `seen`, for operations and keys; other messages need none, they have no second effect |
| messages on TCP links | `inbox[n]`, a set delivered in any order; what a broken link loses is never delivered |
| chain file | `saved`; a crash within the plain write may leave a file that does not load |

Choices a reader should know. The order of operations in a block is left out. A
block that does not continue its chain cannot be written down, so the check
that refuses one is always met. The unordered inbox allows more than one FIFO
queue per link does, which makes the safety results stronger. A `SyncRequest`
is answered from the neighbours' chains of the moment it is sent; its answer
then travels like any message. A link closes at both ends at once. A node's own
key counts as seen. A node that restarts may receive again what it had
received, which it would after a real restart too. `Stop` is a user who
disconnects: the loop of the node ends after a last save, but nothing aborts its
connection tasks, so they and the engine run on until the links break or the
process ends (`Restart`). Connecting again within the same process, which gives
one key a second engine, is left out.

### Mesh

`Consensus` handles a message in one step. The code does not: `p2p_connection`
inserts the peer, lets go of the peer map, locks the engine, lets go of it, floods,
locks again. `Mesh` has these critical sections for one hub and the workers that
dial it. `todo[c]` is what the task of connection `c` has yet to do: for a Hello
"greet" (`add_validator`, and the validators for the new peer), "announce" (the new
one for the others), "handOver" (the pending operations); for an operation "relay",
then "handle"; at the end of the stream "deactivate". The task of a connection that
broke goes on, also beside that of the next connection of the same worker, and its
end removes the peer whatever connection the map holds by then: `overlapped`
remembers which connections had a twin. The engine is its validators and its
mempool. Messages to workers are read at once, since nobody can tell; those to the
hub are queued by link.

### Executors

The log is the one `ReplicatedLog` promises. `ledger` is what all of it leaves,
`replica[w]` what the operations leave that worker `w` has applied, `backlog[w]`
the rest. `Submit` is `submit_and_flood` with the mempool's test for equal
operations, which is what the module is about: requests carry a nonce, ticks
carry none. The ledger is that of `Network` for the quorum of 1 which the engine
sets (`fresh_state`): the report of the lease holder completes the task, so no
task has reports while it is open; one project, so the lowest id is offered;
leases are the Assigned tasks, which is `LeaseMatchesStatus`, proved in
`NetworkProofs`.

The computation is `Digests(w, t)`, what a run may report. A payload is one of five
kinds (`Payloads`); `Glue` is what the Python glue makes of it; `Sandboxed` adds
that the run may be given up before it answers, because the deadline starts before
the interpreter's lock is had and an abandoned run keeps the lock. `Bare` workers
lack the interpreter package (no run has one: to a report it is the same as a spoiled
result, or a run given up), `Corrupting` results are those an unreliable worker spoils. `MayPanic`: `digest_from_stdout` cuts the output at byte 1024, and a cut
within a character panics; the loop then goes on without a report, the task marked
as processed. `Stop` ends the process of a worker, `Restart` starts it with its
identity only. Stopping just the executor (`StopExecutor`), and a coordinator
that computes, are left out.

### Session

| Code | Model |
|---|---|
| `connected`, `executor_running`, `node_mode` of `BoincApp` | `connected`, `shown`, `nodeMode` |
| the two `mpsc` channels of `gui.rs` | `commands`, `events`, of `CommandSlots` and `EventSlots` |
| `try_send` | `Send`: no room, no command |
| `evt_tx.send(..).await` | `outbox`: the actor does nothing else before it is empty (`Emit`) |
| the dispatcher, a node starting, its `select!` loop | `phase` |
| `executor_handle`, the spawned tasks | `handle`, `running` |

A frame is `DrainEvents` and what is clicked before the next one, sent command by
command. The dispatcher drops what is not a connection; a running node ignores
what is; a start or stop with nothing to do is silent (`OtherCommand`). All
commands that become operations are `Work`; all events that change neither
connection nor executor are `Info`, several in a row one. Connection tasks
outlive their node and go on reporting (`TaskReports`). `lost` is history: a
dropped toggle leaves the window wrong about the executor until the node goes,
and nothing in the code says otherwise, so the property leaves that case out.

## 3. The passing runs

| Run | Instance | Shows |
|---|---|---|
| `payout` | rewards to 12, up to 3 winners, weights to 4, products above 15 saturate; 9 counted operations, 2 to the second, rate 3, fee 1 | no cost exceeds the reward, and counting all the operations it bought costs all of it; the closed form is the loop; never overpaid; fully paid unless a product saturates; monotone in weight; the chain's balances are the ledger's sums |
| `ledger` | 3 accounts, 1 project, 2 tasks of rewards 1 and 2, a digest and a budget-exhausted one, quorum 2, at most 2 reports, lease of 2 ticks, 2 ticks | all ledger invariants and action properties under redundant execution, with rewards paid and burned |
| `consensus_stable` | worker, coordinator, worker in a star; 2 operations, 2 blocks, no link changes | the engines implement `ReplicatedLog` |
| `consensus_forks` | pair, 2 operations, 2 blocks, 3 link changes, fairness | certified chains; each operation once; forks share no voter, so conflicting blocks had quorums that fit the mesh together; only longer chains replace; laggards catch up |
| `consensus_rejoin` | pair, the coordinator restarts from its file or a torn one, or its user disconnects, 2 changes, fairness | only who restarted may have signed two blocks of one height; blocks that conflict under large quorums need a block it may have signed twice; laggards catch up |
| `mesh` | a hub, 2 workers, one of which may dial again while its old connection lasts, one operation, 2 breaks; fairness | only such a twin silences a link; members and operations reach every linked worker |
| `executors_done` | 2 workers, 2 tasks: code that never ends, and code that may end, panic or be given up; one worker's results are spoiled; leases of 1 tick; 2 requests a life; one worker may leave and return; fairness | a task is computed twice only under one lease or leases that end a term apart; as long as the log goes on and nobody has left, every task is closed, or stranded by a panic or a lost lease |
| `session` | channels of 2 and 2, batches of 2, 6 clicks, any role, bind failures; fairness | no executor lost or doubled; the quiet window is right; a disconnection is answered; nobody waits for ever (deadlock is checked) |

Why these bounds. *Payout*: three winners are the least among whom a remainder of
two is handed out by rank with ties; twelve times four exceeds fifteen, so that
products saturate in a part of the runs; the rates give quotients with and without
a remainder, and nine operations are more than the longest time bought, four seconds
of two. *Ledger*: two tasks let leases, queue and quota interact; three
accounts give two workers that disagree and an owner, or three workers when the
owner computes; two ticks with a lease of two let a lease expire after it was
renewed or taken again. Accounts are symmetric. *Consensus*: the star of three is
the smallest mesh in which a node relays, and in which a block waits for the votes of
two others, which arrive in any order (three nodes need all three votes, `quorum_for`
of 3 is 3; a quorum that leaves a node out needs four nodes); in a pair, a fork needs one link change and meeting again one more, and
the two seal with quorums of one, which is where votes of one height could be cast
twice; with one block, `consensus_rejoin` brings a coordinator back with no chain
or with all of it; larger meshes are what the theorems of section 5 are for;
the third change of `consensus_forks` is what lets a node receive a whole chain
that is no longer the longer one. `StableView` drops from the inbox only messages
that have no effect while membership is fixed; it is used by no run in which
links change. *Mesh*: two workers are
the least whose Hellos can cross, one return is the least with a twin, and two
breaks end both lives of it, or the first life and the other worker. *Executors*: two
requests a life let each worker ask for both tasks (`MaxNonce`); when both have
used theirs up, the instance is at its end, which `OutOfRequests` says. With a lease
of one tick the one Tick that a mempool takes (section 4) ends leases under their
workers, so tasks are lent again and late reports refused. Replicas lag by one
operation each; one departure. *Session*: two slots are the least in which a
channel can be full with more waiting, be it in the outbox or a batch; six clicks
connect, toggle twice, disconnect and connect again, or fill the queue in between.
The ledger that is deployed has quorum 1; a report then closes its task at once, which
the run has too, with weights of 2 and more, and the theorems hold for any quorum.

`CHECK_DEADLOCK FALSE` stands where the system may come to rest: all operations
committed, all link changes of the bound used, all tasks done, the loop of the
reward paid or burned, the links quiet.

Fairness. `Network` assumes none, all its properties are safety. `Consensus`
assumes that the timers of a node fire and that what reached it is handled,
which the tokio intervals and the reader tasks do; and that a whole chain that
has arrived is handled, because a link is FIFO and later answers cannot overtake
it for ever. It assumes no fairness of links, joins or operations:
`LaggardsCatchUp` speaks of periods in which all configured links are up, and of
nodes whose user has not disconnected.
`Mesh` assumes that connection tasks are scheduled and that the hub's sync timer
fires; nothing of the workers, so they may never dial, submit or sync.
`Executors` assumes what a node does by itself: that blocks reach the replicas of
the nodes that are up, and that the loops and the tick timer run; not that a worker
comes back. That pending operations are sealed is not assumed, for the code does not
guarantee it: a proposal with a quorum that has gone (`solo_progress`) or the slot of
a node that proposes no more (`stopped_proposer`) stalls the log. It is the hypothesis
`LogGoesOn` of `TasksGetDone`, which promises nothing either once a worker has
stopped; `lease_clock`, a violation, has it in its specification (`LoggedSpec`), so
that the lease lasts although the log goes on. That there is one log that only grows
is an abstraction: the engines are shown to implement it where nobody restarts
(`StableMembership`), and with departures it is assumed that no fork replaces
committed operations. `Session` assumes that frames are drawn, that a sender waiting
for room gets it (tokio hands permits out in order), that writes to sockets return,
and that `select!`, which picks at random, gets to a command that is there; it assumes
nothing of the user. A window that draws no frames, or a peer that reads nothing from
its socket, would hold the actor up; neither is modelled.

Numbers. Where a property is about saturation (`Rewards`, `RewardLoop`, `Estimator`,
the quota's subtraction) the machine's width is modelled. Everywhere else, balances,
quotas, reputations, the clock and ids are numbers without a bound: that a `u64` or
an `i128` of the ledger overflows is not modelled, and no property here speaks of it.

## 4. What the code does not do as it says

Four runs end in a violation, each of one property that states a sentence of the
repository; `PROJECT.json` quotes the sentence.

* `lease_clock`: the clock operation is always `Tick { n: 1 }`, and a mempool
  refuses an operation equal to a committed one. The replicated clock stops at 1;
  with a lease of 3 ticks no lease expires, and a worker that left keeps its task.
* `double_slash`: the slashes of one reclaim are all computed from the balance
  before any of them. A worker that loses two leases at once is burned below
  zero, and the next reward is swallowed by the debt.
* `solo_progress`: a node whose peer leaves after it proposed keeps the proposal,
  whose quorum is two, and never proposes again at that height.
* `stopped_proposer`: a disconnected node is to leave the proposer rotation when
  its links drop, but a disconnection drops none: the connection tasks run on, and
  the peers wait for proposals that the ended loop does not make. (Proposer failover
  is out of scope in the header of `consensus.rs`; that a node that went offline
  keeps no slot is what the comment on `active` says.)

Also met, without a run: a task pays its declared reward, and the measured cost is
stored and never read; a batch of more tasks than the command channel holds loses
the rest and is logged as submitted; a batch with a chunk size of zero never ends.

## 5. What is proved

For every value of the constants that satisfies the assumptions of the modules:
`ParticipantsAssumption` (finitely many accounts), `ConfigAssumption` (positive
lease, quorum and report limit; natural penalties),
`InputAssumption` (amounts are naturals), `MaxU64Assumption`, `RatesAssumption`
(rates are u64, the operations of a second positive), `LoopBoundsAssumption`,
`PayBoundsAssumption`, `SessionAssumption` (positive capacities), the
`MeshAssumption` of `Consensus` (finitely many nodes; links between two of them) and
`ExecutorsAssumption` (positive lease; tasks numbered from one). The bounds in the
guards are constants too, so a theorem holds for each value of them, however large.
Two theorems have a hypothesis of their own, on constants as well and met by the run
that checks the same property: `NoSaturation` and `StableMembership`, below. Every
safety invariant and every action property the passing runs check is a theorem.

| Theorem | States |
|---|---|
| `SharesBound`, `SharesExact` | what `distribute_reward` pays: at most the reward, and exactly it when no product saturates |
| `LoopComputesShares`, `LoopNeverOverpays`, `LoopPaysInFull`, `LoopIsMonotone` | `LoopIsShares`, `NeverOverpaid`, `FullyPaid`, `Monotone`, of the loop |
| `ReportsFitTheBudget` | `CostFitsBudget` |
| `BalancesFollowShares` | `ChainPaysShares` |
| `NetworkTypes`, `LifeCycleInvariant` | `TypeOK` of `Network`; types, leases, queue and reports, together inductive |
| `LeasesAreCurrent`, `LeasesMatchTasks`, `QueueMatchesTasks`, `ReportsAreDistinct`, `OpenTasksHaveRoom` | `NoExpiredLease`, `LeaseMatchesStatus`, `QueueMatchesStatus`, `OneReportPerWorker`, `ReportsBelowLimit` |
| `LockedQuotaIsOpenRewards`, `PromisesAreFunded` | `LockedIsOpenRewards`, `EscrowCoversQuota` |
| `OutcomesAreFinal`, `AcceptanceNeedsQuorum`, `LossesAreOwnActs` | `FinalStatusIsFinal`, `AcceptedByQuorum`, `WalletLossIsOwnAct` |
| `TokensComeFromRegistration` | `OnlyRegistrationMints` |
| `ReputationsAreEarned`, `RewardsLeaveWhole` | the bound on reputations, and under `NoSaturation` `EscrowPaysRewards` |
| `TypeCorrectness` | `TypeOK` of `Consensus` |
| `BlocksAreCertified`, `OperationsApplyOnce` | `ChainsAreCertified`, `OpsCommitOnce` |
| `OneVotePerHeight`, `ConflictingQuorums` | `ForksShareNoVoter`, `ConflictsNeedSmallQuorums` |
| `ForkChoiceByLength` | `OnlyLongerChainsReplace` |
| `LogRefinement` | under `StableMembership`, `ImplementsLog`: the refinement of `ReplicatedLog` |
| `MeshInvariant`, `SilenceTheorem`, `MembershipTheorem` | the inductive invariant of `Mesh`; `OnlyOverlapSilences`, `MembershipSpreads` |
| `ExecutorTypes`, `WorkIsExclusive` | `TypeOK` of `Executors`, `ExclusiveWork` |
| `SessionTypes`, `OneExecutor`, `QuietWindowsAreRight` | `TypeOK` of `Session`, `ExecutorIsOwned`, `QuietWindowIsRight`, for channels of any size |

*Ledger.* The life-cycle invariants lean on each other. That a heartbeat or a
report finds its task Assigned to the same worker needs leases and statuses to
agree; that a requeued task is not in the queue already needs the queue to agree
with the statuses; and that a lease never goes to a worker that reported needs both,
after the reclaim each operation starts with. `NoExpiredLease` needs a positive
lease timeout. Locked quota is the sum of the rewards of the open tasks: it has to
be proved first that the saturating subtraction never saturates, which follows
from the sum, since a reward of an open task is one of its terms. With it,
escrow covers quota because the shares of a reward never exceed the reward
(`SharesBound`) whatever the weights and whether or not products saturate.
`AcceptedByQuorum` counts distinct workers where the code counts reports; the two
sums are the same because reporters are distinct (`SumRenamed`). A sum is the
cardinality of a set of unit tokens (`TokenSums`), so its laws follow from those
of cardinality, with `FiniteSetInduction` as a first-order form of induction.
Balances can be negative, so `Supply` is a `NetSum`, what is owned less what is
owed. It does not grow because a step moves tokens between two accounts
(`NetUpdate`), lowers wallets (`NetPointwise`), or credits each winner once with
what leaves the escrow (`CreditsAreShares`, which needs that reporters are distinct).
`EscrowPaysRewards` is about the whole reward, so it needs `SharesExact`, and with it
that no product of a reward and a winner's reputation saturates. The bound on the
reputation is the inductive invariant `Reputed`: it starts at 1, only the step that
closes a task adds a `ReputationReward`, and a closed task is never open again
(`OutcomesAreFinal`), so 1 plus the reward for each closed task is never exceeded.
`NoSaturation` asks that the greatest reward times this bound, for all tasks there can
be, fits a u64. Beyond it the code pays less than the reward and the rest stays in
escrow; `SharesBound` is what is left then, and `payout` has such rewards.

*Losses.* `WalletLossIsOwnAct` compares the loss of a step with what the step is: a
transfer or a contribution of just that amount by the one who loses it, or slashes, as
many as leases it lost in the step. The bound needs that the leases the clock outruns
are finitely many and all taken from the table (`LostLeases`), and that in the other
handlers the reclaim finds nothing, since no lease is past its end between operations.

*Reward.* The loop's invariant says which winners got their extra token: those of a
rank below the number handed out. With it the finished loop is the closed form, and
its total and order follow from the theorems about shares. What an address holds is
a `NetSum` over the places of its transactions in all blocks. Appending a block adds
the sum over that block (the places before and after are two disjoint sets,
`Places` of the longer chain), and in the block of the winners an address other than
the project's is named once. `ChainInv` says which blocks the chain has before the
task is settled and after.

*Consensus.* The argument follows the signatures, in `ConsensusProofs`. `Safe(S)`
says that the set S of pairs of a block and a signer holds every vote that is
stored, saved, in a certificate or on its way, and that every chain, file and
message is certified and free of repeated operations. `Once(S)` says that a node
that does not restart has signed one block of each height in S, and still remembers
the votes of the heights its chain has not reached. The invariant is that some S
satisfies both; only a node's own vote adds to it. That the code forgets votes when a
block is appended or a chain adopted is safe because it forgets only those at or
below its new height. Quorums that conflict then share restarted nodes only, and
counting gives `ConflictsNeedSmallQuorums`.

*The refinement.* `StableMembership` says that the mesh is connected by the links it
starts with, that every node knows it, and that nothing breaks or restarts (a user may
disconnect); `consensus_stable` is such a mesh. `StableInv` adds that every block
stored or on its way has operations and the quorum of the whole mesh, that everybody
still counts, and that no chain on its way is longer than all replicas. Then two
blocks that conflict would have quorums that fit the mesh together, which
`ConflictsNeedSmallQuorums` says small ones do only, so any two chains are the
beginning of one another. The log is the longest of them; a step leaves the replicas
alone, lets one take blocks that another has (`CatchUp`), or makes the longest longer
by one block of operations that are in none before (`Seal`, by `OperationsApplyOnce`).

*Mesh.* What a task still has to do is the tail of one of four lists of steps.
`OnlyOverlapSilences` rests on `LinksInv`: a greeted connection that is open, and had
no twin, is the one the map of peers holds, and its worker counts or is about to;
the end of another connection can disturb that only if both were there at once, which
`TwinsOverlap` then records. `MembershipSpreads` is about a quiet hub; in between,
`NewsUnderWay` says that a validator the hub has heard of is known to a peer, or is
still to be told by the greeting of this peer or by the announcement of that
validator, whichever of the two tasks comes second.

*Executors.* The invariant says that there is a set G of all the leases there have
been (`History`): leases of one task in G end a term apart; the log's ledger shows,
of those in G, only leases that are not over and of tasks that are open (`Settled`);
and the state a replica is in lies on a path of ledgers, from its own to the log's by
the operations of its backlog, which show no leases but those of G. So whatever an
executor finds in its replica, however far that lags, it computes under a lease of G.
Only a step of the log adds to G, and a new lease ends a term after all that were
settled before it, because the task was nobody's (`NewLeases`).

*Session.* `ExecutorIsOwned` is inductive as it stands, given that the handle is a
Boolean: a handle is set only in the loop, so a worker that enters the loop has none.
`SessionTypes` rests on it, since only an executor that is there is subtracted.
`QuietWindowIsRight` says nothing while anything is on its way, so it needs what the
window will believe once everything has arrived: `Honest` says that this is the
truth about the actor, unless a command that is still queued will change it or a
toggle was dropped.

Model-checked only: liveness under fairness (`LaggardsCatchUp`, `OperationsSpread`,
`TasksGetDone`, `DisconnectIsAnswered`) is out of the prover's reach and stays with
TLC, as does the absence of deadlock in `session`; so do the four violations of
section 4, which are counterexamples.

## 6. What is not modelled

* Byzantine nodes: the header of `consensus.rs` puts view changes, proposer
  failover and equivocation out of scope, and the model has honest nodes only.
* Two engines of one key in one process, which may sign twice: `Mesh` has the two
  links of such a node, but no module its two engines.
* What a command becomes as an operation: `run_role_node` fills in the sender and
  submits it. The check of a donation before it is submitted is advice only (the
  ledger checks again), and two donations may pass it that cannot both be paid.
* `append_committed` and the hashes of the ledger's own chain: no node uses the one,
  and the other is the list of one process. `state_fingerprint` is compared by tests.
* `process_next_task` of `executor.rs`, called by tests only; `pre_estimate` and
  `detect_unbounded_python`, which look at the text of a payload for a preview; the
  sandbox's allow-list and the installation of packages.
* `run_p2p_node`: no window, command line or binary but the smoke test starts one,
  and its engine and mesh are those of `Consensus`.
* The Python environment, identity files, encodings, drawing and forms of the
  application, the command line: I/O, interpreters and layout.

## 7. Plan

Done in this order: the ledger and its proofs; the reward split; the consensus;
the executors; the session; the estimator and the payout; the mesh; the payloads;
the proofs of consensus, reward loop, executors and the window; the refinement of
the replicated log; the proofs of mesh, balances and escrow. Next, in order of weight:

1. `Payout` and `Network` joined: one completed task of `Network` is one run of
   `Payout`, as a theorem about their sums.
2. The safety half of the liveness properties: what a step of the mesh, of the
   executors and of a laggard never undoes.
3. Reorganisation and intents: which committed operations a longer chain loses, and
   equal transfers and overlapping donations, in a module over `Consensus`.
