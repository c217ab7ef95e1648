------------------------------ MODULE Network -------------------------------
(***************************************************************************)
(* The ledger state machine (network.rs, with the balances blockchain.rs   *)
(* keeps): accounts, project quotas, the task queue, leases, redundant     *)
(* reports, consensus on results, rewards, slashing.  Every replica runs   *)
(* it on the operations the block consensus orders; each action below is   *)
(* one operation, applied whole.                                           *)
(*                                                                         *)
(* Abstractions.  An account is a model value.  The chain is kept as the   *)
(* raw sums Blockchain::balance_of computes from it before clamping them:  *)
(* `wallet` for accounts, `escrow` for project addresses.  A result digest *)
(* is a model value, and the digests that contain "-budget-exhausted-" are *)
(* the set BudgetDigests.  The pending queue is a set, since the task with *)
(* the greatest (score, lowest id) is taken wherever it stands in it.  An  *)
(* operation that fails before it changes anything is a stuttering step.   *)
(***************************************************************************)
EXTENDS Rewards, Sequences, Functions

CONSTANTS
  Participants,          \* account ids, e.g. {o, w1, w2}
  Digests,               \* digests of ordinary results
  BudgetDigests,         \* digests that report an exhausted budget
  Costs,                 \* the actual_cost a worker may report
  LeaseTimeoutTicks,     \* the fields of NetworkConfig
  ConsensusQuorum,
  MaxReportsPerTask,
  LeaseSlash,
  ReputationReward,
  ReputationPenalty,
  InitialBalances,       \* inputs: what registration may mint
  Amounts,               \* inputs: amounts transferred, funded and donated
  TaskRewards,           \* inputs: rewards of tasks
  TickSteps,             \* inputs: the n of a Tick operation
  MaxProjects,           \* bound: project ids
  MaxTasks,              \* bound: task ids
  MaxTick                \* bound: the clock

\* Account ids are u64 numbers: only so many can register.
ASSUME ParticipantsAssumption == IsFiniteSet(Participants)

ASSUME ConfigAssumption ==
  /\ LeaseTimeoutTicks \in Nat \ {0}
  /\ ConsensusQuorum \in Nat \ {0}
  /\ MaxReportsPerTask \in Nat \ {0}
  /\ LeaseSlash \in Nat
  /\ ReputationReward \in Nat
  /\ ReputationPenalty \in Nat

ASSUME InputAssumption ==
  /\ InitialBalances \subseteq Nat
  /\ Amounts \subseteq Nat
  /\ TaskRewards \subseteq Nat
  /\ Costs \subseteq Nat
  /\ TickSteps \subseteq Nat
  /\ MaxProjects \in Nat /\ MaxTasks \in Nat /\ MaxTick \in Nat

VARIABLES
  registered,    \* the accounts in `participants`
  reputation,    \* Participant.reputation, 1 for an account not registered
  projects,      \* ProjectId -> Project, ids 1, 2, ...
  tasks,         \* TaskId -> Task, ids 1, 2, ...
  pending,       \* pending_tasks
  leases,        \* TaskId -> TaskLease
  currentTick,
  wallet,        \* raw chain balance of an account
  escrow         \* raw chain balance of a project address

vars == <<registered, reputation, projects, tasks, pending, leases,
          currentTick, wallet, escrow>>

-----------------------------------------------------------------------------
\* The data of the ledger.

ProjectIds == 1..MaxProjects
TaskIds    == 1..MaxTasks
AllDigests == Digests \cup BudgetDigests

Pending == [kind |-> "Pending"]
Assigned(w, e) == [kind |-> "Assigned", worker |-> w, expires |-> e]
Completed(d, ws) == [kind |-> "Completed", digest |-> d, workers |-> ws]
QuotaExhausted(d, ws) ==
  [kind |-> "QuotaExhausted", digest |-> d, workers |-> ws]
Rejected == [kind |-> "Rejected"]

Statuses ==
  {Pending, Rejected}
    \cup [kind : {"Assigned"}, worker : Participants, expires : Nat]
    \cup [kind : {"Completed", "QuotaExhausted"}, digest : AllDigests,
          workers : SUBSET Participants]

Reports == [worker : Participants, digest : AllDigests, cost : Costs]
Project == [owner : Participants, available : Nat, locked : Nat]
Task    == [project : ProjectIds, reward : TaskRewards,
            reports : Seq(Reports), status : Statuses]
Lease   == [worker : Participants, expires : Nat]

\* HashMap::insert and HashMap::remove of a set of keys.
Insert(f, k, v) == [x \in DOMAIN f \cup {k} |-> IF x = k THEN v ELSE f[x]]
Remove(f, ks) == Restrict(f, DOMAIN f \ ks)

MinOf(a, b) == IF a <= b THEN a ELSE b

\* balance_of clamps the raw sum at zero.
Clamp(raw) == IF raw < 0 THEN 0 ELSE raw
BalanceOf(a) == Clamp(wallet[a])

Penalized_NoFloor(r, n) == r - n                                \* mutant

\* adjust_reputation: a penalty never takes a reputation below 1.
Penalized(r, n) == IF r - n < 1 THEN 1 ELSE r - n

IsOpen(task) == task.status.kind \in {"Pending", "Assigned"}
Reporters(task) == {task.reports[i].worker : i \in DOMAIN task.reports}

-----------------------------------------------------------------------------
\* reclaim_expired_leases, at clock value `now`: the state it leaves behind.

Expired_Late(now) == {t \in DOMAIN leases : leases[t].expires < now} \* mutant
Expired(now) == {t \in DOMAIN leases : leases[t].expires <= now}

Reclaimed(now) ==
  {t \in Expired(now) \cap DOMAIN tasks : tasks[t].status.kind = "Assigned"}

LostBy_Owner(w, now) ==                                         \* mutant
  {t \in Reclaimed(now) : projects[tasks[t].project].owner = w}
LostBy(w, now) == {t \in Reclaimed(now) : leases[t].worker = w}

LeasesAfter_Kept(now) == leases                                 \* mutant
LeasesAfter(now) == Remove(leases, Expired(now))

TasksAfter(now) ==
  [t \in DOMAIN tasks |->
     IF t \in Reclaimed(now) THEN [tasks[t] EXCEPT !.status = Pending]
                             ELSE tasks[t]]

PendingAfter_NotRequeued(now) == pending                        \* mutant
PendingAfter(now) == pending \cup Reclaimed(now)

ReputationAfter(now) ==
  [a \in Participants |->
     Penalized(reputation[a], Cardinality(LostBy(a, now)) * ReputationPenalty)]

WalletAfter_Uncut(now) ==                                       \* mutant
  [a \in Participants |-> wallet[a] - Cardinality(LostBy(a, now)) * LeaseSlash]

\* The slashes are computed from the balance before any of them is committed:
\* a worker that loses several leases at once is slashed that often for it.
WalletAfter(now) ==
  [a \in Participants |->
     wallet[a] - Cardinality(LostBy(a, now)) * MinOf(LeaseSlash, BalanceOf(a))]

Reclaim(now) ==
  /\ leases' = LeasesAfter(now)
  /\ tasks' = TasksAfter(now)
  /\ pending' = PendingAfter(now)
  /\ reputation' = ReputationAfter(now)
  /\ wallet' = WalletAfter(now)

-----------------------------------------------------------------------------
Init ==
  /\ registered = {}
  /\ reputation = [a \in Participants |-> 1]
  /\ projects = <<>>
  /\ tasks = <<>>
  /\ pending = {}
  /\ leases = <<>>
  /\ currentTick = 0
  /\ wallet = [a \in Participants |-> 0]
  /\ escrow = [p \in ProjectIds |-> 0]

\* RegisterParticipant: a known id is a no-op, a new one is minted its balance.
RegisterParticipant(a, balance) ==
  /\ a \notin registered
  /\ registered' = registered \cup {a}
  /\ wallet' = [wallet EXCEPT ![a] = @ + balance]
  /\ UNCHANGED <<reputation, projects, tasks, pending, leases, currentTick,
                 escrow>>

NextProjectId == Cardinality(DOMAIN projects) + 1
NextTaskId == Cardinality(DOMAIN tasks) + 1

CreateProject(owner) ==
  /\ owner \in registered
  /\ NextProjectId <= MaxProjects
  /\ projects' = Insert(projects, NextProjectId,
                        [owner |-> owner, available |-> 0, locked |-> 0])
  /\ UNCHANGED <<registered, reputation, tasks, pending, leases, currentTick,
                 wallet, escrow>>

Transfer_Swapped(from, to, amount) ==                           \* mutant
  /\ BalanceOf(to) >= amount
  /\ wallet' = [[wallet EXCEPT ![to] = @ - amount] EXCEPT ![from] = @ + amount]
  /\ UNCHANGED <<registered, reputation, projects, tasks, pending, leases,
                 currentTick, escrow>>

\* Transfer between accounts; neither end has to be registered.
Transfer(from, to, amount) ==
  /\ BalanceOf(from) >= amount
  /\ wallet' = [[wallet EXCEPT ![from] = @ - amount] EXCEPT ![to] = @ + amount]
  /\ UNCHANGED <<registered, reputation, projects, tasks, pending, leases,
                 currentTick, escrow>>

\* Transfer addressed to a project's escrow: it buys the project no quota.
TransferToEscrow(from, p, amount) ==
  /\ BalanceOf(from) >= amount
  /\ wallet' = [wallet EXCEPT ![from] = @ - amount]
  /\ escrow' = [escrow EXCEPT ![p] = @ + amount]
  /\ UNCHANGED <<registered, reputation, projects, tasks, pending, leases,
                 currentTick>>

\* DonateToProject.
DonateToProject(supporter, p, amount) ==
  /\ supporter \in registered
  /\ p \in DOMAIN projects
  /\ BalanceOf(supporter) >= amount
  /\ wallet' = [wallet EXCEPT ![supporter] = @ - amount]
  /\ escrow' = [escrow EXCEPT ![p] = @ + amount]
  /\ projects' = [projects EXCEPT ![p].available = @ + amount]
  /\ UNCHANGED <<registered, reputation, tasks, pending, leases, currentTick>>

\* ensure_project_owner.
OwnsProject(a, p) == p \in DOMAIN projects /\ projects[p].owner = a

\* FundProject: a donation only the owner may make.
FundProject(owner, p, amount) ==
  /\ OwnsProject(owner, p)
  /\ DonateToProject(owner, p, amount)

\* reserve_project_quota: the reward moves from available to locked quota.
ReserveQuota(p, reward) ==
  /\ projects[p].available >= reward
  /\ projects' = [projects EXCEPT ![p].available = @ - reward,
                                  ![p].locked = @ + reward]

SubmitTask(owner, p, reward) ==
  /\ NextTaskId <= MaxTasks
  /\ OwnsProject(owner, p)
  /\ ReserveQuota(p, reward)
  /\ tasks' = Insert(tasks, NextTaskId,
                     [project |-> p, reward |-> reward, reports |-> <<>>,
                      status |-> Pending])
  /\ pending' = pending \cup {NextTaskId}
  /\ UNCHANGED <<registered, reputation, leases, currentTick, wallet, escrow>>

-----------------------------------------------------------------------------
\* take_next_task_for, after the reclaim at `now`.

Offers_AnyWorker(w, now) ==                                     \* mutant
  {t \in PendingAfter(now) \cap DOMAIN tasks :
     TasksAfter(now)[t].status.kind = "Pending"}
Offers(w, now) ==
  {t \in PendingAfter(now) \cap DOMAIN tasks :
     /\ TasksAfter(now)[t].status.kind = "Pending"
     /\ w \notin Reporters(tasks[t])}

Score(t) == LET p == tasks[t].project
            IN  projects[p].available + projects[p].locked

Preferred(t, u) == Score(t) > Score(u) \/ (Score(t) = Score(u) /\ t <= u)

LeaseEnd == currentTick + LeaseTimeoutTicks

RequestTask(w) ==
  /\ w \in registered
  /\ \E t \in Offers(w, currentTick) :
       /\ \A u \in Offers(w, currentTick) : Preferred(t, u)
       /\ pending' = PendingAfter(currentTick) \ {t}
       /\ leases' = Insert(LeasesAfter(currentTick), t,
                           [worker |-> w, expires |-> LeaseEnd])
       /\ tasks' = [TasksAfter(currentTick) EXCEPT
                      ![t].status = Assigned(w, LeaseEnd)]
  /\ reputation' = ReputationAfter(currentTick)
  /\ wallet' = WalletAfter(currentTick)
  /\ UNCHANGED <<registered, projects, currentTick, escrow>>

\* The lease is w's own once the expired ones are reclaimed.
HoldsLease(w, t) ==
  /\ w \in registered
  /\ t \in DOMAIN LeasesAfter(currentTick)
  /\ leases[t].worker = w

\* RequestTask, SubmitResult and heartbeat that fail have reclaimed already.
Refused(w) ==
  /\ w \in registered
  /\ \/ Offers(w, currentTick) = {}
     \/ \E t \in TaskIds : ~HoldsLease(w, t)
  /\ Reclaim(currentTick)
  /\ UNCHANGED <<registered, projects, currentTick, escrow>>

Heartbeat(w, t) ==
  /\ HoldsLease(w, t)
  /\ leases' = [LeasesAfter(currentTick) EXCEPT ![t].expires = LeaseEnd]
  /\ tasks' = [TasksAfter(currentTick) EXCEPT ![t].status = Assigned(w, LeaseEnd)]
  /\ pending' = PendingAfter(currentTick)
  /\ reputation' = ReputationAfter(currentTick)
  /\ wallet' = WalletAfter(currentTick)
  /\ UNCHANGED <<registered, projects, currentTick, escrow>>

-----------------------------------------------------------------------------
\* submit_result.  `rs` are the task's reports with the new one at the end, and
\* `rep` the reputations at that moment, whenever the reports were made.

DigestWeight_AnyDigest(rs, rep, i) ==                           \* mutant
  Sum(1..i, [j \in 1..i |-> rep[rs[j].worker]])

\* The weight behind the digest of report i among the first i reports.
DigestWeight(rs, rep, i) ==
  LET same == {j \in 1..i : rs[j].digest = rs[i].digest}
  IN  Sum(same, [j \in same |-> rep[rs[j].worker]])

\* The reports that carry their digest over the required weight; consensus_digest
\* accepts the digest of the first of them.
Crossing(rs, rep) ==
  {i \in DOMAIN rs : DigestWeight(rs, rep, i) >= ConsensusQuorum}

AcceptedDigest(rs, rep) ==
  rs[CHOOSE i \in Crossing(rs, rep) : \A j \in Crossing(rs, rep) : i <= j].digest

Winners(rs, d) == {i \in DOMAIN rs : rs[i].digest = d}
WorkersOf(rs, is) == {rs[i].worker : i \in is}

\* The report of w on its task t; Submitted is what every outcome has in common.
NewReports(w, t, d, c) ==
  Append(tasks[t].reports, [worker |-> w, digest |-> d, cost |-> c])

Submitted_KeepsLease(w, t) ==                                   \* mutant
  /\ HoldsLease(w, t)
  /\ leases' = LeasesAfter(currentTick)
  /\ UNCHANGED <<registered, currentTick>>

Submitted(w, t) ==
  /\ HoldsLease(w, t)
  /\ leases' = Remove(LeasesAfter(currentTick), {t})
  /\ UNCHANGED <<registered, currentTick>>

ReportsFull_Late(rs) == Len(rs) > MaxReportsPerTask             \* mutant
ReportsFull(rs) == Len(rs) >= MaxReportsPerTask

\* release_locked_quota, and the refund of a rejected task.
ReleaseLocked_Refunds(p, r) ==                                  \* mutant
  [projects EXCEPT ![p].locked = SatSub(@, r), ![p].available = @ + r]
ReleaseLocked(p, r) == [projects EXCEPT ![p].locked = SatSub(@, r)]

Refunded_KeepsLocked(p, r) == [projects EXCEPT ![p].available = @ + r]  \* mutant
Refunded(p, r) == [ReleaseLocked(p, r) EXCEPT ![p].available = @ + r]

CloseTask(t, rs, status) ==
  /\ tasks' = [TasksAfter(currentTick) EXCEPT ![t].reports = rs,
                                              ![t].status = status]
  /\ pending' = PendingAfter(currentTick)

CreditOf_Unsplit(a, rs, winners, shares) ==                     \* mutant
  IF a \in WorkersOf(rs, winners) THEN Sum(winners, shares) ELSE 0

\* The reward transfers addressed to account a.
CreditOf(a, rs, winners, shares) ==
  Sum({i \in winners : rs[i].worker = a}, shares)

\* finalize_task: the winners share the reward out of the project's escrow.
CompleteTask(w, t, d, c) ==
  LET rs  == NewReports(w, t, d, c)
      rep == ReputationAfter(currentTick)
      p   == tasks[t].project
      accepted == AcceptedDigest(rs, rep)
      winners == Winners(rs, accepted)
      shares == Shares(tasks[t].reward, [i \in winners |-> rep[rs[i].worker]])
      losers == WorkersOf(rs, DOMAIN rs \ winners)
  IN  /\ Submitted(w, t)
      /\ Crossing(rs, rep) # {}
      /\ accepted \notin BudgetDigests
      /\ CloseTask(t, rs, Completed(accepted, WorkersOf(rs, winners)))
      /\ projects' = ReleaseLocked(p, tasks[t].reward)
      /\ escrow' = [escrow EXCEPT ![p] = @ - Sum(winners, shares)]
      /\ wallet' = [a \in Participants |->
                      WalletAfter(currentTick)[a]
                        + CreditOf(a, rs, winners, shares)]
      /\ reputation' = [a \in Participants |->
                          IF a \in WorkersOf(rs, winners)
                            THEN rep[a] + ReputationReward
                          ELSE IF a \in losers
                            THEN Penalized(rep[a], ReputationPenalty)
                          ELSE rep[a]]

Burned_AllLocked(p, r) == [escrow EXCEPT ![p] = @ - projects[p].locked]  \* mutant
Burned(p, r) == [escrow EXCEPT ![p] = @ - r]

\* finalize_budget_exhausted_task: the reward is burned, nobody is rewarded.
ExhaustTask(w, t, d, c) ==
  LET rs  == NewReports(w, t, d, c)
      rep == ReputationAfter(currentTick)
      p   == tasks[t].project
      accepted == AcceptedDigest(rs, rep)
  IN  /\ Submitted(w, t)
      /\ Crossing(rs, rep) # {}
      /\ accepted \in BudgetDigests
      /\ CloseTask(t, rs, QuotaExhausted(accepted,
                                         WorkersOf(rs, Winners(rs, accepted))))
      /\ projects' = ReleaseLocked(p, tasks[t].reward)
      /\ escrow' = Burned(p, tasks[t].reward)
      /\ wallet' = WalletAfter(currentTick)
      /\ reputation' = rep

\* reject_task: no digest found enough weight within max_reports; the reward is
\* available again and every reporter is penalized.
RejectTask(w, t, d, c) ==
  LET rs  == NewReports(w, t, d, c)
      rep == ReputationAfter(currentTick)
      p   == tasks[t].project
  IN  /\ Submitted(w, t)
      /\ Crossing(rs, rep) = {}
      /\ ReportsFull(rs)
      /\ CloseTask(t, rs, Rejected)
      /\ projects' = Refunded(p, tasks[t].reward)
      /\ wallet' = WalletAfter(currentTick)
      /\ reputation' = [a \in Participants |->
                          IF a \in WorkersOf(rs, DOMAIN rs)
                            THEN Penalized(rep[a], ReputationPenalty)
                            ELSE rep[a]]
      /\ UNCHANGED escrow

\* return_task_to_queue: more reports are needed.
RequeueTask(w, t, d, c) ==
  LET rs  == NewReports(w, t, d, c)
      rep == ReputationAfter(currentTick)
  IN  /\ Submitted(w, t)
      /\ Crossing(rs, rep) = {}
      /\ ~ReportsFull(rs)
      /\ tasks' = [TasksAfter(currentTick) EXCEPT ![t].reports = rs,
                                                  ![t].status = Pending]
      /\ pending' = PendingAfter(currentTick) \cup {t}
      /\ wallet' = WalletAfter(currentTick)
      /\ reputation' = rep
      /\ UNCHANGED <<projects, escrow>>

\* SubmitResult.
SubmitResult(w, t, d, c) ==
  \/ CompleteTask(w, t, d, c)
  \/ ExhaustTask(w, t, d, c)
  \/ RejectTask(w, t, d, c)
  \/ RequeueTask(w, t, d, c)

\* Tick: the clock moves, then the leases it outran are reclaimed.
Tick(n) ==
  /\ currentTick + n <= MaxTick
  /\ currentTick' = currentTick + n
  /\ Reclaim(currentTick + n)
  /\ UNCHANGED <<registered, projects, escrow>>

Next ==
  \/ \E a \in Participants, b \in InitialBalances : RegisterParticipant(a, b)
  \/ \E a \in Participants : CreateProject(a)
  \/ \E a, b \in Participants, m \in Amounts : Transfer(a, b, m)
  \/ \E a \in Participants, p \in ProjectIds, m \in Amounts :
       \/ TransferToEscrow(a, p, m)
       \/ DonateToProject(a, p, m)
       \/ FundProject(a, p, m)
  \/ \E a \in Participants, p \in ProjectIds, r \in TaskRewards :
       SubmitTask(a, p, r)
  \/ \E w \in Participants : RequestTask(w)
  \/ \E w \in Participants : Refused(w)
  \/ \E w \in Participants, t \in TaskIds : Heartbeat(w, t)
  \/ \E w \in Participants, t \in TaskIds, d \in AllDigests, c \in Costs :
       SubmitResult(w, t, d, c)
  \/ \E n \in TickSteps : Tick(n)

Spec == Init /\ [][Next]_vars

-----------------------------------------------------------------------------
\* What the ledger promises.

\* Every variable has the shape its Rust type gives it.
TypeOK ==
  /\ registered \subseteq Participants
  /\ reputation \in [Participants -> Nat \ {0}]
  /\ \E n \in 0..MaxProjects : DOMAIN projects = 1..n
  /\ projects \in [DOMAIN projects -> Project]
  /\ \E n \in 0..MaxTasks : DOMAIN tasks = 1..n
  /\ tasks \in [DOMAIN tasks -> Task]
  /\ \A t \in DOMAIN tasks : tasks[t].project \in DOMAIN projects
  /\ pending \subseteq DOMAIN tasks
  /\ DOMAIN leases \subseteq DOMAIN tasks
  /\ leases \in [DOMAIN leases -> Lease]
  /\ currentTick \in Nat
  /\ wallet \in [Participants -> Int]
  /\ escrow \in [ProjectIds -> Int]

\* The lease table and the task statuses, which separate handlers update, tell
\* one story: a task is leased exactly while it is Assigned, to the worker and
\* until the tick its status shows, and never to a worker that already reported.
LeaseMatchesStatus ==
  /\ DOMAIN leases = {t \in DOMAIN tasks : tasks[t].status.kind = "Assigned"}
  /\ \A t \in DOMAIN leases :
       /\ tasks[t].status = Assigned(leases[t].worker, leases[t].expires)
       /\ leases[t].worker \notin Reporters(tasks[t])

\* No open task is lost: a task waits in the queue exactly while it is Pending,
\* whichever way it got back there (new, lease expired, more reports needed).
QueueMatchesStatus ==
  pending = {t \in DOMAIN tasks : tasks[t].status.kind = "Pending"}

\* Between operations no lease is past its end.  It is why an operation that
\* fails after its reclaim still leaves the state unchanged, as the comment on
\* apply_op claims.
NoExpiredLease == \A t \in DOMAIN leases : leases[t].expires > currentTick

\* However often a task is leased again, a worker's weight counts once for it.
OneReportPerWorker ==
  \A t \in DOMAIN tasks : \A i, j \in DOMAIN tasks[t].reports :
    tasks[t].reports[i].worker = tasks[t].reports[j].worker => i = j

\* A task that is still open has room for another report.
ReportsBelowLimit ==
  \A t \in DOMAIN tasks :
    IsOpen(tasks[t]) => Len(tasks[t].reports) < MaxReportsPerTask

OpenTasks(p) ==
  {t \in DOMAIN tasks : tasks[t].project = p /\ IsOpen(tasks[t])}

RewardOf == [t \in DOMAIN tasks |-> tasks[t].reward]

\* A project's locked quota is the sum of the rewards of its open tasks: every
\* outcome of a task releases its reward once, and the saturating subtraction
\* in release_locked_quota never hides a double release.
LockedIsOpenRewards ==
  \A p \in DOMAIN projects : projects[p].locked = Sum(OpenTasks(p), RewardOf)

\* The quota a project may spend is backed by tokens in its escrow, so every
\* reward the ledger promised can be paid.
EscrowCoversQuota ==
  /\ \A p \in DOMAIN projects :
       projects[p].available + projects[p].locked <= escrow[p]
  /\ \A p \in ProjectIds : escrow[p] >= 0

Supply == NetSum(Participants, wallet) + NetSum(ProjectIds, escrow)

Closes(t) == t \in DOMAIN tasks /\ IsOpen(tasks[t]) /\ ~IsOpen(tasks'[t])

\* A closed task keeps its outcome: no late result, expiry or heartbeat reopens
\* or rewrites it.
FinalStatusIsFinal ==
  [][\A t \in DOMAIN tasks : ~IsOpen(tasks[t]) => tasks'[t] = tasks[t]]_vars

\* Escrow leaves a project only as the whole reward of one of its tasks, paid
\* or burned in the step that closes the task.
EscrowPaysRewards ==
  [][\A p \in ProjectIds : escrow'[p] < escrow[p] =>
       \E t \in DOMAIN tasks :
         /\ Closes(t)
         /\ tasks[t].project = p
         /\ tasks'[t].status.kind \in {"Completed", "QuotaExhausted"}
         /\ escrow[p] - escrow'[p] = tasks[t].reward]_vars

\* Only registration mints: no transfer, reward, refund or slash leaves more
\* tokens in the ledger than before.
OnlyRegistrationMints == [][registered' = registered => Supply' <= Supply]_vars

\* A digest is accepted only when distinct workers who reported it, the last
\* reporter's choice notwithstanding, bring the required weight together.
AcceptedByQuorum ==
  [][\A t \in DOMAIN tasks :
       Closes(t) /\ tasks'[t].status.kind \in {"Completed", "QuotaExhausted"} =>
         LET st == tasks'[t].status
         IN  /\ st.workers = {w \in Reporters(tasks'[t]) :
                  \E i \in DOMAIN tasks'[t].reports :
                     /\ tasks'[t].reports[i].worker = w
                     /\ tasks'[t].reports[i].digest = st.digest}
             /\ Sum(st.workers, reputation) >= ConsensusQuorum]_vars

\* The operations by which an account gives m of its own tokens away.
Spends(a, m) ==
  \/ \E b \in Participants : Transfer(a, b, m)
  \/ \E p \in ProjectIds : TransferToEscrow(a, p, m) \/ DonateToProject(a, p, m)

\* The leases of a that this step ends because they have run out.
LeasesLost(a) ==
  {t \in DOMAIN leases : /\ leases[t].worker = a
                         /\ leases[t].expires <= currentTick'
                         /\ t \notin DOMAIN leases'}

\* A wallet shrinks only by what its own owner gives away, which never overdraws
\* it, or by slashes: one for every lease its owner let run out, none above the
\* configured slash or above the balance there was.  (Several at once may still
\* take more than that balance.)  Nobody pays for another's transfer or lease.
WalletLossIsOwnAct ==
  [][\A a \in Participants : wallet'[a] < wallet[a] =>
       LET loss == wallet[a] - wallet'[a]
       IN  \/ loss \in Amounts /\ Spends(a, loss) /\ wallet'[a] >= 0
           \/ loss <= Cardinality(LeasesLost(a)) * MinOf(LeaseSlash, BalanceOf(a))]_vars

-----------------------------------------------------------------------------
\* What the repository says of the ledger and the code does not do.

\* The reward of a completed task increases its worker's balance
\* (task_reward_increases_worker_balance_on_chain).  A worker whose raw balance
\* two slashes of one reclaim took below zero is paid into that debt.
RewardIsCredited ==
  [][\A t \in DOMAIN tasks, a \in Participants :
       Closes(t) /\ tasks'[t].status.kind = "Completed"
         /\ tasks'[t].status.workers = {a} =>
           Clamp(wallet'[a]) = BalanceOf(a) + tasks[t].reward]_vars

=============================================================================
