--------------------------- MODULE NetworkProofs ----------------------------
(***************************************************************************)
(* Theorems about the ledger of module Network, for every value of its     *)
(* constants.                                                              *)
(***************************************************************************)
EXTENDS Network, RewardsProofs, WellFoundedInduction

\* The configuration and the inputs, as the leaves below cite them.
USE ConfigAssumption, InputAssumption

-----------------------------------------------------------------------------
\* Tasks and their statuses.

\* What every status the code builds is, and which of them leave a task open.
LEMMA StatusFacts ==
  /\ Pending \in Statuses /\ Pending.kind = "Pending"
  /\ Rejected \in Statuses /\ Rejected.kind = "Rejected"
  /\ \A w \in Participants, e \in Nat :
       /\ Assigned(w, e) \in Statuses
       /\ Assigned(w, e).kind = "Assigned"
       /\ Assigned(w, e).worker = w
       /\ Assigned(w, e).expires = e
  /\ \A d \in AllDigests, ws \in SUBSET Participants :
       /\ Completed(d, ws) \in Statuses
       /\ Completed(d, ws).kind = "Completed"
       /\ QuotaExhausted(d, ws) \in Statuses
       /\ QuotaExhausted(d, ws).kind = "QuotaExhausted"
<1>1. /\ Pending \in Statuses /\ Pending.kind = "Pending"
      /\ Rejected \in Statuses /\ Rejected.kind = "Rejected"
  BY DEF Statuses, Pending, Rejected
<1>2. \A w \in Participants, e \in Nat :
        /\ Assigned(w, e) \in Statuses
        /\ Assigned(w, e).kind = "Assigned"
        /\ Assigned(w, e).worker = w
        /\ Assigned(w, e).expires = e
  BY DEF Statuses, Assigned
<1>3. \A d \in AllDigests, ws \in SUBSET Participants :
        /\ Completed(d, ws) \in Statuses
        /\ Completed(d, ws).kind = "Completed"
        /\ QuotaExhausted(d, ws) \in Statuses
        /\ QuotaExhausted(d, ws).kind = "QuotaExhausted"
  BY DEF Statuses, Completed, QuotaExhausted
<1>. QED BY <1>1, <1>2, <1>3

\* The fields of a typed task, and of one whose status or reports are replaced.
LEMMA TaskFacts ==
  ASSUME NEW task \in Task
  PROVE  /\ task.project \in ProjectIds
         /\ task.reward \in TaskRewards
         /\ task.reports \in Seq(Reports)
         /\ task.status \in Statuses
         /\ \A st \in Statuses :
              /\ [task EXCEPT !.status = st] \in Task
              /\ [task EXCEPT !.status = st].status = st
              /\ [task EXCEPT !.status = st].project = task.project
              /\ [task EXCEPT !.status = st].reward = task.reward
              /\ [task EXCEPT !.status = st].reports = task.reports
         /\ \A st \in Statuses, rs \in Seq(Reports) :
              /\ [task EXCEPT !.reports = rs, !.status = st] \in Task
              /\ [task EXCEPT !.reports = rs, !.status = st].status = st
              /\ [task EXCEPT !.reports = rs, !.status = st].project = task.project
              /\ [task EXCEPT !.reports = rs, !.status = st].reward = task.reward
              /\ [task EXCEPT !.reports = rs, !.status = st].reports = rs
BY DEF Task

\* The fields of a typed project, and of one whose quotas are replaced.
LEMMA ProjectFacts ==
  ASSUME NEW q \in Project
  PROVE  /\ q.available \in Nat /\ q.locked \in Nat /\ q.owner \in Participants
         /\ \A v \in Nat :
              /\ [q EXCEPT !.available = v] \in Project
              /\ [q EXCEPT !.available = v].available = v
              /\ [q EXCEPT !.available = v].locked = q.locked
              /\ [q EXCEPT !.locked = v] \in Project
              /\ [q EXCEPT !.locked = v].locked = v
              /\ [q EXCEPT !.locked = v].available = q.available
BY DEF Project

-----------------------------------------------------------------------------
\* Identifiers.

\* The ids of tasks are 1..n, so the next one is n + 1.
LEMMA NextTaskIdFacts ==
  ASSUME TypeOK
  PROVE  /\ NextTaskId \in Nat \ {0}
         /\ NextTaskId \notin DOMAIN tasks
         /\ DOMAIN tasks \cup {NextTaskId} = 1..NextTaskId
         /\ IsFiniteSet(DOMAIN tasks)
         /\ DOMAIN tasks \subseteq Nat
<1>1. PICK n \in 0..MaxTasks : DOMAIN tasks = 1..n
  BY DEF TypeOK
<1>2. n \in Int /\ n \in Nat /\ 1 \in Int
  OBVIOUS
<1>3. IsFiniteSet(1..n) /\ Cardinality(1..n) = IF 1 > n THEN 0 ELSE n - 1 + 1
  BY <1>2, FS_Interval
<1>4. Cardinality(DOMAIN tasks) = n
  BY <1>1, <1>2, <1>3
<1>5. NextTaskId = n + 1
  BY <1>4 DEF NextTaskId
<1>. QED BY <1>1, <1>2, <1>3, <1>5

\* The same of projects.
LEMMA NextProjectIdFacts ==
  ASSUME TypeOK
  PROVE  /\ NextProjectId \in Nat \ {0}
         /\ NextProjectId \notin DOMAIN projects
         /\ DOMAIN projects \cup {NextProjectId} = 1..NextProjectId
         /\ DOMAIN projects \subseteq ProjectIds
<1>1. PICK n \in 0..MaxProjects : DOMAIN projects = 1..n
  BY DEF TypeOK
<1>2. n \in Int /\ n \in Nat /\ 1 \in Int
  OBVIOUS
<1>3. IsFiniteSet(1..n) /\ Cardinality(1..n) = IF 1 > n THEN 0 ELSE n - 1 + 1
  BY <1>2, FS_Interval
<1>4. Cardinality(DOMAIN projects) = n
  BY <1>1, <1>2, <1>3
<1>5. NextProjectId = n + 1
  BY <1>4 DEF NextProjectId
<1>. QED BY <1>1, <1>2, <1>3, <1>5 DEF ProjectIds

-----------------------------------------------------------------------------
\* The reclaim of expired leases.

\* What a reclaim leaves behind is well typed, whatever the clock says.
LEMMA ReclaimTypes ==
  ASSUME TypeOK, NEW now \in Nat
  PROVE  /\ LeasesAfter(now) \in [DOMAIN leases \ Expired(now) -> Lease]
         /\ Reclaimed(now) \subseteq DOMAIN tasks
         /\ TasksAfter(now) \in [DOMAIN tasks -> Task]
         /\ PendingAfter(now) \subseteq DOMAIN tasks
         /\ ReputationAfter(now) \in [Participants -> Nat \ {0}]
         /\ WalletAfter(now) \in [Participants -> Int]
<1>1. LeasesAfter(now) \in [DOMAIN leases \ Expired(now) -> Lease]
  BY DEF TypeOK, LeasesAfter, Remove, Restrict
<1>2. Reclaimed(now) \subseteq DOMAIN tasks
  BY DEF Reclaimed
<1>3. TasksAfter(now) \in [DOMAIN tasks -> Task]
  <2>1. \A t \in DOMAIN tasks : tasks[t] \in Task
    BY DEF TypeOK
  <2>2. \A t \in DOMAIN tasks : [tasks[t] EXCEPT !.status = Pending] \in Task
    BY <2>1, StatusFacts, TaskFacts
  <2>. QED BY <2>1, <2>2, Zenon DEF TasksAfter
<1>4. PendingAfter(now) \subseteq DOMAIN tasks
  BY <1>2 DEF TypeOK, PendingAfter
<1>5. \A a \in Participants : Cardinality(LostBy(a, now)) \in Nat
  <2> TAKE a \in Participants
  <2>1. IsFiniteSet(DOMAIN tasks)
    BY NextTaskIdFacts
  <2>2. LostBy(a, now) \in SUBSET DOMAIN tasks
    BY <1>2 DEF LostBy
  <2>3. IsFiniteSet(LostBy(a, now))
    BY <2>1, <2>2, FS_Subset
  <2>. QED BY <2>3, FS_CardinalityType
<1>6. ReputationAfter(now) \in [Participants -> Nat \ {0}]
  <2>1. \A n, p \in Nat : n * p \in Nat
    OBVIOUS
  <2>2. \A r \in Nat \ {0}, n \in Nat : Penalized(r, n) \in Nat \ {0}
    BY DEF Penalized
  <2>3. ReputationPenalty \in Nat
    OBVIOUS
  <2>4. \A a \in Participants : reputation[a] \in Nat \ {0}
    BY DEF TypeOK
  <2>. QED BY <1>5, <2>1, <2>2, <2>3, <2>4, Zenon DEF ReputationAfter
<1>7. WalletAfter(now) \in [Participants -> Int]
  <2>1. \A a \in Participants : wallet[a] \in Int
    BY DEF TypeOK
  <2>2. \A a \in Participants : MinOf(LeaseSlash, BalanceOf(a)) \in Nat
    BY <2>1 DEF MinOf, BalanceOf, Clamp
  <2>3. \A n \in Nat, p \in Nat, v \in Int : v - n * p \in Int
    OBVIOUS
  <2>. QED BY <1>5, <2>1, <2>2, <2>3, Zenon DEF WalletAfter
<1>. QED BY <1>1, <1>2, <1>3, <1>4, <1>6, <1>7

\* Where no lease is past its end, a reclaim changes nothing.
LEMMA NothingToReclaim ==
  ASSUME TypeOK, NoExpiredLease
  PROVE  /\ LeasesAfter(currentTick) = leases
         /\ TasksAfter(currentTick) = tasks
         /\ PendingAfter(currentTick) = pending
         /\ ReputationAfter(currentTick) = reputation
         /\ WalletAfter(currentTick) = wallet
<1>1. Expired(currentTick) = {}
  BY DEF TypeOK, NoExpiredLease, Expired, Lease
<1>2. Reclaimed(currentTick) = {}
  BY <1>1 DEF Reclaimed
<1>3. \A a \in Participants : Cardinality(LostBy(a, currentTick)) = 0
  BY <1>2, FS_EmptySet DEF LostBy
<1>4. LeasesAfter(currentTick) = leases
  <2>1. DOMAIN leases \ Expired(currentTick) = DOMAIN leases
    BY <1>1
  <2>. QED BY <2>1 DEF TypeOK, LeasesAfter, Remove, Restrict
<1>5. TasksAfter(currentTick) = tasks
  BY <1>2 DEF TypeOK, TasksAfter
<1>6. PendingAfter(currentTick) = pending
  BY <1>2 DEF PendingAfter
<1>7. ReputationAfter(currentTick) = reputation
  <2>1. \A a \in Participants : Penalized(reputation[a], 0 * ReputationPenalty) = reputation[a]
    BY DEF TypeOK, Penalized
  <2>2. ReputationAfter(currentTick) = [a \in Participants |-> reputation[a]]
    BY <1>3, <2>1, Zenon DEF ReputationAfter
  <2>. QED BY <2>2 DEF TypeOK
<1>8. WalletAfter(currentTick) = wallet
  <2>1. \A a \in Participants : MinOf(LeaseSlash, BalanceOf(a)) \in Nat
    BY DEF TypeOK, MinOf, BalanceOf, Clamp
  <2>2. \A a \in Participants :
          wallet[a] - 0 * MinOf(LeaseSlash, BalanceOf(a)) = wallet[a]
    BY <2>1 DEF TypeOK
  <2>3. WalletAfter(currentTick) = [a \in Participants |-> wallet[a]]
    BY <1>3, <2>2, Zenon DEF WalletAfter
  <2>. QED BY <2>3 DEF TypeOK
<1>. QED BY <1>4, <1>5, <1>6, <1>7, <1>8

-----------------------------------------------------------------------------
\* The task table stays consistent with the leases and the queue.

\* The inductive invariant of the task life cycle.  None of its parts is
\* inductive alone: that a reclaim between ticks does nothing needs
\* NoExpiredLease, that a report finds its task Assigned needs
\* LeaseMatchesStatus, and so on.
LifeCycle ==
  /\ TypeOK
  /\ LeaseMatchesStatus
  /\ QueueMatchesStatus
  /\ NoExpiredLease
  /\ OneReportPerWorker
  /\ ReportsBelowLimit

LEMMA LifeCycleInit == Init => LifeCycle
<1> SUFFICES ASSUME Init PROVE LifeCycle
  OBVIOUS
<1>1. DOMAIN tasks = {} /\ DOMAIN projects = {} /\ DOMAIN leases = {}
  BY DEF Init
<1>2. 0 \in 0..MaxTasks /\ 0 \in 0..MaxProjects /\ 1..0 = {}
  OBVIOUS
<1>3. TypeOK
  BY <1>1, <1>2, SMTT(60) DEF Init, TypeOK
<1>. QED
  BY <1>1, <1>3 DEF Init, LifeCycle, LeaseMatchesStatus, QueueMatchesStatus,
     NoExpiredLease, OneReportPerWorker, ReportsBelowLimit

\* A step that touches neither tasks, leases, queue nor clock has only the
\* types of the accounts and projects to keep.
LEMMA AccountStep ==
  ASSUME LifeCycle, UNCHANGED <<tasks, pending, leases, currentTick>>,
         registered' \subseteq Participants,
         reputation' \in [Participants -> Nat \ {0}],
         \E n \in 0..MaxProjects : DOMAIN projects' = 1..n,
         projects' \in [DOMAIN projects' -> Project],
         DOMAIN projects \subseteq DOMAIN projects',
         wallet' \in [Participants -> Int],
         escrow' \in [ProjectIds -> Int]
  PROVE  LifeCycle'
<1>1. TypeOK'
  BY DEF LifeCycle, TypeOK
<1>2. LeaseMatchesStatus' /\ QueueMatchesStatus' /\ NoExpiredLease'
        /\ OneReportPerWorker' /\ ReportsBelowLimit'
  BY DEF LifeCycle, LeaseMatchesStatus, QueueMatchesStatus, NoExpiredLease,
         OneReportPerWorker, ReportsBelowLimit, Reporters, IsOpen
<1>. QED BY <1>1, <1>2 DEF LifeCycle

\* Amounts are naturals, and balances integers.
LEMMA AccountTypes ==
  ASSUME LifeCycle
  PROVE  /\ registered \subseteq Participants
         /\ reputation \in [Participants -> Nat \ {0}]
         /\ \E n \in 0..MaxProjects : DOMAIN projects = 1..n
         /\ DOMAIN projects \subseteq ProjectIds
         /\ projects \in [DOMAIN projects -> Project]
         /\ wallet \in [Participants -> Int]
         /\ escrow \in [ProjectIds -> Int]
BY NextProjectIdFacts DEF LifeCycle, TypeOK

LEMMA RegisterParticipantLifeCycle ==
  ASSUME LifeCycle, NEW a \in Participants, NEW b \in InitialBalances,
         RegisterParticipant(a, b)
  PROVE  LifeCycle'
<1>1. wallet' \in [Participants -> Int]
  BY AccountTypes DEF RegisterParticipant
<1>. QED BY <1>1, AccountTypes, AccountStep DEF RegisterParticipant

LEMMA CreateProjectLifeCycle ==
  ASSUME LifeCycle, NEW a \in Participants, CreateProject(a)
  PROVE  LifeCycle'
<1> DEFINE p == [owner |-> a, available |-> 0, locked |-> 0]
<1>1. p \in Project
  BY DEF Project
<1>2. projects' = Insert(projects, NextProjectId, p)
  BY DEF CreateProject
<1>3. /\ NextProjectId \in Nat \ {0}
      /\ DOMAIN projects \cup {NextProjectId} = 1..NextProjectId
      /\ NextProjectId <= MaxProjects
  BY NextProjectIdFacts DEF LifeCycle, CreateProject
<1> HIDE DEF p
<1>4. DOMAIN projects' = DOMAIN projects \cup {NextProjectId}
  BY <1>2 DEF Insert
<1>5. projects' \in [DOMAIN projects' -> Project]
  BY <1>1, <1>2, <1>4, AccountTypes DEF Insert
<1>6. \E n \in 0..MaxProjects : DOMAIN projects' = 1..n
  BY <1>3, <1>4
<1>7. DOMAIN projects \subseteq DOMAIN projects'
  BY <1>4
<1>. QED BY <1>5, <1>6, <1>7, AccountTypes, AccountStep DEF CreateProject

LEMMA TransferLifeCycle ==
  ASSUME LifeCycle, NEW a \in Participants, NEW b \in Participants,
         NEW m \in Amounts, Transfer(a, b, m)
  PROVE  LifeCycle'
<1>1. wallet' \in [Participants -> Int]
  BY AccountTypes, SMTT(60) DEF Transfer
<1>. QED BY <1>1, AccountTypes, AccountStep DEF Transfer

LEMMA TransferToEscrowLifeCycle ==
  ASSUME LifeCycle, NEW a \in Participants, NEW p \in ProjectIds,
         NEW m \in Amounts, TransferToEscrow(a, p, m)
  PROVE  LifeCycle'
<1>1. wallet' \in [Participants -> Int] /\ escrow' \in [ProjectIds -> Int]
  BY AccountTypes, SMTT(60) DEF TransferToEscrow
<1>. QED BY <1>1, AccountTypes, AccountStep DEF TransferToEscrow

LEMMA DonateToProjectLifeCycle ==
  ASSUME LifeCycle, NEW a \in Participants, NEW p \in ProjectIds,
         NEW m \in Amounts, DonateToProject(a, p, m)
  PROVE  LifeCycle'
<1>1. wallet' \in [Participants -> Int] /\ escrow' \in [ProjectIds -> Int]
  BY AccountTypes, SMTT(60) DEF DonateToProject
<1>2. DOMAIN projects' = DOMAIN projects
  BY AccountTypes DEF DonateToProject
<1>3. projects' \in [DOMAIN projects -> Project]
  <2>1. p \in DOMAIN projects /\ projects[p] \in Project
    BY AccountTypes DEF DonateToProject
  <2>2. m \in Nat
    OBVIOUS
  <2>3. [projects[p] EXCEPT !.available = projects[p].available + m] \in Project
    <3>1. projects[p].available + m \in Nat
      BY <2>1, <2>2, ProjectFacts
    <3>. QED BY <2>1, <3>1, ProjectFacts
  <2>4. projects' = [projects EXCEPT ![p] =
                       [projects[p] EXCEPT !.available = projects[p].available + m]]
    BY DEF DonateToProject
  <2>. QED BY <2>1, <2>3, <2>4, AccountTypes
<1>. QED BY <1>1, <1>2, <1>3, AccountTypes, AccountStep DEF DonateToProject

-----------------------------------------------------------------------------
\* The handlers that move tasks.

\* The task table with one task's reports and status replaced.
Replaced(t, rs, st) == [tasks EXCEPT ![t].reports = rs, ![t].status = st]

LEMMA TaskUpdate ==
  ASSUME TypeOK, NEW t \in DOMAIN tasks, NEW st \in Statuses,
         NEW rs \in Seq(Reports)
  PROVE  /\ DOMAIN Replaced(t, rs, st) = DOMAIN tasks
         /\ Replaced(t, rs, st) \in [DOMAIN tasks -> Task]
         /\ \A u \in DOMAIN tasks : u # t => Replaced(t, rs, st)[u] = tasks[u]
         /\ Replaced(t, rs, st)[t].project = tasks[t].project
         /\ Replaced(t, rs, st)[t].reward = tasks[t].reward
         /\ Replaced(t, rs, st)[t].reports = rs
         /\ Replaced(t, rs, st)[t].status = st
<1> DEFINE n == [tasks[t] EXCEPT !.reports = rs, !.status = st]
<1>1. tasks[t] \in Task
  BY DEF TypeOK
<1>2. /\ n \in Task
      /\ n.project = tasks[t].project
      /\ n.reward = tasks[t].reward
      /\ n.reports = rs
      /\ n.status = st
  BY <1>1 DEF Task
<1>3. Replaced(t, rs, st) = [tasks EXCEPT ![t] = n]
  BY DEF TypeOK, Replaced
<1> HIDE DEF n
<1>. QED BY <1>2, <1>3 DEF TypeOK

\* Replacing one task's status alone.
LEMMA StatusUpdate ==
  ASSUME TypeOK, NEW t \in DOMAIN tasks, NEW st \in Statuses,
         tasks' = [tasks EXCEPT ![t].status = st]
  PROVE  /\ DOMAIN tasks' = DOMAIN tasks
         /\ tasks' \in [DOMAIN tasks -> Task]
         /\ \A u \in DOMAIN tasks : u # t => tasks'[u] = tasks[u]
         /\ tasks'[t].project = tasks[t].project
         /\ tasks'[t].reward = tasks[t].reward
         /\ tasks'[t].reports = tasks[t].reports
         /\ tasks'[t].status = st
<1> DEFINE n == [tasks[t] EXCEPT !.status = st]
<1>1. tasks[t] \in Task
  BY DEF TypeOK
<1>2. /\ n \in Task
      /\ n.project = tasks[t].project
      /\ n.reward = tasks[t].reward
      /\ n.reports = tasks[t].reports
      /\ n.status = st
  BY <1>1 DEF Task
<1>3. tasks' = [tasks EXCEPT ![t] = n]
  BY DEF TypeOK
<1> HIDE DEF n
<1>. QED BY <1>2, <1>3, ZenonT(60) DEF TypeOK

\* The task-table part of the invariant, task by task: what a task alone must
\* satisfy, given the queue and the leases.
TaskOK(t) ==
  /\ (t \in pending) <=> (tasks[t].status.kind = "Pending")
  /\ (t \in DOMAIN leases) <=> (tasks[t].status.kind = "Assigned")
  /\ t \in DOMAIN leases =>
       /\ tasks[t].status = Assigned(leases[t].worker, leases[t].expires)
       /\ leases[t].worker \notin Reporters(tasks[t])
       /\ leases[t].expires > currentTick
  /\ \A i, j \in DOMAIN tasks[t].reports :
       tasks[t].reports[i].worker = tasks[t].reports[j].worker => i = j
  /\ IsOpen(tasks[t]) => Len(tasks[t].reports) < MaxReportsPerTask

LEMMA LifeCycleByTask ==
  LifeCycle <=> TypeOK /\ \A t \in DOMAIN tasks : TaskOK(t)
BY DEF LifeCycle, TypeOK, TaskOK, LeaseMatchesStatus, QueueMatchesStatus,
       NoExpiredLease, OneReportPerWorker, ReportsBelowLimit

\* The same of the next state, as the handlers establish it.
LEMMA LifeCycleNext ==
  ASSUME TypeOK', \A t \in DOMAIN tasks' : TaskOK(t)'
  PROVE  LifeCycle'
<1>1. LeaseMatchesStatus'
  BY DEF TypeOK, TaskOK, LeaseMatchesStatus
<1>2. QueueMatchesStatus'
  BY DEF TypeOK, TaskOK, QueueMatchesStatus
<1>3. NoExpiredLease'
  BY DEF TypeOK, TaskOK, NoExpiredLease
<1>4. OneReportPerWorker' /\ ReportsBelowLimit'
  BY DEF TaskOK, OneReportPerWorker, ReportsBelowLimit
<1>. QED BY <1>1, <1>2, <1>3, <1>4 DEF LifeCycle

\* What holds of the other tasks when a handler changes only task t.
LEMMA OtherTasksOK ==
  ASSUME NEW t, NEW u, TaskOK(u), u # t,
         tasks'[u] = tasks[u],
         u \in pending' <=> u \in pending,
         u \in DOMAIN leases' <=> u \in DOMAIN leases,
         u \in DOMAIN leases => leases'[u] = leases[u],
         currentTick' = currentTick
  PROVE  TaskOK(u)'
BY DEF TaskOK, Reporters, IsOpen

LEMMA LeaseEndFacts ==
  ASSUME LifeCycle
  PROVE  LeaseEnd \in Nat /\ LeaseEnd > currentTick
BY DEF LifeCycle, TypeOK, LeaseEnd

LEMMA SubmitTaskLifeCycle ==
  ASSUME LifeCycle, NEW a \in Participants, NEW p \in ProjectIds,
         NEW r \in TaskRewards, SubmitTask(a, p, r)
  PROVE  LifeCycle'
<1> DEFINE n == [project |-> p, reward |-> r, reports |-> <<>>, status |-> Pending]
<1>0. PICK id : id = NextTaskId
  OBVIOUS
<1>1. TypeOK /\ \A u \in DOMAIN tasks : TaskOK(u)
  BY LifeCycleByTask
<1>2. /\ id \in Nat \ {0} /\ id \notin DOMAIN tasks
      /\ DOMAIN tasks \cup {id} = 1..id /\ id <= MaxTasks
  BY <1>0, <1>1, NextTaskIdFacts DEF SubmitTask
<1>3. n \in Task /\ n.reports = <<>> /\ n.status = Pending /\ n.project = p
  BY StatusFacts DEF Task
<1>4. tasks' = Insert(tasks, id, n) /\ pending' = pending \cup {id}
  BY <1>0 DEF SubmitTask
<1> HIDE DEF n
<1>5. /\ DOMAIN tasks' = DOMAIN tasks \cup {id}
      /\ tasks'[id] = n
      /\ \A u \in DOMAIN tasks : tasks'[u] = tasks[u]
  BY <1>2, <1>4 DEF Insert
<1>6. /\ DOMAIN projects' = DOMAIN projects
      /\ projects' \in [DOMAIN projects -> Project]
  <2>1. p \in DOMAIN projects /\ projects[p] \in Project /\ r \in Nat
        /\ projects[p].available >= r
    BY AccountTypes DEF SubmitTask, OwnsProject, ReserveQuota
  <2>2. /\ projects[p].available - r \in Nat /\ projects[p].locked + r \in Nat
    BY <2>1, ProjectFacts
  <2>3. [projects[p] EXCEPT !.available = projects[p].available - r,
                            !.locked = projects[p].locked + r] \in Project
    BY <2>1, <2>2 DEF Project
  <2>4. projects' = [projects EXCEPT ![p] =
          [projects[p] EXCEPT !.available = projects[p].available - r,
                              !.locked = projects[p].locked + r]]
    BY AccountTypes DEF SubmitTask, OwnsProject, ReserveQuota
  <2>. QED BY <2>1, <2>3, <2>4, AccountTypes
<1>7. TypeOK'
  <2>1. tasks' \in [DOMAIN tasks' -> Task]
    BY <1>1, <1>3, <1>4, <1>5 DEF TypeOK, Insert
  <2>2. \E k \in 0..MaxTasks : DOMAIN tasks' = 1..k
    BY <1>2, <1>5
  <2>3. \A u \in DOMAIN tasks' : tasks'[u].project \in DOMAIN projects'
    BY <1>1, <1>3, <1>5, <1>6 DEF TypeOK, SubmitTask, OwnsProject
  <2>4. pending' \subseteq DOMAIN tasks' /\ DOMAIN leases' \subseteq DOMAIN tasks'
    BY <1>1, <1>4, <1>5 DEF TypeOK, SubmitTask
  <2>. QED BY <1>1, <1>6, <2>1, <2>2, <2>3, <2>4 DEF TypeOK, SubmitTask
<1>8. ASSUME NEW u \in DOMAIN tasks PROVE TaskOK(u)'
  <2>1. u # id /\ (u \in pending' <=> u \in pending)
    BY <1>2, <1>4
  <2>. QED BY <1>1, <1>5, <2>1, OtherTasksOK DEF SubmitTask
<1>9. TaskOK(id)'
  <2>1. id \notin DOMAIN leases'
    BY <1>1, <1>2 DEF TypeOK, SubmitTask
  <2>2. id \in pending' /\ tasks'[id].status = Pending /\ tasks'[id].reports = <<>>
    BY <1>3, <1>4, <1>5
  <2>3. Pending.kind = "Pending" /\ Len(<<>>) < MaxReportsPerTask
    BY StatusFacts
  <2>. QED BY <2>1, <2>2, <2>3 DEF TaskOK
<1>10. \A u \in DOMAIN tasks' : TaskOK(u)'
  BY <1>5, <1>8, <1>9
<1>. QED BY <1>7, <1>10, LifeCycleNext

LEMMA RequestTaskLifeCycle ==
  ASSUME LifeCycle, NEW w \in Participants, RequestTask(w)
  PROVE  LifeCycle'
<1>1. TypeOK /\ NoExpiredLease /\ \A u \in DOMAIN tasks : TaskOK(u)
  BY LifeCycleByTask DEF LifeCycle
<1>2. PICK t \in Offers(w, currentTick) :
        /\ pending' = pending \ {t}
        /\ leases' = Insert(leases, t, [worker |-> w, expires |-> LeaseEnd])
        /\ tasks' = [tasks EXCEPT ![t].status = Assigned(w, LeaseEnd)]
  BY <1>1, NothingToReclaim DEF RequestTask
<1>3. /\ t \in DOMAIN tasks /\ t \in pending
      /\ tasks[t].status.kind = "Pending" /\ w \notin Reporters(tasks[t])
  BY <1>1, NothingToReclaim DEF Offers
<1>4. LeaseEnd \in Nat /\ LeaseEnd > currentTick
  BY LeaseEndFacts
<1>5. /\ Assigned(w, LeaseEnd) \in Statuses
      /\ Assigned(w, LeaseEnd).kind = "Assigned"
  BY <1>4, StatusFacts
<1>6. /\ DOMAIN tasks' = DOMAIN tasks
      /\ tasks' \in [DOMAIN tasks -> Task]
      /\ \A u \in DOMAIN tasks : u # t => tasks'[u] = tasks[u]
      /\ tasks'[t].project = tasks[t].project
      /\ tasks'[t].reports = tasks[t].reports
      /\ tasks'[t].status = Assigned(w, LeaseEnd)
  BY <1>1, <1>2, <1>3, <1>5, StatusUpdate
<1>7. /\ DOMAIN leases' = DOMAIN leases \cup {t}
      /\ leases'[t] = [worker |-> w, expires |-> LeaseEnd]
      /\ \A u \in DOMAIN leases : u # t => leases'[u] = leases[u]
      /\ leases' \in [DOMAIN leases' -> Lease]
  BY <1>1, <1>2, <1>4 DEF Insert, TypeOK, Lease
<1>8. UNCHANGED <<registered, projects, currentTick, escrow, reputation, wallet>>
  BY <1>1, NothingToReclaim DEF RequestTask
<1>9. TypeOK'
  <2>1. \A u \in DOMAIN tasks' : tasks'[u].project \in DOMAIN projects'
    BY <1>1, <1>6, <1>8 DEF TypeOK
  <2>. QED BY <1>1, <1>2, <1>3, <1>6, <1>7, <1>8, <2>1 DEF TypeOK
<1>10. ASSUME NEW u \in DOMAIN tasks, u # t PROVE TaskOK(u)'
  <2>1. u \in pending' <=> u \in pending
    BY <1>2, <1>10
  <2>2. u \in DOMAIN leases' <=> u \in DOMAIN leases
    BY <1>7, <1>10
  <2>. QED BY <1>1, <1>6, <1>7, <1>8, <1>10, <2>1, <2>2, OtherTasksOK
<1>11. TaskOK(t)'
  <2>1. Reporters(tasks[t])' = Reporters(tasks[t])
    BY <1>6 DEF Reporters
  <2>2. IsOpen(tasks[t])
    BY <1>3 DEF IsOpen
  <2>. QED
    BY <1>1, <1>2, <1>3, <1>4, <1>5, <1>6, <1>7, <1>8, <2>1, <2>2, SMTT(60) DEF TaskOK
<1>12. \A u \in DOMAIN tasks' : TaskOK(u)'
  BY <1>6, <1>10, <1>11
<1>. QED BY <1>9, <1>12, LifeCycleNext

LEMMA FundProjectLifeCycle ==
  ASSUME LifeCycle, NEW a \in Participants, NEW p \in ProjectIds,
         NEW m \in Amounts, FundProject(a, p, m)
  PROVE  LifeCycle'
BY DonateToProjectLifeCycle DEF FundProject

\* A refused operation has nothing left to reclaim: it changes nothing.
LEMMA RefusedLifeCycle ==
  ASSUME LifeCycle, NEW w \in Participants, Refused(w)
  PROVE  LifeCycle'
<1>1. UNCHANGED vars
  BY NothingToReclaim DEF LifeCycle, Refused, Reclaim, vars
<1>. QED BY <1>1, SMTT(30) DEF vars, LifeCycle, TypeOK, LeaseMatchesStatus,
     QueueMatchesStatus, NoExpiredLease, OneReportPerWorker, ReportsBelowLimit,
     Reporters, IsOpen

\* The holder of a lease works on an Assigned task it has not yet reported on.
LEMMA HoldsLeaseFacts ==
  ASSUME LifeCycle, NEW w \in Participants, NEW t, HoldsLease(w, t)
  PROVE  /\ t \in DOMAIN tasks /\ t \in DOMAIN leases /\ t \notin pending
         /\ leases[t].worker = w
         /\ tasks[t].status.kind = "Assigned"
         /\ w \notin Reporters(tasks[t])
         /\ Len(tasks[t].reports) < MaxReportsPerTask
<1>1. t \in DOMAIN leases /\ leases[t].worker = w
  BY NothingToReclaim DEF LifeCycle, HoldsLease
<1>2. t \in DOMAIN tasks /\ tasks[t].status.kind = "Assigned"
  BY <1>1 DEF LifeCycle, LeaseMatchesStatus
<1>3. t \notin pending
  BY <1>2 DEF LifeCycle, QueueMatchesStatus
<1>4. w \notin Reporters(tasks[t])
  BY <1>1 DEF LifeCycle, LeaseMatchesStatus
<1>5. Len(tasks[t].reports) < MaxReportsPerTask
  BY <1>2 DEF LifeCycle, ReportsBelowLimit, IsOpen
<1>. QED BY <1>1, <1>2, <1>3, <1>4, <1>5

LEMMA HeartbeatLifeCycle ==
  ASSUME LifeCycle, NEW w \in Participants, NEW t, Heartbeat(w, t)
  PROVE  LifeCycle'
<1>1. TypeOK /\ NoExpiredLease /\ \A u \in DOMAIN tasks : TaskOK(u)
  BY LifeCycleByTask DEF LifeCycle
<1>2. /\ leases' = [leases EXCEPT ![t].expires = LeaseEnd]
      /\ tasks' = [tasks EXCEPT ![t].status = Assigned(w, LeaseEnd)]
      /\ UNCHANGED <<pending, registered, projects, currentTick, escrow,
                     reputation, wallet>>
  BY <1>1, NothingToReclaim DEF Heartbeat
<1>3. /\ t \in DOMAIN tasks /\ t \in DOMAIN leases /\ t \notin pending
      /\ leases[t].worker = w
      /\ tasks[t].status.kind = "Assigned" /\ w \notin Reporters(tasks[t])
  BY HoldsLeaseFacts DEF Heartbeat
<1>4. LeaseEnd \in Nat /\ LeaseEnd > currentTick
  BY LeaseEndFacts
<1>5. /\ Assigned(w, LeaseEnd) \in Statuses
      /\ Assigned(w, LeaseEnd).kind = "Assigned"
  BY <1>4, StatusFacts
<1>6. /\ DOMAIN tasks' = DOMAIN tasks
      /\ tasks' \in [DOMAIN tasks -> Task]
      /\ \A u \in DOMAIN tasks : u # t => tasks'[u] = tasks[u]
      /\ tasks'[t].project = tasks[t].project
      /\ tasks'[t].reports = tasks[t].reports
      /\ tasks'[t].status = Assigned(w, LeaseEnd)
  BY <1>1, <1>2, <1>3, <1>5, StatusUpdate
<1>7. /\ DOMAIN leases' = DOMAIN leases
      /\ leases'[t].worker = w /\ leases'[t].expires = LeaseEnd
      /\ \A u \in DOMAIN leases : u # t => leases'[u] = leases[u]
      /\ leases' \in [DOMAIN leases' -> Lease]
  <2> DEFINE l == [leases[t] EXCEPT !.expires = LeaseEnd]
  <2>1. leases[t] \in Lease
    BY <1>1, <1>3 DEF TypeOK
  <2>2. l \in Lease /\ l.worker = w /\ l.expires = LeaseEnd
    BY <1>3, <1>4, <2>1 DEF Lease
  <2>3. leases' = [leases EXCEPT ![t] = l]
    BY <1>1, <1>2 DEF TypeOK
  <2> HIDE DEF l
  <2>. QED BY <1>1, <1>3, <2>2, <2>3 DEF TypeOK
<1>8. TypeOK'
  <2>1. \A u \in DOMAIN tasks' : tasks'[u].project \in DOMAIN projects'
    BY <1>1, <1>2, <1>6 DEF TypeOK
  <2>. QED BY <1>1, <1>2, <1>3, <1>6, <1>7, <2>1 DEF TypeOK
<1>9. ASSUME NEW u \in DOMAIN tasks, u # t PROVE TaskOK(u)'
  <2>1. u \in pending' <=> u \in pending
    BY <1>2
  <2>2. u \in DOMAIN leases' <=> u \in DOMAIN leases
    BY <1>7
  <2>. QED BY <1>1, <1>2, <1>6, <1>7, <1>9, <2>1, <2>2, OtherTasksOK
<1>10. TaskOK(t)'
  <2>1. Reporters(tasks[t])' = Reporters(tasks[t])
    BY <1>6 DEF Reporters
  <2>2. IsOpen(tasks[t])
    BY <1>3 DEF IsOpen
  <2>. QED
    BY <1>1, <1>2, <1>3, <1>4, <1>5, <1>6, <1>7, <2>1, <2>2, SMTT(60) DEF TaskOK
<1>11. \A u \in DOMAIN tasks' : TaskOK(u)'
  BY <1>6, <1>9, <1>10
<1>. QED BY <1>8, <1>11, LifeCycleNext

-----------------------------------------------------------------------------
\* Submitting a result.

\* The list of reports grows by one, of a worker that had not reported.
LEMMA NewReportsFacts ==
  ASSUME LifeCycle, NEW w \in Participants, NEW t, NEW d \in AllDigests,
         NEW c \in Costs, HoldsLease(w, t)
  PROVE  /\ NewReports(w, t, d, c) \in Seq(Reports)
         /\ Len(NewReports(w, t, d, c)) = Len(tasks[t].reports) + 1
         /\ \A i, j \in DOMAIN NewReports(w, t, d, c) :
              NewReports(w, t, d, c)[i].worker = NewReports(w, t, d, c)[j].worker
                => i = j
<1> DEFINE old == tasks[t].reports
<1> DEFINE r == [worker |-> w, digest |-> d, cost |-> c]
<1> DEFINE rs == NewReports(w, t, d, c)
<1>1. t \in DOMAIN tasks /\ w \notin Reporters(tasks[t])
  BY HoldsLeaseFacts
<1>2. tasks[t] \in Task
  BY <1>1 DEF LifeCycle, TypeOK
<1>3. old \in Seq(Reports)
  BY <1>2, TaskFacts
<1>4. r \in Reports /\ r.worker = w
  BY DEF Reports
<1>5. rs = Append(old, r)
  BY DEF NewReports
<1>6. \A i, j \in DOMAIN old : old[i].worker = old[j].worker => i = j
  BY <1>1 DEF LifeCycle, OneReportPerWorker
<1>7. \A i \in DOMAIN old : old[i].worker # w
  BY <1>1 DEF Reporters
<1> HIDE DEF old, r, rs
<1>8. /\ rs \in Seq(Reports) /\ Len(rs) = Len(old) + 1
      /\ DOMAIN rs = 1..(Len(old) + 1) /\ DOMAIN old = 1..Len(old)
      /\ rs[Len(old) + 1] = r
      /\ \A i \in DOMAIN old : rs[i] = old[i]
  BY <1>3, <1>4, <1>5
<1>9. \A i, j \in DOMAIN rs : rs[i].worker = rs[j].worker => i = j
  <2> SUFFICES ASSUME NEW i \in DOMAIN rs, NEW j \in DOMAIN rs,
                      rs[i].worker = rs[j].worker
               PROVE  i = j
    OBVIOUS
  <2>1. Len(old) \in Nat
    BY <1>3
  <2>2. (i \in DOMAIN old \/ i = Len(old) + 1) /\ (j \in DOMAIN old \/ j = Len(old) + 1)
    BY <1>8, <2>1
  <2>. QED BY <1>4, <1>6, <1>7, <1>8, <2>2
<1>. QED BY <1>8, <1>9 DEF old, rs

\* Whatever becomes of the task: its lease is gone, and either it is closed, or
\* it waits in the queue with room for another report.
LEMMA SubmittedLifeCycle ==
  ASSUME LifeCycle, NEW w \in Participants, NEW t, NEW d \in AllDigests,
         NEW c \in Costs, NEW st \in Statuses, Submitted(w, t),
         tasks' = Replaced(t, NewReports(w, t, d, c), st),
         \/ st.kind \notin {"Pending", "Assigned"} /\ pending' = pending
         \/ /\ st = Pending
            /\ pending' = pending \cup {t}
            /\ ~ReportsFull(NewReports(w, t, d, c)),
         DOMAIN projects' = DOMAIN projects,
         projects' \in [DOMAIN projects -> Project],
         reputation' \in [Participants -> Nat \ {0}],
         wallet' \in [Participants -> Int],
         escrow' \in [ProjectIds -> Int]
  PROVE  LifeCycle'
<1>1. TypeOK /\ NoExpiredLease /\ \A u \in DOMAIN tasks : TaskOK(u)
  BY LifeCycleByTask DEF LifeCycle
<1>2. HoldsLease(w, t)
  BY DEF Submitted
<1>3. t \in DOMAIN tasks /\ t \in DOMAIN leases /\ t \notin pending
  BY <1>2, HoldsLeaseFacts
<1>4. PICK rs : rs = NewReports(w, t, d, c)
  OBVIOUS
<1>5. /\ rs \in Seq(Reports)
      /\ \A i, j \in DOMAIN rs : rs[i].worker = rs[j].worker => i = j
      /\ Len(rs) \in Nat
  BY <1>2, <1>4, NewReportsFacts
<1>6. /\ DOMAIN tasks' = DOMAIN tasks
      /\ tasks' \in [DOMAIN tasks -> Task]
      /\ \A u \in DOMAIN tasks : u # t => tasks'[u] = tasks[u]
      /\ tasks'[t].project = tasks[t].project
      /\ tasks'[t].reports = rs
      /\ tasks'[t].status = st
  <2>1. tasks' = Replaced(t, rs, st)
    BY <1>4
  <2>. QED BY <1>1, <1>3, <1>5, <2>1, TaskUpdate
<1>7. leases' = Remove(leases, {t}) /\ UNCHANGED <<registered, currentTick>>
  BY <1>1, NothingToReclaim DEF Submitted
<1>8. /\ DOMAIN leases' = DOMAIN leases \ {t}
      /\ \A u \in DOMAIN leases : u # t => leases'[u] = leases[u]
      /\ leases' \in [DOMAIN leases' -> Lease]
  BY <1>1, <1>7 DEF TypeOK, Remove, Restrict
<1>9. TypeOK'
  <2>1. \A u \in DOMAIN tasks' : tasks'[u].project \in DOMAIN projects'
    BY <1>1, <1>6 DEF TypeOK
  <2>2. pending' \subseteq DOMAIN tasks'
    BY <1>1, <1>3, <1>6 DEF TypeOK
  <2>. QED BY <1>1, <1>6, <1>7, <1>8, <2>1, <2>2 DEF TypeOK
<1>10. ASSUME NEW u \in DOMAIN tasks, u # t PROVE TaskOK(u)'
  <2>1. u \in pending' <=> u \in pending
    BY <1>10
  <2>2. u \in DOMAIN leases' <=> u \in DOMAIN leases
    BY <1>8, <1>10
  <2>. QED BY <1>1, <1>6, <1>7, <1>8, <1>10, <2>1, <2>2, OtherTasksOK
<1>11. TaskOK(t)'
  <2>1. t \notin DOMAIN leases'
    BY <1>8
  <2>2. Pending.kind = "Pending"
    BY StatusFacts
  <2>3. CASE st.kind \notin {"Pending", "Assigned"} /\ pending' = pending
    BY <1>3, <1>5, <1>6, <2>1, <2>3 DEF TaskOK, IsOpen
  <2>4. CASE /\ st = Pending
             /\ pending' = pending \cup {t}
             /\ ~ReportsFull(rs)
    <3>1. Len(rs) < MaxReportsPerTask
      BY <1>5, <2>4 DEF ReportsFull
    <3>. QED BY <1>5, <1>6, <2>1, <2>2, <2>4, <3>1 DEF TaskOK
  <2>. QED BY <1>4, <2>3, <2>4
<1>12. \A u \in DOMAIN tasks' : TaskOK(u)'
  BY <1>6, <1>10, <1>11
<1>. QED BY <1>9, <1>12, LifeCycleNext

\* Releasing or refunding locked quota keeps the projects well typed.
LEMMA ReleaseTypes ==
  ASSUME LifeCycle, NEW p \in DOMAIN projects, NEW r \in Nat
  PROVE  /\ DOMAIN ReleaseLocked(p, r) = DOMAIN projects
         /\ ReleaseLocked(p, r) \in [DOMAIN projects -> Project]
         /\ DOMAIN Refunded(p, r) = DOMAIN projects
         /\ Refunded(p, r) \in [DOMAIN projects -> Project]
<1> DEFINE q == [projects[p] EXCEPT !.locked = SatSub(projects[p].locked, r)]
<1> DEFINE s == [q EXCEPT !.available = projects[p].available + r]
<1>1. projects \in [DOMAIN projects -> Project] /\ projects[p] \in Project
  BY AccountTypes
<1>2. SatSub(projects[p].locked, r) \in Nat /\ projects[p].available + r \in Nat
  BY <1>1, ProjectFacts DEF SatSub
<1>3. q \in Project /\ q.available = projects[p].available
  BY <1>1, <1>2, ProjectFacts
<1>4. s \in Project
  BY <1>2, <1>3, ProjectFacts
<1>5. ReleaseLocked(p, r) = [projects EXCEPT ![p] = q]
  BY DEF ReleaseLocked
<1>6. Refunded(p, r) = [projects EXCEPT ![p] = s]
  BY <1>1, <1>3, <1>5 DEF Refunded
<1> HIDE DEF q, s
<1>. QED BY <1>1, <1>3, <1>4, <1>5, <1>6

\* A set of naturals has a least member.
LEMMA LeastMember ==
  ASSUME NEW S \in SUBSET Nat, S # {}
  PROVE  \E i \in S : \A j \in S : i <= j
<1>1. PICK i \in S : \A j \in S : ~(<<j, i>> \in OpToRel(<, Nat))
  <2>1. IsWellFoundedOn(OpToRel(<, Nat), Nat)
    BY NatLessThanWellFounded
  <2>. QED BY <2>1, WFMin
<1>2. \A j \in S : ~(j < i)
  BY <1>1 DEF OpToRel
<1>. QED BY <1>2

\* An accepted digest is that of one of the reports.
LEMMA AcceptedDigestFacts ==
  ASSUME NEW rs \in Seq(Reports), NEW rep, Crossing(rs, rep) # {}
  PROVE  /\ \E i \in DOMAIN rs :
              /\ i \in Crossing(rs, rep)
              /\ AcceptedDigest(rs, rep) = rs[i].digest
         /\ AcceptedDigest(rs, rep) \in AllDigests
         /\ Winners(rs, AcceptedDigest(rs, rep)) # {}
<1> DEFINE first == CHOOSE i \in Crossing(rs, rep) :
                      \A j \in Crossing(rs, rep) : i <= j
<1>1. DOMAIN rs \subseteq Nat /\ \A i \in DOMAIN rs : rs[i] \in Reports
  OBVIOUS
<1>2. Crossing(rs, rep) \subseteq DOMAIN rs
  BY DEF Crossing
<1>3. \E i \in Crossing(rs, rep) : \A j \in Crossing(rs, rep) : i <= j
  BY <1>1, <1>2, LeastMember
<1>4. first \in Crossing(rs, rep) /\ first \in DOMAIN rs
  BY <1>2, <1>3
<1>5. AcceptedDigest(rs, rep) = rs[first].digest
  BY DEF AcceptedDigest
<1> HIDE DEF first
<1>6. rs[first].digest \in AllDigests
  BY <1>1, <1>4 DEF Reports
<1>7. first \in Winners(rs, AcceptedDigest(rs, rep))
  BY <1>4, <1>5 DEF Winners
<1>. QED BY <1>4, <1>5, <1>6, <1>7

\* The winners are worth their reputations, and these are Weights as SharesBound
\* wants them.
LEMMA WinnerWeights ==
  ASSUME NEW rs \in Seq(Reports), NEW rep \in [Participants -> Nat \ {0}],
         NEW d, Winners(rs, d) # {}
  PROVE  /\ Weights([i \in Winners(rs, d) |-> rep[rs[i].worker]])
         /\ DOMAIN [i \in Winners(rs, d) |-> rep[rs[i].worker]] = Winners(rs, d)
         /\ IsFiniteSet(Winners(rs, d))
         /\ WorkersOf(rs, Winners(rs, d)) \subseteq Participants
<1>1. /\ DOMAIN rs = 1..Len(rs) /\ Len(rs) \in Nat /\ DOMAIN rs \subseteq Nat
      /\ \A i \in DOMAIN rs : rs[i].worker \in Participants
  <2>1. \A i \in DOMAIN rs : rs[i] \in Reports
    OBVIOUS
  <2>2. \A i \in DOMAIN rs : rs[i].worker \in Participants
    BY <2>1 DEF Reports
  <2>3. DOMAIN rs = 1..Len(rs) /\ Len(rs) \in Nat
    OBVIOUS
  <2>. QED BY <2>2, <2>3
<1>2. Winners(rs, d) \subseteq DOMAIN rs
  BY DEF Winners
<1>3. IsFiniteSet(Winners(rs, d))
  <2>1. IsFiniteSet(1..Len(rs))
    BY <1>1, FS_Interval
  <2>. QED BY <1>1, <1>2, <2>1, FS_Subset
<1>4. \A i \in Winners(rs, d) : rep[rs[i].worker] \in Nat \ {0}
  BY <1>1, <1>2
<1>5. WorkersOf(rs, Winners(rs, d)) \subseteq Participants
  BY <1>1, <1>2 DEF WorkersOf
<1>6. Weights([i \in Winners(rs, d) |-> rep[rs[i].worker]])
  BY <1>1, <1>2, <1>3, <1>4 DEF Weights
<1>. QED BY <1>3, <1>5, <1>6

\* What a worker is credited is a natural number.
LEMMA CreditType ==
  ASSUME NEW W, IsFiniteSet(W), NEW s, \A i \in W : s[i] \in Nat, NEW a, NEW rs
  PROVE  CreditOf(a, rs, W, s) \in Nat
<1> DEFINE S == {i \in W : rs[i].worker = a}
<1>1. IsFiniteSet(S)
  BY FS_Subset
<1>2. Sum(S, s) \in Nat
  BY <1>1, SumType
<1>. QED BY <1>2 DEF CreditOf

\* What a submission finds: its task, the project behind it, and nothing to
\* reclaim.
LEMMA SubmissionFacts ==
  ASSUME LifeCycle, NEW w \in Participants, NEW t, Submitted(w, t)
  PROVE  /\ HoldsLease(w, t)
         /\ t \in DOMAIN tasks
         /\ tasks[t].project \in DOMAIN projects
         /\ tasks[t].project \in ProjectIds
         /\ tasks[t].reward \in Nat
         /\ TasksAfter(currentTick) = tasks
         /\ PendingAfter(currentTick) = pending
         /\ ReputationAfter(currentTick) = reputation
         /\ WalletAfter(currentTick) = wallet
<1>1. HoldsLease(w, t)
  BY DEF Submitted
<1>2. t \in DOMAIN tasks
  BY <1>1, HoldsLeaseFacts
<1>3. tasks[t] \in Task /\ tasks[t].project \in DOMAIN projects
  BY <1>2 DEF LifeCycle, TypeOK
<1>4. tasks[t].project \in ProjectIds /\ tasks[t].reward \in Nat
  BY <1>3, TaskFacts
<1>5. /\ TasksAfter(currentTick) = tasks
      /\ PendingAfter(currentTick) = pending
      /\ ReputationAfter(currentTick) = reputation
      /\ WalletAfter(currentTick) = wallet
  BY NothingToReclaim DEF LifeCycle
<1>. QED BY <1>1, <1>2, <1>3, <1>4, <1>5

LEMMA RequeueTaskLifeCycle ==
  ASSUME LifeCycle, NEW w \in Participants, NEW t, NEW d \in AllDigests,
         NEW c \in Costs, RequeueTask(w, t, d, c)
  PROVE  LifeCycle'
<1>1. Submitted(w, t) /\ ~ReportsFull(NewReports(w, t, d, c))
  BY DEF RequeueTask
<1>2. /\ tasks' = Replaced(t, NewReports(w, t, d, c), Pending)
      /\ pending' = pending \cup {t}
      /\ UNCHANGED <<projects, escrow, wallet, reputation>>
  BY <1>1, SubmissionFacts DEF RequeueTask, Replaced
<1>3. Pending \in Statuses
  BY StatusFacts
<1>. QED BY <1>1, <1>2, <1>3, AccountTypes, SubmittedLifeCycle

LEMMA RejectTaskLifeCycle ==
  ASSUME LifeCycle, NEW w \in Participants, NEW t, NEW d \in AllDigests,
         NEW c \in Costs, RejectTask(w, t, d, c)
  PROVE  LifeCycle'
<1>1. Submitted(w, t)
  BY DEF RejectTask
<1>2. PICK ws : reputation' = [a \in Participants |->
                  IF a \in ws THEN Penalized(reputation[a], ReputationPenalty)
                             ELSE reputation[a]]
  BY <1>1, SubmissionFacts DEF RejectTask
<1>3. /\ tasks' = Replaced(t, NewReports(w, t, d, c), Rejected)
      /\ pending' = pending
      /\ projects' = Refunded(tasks[t].project, tasks[t].reward)
      /\ UNCHANGED <<escrow, wallet>>
  BY <1>1, SubmissionFacts DEF RejectTask, CloseTask, Replaced
<1>4. Rejected \in Statuses /\ Rejected.kind = "Rejected"
  BY StatusFacts
<1>5. reputation' \in [Participants -> Nat \ {0}]
  <2>1. \A a \in Participants : reputation[a] \in Nat \ {0}
    BY AccountTypes
  <2>2. \A r \in Nat \ {0} : Penalized(r, ReputationPenalty) \in Nat \ {0}
    BY DEF Penalized
  <2>. QED BY <1>2, <2>1, <2>2
<1>6. /\ DOMAIN projects' = DOMAIN projects
      /\ projects' \in [DOMAIN projects -> Project]
  BY <1>1, <1>3, SubmissionFacts, ReleaseTypes
<1>. QED BY <1>1, <1>3, <1>4, <1>5, <1>6, AccountTypes, SubmittedLifeCycle

LEMMA ExhaustTaskLifeCycle ==
  ASSUME LifeCycle, NEW w \in Participants, NEW t, NEW d \in AllDigests,
         NEW c \in Costs, ExhaustTask(w, t, d, c)
  PROVE  LifeCycle'
<1>1. Submitted(w, t)
  BY DEF ExhaustTask
<1>2. PICK rs : rs = NewReports(w, t, d, c)
  OBVIOUS
<1>3. rs \in Seq(Reports) /\ reputation \in [Participants -> Nat \ {0}]
  BY <1>1, <1>2, SubmissionFacts, NewReportsFacts, AccountTypes
<1>4. PICK e : e = AcceptedDigest(rs, reputation)
  OBVIOUS
<1>5. /\ Crossing(rs, reputation) # {}
      /\ tasks' = Replaced(t, rs, QuotaExhausted(e, WorkersOf(rs, Winners(rs, e))))
      /\ pending' = pending
      /\ projects' = ReleaseLocked(tasks[t].project, tasks[t].reward)
      /\ escrow' = Burned(tasks[t].project, tasks[t].reward)
      /\ UNCHANGED <<wallet, reputation>>
  BY <1>1, <1>2, <1>4, SubmissionFacts DEF ExhaustTask, CloseTask, Replaced
<1>6. e \in AllDigests /\ Winners(rs, e) # {}
  BY <1>3, <1>4, <1>5, AcceptedDigestFacts
<1>7. WorkersOf(rs, Winners(rs, e)) \in SUBSET Participants
  BY <1>3, <1>6, WinnerWeights
<1>8. PICK st : st = QuotaExhausted(e, WorkersOf(rs, Winners(rs, e)))
  OBVIOUS
<1>9. st \in Statuses /\ st.kind = "QuotaExhausted"
  BY <1>6, <1>7, <1>8, StatusFacts
<1>10. /\ DOMAIN projects' = DOMAIN projects
       /\ projects' \in [DOMAIN projects -> Project]
  BY <1>1, <1>5, SubmissionFacts, ReleaseTypes
<1>11. escrow' \in [ProjectIds -> Int]
  <2>1. tasks[t].project \in ProjectIds /\ tasks[t].reward \in Nat
    BY <1>1, SubmissionFacts
  <2>2. escrow \in [ProjectIds -> Int]
    BY AccountTypes
  <2>3. escrow' = [escrow EXCEPT ![tasks[t].project] = @ - tasks[t].reward]
    BY <1>5 DEF Burned
  <2>. QED BY <2>1, <2>2, <2>3
<1>12. tasks' = Replaced(t, NewReports(w, t, d, c), st)
  BY <1>2, <1>5, <1>8
<1>. QED
  BY <1>1, <1>5, <1>9, <1>10, <1>11, <1>12, AccountTypes, SubmittedLifeCycle

LEMMA CompleteTaskLifeCycle ==
  ASSUME LifeCycle, NEW w \in Participants, NEW t, NEW d \in AllDigests,
         NEW c \in Costs, CompleteTask(w, t, d, c)
  PROVE  LifeCycle'
<1>1. Submitted(w, t)
  BY DEF CompleteTask
<1>2. PICK rs : rs = NewReports(w, t, d, c)
  OBVIOUS
<1>3. rs \in Seq(Reports) /\ reputation \in [Participants -> Nat \ {0}]
  BY <1>1, <1>2, SubmissionFacts, NewReportsFacts, AccountTypes
<1>4. PICK e : e = AcceptedDigest(rs, reputation)
  OBVIOUS
<1>5. PICK W : W = Winners(rs, e)
  OBVIOUS
<1>6. PICK s : s = Shares(tasks[t].reward, [i \in W |-> reputation[rs[i].worker]])
  OBVIOUS
<1>7. /\ Crossing(rs, reputation) # {}
      /\ tasks' = Replaced(t, rs, Completed(e, WorkersOf(rs, W)))
      /\ pending' = pending
      /\ projects' = ReleaseLocked(tasks[t].project, tasks[t].reward)
      /\ escrow' = [escrow EXCEPT ![tasks[t].project] = @ - Sum(W, s)]
      /\ wallet' = [a \in Participants |-> wallet[a] + CreditOf(a, rs, W, s)]
  BY <1>1, <1>2, <1>4, <1>5, <1>6, SubmissionFacts
     DEF CompleteTask, CloseTask, Replaced
<1>8. reputation' = [a \in Participants |->
         IF a \in WorkersOf(rs, W) THEN reputation[a] + ReputationReward
         ELSE IF a \in WorkersOf(rs, DOMAIN rs \ W)
           THEN Penalized(reputation[a], ReputationPenalty)
         ELSE reputation[a]]
  <2>1. ReputationAfter(currentTick) = reputation
    BY <1>1, SubmissionFacts
  <2>. QED BY <1>2, <1>4, <1>5, <2>1 DEF CompleteTask
<1>9. e \in AllDigests /\ W # {}
  BY <1>3, <1>4, <1>5, <1>7, AcceptedDigestFacts
<1>10. /\ WorkersOf(rs, W) \in SUBSET Participants
       /\ IsFiniteSet(W)
       /\ Weights([i \in W |-> reputation[rs[i].worker]])
  BY <1>3, <1>5, <1>9, WinnerWeights
<1>11. Sum(W, s) \in Nat /\ \A i \in W : s[i] \in Nat
  <2>1. tasks[t].reward \in Nat
    BY <1>1, SubmissionFacts
  <2>2. DOMAIN [i \in W |-> reputation[rs[i].worker]] = W
    OBVIOUS
  <2>. QED BY <1>6, <1>10, <2>1, <2>2, SharesBound
<1>12. PICK st : st = Completed(e, WorkersOf(rs, W))
  OBVIOUS
<1>13. st \in Statuses /\ st.kind = "Completed"
  BY <1>9, <1>10, <1>12, StatusFacts
<1>14. /\ DOMAIN projects' = DOMAIN projects
       /\ projects' \in [DOMAIN projects -> Project]
  BY <1>1, <1>7, SubmissionFacts, ReleaseTypes
<1>15. escrow' \in [ProjectIds -> Int]
  <2>1. tasks[t].project \in ProjectIds
    BY <1>1, SubmissionFacts
  <2>. QED BY <1>7, <1>11, <2>1, AccountTypes, SMTT(60)
<1>16. wallet' \in [Participants -> Int]
  <2>1. \A a \in Participants : wallet[a] \in Int
    BY AccountTypes
  <2>2. \A a \in Participants : CreditOf(a, rs, W, s) \in Nat
    BY <1>10, <1>11, CreditType
  <2>3. \A a \in Participants : wallet[a] + CreditOf(a, rs, W, s) \in Int
    BY <2>1, <2>2
  <2>. QED BY <1>7, <2>3
<1>17. reputation' \in [Participants -> Nat \ {0}]
  <2>1. \A r \in Nat \ {0} :
          /\ Penalized(r, ReputationPenalty) \in Nat \ {0}
          /\ r + ReputationReward \in Nat \ {0}
    BY DEF Penalized
  <2>2. \A a \in Participants : reputation[a] \in Nat \ {0}
    BY AccountTypes
  <2>. QED BY <1>8, <2>1, <2>2
<1>18. tasks' = Replaced(t, NewReports(w, t, d, c), st)
  BY <1>2, <1>7, <1>12
<1>. QED
  BY <1>1, <1>7, <1>13, <1>14, <1>15, <1>16, <1>17, <1>18, SubmittedLifeCycle

-----------------------------------------------------------------------------
\* The clock.

LEMMA TickLifeCycle ==
  ASSUME LifeCycle, NEW n \in TickSteps, Tick(n)
  PROVE  LifeCycle'
<1>1. TypeOK /\ \A u \in DOMAIN tasks : TaskOK(u)
  BY LifeCycleByTask
<1>2. PICK now : now = currentTick + n
  OBVIOUS
<1>3. now \in Nat
  BY <1>1, <1>2 DEF TypeOK
<1>4. /\ currentTick' = now /\ leases' = LeasesAfter(now)
      /\ tasks' = TasksAfter(now) /\ pending' = PendingAfter(now)
      /\ reputation' = ReputationAfter(now) /\ wallet' = WalletAfter(now)
      /\ UNCHANGED <<registered, projects, escrow>>
  BY <1>2 DEF Tick, Reclaim
<1>5. /\ DOMAIN leases' = DOMAIN leases \ Expired(now)
      /\ leases' \in [DOMAIN leases' -> Lease]
      /\ DOMAIN tasks' = DOMAIN tasks
      /\ tasks' \in [DOMAIN tasks' -> Task]
      /\ pending' \subseteq DOMAIN tasks'
      /\ reputation' \in [Participants -> Nat \ {0}]
      /\ wallet' \in [Participants -> Int]
  <2>1. /\ LeasesAfter(now) \in [DOMAIN leases \ Expired(now) -> Lease]
        /\ TasksAfter(now) \in [DOMAIN tasks -> Task]
        /\ PendingAfter(now) \subseteq DOMAIN tasks
        /\ ReputationAfter(now) \in [Participants -> Nat \ {0}]
        /\ WalletAfter(now) \in [Participants -> Int]
    BY <1>1, <1>3, ReclaimTypes
  <2>. QED BY <1>4, <2>1
<1>6. \A u \in DOMAIN leases' : leases'[u] = leases[u] /\ leases[u].expires > now
  <2>1. \A u \in DOMAIN leases : leases[u].expires \in Nat
    BY <1>1 DEF TypeOK, Lease
  <2>2. \A u \in DOMAIN leases : u \notin Expired(now) => leases[u].expires > now
    BY <1>3, <2>1 DEF Expired
  <2>3. \A u \in DOMAIN leases \ Expired(now) : LeasesAfter(now)[u] = leases[u]
    BY DEF LeasesAfter, Remove, Restrict
  <2>. QED BY <1>4, <1>5, <2>2, <2>3
<1>7. ASSUME NEW u \in DOMAIN tasks
      PROVE  /\ u \notin Reclaimed(now) => tasks'[u] = tasks[u]
             /\ tasks'[u].project = tasks[u].project
             /\ tasks'[u].reports = tasks[u].reports
             /\ u \in Reclaimed(now) => tasks'[u].status = Pending
  <2>1. tasks[u] \in Task /\ Pending \in Statuses
    BY <1>1, StatusFacts DEF TypeOK
  <2>2. CASE u \in Reclaimed(now)
    <3>1. tasks'[u] = [tasks[u] EXCEPT !.status = Pending]
      BY <1>4, <2>2 DEF TasksAfter
    <3>2. /\ [tasks[u] EXCEPT !.status = Pending].project = tasks[u].project
          /\ [tasks[u] EXCEPT !.status = Pending].reports = tasks[u].reports
          /\ [tasks[u] EXCEPT !.status = Pending].status = Pending
      BY <2>1 DEF Task
    <3>. QED BY <2>2, <3>1, <3>2
  <2>3. CASE u \notin Reclaimed(now)
    BY <1>4, <2>3 DEF TasksAfter
  <2>. QED BY <2>2, <2>3
<1>8. TypeOK'
  <2>1. \A u \in DOMAIN tasks' : tasks'[u].project \in DOMAIN projects'
    BY <1>1, <1>4, <1>5, <1>7 DEF TypeOK
  <2>. QED BY <1>1, <1>3, <1>4, <1>5, <2>1 DEF TypeOK
<1>9. ASSUME NEW u \in DOMAIN tasks PROVE TaskOK(u)'
  <2>1. TaskOK(u)
    BY <1>1
  <2>2. u \in Reclaimed(now) <=> u \in DOMAIN leases /\ u \notin DOMAIN leases'
    BY <1>5, <2>1 DEF Reclaimed, TaskOK, Expired
  <2>3. u \in pending' <=> (u \in pending \/ u \in Reclaimed(now))
    BY <1>4 DEF PendingAfter
  <2>4. CASE u \in Reclaimed(now)
    <3>1. u \notin DOMAIN leases' /\ u \in pending'
      BY <2>2, <2>3, <2>4
    <3>2. tasks'[u].status = Pending /\ tasks'[u].reports = tasks[u].reports
      BY <1>7, <2>4
    <3>3. Pending.kind = "Pending" /\ tasks[u].status.kind = "Assigned"
      BY <2>4, StatusFacts DEF Reclaimed
    <3>. QED BY <2>1, <3>1, <3>2, <3>3 DEF TaskOK, IsOpen
  <2>5. CASE u \notin Reclaimed(now)
    <3>1. tasks'[u] = tasks[u] /\ (u \in pending' <=> u \in pending)
      BY <1>7, <2>3, <2>5
    <3>2. u \in DOMAIN leases' <=> u \in DOMAIN leases
      BY <1>5, <2>2, <2>5
    <3>3. u \in DOMAIN leases' => leases'[u] = leases[u] /\ leases[u].expires > now
      BY <1>6
    <3>. QED BY <1>4, <2>1, <3>1, <3>2, <3>3 DEF TaskOK, Reporters, IsOpen
  <2>. QED BY <2>4, <2>5
<1>10. \A u \in DOMAIN tasks' : TaskOK(u)'
  BY <1>5, <1>9
<1>. QED BY <1>8, <1>10, LifeCycleNext

-----------------------------------------------------------------------------
\* The theorems.

LEMMA LifeCycleStep == LifeCycle /\ [Next]_vars => LifeCycle'
<1> SUFFICES ASSUME LifeCycle, [Next]_vars PROVE LifeCycle'
  OBVIOUS
<1>1. CASE \E a \in Participants, b \in InitialBalances : RegisterParticipant(a, b)
  BY <1>1, RegisterParticipantLifeCycle
<1>2. CASE \E a \in Participants : CreateProject(a)
  BY <1>2, CreateProjectLifeCycle
<1>3. CASE \E a, b \in Participants, m \in Amounts : Transfer(a, b, m)
  BY <1>3, TransferLifeCycle
<1>4. CASE \E a \in Participants, p \in ProjectIds, m \in Amounts :
             \/ TransferToEscrow(a, p, m)
             \/ DonateToProject(a, p, m)
             \/ FundProject(a, p, m)
  BY <1>4, TransferToEscrowLifeCycle, DonateToProjectLifeCycle, FundProjectLifeCycle
<1>5. CASE \E a \in Participants, p \in ProjectIds, r \in TaskRewards :
             SubmitTask(a, p, r)
  BY <1>5, SubmitTaskLifeCycle
<1>6. CASE \E w \in Participants : RequestTask(w)
  BY <1>6, RequestTaskLifeCycle
<1>7. CASE \E w \in Participants : Refused(w)
  BY <1>7, RefusedLifeCycle
<1>8. CASE \E w \in Participants, t \in TaskIds : Heartbeat(w, t)
  BY <1>8, HeartbeatLifeCycle
<1>9. CASE \E w \in Participants, t \in TaskIds, d \in AllDigests, c \in Costs :
             SubmitResult(w, t, d, c)
  BY <1>9, CompleteTaskLifeCycle, ExhaustTaskLifeCycle, RejectTaskLifeCycle,
     RequeueTaskLifeCycle DEF SubmitResult
<1>10. CASE \E n \in TickSteps : Tick(n)
  BY <1>10, TickLifeCycle
<1>11. CASE UNCHANGED vars
  BY <1>11 DEF vars, LifeCycle, TypeOK, LeaseMatchesStatus, QueueMatchesStatus,
     NoExpiredLease, OneReportPerWorker, ReportsBelowLimit, Reporters, IsOpen
<1>. QED
  BY <1>1, <1>2, <1>3, <1>4, <1>5, <1>6, <1>7, <1>8, <1>9, <1>10, <1>11 DEF Next

\* The task life cycle is an invariant of the ledger, for any number of accounts,
\* projects and tasks and any configuration.
THEOREM LifeCycleInvariant == Spec => []LifeCycle
BY LifeCycleInit, LifeCycleStep, PTL DEF Spec

-----------------------------------------------------------------------------
\* Quotas and escrow.

\* The quota of a project is accounted for, and backed by its escrow.  The
\* second part leans on the first: closing a task takes its whole reward off the
\* locked quota only because the saturating subtraction never saturates, and
\* that is what LockedIsOpenRewards says.
Quota == LockedIsOpenRewards /\ EscrowCoversQuota

\* The open tasks of a project are a finite set of tasks with natural rewards.
LEMMA OpenTasksFacts ==
  ASSUME LifeCycle, NEW p
  PROVE  /\ IsFiniteSet(OpenTasks(p))
         /\ \A t \in OpenTasks(p) : RewardOf[t] \in Nat
         /\ Sum(OpenTasks(p), RewardOf) \in Nat
<1>1. OpenTasks(p) \subseteq DOMAIN tasks
  BY DEF OpenTasks
<1>2. IsFiniteSet(OpenTasks(p))
  BY <1>1, NextTaskIdFacts, FS_Subset DEF LifeCycle
<1>3. \A t \in OpenTasks(p) : RewardOf[t] \in Nat
  <2> TAKE t \in OpenTasks(p)
  <2>1. t \in DOMAIN tasks /\ tasks[t] \in Task
    BY <1>1 DEF LifeCycle, TypeOK
  <2>2. tasks[t].reward \in Nat
    BY <2>1, TaskFacts
  <2>. QED BY <2>1, <2>2 DEF RewardOf
<1>. QED BY <1>2, <1>3, SumType

\* Steps that open and close no task leave every project's open rewards alone.
LEMMA OpenRewardsKept ==
  ASSUME DOMAIN tasks' = DOMAIN tasks,
         \A t \in DOMAIN tasks :
           /\ tasks'[t].project = tasks[t].project
           /\ tasks'[t].reward = tasks[t].reward
           /\ IsOpen(tasks'[t]) <=> IsOpen(tasks[t])
  PROVE  \A p : Sum(OpenTasks(p), RewardOf)' = Sum(OpenTasks(p), RewardOf)
<1> TAKE p
<1>1. OpenTasks(p)' = OpenTasks(p)
  <2>1. \A t \in DOMAIN tasks : IsOpen(tasks[t])' <=> IsOpen(tasks[t])
    BY DEF IsOpen
  <2>2. OpenTasks(p)' = {t \in DOMAIN tasks : tasks'[t].project = p /\ IsOpen(tasks[t])'}
    BY DEF OpenTasks
  <2>3. \A t \in DOMAIN tasks : tasks'[t].project = tasks[t].project
    OBVIOUS
  <2>. QED BY <2>1, <2>2, <2>3, Zenon DEF OpenTasks
<1>2. OpenTasks(p) \subseteq DOMAIN tasks
  BY DEF OpenTasks
<1>3. \A t \in OpenTasks(p) : RewardOf'[t] = RewardOf[t]
  <2>1. RewardOf' = [t \in DOMAIN tasks |-> tasks'[t].reward]
    BY DEF RewardOf
  <2>2. \A t \in DOMAIN tasks : tasks'[t].reward = tasks[t].reward
    OBVIOUS
  <2>. QED BY <1>2, <2>1, <2>2, Zenon DEF RewardOf
<1>4. Sum(OpenTasks(p), RewardOf') = Sum(OpenTasks(p), RewardOf)
  BY <1>3, SumAgree
<1>. QED BY <1>1, <1>4

\* So do all steps that move no quota and no escrow either.
LEMMA QuotaKept ==
  ASSUME Quota, UNCHANGED <<projects, escrow>>,
         DOMAIN tasks' = DOMAIN tasks,
         \A t \in DOMAIN tasks :
           /\ tasks'[t].project = tasks[t].project
           /\ tasks'[t].reward = tasks[t].reward
           /\ IsOpen(tasks'[t]) <=> IsOpen(tasks[t])
  PROVE  Quota'
<1>1. \A p : Sum(OpenTasks(p), RewardOf)' = Sum(OpenTasks(p), RewardOf)
  BY OpenRewardsKept
<1>2. \A p \in DOMAIN projects : projects[p].locked = Sum(OpenTasks(p), RewardOf)
  BY DEF Quota, LockedIsOpenRewards
<1>3. \A p \in DOMAIN projects' : projects'[p].locked = Sum(OpenTasks(p), RewardOf)'
  BY <1>1, <1>2
<1>4. LockedIsOpenRewards'
  BY <1>3 DEF LockedIsOpenRewards
<1>5. EscrowCoversQuota'
  BY DEF Quota, EscrowCoversQuota
<1>. QED BY <1>4, <1>5 DEF Quota

\* Accounts move their own tokens; a donation adds as much quota as escrow.
LEMMA AccountQuota ==
  ASSUME LifeCycle, Quota, UNCHANGED tasks,
         DOMAIN projects' = DOMAIN projects,
         NEW extra \in [ProjectIds -> Nat],
         escrow' = [p \in ProjectIds |-> escrow[p] + extra[p]],
         \A p \in DOMAIN projects :
           /\ projects'[p].locked = projects[p].locked
           /\ projects'[p].available \in Nat
           /\ projects'[p].available <= projects[p].available + extra[p]
  PROVE  Quota'
<1>1. \A p : Sum(OpenTasks(p), RewardOf)' = Sum(OpenTasks(p), RewardOf)
  BY OpenRewardsKept
<1>2. \A p \in DOMAIN projects : projects[p].locked = Sum(OpenTasks(p), RewardOf)
  BY DEF Quota, LockedIsOpenRewards
<1>3. \A p \in DOMAIN projects' : projects'[p].locked = Sum(OpenTasks(p), RewardOf)'
  BY <1>1, <1>2
<1>4. LockedIsOpenRewards'
  BY <1>3 DEF LockedIsOpenRewards
<1>5. ASSUME NEW p \in DOMAIN projects'
      PROVE  projects'[p].available + projects'[p].locked <= escrow'[p]
  <2>1. p \in DOMAIN projects /\ p \in ProjectIds /\ projects[p] \in Project
    BY AccountTypes
  <2>2. projects[p].available \in Nat /\ projects[p].locked \in Nat
    BY <2>1, ProjectFacts
  <2>3. escrow[p] \in Int /\ extra[p] \in Nat /\ escrow'[p] = escrow[p] + extra[p]
    BY <2>1, AccountTypes
  <2>4. projects[p].available + projects[p].locked <= escrow[p]
    BY <2>1 DEF Quota, EscrowCoversQuota
  <2>. QED BY <2>1, <2>2, <2>3, <2>4
<1>6. ASSUME NEW p \in ProjectIds PROVE escrow'[p] >= 0
  <2>1. escrow[p] \in Int /\ escrow[p] >= 0 /\ extra[p] \in Nat
    BY AccountTypes DEF Quota, EscrowCoversQuota
  <2>. QED BY <2>1
<1>7. EscrowCoversQuota'
  BY <1>5, <1>6 DEF EscrowCoversQuota
<1>. QED BY <1>4, <1>7 DEF Quota

LEMMA QuotaInit == Init => Quota
<1> SUFFICES ASSUME Init PROVE Quota
  OBVIOUS
<1>1. DOMAIN projects = {} /\ \A p \in ProjectIds : escrow[p] = 0
  BY DEF Init
<1>. QED BY <1>1 DEF Quota, LockedIsOpenRewards, EscrowCoversQuota

LEMMA CreateProjectQuota ==
  ASSUME LifeCycle, Quota, NEW a \in Participants, CreateProject(a)
  PROVE  Quota'
<1>1. PICK id : id = NextProjectId
  OBVIOUS
<1>2. /\ id \in ProjectIds /\ id \notin DOMAIN projects
  BY <1>1, NextProjectIdFacts DEF LifeCycle, CreateProject, ProjectIds
<1>3. /\ DOMAIN projects' = DOMAIN projects \cup {id}
      /\ \A p \in DOMAIN projects : projects'[p] = projects[p]
      /\ projects'[id].locked = 0 /\ projects'[id].available = 0
  BY <1>1, <1>2 DEF CreateProject, Insert
<1>4. \A p : Sum(OpenTasks(p), RewardOf)' = Sum(OpenTasks(p), RewardOf)
  <2>1. tasks' = tasks
    BY DEF CreateProject
  <2>. QED BY <2>1 DEF OpenTasks, IsOpen, RewardOf
<1>5. Sum(OpenTasks(id), RewardOf) = 0
  <2>1. \A t \in DOMAIN tasks : tasks[t].project # id
    BY <1>2 DEF LifeCycle, TypeOK
  <2>2. OpenTasks(id) = {}
    BY <2>1 DEF OpenTasks
  <2>. QED BY <2>2, SumEmpty
<1>6. \A p \in DOMAIN projects : projects[p].locked = Sum(OpenTasks(p), RewardOf)
  BY DEF Quota, LockedIsOpenRewards
<1>7. \A p \in DOMAIN projects' : projects'[p].locked = Sum(OpenTasks(p), RewardOf)'
  BY <1>3, <1>4, <1>5, <1>6
<1>8. EscrowCoversQuota'
  <2>1. escrow' = escrow /\ \A p \in ProjectIds : escrow[p] \in Int /\ escrow[p] >= 0
    BY AccountTypes DEF CreateProject, Quota, EscrowCoversQuota
  <2>. QED BY <1>2, <1>3, <2>1 DEF Quota, EscrowCoversQuota
<1>. QED BY <1>7, <1>8 DEF Quota, LockedIsOpenRewards

LEMMA DonateToProjectQuota ==
  ASSUME LifeCycle, Quota, NEW a \in Participants, NEW p \in ProjectIds,
         NEW m \in Amounts, DonateToProject(a, p, m)
  PROVE  Quota'
<1> DEFINE extra == [q \in ProjectIds |-> IF q = p THEN m ELSE 0]
<1>1. extra \in [ProjectIds -> Nat]
  OBVIOUS
<1>2. escrow' = [q \in ProjectIds |-> escrow[q] + extra[q]]
  <2>1. escrow' = [escrow EXCEPT ![p] = escrow[p] + m]
    BY DEF DonateToProject
  <2>2. \A q \in ProjectIds : escrow[q] + 0 = escrow[q]
    BY AccountTypes
  <2>. QED BY <2>1, <2>2, AccountTypes
<1>3. DOMAIN projects' = DOMAIN projects /\ UNCHANGED tasks
  BY DEF DonateToProject
<1>4. ASSUME NEW q \in DOMAIN projects
      PROVE  /\ projects'[q].locked = projects[q].locked
             /\ projects'[q].available \in Nat
             /\ projects'[q].available <= projects[q].available + extra[q]
  <2>1. projects[q] \in Project /\ q \in ProjectIds /\ m \in Nat
    BY AccountTypes
  <2>2. projects[q].available \in Nat
    BY <2>1, ProjectFacts
  <2>3. projects' = [projects EXCEPT ![p].available = projects[p].available + m]
    BY DEF DonateToProject
  <2>4. CASE q = p
    <3>1. projects'[q] = [projects[q] EXCEPT !.available = projects[q].available + m]
      BY <2>3, <2>4
    <3>2. extra[q] = m
      BY <2>1, <2>4
    <3>3. /\ projects'[q].locked = projects[q].locked
          /\ projects'[q].available = projects[q].available + m
      BY <2>1, <3>1 DEF Project
    <3>. QED BY <2>1, <2>2, <3>2, <3>3
  <2>5. CASE q # p
    <3>1. projects'[q] = projects[q] /\ extra[q] = 0
      BY <2>1, <2>3, <2>5
    <3>. QED BY <2>2, <3>1
  <2>. QED BY <2>4, <2>5
<1> HIDE DEF extra
<1>. QED BY <1>1, <1>2, <1>3, <1>4, AccountQuota

LEMMA TransferToEscrowQuota ==
  ASSUME LifeCycle, Quota, NEW a \in Participants, NEW p \in ProjectIds,
         NEW m \in Amounts, TransferToEscrow(a, p, m)
  PROVE  Quota'
<1> DEFINE extra == [q \in ProjectIds |-> IF q = p THEN m ELSE 0]
<1>1. extra \in [ProjectIds -> Nat]
  OBVIOUS
<1>2. escrow' = [q \in ProjectIds |-> escrow[q] + extra[q]]
  <2>1. escrow' = [escrow EXCEPT ![p] = escrow[p] + m]
    BY DEF TransferToEscrow
  <2>2. \A q \in ProjectIds : escrow[q] + 0 = escrow[q]
    BY AccountTypes
  <2>. QED BY <2>1, <2>2, AccountTypes
<1>3. UNCHANGED <<projects, tasks>>
  BY DEF TransferToEscrow
<1>4. ASSUME NEW q \in DOMAIN projects
      PROVE  /\ projects'[q].locked = projects[q].locked
             /\ projects'[q].available \in Nat
             /\ projects'[q].available <= projects[q].available + extra[q]
  <2>1. projects[q] \in Project /\ extra[q] \in Nat
    BY <1>1, AccountTypes
  <2>2. projects[q].available \in Nat
    BY <2>1, ProjectFacts
  <2>. QED BY <1>3, <2>1, <2>2
<1> HIDE DEF extra
<1>. QED BY <1>1, <1>2, <1>3, <1>4, AccountQuota

LEMMA SubmitTaskQuota ==
  ASSUME LifeCycle, Quota, NEW a \in Participants, NEW p \in ProjectIds,
         NEW r \in TaskRewards, SubmitTask(a, p, r)
  PROVE  Quota'
<1>1. PICK id : id = NextTaskId
  OBVIOUS
<1>2. id \notin DOMAIN tasks
  BY <1>1, NextTaskIdFacts DEF LifeCycle
<1>3. /\ DOMAIN tasks' = DOMAIN tasks \cup {id}
      /\ \A t \in DOMAIN tasks : tasks'[t] = tasks[t]
      /\ tasks'[id] = [project |-> p, reward |-> r, reports |-> <<>>,
                       status |-> Pending]
  BY <1>1, <1>2 DEF SubmitTask, Insert
<1>4. tasks'[id].project = p /\ tasks'[id].reward = r /\ IsOpen(tasks'[id])
  BY <1>3, StatusFacts DEF IsOpen
<1>5. /\ OpenTasks(p)' = OpenTasks(p) \cup {id}
      /\ \A q : q # p => OpenTasks(q)' = OpenTasks(q)
  BY <1>2, <1>3, <1>4 DEF OpenTasks, IsOpen
<1>6. /\ RewardOf'[id] = r
      /\ \A t \in DOMAIN tasks : RewardOf'[t] = RewardOf[t]
  BY <1>3, <1>4 DEF RewardOf
<1>7. \A q : /\ OpenTasks(q) \subseteq DOMAIN tasks
             /\ Sum(OpenTasks(q), RewardOf') = Sum(OpenTasks(q), RewardOf)
  <2> TAKE q
  <2>1. OpenTasks(q) \subseteq DOMAIN tasks
    BY DEF OpenTasks
  <2>2. \A t \in OpenTasks(q) : RewardOf'[t] = RewardOf[t]
    BY <1>6, <2>1
  <2>. QED BY <2>1, <2>2, SumAgree
<1>8. Sum(OpenTasks(p), RewardOf)' = Sum(OpenTasks(p), RewardOf) + r
  <2> DEFINE f == RewardOf'
  <2>1. IsFiniteSet(OpenTasks(p)) /\ id \notin OpenTasks(p)
    BY <1>2, <1>7, OpenTasksFacts
  <2>2. f[id] = r /\ r \in Nat
    BY <1>6
  <2>3. \A t \in OpenTasks(p) : f[t] \in Nat
    BY <1>6, <1>7, OpenTasksFacts
  <2>4. Sum(OpenTasks(p), RewardOf)' = Sum(OpenTasks(p) \cup {id}, f)
    BY <1>5
  <2>5. Sum(OpenTasks(p), f) = Sum(OpenTasks(p), RewardOf)
    BY <1>7
  <2> HIDE DEF f
  <2>6. Sum(OpenTasks(p) \cup {id}, f) = Sum(OpenTasks(p), f) + f[id]
    BY <2>1, <2>2, <2>3, SumAdd
  <2>. QED BY <2>2, <2>4, <2>5, <2>6
<1>9. \A q : q # p => Sum(OpenTasks(q), RewardOf)' = Sum(OpenTasks(q), RewardOf)
  BY <1>5, <1>7
<1>10. /\ DOMAIN projects' = DOMAIN projects
       /\ escrow' = escrow
       /\ \A q \in DOMAIN projects : q # p => projects'[q] = projects[q]
       /\ projects'[p].available = projects[p].available - r
       /\ projects'[p].locked = projects[p].locked + r
       /\ projects[p].available \in Nat /\ projects[p].locked \in Nat
       /\ projects[p].available >= r
       /\ r \in Nat
  <2>1. projects[p] \in Project /\ p \in DOMAIN projects /\ r \in Nat
        /\ projects[p].available >= r
    BY AccountTypes DEF SubmitTask, OwnsProject, ReserveQuota
  <2>2. projects' = [projects EXCEPT ![p] =
          [projects[p] EXCEPT !.available = projects[p].available - r,
                              !.locked = projects[p].locked + r]]
    BY AccountTypes DEF SubmitTask, OwnsProject, ReserveQuota
  <2>3. projects'[p] = [projects[p] EXCEPT !.available = projects[p].available - r,
                                           !.locked = projects[p].locked + r]
    BY <2>1, <2>2
  <2>4. /\ projects'[p].available = projects[p].available - r
        /\ projects'[p].locked = projects[p].locked + r
    BY <2>1, <2>3 DEF Project
  <2>5. projects[p].available \in Nat /\ projects[p].locked \in Nat
    BY <2>1, ProjectFacts
  <2>6. /\ DOMAIN projects' = DOMAIN projects
        /\ \A q \in DOMAIN projects : q # p => projects'[q] = projects[q]
    BY <2>2
  <2>. QED BY <2>1, <2>4, <2>5, <2>6 DEF SubmitTask
<1>11. \A q \in DOMAIN projects : projects[q].locked = Sum(OpenTasks(q), RewardOf)
  BY DEF Quota, LockedIsOpenRewards
<1>12. \A q \in DOMAIN projects' : projects'[q].locked = Sum(OpenTasks(q), RewardOf)'
  <2> TAKE q \in DOMAIN projects'
  <2>1. CASE q = p
    BY <1>8, <1>10, <1>11, <2>1
  <2>2. CASE q # p
    BY <1>9, <1>10, <1>11, <2>2
  <2>. QED BY <2>1, <2>2
<1>13. EscrowCoversQuota'
  <2>1. ASSUME NEW q \in DOMAIN projects'
        PROVE  projects'[q].available + projects'[q].locked <= escrow'[q]
    <3>1. projects[q].available + projects[q].locked <= escrow[q]
      BY <1>10 DEF Quota, EscrowCoversQuota
    <3>2. escrow[q] \in Int
      BY <1>10, AccountTypes
    <3>3. CASE q = p
      BY <1>10, <3>1, <3>2, <3>3
    <3>4. CASE q # p
      BY <1>10, <3>1, <3>4
    <3>. QED BY <3>3, <3>4
  <2>2. \A q \in ProjectIds : escrow'[q] >= 0
    BY <1>10 DEF Quota, EscrowCoversQuota
  <2>. QED BY <2>1, <2>2 DEF EscrowCoversQuota
<1>. QED BY <1>12, <1>13 DEF Quota, LockedIsOpenRewards

\* Task t is closed, and no other task changes.
TaskCloses(t) ==
  /\ t \in DOMAIN tasks
  /\ IsOpen(tasks[t])
  /\ DOMAIN tasks' = DOMAIN tasks
  /\ \A u \in DOMAIN tasks : u # t => tasks'[u] = tasks[u]
  /\ ~IsOpen(tasks'[t])

\* Project p loses r tokens of locked quota, and `paid` tokens of escrow unless
\* the quota is available again.
RewardReleased(p, r, paid) ==
  /\ DOMAIN projects' = DOMAIN projects
  /\ \A q \in DOMAIN projects : q # p => projects'[q] = projects[q]
  /\ projects'[p].locked = SatSub(projects[p].locked, r)
  /\ \/ projects'[p].available = projects[p].available
     \/ projects'[p].available = projects[p].available + r /\ paid = 0
  /\ paid \in Nat /\ paid <= r
  /\ escrow' = [escrow EXCEPT ![p] = @ - paid]

\* Every outcome of a task takes its whole reward off the locked quota, once,
\* and no more than that out of the escrow.
LEMMA TaskClosedQuota ==
  ASSUME LifeCycle, Quota, NEW t, TaskCloses(t), NEW paid,
         RewardReleased(tasks[t].project, tasks[t].reward, paid)
  PROVE  Quota'
<1>a. PICK p, r : p = tasks[t].project /\ r = tasks[t].reward
  OBVIOUS
<1>b. TaskCloses(t) /\ RewardReleased(p, r, paid)
  BY <1>a
<1> USE <1>a, <1>b DEF TaskCloses, RewardReleased
<1>1. /\ p \in DOMAIN projects /\ p \in ProjectIds /\ r \in Nat
  <2>1. tasks[t] \in Task /\ p \in DOMAIN projects
    BY DEF LifeCycle, TypeOK
  <2>. QED BY <2>1, TaskFacts
<1>2. t \in OpenTasks(p) /\ RewardOf[t] = r
  BY DEF OpenTasks, RewardOf
<1>3. /\ OpenTasks(p)' = OpenTasks(p) \ {t}
      /\ \A q : q # p => OpenTasks(q)' = OpenTasks(q)
  BY DEF OpenTasks, IsOpen
<1>4. \A u \in DOMAIN tasks : u # t => RewardOf'[u] = RewardOf[u]
  BY DEF RewardOf
<1>5. \A q : Sum(OpenTasks(q) \ {t}, RewardOf') = Sum(OpenTasks(q) \ {t}, RewardOf)
  <2> TAKE q
  <2>1. OpenTasks(q) \subseteq DOMAIN tasks
    BY DEF OpenTasks
  <2>2. \A u \in OpenTasks(q) \ {t} : RewardOf'[u] = RewardOf[u]
    BY <1>4, <2>1
  <2>. QED BY <2>2, SumAgree
<1>6. \A q : q # p => Sum(OpenTasks(q), RewardOf)' = Sum(OpenTasks(q), RewardOf)
  <2>1. \A q : q # p => OpenTasks(q) \ {t} = OpenTasks(q)
    BY DEF OpenTasks
  <2>. QED BY <1>3, <1>5, <2>1
<1>7. /\ Sum(OpenTasks(p), RewardOf) = Sum(OpenTasks(p), RewardOf)' + r
      /\ Sum(OpenTasks(p), RewardOf)' \in Nat
  <2>1. /\ IsFiniteSet(OpenTasks(p)) /\ IsFiniteSet(OpenTasks(p) \ {t})
        /\ \A u \in OpenTasks(p) : RewardOf[u] \in Nat
    BY OpenTasksFacts, FS_Subset
  <2>2. Sum(OpenTasks(p), RewardOf) = Sum(OpenTasks(p) \ {t}, RewardOf) + RewardOf[t]
    BY <1>2, <2>1, SumRemove
  <2>3. Sum(OpenTasks(p) \ {t}, RewardOf) \in Nat
    BY <2>1, SumType
  <2>. QED BY <1>2, <1>3, <1>5, <2>2, <2>3
<1>8. \A q \in DOMAIN projects : projects[q].locked = Sum(OpenTasks(q), RewardOf)
  BY DEF Quota, LockedIsOpenRewards
<1>9. /\ projects'[p].locked = Sum(OpenTasks(p), RewardOf)'
      /\ projects'[p].locked = projects[p].locked - r
      /\ projects'[p].locked \in Nat
  BY <1>1, <1>7, <1>8 DEF SatSub
<1>10. \A q \in DOMAIN projects' : projects'[q].locked = Sum(OpenTasks(q), RewardOf)'
  <2> TAKE q \in DOMAIN projects'
  <2>1. CASE q = p
    BY <1>9, <2>1
  <2>2. CASE q # p
    BY <1>6, <1>8, <2>2
  <2>. QED BY <2>1, <2>2
<1>11. escrow'[p] = escrow[p] - paid /\ escrow[p] \in Int
       /\ \A q \in ProjectIds : q # p => escrow'[q] = escrow[q]
  BY <1>1, AccountTypes
<1>12. projects[p].available + projects[p].locked <= escrow[p]
  BY <1>1 DEF Quota, EscrowCoversQuota
<1>13. projects[p].available \in Nat /\ projects[p].locked \in Nat
  BY <1>1, AccountTypes, ProjectFacts
<1>14. projects'[p].available + projects'[p].locked <= escrow'[p] /\ escrow'[p] >= 0
  BY <1>1, <1>9, <1>11, <1>12, <1>13
<1>15. EscrowCoversQuota'
  <2>1. \A q \in DOMAIN projects : q \in ProjectIds
    BY AccountTypes
  <2>2. ASSUME NEW q \in DOMAIN projects'
        PROVE  projects'[q].available + projects'[q].locked <= escrow'[q]
    <3>1. CASE q = p
      BY <1>14, <3>1
    <3>2. CASE q # p
      <4>1. projects'[q] = projects[q] /\ escrow'[q] = escrow[q]
        BY <1>11, <2>1, <3>2
      <4>. QED BY <4>1 DEF Quota, EscrowCoversQuota
    <3>. QED BY <3>1, <3>2
  <2>3. ASSUME NEW q \in ProjectIds PROVE escrow'[q] >= 0
    BY <1>11, <1>14 DEF Quota, EscrowCoversQuota
  <2>. QED BY <2>2, <2>3 DEF EscrowCoversQuota
<1>. QED BY <1>10, <1>15 DEF Quota, LockedIsOpenRewards

\* What a release and a refund do to the quotas.
LEMMA ReleaseFacts ==
  ASSUME LifeCycle, NEW p \in DOMAIN projects, NEW r \in Nat
  PROVE  /\ DOMAIN ReleaseLocked(p, r) = DOMAIN projects
         /\ \A q \in DOMAIN projects : q # p => ReleaseLocked(p, r)[q] = projects[q]
         /\ ReleaseLocked(p, r)[p].locked = SatSub(projects[p].locked, r)
         /\ ReleaseLocked(p, r)[p].available = projects[p].available
         /\ DOMAIN Refunded(p, r) = DOMAIN projects
         /\ \A q \in DOMAIN projects : q # p => Refunded(p, r)[q] = projects[q]
         /\ Refunded(p, r)[p].locked = SatSub(projects[p].locked, r)
         /\ Refunded(p, r)[p].available = projects[p].available + r
<1> DEFINE l == SatSub(projects[p].locked, r)
<1> DEFINE q == [projects[p] EXCEPT !.locked = l]
<1> DEFINE s == [q EXCEPT !.available = projects[p].available + r]
<1>1. projects \in [DOMAIN projects -> Project] /\ projects[p] \in Project
  BY AccountTypes
<1>2. l \in Nat /\ projects[p].available + r \in Nat
  BY <1>1, ProjectFacts DEF SatSub
<1>3. ReleaseLocked(p, r) = [projects EXCEPT ![p] = q]
  BY DEF ReleaseLocked
<1> HIDE DEF l
<1>4. q \in Project /\ q.available = projects[p].available /\ q.locked = l
  BY <1>1, <1>2, ProjectFacts
<1>5. Refunded(p, r) = [projects EXCEPT ![p] = s]
  BY <1>1, <1>3, <1>4 DEF Refunded
<1> HIDE DEF q
<1>6. s.available = projects[p].available + r /\ s.locked = l
  BY <1>2, <1>4, ProjectFacts
<1> HIDE DEF s
<1>. QED BY <1>1, <1>3, <1>4, <1>5, <1>6 DEF l

\* A closed task, from the forms the handlers leave behind.
LEMMA OutcomeQuota ==
  ASSUME LifeCycle, Quota, NEW w \in Participants, NEW t, Submitted(w, t),
         NEW rs \in Seq(Reports), NEW st \in Statuses,
         st.kind \notin {"Pending", "Assigned"},
         tasks' = Replaced(t, rs, st),
         NEW paid \in Nat, paid <= tasks[t].reward,
         escrow' = [escrow EXCEPT ![tasks[t].project] = @ - paid],
         \/ projects' = ReleaseLocked(tasks[t].project, tasks[t].reward)
         \/ projects' = Refunded(tasks[t].project, tasks[t].reward) /\ paid = 0
  PROVE  Quota'
<1>1. /\ t \in DOMAIN tasks /\ HoldsLease(w, t)
      /\ tasks[t].project \in DOMAIN projects /\ tasks[t].reward \in Nat
  BY SubmissionFacts
<1>2. IsOpen(tasks[t])
  BY <1>1, HoldsLeaseFacts DEF IsOpen
<1>3. /\ DOMAIN tasks' = DOMAIN tasks
      /\ \A u \in DOMAIN tasks : u # t => tasks'[u] = tasks[u]
      /\ tasks'[t].status = st
  BY <1>1, TaskUpdate DEF LifeCycle
<1>4. TaskCloses(t)
  BY <1>1, <1>2, <1>3 DEF IsOpen, TaskCloses
<1>5. PICK p, r : p = tasks[t].project /\ r = tasks[t].reward
  OBVIOUS
<1>6. /\ DOMAIN projects' = DOMAIN projects
      /\ \A q \in DOMAIN projects : q # p => projects'[q] = projects[q]
      /\ projects'[p].locked = SatSub(projects[p].locked, r)
      /\ \/ projects'[p].available = projects[p].available
         \/ projects'[p].available = projects[p].available + r /\ paid = 0
  BY <1>1, <1>5, ReleaseFacts
<1>7. RewardReleased(p, r, paid)
  BY <1>5, <1>6 DEF RewardReleased
<1>. QED BY <1>4, <1>5, <1>7, TaskClosedQuota

LEMMA CompleteTaskQuota ==
  ASSUME LifeCycle, Quota, NEW w \in Participants, NEW t, NEW d \in AllDigests,
         NEW c \in Costs, CompleteTask(w, t, d, c)
  PROVE  Quota'
<1>1. Submitted(w, t)
  BY DEF CompleteTask
<1>2. PICK rs : rs = NewReports(w, t, d, c)
  OBVIOUS
<1>3. rs \in Seq(Reports) /\ reputation \in [Participants -> Nat \ {0}]
  BY <1>1, <1>2, SubmissionFacts, NewReportsFacts, AccountTypes
<1>4. PICK e : e = AcceptedDigest(rs, reputation)
  OBVIOUS
<1>5. PICK W : W = Winners(rs, e)
  OBVIOUS
<1>6. PICK s : s = Shares(tasks[t].reward, [i \in W |-> reputation[rs[i].worker]])
  OBVIOUS
<1>7. /\ Crossing(rs, reputation) # {}
      /\ tasks' = Replaced(t, rs, Completed(e, WorkersOf(rs, W)))
      /\ projects' = ReleaseLocked(tasks[t].project, tasks[t].reward)
      /\ escrow' = [escrow EXCEPT ![tasks[t].project] = @ - Sum(W, s)]
  BY <1>1, <1>2, <1>4, <1>5, <1>6, SubmissionFacts
     DEF CompleteTask, CloseTask, Replaced
<1>8. e \in AllDigests /\ W # {}
  BY <1>3, <1>4, <1>5, <1>7, AcceptedDigestFacts
<1>9. /\ WorkersOf(rs, W) \in SUBSET Participants
      /\ Weights([i \in W |-> reputation[rs[i].worker]])
  BY <1>3, <1>5, <1>8, WinnerWeights
<1>10. Sum(W, s) \in Nat /\ Sum(W, s) <= tasks[t].reward
  <2>1. tasks[t].reward \in Nat
    BY <1>1, SubmissionFacts
  <2>2. DOMAIN [i \in W |-> reputation[rs[i].worker]] = W
    OBVIOUS
  <2>. QED BY <1>6, <1>9, <2>1, <2>2, SharesBound
<1>11. PICK st, paid : st = Completed(e, WorkersOf(rs, W)) /\ paid = Sum(W, s)
  OBVIOUS
<1>12. st \in Statuses /\ st.kind = "Completed"
  BY <1>8, <1>9, <1>11, StatusFacts
<1>. QED BY <1>1, <1>3, <1>7, <1>10, <1>11, <1>12, OutcomeQuota

LEMMA ExhaustTaskQuota ==
  ASSUME LifeCycle, Quota, NEW w \in Participants, NEW t, NEW d \in AllDigests,
         NEW c \in Costs, ExhaustTask(w, t, d, c)
  PROVE  Quota'
<1>1. Submitted(w, t)
  BY DEF ExhaustTask
<1>2. PICK rs : rs = NewReports(w, t, d, c)
  OBVIOUS
<1>3. rs \in Seq(Reports) /\ reputation \in [Participants -> Nat \ {0}]
  BY <1>1, <1>2, SubmissionFacts, NewReportsFacts, AccountTypes
<1>4. PICK e : e = AcceptedDigest(rs, reputation)
  OBVIOUS
<1>5. PICK st : st = QuotaExhausted(e, WorkersOf(rs, Winners(rs, e)))
  OBVIOUS
<1>6. PICK paid : paid = tasks[t].reward
  OBVIOUS
<1>7. /\ Crossing(rs, reputation) # {}
      /\ tasks' = Replaced(t, rs, st)
      /\ projects' = ReleaseLocked(tasks[t].project, tasks[t].reward)
      /\ escrow' = [escrow EXCEPT ![tasks[t].project] = @ - paid]
  BY <1>1, <1>2, <1>4, <1>5, <1>6, SubmissionFacts
     DEF ExhaustTask, CloseTask, Replaced, Burned
<1>8. e \in AllDigests /\ Winners(rs, e) # {}
  BY <1>3, <1>4, <1>7, AcceptedDigestFacts
<1>9. WorkersOf(rs, Winners(rs, e)) \in SUBSET Participants
  BY <1>3, <1>8, WinnerWeights
<1>10. st \in Statuses /\ st.kind = "QuotaExhausted"
  BY <1>5, <1>8, <1>9, StatusFacts
<1>11. paid \in Nat /\ paid <= tasks[t].reward
  BY <1>1, <1>6, SubmissionFacts
<1>. QED BY <1>1, <1>3, <1>7, <1>10, <1>11, OutcomeQuota

LEMMA RejectTaskQuota ==
  ASSUME LifeCycle, Quota, NEW w \in Participants, NEW t, NEW d \in AllDigests,
         NEW c \in Costs, RejectTask(w, t, d, c)
  PROVE  Quota'
<1>1. Submitted(w, t)
  BY DEF RejectTask
<1>2. PICK rs : rs = NewReports(w, t, d, c)
  OBVIOUS
<1>3. rs \in Seq(Reports)
  BY <1>1, <1>2, SubmissionFacts, NewReportsFacts
<1>4. /\ tasks' = Replaced(t, rs, Rejected)
      /\ projects' = Refunded(tasks[t].project, tasks[t].reward)
      /\ UNCHANGED escrow
  BY <1>1, <1>2, SubmissionFacts DEF RejectTask, CloseTask, Replaced
<1>5. Rejected \in Statuses /\ Rejected.kind = "Rejected"
  BY StatusFacts
<1>6. PICK paid : paid = 0
  OBVIOUS
<1>7. paid \in Nat /\ paid <= tasks[t].reward
  BY <1>1, <1>6, SubmissionFacts
<1>8. escrow' = [escrow EXCEPT ![tasks[t].project] = @ - paid]
  BY <1>1, <1>4, <1>6, SubmissionFacts, AccountTypes
<1>. QED BY <1>1, <1>3, <1>4, <1>5, <1>6, <1>7, <1>8, OutcomeQuota

LEMMA RequeueTaskQuota ==
  ASSUME LifeCycle, Quota, NEW w \in Participants, NEW t, NEW d \in AllDigests,
         NEW c \in Costs, RequeueTask(w, t, d, c)
  PROVE  Quota'
<1>1. Submitted(w, t)
  BY DEF RequeueTask
<1>2. t \in DOMAIN tasks /\ HoldsLease(w, t) /\ TypeOK
  BY <1>1, SubmissionFacts DEF LifeCycle
<1>3. tasks' = Replaced(t, NewReports(w, t, d, c), Pending)
  BY <1>1, SubmissionFacts DEF RequeueTask, Replaced
<1>4. NewReports(w, t, d, c) \in Seq(Reports) /\ Pending \in Statuses
  BY <1>2, NewReportsFacts, StatusFacts
<1>5. /\ DOMAIN tasks' = DOMAIN tasks
      /\ \A u \in DOMAIN tasks : u # t => tasks'[u] = tasks[u]
      /\ tasks'[t].project = tasks[t].project
      /\ tasks'[t].reward = tasks[t].reward
      /\ tasks'[t].status = Pending
  BY <1>2, <1>3, <1>4, TaskUpdate
<1>6. IsOpen(tasks[t]) /\ IsOpen(tasks'[t])
  BY <1>2, <1>5, HoldsLeaseFacts, StatusFacts DEF IsOpen
<1>7. \A u \in DOMAIN tasks :
        /\ tasks'[u].project = tasks[u].project
        /\ tasks'[u].reward = tasks[u].reward
        /\ IsOpen(tasks'[u]) <=> IsOpen(tasks[u])
  BY <1>5, <1>6
<1>8. UNCHANGED <<projects, escrow>>
  BY DEF RequeueTask
<1>. QED BY <1>5, <1>7, <1>8, QuotaKept

\* Leasing a task, or extending its lease, leaves it open.
LEMMA LeasedQuota ==
  ASSUME LifeCycle, Quota, NEW w \in Participants, NEW t \in DOMAIN tasks,
         IsOpen(tasks[t]), tasks' = [tasks EXCEPT ![t].status = Assigned(w, LeaseEnd)],
         UNCHANGED <<projects, escrow>>
  PROVE  Quota'
<1>1. Assigned(w, LeaseEnd) \in Statuses /\ Assigned(w, LeaseEnd).kind = "Assigned"
  BY LeaseEndFacts, StatusFacts
<1>2. PICK st : st = Assigned(w, LeaseEnd)
  OBVIOUS
<1>3. /\ DOMAIN tasks' = DOMAIN tasks
      /\ \A u \in DOMAIN tasks : u # t => tasks'[u] = tasks[u]
      /\ tasks'[t].project = tasks[t].project
      /\ tasks'[t].reward = tasks[t].reward
      /\ tasks'[t].status = st
  BY <1>1, <1>2, StatusUpdate DEF LifeCycle
<1>4. IsOpen(tasks'[t])
  BY <1>1, <1>2, <1>3 DEF IsOpen
<1>5. \A u \in DOMAIN tasks :
        /\ tasks'[u].project = tasks[u].project
        /\ tasks'[u].reward = tasks[u].reward
        /\ IsOpen(tasks'[u]) <=> IsOpen(tasks[u])
  BY <1>3, <1>4
<1>. QED BY <1>3, <1>5, QuotaKept

LEMMA RequestTaskQuota ==
  ASSUME LifeCycle, Quota, NEW w \in Participants, RequestTask(w)
  PROVE  Quota'
<1>1. TypeOK /\ NoExpiredLease
  BY DEF LifeCycle
<1>2. PICK t \in Offers(w, currentTick) :
        tasks' = [tasks EXCEPT ![t].status = Assigned(w, LeaseEnd)]
  BY <1>1, NothingToReclaim DEF RequestTask
<1>3. t \in DOMAIN tasks /\ IsOpen(tasks[t])
  BY <1>1, NothingToReclaim DEF Offers, IsOpen
<1>4. UNCHANGED <<projects, escrow>>
  BY DEF RequestTask
<1>. QED BY <1>2, <1>3, <1>4, LeasedQuota

LEMMA HeartbeatQuota ==
  ASSUME LifeCycle, Quota, NEW w \in Participants, NEW t, Heartbeat(w, t)
  PROVE  Quota'
<1>1. tasks' = [tasks EXCEPT ![t].status = Assigned(w, LeaseEnd)]
  BY NothingToReclaim DEF LifeCycle, Heartbeat
<1>2. t \in DOMAIN tasks /\ IsOpen(tasks[t])
  BY HoldsLeaseFacts DEF Heartbeat, IsOpen
<1>3. UNCHANGED <<projects, escrow>>
  BY DEF Heartbeat
<1>. QED BY <1>1, <1>2, <1>3, LeasedQuota

\* An expired lease puts its task back in the queue, still open.
LEMMA TickQuota ==
  ASSUME LifeCycle, Quota, NEW n \in TickSteps, Tick(n)
  PROVE  Quota'
<1>1. PICK now : tasks' = TasksAfter(now)
  BY DEF Tick, Reclaim
<1>2. ASSUME NEW u \in DOMAIN tasks
      PROVE  /\ tasks'[u].project = tasks[u].project
             /\ tasks'[u].reward = tasks[u].reward
             /\ IsOpen(tasks'[u]) <=> IsOpen(tasks[u])
  <2>1. tasks[u] \in Task
    BY DEF LifeCycle, TypeOK
  <2>2. CASE u \in Reclaimed(now)
    <3>1. tasks'[u] = [tasks[u] EXCEPT !.status = Pending]
      BY <1>1, <2>2 DEF TasksAfter
    <3>2. /\ [tasks[u] EXCEPT !.status = Pending].project = tasks[u].project
          /\ [tasks[u] EXCEPT !.status = Pending].reward = tasks[u].reward
          /\ [tasks[u] EXCEPT !.status = Pending].status = Pending
      BY <2>1 DEF Task
    <3>3. Pending.kind = "Pending" /\ tasks[u].status.kind = "Assigned"
      BY <2>2, StatusFacts DEF Reclaimed
    <3>. QED BY <3>1, <3>2, <3>3 DEF IsOpen
  <2>3. CASE u \notin Reclaimed(now)
    <3>1. tasks'[u] = tasks[u]
      BY <1>1, <2>3 DEF TasksAfter
    <3>. QED BY <3>1
  <2>. QED BY <2>2, <2>3
<1>3. DOMAIN tasks' = DOMAIN tasks /\ UNCHANGED <<projects, escrow>>
  BY <1>1 DEF TasksAfter, Tick
<1>. QED BY <1>2, <1>3, QuotaKept

LEMMA StutterQuota ==
  ASSUME Quota, UNCHANGED <<projects, tasks, escrow>>
  PROVE  Quota'
BY QuotaKept

LEMMA QuotaStep == LifeCycle /\ Quota /\ [Next]_vars => Quota'
<1> SUFFICES ASSUME LifeCycle, Quota, [Next]_vars PROVE Quota'
  OBVIOUS
<1>1. CASE \E a \in Participants, b \in InitialBalances : RegisterParticipant(a, b)
  BY <1>1, StutterQuota DEF RegisterParticipant
<1>2. CASE \E a \in Participants : CreateProject(a)
  BY <1>2, CreateProjectQuota
<1>3. CASE \E a, b \in Participants, m \in Amounts : Transfer(a, b, m)
  BY <1>3, StutterQuota DEF Transfer
<1>4. CASE \E a \in Participants, p \in ProjectIds, m \in Amounts :
             \/ TransferToEscrow(a, p, m)
             \/ DonateToProject(a, p, m)
             \/ FundProject(a, p, m)
  BY <1>4, TransferToEscrowQuota, DonateToProjectQuota DEF FundProject
<1>5. CASE \E a \in Participants, p \in ProjectIds, r \in TaskRewards :
             SubmitTask(a, p, r)
  BY <1>5, SubmitTaskQuota
<1>6. CASE \E w \in Participants : RequestTask(w)
  BY <1>6, RequestTaskQuota
<1>7. CASE \E w \in Participants : Refused(w)
  <2>1. UNCHANGED <<projects, tasks, escrow>>
    BY <1>7, NothingToReclaim DEF LifeCycle, Refused, Reclaim
  <2>. QED BY <2>1, StutterQuota
<1>8. CASE \E w \in Participants, t \in TaskIds : Heartbeat(w, t)
  BY <1>8, HeartbeatQuota
<1>9. CASE \E w \in Participants, t \in TaskIds, d \in AllDigests, c \in Costs :
             SubmitResult(w, t, d, c)
  BY <1>9, CompleteTaskQuota, ExhaustTaskQuota, RejectTaskQuota, RequeueTaskQuota
     DEF SubmitResult
<1>10. CASE \E n \in TickSteps : Tick(n)
  BY <1>10, TickQuota
<1>11. CASE UNCHANGED vars
  BY <1>11, StutterQuota DEF vars
<1>. QED
  BY <1>1, <1>2, <1>3, <1>4, <1>5, <1>6, <1>7, <1>8, <1>9, <1>10, <1>11 DEF Next

\* The locked quota of a project is the sum of the rewards of its open tasks.
THEOREM LockedQuotaIsOpenRewards == Spec => []LockedIsOpenRewards
<1>1. Quota => LockedIsOpenRewards
  BY DEF Quota
<1>. QED
  BY <1>1, LifeCycleInit, LifeCycleStep, QuotaInit, QuotaStep, PTL DEF Spec

\* The tokens in a project's escrow cover the quota it may still spend, so no
\* promised reward is unfunded and no escrow is overdrawn.
THEOREM PromisesAreFunded == Spec => []EscrowCoversQuota
<1>1. Quota => EscrowCoversQuota
  BY DEF Quota
<1>. QED
  BY <1>1, LifeCycleInit, LifeCycleStep, QuotaInit, QuotaStep, PTL DEF Spec

\* No lease is past its end between operations.
THEOREM LeasesAreCurrent == Spec => []NoExpiredLease
<1>1. LifeCycle => NoExpiredLease
  BY DEF LifeCycle
<1>. QED BY <1>1, LifeCycleInvariant, PTL

\* The lease table and the task statuses tell one story.
THEOREM LeasesMatchTasks == Spec => []LeaseMatchesStatus
<1>1. LifeCycle => LeaseMatchesStatus
  BY DEF LifeCycle
<1>. QED BY <1>1, LifeCycleInvariant, PTL

\* No open task is lost from the queue, and no other task is in it.
THEOREM QueueMatchesTasks == Spec => []QueueMatchesStatus
<1>1. LifeCycle => QueueMatchesStatus
  BY DEF LifeCycle
<1>. QED BY <1>1, LifeCycleInvariant, PTL

\* A worker's report counts once for a task.
THEOREM ReportsAreDistinct == Spec => []OneReportPerWorker
<1>1. LifeCycle => OneReportPerWorker
  BY DEF LifeCycle
<1>. QED BY <1>1, LifeCycleInvariant, PTL

-----------------------------------------------------------------------------
\* Outcomes are final.

\* What every step does to the tasks that are closed.
ClosedKept == \A t \in DOMAIN tasks : ~IsOpen(tasks[t]) => tasks'[t] = tasks[t]

LEMMA SubmittedClosedKept ==
  ASSUME LifeCycle, NEW w \in Participants, NEW t, Submitted(w, t), NEW rs, NEW st,
         tasks' = Replaced(t, rs, st)
  PROVE  ClosedKept
<1>1. IsOpen(tasks[t])
  BY SubmissionFacts, HoldsLeaseFacts DEF IsOpen
<1>. QED BY <1>1 DEF ClosedKept, Replaced

LEMMA SubmitResultClosedKept ==
  ASSUME LifeCycle, NEW w \in Participants, NEW t, NEW d \in AllDigests,
         NEW c \in Costs, SubmitResult(w, t, d, c)
  PROVE  ClosedKept
<1>1. Submitted(w, t)
  BY DEF SubmitResult, CompleteTask, ExhaustTask, RejectTask, RequeueTask
<1>2. \E rs, st : tasks' = Replaced(t, rs, st)
  BY <1>1, SubmissionFacts DEF SubmitResult, CompleteTask, ExhaustTask, RejectTask,
     RequeueTask, CloseTask, Replaced
<1>. QED BY <1>1, <1>2, SubmittedClosedKept

LEMMA ClosedStep == LifeCycle /\ [Next]_vars => ClosedKept
<1> SUFFICES ASSUME LifeCycle, [Next]_vars PROVE ClosedKept
  OBVIOUS
<1>1. CASE UNCHANGED tasks
  BY <1>1 DEF ClosedKept
<1>2. ASSUME NEW a \in Participants, NEW p \in ProjectIds, NEW r \in TaskRewards,
             SubmitTask(a, p, r)
      PROVE  ClosedKept
  <2>1. NextTaskId \notin DOMAIN tasks
    BY NextTaskIdFacts DEF LifeCycle
  <2>. QED BY <1>2, <2>1 DEF SubmitTask, Insert, ClosedKept
<1>3. ASSUME NEW w \in Participants, RequestTask(w) PROVE ClosedKept
  <2>1. PICK t \in Offers(w, currentTick) :
          tasks' = [tasks EXCEPT ![t].status = Assigned(w, LeaseEnd)]
    BY <1>3, NothingToReclaim DEF LifeCycle, RequestTask
  <2>2. IsOpen(tasks[t])
    BY NothingToReclaim DEF LifeCycle, Offers, IsOpen
  <2>. QED BY <2>1, <2>2 DEF ClosedKept
<1>4. ASSUME NEW w \in Participants, Refused(w) PROVE ClosedKept
  <2>1. UNCHANGED tasks
    BY <1>4, NothingToReclaim DEF LifeCycle, Refused, Reclaim
  <2>. QED BY <1>1, <2>1
<1>5. ASSUME NEW w \in Participants, NEW t \in TaskIds, Heartbeat(w, t)
      PROVE  ClosedKept
  <2>1. tasks' = [tasks EXCEPT ![t].status = Assigned(w, LeaseEnd)]
    BY <1>5, NothingToReclaim DEF LifeCycle, Heartbeat
  <2>2. IsOpen(tasks[t])
    BY <1>5, HoldsLeaseFacts DEF Heartbeat, IsOpen
  <2>. QED BY <2>1, <2>2 DEF ClosedKept
<1>6. ASSUME NEW n \in TickSteps, Tick(n) PROVE ClosedKept
  BY <1>6 DEF Tick, Reclaim, TasksAfter, Reclaimed, ClosedKept, IsOpen
<1>7. CASE \/ \E a \in Participants, b \in InitialBalances : RegisterParticipant(a, b)
           \/ \E a \in Participants : CreateProject(a)
           \/ \E a, b \in Participants, m \in Amounts : Transfer(a, b, m)
           \/ \E a \in Participants, p \in ProjectIds, m \in Amounts :
                \/ TransferToEscrow(a, p, m)
                \/ DonateToProject(a, p, m)
                \/ FundProject(a, p, m)
           \/ UNCHANGED vars
  <2>1. UNCHANGED tasks
    BY <1>7, ZenonT(60) DEF RegisterParticipant, CreateProject, Transfer, TransferToEscrow,
       DonateToProject, FundProject, vars
  <2>. QED BY <1>1, <2>1
<1>. QED BY <1>2, <1>3, <1>4, <1>5, <1>6, <1>7, SubmitResultClosedKept DEF Next

\* A closed task keeps its outcome.
THEOREM OutcomesAreFinal == Spec => FinalStatusIsFinal
<1>1. LifeCycle /\ [Next]_vars => [ClosedKept]_vars
  BY ClosedStep
<1>. QED
  BY <1>1, LifeCycleInvariant, PTL DEF Spec, FinalStatusIsFinal, ClosedKept

-----------------------------------------------------------------------------
\* Types and the room for reports, which the life cycle rests on.

\* The variables keep their types.
THEOREM NetworkTypes == Spec => []TypeOK
<1>1. LifeCycle => TypeOK
  BY DEF LifeCycle
<1>. QED BY <1>1, LifeCycleInvariant, PTL

\* No open task has as many reports as would reject it.
THEOREM OpenTasksHaveRoom == Spec => []ReportsBelowLimit
<1>1. LifeCycle => ReportsBelowLimit
  BY DEF LifeCycle
<1>. QED BY <1>1, LifeCycleInvariant, PTL

-----------------------------------------------------------------------------
\* Who pays.

\* What every step does to the wallets.
LossIsOwn(a) ==
  wallet'[a] < wallet[a] =>
    LET loss == wallet[a] - wallet'[a]
    IN  \/ loss \in Amounts /\ Spends(a, loss) /\ wallet'[a] >= 0
        \/ loss <= Cardinality(LeasesLost(a)) * MinOf(LeaseSlash, BalanceOf(a))

\* No task handler but the clock takes anything from a wallet: by then there is
\* nothing to reclaim, and a credit is never negative.
LEMMA SubmitResultNoLoss ==
  ASSUME LifeCycle, NEW w \in Participants, NEW t, NEW d \in AllDigests,
         NEW c \in Costs, SubmitResult(w, t, d, c), NEW a \in Participants
  PROVE  wallet'[a] \in Int /\ wallet'[a] >= wallet[a]
<1>1. Submitted(w, t)
  BY DEF SubmitResult, CompleteTask, ExhaustTask, RejectTask, RequeueTask
<1>2. wallet[a] \in Int
  BY AccountTypes
<1>3. CASE wallet' = wallet
  BY <1>2, <1>3
<1>4. CASE CompleteTask(w, t, d, c)
  <2>1. PICK rs : rs = NewReports(w, t, d, c)
    OBVIOUS
  <2>2. rs \in Seq(Reports) /\ reputation \in [Participants -> Nat \ {0}]
    BY <1>1, <2>1, SubmissionFacts, NewReportsFacts, AccountTypes
  <2>3. PICK e : e = AcceptedDigest(rs, reputation)
    OBVIOUS
  <2>4. PICK W : W = Winners(rs, e)
    OBVIOUS
  <2>5. PICK s : s = Shares(tasks[t].reward, [i \in W |-> reputation[rs[i].worker]])
    OBVIOUS
  <2>6. /\ Crossing(rs, reputation) # {}
        /\ wallet' = [b \in Participants |-> wallet[b] + CreditOf(b, rs, W, s)]
    BY <1>1, <1>4, <2>1, <2>3, <2>4, <2>5, SubmissionFacts DEF CompleteTask
  <2>7. /\ IsFiniteSet(W) /\ W # {}
        /\ Weights([i \in W |-> reputation[rs[i].worker]])
    <3>1. W # {}
      BY <2>2, <2>3, <2>4, <2>6, AcceptedDigestFacts
    <3>. QED BY <2>2, <2>4, <3>1, WinnerWeights
  <2>8. \A i \in W : s[i] \in Nat
    <3>1. tasks[t].reward \in Nat
      BY <1>1, SubmissionFacts
    <3>2. DOMAIN [i \in W |-> reputation[rs[i].worker]] = W
      OBVIOUS
    <3>. QED BY <2>5, <2>7, <3>1, <3>2, SharesBound
  <2>9. CreditOf(a, rs, W, s) \in Nat
    BY <2>7, <2>8, CreditType
  <2>. QED BY <1>2, <2>6, <2>9
<1>. QED
  <2>1. CASE ExhaustTask(w, t, d, c) \/ RejectTask(w, t, d, c) \/ RequeueTask(w, t, d, c)
    BY <1>1, <1>3, <2>1, SubmissionFacts DEF ExhaustTask, RejectTask, RequeueTask
  <2>. QED BY <1>4, <2>1 DEF SubmitResult

\* The slashes of a tick are as many as the leases it outruns.
LEMMA LostLeases ==
  ASSUME LifeCycle, NEW n \in TickSteps, Tick(n), NEW a \in Participants
  PROVE  /\ LostBy(a, currentTick + n) \subseteq LeasesLost(a)
         /\ Cardinality(LostBy(a, currentTick + n)) \in Nat
         /\ Cardinality(LeasesLost(a)) \in Nat
         /\ Cardinality(LostBy(a, currentTick + n)) <= Cardinality(LeasesLost(a))
<1>1. PICK now : now = currentTick + n
  OBVIOUS
<1>2. currentTick' = now /\ leases' = LeasesAfter(now)
  BY <1>1 DEF Tick, Reclaim
<1>3. LostBy(a, now) \subseteq LeasesLost(a)
  <2> SUFFICES ASSUME NEW t \in LostBy(a, now) PROVE t \in LeasesLost(a)
    OBVIOUS
  <2>1. t \in Expired(now) /\ leases[t].worker = a
    BY DEF LostBy, Reclaimed
  <2>2. t \in DOMAIN leases /\ leases[t].expires <= now
    BY <2>1 DEF Expired
  <2>3. t \notin DOMAIN leases'
    BY <1>2, <2>1 DEF LeasesAfter, Remove, Restrict
  <2>. QED BY <1>2, <2>1, <2>2, <2>3 DEF LeasesLost
<1>4. IsFiniteSet(LeasesLost(a))
  <2>1. LeasesLost(a) \subseteq DOMAIN tasks
    BY DEF LeasesLost, LifeCycle, TypeOK
  <2>2. IsFiniteSet(DOMAIN tasks)
    BY NextTaskIdFacts DEF LifeCycle
  <2>. QED BY <2>1, <2>2, FS_Subset
<1>. QED BY <1>1, <1>3, <1>4, FS_Subset, FS_CardinalityType

\* The clock takes a slash for every lease that it outruns, and no more.
LEMMA TickLoss ==
  ASSUME LifeCycle, NEW n \in TickSteps, Tick(n), NEW a \in Participants
  PROVE  LossIsOwn(a)
<1>1. PICK k \in Nat : k = Cardinality(LostBy(a, currentTick + n))
  BY LostLeases
<1>2. PICK l \in Nat : l = Cardinality(LeasesLost(a))
  BY LostLeases
<1>3. k <= l
  BY <1>1, <1>2, LostLeases
<1>4. wallet[a] \in Int
  BY AccountTypes
<1>5. PICK s \in Nat : s = MinOf(LeaseSlash, BalanceOf(a))
  BY <1>4, ConfigAssumption, InputAssumption DEF MinOf, BalanceOf, Clamp
<1>6. wallet'[a] = wallet[a] - k * s
  BY <1>1, <1>5 DEF Tick, Reclaim, WalletAfter
<1>7. k * s \in Nat /\ l * s \in Nat /\ k * s <= l * s
  BY <1>3
<1>8. wallet[a] - wallet'[a] <= l * s
  BY <1>4, <1>6, <1>7
<1>. QED BY <1>2, <1>5, <1>8 DEF LossIsOwn

\* What is given away leaves one wallet, which has it.
LEMMA SpendingIsOwn ==
  ASSUME LifeCycle, NEW a \in Participants, NEW b \in Participants, NEW m \in Amounts,
         \/ \E e \in Participants : Transfer(b, e, m)
         \/ \E p \in ProjectIds : TransferToEscrow(b, p, m) \/ DonateToProject(b, p, m)
  PROVE  LossIsOwn(a)
<1>1. wallet \in [Participants -> Int] /\ m \in Nat
  BY AccountTypes, ConfigAssumption, InputAssumption
<1>2. m > 0 => wallet[b] >= m
  <2>1. BalanceOf(b) >= m
    BY DEF Transfer, TransferToEscrow, DonateToProject
  <2>. QED BY <1>1, <2>1 DEF BalanceOf, Clamp
<1>3. CASE \E e \in Participants : Transfer(b, e, m)
  <2>1. PICK e \in Participants : Transfer(b, e, m)
    BY <1>3
  <2>2. wallet' = [[wallet EXCEPT ![b] = @ - m] EXCEPT ![e] = @ + m]
    BY <2>1 DEF Transfer
  <2>3. wallet'[a] < wallet[a] => a = b /\ wallet'[a] = wallet[a] - m
    BY <1>1, <2>2
  <2>4. Spends(b, m)
    BY <2>1 DEF Spends
  <2>. QED BY <1>1, <1>2, <2>3, <2>4 DEF LossIsOwn
<1>4. CASE \E p \in ProjectIds : TransferToEscrow(b, p, m) \/ DonateToProject(b, p, m)
  <2>1. wallet' = [wallet EXCEPT ![b] = @ - m]
    BY <1>4 DEF TransferToEscrow, DonateToProject
  <2>2. wallet'[a] < wallet[a] => a = b /\ wallet'[a] = wallet[a] - m
    BY <1>1, <2>1
  <2>3. Spends(b, m)
    BY <1>4 DEF Spends
  <2>. QED BY <1>1, <1>2, <2>2, <2>3 DEF LossIsOwn
<1>. QED BY <1>3, <1>4

LEMMA LossStep == LifeCycle /\ [Next]_vars => \A a \in Participants : LossIsOwn(a)
<1> SUFFICES ASSUME LifeCycle, [Next]_vars, NEW a \in Participants PROVE LossIsOwn(a)
  OBVIOUS
<1>0. wallet \in [Participants -> Int]
  BY AccountTypes
<1>1. ASSUME wallet'[a] \in Int, wallet'[a] >= wallet[a] PROVE LossIsOwn(a)
  BY <1>0, <1>1 DEF LossIsOwn
<1>2. ASSUME NEW b \in Participants, NEW m \in InitialBalances, RegisterParticipant(b, m)
      PROVE  LossIsOwn(a)
  <2>1. wallet' = [wallet EXCEPT ![b] = @ + m] /\ m \in Nat
    BY <1>2, ConfigAssumption, InputAssumption DEF RegisterParticipant
  <2>2. wallet'[a] \in Int /\ wallet'[a] >= wallet[a]
    BY <1>0, <2>1
  <2>. QED BY <1>1, <2>2
<1>3. CASE \/ \E b, e \in Participants, m \in Amounts : Transfer(b, e, m)
           \/ \E b \in Participants, p \in ProjectIds, m \in Amounts :
                \/ TransferToEscrow(b, p, m)
                \/ DonateToProject(b, p, m)
                \/ FundProject(b, p, m)
  BY <1>3, SpendingIsOwn DEF FundProject
<1>4. ASSUME \/ \E b \in Participants : CreateProject(b)
             \/ \E b \in Participants, p \in ProjectIds, r \in TaskRewards :
                  SubmitTask(b, p, r)
             \/ \E w \in Participants : RequestTask(w)
             \/ \E w \in Participants : Refused(w)
             \/ \E w \in Participants, t \in TaskIds : Heartbeat(w, t)
             \/ UNCHANGED vars
      PROVE  LossIsOwn(a)
  <2>1. WalletAfter(currentTick) = wallet
    BY NothingToReclaim DEF LifeCycle
  <2>2. wallet' = wallet
    BY <1>4, <2>1 DEF CreateProject, SubmitTask, RequestTask, Refused, Reclaim, Heartbeat,
       vars
  <2>. QED BY <1>0, <1>1, <2>2
<1>. QED
  BY <1>1, <1>2, <1>3, <1>4, SubmitResultNoLoss, TickLoss DEF Next

\* Nobody's wallet shrinks by what others do: only by what its owner gives away and
\* has, or by slashes, one for every lease its owner let run out and none above the
\* configured slash or the balance.
THEOREM LossesAreOwnActs == Spec => WalletLossIsOwnAct
<1>1. LifeCycle /\ [Next]_vars => [\A a \in Participants : LossIsOwn(a)]_vars
  BY LossStep
<1>. QED
  BY <1>1, LifeCycleInvariant, PTL DEF Spec, WalletLossIsOwnAct, LossIsOwn

-----------------------------------------------------------------------------
\* Results are accepted by enough weight.

\* The workers behind an accepted digest weigh what is required: the reports that
\* carried it over the limit are distinct workers' and among those that carry it.
LEMMA WinnersWeighEnough ==
  ASSUME NEW rs \in Seq(Reports), NEW rep \in [Participants -> Nat \ {0}],
         \A i, j \in DOMAIN rs : rs[i].worker = rs[j].worker => i = j,
         Crossing(rs, rep) # {}
  PROVE  Sum(WorkersOf(rs, Winners(rs, AcceptedDigest(rs, rep))), rep) >= ConsensusQuorum
<1>1. PICK e : e = AcceptedDigest(rs, rep)
  OBVIOUS
<1>2. PICK i \in Crossing(rs, rep) : i \in DOMAIN rs /\ e = rs[i].digest
  BY <1>1, AcceptedDigestFacts
<1>3. PICK W : W = Winners(rs, e)
  OBVIOUS
<1>4. /\ DOMAIN rs = 1..Len(rs) /\ Len(rs) \in Nat /\ W \subseteq DOMAIN rs
      /\ \A j \in DOMAIN rs : rs[j] \in Reports
  BY <1>3 DEF Winners
<1>5. IsFiniteSet(W)
  BY <1>1, <1>3, AcceptedDigestFacts, WinnerWeights
<1>6. PICK f : f = [j \in W |-> rep[rs[j].worker]]
  OBVIOUS
<1>7. \A j \in W : f[j] \in Nat /\ rs[j].worker \in Participants
  BY <1>4, <1>6 DEF Reports
<1>8. PICK same : same = {j \in 1..i : rs[j].digest = e}
  OBVIOUS
<1>9. same \in SUBSET W
  BY <1>2, <1>3, <1>4, <1>8 DEF Winners
<1>10. Sum(same, [j \in same |-> rep[rs[j].worker]]) = DigestWeight(rs, rep, i)
  BY <1>2, <1>8 DEF DigestWeight
<1>11. Sum(same, f) >= ConsensusQuorum
  <2>1. \A j \in same : f[j] = [k \in same |-> rep[rs[k].worker]][j]
    BY <1>6, <1>9
  <2>2. Sum(same, f) = DigestWeight(rs, rep, i)
    BY <1>10, <2>1, SumAgree
  <2>. QED BY <1>2, <2>2 DEF Crossing
<1>12. Sum(same, f) <= Sum(W, f)
  BY <1>5, <1>7, <1>9, SumMonotone
<1>13. PICK g : g = [j \in W |-> rs[j].worker]
  OBVIOUS
<1>14. {g[j] : j \in W} = WorkersOf(rs, W)
  BY <1>13 DEF WorkersOf
<1>15. Sum(W, f) = Sum(WorkersOf(rs, W), rep)
  <2>1. \A j \in W : f[j] \in Nat /\ rep[g[j]] = f[j]
    BY <1>6, <1>7, <1>13
  <2>2. \A j, k \in W : g[j] = g[k] => j = k
    BY <1>4, <1>13
  <2>3. Sum(W, f) = Sum({g[j] : j \in W}, rep)
    BY <1>5, <2>1, <2>2, SumRenamed
  <2>. QED BY <1>14, <2>3
<1>16. Sum(same, f) \in Nat /\ Sum(W, f) \in Nat
  BY <1>5, <1>7, <1>9, FS_Subset, SumType
<1>. QED BY <1>1, <1>3, <1>11, <1>12, <1>15, <1>16

\* What the step that closes task t leaves of it.
AcceptedWell(t) ==
  Closes(t) /\ tasks'[t].status.kind \in {"Completed", "QuotaExhausted"} =>
    LET st == tasks'[t].status
    IN  /\ st.workers = {w \in Reporters(tasks'[t]) :
             \E i \in DOMAIN tasks'[t].reports :
                /\ tasks'[t].reports[i].worker = w
                /\ tasks'[t].reports[i].digest = st.digest}
        /\ Sum(st.workers, reputation) >= ConsensusQuorum

\* The two outcomes that accept a digest keep the reports, and name the workers
\* of those with that digest.
LEMMA AcceptingOutcome ==
  ASSUME LifeCycle, NEW w \in Participants, NEW t, NEW d \in AllDigests,
         NEW c \in Costs, CompleteTask(w, t, d, c) \/ ExhaustTask(w, t, d, c)
  PROVE  AcceptedWell(t)
<1>1. Submitted(w, t) /\ HoldsLease(w, t)
  BY DEF CompleteTask, ExhaustTask, Submitted
<1>2. PICK rs : rs = NewReports(w, t, d, c)
  OBVIOUS
<1>3. PICK e : e = AcceptedDigest(rs, reputation)
  OBVIOUS
<1>4. PICK W : W = WorkersOf(rs, Winners(rs, e))
  OBVIOUS
<1>5. PICK st : st = Completed(e, W) \/ st = QuotaExhausted(e, W)
  OBVIOUS
<1>6. /\ Crossing(rs, reputation) # {}
      /\ \/ tasks' = Replaced(t, rs, Completed(e, W))
         \/ tasks' = Replaced(t, rs, QuotaExhausted(e, W))
  BY <1>1, <1>2, <1>3, <1>4, SubmissionFacts
     DEF CompleteTask, ExhaustTask, CloseTask, Replaced
<1>7. /\ rs \in Seq(Reports) /\ reputation \in [Participants -> Nat \ {0}]
      /\ \A i, j \in DOMAIN rs : rs[i].worker = rs[j].worker => i = j
  BY <1>1, <1>2, NewReportsFacts, AccountTypes
<1>8. Sum(W, reputation) >= ConsensusQuorum
  BY <1>3, <1>4, <1>6, <1>7, WinnersWeighEnough
<1>9. e \in AllDigests /\ W \in SUBSET Participants
  BY <1>3, <1>4, <1>6, <1>7, AcceptedDigestFacts, WinnerWeights
<1>10. /\ tasks'[t].reports = rs
       /\ \/ tasks'[t].status = Completed(e, W)
          \/ tasks'[t].status = QuotaExhausted(e, W)
  <2>1. t \in DOMAIN tasks /\ TypeOK
    BY <1>1, HoldsLeaseFacts DEF LifeCycle
  <2>2. Completed(e, W) \in Statuses /\ QuotaExhausted(e, W) \in Statuses
    BY <1>9, StatusFacts
  <2>. QED BY <1>6, <1>7, <2>1, <2>2, TaskUpdate
<1>11. tasks'[t].status.workers = W /\ tasks'[t].status.digest = e
  BY <1>10 DEF Completed, QuotaExhausted
<1>12. W = {v \in {rs[i].worker : i \in DOMAIN rs} :
              \E i \in DOMAIN rs : rs[i].worker = v /\ rs[i].digest = e}
  BY <1>4 DEF WorkersOf, Winners
<1>13. Reporters(tasks'[t]) = {rs[i].worker : i \in DOMAIN rs}
  BY <1>10 DEF Reporters
<1>. QED BY <1>8, <1>10, <1>11, <1>12, <1>13 DEF AcceptedWell

\* Every other step leaves the task alone, reopens it or rejects it.
LEMMA SubmitResultAccepts ==
  ASSUME LifeCycle, NEW w \in Participants, NEW u, NEW d \in AllDigests,
         NEW c \in Costs, SubmitResult(w, u, d, c), NEW t \in DOMAIN tasks
  PROVE  AcceptedWell(t)
<1>1. Submitted(w, u) /\ HoldsLease(w, u)
  BY DEF SubmitResult, CompleteTask, ExhaustTask, RejectTask, RequeueTask, Submitted
<1>2. CASE t # u
  <2>1. \E rs, st : tasks' = Replaced(u, rs, st)
    BY <1>1, SubmissionFacts DEF SubmitResult, CompleteTask, ExhaustTask, RejectTask,
       RequeueTask, CloseTask, Replaced
  <2>2. tasks'[t] = tasks[t]
    BY <1>2, <2>1 DEF Replaced
  <2>. QED BY <2>2 DEF AcceptedWell, Closes
<1>3. CASE t = u
  <2>1. CASE CompleteTask(w, u, d, c) \/ ExhaustTask(w, u, d, c)
    BY <1>3, <2>1, AcceptingOutcome
  <2>2. CASE RejectTask(w, u, d, c) \/ RequeueTask(w, u, d, c)
    <3>1. PICK rs : rs = NewReports(w, u, d, c)
      OBVIOUS
    <3>2. tasks' = Replaced(u, rs, Rejected) \/ tasks' = Replaced(u, rs, Pending)
      BY <1>1, <2>2, <3>1, SubmissionFacts DEF RejectTask, RequeueTask, CloseTask, Replaced
    <3>3. rs \in Seq(Reports) /\ Rejected \in Statuses /\ Pending \in Statuses
      BY <1>1, <3>1, NewReportsFacts, StatusFacts
    <3>4. tasks'[t].status = Rejected \/ tasks'[t].status = Pending
      BY <1>3, <3>2, <3>3, TaskUpdate DEF LifeCycle
    <3>. QED BY <3>4, StatusFacts DEF AcceptedWell
  <2>. QED BY <2>1, <2>2 DEF SubmitResult
<1>. QED BY <1>2, <1>3

LEMMA AcceptStep ==
  LifeCycle /\ [Next]_vars => \A t \in DOMAIN tasks : AcceptedWell(t)
<1> SUFFICES ASSUME LifeCycle, [Next]_vars, NEW t \in DOMAIN tasks PROVE AcceptedWell(t)
  OBVIOUS
<1>1. CASE tasks'[t] = tasks[t]
  BY <1>1 DEF AcceptedWell, Closes
<1>2. ASSUME NEW a \in Participants, NEW p \in ProjectIds, NEW r \in TaskRewards,
             SubmitTask(a, p, r)
      PROVE  AcceptedWell(t)
  <2>1. NextTaskId \notin DOMAIN tasks
    BY NextTaskIdFacts DEF LifeCycle
  <2>. QED BY <1>1, <1>2, <2>1 DEF SubmitTask, Insert
<1>3. ASSUME NEW w \in Participants, NEW u \in DOMAIN tasks,
             tasks' = [tasks EXCEPT ![u].status = Assigned(w, LeaseEnd)]
      PROVE  AcceptedWell(t)
  <2>1. Assigned(w, LeaseEnd) \in Statuses /\ Assigned(w, LeaseEnd).kind = "Assigned"
    BY LeaseEndFacts, StatusFacts
  <2>2. PICK st : st = Assigned(w, LeaseEnd)
    OBVIOUS
  <2>3. u # t \/ tasks'[t].status = st
    BY <1>3, <2>1, <2>2, StatusUpdate DEF LifeCycle
  <2>4. CASE u # t
    BY <1>1, <1>3, <2>4
  <2>5. CASE tasks'[t].status = st
    BY <2>1, <2>2, <2>5 DEF AcceptedWell
  <2>. QED BY <2>3, <2>4, <2>5
<1>4. ASSUME NEW w \in Participants, RequestTask(w) PROVE AcceptedWell(t)
  <2>1. PICK u \in Offers(w, currentTick) :
          tasks' = [tasks EXCEPT ![u].status = Assigned(w, LeaseEnd)]
    BY <1>4, NothingToReclaim DEF LifeCycle, RequestTask
  <2>2. u \in DOMAIN tasks
    BY DEF Offers
  <2>. QED BY <1>3, <2>1, <2>2
<1>5. ASSUME NEW w \in Participants, Refused(w) PROVE AcceptedWell(t)
  <2>1. UNCHANGED tasks
    BY <1>5, NothingToReclaim DEF LifeCycle, Refused, Reclaim
  <2>. QED BY <1>1, <2>1
<1>6. ASSUME NEW w \in Participants, NEW u \in TaskIds, Heartbeat(w, u)
      PROVE  AcceptedWell(t)
  <2>1. tasks' = [tasks EXCEPT ![u].status = Assigned(w, LeaseEnd)]
    BY <1>6, NothingToReclaim DEF LifeCycle, Heartbeat
  <2>2. u \in DOMAIN tasks
    BY <1>6, HoldsLeaseFacts DEF Heartbeat
  <2>. QED BY <1>3, <2>1, <2>2
<1>7. ASSUME NEW n \in TickSteps, Tick(n) PROVE AcceptedWell(t)
  <2>1. PICK now : tasks' = TasksAfter(now)
    BY <1>7 DEF Tick, Reclaim
  <2>2. CASE t \notin Reclaimed(now)
    BY <1>1, <2>1, <2>2 DEF TasksAfter
  <2>3. CASE t \in Reclaimed(now)
    <3>1. tasks[t] \in Task
      BY DEF LifeCycle, TypeOK
    <3>2. tasks'[t] = [tasks[t] EXCEPT !.status = Pending]
      BY <2>1, <2>3 DEF TasksAfter
    <3>3. tasks'[t].status = Pending
      BY <3>1, <3>2 DEF Task
    <3>. QED BY <3>3, StatusFacts DEF AcceptedWell
  <2>. QED BY <2>2, <2>3
<1>8. CASE \/ \E a \in Participants, b \in InitialBalances : RegisterParticipant(a, b)
           \/ \E a \in Participants : CreateProject(a)
           \/ \E a, b \in Participants, m \in Amounts : Transfer(a, b, m)
           \/ \E a \in Participants, p \in ProjectIds, m \in Amounts :
                \/ TransferToEscrow(a, p, m)
                \/ DonateToProject(a, p, m)
                \/ FundProject(a, p, m)
           \/ UNCHANGED vars
  <2>1. UNCHANGED tasks
    BY <1>8, ZenonT(60) DEF RegisterParticipant, CreateProject, Transfer, TransferToEscrow,
       DonateToProject, FundProject, vars
  <2>. QED BY <1>1, <2>1
<1>. QED BY <1>2, <1>4, <1>5, <1>6, <1>7, <1>8, SubmitResultAccepts DEF Next

\* Whatever the order of the reports, a digest is accepted only when the workers
\* who reported it, each counted once, bring the required weight together.
THEOREM AcceptanceNeedsQuorum == Spec => AcceptedByQuorum
<1>1. LifeCycle /\ [Next]_vars => [\A t \in DOMAIN tasks : AcceptedWell(t)]_vars
  BY AcceptStep
<1>. QED
  BY <1>1, LifeCycleInvariant, PTL DEF Spec, AcceptedByQuorum, AcceptedWell

-----------------------------------------------------------------------------
\* No tokens from nowhere.

LEMMA HoldersAreFinite == IsFiniteSet(Participants) /\ IsFiniteSet(ProjectIds)
<1>1. MaxProjects \in Nat
  BY InputAssumption
<1>. QED BY <1>1, ParticipantsAssumption, FS_Interval DEF ProjectIds

LEMMA SupplyType ==
  ASSUME TypeOK
  PROVE  /\ NetSum(Participants, wallet) \in Int
         /\ NetSum(ProjectIds, escrow) \in Int
BY HoldersAreFinite, NetFacts DEF TypeOK

LEMMA SameSupply ==
  ASSUME TypeOK, UNCHANGED <<wallet, escrow>>
  PROVE  Supply' <= Supply
BY SupplyType DEF Supply

\* What leaves an escrow, when the wallets change by no more than that.
LEMMA PaidFromEscrow ==
  ASSUME TypeOK, NEW p \in ProjectIds, NEW paid \in Int,
         escrow' = [escrow EXCEPT ![p] = @ - paid],
         NetSum(Participants, wallet') <= NetSum(Participants, wallet) + paid,
         NetSum(Participants, wallet') \in Int
  PROVE  Supply' <= Supply
<1>1. escrow \in [ProjectIds -> Int] /\ escrow[p] \in Int /\ escrow[p] - paid \in Int
  BY DEF TypeOK
<1>2. PICK left : left = escrow'
  OBVIOUS
<1>3. /\ left \in [ProjectIds -> Int] /\ left[p] = escrow[p] - paid
      /\ \A q \in ProjectIds \ {p} : left[q] = escrow[q]
  BY <1>1, <1>2
<1>4. NetSum(ProjectIds, left) = NetSum(ProjectIds, escrow) - escrow[p] + left[p]
  BY <1>1, <1>3, HoldersAreFinite, NetUpdate
<1>. QED BY <1>1, <1>2, <1>3, <1>4, SupplyType DEF Supply

LEMMA TransferSupply ==
  ASSUME TypeOK, NEW a \in Participants, NEW b \in Participants, NEW m \in Amounts,
         Transfer(a, b, m)
  PROVE  Supply' <= Supply
<1>1. m \in Int /\ wallet \in [Participants -> Int]
  BY InputAssumption DEF TypeOK
<1>2. PICK paid : paid = [wallet EXCEPT ![a] = wallet[a] - m]
  OBVIOUS
<1>3. /\ paid \in [Participants -> Int] /\ paid[a] = wallet[a] - m
      /\ \A c \in Participants \ {a} : paid[c] = wallet[c]
  BY <1>1, <1>2
<1>4. /\ wallet' = [paid EXCEPT ![b] = paid[b] + m] /\ UNCHANGED escrow
  BY <1>2 DEF Transfer
<1>5. /\ wallet' \in [Participants -> Int] /\ wallet'[b] = paid[b] + m
      /\ \A c \in Participants \ {b} : wallet'[c] = paid[c]
  BY <1>1, <1>3, <1>4
<1>6. NetSum(Participants, paid) = NetSum(Participants, wallet) - wallet[a] + paid[a]
  BY <1>1, <1>3, HoldersAreFinite, NetUpdate
<1>7. NetSum(Participants, wallet') = NetSum(Participants, paid) - paid[b] + wallet'[b]
  BY <1>3, <1>5, HoldersAreFinite, NetUpdate
<1>8. wallet[a] \in Int /\ paid[b] \in Int
  BY <1>1, <1>3
<1>9. NetSum(Participants, wallet') = NetSum(Participants, wallet)
  BY <1>1, <1>3, <1>5, <1>6, <1>7, <1>8, SupplyType
<1>. QED BY <1>4, <1>9, SupplyType DEF Supply

LEMMA ToEscrowSupply ==
  ASSUME TypeOK, NEW a \in Participants, NEW p \in ProjectIds, NEW m \in Amounts,
         wallet' = [wallet EXCEPT ![a] = @ - m],
         escrow' = [escrow EXCEPT ![p] = @ + m]
  PROVE  Supply' <= Supply
<1>1. /\ m \in Int /\ wallet \in [Participants -> Int] /\ escrow \in [ProjectIds -> Int]
      /\ wallet[a] \in Int /\ escrow[p] \in Int
  <2>1. m \in Int
    BY InputAssumption
  <2>2. wallet \in [Participants -> Int] /\ escrow \in [ProjectIds -> Int]
    BY DEF TypeOK
  <2>. QED BY <2>1, <2>2
<1>2. PICK left, held : left = wallet' /\ held = escrow'
  OBVIOUS
<1>3. /\ left \in [Participants -> Int] /\ left[a] = wallet[a] - m
      /\ \A c \in Participants \ {a} : left[c] = wallet[c]
  BY <1>1, <1>2
<1>4. /\ held \in [ProjectIds -> Int] /\ held[p] = escrow[p] + m
      /\ \A q \in ProjectIds \ {p} : held[q] = escrow[q]
  BY <1>1, <1>2
<1>5. NetSum(Participants, left) = NetSum(Participants, wallet) - wallet[a] + left[a]
  BY <1>1, <1>3, HoldersAreFinite, NetUpdate
<1>6. NetSum(ProjectIds, held) = NetSum(ProjectIds, escrow) - escrow[p] + held[p]
  BY <1>1, <1>4, HoldersAreFinite, NetUpdate
<1>. QED BY <1>1, <1>2, <1>3, <1>4, <1>5, <1>6, SupplyType DEF Supply

\* Slashes are never negative.
LEMMA TickSupply ==
  ASSUME TypeOK, NEW n \in TickSteps, Tick(n)
  PROVE  Supply' <= Supply
<1>1. PICK now : now = currentTick + n
  OBVIOUS
<1>2. now \in Nat
  BY <1>1, InputAssumption DEF TypeOK
<1>3. wallet' = WalletAfter(now) /\ UNCHANGED escrow
  BY <1>1 DEF Tick, Reclaim
<1>4. wallet \in [Participants -> Int] /\ wallet' \in [Participants -> Int]
  BY <1>2, <1>3, ReclaimTypes DEF TypeOK
<1>5. ASSUME NEW a \in Participants PROVE wallet'[a] <= wallet[a]
  <2>1. Cardinality(LostBy(a, now)) \in Nat
    <3>1. IsFiniteSet(DOMAIN tasks)
      BY NextTaskIdFacts
    <3>2. LostBy(a, now) \in SUBSET DOMAIN tasks
      BY DEF LostBy, Reclaimed
    <3>3. IsFiniteSet(LostBy(a, now))
      BY <3>1, <3>2, FS_Subset
    <3>. QED BY <3>3, FS_CardinalityType
  <2>2. MinOf(LeaseSlash, BalanceOf(a)) \in Nat /\ wallet[a] \in Int
    BY <1>4, ConfigAssumption DEF MinOf, BalanceOf, Clamp
  <2>3. \A k, s \in Nat, v \in Int : v - k * s <= v
    <3>1. \A k, s \in Nat : k * s \in Nat
      OBVIOUS
    <3>. QED BY <3>1
  <2>4. wallet'[a] = wallet[a] - Cardinality(LostBy(a, now)) * MinOf(LeaseSlash, BalanceOf(a))
    BY <1>3, Zenon DEF WalletAfter
  <2>. QED BY <2>1, <2>2, <2>3, <2>4
<1>6. NetSum(Participants, wallet') <= NetSum(Participants, wallet)
  BY <1>4, <1>5, HoldersAreFinite, NetPointwise
<1>7. NetSum(Participants, wallet') \in Int
  BY <1>4, HoldersAreFinite, NetFacts
<1>. QED BY <1>3, <1>6, <1>7, SupplyType DEF Supply

\* What the winners are credited is what they are paid: each reported once.
LEMMA CreditsAreShares ==
  ASSUME NEW rs \in Seq(Reports),
         \A i, j \in DOMAIN rs : rs[i].worker = rs[j].worker => i = j,
         NEW W \in SUBSET DOMAIN rs, IsFiniteSet(W), NEW s, \A i \in W : s[i] \in Nat,
         NEW credit, credit \in [Participants -> Nat],
         \A a \in Participants : credit[a] = CreditOf(a, rs, W, s)
  PROVE  Sum(Participants, credit) = Sum(W, s)
<1>1. PICK g : g = [i \in W |-> rs[i].worker]
  OBVIOUS
<1>2. \A i \in W : g[i] = rs[i].worker /\ g[i] \in Participants
  <2>1. \A i \in DOMAIN rs : rs[i] \in Reports
    OBVIOUS
  <2>. QED BY <1>1, <2>1 DEF Reports
<1>3. \A i \in W : s[i] \in Nat /\ credit[g[i]] = s[i]
  <2> SUFFICES ASSUME NEW i \in W PROVE credit[g[i]] = s[i]
    OBVIOUS
  <2>1. {j \in W : rs[j].worker = g[i]} = {i}
    BY <1>2
  <2>2. credit[g[i]] = Sum({i}, s)
    BY <1>2, <2>1 DEF CreditOf
  <2>3. Sum({} \cup {i}, s) = Sum({}, s) + s[i]
    BY FS_EmptySet, SumAdd
  <2>4. {} \cup {i} = {i} /\ Sum({}, s) = 0
    BY SumEmpty
  <2>. QED BY <2>2, <2>3, <2>4
<1>4. \A i, j \in W : g[i] = g[j] => i = j
  BY <1>2
<1>5. PICK T : T = {g[i] : i \in W}
  OBVIOUS
<1>6. Sum(W, s) = Sum(T, credit)
  <2>1. \A i \in W : s[i] \in Nat /\ credit[g[i]] = s[i] /\ g[i] \in T
    BY <1>3, <1>5
  <2>2. \A t \in T : \E i \in W : g[i] = t
    BY <1>5
  <2>. QED BY <1>4, <2>1, <2>2, SumBijection
<1>7. T \in SUBSET Participants
  BY <1>2, <1>5
<1>8. ASSUME NEW a \in Participants \ T PROVE credit[a] = 0
  <2>1. {j \in W : rs[j].worker = a} = {}
    BY <1>2, <1>5, <1>8
  <2>2. credit[a] = Sum({}, s)
    BY <2>1 DEF CreditOf
  <2>. QED BY <2>2, SumEmpty
<1>9. Sum(Participants, credit) = Sum(T, credit)
  BY <1>7, <1>8, SumSupport
<1>. QED BY <1>6, <1>9

LEMMA CompleteTaskSupply ==
  ASSUME LifeCycle, NEW w \in Participants, NEW t, NEW d \in AllDigests,
         NEW c \in Costs, CompleteTask(w, t, d, c)
  PROVE  Supply' <= Supply
<1>1. Submitted(w, t) /\ TypeOK
  BY DEF CompleteTask, LifeCycle
<1>2. PICK rs : rs = NewReports(w, t, d, c)
  OBVIOUS
<1>3. /\ rs \in Seq(Reports) /\ reputation \in [Participants -> Nat \ {0}]
      /\ \A i, j \in DOMAIN rs : rs[i].worker = rs[j].worker => i = j
  BY <1>1, <1>2, SubmissionFacts, NewReportsFacts, AccountTypes
<1>4. PICK e : e = AcceptedDigest(rs, reputation)
  OBVIOUS
<1>5. PICK W : W = Winners(rs, e)
  OBVIOUS
<1>6. PICK s : s = Shares(tasks[t].reward, [i \in W |-> reputation[rs[i].worker]])
  OBVIOUS
<1>7. PICK p : p = tasks[t].project
  OBVIOUS
<1>8. /\ Crossing(rs, reputation) # {}
      /\ escrow' = [escrow EXCEPT ![p] = @ - Sum(W, s)]
      /\ wallet' = [a \in Participants |-> wallet[a] + CreditOf(a, rs, W, s)]
  BY <1>1, <1>2, <1>4, <1>5, <1>6, <1>7, SubmissionFacts DEF CompleteTask
<1>9. /\ IsFiniteSet(W) /\ W # {} /\ W \subseteq DOMAIN rs
      /\ Weights([i \in W |-> reputation[rs[i].worker]])
  <2>1. W # {}
    BY <1>3, <1>4, <1>5, <1>8, AcceptedDigestFacts
  <2>2. W \subseteq DOMAIN rs
    BY <1>5 DEF Winners
  <2>. QED BY <1>3, <1>5, <2>1, <2>2, WinnerWeights
<1>10. \A i \in W : s[i] \in Nat
  <2>1. tasks[t].reward \in Nat
    BY <1>1, SubmissionFacts
  <2>2. DOMAIN [i \in W |-> reputation[rs[i].worker]] = W
    OBVIOUS
  <2>. QED BY <1>6, <1>9, <2>1, <2>2, SharesBound
<1>11. PICK credit : credit = [a \in Participants |-> CreditOf(a, rs, W, s)]
  OBVIOUS
<1>12. credit \in [Participants -> Nat] /\ Sum(Participants, credit) = Sum(W, s)
  <2>1. \A a \in Participants : credit[a] = CreditOf(a, rs, W, s)
    BY <1>11
  <2>2. credit \in [Participants -> Nat]
    BY <1>9, <1>10, <1>11, CreditType
  <2>3. W \in SUBSET DOMAIN rs /\ IsFiniteSet(W)
    BY <1>9
  <2>4. rs \in Seq(Reports) /\ \A i, j \in DOMAIN rs : rs[i].worker = rs[j].worker => i = j
    BY <1>3
  <2>. QED BY <1>10, <2>1, <2>2, <2>3, <2>4, CreditsAreShares
<1>13. wallet' = [a \in Participants |-> wallet[a] + credit[a]]
  BY <1>8, <1>11
<1>14. wallet \in [Participants -> Int]
  BY <1>1 DEF TypeOK
<1>15. NetSum(Participants, wallet') = NetSum(Participants, wallet) + Sum(W, s)
  BY <1>12, <1>13, <1>14, HoldersAreFinite, NetCredited
<1>16. Sum(W, s) \in Int /\ p \in ProjectIds
  BY <1>1, <1>7, <1>9, <1>10, SumType, SubmissionFacts
<1>17. NetSum(Participants, wallet) \in Int
  BY <1>1, SupplyType
<1>18. /\ NetSum(Participants, wallet') \in Int
       /\ NetSum(Participants, wallet') <= NetSum(Participants, wallet) + Sum(W, s)
  BY <1>15, <1>16, <1>17
<1>. QED BY <1>1, <1>8, <1>16, <1>18, PaidFromEscrow

LEMMA ExhaustTaskSupply ==
  ASSUME LifeCycle, NEW w \in Participants, NEW t, NEW d \in AllDigests,
         NEW c \in Costs, ExhaustTask(w, t, d, c)
  PROVE  Supply' <= Supply
<1>1. Submitted(w, t) /\ TypeOK
  BY DEF ExhaustTask, LifeCycle
<1>2. PICK p, r : p = tasks[t].project /\ r = tasks[t].reward
  OBVIOUS
<1>3. p \in ProjectIds /\ r \in Int
  BY <1>1, <1>2, SubmissionFacts
<1>4. escrow' = [escrow EXCEPT ![p] = @ - r] /\ UNCHANGED wallet
  BY <1>1, <1>2, SubmissionFacts DEF ExhaustTask, Burned
<1>5. NetSum(Participants, wallet) \in Int
  BY <1>1, SupplyType
<1>6. /\ NetSum(Participants, wallet') \in Int
      /\ NetSum(Participants, wallet') <= NetSum(Participants, wallet) + r
  <2>1. r \in Nat
    BY <1>1, <1>2, SubmissionFacts
  <2>. QED BY <1>4, <1>5, <2>1
<1>. QED BY <1>1, <1>3, <1>4, <1>6, PaidFromEscrow

LEMMA SupplyStep ==
  ASSUME LifeCycle, [Next]_vars, registered' = registered
  PROVE  Supply' <= Supply
<1>0. TypeOK
  BY DEF LifeCycle
<1>1. ASSUME NEW a \in Participants, NEW m \in InitialBalances, RegisterParticipant(a, m)
      PROVE  FALSE
  BY <1>1 DEF RegisterParticipant
<1>2. CASE \/ \E a \in Participants : CreateProject(a)
           \/ \E a \in Participants, p \in ProjectIds, r \in TaskRewards : SubmitTask(a, p, r)
           \/ UNCHANGED vars
  <2>1. UNCHANGED <<wallet, escrow>>
    BY <1>2 DEF CreateProject, SubmitTask, vars
  <2>. QED BY <1>0, <2>1, SameSupply
<1>3. ASSUME NEW a \in Participants, NEW p \in ProjectIds, NEW m \in Amounts,
             \/ TransferToEscrow(a, p, m)
             \/ DonateToProject(a, p, m)
             \/ FundProject(a, p, m)
      PROVE  Supply' <= Supply
  <2>1. /\ wallet' = [wallet EXCEPT ![a] = @ - m]
        /\ escrow' = [escrow EXCEPT ![p] = @ + m]
    BY <1>3 DEF TransferToEscrow, DonateToProject, FundProject
  <2>. QED BY <1>0, <2>1, ToEscrowSupply
<1>4. ASSUME \/ \E w \in Participants : RequestTask(w)
             \/ \E w \in Participants : Refused(w)
             \/ \E w \in Participants, t \in TaskIds : Heartbeat(w, t)
      PROVE  Supply' <= Supply
  <2>1. WalletAfter(currentTick) = wallet
    BY NothingToReclaim DEF LifeCycle
  <2>2. UNCHANGED <<wallet, escrow>>
    BY <1>4, <2>1 DEF RequestTask, Refused, Reclaim, Heartbeat
  <2>. QED BY <1>0, <2>2, SameSupply
<1>5. ASSUME NEW w \in Participants, NEW t \in TaskIds, NEW d \in AllDigests, NEW c \in Costs,
             RejectTask(w, t, d, c) \/ RequeueTask(w, t, d, c)
      PROVE  Supply' <= Supply
  <2>1. Submitted(w, t)
    BY <1>5 DEF RejectTask, RequeueTask
  <2>2. UNCHANGED <<wallet, escrow>>
    BY <1>5, <2>1, SubmissionFacts DEF RejectTask, RequeueTask
  <2>. QED BY <1>0, <2>2, SameSupply
<1>. QED
  BY <1>0, <1>1, <1>2, <1>3, <1>4, <1>5, TransferSupply, TickSupply, CompleteTaskSupply,
     ExhaustTaskSupply DEF Next, SubmitResult

\* Whatever is transferred, paid, burned, refunded or slashed, and in whatever
\* order: apply_op leaves no more tokens than there were, unless it registers.
THEOREM TokensComeFromRegistration == Spec => OnlyRegistrationMints
<1>1. LifeCycle /\ [Next]_vars => [registered' = registered => Supply' <= Supply]_vars
  BY SupplyStep
<1>. QED BY <1>1, LifeCycleInvariant, PTL DEF Spec, OnlyRegistrationMints

-----------------------------------------------------------------------------
\* What leaves the escrow.

\* SharesExact asks that no product of a reward and a reputation saturates a
\* u64.  A reputation starts at 1 and gains ReputationReward with a completed
\* task at most, so this bounds the configuration and the rewards, not the states.
NoSaturation ==
  \A r \in TaskRewards : r * (1 + ReputationReward * MaxTasks) <= MaxU64

\* The closed tasks, and the inductive invariant they bound the reputations by.
Done == {t \in DOMAIN tasks : ~IsOpen(tasks[t])}

Reputed ==
  \A a \in Participants :
    reputation[a] <= 1 + ReputationReward * Cardinality(Done)

\* Tasks are numbered 1..n, so there are at most MaxTasks in any set of them.
LEMMA TaskCount ==
  ASSUME NEW n \in 0..MaxTasks, NEW S \in SUBSET (1..n)
  PROVE  IsFiniteSet(S) /\ Cardinality(S) \in Nat /\ Cardinality(S) <= MaxTasks
<1>1. n \in Int /\ 1 \in Int /\ n <= MaxTasks /\ n >= 0
  OBVIOUS
<1>2. IsFiniteSet(1..n) /\ Cardinality(1..n) = IF 1 > n THEN 0 ELSE n - 1 + 1
  BY <1>1, FS_Interval
<1>3. IsFiniteSet(S) /\ Cardinality(S) <= Cardinality(1..n)
  BY <1>2, FS_Subset
<1>4. Cardinality(S) \in Nat
  BY <1>3, FS_CardinalityType
<1>. QED BY <1>1, <1>2, <1>3, <1>4

\* No step drops a task from the table, and a closed one stays closed.
LEMMA DoneGrows ==
  ASSUME LifeCycle, [Next]_vars
  PROVE  Done \subseteq Done'
<1>1. ClosedKept
  BY ClosedStep
<1>2. DOMAIN tasks \subseteq DOMAIN tasks'
  <2>1. CASE UNCHANGED tasks
    BY <2>1
  <2>2. ASSUME NEW a \in Participants, NEW p \in ProjectIds, NEW r \in TaskRewards,
               SubmitTask(a, p, r)
        PROVE  DOMAIN tasks \subseteq DOMAIN tasks'
    BY <2>2 DEF SubmitTask, Insert
  <2>3. ASSUME NEW w \in Participants, RequestTask(w)
        PROVE  DOMAIN tasks \subseteq DOMAIN tasks'
    BY <2>3, NothingToReclaim DEF LifeCycle, RequestTask
  <2>4. ASSUME NEW w \in Participants, Refused(w)
        PROVE  DOMAIN tasks \subseteq DOMAIN tasks'
    BY <2>4, NothingToReclaim DEF LifeCycle, Refused, Reclaim
  <2>5. ASSUME NEW w \in Participants, NEW t \in TaskIds, Heartbeat(w, t)
        PROVE  DOMAIN tasks \subseteq DOMAIN tasks'
    BY <2>5, NothingToReclaim DEF LifeCycle, Heartbeat
  <2>6. ASSUME NEW n \in TickSteps, Tick(n) PROVE DOMAIN tasks \subseteq DOMAIN tasks'
    BY <2>6 DEF Tick, Reclaim, TasksAfter
  <2>7. ASSUME NEW w \in Participants, NEW t \in TaskIds, NEW d \in AllDigests,
               NEW c \in Costs, SubmitResult(w, t, d, c)
        PROVE  DOMAIN tasks \subseteq DOMAIN tasks'
    <3>1. Submitted(w, t)
      BY <2>7 DEF SubmitResult, CompleteTask, ExhaustTask, RejectTask, RequeueTask
    <3>2. \E rs, st : tasks' = Replaced(t, rs, st)
      BY <2>7, <3>1, SubmissionFacts DEF SubmitResult, CompleteTask, ExhaustTask,
         RejectTask, RequeueTask, CloseTask, Replaced
    <3>. QED BY <3>2 DEF Replaced
  <2>8. CASE \/ \E a \in Participants, b \in InitialBalances : RegisterParticipant(a, b)
             \/ \E a \in Participants : CreateProject(a)
             \/ \E a, b \in Participants, m \in Amounts : Transfer(a, b, m)
             \/ \E a \in Participants, p \in ProjectIds, m \in Amounts :
                  \/ TransferToEscrow(a, p, m)
                  \/ DonateToProject(a, p, m)
                  \/ FundProject(a, p, m)
             \/ UNCHANGED vars
    <3>1. UNCHANGED tasks
      BY <2>8, ZenonT(60) DEF RegisterParticipant, CreateProject, Transfer,
         TransferToEscrow, DonateToProject, FundProject, vars
    <3>. QED BY <2>1, <3>1
  <2>. QED BY <2>2, <2>3, <2>4, <2>5, <2>6, <2>7, <2>8 DEF Next
<1>. QED BY <1>1, <1>2 DEF Done, ClosedKept

\* A reputation rises only in the step that closes a task, by one reward.
Rises(a) ==
  \/ reputation'[a] <= reputation[a]
  \/ /\ reputation'[a] <= reputation[a] + ReputationReward
     /\ \E t \in Done' : t \notin Done

LEMMA PenaltyLowers ==
  ASSUME NEW r \in Nat \ {0}, NEW n \in Nat
  PROVE  Penalized(r, n) \in Nat \ {0} /\ Penalized(r, n) <= r
BY DEF Penalized

LEMMA CompleteTaskRises ==
  ASSUME LifeCycle, NEW w \in Participants, NEW t, NEW d \in AllDigests,
         NEW c \in Costs, CompleteTask(w, t, d, c), NEW a \in Participants
  PROVE  Rises(a)
<1>1. Submitted(w, t)
  BY DEF CompleteTask
<1>2. PICK rs : rs = NewReports(w, t, d, c)
  OBVIOUS
<1>3. rs \in Seq(Reports) /\ reputation \in [Participants -> Nat \ {0}]
  BY <1>1, <1>2, SubmissionFacts, NewReportsFacts, AccountTypes
<1>4. PICK e : e = AcceptedDigest(rs, reputation)
  OBVIOUS
<1>5. PICK W : W = Winners(rs, e)
  OBVIOUS
<1>6. /\ Crossing(rs, reputation) # {}
      /\ tasks' = Replaced(t, rs, Completed(e, WorkersOf(rs, W)))
  BY <1>1, <1>2, <1>4, <1>5, SubmissionFacts DEF CompleteTask, CloseTask, Replaced
<1>7. reputation' = [b \in Participants |->
         IF b \in WorkersOf(rs, W) THEN reputation[b] + ReputationReward
         ELSE IF b \in WorkersOf(rs, DOMAIN rs \ W)
           THEN Penalized(reputation[b], ReputationPenalty)
         ELSE reputation[b]]
  <2>1. ReputationAfter(currentTick) = reputation
    BY <1>1, SubmissionFacts
  <2>. QED BY <1>2, <1>4, <1>5, <2>1 DEF CompleteTask
<1>8. reputation'[a] <= reputation[a] + ReputationReward
  <2>1. reputation[a] \in Nat \ {0} /\ ReputationReward \in Nat
    BY <1>3
  <2>2. /\ Penalized(reputation[a], ReputationPenalty) \in Nat
        /\ Penalized(reputation[a], ReputationPenalty) <= reputation[a]
    BY <2>1, PenaltyLowers
  <2>. QED BY <1>7, <2>1, <2>2
<1>9. e \in AllDigests /\ W # {}
  BY <1>3, <1>4, <1>5, <1>6, AcceptedDigestFacts
<1>10. WorkersOf(rs, W) \in SUBSET Participants
  BY <1>3, <1>5, <1>9, WinnerWeights
<1>11. PICK st : st = Completed(e, WorkersOf(rs, W))
  OBVIOUS
<1>12. st \in Statuses /\ st.kind = "Completed"
  BY <1>9, <1>10, <1>11, StatusFacts
<1>13. t \in DOMAIN tasks /\ tasks[t].status.kind = "Assigned" /\ TypeOK
  BY <1>1, SubmissionFacts, HoldsLeaseFacts DEF LifeCycle
<1>14. t \in DOMAIN tasks' /\ tasks'[t].status = st
  BY <1>3, <1>6, <1>11, <1>12, <1>13, TaskUpdate
<1>15. t \in Done' /\ t \notin Done
  BY <1>12, <1>13, <1>14 DEF Done, IsOpen
<1>. QED BY <1>8, <1>15 DEF Rises

LEMMA TickRises ==
  ASSUME LifeCycle, NEW n \in TickSteps, Tick(n), NEW a \in Participants
  PROVE  Rises(a)
<1>1. PICK now : now = currentTick + n
  OBVIOUS
<1>2. reputation' = ReputationAfter(now)
  BY <1>1 DEF Tick, Reclaim
<1>3. PICK k : k = Cardinality(LostBy(a, now))
  OBVIOUS
<1>4. k \in Nat
  <2>1. IsFiniteSet(DOMAIN tasks)
    BY NextTaskIdFacts DEF LifeCycle
  <2>2. LostBy(a, now) \in SUBSET DOMAIN tasks
    BY DEF LostBy, Reclaimed
  <2>3. IsFiniteSet(LostBy(a, now))
    BY <2>1, <2>2, FS_Subset
  <2>. QED BY <1>3, <2>3, FS_CardinalityType
<1>5. k * ReputationPenalty \in Nat
  BY <1>4
<1>6. reputation'[a] = Penalized(reputation[a], k * ReputationPenalty)
  BY <1>2, <1>3, Zenon DEF ReputationAfter
<1>7. reputation[a] \in Nat \ {0}
  BY AccountTypes
<1>. QED BY <1>5, <1>6, <1>7, PenaltyLowers DEF Rises

LEMMA RejectTaskRises ==
  ASSUME LifeCycle, NEW w \in Participants, NEW t, NEW d \in AllDigests,
         NEW c \in Costs, RejectTask(w, t, d, c), NEW a \in Participants
  PROVE  Rises(a)
<1>1. Submitted(w, t)
  BY DEF RejectTask
<1>2. PICK ws : reputation' = [b \in Participants |->
                  IF b \in ws THEN Penalized(reputation[b], ReputationPenalty)
                             ELSE reputation[b]]
  BY <1>1, SubmissionFacts DEF RejectTask
<1>3. reputation[a] \in Nat \ {0}
  BY AccountTypes
<1>4. Penalized(reputation[a], ReputationPenalty) <= reputation[a]
  BY <1>3, PenaltyLowers
<1>. QED BY <1>2, <1>3, <1>4 DEF Rises

LEMMA RiseStep ==
  ASSUME LifeCycle, [Next]_vars, NEW a \in Participants
  PROVE  Rises(a)
<1>1. reputation[a] \in Nat \ {0}
  BY AccountTypes
<1>2. ASSUME UNCHANGED reputation PROVE Rises(a)
  BY <1>1, <1>2 DEF Rises
<1>3. CASE \/ \E b \in Participants, m \in InitialBalances : RegisterParticipant(b, m)
           \/ \E b \in Participants : CreateProject(b)
           \/ \E b, e \in Participants, m \in Amounts : Transfer(b, e, m)
           \/ \E b \in Participants, p \in ProjectIds, m \in Amounts :
                \/ TransferToEscrow(b, p, m)
                \/ DonateToProject(b, p, m)
                \/ FundProject(b, p, m)
           \/ \E b \in Participants, p \in ProjectIds, r \in TaskRewards :
                SubmitTask(b, p, r)
           \/ UNCHANGED vars
  <2>1. UNCHANGED reputation
    BY <1>3, ZenonT(60) DEF RegisterParticipant, CreateProject, Transfer,
       TransferToEscrow, DonateToProject, FundProject, SubmitTask, vars
  <2>. QED BY <1>2, <2>1
<1>4. CASE \/ \E w \in Participants : RequestTask(w)
           \/ \E w \in Participants : Refused(w)
           \/ \E w \in Participants, t \in TaskIds : Heartbeat(w, t)
  <2>1. ReputationAfter(currentTick) = reputation
    BY NothingToReclaim DEF LifeCycle
  <2>2. UNCHANGED reputation
    BY <1>4, <2>1 DEF RequestTask, Refused, Reclaim, Heartbeat
  <2>. QED BY <1>2, <2>2
<1>5. ASSUME NEW w \in Participants, NEW t \in TaskIds, NEW d \in AllDigests,
             NEW c \in Costs, ExhaustTask(w, t, d, c) \/ RequeueTask(w, t, d, c)
      PROVE  Rises(a)
  <2>1. Submitted(w, t)
    BY <1>5 DEF ExhaustTask, RequeueTask
  <2>2. UNCHANGED reputation
    BY <1>5, <2>1, SubmissionFacts DEF ExhaustTask, RequeueTask
  <2>. QED BY <1>2, <2>2
<1>. QED
  BY <1>3, <1>4, <1>5, CompleteTaskRises, RejectTaskRises, TickRises DEF Next, SubmitResult

LEMMA ReputedInit == Init => Reputed
<1> SUFFICES ASSUME Init, NEW a \in Participants
             PROVE  reputation[a] <= 1 + ReputationReward * Cardinality(Done)
  BY DEF Reputed
<1>1. Done = {} /\ reputation[a] = 1
  BY DEF Init, Done
<1>2. Cardinality(Done) = 0
  BY <1>1, FS_EmptySet
<1>. QED BY <1>1, <1>2

LEMMA ReputedStep ==
  ASSUME LifeCycle, Reputed, [Next]_vars
  PROVE  Reputed'
<1> SUFFICES ASSUME NEW a \in Participants
             PROVE  reputation'[a] <= 1 + ReputationReward * Cardinality(Done')
  BY DEF Reputed
<1>1. LifeCycle'
  BY LifeCycleStep
<1>2. PICK k : k = Cardinality(Done)
  OBVIOUS
<1>3. PICK m : m = Cardinality(Done')
  OBVIOUS
<1>4. k \in Nat
  <2>1. PICK n \in 0..MaxTasks : DOMAIN tasks = 1..n
    BY DEF LifeCycle, TypeOK
  <2>2. Done \in SUBSET (1..n)
    BY <2>1 DEF Done
  <2>. QED BY <1>2, <2>2, TaskCount
<1>5. m \in Nat /\ IsFiniteSet(Done')
  <2>1. PICK n \in 0..MaxTasks : DOMAIN tasks' = 1..n
    BY <1>1 DEF LifeCycle, TypeOK
  <2>2. Done' \in SUBSET (1..n)
    BY <2>1 DEF Done
  <2>. QED BY <1>3, <2>2, TaskCount
<1>6. Done \subseteq Done'
  BY DoneGrows
<1>7. k <= m
  BY <1>2, <1>3, <1>5, <1>6, FS_Subset
<1>8. reputation[a] \in Nat /\ reputation'[a] \in Nat /\ reputation[a] <= 1 + ReputationReward * k
  BY <1>1, <1>2 DEF LifeCycle, TypeOK, Reputed
<1>9. \A R, x, y \in Nat : x <= y => R * x <= R * y /\ R * x \in Nat /\ R * y \in Nat
  <2> SUFFICES ASSUME NEW R \in Nat, NEW x \in Nat, NEW y \in Nat, x <= y
               PROVE  R * x <= R * y /\ R * x \in Nat /\ R * y \in Nat
    OBVIOUS
  <2>1. PICK z \in Nat : y = x + z
    <3>1. y - x \in Nat /\ y = x + (y - x)
      OBVIOUS
    <3>. QED BY <3>1
  <2>2. R * y = R * x + R * z /\ R * x \in Nat /\ R * z \in Nat
    BY <2>1
  <2>. QED BY <2>2
<1>10. CASE reputation'[a] <= reputation[a]
  <2>1. ReputationReward * k <= ReputationReward * m
    BY <1>4, <1>5, <1>7, <1>9
  <2>2. ReputationReward * k \in Nat /\ ReputationReward * m \in Nat
    BY <1>4, <1>5
  <2>. QED BY <1>3, <1>8, <1>10, <2>1, <2>2
<1>11. ASSUME reputation'[a] <= reputation[a] + ReputationReward,
              NEW t \in Done', t \notin Done
       PROVE  reputation'[a] <= 1 + ReputationReward * m
  <2>1. k + 1 <= m
    <3>1. Cardinality(Done) # Cardinality(Done')
      BY <1>5, <1>6, <1>11, FS_Subset
    <3>. QED BY <1>2, <1>3, <1>4, <1>5, <1>7, <3>1
  <2>2. ReputationReward * (k + 1) <= ReputationReward * m
    BY <1>4, <1>5, <1>9, <2>1
  <2>3. ReputationReward * (k + 1) = ReputationReward * k + ReputationReward
    BY <1>4
  <2>4. ReputationReward * k \in Nat /\ ReputationReward * m \in Nat
    BY <1>4, <1>5
  <2>. QED BY <1>8, <1>11, <2>2, <2>3, <2>4
<1>. QED BY <1>3, <1>10, <1>11, RiseStep DEF Rises

\* What every step takes from the escrow of project p.
PaysReward(p) ==
  escrow'[p] < escrow[p] =>
    \E t \in DOMAIN tasks :
      /\ Closes(t)
      /\ tasks[t].project = p
      /\ tasks'[t].status.kind \in {"Completed", "QuotaExhausted"}
      /\ escrow[p] - escrow'[p] = tasks[t].reward

\* The reward of a task, times the reputation of any of its winners, fits.
LEMMA ProductFits ==
  ASSUME NoSaturation, LifeCycle, Reputed, NEW a \in Participants, NEW r \in TaskRewards
  PROVE  r * reputation[a] <= MaxU64
<1>1. PICK k : k = Cardinality(Done)
  OBVIOUS
<1>2. k \in Nat /\ k <= MaxTasks
  <2>1. PICK n \in 0..MaxTasks : DOMAIN tasks = 1..n
    BY DEF LifeCycle, TypeOK
  <2>2. Done \in SUBSET (1..n)
    BY <2>1 DEF Done
  <2>. QED BY <1>1, <2>2, TaskCount
<1>3. PICK x, y : x = reputation[a] /\ y = 1 + ReputationReward * MaxTasks
  OBVIOUS
<1>4. \A i, j, l \in Nat : i <= j => l * i <= l * j
  <2> SUFFICES ASSUME NEW i \in Nat, NEW j \in Nat, NEW l \in Nat, i <= j
               PROVE  l * i <= l * j
    OBVIOUS
  <2>1. PICK z \in Nat : j = i + z
    <3>1. j - i \in Nat /\ j = i + (j - i)
      OBVIOUS
    <3>. QED BY <3>1
  <2>2. l * j = l * i + l * z /\ l * i \in Nat /\ l * z \in Nat
    BY <2>1
  <2>. QED BY <2>2
<1>5. ReputationReward * k <= ReputationReward * MaxTasks
  BY <1>2, <1>4
<1>6. ReputationReward * k \in Nat /\ ReputationReward * MaxTasks \in Nat
  BY <1>2
<1>7. x \in Nat /\ x <= 1 + ReputationReward * k
  BY <1>1, <1>3, AccountTypes DEF Reputed
<1>8. y \in Nat /\ x <= y
  BY <1>3, <1>5, <1>6, <1>7
<1>9. r \in Nat /\ r * y <= MaxU64
  BY <1>3 DEF NoSaturation
<1>10. r * x <= r * y
  BY <1>4, <1>7, <1>8, <1>9
<1>11. r * x \in Nat /\ r * y \in Nat
  BY <1>7, <1>8, <1>9
<1>. QED BY <1>3, <1>9, <1>10, <1>11, MaxU64Assumption

\* A submission that closes its task and takes its reward from the escrow.
LEMMA OutcomePays ==
  ASSUME LifeCycle, NEW w \in Participants, NEW t, Submitted(w, t),
         NEW rs \in Seq(Reports), NEW st \in Statuses,
         st.kind \in {"Completed", "QuotaExhausted"},
         tasks' = Replaced(t, rs, st),
         escrow' = [escrow EXCEPT ![tasks[t].project] = @ - tasks[t].reward],
         NEW p \in ProjectIds
  PROVE  PaysReward(p)
<1>1. /\ t \in DOMAIN tasks /\ tasks[t].status.kind = "Assigned" /\ TypeOK
      /\ tasks[t].project \in ProjectIds /\ tasks[t].reward \in Nat
  BY SubmissionFacts, HoldsLeaseFacts DEF LifeCycle
<1>2. tasks'[t].status = st
  BY <1>1, TaskUpdate
<1>3. Closes(t)
  BY <1>1, <1>2 DEF Closes, IsOpen
<1>4. escrow \in [ProjectIds -> Int]
  BY <1>1 DEF TypeOK
<1>5. CASE tasks[t].project = p
  <2>1. escrow'[p] = escrow[p] - tasks[t].reward /\ escrow[p] \in Int
    BY <1>4, <1>5
  <2>2. escrow[p] - escrow'[p] = tasks[t].reward
    BY <1>1, <2>1
  <2>. QED BY <1>1, <1>2, <1>3, <1>5, <2>2 DEF PaysReward
<1>6. CASE tasks[t].project # p
  <2>1. escrow'[p] = escrow[p] /\ escrow[p] \in Int
    BY <1>4, <1>6
  <2>. QED BY <2>1 DEF PaysReward
<1>. QED BY <1>5, <1>6

LEMMA CompleteTaskPays ==
  ASSUME NoSaturation, LifeCycle, Reputed, NEW w \in Participants, NEW t,
         NEW d \in AllDigests, NEW c \in Costs, CompleteTask(w, t, d, c),
         NEW p \in ProjectIds
  PROVE  PaysReward(p)
<1>1. Submitted(w, t)
  BY DEF CompleteTask
<1>2. PICK rs : rs = NewReports(w, t, d, c)
  OBVIOUS
<1>3. rs \in Seq(Reports) /\ reputation \in [Participants -> Nat \ {0}]
  BY <1>1, <1>2, SubmissionFacts, NewReportsFacts, AccountTypes
<1>4. PICK e : e = AcceptedDigest(rs, reputation)
  OBVIOUS
<1>5. PICK W : W = Winners(rs, e)
  OBVIOUS
<1>6. PICK r : r = tasks[t].reward
  OBVIOUS
<1>7. PICK v : v = [i \in W |-> reputation[rs[i].worker]]
  OBVIOUS
<1>8. PICK s : s = Shares(r, v)
  OBVIOUS
<1>9. PICK st : st = Completed(e, WorkersOf(rs, W))
  OBVIOUS
<1>10. /\ Crossing(rs, reputation) # {}
       /\ tasks' = Replaced(t, rs, st)
       /\ escrow' = [escrow EXCEPT ![tasks[t].project] = @ - Sum(W, s)]
  BY <1>1, <1>2, <1>4, <1>5, <1>6, <1>7, <1>8, <1>9, SubmissionFacts
     DEF CompleteTask, CloseTask, Replaced
<1>11. e \in AllDigests /\ W # {}
  BY <1>3, <1>4, <1>5, <1>10, AcceptedDigestFacts
<1>12. WorkersOf(rs, W) \in SUBSET Participants /\ Weights(v) /\ DOMAIN v = W
  BY <1>3, <1>5, <1>7, <1>11, WinnerWeights
<1>13. st \in Statuses /\ st.kind = "Completed"
  BY <1>9, <1>11, <1>12, StatusFacts
<1>14. r \in TaskRewards /\ r \in Nat
  <2>1. t \in DOMAIN tasks
    BY <1>1, SubmissionFacts
  <2>2. tasks[t] \in Task
    BY <2>1 DEF LifeCycle, TypeOK
  <2>3. r \in TaskRewards
    BY <1>6, <2>2, TaskFacts
  <2>. QED BY <2>3
<1>15. \A i \in W : r * v[i] <= MaxU64
  <2> SUFFICES ASSUME NEW i \in W PROVE r * v[i] <= MaxU64
    OBVIOUS
  <2>1. rs[i] \in Reports
    BY <1>3, <1>5 DEF Winners
  <2>2. rs[i].worker \in Participants
    BY <2>1 DEF Reports
  <2>3. r * reputation[rs[i].worker] <= MaxU64
    BY <1>14, <2>2, ProductFits
  <2>. QED BY <1>7, <2>3
<1>16. Sum(W, s) = r
  BY <1>8, <1>12, <1>14, <1>15, SharesExact
<1>. QED BY <1>1, <1>3, <1>6, <1>10, <1>13, <1>16, OutcomePays

LEMMA ExhaustTaskPays ==
  ASSUME LifeCycle, NEW w \in Participants, NEW t, NEW d \in AllDigests,
         NEW c \in Costs, ExhaustTask(w, t, d, c), NEW p \in ProjectIds
  PROVE  PaysReward(p)
<1>1. Submitted(w, t)
  BY DEF ExhaustTask
<1>2. PICK rs : rs = NewReports(w, t, d, c)
  OBVIOUS
<1>3. rs \in Seq(Reports) /\ reputation \in [Participants -> Nat \ {0}]
  BY <1>1, <1>2, SubmissionFacts, NewReportsFacts, AccountTypes
<1>4. PICK e : e = AcceptedDigest(rs, reputation)
  OBVIOUS
<1>5. PICK st : st = QuotaExhausted(e, WorkersOf(rs, Winners(rs, e)))
  OBVIOUS
<1>6. /\ Crossing(rs, reputation) # {}
      /\ tasks' = Replaced(t, rs, st)
      /\ escrow' = [escrow EXCEPT ![tasks[t].project] = @ - tasks[t].reward]
  BY <1>1, <1>2, <1>4, <1>5, SubmissionFacts DEF ExhaustTask, CloseTask, Replaced, Burned
<1>7. e \in AllDigests /\ Winners(rs, e) # {}
  BY <1>3, <1>4, <1>6, AcceptedDigestFacts
<1>8. WorkersOf(rs, Winners(rs, e)) \in SUBSET Participants
  BY <1>3, <1>7, WinnerWeights
<1>9. st \in Statuses /\ st.kind = "QuotaExhausted"
  BY <1>5, <1>7, <1>8, StatusFacts
<1>. QED BY <1>1, <1>3, <1>6, <1>9, OutcomePays

LEMMA PaysStep ==
  ASSUME NoSaturation, LifeCycle, Reputed, [Next]_vars, NEW p \in ProjectIds
  PROVE  PaysReward(p)
<1>1. escrow[p] \in Int /\ escrow \in [ProjectIds -> Int]
  BY AccountTypes
<1>2. ASSUME UNCHANGED escrow PROVE PaysReward(p)
  BY <1>1, <1>2 DEF PaysReward
<1>3. CASE \/ \E a \in Participants, b \in InitialBalances : RegisterParticipant(a, b)
           \/ \E a \in Participants : CreateProject(a)
           \/ \E a, b \in Participants, m \in Amounts : Transfer(a, b, m)
           \/ \E a \in Participants, q \in ProjectIds, r \in TaskRewards : SubmitTask(a, q, r)
           \/ \E w \in Participants : RequestTask(w)
           \/ \E w \in Participants : Refused(w)
           \/ \E w \in Participants, t \in TaskIds : Heartbeat(w, t)
           \/ \E n \in TickSteps : Tick(n)
           \/ UNCHANGED vars
  <2>1. UNCHANGED escrow
    BY <1>3, ZenonT(60) DEF RegisterParticipant, CreateProject, Transfer, SubmitTask,
       RequestTask, Refused, Heartbeat, Tick, vars
  <2>. QED BY <1>2, <2>1
<1>4. ASSUME NEW a \in Participants, NEW q \in ProjectIds, NEW m \in Amounts,
             \/ TransferToEscrow(a, q, m)
             \/ DonateToProject(a, q, m)
             \/ FundProject(a, q, m)
      PROVE  PaysReward(p)
  <2>1. escrow' = [escrow EXCEPT ![q] = @ + m]
    BY <1>4 DEF TransferToEscrow, DonateToProject, FundProject
  <2>2. m \in Nat
    OBVIOUS
  <2>3. escrow'[p] >= escrow[p] /\ escrow'[p] \in Int
    BY <1>1, <2>1, <2>2
  <2>. QED BY <1>1, <2>3 DEF PaysReward
<1>5. ASSUME NEW w \in Participants, NEW t \in TaskIds, NEW d \in AllDigests,
             NEW c \in Costs, RejectTask(w, t, d, c) \/ RequeueTask(w, t, d, c)
      PROVE  PaysReward(p)
  <2>1. UNCHANGED escrow
    BY <1>5 DEF RejectTask, RequeueTask
  <2>. QED BY <1>2, <2>1
<1>. QED
  BY <1>3, <1>4, <1>5, CompleteTaskPays, ExhaustTaskPays DEF Next, SubmitResult

\* Reputations stay low enough for exact shares, for every configuration.
THEOREM ReputationsAreEarned == Spec => []Reputed
<1>1. Reputed /\ LifeCycle /\ [Next]_vars => Reputed'
  BY ReputedStep
<1>. QED BY <1>1, ReputedInit, LifeCycleInvariant, PTL DEF Spec

\* Where the products of distribute_reward fit in a u64, tokens leave the escrow
\* of a project only as the whole reward of one of its tasks, in the step that
\* closes it: no rounding, penalty or late report pays part of one, or twice.
THEOREM RewardsLeaveWhole ==
  ASSUME NoSaturation
  PROVE  Spec => EscrowPaysRewards
<1>1. LifeCycle /\ Reputed /\ [Next]_vars => [\A p \in ProjectIds : PaysReward(p)]_vars
  BY PaysStep
<1>. QED
  BY <1>1, LifeCycleInvariant, ReputationsAreEarned, PTL
     DEF Spec, EscrowPaysRewards, PaysReward

=============================================================================
