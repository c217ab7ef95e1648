----------------------------- MODULE Executors ------------------------------
(***************************************************************************)
(* The executors of the workers (ops_executor_loop in actor.rs) over the   *)
(* replicated ledger, with the clock the coordinator drives: an executor   *)
(* reads its own replica, asks for a task by an operation, computes what   *)
(* the replica shows as assigned to it, and reports by another operation.  *)
(* What a computation may come to is decided by executor.rs, estimator.rs  *)
(* and sandbox.rs: the payload, the interpreter, its cap of operations and *)
(* the clock that gives it up.                                             *)
(*                                                                         *)
(* Abstractions.  The block consensus is the one log it implements (module *)
(* ReplicatedLog): replicas apply prefixes of it, and an operation equal   *)
(* to a pending or committed one is refused.  The ledger is that of module *)
(* Network under the quorum of 1 the engine configures, where the report   *)
(* of the lease holder always closes the task; one funded project and      *)
(* registered workers, so a lease is an Assigned task and the offered task *)
(* is the Pending one of lowest id.  Its owner left no key, as one who uses *)
(* the command line does, so that equal results are equal operations.  The  *)
(* tasks are submitted, and known to every replica, before the executors   *)
(* start.  A replica may look between two operations of a block.  A digest  *)
(* is what it was made from.  Time is left out: the interpreter may be     *)
(* given up before it answers, as it may when a native call or another run  *)
(* keeps it busy; an answer that comes later finds no receiver.            *)
(***************************************************************************)
EXTENDS Naturals, FiniteSets, Sequences, Functions

\* Not Python at all, Python that does not decode, code that ends, code that
\* does not, and code whose output may have a character at its 1024th byte.
Payloads == {"foreign", "garbled", "ends", "loops", "splits"}

CONSTANTS
  Workers,
  Tasks,               \* task ids, 1 to some number
  Programs,            \* inputs: what the payloads of the tasks may be
  Corrupting,          \* the <<worker, task>> whose result is simulated as bad
  Bare,                \* the workers without smolagents
  LeaseTimeoutTicks,
  MaxNonce,            \* bound: requests of one life of a worker
  MaxLag,              \* bound: committed operations a worker has yet to apply
  Leavers,             \* the workers that may stop
  MaxStops             \* bound: how often they do

ASSUME ExecutorsAssumption ==
  /\ Tasks = 1..Cardinality(Tasks)
  /\ Programs \subseteq [Tasks -> Payloads]
  /\ Corrupting \subseteq Workers \X Tasks
  /\ Bare \subseteq Workers
  /\ LeaseTimeoutTicks \in Nat \ {0}
  /\ Leavers \subseteq Workers
  /\ MaxLag \in Nat /\ MaxNonce \in Nat /\ MaxStops \in Nat

VARIABLES
  program,     \* the payloads of the tasks
  committed,   \* the operations in the log
  ledger,      \* what they leave, in the log's order
  pool,        \* the operations that wait in mempools
  replica,     \* replica[w]: the ledger of worker w, which lags
  backlog,     \* backlog[w]: the rest of the log, which w has yet to apply
  mode,        \* where the loop of a worker stands
  job,         \* the task it computes, 0 if none
  processed,   \* the tasks it has started to compute
  nonce,       \* the number of its last request
  computed,    \* history: who computed which task, under the lease to which tick
  stops        \* how often workers have stopped

logVars  == <<committed, ledger, pool>>
nodeVars == <<replica, backlog>>
loopVars == <<mode, job, processed, nonce>>
vars == <<program, logVars, nodeVars, loopVars, computed, stops>>

-----------------------------------------------------------------------------
\* Operations, and the ledger a prefix of the log leaves.

RequestTask(w, k)  == [type |-> "RequestTask", worker |-> w, nonce |-> k]
SubmitResult(w, t, d) ==
  [type |-> "SubmitResult", worker |-> w, task |-> t, digest |-> d]
TickOp             == [type |-> "Tick", n |-> 1]

Pending        == [kind |-> "Pending"]
Assigned(w, e) == [kind |-> "Assigned", worker |-> w, expires |-> e]
Completed(w)   == [kind |-> "Completed", worker |-> w]
QuotaExhausted(w) == [kind |-> "QuotaExhausted", worker |-> w]

Genesis == [clock |-> 0, status |-> [t \in Tasks |-> Pending]]

Leases(led) == {t \in Tasks : led.status[t].kind = "Assigned"}
LeasedTo(led, w) == {t \in Leases(led) : led.status[t].worker = w}
PendingTasks(led) == {t \in Tasks : led.status[t].kind = "Pending"}

\* reclaim_expired_leases.
Reclaimed(led) ==
  [led EXCEPT !.status = [t \in Tasks |->
     IF t \in Leases(led) /\ @[t].expires <= led.clock THEN Pending ELSE @[t]]]

Offered_Leased(led) ==                                          \* mutant
  {t \in Leases(led) \cup PendingTasks(led) :
     \A u \in PendingTasks(led) : t <= u}
\* take_next_task_for.
Offered(led) == {t \in PendingTasks(led) : \A u \in PendingTasks(led) : t <= u}

\* request_task, submit_result and tick of a ledger that has reclaimed the leases
\* it lost.
Assign(led, w) ==
  [led EXCEPT !.status = [t \in Tasks |->
     IF t \in Offered(led) THEN Assigned(w, led.clock + LeaseTimeoutTicks)
                           ELSE @[t]]]
Outcome(w, d) == IF d = "spent" THEN QuotaExhausted(w) ELSE Completed(w)
Close(led, w, t, d) ==
  IF t \in LeasedTo(led, w) THEN [led EXCEPT !.status[t] = Outcome(w, d)] ELSE led
Advance(led, n) == Reclaimed([led EXCEPT !.clock = @ + n])

\* apply_op.
Apply(led, op) ==
  CASE op.type = "RequestTask"  -> Assign(Reclaimed(led), op.worker)
    [] op.type = "SubmitResult" -> Close(Reclaimed(led), op.worker, op.task, op.digest)
    [] op.type = "Tick"         -> Advance(led, op.n)

-----------------------------------------------------------------------------
Init ==
  /\ program \in Programs
  /\ committed = {}
  /\ ledger = Genesis
  /\ pool = {}
  /\ replica = [w \in Workers |-> Genesis]
  /\ backlog = [w \in Workers |-> <<>>]
  /\ mode = [w \in Workers |-> "idle"]
  /\ job = [w \in Workers |-> 0]
  /\ processed = [w \in Workers |-> {}]
  /\ nonce = [w \in Workers |-> 0]
  /\ computed = {}
  /\ stops = 0

Up(w) == mode[w] # "stopped"

Submit_Unchecked(op) ==                                         \* mutant
  /\ pool' = pool \cup {op}
  /\ UNCHANGED <<committed, ledger>>

\* submit_and_flood: a mempool refuses an operation equal to a pending or a
\* committed one.  A node that lags accepts one that others refuse, and drops it
\* when it learns of the block.
Submit(op) ==
  /\ pool' = IF op \in committed THEN pool ELSE pool \cup {op}
  /\ UNCHANGED <<committed, ledger>>

\* A block seals pending operations, and reaches the nodes that are up.
Seal(op) ==
  /\ \A w \in Workers : Len(backlog[w]) < MaxLag
  /\ committed' = committed \cup {op}
  /\ ledger' = Apply(ledger, op)
  /\ pool' = pool \ {op}
  /\ backlog' = [w \in Workers |-> IF Up(w) THEN Append(backlog[w], op) ELSE <<>>]
  /\ UNCHANGED <<program, replica, loopVars, computed, stops>>

ApplyNext(w) ==
  /\ backlog[w] # <<>>
  /\ replica' = [replica EXCEPT ![w] = Apply(@, Head(backlog[w]))]
  /\ backlog' = [backlog EXCEPT ![w] = Tail(@)]
  /\ UNCHANGED <<program, logVars, loopVars, computed, stops>>

\* The tick timer of a coordinator whose replica is up to date.
TickTimer ==
  /\ Leases(ledger) # {}
  /\ Submit(TickOp)
  /\ UNCHANGED <<program, nodeVars, loopVars, computed, stops>>

-----------------------------------------------------------------------------
\* The loop of an executor.

\* The tasks the replica shows as assigned to w that w has not started.
Jobs(w) == LeasedTo(replica[w], w) \ processed[w]

Computation(w, t, e) == [worker |-> w, task |-> t, expires |-> e]

\* Take one of them and compute it.
Start(w) ==
  /\ mode[w] = "idle"
  /\ \E t \in Jobs(w) :
       /\ job' = [job EXCEPT ![w] = t]
       /\ processed' = [processed EXCEPT ![w] = @ \cup {t}]
       /\ computed' = computed \cup {Computation(w, t, replica[w].status[t].expires)}
  /\ mode' = [mode EXCEPT ![w] = "computing"]
  /\ UNCHANGED <<program, logVars, nodeVars, nonce, stops>>

\* What the glue around the interpreter makes of a run: code that raises counts
\* like code that ends, with the output it had printed; code that does not end
\* trips the cap of operations.
Glue(t) == IF program[t] = "loops" THEN "timedOut" ELSE "stdout"

\* run_in_gil, which cannot import the interpreter where it is not installed.
RunInGil(w, t) == IF w \in Bare THEN "unavailable" ELSE Glue(t)

Sandboxed_Patient(w, t) ==                                      \* mutant
  IF program[t] = "loops" THEN {} ELSE {RunInGil(w, t)}

\* run_python_sandboxed waits for the thread that runs it, but not for ever.
Sandboxed(w, t) == {RunInGil(w, t), "timedOut"}

\* measure_via_sandbox makes a result, an exhausted budget or a failure of it.
Measured(answer) ==
  CASE answer = "stdout"   -> "result"
    [] answer = "timedOut" -> "exhausted"
    [] OTHER               -> "error"

DigestOf(run) ==
  CASE run = "result"    -> "output"
    [] run = "exhausted" -> "spent"
    [] run = "error"     -> "failed"

IsPython(t) == program[t] # "foreign"
Decodes(t) == program[t] # "garbled"
GeneratesCorrupted(w, t) == <<w, t>> \in Corrupting

\* run_python_payload.
PythonDigests(w, t) ==
  IF Decodes(t) /\ ~GeneratesCorrupted(w, t)
    THEN {DigestOf(Measured(a)) : a \in Sandboxed(w, t)}
    ELSE {"failed"}

\* compute_result_with_budget.
Digests(w, t) == IF IsPython(t) THEN PythonDigests(w, t) ELSE {"failed"}

\* digest_from_stdout panics when the 1024 bytes it takes end within a character,
\* which may be so in one run of a task and not in the next.
MayPanic(t, d) == program[t] = "splits" /\ d = "output"

\* The computation ends with a report, or panics: then the loop goes on without.
Finish(w) ==
  /\ mode[w] = "computing"
  /\ \E d \in Digests(w, job[w]) :
       \/ Submit(SubmitResult(w, job[w], d))
       \/ MayPanic(job[w], d) /\ UNCHANGED logVars
  /\ mode' = [mode EXCEPT ![w] = "idle"]
  /\ job' = [job EXCEPT ![w] = 0]
  /\ UNCHANGED <<program, nodeVars, processed, nonce, computed, stops>>

\* Nothing to compute, but tasks are pending: ask for one, and wait.
Claim(w) ==
  /\ mode[w] = "idle"
  /\ Jobs(w) = {}
  /\ PendingTasks(replica[w]) # {}
  /\ nonce[w] < MaxNonce
  /\ nonce' = [nonce EXCEPT ![w] = @ + 1]
  /\ Submit(RequestTask(w, nonce[w] + 1))
  /\ mode' = [mode EXCEPT ![w] = "waiting"]
  /\ UNCHANGED <<program, nodeVars, job, processed, computed, stops>>

\* The wait ends with an assignment, or after eight looks without one.
Wake(w) ==
  /\ mode[w] = "waiting"
  /\ mode' = [mode EXCEPT ![w] = "idle"]
  /\ UNCHANGED <<program, logVars, nodeVars, job, processed, nonce, computed, stops>>

-----------------------------------------------------------------------------
\* The worker goes away, and with it its replica, its nonces and the operations
\* it had not handed to a peer.
Remembered(w) == {}

Stop(w) ==
  /\ w \in Leavers
  /\ Up(w)
  /\ stops < MaxStops
  /\ stops' = stops + 1
  /\ mode' = [mode EXCEPT ![w] = "stopped"]
  /\ replica' = [replica EXCEPT ![w] = Genesis]
  /\ backlog' = [backlog EXCEPT ![w] = <<>>]
  /\ processed' = [processed EXCEPT ![w] = Remembered(w)]
  /\ nonce' = [nonce EXCEPT ![w] = 0]
  /\ job' = [job EXCEPT ![w] = 0]
  /\ \E lost \in SUBSET {op \in pool : op.type # "Tick" /\ op.worker = w} :
       pool' = pool \ lost
  /\ UNCHANGED <<program, committed, ledger, computed>>

\* It starts again with its identity; its replica, empty at first, becomes what a
\* peer answers its first SyncRequest with.
Restart(w) ==
  /\ mode[w] = "stopped"
  /\ mode' = [mode EXCEPT ![w] = "idle"]
  /\ \/ /\ replica' = [replica EXCEPT ![w] = ledger]
        /\ UNCHANGED backlog
     \/ \E peer \in {v \in Workers : Up(v)} :
          /\ replica' = [replica EXCEPT ![w] = replica[peer]]
          /\ backlog' = [backlog EXCEPT ![w] = backlog[peer]]
  /\ UNCHANGED <<program, logVars, job, processed, nonce, computed, stops>>

Loop(w) == Start(w) \/ Finish(w) \/ Claim(w) \/ Wake(w)

Next ==
  \/ \E op \in pool : Seal(op)
  \/ \E w \in Workers : ApplyNext(w)
  \/ TickTimer
  \/ \E w \in Workers : Loop(w)
  \/ \E w \in Workers : Stop(w)
  \/ \E w \in Workers : Restart(w)

Spec == Init /\ [][Next]_vars

\* Blocks reach every replica, timers fire and executors run: what a node does by
\* itself.  That blocks are sealed is not among it: a proposer that has gone may
\* stall the consensus.
Fairness ==
  /\ \A w \in Workers : WF_vars(ApplyNext(w))
  /\ WF_vars(TickTimer)
  /\ \A w \in Workers : WF_vars(Loop(w))

FairSpec == Spec /\ Fairness

\* Some pending operation is sealed, over and over.
LogGoesOn == WF_vars(\E op \in pool : Seal(op))

LoggedSpec == FairSpec /\ LogGoesOn

-----------------------------------------------------------------------------
\* What the executors promise.

Operations ==
  [type : {"RequestTask"}, worker : Workers, nonce : 1..MaxNonce]
    \cup [type : {"SubmitResult"}, worker : Workers, task : Tasks,
            digest : {"output", "spent", "failed"}]
    \cup {TickOp}

TaskStatuses ==
  {Pending} \cup [kind : {"Assigned"}, worker : Workers, expires : Nat]
    \cup [kind : {"Completed", "QuotaExhausted"}, worker : Workers]
Computations == [worker : Workers, task : Tasks, expires : Nat]
LedgerStates == [clock : Nat, status : [Tasks -> TaskStatuses]]

\* Every variable has the shape its Rust type gives it.
TypeOK ==
  /\ program \in Programs
  /\ committed \subseteq Operations
  /\ ledger \in LedgerStates
  /\ pool \subseteq Operations \ committed
  /\ replica \in [Workers -> LedgerStates]
  /\ \A w \in Workers : Range(backlog[w]) \subseteq committed
  /\ mode \in [Workers -> {"idle", "computing", "waiting", "stopped"}]
  /\ job \in [Workers -> Tasks \cup {0}]
  /\ processed \in [Workers -> SUBSET Tasks]
  /\ nonce \in [Workers -> 0..MaxNonce]
  /\ computed \subseteq Computations
  /\ stops \in 0..MaxStops

\* The executor looks at its replica, not at the log: however far the replicas lag,
\* and whoever comes back without its memory, a task is computed twice only by one
\* worker under one lease, or under leases that end a whole term apart.
ExclusiveWork ==
  \A c, d \in computed :
    c.task = d.task =>
      \/ c = d
      \/ c.expires + LeaseTimeoutTicks <= d.expires
      \/ d.expires + LeaseTimeoutTicks <= c.expires

Closed(t) == ledger.status[t].kind \in {"Completed", "QuotaExhausted"}

\* A worker holds the task, has been through it and is not at it: its run panicked,
\* or it computed the task only under an earlier lease and reported too late.
Abandoned(t) ==
  \E w \in Workers :
    /\ t \in LeasedTo(ledger, w) \cap processed[w]
    /\ job[w] # t
    /\ \/ program[t] = "splits"
       \/ Computation(w, t, ledger.status[t].expires) \notin computed

OutOfRequests == \A w \in Workers : nonce[w] = MaxNonce

\* While the log goes on and nobody leaves, every task comes to be closed for good:
\* every task is asked for, computed or given up, reported, and the report accepted.
\* Only a panic, or a lease that ran out under its worker, may strand one with a
\* worker that will not start it again.  (The bound on requests ends the story.)
TasksGetDone ==
  LogGoesOn =>
    <>[](stops > 0 \/ OutOfRequests \/ \A t \in Tasks : Closed(t) \/ Abandoned(t))

-----------------------------------------------------------------------------
\* What the repository says of the executors and the code does not do.

\* The clock advances while leases are outstanding so that they can expire: no
\* worker that has gone keeps a task for ever.
LeasesExpire ==
  \A w \in Workers : \A t \in Tasks :
    (mode[w] = "stopped" /\ t \in LeasedTo(ledger, w))
      ~> (mode[w] # "stopped" \/ t \notin LeasedTo(ledger, w))

=============================================================================
