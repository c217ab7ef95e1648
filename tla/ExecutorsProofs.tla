-------------------------- MODULE ExecutorsProofs ---------------------------
(***************************************************************************)
(* Theorems about the executors, for any workers, tasks and payloads, any  *)
(* lag of the replicas and any departures.                                 *)
(***************************************************************************)
EXTENDS Executors, TLAPS

-----------------------------------------------------------------------------
\* Ledger states and what an operation does to them.

\* The leases a ledger shows, as the computations done under them.
LeaseOf(led, t) == Computation(led.status[t].worker, t, led.status[t].expires)
Granted(led) == {LeaseOf(led, t) : t \in Leases(led)}

IsOpen(status) == status.kind \in {"Pending", "Assigned"}

\* A ledger no longer lends a task under lease g, unless it still shows g.
Settled(g, led) ==
  \/ g \in Granted(led)
  \/ g.expires <= led.clock
  \/ ~IsOpen(led.status[g.task])

\* The task t was nobody's, or its lease had run out when the clock of b was.
WasFree(a, b, t) ==
  \/ a.status[t].kind = "Pending"
  \/ a.status[t].kind = "Assigned" /\ a.status[t].expires <= b.clock

\* What an operation may do to the ledger: leave a task, close it, take it back once
\* its lease is over, or lend it for a whole term, if it is nobody's.
Evolves(a, b) ==
  /\ a.clock <= b.clock
  /\ \A t \in Tasks :
       \/ b.status[t] = a.status[t]
       \/ ~IsOpen(b.status[t])
       \/ b.status[t].kind = "Pending" /\ WasFree(a, b, t)
       \/ /\ b.status[t].kind = "Assigned" /\ WasFree(a, b, t)
          /\ b.status[t].expires = b.clock + LeaseTimeoutTicks

LEMMA StatusFacts ==
  /\ Pending \in TaskStatuses /\ Pending.kind = "Pending"
  /\ \A w \in Workers, e \in Nat :
       /\ Assigned(w, e) \in TaskStatuses /\ Assigned(w, e).kind = "Assigned"
       /\ Assigned(w, e).worker = w /\ Assigned(w, e).expires = e
  /\ \A w \in Workers : \A d :
       Outcome(w, d) \in TaskStatuses /\ ~IsOpen(Outcome(w, d))
  /\ \A s \in TaskStatuses : s.kind = "Assigned" => s.worker \in Workers /\ s.expires \in Nat
BY DEF TaskStatuses, Pending, Assigned, Outcome, Completed, QuotaExhausted, IsOpen

LEMMA LedgerFacts ==
  ASSUME NEW led \in LedgerStates
  PROVE  /\ led.clock \in Nat
         /\ led.status \in [Tasks -> TaskStatuses]
         /\ \A s \in [Tasks -> TaskStatuses] :
              /\ [led EXCEPT !.status = s] \in LedgerStates
              /\ [led EXCEPT !.status = s].clock = led.clock
              /\ [led EXCEPT !.status = s].status = s
         /\ \A n \in Nat :
              /\ [led EXCEPT !.clock = n] \in LedgerStates
              /\ [led EXCEPT !.clock = n].clock = n
              /\ [led EXCEPT !.clock = n].status = led.status
BY DEF LedgerStates

LEMMA GenesisFacts == Genesis \in LedgerStates /\ Granted(Genesis) = {}
<1>1. [t \in Tasks |-> Pending] \in [Tasks -> TaskStatuses]
  BY StatusFacts
<1>2. Genesis \in LedgerStates
  BY <1>1 DEF LedgerStates, Genesis
<1>3. Leases(Genesis) = {}
  BY StatusFacts DEF Leases, Genesis
<1>. QED BY <1>2, <1>3 DEF Granted

\* A lease a ledger shows is that of an Assigned task.
LEMMA GrantedFacts ==
  ASSUME NEW led \in LedgerStates
  PROVE  /\ Granted(led) \subseteq Computations
         /\ \A g \in Granted(led) :
              /\ g.task \in Tasks /\ led.status[g.task].kind = "Assigned"
              /\ g.expires = led.status[g.task].expires
              /\ g = LeaseOf(led, g.task)
<1> SUFFICES ASSUME NEW t \in Leases(led)
             PROVE  /\ LeaseOf(led, t) \in Computations
                    /\ LeaseOf(led, t).task = t /\ t \in Tasks
                    /\ led.status[t].kind = "Assigned"
                    /\ LeaseOf(led, t).expires = led.status[t].expires
  BY DEF Granted
<1>1. t \in Tasks /\ led.status[t].kind = "Assigned" /\ led.status[t] \in TaskStatuses
  BY LedgerFacts DEF Leases
<1>. QED BY <1>1, StatusFacts DEF LeaseOf, Computation, Computations

\* reclaim_expired_leases takes a task back only when its lease is over.
LEMMA ReclaimFacts ==
  ASSUME NEW led \in LedgerStates
  PROVE  /\ Reclaimed(led) \in LedgerStates /\ Reclaimed(led).clock = led.clock
         /\ \A t \in Tasks :
              \/ Reclaimed(led).status[t] = led.status[t]
              \/ /\ Reclaimed(led).status[t] = Pending
                 /\ led.status[t].kind = "Assigned" /\ led.status[t].expires <= led.clock
<1> DEFINE s == [t \in Tasks |-> IF t \in Leases(led) /\ led.status[t].expires <= led.clock
                                  THEN Pending ELSE led.status[t]]
<1>1. Reclaimed(led) = [led EXCEPT !.status = s]
  BY DEF Reclaimed
<1>2. s \in [Tasks -> TaskStatuses]
  BY LedgerFacts, StatusFacts
<1>3. \A t \in Tasks : \/ s[t] = led.status[t]
                       \/ /\ s[t] = Pending
                          /\ led.status[t].kind = "Assigned"
                          /\ led.status[t].expires <= led.clock
  BY DEF Leases
<1> HIDE DEF s
<1>. QED BY <1>1, <1>2, <1>3, LedgerFacts

LEMMA AssignFacts ==
  ASSUME NEW led \in LedgerStates, NEW w \in Workers
  PROVE  /\ Assign(led, w) \in LedgerStates /\ Assign(led, w).clock = led.clock
         /\ \A t \in Tasks :
              \/ Assign(led, w).status[t] = led.status[t]
              \/ /\ led.status[t].kind = "Pending"
                 /\ Assign(led, w).status[t].kind = "Assigned"
                 /\ Assign(led, w).status[t].expires = led.clock + LeaseTimeoutTicks
<1> DEFINE e == led.clock + LeaseTimeoutTicks
           s == [t \in Tasks |-> IF t \in Offered(led) THEN Assigned(w, e) ELSE led.status[t]]
<1>1. e \in Nat
  BY LedgerFacts, ExecutorsAssumption
<1>2. Assign(led, w) = [led EXCEPT !.status = s]
  BY DEF Assign
<1> HIDE DEF e
<1>3. s \in [Tasks -> TaskStatuses]
  BY <1>1, LedgerFacts, StatusFacts
<1>4. \A t \in Tasks : t \in Offered(led) => led.status[t].kind = "Pending"
  BY DEF Offered, PendingTasks
<1>5. \A t \in Tasks : \/ s[t] = led.status[t]
                       \/ /\ led.status[t].kind = "Pending"
                          /\ s[t].kind = "Assigned" /\ s[t].expires = e
  BY <1>1, <1>4, StatusFacts
<1> HIDE DEF s
<1>. QED BY <1>2, <1>3, <1>5, LedgerFacts DEF e

LEMMA CloseFacts ==
  ASSUME NEW led \in LedgerStates, NEW w \in Workers, NEW t \in Tasks, NEW d
  PROVE  /\ Close(led, w, t, d) \in LedgerStates /\ Close(led, w, t, d).clock = led.clock
         /\ \A u \in Tasks : \/ Close(led, w, t, d).status[u] = led.status[u]
                             \/ ~IsOpen(Close(led, w, t, d).status[u])
<1>1. CASE t \notin LeasedTo(led, w)
  BY <1>1 DEF Close
<1>2. CASE t \in LeasedTo(led, w)
  <2> DEFINE s == [led.status EXCEPT ![t] = Outcome(w, d)]
  <2>1. led.status \in [Tasks -> TaskStatuses]
    BY LedgerFacts
  <2>2. s \in [Tasks -> TaskStatuses]
    BY <2>1, StatusFacts
  <2>3. Close(led, w, t, d) = [led EXCEPT !.status = s]
    BY <1>2 DEF Close
  <2>4. \A u \in Tasks : s[u] = led.status[u] \/ ~IsOpen(s[u])
    BY <2>1, StatusFacts
  <2> HIDE DEF s
  <2>. QED BY <2>2, <2>3, <2>4, LedgerFacts
<1>. QED BY <1>1, <1>2

\* Every operation of a ledger: it reclaims first, or, a Tick, when the clock is on.
LEMMA ApplyEvolves ==
  ASSUME NEW led \in LedgerStates, NEW op \in Operations
  PROVE  Apply(led, op) \in LedgerStates /\ Evolves(led, Apply(led, op))
<1>1. PICK was : was = Reclaimed(led)
  OBVIOUS
<1>2. /\ was \in LedgerStates /\ was.clock = led.clock /\ led.clock \in Nat
      /\ \A t \in Tasks : \/ was.status[t] = led.status[t]
                          \/ /\ was.status[t].kind = "Pending"
                             /\ led.status[t].kind = "Assigned"
                             /\ led.status[t].expires <= led.clock
  BY <1>1, ReclaimFacts, LedgerFacts, StatusFacts
<1>3. CASE op \in [type : {"RequestTask"}, worker : Workers, nonce : 1..MaxNonce]
  <2>1. op.type = "RequestTask" /\ op.worker \in Workers
    BY <1>3
  <2>2. PICK new : new = Assign(was, op.worker)
    OBVIOUS
  <2>3. Apply(led, op) = new
    BY <1>1, <2>1, <2>2 DEF Apply
  <2>4. /\ new \in LedgerStates /\ new.clock = was.clock
        /\ \A t \in Tasks : \/ new.status[t] = was.status[t]
                            \/ /\ was.status[t].kind = "Pending"
                               /\ new.status[t].kind = "Assigned"
                               /\ new.status[t].expires = was.clock + LeaseTimeoutTicks
    BY <1>2, <2>1, <2>2, AssignFacts
  <2>5. Evolves(led, new)
    BY <1>2, <2>4 DEF Evolves, WasFree
  <2>. QED BY <2>3, <2>4, <2>5
<1>4. CASE op \in [type : {"SubmitResult"}, worker : Workers, task : Tasks,
                   digest : {"output", "spent", "failed"}]
  <2>1. op.type = "SubmitResult" /\ op.worker \in Workers /\ op.task \in Tasks
    BY <1>4
  <2>2. PICK new : new = Close(was, op.worker, op.task, op.digest)
    OBVIOUS
  <2>3. Apply(led, op) = new
    BY <1>1, <2>1, <2>2 DEF Apply
  <2>4. /\ new \in LedgerStates /\ new.clock = was.clock
        /\ \A t \in Tasks : new.status[t] = was.status[t] \/ ~IsOpen(new.status[t])
    BY <1>2, <2>1, <2>2, CloseFacts
  <2>5. Evolves(led, new)
    BY <1>2, <2>4 DEF Evolves, WasFree
  <2>. QED BY <2>3, <2>4, <2>5
<1>5. CASE op = TickOp
  <2>1. op.type = "Tick" /\ op.n = 1
    BY <1>5 DEF TickOp
  <2>2. PICK later : later = [led EXCEPT !.clock = led.clock + 1]
    OBVIOUS
  <2>3. later \in LedgerStates /\ later.clock = led.clock + 1 /\ later.status = led.status
    BY <1>2, <2>2, LedgerFacts
  <2>4. PICK new : new = Reclaimed(later)
    OBVIOUS
  <2>5. Apply(led, op) = new
    BY <2>1, <2>2, <2>4 DEF Apply, Advance
  <2>6. /\ new \in LedgerStates /\ new.clock = led.clock + 1
        /\ \A t \in Tasks : \/ new.status[t] = led.status[t]
                            \/ /\ new.status[t].kind = "Pending"
                               /\ led.status[t].kind = "Assigned"
                               /\ led.status[t].expires <= new.clock
    BY <2>3, <2>4, ReclaimFacts, StatusFacts
  <2>7. Evolves(led, new)
    BY <1>2, <2>6 DEF Evolves, WasFree
  <2>. QED BY <2>5, <2>6, <2>7
<1>. QED BY <1>3, <1>4, <1>5 DEF Operations

-----------------------------------------------------------------------------
\* Leases over time.

\* A lease that is settled stays so: shown, over, or of a task that is closed.
LEMMA SettledStays ==
  ASSUME NEW a \in LedgerStates, NEW b \in LedgerStates, Evolves(a, b),
         NEW g \in Computations, Settled(g, a)
  PROVE  Settled(g, b)
<1>1. /\ g.task \in Tasks /\ g.expires \in Nat /\ a.clock \in Nat /\ b.clock \in Nat
      /\ a.clock <= b.clock
  BY LedgerFacts DEF Computations, Evolves
<1>2. CASE g \in Granted(a)
  <2>1. /\ a.status[g.task].kind = "Assigned" /\ g.expires = a.status[g.task].expires
        /\ g = LeaseOf(a, g.task)
    BY <1>2, GrantedFacts
  <2>2. CASE b.status[g.task] = a.status[g.task]
    <3>1. g.task \in Leases(b) /\ g = LeaseOf(b, g.task)
      BY <1>1, <2>1, <2>2 DEF Leases, LeaseOf
    <3>. QED BY <3>1 DEF Granted, Settled
  <2>3. CASE ~IsOpen(b.status[g.task])
    BY <2>3 DEF Settled
  <2>4. CASE WasFree(a, b, g.task)
    BY <2>1, <2>4 DEF WasFree, Settled
  <2>. QED BY <1>1, <2>2, <2>3, <2>4 DEF Evolves
<1>3. CASE g.expires <= a.clock
  BY <1>1, <1>3 DEF Settled
<1>4. CASE ~IsOpen(a.status[g.task])
  <2>1. ~WasFree(a, b, g.task)
    BY <1>4 DEF WasFree, IsOpen
  <2>2. b.status[g.task] = a.status[g.task] \/ ~IsOpen(b.status[g.task])
    BY <1>1, <2>1 DEF Evolves
  <2>. QED BY <1>4, <2>2 DEF Settled
<1>. QED BY <1>2, <1>3, <1>4 DEF Settled

\* A new lease ends a term after all that were settled before have ended.
LEMMA NewLeases ==
  ASSUME NEW a \in LedgerStates, NEW b \in LedgerStates, Evolves(a, b),
         NEW g \in Granted(b), g \notin Granted(a),
         NEW h \in Computations, h.task = g.task, Settled(h, a)
  PROVE  h.expires + LeaseTimeoutTicks <= g.expires
<1>1. /\ g.task \in Tasks /\ b.status[g.task].kind = "Assigned"
      /\ g.expires = b.status[g.task].expires /\ g = LeaseOf(b, g.task)
  BY GrantedFacts
<1>2. b.status[g.task] # a.status[g.task]
  <2> SUFFICES ASSUME b.status[g.task] = a.status[g.task] PROVE FALSE
    OBVIOUS
  <2>1. g.task \in Leases(a) /\ g = LeaseOf(a, g.task)
    BY <1>1 DEF Leases, LeaseOf
  <2>. QED BY <2>1 DEF Granted
<1>3. WasFree(a, b, g.task) /\ g.expires = b.clock + LeaseTimeoutTicks
  BY <1>1, <1>2 DEF Evolves, IsOpen
<1>4. /\ h.expires \in Nat /\ a.clock \in Nat /\ b.clock \in Nat /\ a.clock <= b.clock
      /\ LeaseTimeoutTicks \in Nat
  BY LedgerFacts, ExecutorsAssumption DEF Computations, Evolves
<1>5. h.expires <= b.clock
  <2>1. CASE h \in Granted(a)
    <3>1. a.status[g.task].kind = "Assigned" /\ h.expires = a.status[g.task].expires
      BY <2>1, GrantedFacts
    <3>. QED BY <1>3, <3>1 DEF WasFree
  <2>2. CASE h.expires <= a.clock
    BY <1>4, <2>2
  <2>3. CASE ~IsOpen(a.status[g.task])
    BY <1>3, <2>3 DEF WasFree, IsOpen
  <2>. QED BY <2>1, <2>2, <2>3 DEF Settled
<1>. QED BY <1>3, <1>4, <1>5

-----------------------------------------------------------------------------
\* The invariant.

Types ==
  /\ TypeOK
  /\ backlog \in [Workers -> Seq(Operations)]
  /\ \A w \in Workers : mode[w] = "computing" => job[w] \in Tasks

\* The ledgers S a replica r goes through, by the operations b, on its way to l,
\* which show no leases but those of G.
Path(G, S, r, b, l) ==
  /\ Len(S) = Len(b) + 1
  /\ S[1] = r /\ S[Len(S)] = l
  /\ \A i \in 1..Len(b) : S[i + 1] = Apply(S[i], b[i])
  /\ \A i \in 1..Len(S) : Granted(S[i]) \subseteq G
Leads(G, r, b, l) == \E S \in Seq(LedgerStates) : Path(G, S, r, b, l)

\* The replica of a worker that is up leads to the log's ledger by its backlog.
Replicas(G) ==
  \A w \in Workers : IF Up(w) THEN Leads(G, replica[w], backlog[w], ledger)
                              ELSE backlog[w] = <<>>

\* Leases of one task end a term apart.
Apart(g, h) ==
  \/ g = h
  \/ g.expires + LeaseTimeoutTicks <= h.expires
  \/ h.expires + LeaseTimeoutTicks <= g.expires

\* G is all the leases there have been: what anybody computes is computed under one
\* of them, and the ledger is done with all but those it shows.
Lent(G) ==
  /\ G \subseteq Computations
  /\ \A g, h \in G : g.task = h.task => Apart(g, h)
  /\ \A g \in G : Settled(g, ledger)
  /\ Granted(ledger) \subseteq G
  /\ computed \subseteq G

History(G) == Lent(G) /\ Replicas(G)

LEMMA OperationFacts ==
  /\ TickOp \in Operations
  /\ \A w \in Workers, k \in 1..MaxNonce : RequestTask(w, k) \in Operations
  /\ \A w \in Workers, t \in Tasks, d \in {"output", "spent", "failed"} :
       SubmitResult(w, t, d) \in Operations
BY DEF Operations, TickOp, RequestTask, SubmitResult

LEMMA DigestFacts ==
  ASSUME NEW w, NEW t
  PROVE  Digests(w, t) \subseteq {"output", "spent", "failed"}
<1>1. RunInGil(w, t) \in {"stdout", "timedOut", "unavailable"}
  BY DEF RunInGil, Glue
<1>2. \A a \in {"stdout", "timedOut", "unavailable"} :
        DigestOf(Measured(a)) \in {"output", "spent", "failed"}
  BY DEF Measured, DigestOf
<1>. QED BY <1>1, <1>2 DEF Digests, PythonDigests, Sandboxed

LEMMA RangeFacts ==
  ASSUME NEW V, NEW s \in Seq(V), NEW e \in V
  PROVE  /\ Range(Append(s, e)) = Range(s) \cup {e} /\ Append(s, e) \in Seq(V)
         /\ s # <<>> => /\ Range(Tail(s)) \subseteq Range(s) /\ Tail(s) \in Seq(V)
                       /\ Head(s) \in V /\ Head(s) \in Range(s)
<1>1. Range(Append(s, e)) = Range(s) \cup {e}
  <2>1. /\ DOMAIN Append(s, e) = 1..(Len(s) + 1) /\ DOMAIN s = 1..Len(s) /\ Len(s) \in Nat
        /\ Append(s, e)[Len(s) + 1] = e
        /\ \A i \in DOMAIN s : Append(s, e)[i] = s[i]
    OBVIOUS
  <2>2. DOMAIN Append(s, e) = DOMAIN s \cup {Len(s) + 1}
    BY <2>1
  <2>3. \A i \in DOMAIN s : Append(s, e)[i] \in Range(s)
    BY <2>1, Zenon DEF Range
  <2>4. Range(Append(s, e)) \subseteq Range(s) \cup {e}
    BY <2>1, <2>2, <2>3, Zenon DEF Range
  <2>5. Range(s) \subseteq Range(Append(s, e))
    BY <2>1, <2>2, Zenon DEF Range
  <2>6. e \in Range(Append(s, e))
    BY <2>1, <2>2, Zenon DEF Range
  <2>. QED BY <2>4, <2>5, <2>6
<1>2. ASSUME s # <<>>
      PROVE  Range(Tail(s)) \subseteq Range(s)
  <2>1. /\ DOMAIN Tail(s) = 1..(Len(s) - 1) /\ DOMAIN s = 1..Len(s) /\ Len(s) \in Nat
        /\ \A i \in DOMAIN Tail(s) : Tail(s)[i] = s[i + 1]
    BY <1>2
  <2>2. \A i \in DOMAIN Tail(s) : i + 1 \in DOMAIN s
    BY <2>1
  <2>. QED BY <2>1, <2>2, Zenon DEF Range
<1>3. ASSUME s # <<>>
      PROVE  Head(s) \in Range(s)
  <2>1. 1 \in DOMAIN s /\ Head(s) = s[1]
    BY <1>3
  <2>. QED BY <2>1, Zenon DEF Range
<1>. QED BY <1>1, <1>2, <1>3

-----------------------------------------------------------------------------
\* Types.

LEMMA TypesInit == Init => Types
<1> SUFFICES ASSUME Init PROVE Types
  OBVIOUS
<1>1. ledger \in LedgerStates /\ replica \in [Workers -> LedgerStates]
  BY GenesisFacts DEF Init
<1>2. \A w \in Workers : backlog[w] = <<>> /\ mode[w] = "idle"
  BY DEF Init
<1>3. \A w \in Workers : Range(backlog[w]) \subseteq committed
  BY <1>2 DEF Range
<1>4. backlog \in [Workers -> Seq(Operations)]
  BY DEF Init
<1>5. /\ program \in Programs /\ committed \subseteq Operations
      /\ pool \subseteq Operations \ committed
      /\ mode \in [Workers -> {"idle", "computing", "waiting", "stopped"}]
      /\ job \in [Workers -> Tasks \cup {0}]
      /\ processed \in [Workers -> SUBSET Tasks]
      /\ nonce \in [Workers -> 0..MaxNonce]
      /\ computed \subseteq Computations
      /\ stops \in 0..MaxStops
  BY ExecutorsAssumption DEF Init
<1>. QED BY <1>1, <1>2, <1>3, <1>4, <1>5 DEF Types, TypeOK

\* Steps of a loop: what they hand to the mempools are operations.
LEMMA LoopTypes ==
  ASSUME Types, NEW w \in Workers, UNCHANGED <<program, nodeVars, stops, committed, ledger>>,
         pool' \subseteq Operations \ committed,
         NEW m \in {"idle", "computing", "waiting"}, mode' = [mode EXCEPT ![w] = m],
         NEW j \in Tasks \cup {0}, job' = [job EXCEPT ![w] = j],
         m = "computing" => j \in Tasks,
         NEW done \in SUBSET Tasks, processed' = [processed EXCEPT ![w] = done],
         NEW k \in 0..MaxNonce, nonce' = [nonce EXCEPT ![w] = k],
         computed' \subseteq Computations
  PROVE  Types'
<1>1. /\ mode' \in [Workers -> {"idle", "computing", "waiting", "stopped"}]
      /\ job' \in [Workers -> Tasks \cup {0}]
      /\ processed' \in [Workers -> SUBSET Tasks]
      /\ nonce' \in [Workers -> 0..MaxNonce]
  BY DEF Types, TypeOK
<1>2. \A v \in Workers : mode'[v] = "computing" => job'[v] \in Tasks
  BY DEF Types, TypeOK
<1>3. UNCHANGED <<replica, backlog>>
  BY DEF nodeVars
<1>. QED BY <1>1, <1>2, <1>3 DEF Types, TypeOK

LEMMA SubmitTypes ==
  ASSUME Types, NEW op \in Operations, Submit(op)
  PROVE  UNCHANGED <<committed, ledger>> /\ pool' \subseteq Operations \ committed
BY DEF Submit, Types, TypeOK

LEMMA LoopKeepsTypes ==
  ASSUME Types, NEW w \in Workers, Loop(w)
  PROVE  Types'
<1>0. /\ mode[w] \in {"idle", "computing", "waiting", "stopped"}
      /\ job = [job EXCEPT ![w] = job[w]] /\ job[w] \in Tasks \cup {0}
      /\ processed = [processed EXCEPT ![w] = processed[w]] /\ processed[w] \in SUBSET Tasks
      /\ nonce = [nonce EXCEPT ![w] = nonce[w]] /\ nonce[w] \in 0..MaxNonce
      /\ pool \subseteq Operations \ committed
      /\ computed \subseteq Computations
  BY DEF Types, TypeOK
<1>1. CASE Start(w)
  <2>1. PICK t \in Jobs(w) : /\ job' = [job EXCEPT ![w] = t]
                            /\ processed' = [processed EXCEPT ![w] = @ \cup {t}]
                            /\ computed' = computed \cup
                                 {Computation(w, t, replica[w].status[t].expires)}
    BY <1>1 DEF Start
  <2>2. t \in Tasks /\ replica[w].status[t].kind = "Assigned"
    BY DEF Jobs, LeasedTo, Leases
  <2>6. replica[w].status[t].expires \in Nat
    <3>1. replica[w] \in LedgerStates
      BY DEF Types, TypeOK
    <3>2. replica[w].status[t] \in TaskStatuses
      BY <2>2, <3>1, LedgerFacts
    <3>. QED BY <2>2, <3>2 DEF TaskStatuses, Pending
  <2>7. Computation(w, t, replica[w].status[t].expires) \in Computations
    BY <2>2, <2>6 DEF Computation, Computations
  <2>3. /\ mode' = [mode EXCEPT ![w] = "computing"]
        /\ UNCHANGED <<program, logVars, nodeVars, nonce, stops>>
    BY <1>1 DEF Start
  <2>4. /\ processed' = [processed EXCEPT ![w] = processed[w] \cup {t}]
        /\ processed[w] \cup {t} \in SUBSET Tasks
        /\ computed' \subseteq Computations
    BY <1>0, <2>1, <2>2, <2>7
  <2>5. UNCHANGED <<committed, ledger, pool>>
    BY <2>3 DEF logVars
  <2>. QED BY <1>0, <2>1, <2>2, <2>3, <2>4, <2>5, LoopTypes
<1>2. CASE Finish(w)
  <2>1. PICK d \in Digests(w, job[w]) :
          Submit(SubmitResult(w, job[w], d)) \/ UNCHANGED logVars
    BY <1>2 DEF Finish
  <2>2. job[w] \in Tasks
    BY <1>2 DEF Finish, Types
  <2>3. SubmitResult(w, job[w], d) \in Operations
    BY <2>1, <2>2, DigestFacts, OperationFacts
  <2>4. UNCHANGED <<committed, ledger>> /\ pool' \subseteq Operations \ committed
    BY <1>0, <2>1, <2>3, SubmitTypes DEF logVars
  <2>5. /\ mode' = [mode EXCEPT ![w] = "idle"] /\ job' = [job EXCEPT ![w] = 0]
        /\ UNCHANGED <<program, nodeVars, processed, nonce, computed, stops>>
    BY <1>2 DEF Finish
  <2>. QED BY <1>0, <2>4, <2>5, LoopTypes
<1>3. CASE Claim(w)
  <2>1. /\ nonce[w] < MaxNonce /\ nonce' = [nonce EXCEPT ![w] = nonce[w] + 1]
        /\ Submit(RequestTask(w, nonce[w] + 1))
        /\ mode' = [mode EXCEPT ![w] = "waiting"]
        /\ UNCHANGED <<program, nodeVars, job, processed, computed, stops>>
    BY <1>3 DEF Claim
  <2>2. nonce[w] + 1 \in 1..MaxNonce /\ nonce[w] + 1 \in 0..MaxNonce
    BY <1>0, <2>1, ExecutorsAssumption
  <2>3. UNCHANGED <<committed, ledger>> /\ pool' \subseteq Operations \ committed
    BY <2>1, <2>2, OperationFacts, SubmitTypes
  <2>. QED BY <1>0, <2>1, <2>2, <2>3, LoopTypes
<1>4. CASE Wake(w)
  <2>1. /\ mode' = [mode EXCEPT ![w] = "idle"]
        /\ UNCHANGED <<program, committed, ledger, pool, nodeVars, job, processed, nonce,
                       computed, stops>>
    BY <1>4 DEF Wake, logVars
  <2>. QED BY <1>0, <2>1, LoopTypes
<1>. QED BY <1>1, <1>2, <1>3, <1>4 DEF Loop

LEMMA SealTypes ==
  ASSUME Types, NEW op \in pool, Seal(op)
  PROVE  Types'
<1>1. op \in Operations /\ op \notin committed /\ ledger \in LedgerStates
  BY DEF Types, TypeOK
<1>2. ledger' \in LedgerStates
  BY <1>1, ApplyEvolves DEF Seal
<1>3. /\ committed' = committed \cup {op} /\ pool' = pool \ {op}
      /\ backlog' = [w \in Workers |-> IF Up(w) THEN Append(backlog[w], op) ELSE <<>>]
      /\ UNCHANGED <<program, replica, mode, job, processed, nonce, computed, stops>>
  BY DEF Seal, loopVars
<1>4. ASSUME NEW w \in Workers
      PROVE  backlog'[w] \in Seq(Operations) /\ Range(backlog'[w]) \subseteq committed'
  <2>1. backlog[w] \in Seq(Operations) /\ Range(backlog[w]) \subseteq committed
    BY DEF Types, TypeOK
  <2>2. /\ Append(backlog[w], op) \in Seq(Operations)
        /\ Range(Append(backlog[w], op)) \subseteq committed'
    BY <1>1, <1>3, <2>1, RangeFacts
  <2>3. <<>> \in Seq(Operations) /\ Range(<<>>) = {}
    BY DEF Range
  <2>. QED BY <1>3, <2>2, <2>3
<1>5. backlog' \in [Workers -> Seq(Operations)]
  BY <1>3, <1>4
<1>. QED BY <1>1, <1>2, <1>3, <1>4, <1>5 DEF Types, TypeOK

LEMMA ApplyNextTypes ==
  ASSUME Types, NEW w \in Workers, ApplyNext(w)
  PROVE  Types'
<1>1. /\ backlog[w] # <<>> /\ backlog' = [backlog EXCEPT ![w] = Tail(backlog[w])]
      /\ replica' = [replica EXCEPT ![w] = Apply(replica[w], Head(backlog[w]))]
      /\ UNCHANGED <<program, committed, ledger, pool, mode, job, processed, nonce, computed,
                     stops>>
  BY DEF ApplyNext, logVars, loopVars
<1>2. /\ backlog \in [Workers -> Seq(Operations)] /\ Range(backlog[w]) \subseteq committed
      /\ replica \in [Workers -> LedgerStates]
  BY DEF Types, TypeOK
<1>3. /\ Tail(backlog[w]) \in Seq(Operations) /\ Head(backlog[w]) \in Operations
      /\ Range(Tail(backlog[w])) \subseteq committed
  BY <1>1, <1>2, OperationFacts, RangeFacts
<1>4. Apply(replica[w], Head(backlog[w])) \in LedgerStates
  BY <1>2, <1>3, ApplyEvolves
<1>5. replica' \in [Workers -> LedgerStates] /\ backlog' \in [Workers -> Seq(Operations)]
  BY <1>1, <1>2, <1>3, <1>4
<1>6. \A v \in Workers : Range(backlog'[v]) \subseteq committed'
  <2> TAKE v \in Workers
  <2>1. CASE v = w
    BY <1>1, <1>2, <1>3, <2>1
  <2>2. CASE v # w
    BY <1>1, <1>2, <2>2 DEF Types, TypeOK
  <2>. QED BY <2>1, <2>2
<1>. QED BY <1>1, <1>5, <1>6 DEF Types, TypeOK

LEMMA StopTypes ==
  ASSUME Types, NEW w \in Workers, Stop(w)
  PROVE  Types'
<1>1. /\ stops < MaxStops /\ stops' = stops + 1
      /\ mode' = [mode EXCEPT ![w] = "stopped"]
      /\ replica' = [replica EXCEPT ![w] = Genesis]
      /\ backlog' = [backlog EXCEPT ![w] = <<>>]
      /\ processed' = [processed EXCEPT ![w] = {}]
      /\ nonce' = [nonce EXCEPT ![w] = 0] /\ job' = [job EXCEPT ![w] = 0]
      /\ pool' \subseteq pool
      /\ UNCHANGED <<program, committed, ledger, computed>>
  BY DEF Stop, Remembered
<1>2. Genesis \in LedgerStates /\ <<>> \in Seq(Operations) /\ Range(<<>>) = {}
  BY GenesisFacts DEF Range
<1>3. /\ mode' \in [Workers -> {"idle", "computing", "waiting", "stopped"}]
      /\ job' \in [Workers -> Tasks \cup {0}]
      /\ processed' \in [Workers -> SUBSET Tasks]
      /\ replica' \in [Workers -> LedgerStates]
      /\ backlog' \in [Workers -> Seq(Operations)]
  BY <1>1, <1>2 DEF Types, TypeOK
<1>4. nonce' \in [Workers -> 0..MaxNonce] /\ stops' \in 0..MaxStops
  BY <1>1, ExecutorsAssumption DEF Types, TypeOK
<1>5. \A v \in Workers : /\ Range(backlog'[v]) \subseteq committed'
                         /\ mode'[v] = "computing" => job'[v] \in Tasks
  <2> TAKE v \in Workers
  <2>1. CASE v = w
    BY <1>1, <1>2, <2>1 DEF Types, TypeOK
  <2>2. CASE v # w
    BY <1>1, <2>2 DEF Types, TypeOK
  <2>. QED BY <2>1, <2>2
<1>. QED BY <1>1, <1>3, <1>4, <1>5 DEF Types, TypeOK

LEMMA RestartTypes ==
  ASSUME Types, NEW w \in Workers, Restart(w)
  PROVE  Types'
<1>1. /\ mode' = [mode EXCEPT ![w] = "idle"]
      /\ UNCHANGED <<program, committed, ledger, pool, job, processed, nonce, computed, stops>>
  BY DEF Restart, logVars
<1>2. PICK r, b : /\ replica' = [replica EXCEPT ![w] = r]
                  /\ backlog' = [backlog EXCEPT ![w] = b]
                  /\ r \in LedgerStates /\ b \in Seq(Operations)
                  /\ Range(b) \subseteq committed
  <2>1. CASE replica' = [replica EXCEPT ![w] = ledger] /\ UNCHANGED backlog
    <3>1. backlog = [backlog EXCEPT ![w] = backlog[w]]
      BY DEF Types
    <3>. QED BY <2>1, <3>1 DEF Types, TypeOK
  <2>2. CASE \E peer \in {v \in Workers : Up(v)} :
               /\ replica' = [replica EXCEPT ![w] = replica[peer]]
               /\ backlog' = [backlog EXCEPT ![w] = backlog[peer]]
    BY <2>2 DEF Types, TypeOK
  <2>. QED BY <2>1, <2>2 DEF Restart
<1>3. /\ mode' \in [Workers -> {"idle", "computing", "waiting", "stopped"}]
      /\ replica' \in [Workers -> LedgerStates]
      /\ backlog' \in [Workers -> Seq(Operations)]
  BY <1>1, <1>2 DEF Types, TypeOK
<1>4. \A v \in Workers : /\ Range(backlog'[v]) \subseteq committed'
                         /\ mode'[v] = "computing" => job'[v] \in Tasks
  <2> TAKE v \in Workers
  <2>1. CASE v = w
    BY <1>1, <1>2, <2>1 DEF Types, TypeOK
  <2>2. CASE v # w
    BY <1>1, <1>2, <2>2 DEF Types, TypeOK
  <2>. QED BY <2>1, <2>2
<1>. QED BY <1>1, <1>3, <1>4 DEF Types, TypeOK

LEMMA TypesStep ==
  ASSUME Types, [Next]_vars
  PROVE  Types'
<1>1. CASE UNCHANGED vars
  BY <1>1 DEF vars, logVars, nodeVars, loopVars, Types, TypeOK, Range
<1>2. CASE TickTimer
  <2>1. UNCHANGED <<committed, ledger>> /\ pool' \subseteq Operations \ committed
    BY <1>2, OperationFacts, SubmitTypes DEF TickTimer
  <2>2. UNCHANGED <<program, replica, backlog, mode, job, processed, nonce, computed, stops>>
    BY <1>2 DEF TickTimer, nodeVars, loopVars
  <2>. QED BY <2>1, <2>2 DEF Types, TypeOK
<1>. QED
  BY <1>1, <1>2, ApplyNextTypes, SealTypes, LoopKeepsTypes, StopTypes, RestartTypes DEF Next

-----------------------------------------------------------------------------
\* Replicas.

LEMMA LeadsFacts ==
  ASSUME NEW G, NEW r, NEW b \in Seq(Operations), NEW l, Leads(G, r, b, l)
  PROVE  Granted(r) \subseteq G
<1>1. PICK S \in Seq(LedgerStates) : Path(G, S, r, b, l)
  BY DEF Leads
<1>2. 1 \in 1..Len(S)
  BY <1>1 DEF Path
<1>. QED BY <1>1, <1>2 DEF Path

LEMMA LeadsItself ==
  ASSUME NEW l \in LedgerStates, NEW G, Granted(l) \subseteq G
  PROVE  Leads(G, l, <<>>, l)
<1>1. PICK S : S = <<l>>
  OBVIOUS
<1>2. S \in Seq(LedgerStates) /\ Len(S) = 1 /\ S[1] = l
  BY <1>1
<1>3. Path(G, S, l, <<>>, l)
  BY <1>2 DEF Path
<1>. QED BY <1>2, <1>3 DEF Leads

LEMMA LeadsOn ==
  ASSUME NEW G, NEW H, G \subseteq H,
         NEW r, NEW b \in Seq(Operations), NEW l \in LedgerStates, Leads(G, r, b, l),
         NEW op \in Operations, Granted(Apply(l, op)) \subseteq H
  PROVE  Leads(H, r, Append(b, op), Apply(l, op))
<1>1. PICK S \in Seq(LedgerStates) : Path(G, S, r, b, l)
  BY DEF Leads
<1>2. PICK next : next = Apply(l, op)
  OBVIOUS
<1>3. next \in LedgerStates /\ Granted(next) \subseteq H
  BY <1>2, ApplyEvolves
<1>4. PICK T : T = Append(S, next)
  OBVIOUS
<1>5. PICK c : c = Append(b, op)
  OBVIOUS
<1>6. /\ T \in Seq(LedgerStates) /\ Len(T) = Len(S) + 1 /\ T[Len(S) + 1] = next
      /\ \A i \in 1..Len(S) : T[i] = S[i]
  BY <1>3, <1>4
<1>7. /\ Len(c) = Len(b) + 1 /\ c[Len(b) + 1] = op /\ Len(b) \in Nat
      /\ \A i \in 1..Len(b) : c[i] = b[i]
  BY <1>5
<1>8. /\ Len(S) = Len(b) + 1 /\ S[1] = r /\ S[Len(S)] = l
      /\ \A i \in 1..Len(S) : Granted(S[i]) \subseteq G
  BY <1>1 DEF Path
<1>9. Len(T) = Len(c) + 1 /\ T[1] = r /\ T[Len(T)] = next
  BY <1>6, <1>7, <1>8
<1>10. ASSUME NEW i \in 1..Len(c)
       PROVE  T[i + 1] = Apply(T[i], c[i])
  <2>1. CASE i \in 1..Len(b)
    <3>1. i \in 1..Len(S) /\ i + 1 \in 1..Len(S)
      BY <1>7, <1>8, <2>1
    <3>. QED BY <1>1, <1>6, <1>7, <2>1, <3>1 DEF Path
  <2>2. CASE i = Len(b) + 1
    <3>1. i \in 1..Len(S) /\ i + 1 = Len(S) + 1 /\ i = Len(S)
      BY <1>7, <1>8, <2>2
    <3>2. T[i] = l /\ T[i + 1] = next /\ c[i] = op
      BY <1>6, <1>7, <1>8, <2>2, <3>1
    <3>. QED BY <1>2, <3>2
  <2>. QED BY <1>7, <2>1, <2>2
<1>11. ASSUME NEW i \in 1..Len(T)
       PROVE  Granted(T[i]) \subseteq H
  <2>1. CASE i \in 1..Len(S)
    BY <1>6, <1>8, <2>1
  <2>2. CASE i = Len(S) + 1
    BY <1>3, <1>6, <2>2
  <2>. QED BY <1>6, <1>7, <1>8, <2>1, <2>2
<1>12. Path(H, T, r, c, next)
  BY <1>9, <1>10, <1>11 DEF Path
<1>. QED BY <1>2, <1>5, <1>6, <1>12 DEF Leads

LEMMA LeadsNext ==
  ASSUME NEW G, NEW r, NEW b \in Seq(Operations), b # <<>>, NEW l, Leads(G, r, b, l)
  PROVE  Leads(G, Apply(r, Head(b)), Tail(b), l)
<1>1. PICK S \in Seq(LedgerStates) : Path(G, S, r, b, l)
  BY DEF Leads
<1>2. PICK T : T = Tail(S)
  OBVIOUS
<1>3. PICK c : c = Tail(b)
  OBVIOUS
<1>4. /\ Len(S) = Len(b) + 1 /\ S[1] = r /\ S[Len(S)] = l
      /\ \A i \in 1..Len(b) : S[i + 1] = Apply(S[i], b[i])
      /\ \A i \in 1..Len(S) : Granted(S[i]) \subseteq G
  BY <1>1 DEF Path
<1>5. /\ Len(b) \in Nat /\ Len(b) > 0 /\ Len(c) = Len(b) - 1 /\ b[1] = Head(b)
      /\ \A i \in 1..Len(c) : c[i] = b[i + 1]
  BY <1>3
<1>6. S # <<>>
  BY <1>4, <1>5
<1>7. /\ T \in Seq(LedgerStates) /\ Len(T) = Len(S) - 1
      /\ \A i \in 1..Len(T) : T[i] = S[i + 1]
  BY <1>2, <1>6
<1>8. Len(T) = Len(b) /\ Len(T) = Len(c) + 1 /\ 1 \in 1..Len(T) /\ Len(T) \in 1..Len(T)
  BY <1>4, <1>5, <1>7
<1>9. T[1] = Apply(r, Head(b)) /\ T[Len(T)] = l
  BY <1>4, <1>5, <1>7, <1>8
<1>10. ASSUME NEW i \in 1..Len(c)
       PROVE  T[i + 1] = Apply(T[i], c[i])
  <2>1. i \in 1..Len(T) /\ i + 1 \in 1..Len(T) /\ i + 1 \in 1..Len(b)
    BY <1>5, <1>8
  <2>. QED BY <1>4, <1>5, <1>7, <2>1
<1>11. ASSUME NEW i \in 1..Len(T)
       PROVE  Granted(T[i]) \subseteq G
  <2>1. i + 1 \in 1..Len(S)
    BY <1>4, <1>5, <1>8
  <2>. QED BY <1>4, <1>7, <2>1
<1>12. Path(G, T, Apply(r, Head(b)), c, l)
  BY <1>8, <1>9, <1>10, <1>11 DEF Path
<1>. QED BY <1>3, <1>7, <1>12 DEF Leads

-----------------------------------------------------------------------------
\* The history of leases.

LEMMA HistoryInit == Init => History({})
<1> SUFFICES ASSUME Init PROVE History({})
  OBVIOUS
<1>1. /\ ledger = Genesis /\ computed = {}
      /\ \A w \in Workers : replica[w] = Genesis /\ backlog[w] = <<>>
  BY DEF Init
<1>2. Replicas({})
  BY <1>1, GenesisFacts, LeadsItself DEF Replicas
<1>. QED BY <1>1, <1>2, GenesisFacts DEF History, Lent

\* Sealing an operation may add one lease to those there have been.
LEMMA SealHistory ==
  ASSUME Types, NEW G, History(G), NEW op \in pool, Seal(op)
  PROVE  \E H : History(H)'
<1>1. /\ op \in Operations /\ ledger \in LedgerStates
      /\ backlog \in [Workers -> Seq(Operations)]
  BY DEF Types, TypeOK
<1>2. /\ ledger' = Apply(ledger, op) /\ UNCHANGED <<replica, mode, computed>>
      /\ backlog' = [w \in Workers |-> IF Up(w) THEN Append(backlog[w], op) ELSE <<>>]
  BY DEF Seal, loopVars
<1>3. PICK new \in LedgerStates : new = ledger' /\ Evolves(ledger, new)
  BY <1>1, <1>2, ApplyEvolves
<1>4. PICK H : H = G \cup Granted(new)
  OBVIOUS
<1>5. G \subseteq Computations /\ \A g \in G : Settled(g, ledger)
  BY DEF History, Lent
<1>6. H \subseteq Computations
  BY <1>3, <1>4, <1>5, GrantedFacts
<1>7. ASSUME NEW g \in H PROVE Settled(g, new)
  <2>1. CASE g \in G
    BY <1>1, <1>3, <1>5, <2>1, SettledStays
  <2>2. CASE g \in Granted(new)
    BY <2>2 DEF Settled
  <2>. QED BY <1>4, <2>1, <2>2
<1>8. ASSUME NEW g \in H, g \notin G, NEW h \in G, g.task = h.task
      PROVE  Apart(g, h)
  <2>1. g \in Granted(new) /\ g \notin Granted(ledger)
    BY <1>4, <1>8 DEF History, Lent
  <2>2. h \in Computations /\ Settled(h, ledger)
    BY <1>5
  <2>3. h.expires + LeaseTimeoutTicks <= g.expires
    BY <1>1, <1>3, <1>8, <2>1, <2>2, NewLeases
  <2>. QED BY <2>3 DEF Apart
<1>9. ASSUME NEW g \in H, NEW h \in H, g.task = h.task
      PROVE  Apart(g, h)
  <2>1. CASE g \in G /\ h \in G
    BY <1>9, <2>1 DEF History, Lent
  <2>2. CASE g \notin G /\ h \in G
    BY <1>8, <1>9, <2>2
  <2>3. CASE g \in G /\ h \notin G
    <3>1. Apart(h, g)
      BY <1>8, <1>9, <2>3
    <3>. QED BY <3>1 DEF Apart
  <2>4. CASE g \notin G /\ h \notin G
    <3>1. g = LeaseOf(new, g.task) /\ h = LeaseOf(new, h.task)
      BY <1>3, <1>4, <2>4, GrantedFacts
    <3>. QED BY <1>9, <3>1 DEF Apart
  <2>. QED BY <2>1, <2>2, <2>3, <2>4
<1>10. ASSUME NEW w \in Workers
       PROVE  IF Up(w) THEN Leads(H, replica[w], backlog'[w], new) ELSE backlog'[w] = <<>>
  <2>1. Granted(Apply(ledger, op)) \subseteq H /\ G \subseteq H
    BY <1>2, <1>3, <1>4
  <2>. QED BY <1>1, <1>2, <1>3, <2>1, LeadsOn DEF History, Replicas
<1>11. Granted(new) \subseteq H /\ computed \subseteq H
  BY <1>4 DEF History, Lent
<1>12. Lent(H)'
  BY <1>2, <1>3, <1>6, <1>7, <1>9, <1>11 DEF Lent
<1>13. Replicas(H)'
  BY <1>2, <1>3, <1>10 DEF Replicas, Up
<1>. QED BY <1>12, <1>13 DEF History

\* A replica takes its next step on the way to the log's ledger.
LEMMA ApplyNextHistory ==
  ASSUME Types, NEW G, History(G), NEW w \in Workers, ApplyNext(w)
  PROVE  History(G)'
<1>1. /\ backlog \in [Workers -> Seq(Operations)] /\ replica \in [Workers -> LedgerStates]
  BY DEF Types, TypeOK
<1>2. /\ backlog[w] # <<>> /\ backlog' = [backlog EXCEPT ![w] = Tail(backlog[w])]
      /\ replica' = [replica EXCEPT ![w] = Apply(replica[w], Head(backlog[w]))]
      /\ UNCHANGED <<ledger, mode, computed>>
  BY DEF ApplyNext, logVars, loopVars
<1>3. Up(w) /\ Leads(G, replica'[w], backlog'[w], ledger)
  BY <1>1, <1>2, LeadsNext DEF History, Replicas
<1>4. ASSUME NEW v \in Workers, v # w
      PROVE  replica'[v] = replica[v] /\ backlog'[v] = backlog[v]
  BY <1>1, <1>2, <1>4
<1>5. Replicas(G)'
  BY <1>2, <1>3, <1>4 DEF History, Replicas, Up
<1>6. Lent(G)'
  BY <1>2 DEF History, Lent
<1>. QED BY <1>5, <1>6 DEF History

\* What a worker takes up is lent to it by its replica, thus by a lease of G.
LEMMA LoopHistory ==
  ASSUME Types, NEW G, History(G), NEW w \in Workers, Loop(w)
  PROVE  History(G)'
<1>1. /\ mode \in [Workers -> {"idle", "computing", "waiting", "stopped"}]
      /\ backlog \in [Workers -> Seq(Operations)] /\ replica \in [Workers -> LedgerStates]
  BY DEF Types, TypeOK
<1>2. UNCHANGED <<ledger, replica, backlog>>
  BY DEF Loop, Start, Finish, Claim, Wake, Submit, logVars, nodeVars
<1>3. PICK m \in {"idle", "computing", "waiting"} : mode' = [mode EXCEPT ![w] = m]
  BY DEF Loop, Start, Finish, Claim, Wake
<1>4. Up(w)
  BY DEF Loop, Start, Finish, Claim, Wake, Up
<1>5. \A v \in Workers : Up(v)' <=> Up(v)
  BY <1>1, <1>3, <1>4 DEF Up
<1>6. Replicas(G)'
  BY <1>2, <1>5 DEF History, Replicas
<1>7. computed' \subseteq G
  <2>1. CASE Start(w)
    <3>1. PICK t \in Jobs(w) : computed' = computed \cup
                                 {Computation(w, t, replica[w].status[t].expires)}
      BY <2>1 DEF Start
    <3>2. t \in Leases(replica[w]) /\ replica[w].status[t].worker = w
      BY DEF Jobs, LeasedTo
    <3>3. Computation(w, t, replica[w].status[t].expires) \in Granted(replica[w])
      BY <3>2 DEF Granted, LeaseOf
    <3>4. Granted(replica[w]) \subseteq G
      BY <1>1, <1>4, LeadsFacts DEF History, Replicas
    <3>. QED BY <3>1, <3>3, <3>4 DEF History, Lent
  <2>2. CASE Finish(w) \/ Claim(w) \/ Wake(w)
    BY <2>2 DEF Finish, Claim, Wake, History, Lent
  <2>. QED BY <2>1, <2>2 DEF Loop
<1>8. Lent(G)'
  BY <1>2, <1>7 DEF History, Lent
<1>. QED BY <1>6, <1>8 DEF History

LEMMA StopHistory ==
  ASSUME Types, NEW G, History(G), NEW w \in Workers, Stop(w)
  PROVE  History(G)'
<1>1. /\ mode \in [Workers -> {"idle", "computing", "waiting", "stopped"}]
      /\ backlog \in [Workers -> Seq(Operations)] /\ replica \in [Workers -> LedgerStates]
  BY DEF Types, TypeOK
<1>2. /\ mode' = [mode EXCEPT ![w] = "stopped"]
      /\ replica' = [replica EXCEPT ![w] = Genesis]
      /\ backlog' = [backlog EXCEPT ![w] = <<>>]
      /\ UNCHANGED <<ledger, computed>>
  BY DEF Stop
<1>3. mode'[w] = "stopped" /\ backlog'[w] = <<>>
  BY <1>1, <1>2
<1>4. ASSUME NEW v \in Workers, v # w
      PROVE  mode'[v] = mode[v] /\ replica'[v] = replica[v] /\ backlog'[v] = backlog[v]
  BY <1>1, <1>2, <1>4
<1>5. Replicas(G)'
  BY <1>2, <1>3, <1>4 DEF History, Replicas, Up
<1>6. Lent(G)'
  BY <1>2 DEF History, Lent
<1>. QED BY <1>5, <1>6 DEF History

\* Who starts again starts with the log's ledger, or stands where a peer does.
LEMMA RestartHistory ==
  ASSUME Types, NEW G, History(G), NEW w \in Workers, Restart(w)
  PROVE  History(G)'
<1>1. /\ mode \in [Workers -> {"idle", "computing", "waiting", "stopped"}]
      /\ backlog \in [Workers -> Seq(Operations)] /\ replica \in [Workers -> LedgerStates]
      /\ ledger \in LedgerStates
  BY DEF Types, TypeOK
<1>2. /\ mode' = [mode EXCEPT ![w] = "idle"] /\ UNCHANGED <<ledger, computed>> /\ ~Up(w)
  BY DEF Restart, logVars, Up
<1>3. PICK r, b : /\ replica' = [replica EXCEPT ![w] = r]
                  /\ backlog' = [backlog EXCEPT ![w] = b]
                  /\ Leads(G, r, b, ledger)
  <2>1. CASE replica' = [replica EXCEPT ![w] = ledger] /\ UNCHANGED backlog
    <3>1. backlog[w] = <<>>
      BY <1>2 DEF History, Replicas
    <3>2. backlog' = [backlog EXCEPT ![w] = <<>>]
      BY <1>1, <2>1, <3>1
    <3>3. Leads(G, ledger, <<>>, ledger)
      BY <1>1, LeadsItself DEF History, Lent
    <3>. QED BY <2>1, <3>2, <3>3
  <2>2. CASE \E peer \in {v \in Workers : Up(v)} :
               /\ replica' = [replica EXCEPT ![w] = replica[peer]]
               /\ backlog' = [backlog EXCEPT ![w] = backlog[peer]]
    BY <2>2 DEF History, Replicas
  <2>. QED BY <2>1, <2>2 DEF Restart
<1>4. /\ mode'[w] = "idle" /\ replica'[w] = r /\ backlog'[w] = b
      /\ \A v \in Workers : v # w =>
           mode'[v] = mode[v] /\ replica'[v] = replica[v] /\ backlog'[v] = backlog[v]
  BY <1>1, <1>2, <1>3
<1>5. Replicas(G)'
  BY <1>2, <1>3, <1>4 DEF History, Replicas, Up
<1>6. Lent(G)'
  BY <1>2 DEF History, Lent
<1>. QED BY <1>5, <1>6 DEF History

\* Steps that leave the log, the replicas, the loops and the history as they are.
LEMMA SameHistory ==
  ASSUME NEW G, History(G), UNCHANGED <<ledger, replica, backlog, mode, computed>>
  PROVE  History(G)'
BY DEF History, Lent, Replicas, Up

LEMMA HistoryStep ==
  ASSUME Types, NEW G, History(G), [Next]_vars
  PROVE  \E H : History(H)'
<1>1. CASE UNCHANGED vars \/ TickTimer
  <2>1. UNCHANGED <<ledger, replica, backlog, mode, computed>>
    BY <1>1 DEF TickTimer, Submit, vars, logVars, nodeVars, loopVars
  <2>. QED BY <2>1, SameHistory
<1>. QED
  BY <1>1, SealHistory, ApplyNextHistory, LoopHistory, StopHistory, RestartHistory DEF Next

-----------------------------------------------------------------------------
\* The theorems.

Inductive == Types /\ \E G : History(G)

LEMMA InductiveInit == Init => Inductive
BY TypesInit, HistoryInit DEF Inductive

LEMMA InductiveStep == Inductive /\ [Next]_vars => Inductive'
<1> SUFFICES ASSUME Inductive, [Next]_vars PROVE Inductive'
  OBVIOUS
<1>1. PICK G : History(G)
  BY DEF Inductive
<1>2. \E H : History(H)'
  BY <1>1, HistoryStep DEF Inductive
<1>3. Types'
  BY TypesStep DEF Inductive
<1>. QED BY <1>2, <1>3 DEF Inductive

\* The invariant holds in every state.
LEMMA Invariance == Spec => []Inductive
BY InductiveInit, InductiveStep, PTL DEF Spec

\* Every variable keeps the shape its Rust type gives it: what executors hand to
\* the mempools are operations apply_op knows, whatever their payloads do.
THEOREM ExecutorTypes == Spec => []TypeOK
<1>1. Inductive => TypeOK
  BY DEF Inductive, Types
<1>. QED BY <1>1, Invariance, PTL

\* However far the replicas that ops_executor_loop reads lag behind the log and each
\* other, and whoever restarts: a task is computed twice only under one lease, or
\* under leases whose ends are a whole term apart.
THEOREM WorkIsExclusive == Spec => []ExclusiveWork
<1>1. Inductive => ExclusiveWork
  BY DEF Inductive, History, Lent, Apart, ExclusiveWork
<1>. QED BY <1>1, Invariance, PTL

=============================================================================
