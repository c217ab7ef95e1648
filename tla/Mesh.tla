-------------------------------- MODULE Mesh --------------------------------
(***************************************************************************)
(* The links of one hub (p2p_connection, flood_* and the loop around them  *)
(* in actor.rs): a coordinator that relays between the workers that        *)
(* dialled it.  Every connection has a task at the hub that reads one      *)
(* message after the other and handles it in several critical sections;    *)
(* the tasks share the hub's peer map, its seen-set and its engine.  A     *)
(* worker may leave and connect again with the same key, in a new life,    *)
(* while the hub's task of its old connection still runs.                  *)
(*                                                                         *)
(* Abstractions.  The engine is what it hands to the mesh: validators and  *)
(* pending operations; what it does with them is module Consensus.  The    *)
(* messages a handler writes to one peer in a row are one message that     *)
(* carries a set.  A worker has one link and only collects what it is      *)
(* told, nothing can come between its own critical sections, and nobody    *)
(* can tell what is under way to it from what it has read: it reads at     *)
(* once.  A flood is one step: the peer map stays locked throughout it.    *)
(* SyncRequests are left out, they travel on one link only.                *)
(***************************************************************************)
EXTENDS Naturals, FiniteSets, Sequences, Functions

CONSTANTS
  Workers,           \* the keys of the nodes that dial
  Hub,               \* the key of the node that listens
  Returning,         \* workers that connect a second time
  Users,             \* workers that submit an operation, which has their name
  MaxCuts            \* bound: how many connections break

ASSUME MeshAssumption ==
  /\ Hub \notin Workers
  /\ Returning \subseteq Workers /\ Users \subseteq Workers
  /\ MaxCuts \in Nat

\* A connection is a worker and its life.
Connections == (Workers \X {1}) \cup (Returning \X {2})
WorkerOf(c) == c[1]
First(c) == <<c[1], 1>>

VARIABLES
  \* the hub
  peers,             \* PeerMap: worker -> the connection whose writer it holds
  validators,        \* every validator the engine has heard of
  active,            \* those that count
  pool,              \* mempool of the engine
  seen,              \* SeenSet: keys and operations, each with its type
  todo,              \* todo[c]: the critical sections its task has yet to enter,
                     \* each with the keys or operations it is about
  greeted,           \* the connections whose Hello the hub has read
  \* a worker, by connection
  known,             \* known[c]: the validators of the engine of that life
  pending,           \* pending[c]: its mempool
  \* the network
  up,                \* up[c]: the messages on their way to the hub
  dialled,           \* connections there have been
  cut,               \* connections that broke
  overlapped         \* history: those that had a twin open at a time

vars == <<peers, validators, active, pool, seen, todo, greeted, known, pending, up,
          dialled, cut, overlapped>>
history == <<greeted, overlapped>>

-----------------------------------------------------------------------------
Hello == [type |-> "Hello"]
Validators(keys) == [type |-> "Validator", set |-> keys]
\* No batch of nothing.
Operations(ops) ==
  IF ops = {} THEN <<>> ELSE <<[type |-> "Op", set |-> ops]>>

Init ==
  /\ peers = <<>>
  /\ validators = {Hub} /\ active = {Hub}
  /\ pool = {} /\ seen = {}
  /\ todo = [c \in Connections |-> <<>>]
  /\ greeted = {} /\ overlapped = {}
  /\ known = [c \in Connections |-> {WorkerOf(c)}]
  /\ pending = [c \in Connections |-> {}]
  /\ up = [c \in Connections |-> <<>>]
  /\ dialled = {} /\ cut = {}

\* What a worker writes to the hub: nothing to a broken socket.
Sent(c, msgs) == IF c \in cut THEN up ELSE [up EXCEPT ![c] = @ \o msgs]

\* What the workers have collected after the hub wrote `set` to these connections.
Collected(has, told, set) ==
  [c \in Connections |-> IF c \in told \ cut THEN has[c] \cup set ELSE has[c]]

\* flood_envelope: to every peer but the worker the gossip is from.
PeersBut(from) == {c \in Range(peers) : WorkerOf(c) # from}

-----------------------------------------------------------------------------
\* The life of a connection.

\* Both ends announce themselves.  The worker has read the hub's Hello and hands
\* over what it knows; its engine is new.  The life before this one is over, the
\* task of the connection before may not be.
Dial(c) ==
  /\ c \notin dialled
  /\ First(c) \in dialled \cup {c}
  /\ dialled' = dialled \cup {c}
  /\ known' = [known EXCEPT ![c] = @ \cup {Hub}]
  /\ up' = Sent(c, <<Hello, Validators(known'[c])>> \o Operations(pending[c]))
  /\ UNCHANGED <<peers, validators, active, pool, seen, todo, history, pending, cut>>

InItsLife(c) == \A d \in dialled : WorkerOf(d) = WorkerOf(c) => d[2] <= c[2]

\* The socket breaks; what is under way to the hub may arrive first, or be lost.
Cut(c) ==
  /\ c \in dialled \ cut
  /\ Cardinality(cut) < MaxCuts
  /\ cut' = cut \cup {c}
  /\ up' \in {up, [up EXCEPT ![c] = <<>>]}
  /\ UNCHANGED <<peers, validators, active, pool, seen, todo, history, known,
                 pending, dialled>>

-----------------------------------------------------------------------------
\* The hub's task of a connection.

HelloSteps_AnnounceFirst == <<"announce", "greet", "handOver">>  \* mutant

\* The critical sections in which the handlers and the end of the task do their
\* work, in their order; the first of them is one step with the reading.
HelloSteps     == <<"greet", "announce", "handOver">>
ValidatorSteps == <<"learn", "announce">>
OpSteps        == <<"relay", "handle">>
CloseSteps     == <<"deactivate", "closed">>

With(steps, set) == [i \in DOMAIN steps |-> [step |-> steps[i], set |-> set]]

Closed(c) == todo[c] # <<>> /\ Head(todo[c]).step = "closed"
Open(c) == c \in greeted /\ ~Closed(c)
Twins(c) == {d \in greeted \ {c} : WorkerOf(d) = WorkerOf(c) /\ Open(d)}

Reads(c) ==
  /\ todo[c] = <<>> /\ up[c] # <<>>
  /\ up' = [up EXCEPT ![c] = Tail(@)]
  /\ UNCHANGED <<validators, active, pool, known, pending, dialled, cut>>

\* Hello: the writer of this connection becomes the one for the peer.
ReadHello(c) ==
  /\ Reads(c) /\ Head(up[c]).type = "Hello"
  /\ greeted' = greeted \cup {c}
  /\ overlapped' = IF Twins(c) = {} THEN overlapped
                   ELSE overlapped \cup Twins(c) \cup {c}
  /\ peers' = [w \in DOMAIN peers \cup {WorkerOf(c)} |->
                 IF w = WorkerOf(c) THEN c ELSE peers[w]]
  /\ todo' = [todo EXCEPT ![c] = With(HelloSteps, {WorkerOf(c)})]
  /\ UNCHANGED seen

\* Gossip: what it brings that is not new is dropped.
ReadGossip(c) ==
  /\ Reads(c) /\ Head(up[c]).type # "Hello"
  /\ LET type == Head(up[c]).type
         fresh == {x \in Head(up[c]).set : <<type, x>> \notin seen}
         steps == IF type = "Op" THEN OpSteps ELSE ValidatorSteps
     IN  /\ seen' = seen \cup ({type} \X fresh)
         /\ todo' = [todo EXCEPT ![c] =
                       IF fresh = {} THEN <<>> ELSE With(steps, fresh)]
  /\ UNCHANGED <<peers, history>>

\* One critical section of the task: it is c's turn to do `step`.
Enter(c, step) ==
  /\ todo[c] # <<>>
  /\ Head(todo[c]).step = step
  /\ todo' = [todo EXCEPT ![c] = Tail(@)]
  /\ UNCHANGED <<peers, seen, history, up, dialled, cut>>

What(c) == Head(todo[c]).set

Added(c) ==
  /\ validators' = validators \cup What(c)
  /\ active' = active \cup What(c)
  /\ UNCHANGED <<pool, pending>>

\* add_validator; a new peer is told of the others,
Greet(c) ==
  /\ Enter(c, "greet") /\ Added(c)
  /\ known' = Collected(known, {c}, validators')

Learn(c) == Enter(c, "learn") /\ Added(c) /\ UNCHANGED known

\* and the other peers of the new validator,
Announce(c) ==
  /\ Enter(c, "announce")
  /\ known' = Collected(known, PeersBut(WorkerOf(c)), What(c))
  /\ UNCHANGED <<validators, active, pool, pending>>

\* or of an operation.
Relay(c) ==
  /\ Enter(c, "relay")
  /\ pending' = Collected(pending, PeersBut(WorkerOf(c)), What(c))
  /\ UNCHANGED <<validators, active, pool, known>>

\* on_message of the operation.
Handle(c) ==
  /\ Enter(c, "handle")
  /\ pool' = pool \cup What(c)
  /\ UNCHANGED <<validators, active, known, pending>>

\* The pending operations, for the new peer.
HandOver(c) ==
  /\ Enter(c, "handOver")
  /\ pending' = Collected(pending, {c}, pool)
  /\ UNCHANGED <<validators, active, pool, known>>

Ended(c) ==
  /\ todo[c] = <<>> /\ up[c] = <<>> /\ c \in cut
  /\ todo' = [todo EXCEPT ![c] =
                With(IF c \in greeted THEN CloseSteps ELSE <<"closed">>, {})]
  /\ UNCHANGED <<validators, active, pool, seen, history, known, pending, up,
                 dialled, cut>>

Close_KeepPeer(c) == Ended(c) /\ UNCHANGED peers                \* mutant

\* The end of the stream: the peer's writer is dropped, whatever connection the
\* peer map holds for the worker by now.
Close(c) ==
  /\ Ended(c)
  /\ peers' = IF c \in greeted THEN Restrict(peers, DOMAIN peers \ {WorkerOf(c)})
              ELSE peers

Deactivate(c) ==
  /\ Enter(c, "deactivate")
  /\ active' = active \ {WorkerOf(c)}
  /\ UNCHANGED <<validators, pool, known, pending>>

Task(c) ==
  \/ ReadHello(c) \/ ReadGossip(c)
  \/ Greet(c) \/ Learn(c) \/ Announce(c) \/ Relay(c) \/ Handle(c) \/ HandOver(c)
  \/ Close(c) \/ Deactivate(c)

-----------------------------------------------------------------------------
\* Operations.

\* submit_and_flood at a worker: each operation once, maybe before there is a link.
Submit(c) ==
  /\ c = First(c) /\ WorkerOf(c) \in Users
  /\ InItsLife(c)
  /\ WorkerOf(c) \notin pending[c]
  /\ pending' = [pending EXCEPT ![c] = @ \cup {WorkerOf(c)}]
  /\ up' = IF c \in dialled THEN Sent(c, Operations({WorkerOf(c)})) ELSE up
  /\ UNCHANGED <<peers, validators, active, pool, seen, todo, history, known,
                 dialled, cut>>

HubSync_Nothing ==                                              \* mutant
  /\ \E c \in Range(peers) \ cut : ~(pool \subseteq pending[c])
  /\ UNCHANGED vars

\* The sync timers gossip again what is pending.  Bound: when a peer lacks some of
\* it, the others drop it; a worker's while nothing of its own is under way.
HubSync ==
  /\ \E c \in Range(peers) \ cut : ~(pool \subseteq pending[c])
  /\ pending' = Collected(pending, Range(peers), pool)
  /\ UNCHANGED <<peers, validators, active, pool, seen, todo, history, known, up,
                 dialled, cut>>

WorkerSync(c) ==
  /\ c \in dialled /\ InItsLife(c) /\ up[c] = <<>>
  /\ \E op \in pending[c] : <<"Op", op>> \notin seen
  /\ up' = Sent(c, Operations(pending[c]))
  /\ UNCHANGED <<peers, validators, active, pool, seen, todo, history, known,
                 pending, dialled, cut>>

Next ==
  \/ \E c \in Connections :
       Dial(c) \/ Cut(c) \/ Task(c) \/ Submit(c) \/ WorkerSync(c)
  \/ HubSync

\* Tasks are scheduled, sockets deliver or break, the hub's timer fires.
Fairness == WF_vars(HubSync) /\ \A c \in Connections : WF_vars(Task(c))

Spec == Init /\ [][Next]_vars /\ Fairness

-----------------------------------------------------------------------------
\* What the mesh promises.

\* The hub writes only to connections whose task still runs; and a connection it
\* has greeted is its link to that worker, and the worker counts, unless the task
\* of another connection of the same worker was still there: then the end of one
\* silences the other.
OnlyOverlapSilences ==
  /\ \A c \in Range(peers) : Open(c)
  /\ \A c \in greeted \ overlapped :
       todo[c] = <<>> =>
         /\ WorkerOf(c) \in DOMAIN peers
         /\ peers[WorkerOf(c)] = c
         /\ WorkerOf(c) \in active

IsLink(c) == c \in Range(peers) \ cut
Idle(c) == (todo[c] = <<>> /\ up[c] = <<>>) \/ Closed(c)

\* Once the hub has nothing left to read and to do, every worker it writes to knows
\* every validator that counts at the hub, in whatever order they connected and the
\* tasks handled their Hellos: what one task does not read from the engine the
\* other finds in the peer map.
MembershipSpreads ==
  (\A c \in Connections : Idle(c)) =>
    \A c \in Connections : IsLink(c) => active \subseteq known[c]

\* An operation that is pending at the hub comes to be pending at every worker,
\* also at one that connects between the relay of the operation and the moment
\* the hub's engine has it; and one pending at a worker, at the hub.
OperationsSpread ==
  <>[](\A c \in Connections : IsLink(c) => pending[c] = pool)

=============================================================================
