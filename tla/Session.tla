------------------------------ MODULE Session -------------------------------
(***************************************************************************)
(* One desktop process: the window (app.rs), the actor that runs one node  *)
(* at a time (NetworkActor::run and run_role_node in actor.rs), the task   *)
(* of the executor, and the two bounded channels between them (gui.rs).    *)
(* The window never waits for the actor: a command that finds its channel  *)
(* full is dropped.  The actor does wait for the window, whenever it has   *)
(* an event to report and the event channel is full.                       *)
(*                                                                         *)
(* Abstractions.  Of a command, only what it does to the session is kept:  *)
(* everything the node turns into an operation is "Work".  Of an event,    *)
(* only what the window does about it: every event that changes neither    *)
(* the connection nor the executor is "Info", and several of them in a row *)
(* are one.  An aborted executor is gone: it ends at its next await.  What *)
(* the node does with its engine and its peers is in module Consensus.     *)
(***************************************************************************)
EXTENDS Naturals, FiniteSets, Sequences, SequencesExt

CONSTANTS
  CommandSlots,   \* capacity of the command channel
  EventSlots,     \* capacity of the event channel
  BatchSize,      \* bound: commands of one batch submission
  MaxClicks       \* bound: the clicks that send commands

ASSUME SessionAssumption ==
  /\ CommandSlots \in Nat \ {0}
  /\ EventSlots \in Nat \ {0}
  /\ BatchSize \in Nat \ {0}
  /\ MaxClicks \in Nat

\* A command to connect is the role it asks for.  Nothing in the window sets
\* the third node mode, Peer.
Roles    == {"Coordinator", "Worker"}
Toggles  == {"StartExecutor", "StopExecutor"}
Commands == Roles \cup Toggles \cup {"Disconnect", "Work"}
Events   == {"Connected", "Disconnected", "ExecutorStarted", "ExecutorStopped", "Info"}

VARIABLES
  connected,   \* what the window believes of the node
  shown,       \* what it shows of the executor
  nodeMode,    \* the role picked on the Connect tab
  sending,     \* what is left to send of the click it handles
  commands,    \* the command channel
  events,      \* the event channel
  phase,       \* the actor: "idle" between nodes, "starting" one, or in its "loop"
  role,        \* the role of the node that runs or ran last
  outbox,      \* what the actor reports before it goes on
  handle,      \* executor_handle is set
  running,     \* the number of live executor tasks
  linked,      \* a node has run: its connection tasks may report for ever
  lost,        \* history: an executor toggle was dropped since the last connection
  clicks       \* how many such clicks there have been

windowVars == <<connected, shown, nodeMode, sending, lost, clicks>>
actorVars  == <<phase, role, outbox, handle, running, linked>>
vars == <<windowVars, actorVars, commands, events>>

Init ==
  /\ connected = FALSE /\ shown = FALSE /\ nodeMode = "Coordinator"
  /\ sending = <<>> /\ commands = <<>> /\ events = <<>>
  /\ phase = "idle" /\ role = "Coordinator" /\ outbox = <<>>
  /\ handle = FALSE /\ running = 0 /\ linked = FALSE
  /\ lost = FALSE /\ clicks = 0

-----------------------------------------------------------------------------
\* The window: a frame drains the events, then draws; what is clicked while
\* it draws sends commands before the next frame.

\* A flag that was old, after the events es: the last that concerns it sets it.
Flag(es, old, up, down) ==
  LET about == {i \in DOMAIN es : es[i] \in up \cup down}
  IN  IF about = {} THEN old ELSE es[Max(about)] \in up

\* The window after the events es.
Sees(es) ==
  /\ connected' = Flag(es, connected, {"Connected"}, {"Disconnected"})
  /\ shown' = Flag(es, shown, {"ExecutorStarted"}, {"ExecutorStopped", "Disconnected"})
  /\ lost' = (lost /\ "Disconnected" \notin Range(es))

DrainEvents ==
  /\ sending = <<>>
  /\ events # <<>>
  /\ Sees(events)
  /\ events' = <<>>
  /\ UNCHANGED <<nodeMode, sending, clicks, commands, actorVars>>

\* The window after a click that sends cs and leaves the executor shown as s.
Click(cs, s) ==
  /\ sending = <<>>
  /\ clicks < MaxClicks
  /\ clicks' = clicks + 1
  /\ sending' = cs
  /\ shown' = s
  /\ UNCHANGED <<connected, lost, commands, events, actorVars>>

PickMode(m) ==
  /\ sending = <<>>
  /\ ~connected
  /\ m # nodeMode
  /\ nodeMode' = m
  /\ UNCHANGED <<connected, shown, sending, lost, clicks, commands, events, actorVars>>

ClickConnect == ~connected /\ UNCHANGED nodeMode /\ Click(<<nodeMode>>, shown)

ClickDisconnect == connected /\ UNCHANGED nodeMode /\ Click(<<"Disconnect">>, shown)

\* The Executor tab is there in Worker mode.  It shows at once what it asks for.
ClickExecutor ==
  /\ connected /\ nodeMode = "Worker"
  /\ UNCHANGED nodeMode
  /\ Click(<<IF shown THEN "StopExecutor" ELSE "StartExecutor">>, ~shown)

\* One operation, or a batch of tasks.
SubmitWork ==
  \E k \in 1..BatchSize :
    connected /\ UNCHANGED nodeMode /\ Click([i \in 1..k |-> "Work"], shown)

Room_OneMore(c) == Len(c) <= CommandSlots                       \* mutant
Room(c) == Len(c) < CommandSlots
\* try_send, its error ignored.
Send ==
  /\ sending # <<>>
  /\ sending' = Tail(sending)
  /\ commands' = IF Room(commands) THEN Append(commands, Head(sending)) ELSE commands
  /\ lost' = (lost \/ (~Room(commands) /\ Head(sending) \in Toggles))
  /\ UNCHANGED <<connected, shown, nodeMode, clicks, events, actorVars>>

-----------------------------------------------------------------------------
\* The actor.

Report(e) == Len(events) < EventSlots /\ events' = Append(events, e)

Emit_Dropping ==                                                \* mutant
  /\ outbox # <<>>
  /\ outbox' = Tail(outbox)
  /\ events' = IF Len(events) < EventSlots THEN Append(events, Head(outbox)) ELSE events
  /\ UNCHANGED <<phase, role, handle, running, linked, windowVars, commands>>
\* evt_tx.send(..).await: nothing else happens in the actor until it is done.
Emit ==
  /\ outbox # <<>>
  /\ Report(Head(outbox))
  /\ outbox' = Tail(outbox)
  /\ UNCHANGED <<phase, role, handle, running, linked, windowVars, commands>>

\* The actor receives command c at a point p of its code.
Receives(p, c) ==
  /\ phase = p /\ outbox = <<>>
  /\ commands # <<>> /\ c = Head(commands)
  /\ commands' = Tail(commands)
  /\ UNCHANGED <<windowVars, events>>

\* Between nodes every command but those that connect is dropped.
DropCommand ==
  /\ \E c \in Commands \ Roles : Receives("idle", c)
  /\ UNCHANGED actorVars

\* A node starts, up to the loop: its listener, if it has one, is bound, and
\* the window told that it is connected.
StartNode ==
  \E r \in Roles :
    /\ Receives("idle", r)
    /\ role' = r
    /\ phase' = "starting"
    /\ outbox' = <<"Info", "Connected", "Info">>
    /\ linked' = TRUE
    /\ UNCHANGED <<handle, running>>

\* The address of a coordinator cannot be bound: an error is all there is.
BindFails ==
  /\ Receives("idle", "Coordinator")
  /\ role' = "Coordinator"
  /\ outbox' = <<"Info">>
  /\ UNCHANGED <<phase, handle, running, linked>>

\* A worker starts its executor before it enters the loop.
EnterLoop ==
  /\ phase = "starting" /\ outbox = <<>>
  /\ phase' = "loop"
  /\ handle' = (role = "Worker")
  /\ running' = IF role = "Worker" THEN running + 1 ELSE running
  /\ outbox' = IF role = "Worker" THEN <<"ExecutorStarted", "Info">> ELSE <<>>
  /\ UNCHANGED <<role, linked, windowVars, commands, events>>

\* The round timer pushes the state to the window.
Round ==
  /\ phase = "loop" /\ outbox = <<>>
  /\ outbox' = <<"Info">>
  /\ UNCHANGED <<phase, role, handle, running, linked, windowVars, commands, events>>

StartExecutor_Again ==                                          \* mutant
  /\ Receives("loop", "StartExecutor")
  /\ handle' = TRUE
  /\ running' = running + 1
  /\ outbox' = <<"ExecutorStarted", "Info">>
  /\ UNCHANGED <<phase, role, linked>>
\* Started unless there is one.
StartExecutor ==
  /\ Receives("loop", "StartExecutor")
  /\ ~handle
  /\ handle' = TRUE
  /\ running' = running + 1
  /\ outbox' = <<"ExecutorStarted", "Info">>
  /\ UNCHANGED <<phase, role, linked>>

StopExecutor ==
  /\ Receives("loop", "StopExecutor")
  /\ handle
  /\ handle' = FALSE
  /\ running' = running - 1
  /\ outbox' = <<"ExecutorStopped", "Info">>
  /\ UNCHANGED <<phase, role, linked>>

\* Work becomes an operation, in some cases with a line for the log; all other
\* commands are ignored by a running node.
OtherCommand ==
  /\ \E c \in Commands \ {"Disconnect"} :
       /\ Receives("loop", c)
       /\ c \in Toggles => (c = "StartExecutor") = handle
       /\ outbox' \in IF c = "Work" THEN {<<>>, <<"Info">>} ELSE {<<>>}
  /\ UNCHANGED <<phase, role, handle, running, linked>>

Leave_Detached ==                                               \* mutant
  /\ Receives("loop", "Disconnect")
  /\ phase' = "idle"
  /\ handle' = FALSE
  /\ outbox' = <<"Disconnected">>
  /\ UNCHANGED <<role, running, linked>>
\* The loop ends, and the executor with it.
Leave ==
  /\ Receives("loop", "Disconnect")
  /\ phase' = "idle"
  /\ handle' = FALSE
  /\ running' = IF handle THEN running - 1 ELSE running
  /\ outbox' = <<"Disconnected">>
  /\ UNCHANGED <<role, linked>>

\* A line for the log from the executor or a connection task.
TaskReports ==
  /\ running > 0 \/ linked
  /\ Report("Info")
  /\ UNCHANGED <<actorVars, windowVars, commands>>

Window ==
  \/ DrainEvents \/ Send
  \/ \E m \in Roles : PickMode(m)
  \/ ClickConnect \/ ClickDisconnect \/ ClickExecutor \/ SubmitWork

Actor ==
  \/ Emit \/ DropCommand \/ StartNode \/ BindFails \/ EnterLoop
  \/ Round \/ StartExecutor \/ StopExecutor \/ OtherCommand \/ Leave

Next == Window \/ Actor \/ TaskReports

Spec == Init /\ [][Next]_vars

\* Frames are drawn while the window is shown.  The permits of a tokio channel
\* are handed out in the order they were asked for, so the actor cannot be kept
\* from reporting by its tasks; select! picks at random among what is ready, so
\* the timer cannot keep the loop from its commands.
FairSpec ==
  /\ Spec
  /\ WF_vars(DrainEvents) /\ WF_vars(Send)
  /\ SF_vars(Emit)
  /\ WF_vars(DropCommand) /\ WF_vars(StartNode \/ BindFails) /\ WF_vars(EnterLoop)
  /\ SF_vars(StartExecutor \/ StopExecutor \/ OtherCommand \/ Leave)

-----------------------------------------------------------------------------
\* Types; both channels keep to their capacity.
TypeOK ==
  /\ connected \in BOOLEAN /\ shown \in BOOLEAN /\ handle \in BOOLEAN
  /\ linked \in BOOLEAN /\ lost \in BOOLEAN
  /\ nodeMode \in Roles /\ role \in Roles
  /\ phase \in {"idle", "starting", "loop"}
  /\ sending \in Seq(Commands) /\ Len(sending) <= BatchSize
  /\ commands \in Seq(Commands) /\ Len(commands) <= CommandSlots
  /\ events \in Seq(Events) /\ Len(events) <= EventSlots
  /\ outbox \in Seq(Events) /\ Len(outbox) <= 3
  /\ running \in Nat
  /\ clicks \in 0..MaxClicks

\* However toggles, the worker's own start and disconnections overlap, at most
\* one executor task is alive, the node that runs holds its handle, and none
\* outlives its node: an executor without a handle could never be stopped and
\* would claim tasks next to the one of the next session (actor.rs 873-888,
\* 991-1011, 1030-1032).
ExecutorIsOwned ==
  /\ running = (IF handle THEN 1 ELSE 0)
  /\ handle => phase = "loop"

\* Nothing is on its way, and no node on its way up.
Quiet ==
  /\ sending = <<>> /\ commands = <<>> /\ events = <<>> /\ outbox = <<>>
  /\ phase # "starting"

\* The window shows the executor as running before the node has heard of the
\* click, and events of earlier toggles overwrite what it shows.  Once all that
\* is on its way has arrived, the window is right about the node and, unless a
\* toggle was dropped for want of room, about the executor (app.rs 215-281,
\* 1719-1743).
QuietWindowIsRight ==
  Quiet => /\ connected = (phase = "loop")
           /\ lost \/ shown = (running > 0)

\* A disconnection the channel has accepted takes effect:
\* the window learns of the end although the actor waits for room in the event
\* channel before it looks at a command, because the window never waits for
\* room in the command channel (app.rs 192-194, actor.rs 1039-1043).
DisconnectIsAnswered == ("Disconnect" \in Range(commands)) ~> ~connected
=============================================================================
