--------------------------- MODULE SessionProofs ----------------------------
(* Theorems about the session, for channels of any size and any user. *)
EXTENDS Session, WellFoundedInduction, TLAPS

\* The two ways ExecutorIsOwned can hold, for the provers to choose from.
LEMMA OwnedCases ==
  ASSUME handle \in BOOLEAN
  PROVE  ExecutorIsOwned <=> \/ handle /\ running = 1 /\ phase = "loop"
                             \/ ~handle /\ running = 0
BY DEF ExecutorIsOwned

\* Whatever is clicked, queued or dropped, in every reachable state at most one
\* executor task is alive, and it is the one the running node holds a handle of.
THEOREM OneExecutor == Spec => []ExecutorIsOwned
<1> DEFINE Inv == handle \in BOOLEAN /\ ExecutorIsOwned
<1>1. Init => Inv
  BY Zenon DEF Init, ExecutorIsOwned
<1>2. Inv /\ [Next]_vars => Inv'
  <2> SUFFICES ASSUME Inv, [Next]_vars PROVE Inv'
    OBVIOUS
  <2>0. \/ handle /\ running = 1 /\ phase = "loop"
        \/ ~handle /\ running = 0
    BY OwnedCases
  <2>1. CASE UNCHANGED <<handle, running, phase>>
    BY <2>1 DEF ExecutorIsOwned
  <2>2. CASE UNCHANGED vars
    BY <2>1, <2>2 DEF vars, actorVars
  <2>3. CASE Window
    BY <2>1, <2>3 DEF Window, DrainEvents, Send, PickMode, ClickConnect, ClickDisconnect,
      ClickExecutor, SubmitWork, Click, actorVars
  <2>4. CASE Emit \/ DropCommand \/ BindFails \/ Round \/ OtherCommand
    BY <2>1, <2>4 DEF Emit, DropCommand, BindFails, Round, OtherCommand, actorVars
  <2>5. CASE StartNode
    <3>1. ~handle
      BY <2>0, <2>5 DEF StartNode, Receives
    <3> QED
      BY <2>0, <2>5, <3>1 DEF StartNode, ExecutorIsOwned
  <2>6. CASE EnterLoop
    <3>1. ~handle /\ running = 0 /\ phase' = "loop"
      BY <2>0, <2>6 DEF EnterLoop
    <3>2. running' = (IF role = "Worker" THEN 1 ELSE 0)
      BY <2>6, <3>1 DEF EnterLoop
    <3>3. handle' = (role = "Worker")
      BY <2>6 DEF EnterLoop
    <3> QED
      BY <3>1, <3>2, <3>3, Zenon DEF ExecutorIsOwned
  <2>7. CASE StartExecutor
    <3>1. running' = 1 /\ phase' = "loop"
      BY <2>0, <2>7 DEF StartExecutor, Receives
    <3>2. handle' = TRUE
      BY <2>7 DEF StartExecutor
    <3> QED
      BY <3>1, <3>2, Zenon DEF ExecutorIsOwned
  <2>8. CASE StopExecutor
    <3>1. running' = 0
      BY <2>0, <2>8 DEF StopExecutor
    <3>2. handle' = FALSE
      BY <2>8 DEF StopExecutor
    <3> QED
      BY <3>1, <3>2, Zenon DEF ExecutorIsOwned
  <2>9. CASE Leave
    <3>1. running' = 0
      BY <2>0, <2>9 DEF Leave
    <3>2. handle' = FALSE
      BY <2>9 DEF Leave
    <3> QED
      BY <3>1, <3>2, Zenon DEF ExecutorIsOwned
  <2>10. CASE TaskReports
    BY <2>1, <2>10 DEF TaskReports, actorVars
  <2> QED
    BY <2>2, <2>3, <2>4, <2>5, <2>6, <2>7, <2>8, <2>9, <2>10 DEF Next, Actor
<1>3. Inv => ExecutorIsOwned
  OBVIOUS
<1> QED
  BY <1>1, <1>2, <1>3, PTL DEF Spec

\* Draining the events leaves a flag a flag.
LEMMA FlagIsBoolean ==
  ASSUME NEW es, NEW old \in BOOLEAN, NEW up, NEW down
  PROVE  Flag(es, old, up, down) \in BOOLEAN
<1> DEFINE about == {i \in DOMAIN es : es[i] \in up \cup down}
<1>1. CASE about = {}
  <2>1. Flag(es, old, up, down) = old
    BY <1>1, Zenon DEF Flag
  <2> QED
    BY <2>1
<1>2. CASE about # {}
  <2>1. Flag(es, old, up, down) = (es[Max(about)] \in up)
    BY <1>2, Zenon DEF Flag
  <2> QED
    BY <2>1
<1> QED
  BY <1>1, <1>2

\* Reports the actor may have to make on one command.
LEMMA ShortReports ==
  /\ <<>> \in Seq(Events) /\ Len(<<>>) <= 3
  /\ <<"Info">> \in Seq(Events) /\ Len(<<"Info">>) <= 3
  /\ /\ <<"ExecutorStarted", "Info">> \in Seq(Events)
     /\ Len(<<"ExecutorStarted", "Info">>) <= 3
BY DEF Events

\* The window, the channels and the actor keep to their types, the channels to
\* their capacity, whatever these are.
THEOREM SessionTypes == Spec => []TypeOK
<1> USE SessionAssumption
<1>1. Init => TypeOK
  <2> SUFFICES ASSUME Init PROVE TypeOK
    OBVIOUS
  <2>1. /\ connected \in BOOLEAN /\ shown \in BOOLEAN /\ handle \in BOOLEAN
        /\ linked \in BOOLEAN /\ lost \in BOOLEAN
    BY Zenon DEF Init
  <2>2. /\ sending \in Seq(Commands) /\ Len(sending) <= BatchSize
        /\ commands \in Seq(Commands) /\ Len(commands) <= CommandSlots
        /\ events \in Seq(Events) /\ Len(events) <= EventSlots
        /\ outbox \in Seq(Events) /\ Len(outbox) <= 3
    BY DEF Init
  <2>3. /\ nodeMode \in Roles /\ role \in Roles /\ phase \in {"idle", "starting", "loop"}
        /\ running \in Nat /\ clicks \in 0..MaxClicks
    BY DEF Init, Roles
  <2> QED
    BY <2>1, <2>2, <2>3 DEF TypeOK
<1>2. TypeOK /\ ExecutorIsOwned /\ [Next]_vars => TypeOK'
  <2> SUFFICES ASSUME TypeOK, ExecutorIsOwned, [Next]_vars PROVE TypeOK'
    OBVIOUS
  <2>1. CASE UNCHANGED vars
    BY <2>1 DEF vars, windowVars, actorVars, TypeOK
  <2>2. CASE DrainEvents
    <3>1. connected' \in BOOLEAN /\ shown' \in BOOLEAN /\ lost' \in BOOLEAN
      <4>1. connected' \in BOOLEAN
        BY <2>2, FlagIsBoolean, Zenon DEF DrainEvents, Sees, TypeOK
      <4>2. shown' \in BOOLEAN
        BY <2>2, FlagIsBoolean, Zenon DEF DrainEvents, Sees, TypeOK
      <4>3. lost' \in BOOLEAN
        BY <2>2, Zenon DEF DrainEvents, Sees, TypeOK
      <4> QED
        BY <4>1, <4>2, <4>3
    <3> QED
      BY <2>2, <3>1 DEF DrainEvents, actorVars, TypeOK
  <2>3. CASE Send
    BY <2>3 DEF Send, Room, actorVars, TypeOK
  <2>4. CASE \E m \in Roles : PickMode(m)
    BY <2>4 DEF PickMode, actorVars, TypeOK
  <2>5. ASSUME NEW cs \in Seq(Commands), Len(cs) <= BatchSize,
               NEW s \in BOOLEAN, Click(cs, s), UNCHANGED nodeMode
        PROVE  TypeOK'
    BY <2>5 DEF Click, actorVars, TypeOK
  <2>6. CASE ClickConnect
    <3>1. <<nodeMode>> \in Seq(Commands) /\ Len(<<nodeMode>>) <= BatchSize
      BY DEF TypeOK, Commands
    <3> QED
      BY <2>5, <2>6, <3>1 DEF ClickConnect, TypeOK
  <2>7. CASE ClickDisconnect
    <3>1. <<"Disconnect">> \in Seq(Commands) /\ Len(<<"Disconnect">>) <= BatchSize
      BY DEF Commands
    <3> QED
      BY <2>5, <2>7, <3>1 DEF ClickDisconnect, TypeOK
  <2>8. CASE ClickExecutor
    <3> DEFINE cs == <<IF shown THEN "StopExecutor" ELSE "StartExecutor">>
    <3>1. cs \in Seq(Commands) /\ Len(cs) <= BatchSize
      BY DEF Commands, Toggles
    <3>2. (~shown) \in BOOLEAN
      OBVIOUS
    <3>3. Click(cs, ~shown) /\ UNCHANGED nodeMode
      BY <2>8 DEF ClickExecutor
    <3> QED
      BY <2>5, <3>1, <3>2, <3>3
  <2>9. CASE SubmitWork
    <3>1. PICK k \in 1..BatchSize : Click([i \in 1..k |-> "Work"], shown) /\ UNCHANGED nodeMode
      BY <2>9 DEF SubmitWork
    <3> DEFINE cs == [i \in 1..k |-> "Work"]
    <3>2. cs \in Seq(Commands) /\ Len(cs) <= BatchSize
      BY DEF Commands
    <3> QED
      BY <2>5, <3>1, <3>2 DEF TypeOK
  <2>10. CASE Emit
    BY <2>10 DEF Emit, Report, windowVars, TypeOK
  <2>11. ASSUME NEW p, NEW c, Receives(p, c)
         PROVE  /\ commands' \in Seq(Commands) /\ Len(commands') <= CommandSlots
                /\ UNCHANGED <<windowVars, events>>
    BY <2>11 DEF Receives, TypeOK
  <2>12. CASE DropCommand
    BY <2>11, <2>12 DEF DropCommand, windowVars, actorVars, TypeOK
  <2>13. CASE StartNode
    BY <2>11, <2>13 DEF StartNode, windowVars, Events, TypeOK
  <2>14. CASE BindFails
    BY <2>11, <2>14 DEF BindFails, windowVars, Roles, Events, TypeOK
  <2>15. CASE EnterLoop
    <3>1. handle' \in BOOLEAN /\ running' \in Nat
      BY <2>15 DEF EnterLoop, TypeOK
    <3>2. outbox' = <<"ExecutorStarted", "Info">> \/ outbox' = <<>>
      BY <2>15 DEF EnterLoop
    <3>3. /\ phase' = "loop"
          /\ UNCHANGED <<role, linked, windowVars, commands, events>>
      BY <2>15 DEF EnterLoop
    <3>4. outbox' \in Seq(Events) /\ Len(outbox') <= 3
      BY <3>2, ShortReports, Zenon
    <3> QED
      BY <3>1, <3>3, <3>4 DEF windowVars, TypeOK
  <2>16. CASE Round
    BY <2>16 DEF Round, windowVars, Events, TypeOK
  <2>17. CASE StartExecutor
    BY <2>11, <2>17 DEF StartExecutor, windowVars, Events, TypeOK
  <2>18. CASE StopExecutor
    <3>1. running' \in Nat
      BY <2>18, OwnedCases DEF StopExecutor, TypeOK
    <3>2. handle' \in BOOLEAN
      BY <2>18 DEF StopExecutor
    <3>3. outbox' = <<"ExecutorStopped", "Info">> /\ UNCHANGED <<phase, role, linked>>
      BY <2>18, Zenon DEF StopExecutor
    <3>4. Receives("loop", "StopExecutor")
      BY <2>18 DEF StopExecutor
    <3> QED
      <4>1. outbox' \in Seq(Events) /\ Len(outbox') <= 3
        BY <3>3 DEF Events
      <4>2. UNCHANGED <<role, linked>>
        BY <3>3
      <4>3. phase' \in {"idle", "starting", "loop"}
        BY <3>3 DEF TypeOK
      <4> QED
        BY <2>11, <3>1, <3>2, <3>4, <4>1, <4>2, <4>3 DEF windowVars, TypeOK
  <2>19. CASE OtherCommand
    <3>1. PICK c \in Commands \ {"Disconnect"} :
            /\ Receives("loop", c)
            /\ outbox' \in IF c = "Work" THEN {<<>>, <<"Info">>} ELSE {<<>>}
      BY <2>19 DEF OtherCommand
    <3>2. outbox' = <<>> \/ outbox' = <<"Info">>
      BY <3>1
    <3>3. UNCHANGED <<phase, role, handle, running, linked>>
      BY <2>19 DEF OtherCommand
    <3> QED
      <4>1. outbox' \in Seq(Events) /\ Len(outbox') <= 3
        BY <3>2, ShortReports, Zenon
      <4> QED
        BY <2>11, <3>1, <3>3, <4>1 DEF windowVars, TypeOK
  <2>20. CASE Leave
    <3>1. running' \in Nat
      BY <2>20, OwnedCases DEF Leave, TypeOK
    <3>2. handle' \in BOOLEAN
      BY <2>20 DEF Leave
    <3>3. outbox' = <<"Disconnected">> /\ phase' = "idle" /\ UNCHANGED <<role, linked>>
      BY <2>20, Zenon DEF Leave
    <3>4. Receives("loop", "Disconnect")
      BY <2>20 DEF Leave
    <3> QED
      <4>1. outbox' \in Seq(Events) /\ Len(outbox') <= 3
        BY <3>3 DEF Events
      <4>2. UNCHANGED <<role, linked>>
        BY <3>3
      <4>3. phase' \in {"idle", "starting", "loop"}
        BY <3>3 DEF TypeOK
      <4> QED
        BY <2>11, <3>1, <3>2, <3>4, <4>1, <4>2, <4>3 DEF windowVars, TypeOK
  <2>21. CASE TaskReports
    BY <2>21 DEF TaskReports, Report, windowVars, actorVars, Events, TypeOK
  <2> QED
    BY <2>1, <2>2, <2>3, <2>4, <2>6, <2>7, <2>8, <2>9, <2>10, <2>12, <2>13, <2>14, <2>15,
       <2>16, <2>17, <2>18, <2>19, <2>20, <2>21 DEF Next, Window, Actor
<1> QED
  BY <1>1, <1>2, OneExecutor, PTL DEF Spec
-----------------------------------------------------------------------------
\* What a flag comes to.

\* A set of places in a sequence has a last one.
LEMMA LastPlace ==
  ASSUME NEW n \in Nat, NEW S \in SUBSET (1..n), S # {}
  PROVE  Max(S) \in S /\ \A j \in S : Max(S) >= j
<1> DEFINE T == {n - i : i \in S}
<1>1. T \subseteq Nat /\ T # {}
  <2>1. \A i \in S : n - i \in Nat
    OBVIOUS
  <2>. QED BY <2>1, Zenon
<1>2. PICK m \in T : \A k \in T : ~(<<k, m>> \in OpToRel(<, Nat))
  <2>1. IsWellFoundedOn(OpToRel(<, Nat), Nat)
    BY NatLessThanWellFounded
  <2> HIDE DEF T
  <2>. QED BY <1>1, <2>1, WFMin
<1>3. \A k \in T : m <= k
  <2>1. \A k \in T : ~(k < m)
    <3> HIDE DEF T
    <3>. QED BY <1>1, <1>2 DEF OpToRel
  <2>2. \A k, l \in Nat : ~(k < l) => l <= k
    OBVIOUS
  <2> HIDE DEF T
  <2>. QED BY <1>1, <2>1, <2>2
<1>4. PICK i \in S : m = n - i
  OBVIOUS
<1>5. \A j \in S : i >= j
  <2> TAKE j \in S
  <2>1. n - i <= n - j
    BY <1>3, <1>4
  <2>. QED BY <2>1
<1>. QED BY <1>5 DEF Max

\* Nothing concerns the flag, or the last that does sets it.
LEMMA FlagCases ==
  ASSUME NEW V, NEW es \in Seq(V), NEW old, NEW up, NEW down
  PROVE  \/ /\ \A i \in DOMAIN es : es[i] \notin up \cup down
            /\ Flag(es, old, up, down) = old
         \/ \E i \in DOMAIN es :
              /\ es[i] \in up \cup down
              /\ \A j \in DOMAIN es : es[j] \in up \cup down => i >= j
              /\ Flag(es, old, up, down) = (es[i] \in up)
<1> DEFINE about == {i \in DOMAIN es : es[i] \in up \cup down}
<1>1. CASE about = {}
  <2>1. Flag(es, old, up, down) = old
    BY <1>1, Zenon DEF Flag
  <2>. QED BY <1>1, <2>1
<1>2. CASE about # {}
  <2>1. Flag(es, old, up, down) = (es[Max(about)] \in up)
    BY <1>2, Zenon DEF Flag
  <2>2. DOMAIN es = 1..Len(es) /\ Len(es) \in Nat
    OBVIOUS
  <2>3. Max(about) \in about /\ \A j \in about : Max(about) >= j
    BY <1>2, <2>2, LastPlace
  <2>. QED BY <2>1, <2>3, Zenon
<1>. QED BY <1>1, <1>2

\* A sequence in which nothing concerns the flag leaves it; one with something
\* sets it whatever it was.
LEMMA FlagShape ==
  ASSUME NEW V, NEW es \in Seq(V), NEW up, NEW down
  PROVE  \/ \A old : Flag(es, old, up, down) = old
         \/ \A old, new : Flag(es, old, up, down) = Flag(es, new, up, down)
<1> DEFINE about == {i \in DOMAIN es : es[i] \in up \cup down}
<1>1. CASE about = {}
  BY <1>1, Zenon DEF Flag
<1>2. CASE about # {}
  <2>1. \A old : Flag(es, old, up, down) = (es[Max(about)] \in up)
    BY <1>2, Zenon DEF Flag
  <2>. QED BY <2>1, Zenon
<1>. QED BY <1>1, <1>2

LEMMA FlagSet ==
  ASSUME NEW es, NEW i \in DOMAIN es, NEW up, NEW down, es[i] \in up \cup down,
         NEW old, NEW new
  PROVE  Flag(es, old, up, down) = Flag(es, new, up, down)
<1> DEFINE about == {k \in DOMAIN es : es[k] \in up \cup down}
<1>1. about # {}
  OBVIOUS
<1>2. \A x : Flag(es, x, up, down) = (es[Max(about)] \in up)
  BY <1>1, Zenon DEF Flag
<1>. QED BY <1>2, Zenon

\* A flag is moved by something, and lowered by something that lowers it.
LEMMA FlagMoved ==
  ASSUME NEW V, NEW es \in Seq(V), NEW old, NEW up, NEW down,
         Flag(es, old, up, down) # old
  PROVE  \E i \in DOMAIN es : /\ es[i] \in up \cup down
                             /\ Flag(es, old, up, down) = (es[i] \in up)
BY FlagCases

LEMMA FlagLowered ==
  ASSUME NEW V, NEW es \in Seq(V), NEW up, NEW down, NEW old, old # FALSE,
         Flag(es, old, up, down) = FALSE
  PROVE  \E i \in DOMAIN es : es[i] \in down
<1>1. Flag(es, old, up, down) # old
  BY Zenon
<1>2. PICK i \in DOMAIN es : /\ es[i] \in up \cup down
                           /\ Flag(es, old, up, down) = (es[i] \in up)
  BY <1>1, FlagMoved
<1>3. ~(es[i] \in up)
  BY <1>2, Zenon
<1>. QED BY <1>2, <1>3

LEMMA FlagEmpty ==
  ASSUME NEW old, NEW up, NEW down
  PROVE  Flag(<<>>, old, up, down) = old
<1>1. {i \in DOMAIN <<>> : <<>>[i] \in up \cup down} = {}
  OBVIOUS
<1>. QED BY <1>1, Zenon DEF Flag

\* The flag after one more, and the flag after the first.
Sets(e, old, up, down) == IF e \in up \cup down THEN e \in up ELSE old

LEMMA FlagAppend ==
  ASSUME NEW V, NEW es \in Seq(V), NEW e \in V, NEW old, NEW up, NEW down
  PROVE  Flag(Append(es, e), old, up, down) = Sets(e, Flag(es, old, up, down), up, down)
<1> DEFINE more == Append(es, e)
<1>1. /\ more \in Seq(V) /\ Len(es) \in Nat
      /\ DOMAIN more = 1..(Len(es) + 1) /\ DOMAIN es = 1..Len(es)
      /\ more[Len(es) + 1] = e
      /\ \A i \in DOMAIN es : more[i] = es[i]
  OBVIOUS
<1> HIDE DEF more
<1>2. \/ /\ \A i \in DOMAIN more : more[i] \notin up \cup down
         /\ Flag(more, old, up, down) = old
      \/ \E i \in DOMAIN more :
           /\ more[i] \in up \cup down
           /\ \A j \in DOMAIN more : more[j] \in up \cup down => i >= j
           /\ Flag(more, old, up, down) = (more[i] \in up)
  BY <1>1, FlagCases
<1>3. \/ /\ \A i \in DOMAIN es : es[i] \notin up \cup down
         /\ Flag(es, old, up, down) = old
      \/ \E i \in DOMAIN es :
           /\ es[i] \in up \cup down
           /\ \A j \in DOMAIN es : es[j] \in up \cup down => i >= j
           /\ Flag(es, old, up, down) = (es[i] \in up)
  BY FlagCases
<1>4. CASE e \in up \cup down
  <2>1. PICK i \in DOMAIN more :
          /\ more[i] \in up \cup down
          /\ \A j \in DOMAIN more : more[j] \in up \cup down => i >= j
          /\ Flag(more, old, up, down) = (more[i] \in up)
    <3>1. Len(es) + 1 \in DOMAIN more /\ more[Len(es) + 1] \in up \cup down
      BY <1>1, <1>4
    <3>. QED BY <1>1, <3>1, <1>2, <1>3, Zenon
  <2>2. i = Len(es) + 1
    BY <1>1, <1>4, <2>1
  <2>3. Flag(more, old, up, down) = (e \in up)
    BY <1>1, <2>1, <2>2, Zenon
  <2>. QED BY <1>4, <2>3, Zenon DEF Sets, more
<1>5. CASE e \notin up \cup down
  <2>1. Flag(more, old, up, down) = Flag(es, old, up, down)
    <3>1. CASE \A i \in DOMAIN es : es[i] \notin up \cup down
      <4>1. \A i \in DOMAIN more : more[i] \notin up \cup down
        BY <1>1, <1>5, <3>1
      <4>2. Flag(es, old, up, down) = old
        BY <3>1, <1>2, <1>3, Zenon
      <4>3. Flag(more, old, up, down) = old
        BY <1>1, <4>1, <1>2, <1>3, Zenon
      <4>. QED BY <4>2, <4>3
    <3>2. CASE \E i \in DOMAIN es : es[i] \in up \cup down
      <4>1. PICK i \in DOMAIN es :
              /\ es[i] \in up \cup down
              /\ \A j \in DOMAIN es : es[j] \in up \cup down => i >= j
              /\ Flag(es, old, up, down) = (es[i] \in up)
        BY <3>2, <1>2, <1>3, Zenon
      <4>2. i \in DOMAIN more /\ more[i] = es[i]
        BY <1>1
      <4>3. PICK k \in DOMAIN more :
              /\ more[k] \in up \cup down
              /\ \A j \in DOMAIN more : more[j] \in up \cup down => k >= j
              /\ Flag(more, old, up, down) = (more[k] \in up)
        BY <1>1, <4>1, <4>2, <1>2, <1>3, Zenon
      <4>4. k \in DOMAIN es
        BY <1>1, <1>5, <4>3
      <4>5. k = i
        BY <1>1, <4>1, <4>2, <4>3, <4>4
      <4>. QED BY <4>1, <4>2, <4>3, <4>5, Zenon
    <3>. QED BY <3>1, <3>2, Zenon
  <2>. QED BY <1>5, <2>1, Zenon DEF Sets, more
<1>. QED BY <1>4, <1>5

LEMMA FlagHead ==
  ASSUME NEW V, NEW es \in Seq(V), es # <<>>, NEW old, NEW up, NEW down
  PROVE  Flag(es, old, up, down) = Flag(Tail(es), Sets(Head(es), old, up, down), up, down)
<1> DEFINE rest == Tail(es)
<1> DEFINE x == Sets(Head(es), old, up, down)
<1>1. /\ rest \in Seq(V) /\ Len(es) \in Nat \ {0}
      /\ DOMAIN es = 1..Len(es) /\ DOMAIN rest = 1..(Len(es) - 1)
      /\ es[1] = Head(es)
      /\ \A i \in DOMAIN rest : rest[i] = es[i + 1]
  OBVIOUS
<1> HIDE DEF rest, x
<1>2. \/ /\ \A i \in DOMAIN rest : rest[i] \notin up \cup down
         /\ Flag(rest, x, up, down) = x
      \/ \E i \in DOMAIN rest :
           /\ rest[i] \in up \cup down
           /\ \A j \in DOMAIN rest : rest[j] \in up \cup down => i >= j
           /\ Flag(rest, x, up, down) = (rest[i] \in up)
  BY <1>1, FlagCases
<1>3. \/ /\ \A i \in DOMAIN es : es[i] \notin up \cup down
         /\ Flag(es, old, up, down) = old
      \/ \E i \in DOMAIN es :
           /\ es[i] \in up \cup down
           /\ \A j \in DOMAIN es : es[j] \in up \cup down => i >= j
           /\ Flag(es, old, up, down) = (es[i] \in up)
  BY FlagCases
<1>4. CASE \A i \in DOMAIN rest : rest[i] \notin up \cup down
  <2>1. Flag(rest, x, up, down) = x
    BY <1>1, <1>4, <1>2, <1>3, Zenon
  <2>2. \A i \in DOMAIN es : i # 1 => es[i] \notin up \cup down
    <3> SUFFICES ASSUME NEW i \in DOMAIN es, i # 1 PROVE es[i] \notin up \cup down
      OBVIOUS
    <3>1. i - 1 \in DOMAIN rest /\ (i - 1) + 1 = i
      BY <1>1
    <3>. QED BY <1>1, <1>4, <3>1
  <2>3. CASE Head(es) \in up \cup down
    <3>1. 1 \in DOMAIN es /\ es[1] \in up \cup down
      BY <1>1, <2>3
    <3>2. PICK k \in DOMAIN es :
            /\ es[k] \in up \cup down
            /\ Flag(es, old, up, down) = (es[k] \in up)
      BY <3>1, <1>2, <1>3, Zenon
    <3>3. k = 1
      BY <2>2, <3>2
    <3>. QED BY <1>1, <2>1, <2>3, <3>2, <3>3, Zenon DEF Sets, rest, x
  <2>4. CASE Head(es) \notin up \cup down
    <3>1. \A i \in DOMAIN es : es[i] \notin up \cup down
      BY <1>1, <2>2, <2>4
    <3>2. Flag(es, old, up, down) = old
      BY <3>1, <1>2, <1>3, Zenon
    <3>. QED BY <2>1, <2>4, <3>2, Zenon DEF Sets, rest, x
  <2>. QED BY <2>3, <2>4
<1>5. CASE \E i \in DOMAIN rest : rest[i] \in up \cup down
  <2>1. PICK i \in DOMAIN rest :
          /\ rest[i] \in up \cup down
          /\ \A j \in DOMAIN rest : rest[j] \in up \cup down => i >= j
          /\ Flag(rest, x, up, down) = (rest[i] \in up)
    BY <1>1, <1>5, <1>2, <1>3, Zenon
  <2>2. i + 1 \in DOMAIN es /\ es[i + 1] = rest[i]
    BY <1>1
  <2>3. PICK k \in DOMAIN es :
          /\ es[k] \in up \cup down
          /\ \A j \in DOMAIN es : es[j] \in up \cup down => k >= j
          /\ Flag(es, old, up, down) = (es[k] \in up)
    BY <2>1, <2>2, <1>2, <1>3, Zenon
  <2>4. k = i + 1
    <3>1. k >= i + 1
      BY <2>1, <2>2, <2>3
    <3>2. k - 1 \in DOMAIN rest /\ rest[k - 1] = es[k]
      BY <1>1, <3>1
    <3>3. i >= k - 1
      BY <2>1, <2>3, <3>2
    <3>. QED BY <1>1, <3>1, <3>3
  <2>. QED BY <2>1, <2>2, <2>3, <2>4, Zenon DEF rest, x
<1>. QED BY <1>4, <1>5, Zenon

-----------------------------------------------------------------------------
\* What the window will have come to believe.

ShownBy(es, x) == Flag(es, x, {"ExecutorStarted"}, {"ExecutorStopped", "Disconnected"})
ConnBy(es, x) == Flag(es, x, {"Connected"}, {"Disconnected"})
AskedBy(cs, x) == Flag(cs, x, {"StartExecutor"}, {"StopExecutor"})

\* A window that shows x, or believes in connection x, and an actor with executor
\* x, after all that is on its way.
Shows(x) == ShownBy(outbox, ShownBy(events, x))
Conns(x) == ConnBy(outbox, ConnBy(events, x))
Asks(x) == AskedBy(sending, AskedBy(commands, x))

\* Reports on their way either leave the executor display alone or leave it right;
\* unless a toggle was dropped, the window will be right about the executor there
\* is or about the one there will be; an actor without a node leaves a window
\* that shows no executor; and the window will be right about the node.
Honest ==
  /\ \/ \A x \in BOOLEAN : Shows(x) = x
     \/ \A x \in BOOLEAN : Shows(x) = handle
  /\ lost \/ Shows(shown) = handle \/ Shows(shown) = Asks(handle)
  /\ phase = "idle" => Shows(shown) = FALSE
  /\ Conns(connected) = (phase # "idle")

\* What the reports that the actor makes on one occasion do to the two flags.
LEMMA ReportFlags ==
  ASSUME NEW x
  PROVE  /\ ShownBy(<<>>, x) = x /\ ConnBy(<<>>, x) = x
         /\ ShownBy(<<"Info">>, x) = x /\ ConnBy(<<"Info">>, x) = x
         /\ ShownBy(<<"Info", "Connected", "Info">>, x) = x
         /\ ConnBy(<<"Info", "Connected", "Info">>, x) = TRUE
         /\ ShownBy(<<"ExecutorStarted", "Info">>, x) = TRUE
         /\ ConnBy(<<"ExecutorStarted", "Info">>, x) = x
         /\ ShownBy(<<"ExecutorStopped", "Info">>, x) = FALSE
         /\ ConnBy(<<"ExecutorStopped", "Info">>, x) = x
         /\ ShownBy(<<"Disconnected">>, x) = FALSE
         /\ ConnBy(<<"Disconnected">>, x) = FALSE
<1> DEFINE up == {"ExecutorStarted"}
           down == {"ExecutorStopped", "Disconnected"}
           S(e, y) == Sets(e, y, up, down)
           C(e, y) == Sets(e, y, {"Connected"}, {"Disconnected"})
<1>1. \A y : /\ S("Info", y) = y /\ C("Info", y) = y
             /\ S("Connected", y) = y /\ C("Connected", y) = TRUE
             /\ S("ExecutorStarted", y) = TRUE /\ C("ExecutorStarted", y) = y
             /\ S("ExecutorStopped", y) = FALSE /\ C("ExecutorStopped", y) = y
             /\ S("Disconnected", y) = FALSE /\ C("Disconnected", y) = FALSE
  BY DEF Sets
<1>2. ShownBy(<<>>, x) = x /\ ConnBy(<<>>, x) = x
  BY FlagEmpty, Zenon DEF ShownBy, ConnBy
<1>3. \A e \in Events, es \in Seq(Events) :
        /\ ShownBy(Append(es, e), x) = S(e, ShownBy(es, x))
        /\ ConnBy(Append(es, e), x) = C(e, ConnBy(es, x))
  BY FlagAppend DEF ShownBy, ConnBy
<1> HIDE DEF S, C
<1>4. \A e \in Events : /\ <<e>> \in Seq(Events) /\ <<e>> = Append(<<>>, e)
                        /\ \A f \in Events :
                             /\ <<e, f>> \in Seq(Events) /\ <<e, f>> = Append(<<e>>, f)
                             /\ \A g \in Events : <<e, f, g>> = Append(<<e, f>>, g)
  OBVIOUS
<1>5. <<>> \in Seq(Events)
  OBVIOUS
<1>6. \A e \in Events : /\ ShownBy(<<e>>, x) = S(e, x)
                        /\ ConnBy(<<e>>, x) = C(e, x)
  <2> TAKE e \in Events
  <2>1. ShownBy(Append(<<>>, e), x) = S(e, x) /\ ConnBy(Append(<<>>, e), x) = C(e, x)
    BY <1>2, <1>3, <1>5, Zenon
  <2>2. <<e>> = Append(<<>>, e)
    BY <1>4
  <2>. QED BY <2>1, <2>2, Zenon
<1>7. \A e, f \in Events : /\ ShownBy(<<e, f>>, x) = S(f, S(e, x))
                           /\ ConnBy(<<e, f>>, x) = C(f, C(e, x))
  <2> TAKE e \in Events, f \in Events
  <2>1. <<e>> \in Seq(Events) /\ <<e, f>> = Append(<<e>>, f)
    BY <1>4
  <2>2. /\ ShownBy(Append(<<e>>, f), x) = S(f, ShownBy(<<e>>, x))
        /\ ConnBy(Append(<<e>>, f), x) = C(f, ConnBy(<<e>>, x))
    BY <1>3, <2>1
  <2>3. ShownBy(<<e>>, x) = S(e, x) /\ ConnBy(<<e>>, x) = C(e, x)
    BY <1>6
  <2>. QED BY <2>1, <2>2, <2>3
<1>8. \A e, f, g \in Events : /\ ShownBy(<<e, f, g>>, x) = S(g, S(f, S(e, x)))
                              /\ ConnBy(<<e, f, g>>, x) = C(g, C(f, C(e, x)))
  <2> TAKE e \in Events, f \in Events, g \in Events
  <2>1. <<e, f>> \in Seq(Events) /\ <<e, f, g>> = Append(<<e, f>>, g)
    BY <1>4
  <2>2. /\ ShownBy(Append(<<e, f>>, g), x) = S(g, ShownBy(<<e, f>>, x))
        /\ ConnBy(Append(<<e, f>>, g), x) = C(g, ConnBy(<<e, f>>, x))
    BY <1>3, <2>1
  <2>3. ShownBy(<<e, f>>, x) = S(f, S(e, x)) /\ ConnBy(<<e, f>>, x) = C(f, C(e, x))
    BY <1>7
  <2>. QED BY <2>1, <2>2, <2>3
<1>9. /\ "Info" \in Events /\ "Connected" \in Events /\ "Disconnected" \in Events
      /\ "ExecutorStarted" \in Events /\ "ExecutorStopped" \in Events
  BY DEF Events
<1>10. /\ ShownBy(<<"Info">>, x) = x /\ ConnBy(<<"Info">>, x) = x
       /\ ShownBy(<<"Disconnected">>, x) = FALSE
       /\ ConnBy(<<"Disconnected">>, x) = FALSE
  BY <1>1, <1>6, <1>9, Zenon
<1>11. /\ ShownBy(<<"ExecutorStarted", "Info">>, x) = TRUE
       /\ ConnBy(<<"ExecutorStarted", "Info">>, x) = x
       /\ ShownBy(<<"ExecutorStopped", "Info">>, x) = FALSE
       /\ ConnBy(<<"ExecutorStopped", "Info">>, x) = x
  <2>1. \A e, f \in Events : ShownBy(<<e, f>>, x) = S(f, S(e, x))
    BY <1>7
  <2>2. \A e, f \in Events : ConnBy(<<e, f>>, x) = C(f, C(e, x))
    BY <1>7
  <2>3. /\ ShownBy(<<"ExecutorStarted", "Info">>, x) = S("Info", S("ExecutorStarted", x))
        /\ ShownBy(<<"ExecutorStopped", "Info">>, x) = S("Info", S("ExecutorStopped", x))
    BY <1>9, <2>1
  <2>4. /\ ConnBy(<<"ExecutorStarted", "Info">>, x) = C("Info", C("ExecutorStarted", x))
        /\ ConnBy(<<"ExecutorStopped", "Info">>, x) = C("Info", C("ExecutorStopped", x))
    BY <1>9, <2>2
  <2>. QED BY <1>1, <2>3, <2>4
<1>12. /\ ShownBy(<<"Info", "Connected", "Info">>, x) = x
       /\ ConnBy(<<"Info", "Connected", "Info">>, x) = TRUE
  <2>1. /\ ShownBy(<<"Info", "Connected", "Info">>, x) = S("Info", S("Connected", S("Info", x)))
        /\ ConnBy(<<"Info", "Connected", "Info">>, x) = C("Info", C("Connected", C("Info", x)))
    BY <1>8, <1>9
  <2>. QED BY <1>1, <2>1
<1>. QED BY <1>2, <1>10, <1>11, <1>12

LEMMA FlagTypes ==
  ASSUME NEW es, NEW x \in BOOLEAN
  PROVE  ShownBy(es, x) \in BOOLEAN /\ ConnBy(es, x) \in BOOLEAN /\ AskedBy(es, x) \in BOOLEAN
BY FlagIsBoolean, Zenon DEF ShownBy, ConnBy, AskedBy

\* An actor that has reported all, and then reports es.
LEMMA ActorReports ==
  ASSUME outbox = <<>>, UNCHANGED events, NEW x
  PROVE  /\ Shows(x) = ShownBy(events, x) /\ Conns(x) = ConnBy(events, x)
         /\ Shows(x)' = ShownBy(outbox', Shows(x))
         /\ Conns(x)' = ConnBy(outbox', Conns(x))
<1>1. ShownBy(<<>>, ShownBy(events, x)) = ShownBy(events, x)
  BY ReportFlags, Zenon
<1>2. ConnBy(<<>>, ConnBy(events, x)) = ConnBy(events, x)
  BY ReportFlags, Zenon
<1>3. Shows(x) = ShownBy(events, x) /\ Conns(x) = ConnBy(events, x)
  BY <1>1, <1>2, Zenon DEF Shows, Conns
<1>. QED BY <1>3, Zenon DEF Shows, Conns, ShownBy, ConnBy

\* Steps that change nothing of what the window will believe.
LEMMA HonestKept ==
  ASSUME TypeOK, Honest, UNCHANGED <<handle, shown, connected, lost>>,
         \A x \in BOOLEAN : Shows(x)' = Shows(x) /\ Conns(x)' = Conns(x),
         Asks(handle)' = Asks(handle) \/ Shows(shown) = handle,
         phase' = "idle" <=> phase = "idle"
  PROVE  Honest'
<1>1. shown \in BOOLEAN /\ connected \in BOOLEAN
  BY DEF TypeOK
<1>2. Shows(shown)' = Shows(shown)
  BY <1>1, Zenon DEF Shows
<1>3. Conns(connected)' = Conns(connected)
  BY <1>1, Zenon DEF Conns
<1>4. \/ \A x \in BOOLEAN : Shows(x)' = x
      \/ \A x \in BOOLEAN : Shows(x)' = handle'
  <2>1. CASE \A x \in BOOLEAN : Shows(x) = x
    BY <2>1, Zenon
  <2>2. CASE \A x \in BOOLEAN : Shows(x) = handle
    BY <2>2, Zenon
  <2>. QED BY <2>1, <2>2, Zenon DEF Honest
<1>5. (lost \/ Shows(shown) = handle \/ Shows(shown) = Asks(handle))'
  BY <1>2, Zenon DEF Honest
<1>6. (phase = "idle" => Shows(shown) = FALSE)'
  BY <1>2, Zenon DEF Honest
<1>7. (Conns(connected) = (phase # "idle"))'
  BY <1>3, Zenon DEF Honest
<1>. QED BY <1>4, <1>5, <1>6, <1>7, Zenon DEF Honest

\* Steps that report what they make of the executor.
LEMMA HonestSet ==
  ASSUME TypeOK, UNCHANGED <<shown, connected>>,
         \A x \in BOOLEAN : Shows(x)' = handle',
         Conns(connected)' = (phase' # "idle"),
         phase' = "idle" => handle' = FALSE
  PROVE  Honest'
<1>1. shown \in BOOLEAN
  BY DEF TypeOK
<1>2. Shows(shown)' = handle'
  BY <1>1, Zenon DEF Shows
<1>. QED BY <1>2, Zenon DEF Honest

LEMMA HonestInit == Init => Honest
<1> SUFFICES ASSUME Init PROVE Honest
  OBVIOUS
<1>1. events = <<>> /\ outbox = <<>> /\ shown = FALSE /\ connected = FALSE
      /\ handle = FALSE /\ phase = "idle"
  BY Zenon DEF Init
<1>2. \A x : Shows(x) = x /\ Conns(x) = x
  BY <1>1, ReportFlags, Zenon DEF Shows, Conns
<1>. QED BY <1>1, <1>2, Zenon DEF Honest

\* A report that reaches the window's channel is still on its way.
LEMMA EmitHonest ==
  ASSUME TypeOK, Honest, Emit
  PROVE  Honest'
<1>1. /\ outbox # <<>> /\ outbox' = Tail(outbox) /\ events' = Append(events, Head(outbox))
      /\ UNCHANGED <<phase, handle, shown, connected, lost, sending, commands>>
  BY DEF Emit, Report, windowVars
<1>2. events \in Seq(Events) /\ outbox \in Seq(Events) /\ Head(outbox) \in Events
  BY <1>1 DEF TypeOK
<1>3. ASSUME NEW x \in BOOLEAN
      PROVE  Shows(x)' = Shows(x) /\ Conns(x)' = Conns(x)
  <2>1. ShownBy(events', x) = Sets(Head(outbox), ShownBy(events, x), {"ExecutorStarted"},
                                   {"ExecutorStopped", "Disconnected"})
    BY <1>1, <1>2, FlagAppend DEF ShownBy
  <2>2. ConnBy(events', x) = Sets(Head(outbox), ConnBy(events, x), {"Connected"},
                                  {"Disconnected"})
    BY <1>1, <1>2, FlagAppend DEF ConnBy
  <2>3. \A y : ShownBy(outbox, y)
                = ShownBy(Tail(outbox), Sets(Head(outbox), y, {"ExecutorStarted"},
                                             {"ExecutorStopped", "Disconnected"}))
    BY <1>1, <1>2, FlagHead DEF ShownBy
  <2>4. \A y : ConnBy(outbox, y)
                = ConnBy(Tail(outbox), Sets(Head(outbox), y, {"Connected"}, {"Disconnected"}))
    BY <1>1, <1>2, FlagHead DEF ConnBy
  <2>5. Shows(x)' = ShownBy(outbox', ShownBy(events', x))
    BY Zenon DEF Shows, ShownBy
  <2>6. Conns(x)' = ConnBy(outbox', ConnBy(events', x))
    BY Zenon DEF Conns, ConnBy
  <2>. QED BY <1>1, <2>1, <2>2, <2>3, <2>4, <2>5, <2>6, Zenon DEF Shows, Conns
<1>4. Asks(handle)' = Asks(handle)
  BY <1>1, Zenon DEF Asks
<1>. QED BY <1>1, <1>3, <1>4, HonestKept

\* Lines for the log change nothing.
LEMMA TaskReportsHonest ==
  ASSUME TypeOK, Honest, TaskReports
  PROVE  Honest'
<1>1. /\ events' = Append(events, "Info")
      /\ UNCHANGED <<outbox, phase, handle, shown, connected, lost, sending, commands>>
  BY DEF TaskReports, Report, windowVars, actorVars
<1>2. events \in Seq(Events) /\ "Info" \in Events
  BY DEF TypeOK, Events
<1>3. ASSUME NEW x \in BOOLEAN
      PROVE  Shows(x)' = Shows(x) /\ Conns(x)' = Conns(x)
  <2>1. ShownBy(events', x) = ShownBy(events, x)
    BY <1>1, <1>2, FlagAppend DEF ShownBy, Sets
  <2>2. ConnBy(events', x) = ConnBy(events, x)
    BY <1>1, <1>2, FlagAppend DEF ConnBy, Sets
  <2>3. Shows(x)' = ShownBy(outbox', ShownBy(events', x))
    BY Zenon DEF Shows, ShownBy
  <2>4. Conns(x)' = ConnBy(outbox', ConnBy(events', x))
    BY Zenon DEF Conns, ConnBy
  <2>. QED BY <1>1, <2>1, <2>2, <2>3, <2>4, Zenon DEF Shows, Conns
<1>4. Asks(handle)' = Asks(handle)
  BY <1>1, Zenon DEF Asks
<1>. QED BY <1>1, <1>3, <1>4, HonestKept

\* The same when a node comes up.
LEMMA HonestUp ==
  ASSUME TypeOK, Honest, UNCHANGED <<handle, shown, connected, lost>>,
         \A x \in BOOLEAN : Shows(x)' = Shows(x),
         Asks(handle)' = Asks(handle) \/ Shows(shown) = handle,
         phase' # "idle", Conns(connected)' = TRUE
  PROVE  Honest'
<1>1. shown \in BOOLEAN
  BY DEF TypeOK
<1>2. Shows(shown)' = Shows(shown)
  BY <1>1, Zenon DEF Shows
<1>3. \/ \A x \in BOOLEAN : Shows(x)' = x
      \/ \A x \in BOOLEAN : Shows(x)' = handle'
  <2>1. CASE \A x \in BOOLEAN : Shows(x) = x
    BY <2>1, Zenon
  <2>2. CASE \A x \in BOOLEAN : Shows(x) = handle
    BY <2>2, Zenon
  <2>. QED BY <2>1, <2>2, Zenon DEF Honest
<1>4. (lost \/ Shows(shown) = handle \/ Shows(shown) = Asks(handle))'
  BY <1>2, Zenon DEF Honest
<1>5. (Conns(connected) = (phase # "idle"))'
  BY Zenon
<1>. QED BY <1>3, <1>4, <1>5, Zenon DEF Honest

\* What is asked of the actor after it has taken command c.
LEMMA ReceivedAsks ==
  ASSUME TypeOK, NEW p, NEW c, Receives(p, c), NEW x
  PROVE  /\ Asks(x) = AskedBy(sending, AskedBy(commands',
                         Sets(c, x, {"StartExecutor"}, {"StopExecutor"})))
         /\ phase = p /\ outbox = <<>>
         /\ UNCHANGED <<events, shown, connected, lost, sending>>
<1>1. /\ commands # <<>> /\ c = Head(commands) /\ commands' = Tail(commands)
      /\ phase = p /\ outbox = <<>>
      /\ UNCHANGED <<events, shown, connected, lost, sending>>
  BY DEF Receives, windowVars
<1>2. AskedBy(commands, x) = AskedBy(Tail(commands),
                               Sets(c, x, {"StartExecutor"}, {"StopExecutor"}))
  BY <1>1, FlagHead DEF TypeOK, AskedBy
<1>. QED BY <1>1, <1>2, Zenon DEF Asks

\* Without a node there is no executor, and the window will show none.
LEMMA IdleIsRight ==
  ASSUME TypeOK, ExecutorIsOwned, Honest, phase = "idle"
  PROVE  handle = FALSE /\ Shows(shown) = handle
<1>1. handle = FALSE
  BY DEF TypeOK, ExecutorIsOwned
<1>. QED BY <1>1, Zenon DEF Honest

LEMMA DropCommandHonest ==
  ASSUME TypeOK, ExecutorIsOwned, Honest, DropCommand
  PROVE  Honest'
<1>1. PICK c \in Commands \ Roles : Receives("idle", c)
  BY DEF DropCommand
<1>2. /\ phase = "idle" /\ UNCHANGED <<events, outbox, phase, handle, shown, connected, lost>>
  BY <1>1, ReceivedAsks DEF DropCommand, actorVars
<1>3. \A x \in BOOLEAN : Shows(x)' = Shows(x) /\ Conns(x)' = Conns(x)
  BY <1>2, Zenon DEF Shows, Conns
<1>4. Shows(shown) = handle
  BY <1>2, IdleIsRight
<1>. QED BY <1>2, <1>3, <1>4, HonestKept

LEMMA StartNodeHonest ==
  ASSUME TypeOK, ExecutorIsOwned, Honest, StartNode
  PROVE  Honest'
<1>1. PICK r \in Roles : Receives("idle", r)
  BY DEF StartNode
<1>2. /\ phase = "idle" /\ outbox = <<>> /\ phase' = "starting"
      /\ outbox' = <<"Info", "Connected", "Info">>
      /\ UNCHANGED <<events, handle, shown, connected, lost>>
  BY <1>1, ReceivedAsks DEF StartNode
<1>3. \A x \in BOOLEAN : Shows(x)' = Shows(x)
  <2> TAKE x \in BOOLEAN
  <2>1. Shows(x)' = ShownBy(outbox', Shows(x))
    BY <1>2, ActorReports
  <2>. QED BY <1>2, <2>1, ReportFlags, Zenon
<1>4. Conns(connected)' = TRUE
  <2>1. PICK x : x = connected
    OBVIOUS
  <2>2. Conns(x)' = ConnBy(outbox', Conns(x))
    BY <1>2, ActorReports
  <2>3. Conns(x)' = TRUE
    BY <1>2, <2>2, ReportFlags, Zenon
  <2>4. connected' = x
    BY <1>2, <2>1
  <2>. QED BY <2>3, <2>4, Zenon DEF Conns
<1>5. Shows(shown) = handle /\ phase' # "idle"
  BY <1>2, IdleIsRight
<1>. QED BY <1>2, <1>3, <1>4, <1>5, HonestUp

LEMMA BindFailsHonest ==
  ASSUME TypeOK, ExecutorIsOwned, Honest, BindFails
  PROVE  Honest'
<1>1. Receives("idle", "Coordinator")
  BY DEF BindFails
<1>2. /\ phase = "idle" /\ outbox = <<>> /\ outbox' = <<"Info">>
      /\ UNCHANGED <<events, phase, handle, shown, connected, lost>>
  BY <1>1, ReceivedAsks DEF BindFails
<1>3. ASSUME NEW x \in BOOLEAN PROVE Shows(x)' = Shows(x) /\ Conns(x)' = Conns(x)
  <2>1. Shows(x)' = ShownBy(outbox', Shows(x)) /\ Conns(x)' = ConnBy(outbox', Conns(x))
    BY <1>2, ActorReports
  <2>. QED BY <1>2, <2>1, ReportFlags, Zenon
<1>4. Shows(shown) = handle
  BY <1>2, IdleIsRight
<1>. QED BY <1>2, <1>3, <1>4, HonestKept

LEMMA EnterLoopHonest ==
  ASSUME TypeOK, ExecutorIsOwned, Honest, EnterLoop
  PROVE  Honest'
<1>1. /\ phase = "starting" /\ outbox = <<>> /\ phase' = "loop"
      /\ UNCHANGED <<events, shown, connected, lost, sending, commands>>
  BY DEF EnterLoop, windowVars
<1>2. Conns(connected) = TRUE
  BY <1>1, Zenon DEF Honest
<1>3. shown \in BOOLEAN /\ connected \in BOOLEAN
  BY DEF TypeOK
<1>4. CASE role = "Worker"
  <2>1. outbox' = <<"ExecutorStarted", "Info">> /\ handle' = TRUE
    BY <1>4, Zenon DEF EnterLoop
  <2>2. ASSUME NEW x \in BOOLEAN PROVE Shows(x)' = handle' /\ Conns(x)' = Conns(x)
    <3>1. Shows(x)' = ShownBy(outbox', Shows(x)) /\ Conns(x)' = ConnBy(outbox', Conns(x))
      BY <1>1, ActorReports
    <3>. QED BY <2>1, <3>1, ReportFlags, Zenon
  <2>3. Conns(connected)' = (phase' # "idle")
    <3>1. Conns(connected)' = Conns(connected)
      BY <1>1, <1>3, <2>2, Zenon DEF Conns
    <3>2. phase' # "idle"
      BY <1>1
    <3>. QED BY <1>2, <3>1, <3>2, Zenon
  <2>4. phase' = "idle" => handle' = FALSE
    BY <1>1
  <2>. QED BY <1>1, <2>2, <2>3, <2>4, HonestSet
<1>5. CASE role # "Worker"
  <2>1. outbox' = outbox /\ handle' = FALSE /\ handle = FALSE
    BY <1>1, <1>5 DEF EnterLoop, TypeOK, ExecutorIsOwned
  <2>2. \A x \in BOOLEAN : Shows(x)' = Shows(x)
    BY <1>1, <2>1, Zenon DEF Shows
  <2>3. Conns(connected)' = TRUE
    BY <1>1, <1>2, <2>1, Zenon DEF Conns
  <2>4. Asks(handle)' = Asks(handle)
    BY <1>1, <2>1, Zenon DEF Asks
  <2>5. phase' # "idle"
    BY <1>1
  <2>. QED BY <1>1, <2>1, <2>2, <2>3, <2>4, <2>5, HonestUp
<1>. QED BY <1>4, <1>5

LEMMA RoundHonest ==
  ASSUME TypeOK, Honest, Round
  PROVE  Honest'
<1>1. /\ outbox = <<>> /\ outbox' = <<"Info">>
      /\ UNCHANGED <<events, phase, handle, shown, connected, lost, sending, commands>>
  BY DEF Round, windowVars
<1>2. ASSUME NEW x \in BOOLEAN PROVE Shows(x)' = Shows(x) /\ Conns(x)' = Conns(x)
  <2>1. Shows(x)' = ShownBy(outbox', Shows(x)) /\ Conns(x)' = ConnBy(outbox', Conns(x))
    BY <1>1, ActorReports
  <2>. QED BY <1>1, <2>1, ReportFlags, Zenon
<1>3. Asks(handle)' = Asks(handle)
  BY <1>1, Zenon DEF Asks
<1>. QED BY <1>1, <1>2, <1>3, HonestKept

\* A toggle that has effect is reported.
LEMMA ToggleHonest ==
  ASSUME TypeOK, Honest, StartExecutor \/ StopExecutor
  PROVE  Honest'
<1>1. PICK c \in {"StartExecutor", "StopExecutor"} : Receives("loop", c)
  BY DEF StartExecutor, StopExecutor
<1>2. /\ phase = "loop" /\ phase' = "loop" /\ outbox = <<>>
      /\ UNCHANGED <<events, shown, connected, lost>>
  BY <1>1, ReceivedAsks DEF StartExecutor, StopExecutor
<1>3. \/ outbox' = <<"ExecutorStarted", "Info">> /\ handle' = TRUE
      \/ outbox' = <<"ExecutorStopped", "Info">> /\ handle' = FALSE
  BY Zenon DEF StartExecutor, StopExecutor
<1>4. ASSUME NEW x \in BOOLEAN PROVE Shows(x)' = handle' /\ Conns(x)' = Conns(x)
  <2>1. Shows(x)' = ShownBy(outbox', Shows(x)) /\ Conns(x)' = ConnBy(outbox', Conns(x))
    BY <1>2, ActorReports
  <2>2. CASE outbox' = <<"ExecutorStarted", "Info">> /\ handle' = TRUE
    BY <2>1, <2>2, ReportFlags, Zenon
  <2>3. CASE outbox' = <<"ExecutorStopped", "Info">> /\ handle' = FALSE
    BY <2>1, <2>3, ReportFlags, Zenon
  <2>. QED BY <1>3, <2>2, <2>3
<1>5. Conns(connected)' = (phase' # "idle")
  <2>1. connected \in BOOLEAN
    BY DEF TypeOK
  <2>2. Conns(connected)' = Conns(connected)
    BY <1>2, <1>4, <2>1, Zenon DEF Conns
  <2>3. Conns(connected) = TRUE /\ phase' # "idle"
    BY <1>2, Zenon DEF Honest
  <2>. QED BY <2>2, <2>3, Zenon
<1>6. phase' = "idle" => handle' = FALSE
  BY <1>2
<1>. QED BY <1>2, <1>4, <1>5, <1>6, HonestSet

\* A toggle without effect asks for what there is.
LEMMA OtherCommandHonest ==
  ASSUME TypeOK, Honest, OtherCommand
  PROVE  Honest'
<1>1. PICK c \in Commands \ {"Disconnect"} :
        /\ Receives("loop", c)
        /\ c \in Toggles => (c = "StartExecutor") = handle
        /\ outbox' \in IF c = "Work" THEN {<<>>, <<"Info">>} ELSE {<<>>}
  BY DEF OtherCommand
<1>2. /\ outbox = <<>> /\ UNCHANGED <<events, shown, connected, lost, sending>>
      /\ Asks(handle) = AskedBy(sending, AskedBy(commands',
                           Sets(c, handle, {"StartExecutor"}, {"StopExecutor"})))
  BY <1>1, ReceivedAsks
<1>3. UNCHANGED <<phase, handle>> /\ (outbox' = <<>> \/ outbox' = <<"Info">>)
  BY <1>1 DEF OtherCommand
<1>4. ASSUME NEW x \in BOOLEAN PROVE Shows(x)' = Shows(x) /\ Conns(x)' = Conns(x)
  <2>1. Shows(x)' = ShownBy(outbox', Shows(x)) /\ Conns(x)' = ConnBy(outbox', Conns(x))
    BY <1>2, ActorReports
  <2>2. CASE outbox' = <<>>
    BY <2>1, <2>2, ReportFlags, Zenon
  <2>3. CASE outbox' = <<"Info">>
    BY <2>1, <2>3, ReportFlags, Zenon
  <2>. QED BY <1>3, <2>2, <2>3
<1>5. Sets(c, handle, {"StartExecutor"}, {"StopExecutor"}) = handle
  <2>1. CASE c \in Toggles
    <3>1. Sets(c, handle, {"StartExecutor"}, {"StopExecutor"}) = (c = "StartExecutor")
      BY <2>1 DEF Sets, Toggles
    <3>. QED BY <1>1, <2>1, <3>1, Zenon
  <2>2. CASE c \notin Toggles
    BY <2>2 DEF Sets, Toggles
  <2>. QED BY <2>1, <2>2
<1>6. Asks(handle)' = Asks(handle)
  BY <1>2, <1>3, <1>5, Zenon DEF Asks
<1>. QED BY <1>2, <1>3, <1>4, <1>6, HonestKept

LEMMA LeaveHonest ==
  ASSUME TypeOK, Honest, Leave
  PROVE  Honest'
<1>1. Receives("loop", "Disconnect")
  BY DEF Leave
<1>2. /\ outbox = <<>> /\ outbox' = <<"Disconnected">> /\ phase' = "idle"
      /\ handle' = FALSE /\ UNCHANGED <<events, shown, connected, lost>>
  BY <1>1, ReceivedAsks, Zenon DEF Leave
<1>3. ASSUME NEW x \in BOOLEAN PROVE Shows(x)' = handle' /\ Conns(x)' = FALSE
  <2>1. Shows(x)' = ShownBy(outbox', Shows(x)) /\ Conns(x)' = ConnBy(outbox', Conns(x))
    BY <1>2, ActorReports
  <2>. QED BY <1>2, <2>1, ReportFlags, Zenon
<1>4. Conns(connected)' = (phase' # "idle")
  <2>1. connected \in BOOLEAN
    BY DEF TypeOK
  <2>. QED BY <1>2, <1>3, <2>1, Zenon DEF Conns
<1>. QED BY <1>2, <1>3, <1>4, HonestSet

-----------------------------------------------------------------------------
\* The window.

\* Reports that take effect leave as many on their way as were behind them.
LEMMA DrainHonest ==
  ASSUME TypeOK, Honest, DrainEvents
  PROVE  Honest'
<1>1. /\ events' = <<>> /\ sending = <<>>
      /\ UNCHANGED <<outbox, phase, handle, sending, commands>>
      /\ shown' = ShownBy(events, shown) /\ connected' = ConnBy(events, connected)
      /\ lost' = (lost /\ "Disconnected" \notin Range(events))
  BY Zenon DEF DrainEvents, Sees, actorVars, ShownBy, ConnBy
<1>2. events \in Seq(Events) /\ outbox \in Seq(Events) /\ shown \in BOOLEAN
      /\ handle \in BOOLEAN
  BY DEF TypeOK
<1>3. \A x : Shows(x)' = ShownBy(outbox, x) /\ Conns(x)' = ConnBy(outbox, x)
  <2>1. \A x : ShownBy(<<>>, x) = x /\ ConnBy(<<>>, x) = x
    BY ReportFlags, Zenon
  <2>. QED BY <1>1, <2>1, Zenon DEF Shows, Conns
<1>4. Shows(shown)' = Shows(shown)
  BY <1>1, <1>3, Zenon DEF Shows
<1>5. Conns(connected)' = Conns(connected)
  BY <1>1, <1>3, Zenon DEF Conns
<1>6. \/ \A x : ShownBy(outbox, x) = x
      \/ \A x, y : ShownBy(outbox, x) = ShownBy(outbox, y)
  BY <1>2, FlagShape DEF ShownBy
<1>7. \/ \A x \in BOOLEAN : Shows(x)' = x
      \/ \A x \in BOOLEAN : Shows(x)' = handle'
  <2>1. CASE \A x : ShownBy(outbox, x) = x
    BY <1>3, <2>1, Zenon
  <2>2. CASE \A x, y : ShownBy(outbox, x) = ShownBy(outbox, y)
    <3>1. \A x, y : Shows(x) = Shows(y)
      BY <2>2, Zenon DEF Shows
    <3>2. ~\A x \in BOOLEAN : Shows(x) = x
      <4>1. Shows(TRUE) = Shows(FALSE)
        BY <3>1, Zenon
      <4>. QED BY <4>1, Zenon
    <3>3. Shows(TRUE) = handle
      BY <3>2, Zenon DEF Honest
    <3>4. \A x : ShownBy(outbox, x) = handle
      BY <2>2, <3>3, Zenon DEF Shows
    <3>. QED BY <1>1, <1>3, <3>4, Zenon
  <2>. QED BY <1>6, <2>1, <2>2
<1>8. (lost \/ Shows(shown) = handle \/ Shows(shown) = Asks(handle))'
  <2>1. Asks(handle)' = Asks(handle)
    BY <1>1, Zenon DEF Asks
  <2>2. CASE lost /\ "Disconnected" \in Range(events)
    <3>1. PICK i \in DOMAIN events : events[i] = "Disconnected"
      BY <2>2 DEF Range
    <3>2. \A x, y : ShownBy(events, x) = ShownBy(events, y)
      BY <3>1, FlagSet DEF ShownBy
    <3>3. \A x, y : Shows(x) = Shows(y)
      <4> TAKE x, y
      <4>1. ShownBy(events, x) = ShownBy(events, y)
        BY <3>2
      <4>. QED BY <4>1, Zenon DEF Shows
    <3>4. ~\A x \in BOOLEAN : Shows(x) = x
      <4>1. Shows(TRUE) = Shows(FALSE)
        BY <3>3, Zenon
      <4>. QED BY <4>1, Zenon
    <3>5. \A x \in BOOLEAN : Shows(x) = handle
      BY <3>4, Zenon DEF Honest
    <3>6. Shows(shown) = handle
      BY <1>2, <3>5, Zenon
    <3>. QED BY <1>1, <1>4, <3>6, Zenon
  <2>3. CASE lost /\ "Disconnected" \notin Range(events)
    BY <1>1, <2>3, Zenon
  <2>4. CASE ~lost
    <3>1. Shows(shown) = handle \/ Shows(shown) = Asks(handle)
      BY <2>4, Zenon DEF Honest
    <3>. QED BY <1>1, <1>4, <2>1, <3>1, Zenon
  <2>. QED BY <2>2, <2>3, <2>4
<1>9. (phase = "idle" => Shows(shown) = FALSE)'
  BY <1>1, <1>4, Zenon DEF Honest
<1>10. (Conns(connected) = (phase # "idle"))'
  BY <1>1, <1>5, Zenon DEF Honest
<1>. QED BY <1>7, <1>8, <1>9, <1>10, Zenon DEF Honest

\* A command that finds room is still on its way, one that is dropped is work or
\* is remembered as lost.
LEMMA SendHonest ==
  ASSUME TypeOK, Honest, Send
  PROVE  Honest'
<1>1. /\ sending # <<>> /\ sending' = Tail(sending)
      /\ UNCHANGED <<outbox, events, phase, handle, connected, shown>>
      /\ \/ commands' = Append(commands, Head(sending)) /\ lost' = lost
         \/ commands' = commands /\ Head(sending) \in Toggles /\ lost' = TRUE
         \/ commands' = commands /\ Head(sending) \notin Toggles /\ lost' = lost
  <2>1. lost \in BOOLEAN
    BY DEF TypeOK
  <2>2. CASE Room(commands)
    <3>1. lost' = lost
      BY <2>1, <2>2, Zenon DEF Send
    <3>. QED BY <2>2, <3>1 DEF Send, actorVars
  <2>3. CASE ~Room(commands)
    <3>1. lost' = (lost \/ Head(sending) \in Toggles)
      BY <2>3, Zenon DEF Send
    <3>2. \/ Head(sending) \in Toggles /\ lost' = TRUE
          \/ Head(sending) \notin Toggles /\ lost' = lost
      <4>1. CASE Head(sending) \in Toggles
        <5>1. lost' = TRUE
          BY <3>1, <4>1, Zenon
        <5>. QED BY <4>1, <5>1
      <4>2. CASE Head(sending) \notin Toggles
        <5>1. lost' = lost
          BY <2>1, <3>1, <4>2
        <5>. QED BY <4>2, <5>1
      <4>. QED BY <4>1, <4>2
    <3>. QED BY <2>3, <3>2 DEF Send, actorVars
  <2>. QED BY <2>2, <2>3
<1>2. commands \in Seq(Commands) /\ sending \in Seq(Commands) /\ Head(sending) \in Commands
  BY <1>1 DEF TypeOK
<1>3. \A y : AskedBy(sending, y) = AskedBy(Tail(sending),
                Sets(Head(sending), y, {"StartExecutor"}, {"StopExecutor"}))
  BY <1>1, <1>2, FlagHead DEF AskedBy
<1>4. \A x \in BOOLEAN : Shows(x)' = Shows(x) /\ Conns(x)' = Conns(x)
  BY <1>1, Zenon DEF Shows, Conns
<1>5. CASE commands' = Append(commands, Head(sending)) /\ lost' = lost
  <2>1. \A x : AskedBy(commands', x) = Sets(Head(sending), AskedBy(commands, x),
                                            {"StartExecutor"}, {"StopExecutor"})
    BY <1>2, <1>5, FlagAppend DEF AskedBy
  <2>2. Asks(handle)' = Asks(handle)
    BY <1>1, <1>3, <2>1, Zenon DEF Asks
  <2>. QED BY <1>1, <1>4, <1>5, <2>2, HonestKept
<1>6. CASE commands' = commands /\ Head(sending) \notin Toggles /\ lost' = lost
  <2>1. \A y : Sets(Head(sending), y, {"StartExecutor"}, {"StopExecutor"}) = y
    BY <1>6 DEF Sets, Toggles
  <2>2. Asks(handle)' = Asks(handle)
    BY <1>1, <1>3, <1>6, <2>1, Zenon DEF Asks
  <2>. QED BY <1>1, <1>4, <1>6, <2>2, HonestKept
<1>7. CASE lost' = TRUE
  <2>1. shown \in BOOLEAN /\ connected \in BOOLEAN
    BY DEF TypeOK
  <2>2. Shows(shown)' = Shows(shown) /\ Conns(connected)' = Conns(connected)
    BY <1>1, <1>4, <2>1, Zenon DEF Shows, Conns
  <2>3. \/ \A x \in BOOLEAN : Shows(x)' = x
        \/ \A x \in BOOLEAN : Shows(x)' = handle'
    <3>1. CASE \A x \in BOOLEAN : Shows(x) = x
      BY <1>4, <3>1, Zenon
    <3>2. CASE \A x \in BOOLEAN : Shows(x) = handle
      BY <1>1, <1>4, <3>2, Zenon
    <3>. QED BY <3>1, <3>2, Zenon DEF Honest
  <2>4. (phase = "idle" => Shows(shown) = FALSE)'
    BY <1>1, <2>2, Zenon DEF Honest
  <2>5. (Conns(connected) = (phase # "idle"))'
    BY <1>1, <2>2, Zenon DEF Honest
  <2>. QED BY <1>7, <2>3, <2>4, <2>5, Zenon DEF Honest
<1>. QED BY <1>1, <1>5, <1>6, <1>7

\* A click that asks for no executor, nor for none.
LEMMA ClickHonest ==
  ASSUME TypeOK, Honest, NEW cs \in Seq(Commands), Click(cs, shown),
         \A i \in DOMAIN cs : cs[i] \notin Toggles
  PROVE  Honest'
<1>1. /\ sending = <<>> /\ sending' = cs /\ shown' = shown
      /\ UNCHANGED <<connected, lost, commands, events, phase, outbox, handle>>
  BY DEF Click, actorVars
<1>2. \A x \in BOOLEAN : Shows(x)' = Shows(x) /\ Conns(x)' = Conns(x)
  BY <1>1, Zenon DEF Shows, Conns
<1>3. \A x : AskedBy(cs, x) = x
  <2> TAKE x
  <2>1. {i \in DOMAIN cs : cs[i] \in {"StartExecutor"} \cup {"StopExecutor"}} = {}
    BY DEF Toggles
  <2>. QED BY <2>1, Zenon DEF AskedBy, Flag
<1>4. \A x : AskedBy(sending, x) = x
  BY <1>1, FlagEmpty, Zenon DEF AskedBy
<1>5. Asks(handle)' = Asks(handle)
  <2>1. Asks(handle)' = AskedBy(cs, AskedBy(commands, handle))
    BY <1>1, Zenon DEF Asks
  <2>2. Asks(handle) = AskedBy(commands, handle)
    BY <1>4 DEF Asks
  <2>. QED BY <1>3, <2>1, <2>2
<1>. QED BY <1>1, <1>2, <1>5, HonestKept

\* A click on the executor shows what it asks for; an actor without a node has
\* told so, as the window has yet to learn.
LEMMA ClickExecutorHonest ==
  ASSUME TypeOK, ExecutorIsOwned, Honest, ClickExecutor
  PROVE  Honest'
<1>1. /\ sending = <<>> /\ connected
      /\ sending' = <<IF shown THEN "StopExecutor" ELSE "StartExecutor">>
      /\ shown' = ~shown
      /\ UNCHANGED <<connected, lost, commands, events, phase, outbox, handle>>
  BY DEF ClickExecutor, Click, actorVars
<1>2. shown \in BOOLEAN /\ connected \in BOOLEAN /\ shown' \in BOOLEAN
  BY <1>1 DEF TypeOK
<1>3. \A x : Shows(x)' = Shows(x) /\ Conns(x)' = Conns(x)
  BY <1>1, Zenon DEF Shows, Conns
<1>4. \A x : AskedBy(sending', x) = shown'
  <2> TAKE x
  <2>1. PICK c : c = IF shown THEN "StopExecutor" ELSE "StartExecutor"
    OBVIOUS
  <2>2. c \in Commands /\ sending' = Append(<<>>, c) /\ <<>> \in Seq(Commands)
    BY <1>1, <2>1 DEF Commands, Toggles
  <2>3. AskedBy(sending', x) = Sets(c, AskedBy(<<>>, x), {"StartExecutor"}, {"StopExecutor"})
    <3>1. \A cs \in Seq(Commands) :
            AskedBy(Append(cs, c), x)
              = Sets(c, AskedBy(cs, x), {"StartExecutor"}, {"StopExecutor"})
      BY <2>2, FlagAppend DEF AskedBy
    <3>. QED BY <2>2, <3>1, Zenon
  <2>4. CASE shown
    <3>1. c = "StopExecutor" /\ shown' = FALSE
      BY <1>1, <2>1, <2>4
    <3>2. \A y : Sets(c, y, {"StartExecutor"}, {"StopExecutor"}) = FALSE
      BY <3>1 DEF Sets
    <3>. QED BY <2>3, <3>1, <3>2, Zenon
  <2>5. CASE ~shown
    <3>1. c = "StartExecutor" /\ shown' = TRUE
      BY <1>1, <2>1, <2>5
    <3>2. \A y : Sets(c, y, {"StartExecutor"}, {"StopExecutor"}) = TRUE
      BY <3>1 DEF Sets
    <3>. QED BY <2>3, <3>1, <3>2, Zenon
  <2>. QED BY <2>4, <2>5
<1>5. Asks(handle)' = shown'
  BY <1>4, Zenon DEF Asks
<1>6. Shows(shown)' = Shows(shown')
  BY <1>1, Zenon DEF Shows
<1>7. Shows(shown') = shown' \/ \A x \in BOOLEAN : Shows(x) = handle
  BY <1>2, Zenon DEF Honest
<1>8. (lost \/ Shows(shown) = handle \/ Shows(shown) = Asks(handle))'
  <2>1. CASE Shows(shown') = shown'
    BY <1>5, <1>6, <2>1, Zenon
  <2>2. CASE \A x \in BOOLEAN : Shows(x) = handle
    <3>1. Shows(shown') = handle
      BY <1>2, <2>2
    <3>. QED BY <1>1, <1>6, <3>1, Zenon
  <2>. QED BY <1>7, <2>1, <2>2
<1>9. (phase = "idle" => Shows(shown) = FALSE)'
  <2> SUFFICES ASSUME phase = "idle" PROVE Shows(shown') = FALSE
    BY <1>1, <1>6, Zenon
  <2>1. handle = FALSE
    BY IdleIsRight
  <2>2. connected = TRUE
    BY <1>1, <1>2
  <2>3. Conns(TRUE) = FALSE
    <3>1. (phase # "idle") = FALSE
      OBVIOUS
    <3>2. Conns(connected) = FALSE
      BY <3>1, Zenon DEF Honest
    <3>. QED BY <2>2, <3>2, Zenon
  <2>4. \A x, y : Shows(x) = Shows(y)
    <3> DEFINE Told(es) == \A x, y : ShownBy(es, x) = ShownBy(es, y)
    <3>1. ASSUME NEW es \in Seq(Events), NEW b, b # FALSE, ConnBy(es, b) = FALSE
          PROVE  Told(es)
      <4>1. PICK i \in DOMAIN es : es[i] \in {"Disconnected"}
        BY <3>1, FlagLowered DEF ConnBy
      <4>2. es[i] = "Disconnected"
        BY <4>1
      <4>. QED BY <4>2, FlagSet DEF ShownBy
    <3>2. events \in Seq(Events) /\ outbox \in Seq(Events)
      BY DEF TypeOK
    <3>3. ConnBy(events, TRUE) \in BOOLEAN
      BY FlagTypes
    <3>4. CASE ConnBy(events, TRUE) = FALSE
      <4>1. Told(events)
        BY <3>1, <3>2, <3>4
      <4>2. \A x, y : ShownBy(events, x) = ShownBy(events, y)
        BY <4>1
      <4> TAKE x, y
      <4>3. ShownBy(events, x) = ShownBy(events, y)
        BY <4>2
      <4>. QED BY <4>3, Zenon DEF Shows
    <3>5. CASE ConnBy(events, TRUE) = TRUE
      <4>1. ConnBy(outbox, TRUE) = FALSE
        BY <2>3, <3>5, Zenon DEF Conns
      <4>2. Told(outbox)
        BY <3>1, <3>2, <4>1
      <4>. QED BY <4>2, Zenon DEF Shows
    <3>. QED BY <3>3, <3>4, <3>5
  <2>5. \A x \in BOOLEAN : Shows(x) = handle
    <3>1. Shows(TRUE) = Shows(FALSE)
      BY <2>4
    <3>2. ~\A x \in BOOLEAN : Shows(x) = x
      BY <3>1, Zenon
    <3>. QED BY <3>2, Zenon DEF Honest
  <2>6. Shows(shown') = handle
    BY <1>2, <2>5
  <2>. QED BY <2>1, <2>6
<1>10. (Conns(connected) = (phase # "idle"))'
  <2>1. Conns(connected)' = Conns(connected)
    BY <1>1, Zenon DEF Conns
  <2>. QED BY <1>1, <2>1, Zenon DEF Honest
<1>11. \/ \A x \in BOOLEAN : Shows(x)' = x
       \/ \A x \in BOOLEAN : Shows(x)' = handle'
  <2>1. CASE \A x \in BOOLEAN : Shows(x) = x
    BY <1>3, <2>1, Zenon
  <2>2. CASE \A x \in BOOLEAN : Shows(x) = handle
    BY <1>1, <1>3, <2>2, Zenon
  <2>. QED BY <2>1, <2>2, Zenon DEF Honest
<1>. QED BY <1>8, <1>9, <1>10, <1>11, Zenon DEF Honest

LEMMA WindowHonest ==
  ASSUME TypeOK, ExecutorIsOwned, Honest, Window
  PROVE  Honest'
<1>1. CASE DrainEvents \/ Send \/ ClickExecutor
  BY <1>1, DrainHonest, SendHonest, ClickExecutorHonest
<1>2. CASE \E m \in Roles : PickMode(m)
  <2>1. UNCHANGED <<shown, connected, lost, sending, commands, events, outbox, phase, handle>>
    BY <1>2 DEF PickMode, actorVars
  <2>2. \A x \in BOOLEAN : Shows(x)' = Shows(x) /\ Conns(x)' = Conns(x)
    BY <2>1, Zenon DEF Shows, Conns
  <2>3. Asks(handle)' = Asks(handle)
    BY <2>1, Zenon DEF Asks
  <2>. QED BY <2>1, <2>2, <2>3, HonestKept
<1>3. CASE ClickConnect
  <2>1. nodeMode \in Roles
    BY DEF TypeOK
  <2>2. /\ <<nodeMode>> \in Seq(Commands)
        /\ \A i \in DOMAIN <<nodeMode>> : <<nodeMode>>[i] \notin Toggles
    BY <2>1 DEF Commands, Roles, Toggles
  <2>. QED BY <1>3, <2>2, ClickHonest DEF ClickConnect
<1>4. CASE ClickDisconnect
  <2>1. /\ <<"Disconnect">> \in Seq(Commands)
        /\ \A i \in DOMAIN <<"Disconnect">> : <<"Disconnect">>[i] \notin Toggles
    BY DEF Commands, Toggles
  <2>. QED BY <1>4, <2>1, ClickHonest DEF ClickDisconnect
<1>5. CASE SubmitWork
  <2>1. PICK k \in 1..BatchSize : Click([i \in 1..k |-> "Work"], shown)
    BY <1>5 DEF SubmitWork
  <2> DEFINE cs == [i \in 1..k |-> "Work"]
  <2>2. /\ cs \in Seq(Commands)
        /\ \A i \in DOMAIN cs : cs[i] \notin Toggles
    BY DEF Commands, Toggles
  <2>. QED BY <2>1, <2>2, ClickHonest
<1>. QED BY <1>1, <1>2, <1>3, <1>4, <1>5 DEF Window

LEMMA HonestStep == TypeOK /\ ExecutorIsOwned /\ Honest /\ [Next]_vars => Honest'
<1> SUFFICES ASSUME TypeOK, ExecutorIsOwned, Honest, [Next]_vars PROVE Honest'
  OBVIOUS
<1>1. CASE UNCHANGED vars
  <2>1. UNCHANGED <<shown, connected, lost, sending, commands, events, outbox, phase, handle>>
    BY <1>1 DEF vars, windowVars, actorVars
  <2>2. \A x \in BOOLEAN : Shows(x)' = Shows(x) /\ Conns(x)' = Conns(x)
    BY <2>1, Zenon DEF Shows, Conns
  <2>3. Asks(handle)' = Asks(handle)
    BY <2>1, Zenon DEF Asks
  <2>. QED BY <2>1, <2>2, <2>3, HonestKept
<1>. QED
  BY <1>1, WindowHonest, EmitHonest, DropCommandHonest, StartNodeHonest, BindFailsHonest,
     EnterLoopHonest, RoundHonest, ToggleHonest, OtherCommandHonest, LeaveHonest,
     TaskReportsHonest DEF Next, Actor

\* Whatever the user clicks, whatever is dropped for want of room and however long
\* reports wait for it, once nothing is on its way the window is right about the
\* node and, unless a toggle was dropped, about the executor.
THEOREM QuietWindowsAreRight == Spec => []QuietWindowIsRight
<1>1. TypeOK /\ ExecutorIsOwned /\ Honest => QuietWindowIsRight
  <2> SUFFICES ASSUME TypeOK, ExecutorIsOwned, Honest, Quiet
               PROVE  /\ connected = (phase = "loop")
                      /\ lost \/ shown = (running > 0)
    BY DEF QuietWindowIsRight
  <2>1. /\ sending = <<>> /\ commands = <<>> /\ events = <<>> /\ outbox = <<>>
        /\ phase # "starting"
    BY DEF Quiet
  <2>2. \A x : /\ Shows(x) = x /\ Conns(x) = x
    BY <2>1, ReportFlags, Zenon DEF Shows, Conns
  <2>3. \A x : Asks(x) = x
    <3>1. \A x : AskedBy(<<>>, x) = x
      BY FlagEmpty, Zenon DEF AskedBy
    <3>. QED BY <2>1, <3>1, Zenon DEF Asks
  <2>4. connected = (phase = "loop")
    <3>1. connected = (phase # "idle")
      BY <2>2, Zenon DEF Honest
    <3>2. (phase # "idle") = (phase = "loop")
      BY <2>1 DEF TypeOK
    <3>. QED BY <3>1, <3>2, Zenon
  <2>5. lost \/ shown = handle
    <3>1. Shows(shown) = shown /\ Asks(handle) = handle
      BY <2>2, <2>3
    <3>2. lost \/ Shows(shown) = handle \/ Shows(shown) = Asks(handle)
      BY Zenon DEF Honest
    <3>. QED BY <3>1, <3>2, Zenon
  <2>6. handle = (running > 0)
    <3>1. CASE handle
      <4>1. running > 0
        BY <3>1 DEF ExecutorIsOwned
      <4>. QED BY <3>1, <4>1 DEF TypeOK
    <3>2. CASE ~handle
      <4>1. ~(running > 0)
        BY <3>2 DEF ExecutorIsOwned
      <4>. QED BY <3>2, <4>1 DEF TypeOK
    <3>. QED BY <3>1, <3>2
  <2>. QED BY <2>4, <2>5, <2>6, Zenon
<1>. QED
  BY <1>1, HonestInit, HonestStep, OneExecutor, SessionTypes, PTL DEF Spec

=============================================================================
